----------------------------- MODULE TdataImport -----------------------------
(***************************************************************************)
(* tools/import_tdata.py: a Telegram Desktop folder is copied into a       *)
(* private directory (importers/tdata/preflight.py), parsed from there     *)
(* (parser.py), verified against Telegram and handed to the API under a    *)
(* one-time ticket (handoff.py).                                           *)
(*                                                                         *)
(* Telegram Desktop may be running: it writes, creates, moves and deletes  *)
(* files of the folder between any two steps of the tool, and may put back *)
(* what was there before.  A file is named by its path below the folder;   *)
(* what the tool learns of each, that it is listed and what is in it, are  *)
(* steps of their own, since the directories are scanned one after another *)
(* and the files read after that.  A file that the operating system reads  *)
(* in several chunks stands for several entries.  A digest is the names    *)
(* and contents it was taken of.                                           *)
(* What the tool refuses for the sake of the data (links, special files,   *)
(* sizes, paths outside of the folder, formats, the passcode, the identity *)
(* Telegram answers) and every failure of a call is Abort.                 *)
(***************************************************************************)
EXTENDS Naturals

CONSTANTS
    Files,         \* the paths of files in the folder
    Rank,          \* the order of their sorting
    KeyDatas,      \* the file every tdata folder has
    Values,        \* what a file may contain
    MaxChanges,    \* bound of the changes to the folder
    MaxRuns,       \* bound of the tool's runs
    None

States == Values \cup {None}
Contents == [Files -> States]

ASSUME TdataAssumption ==
    /\ Rank \in [Files -> Nat] /\ KeyDatas \in Files
    /\ \A f, g \in Files : Rank[f] = Rank[g] => f = g
    /\ MaxChanges \in Nat /\ MaxRuns \in Nat
    /\ None \notin Values /\ None \notin Contents

VARIABLES
    folder,        \* the content of each file of the source, None without one
    changes,       \* how often it was changed
    pc, runs,      \* where the tool is, and how often it was started
    pass,          \* which reading of the source it is in
    unlisted,      \* the paths this pass has not come by yet
    listing,       \* the files it found
    seen,          \* the contents read in this pass
    digest,        \* those of the first pass
    copy,          \* the private copy, None without one
    handed,        \* the folders whose sessions the API was handed
    had,           \* history: what each file has been in this run,
    captured,      \* the source at the end of the first pass,
    unsteady       \* the files that went back to what they had been, or were passed over

source == <<folder, changes>>
reading == <<pass, unlisted, listing, seen>>
history == <<had, captured, unsteady>>
vars == <<source, reading, history, pc, runs, digest, copy, handed>>

Empty == [f \in Files |-> None]

Init ==
    /\ folder \in Contents /\ changes = 0
    /\ pc = "idle" /\ runs = 0 /\ pass = "capture"
    /\ unlisted = {} /\ listing = {}
    /\ seen = Empty /\ digest = Empty /\ copy = None /\ handed = {}
    /\ had = [f \in Files |-> {}] /\ captured = Empty /\ unsteady = {}

----------------------------------------------------------------------------
(* Telegram Desktop.                                                       *)

Become(f, s) ==
    /\ changes < MaxChanges /\ changes' = changes + 1
    /\ folder' = [folder EXCEPT ![f] = s]
    /\ had' = [had EXCEPT ![f] = @ \cup {s}]
    /\ unsteady' = IF s \in had[f] THEN unsteady \cup {f} ELSE unsteady
    /\ UNCHANGED <<reading, captured, pc, runs, digest, copy, handed>>

Write(f) == \E value \in Values \ {folder[f]} : Become(f, value)

Delete(f) == folder[f] # None /\ Become(f, None)

----------------------------------------------------------------------------
(* Reading the source.                                                     *)

BeginPass(p) ==
    /\ pc' = "pass" /\ pass' = p
    /\ unlisted' = Files /\ listing' = {} /\ seen' = Empty

\* The configuration was accepted and the temporary directory made.
Start ==
    /\ pc = "idle" /\ runs < MaxRuns
    /\ BeginPass("capture") /\ runs' = runs + 1
    /\ had' = [f \in Files |-> {folder[f]}] /\ unsteady' = {}
    /\ UNCHANGED <<source, captured, digest, copy, handed>>

Present(f) == folder[f] # None

\* rglob comes by a path, in any order: a file that is there by then is listed, unless its
\* directory cannot be scanned, which rglob passes over.
ListEntry(f) ==
    /\ pc = "pass" /\ f \in unlisted
    /\ unlisted' = unlisted \ {f}
    /\ \/ Present(f) /\ listing' = listing \cup {f} /\ UNCHANGED unsteady
       \/ ~Present(f) /\ UNCHANGED <<listing, unsteady>>
       \/ Present(f) /\ unsteady' = unsteady \cup {f} /\ UNCHANGED listing
    /\ UNCHANGED <<source, pass, seen, had, captured, pc, runs, digest, copy, handed>>

\* f is the next of the sorted listing that read does not have yet, and is there; one
\* that has gone is refused.
NextFile(f, read) ==
    /\ f \in listing /\ read[f] = None
    /\ \A g \in listing : read[g] = None => Rank[f] <= Rank[g]
    /\ Present(f)
ReadAll(read) == \A f \in listing : read[f] # None

\* After the listing, one file more is added to the digest.
ReadRegularFile(f) ==
    /\ pc = "pass" /\ unlisted = {} /\ NextFile(f, seen)
    /\ seen' = [seen EXCEPT ![f] = folder[f]]
    /\ UNCHANGED <<source, pass, unlisted, listing, history, pc, runs, digest, copy, handed>>

\* A pass ends after the last file, in a folder that is a tdata folder.
PassDone ==
    /\ pc = "pass" /\ unlisted = {} /\ ReadAll(seen)
    /\ KeyDatas \in listing

----------------------------------------------------------------------------
(* The private copy.                                                       *)

\* The first pass is the captured digest; the empty destination is made.
Capture ==
    /\ PassDone /\ pass = "capture"
    /\ digest' = seen /\ copy' = Empty /\ captured' = folder
    /\ pc' = "copy"
    /\ UNCHANGED <<source, reading, had, unsteady, runs, handed>>

CopyRegularFile(f) ==
    /\ pc = "copy" /\ NextFile(f, copy)
    /\ copy' = [copy EXCEPT ![f] = folder[f]]
    /\ UNCHANGED <<source, reading, history, pc, runs, digest, handed>>

\* The copy, which nobody else writes, must have the captured digest.
VerifyCopy ==
    /\ pc = "copy" /\ ReadAll(copy)
    /\ copy = digest
    /\ BeginPass("recheck")
    /\ UNCHANGED <<source, history, runs, digest, copy, handed>>

\* Mutant: only the key file is compared again.
SameKeyDatas == seen[KeyDatas] = digest[KeyDatas]

\* assert_source_unchanged, after its pass.
Unchanged == seen = digest

\* prepare_tdata_copy returns; parse_tdata begins with a pass of its own.
Recheck ==
    /\ PassDone /\ pass = "recheck" /\ Unchanged
    /\ BeginPass("parse")
    /\ UNCHANGED <<source, history, runs, digest, copy, handed>>

\* The local key and the authorization are decrypted from the copy.
ParseTdata ==
    /\ PassDone /\ pass = "parse" /\ Unchanged
    /\ pc' = "verify"
    /\ UNCHANGED <<source, reading, history, runs, digest, copy, handed>>

----------------------------------------------------------------------------
(* Handing over.                                                           *)

\* Telegram knows the session, as the user that the folder names.
VerifySession ==
    /\ pc = "verify"
    /\ pc' = "ticket"
    /\ UNCHANGED <<source, reading, history, runs, digest, copy, handed>>

PostTicket ==
    /\ pc = "ticket"
    /\ pc' = "handoff"
    /\ UNCHANGED <<source, reading, history, runs, digest, copy, handed>>

\* The end of a run, by return or by an exception: the temporary directory is removed,
\* and the locals go.
EndRun ==
    /\ pc' = "idle" /\ pass' = "capture"
    /\ unlisted' = {} /\ listing' = {} /\ seen' = Empty /\ digest' = Empty
    /\ copy' = None
    /\ had' = [f \in Files |-> {}] /\ captured' = Empty /\ unsteady' = {}

Handoffs == [folder : Contents, captured : Contents,
             had : [Files -> SUBSET States], unsteady : SUBSET Files]

\* The API takes the session; the run ends whether or not the answer arrives.
PostHandoff ==
    /\ pc = "handoff"
    /\ handed' = handed \cup {[folder |-> copy, captured |-> captured,
                               had |-> had, unsteady |-> unsteady]}
    /\ EndRun
    /\ UNCHANGED <<source, runs>>

\* Mutant: the exception leaves the copy behind.
AbortInPlace ==
    /\ pc # "idle"
    /\ pc' = "idle"
    /\ UNCHANGED <<source, reading, history, runs, digest, copy, handed>>

\* A refusal or a failure of any step.
Abort ==
    /\ pc # "idle"
    /\ EndRun
    /\ UNCHANGED <<source, runs, handed>>

Desktop == \E f \in Files : Write(f) \/ Delete(f)
List == \E f \in Files : ListEntry(f)
ReadFile == \E f \in Files : ReadRegularFile(f)
CopyFile == \E f \in Files : CopyRegularFile(f)
Prepare == Start \/ List \/ ReadFile \/ Capture \/ CopyFile \/ VerifyCopy \/ Recheck
Import == ParseTdata \/ VerifySession \/ PostTicket \/ PostHandoff

Next == Desktop \/ Prepare \/ Import \/ Abort

Spec == Init /\ [][Next]_vars

----------------------------------------------------------------------------
(* Properties.                                                             *)

\* The types of the folder, its readings and the copy, which exists from mkdir on and,
\* however a run ends, not after it.
TypeOK ==
    /\ folder \in Contents /\ changes \in Nat
    /\ pc \in {"idle", "pass", "copy", "verify", "ticket", "handoff"}
    /\ pass \in {"capture", "recheck", "parse"} /\ runs \in Nat
    /\ unlisted \subseteq Files /\ listing \subseteq Files
    /\ pc \in {"idle", "copy"} => pass = "capture"
    /\ seen \in Contents /\ digest \in Contents
    /\ copy \in Contents \cup {None} /\ handed \subseteq Handoffs
    /\ had \in [Files -> SUBSET States] /\ captured \in Contents /\ unsteady \subseteq Files
    /\ copy = None <=> pc = "idle" \/ (pc = "pass" /\ pass = "capture")

\* What the API is handed is the source as it was at one moment, the end of the first
\* pass, whatever was written, created, moved or deleted while the tool listed, read and
\* copied (assert_source_unchanged: "Fail closed when the source tree differs from the
\* captured source").  Exempt are the files that in this run went back to an earlier
\* content, came back or went again, and those in a directory that a listing could not
\* scan: comparing digests does not show them.  Of these too, no content is handed that
\* the file did not have in this run.
ImportedIsSnapshot ==
    \A h \in handed : \A f \in Files :
        /\ f \notin h.unsteady => h.folder[f] = h.captured[f]
        /\ h.folder[f] \in h.had[f] \cup {None}
=============================================================================
