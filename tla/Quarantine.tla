------------------------------ MODULE Quarantine ------------------------------
(***************************************************************************)
(* An uploaded session file in quarantine (quarantine.py) and its          *)
(* conversion by the tdata adapter (adapters/tdata.py).                    *)
(*                                                                         *)
(* A processor remembers inode and digest of the file when it captures it, *)
(* and comes back later: between its steps the file may be overwritten,    *)
(* replaced, linked away or removed, also by another processor that        *)
(* captured the same path.  An upload is a bare session envelope or an     *)
(* archive of one.  Archives are sequences of members; ZIP and TAR are     *)
(* validated by the same rules.  A member is known by its normalized name, *)
(* and the bytes of a file by their length and by whether they begin with  *)
(* the header of an envelope.  An upload that is neither is a bare one     *)
(* without that header: both are refused.                                  *)
(***************************************************************************)
EXTENDS Naturals, Sequences

CONSTANTS
    Processors,    \* calls of convert_and_store, each with an upload of its own
    MaxMembers,    \* members of an archive, 16 in the code
    MaxBytes,      \* max_uncompressed_bytes
    Header,        \* the length of an envelope's signature and schema version
    Uploads,       \* what is uploaded
    Decoys,        \* what others put at the path
    MaxChanges,    \* bound of the changes to the path
    Link, None

Blobs == [header : BOOLEAN, size : 0..MaxBytes + Header + 1]
Names == {"session", "other"}
Members == [kind : {"file"}, name : Names, body : Blobs]
           \cup [kind : {"dir", "special"}, name : Names]
Archives == UNION {[1..n -> Members] : n \in 0..MaxMembers + 1}
Payloads == [form : {"bare"}, blob : Blobs] \cup [form : {"archive"}, members : Archives]

ASSUME QuarantineAssumption ==
    /\ MaxMembers \in Nat /\ MaxBytes \in Nat /\ Header \in Nat /\ MaxChanges \in Nat
    /\ Uploads \subseteq Payloads /\ Decoys \subseteq Payloads
    /\ Link # None /\ None \notin Blobs

VARIABLES
    file,          \* what is at the path
    inodes,        \* the inodes given out
    pc, upload,    \* each processor's step, and what it captured
    held,          \* the upload it holds in memory
    stored         \* the envelope whose session it has put into the store

vars == <<file, inodes, pc, upload, held, stored>>

RegularFiles == [inode : Nat, payload : Payloads]
Regular == file \notin {None, Link}

Init ==
    /\ \E payload \in Uploads : file = [inode |-> 1, payload |-> payload]
    /\ inodes = 1
    /\ pc = [p \in Processors |-> "new"]
    /\ upload = [p \in Processors |-> None]
    /\ held = [p \in Processors |-> None]
    /\ stored = [p \in Processors |-> None]

Goto(p, l) == pc' = [pc EXCEPT ![p] = l]

----------------------------------------------------------------------------
(* Whoever else has access to the directory.                               *)

Change ==
    /\ inodes <= MaxChanges
    /\ inodes' = inodes + 1
    /\ \/ \E payload \in Decoys : file' = [inode |-> inodes', payload |-> payload]
       \/ Regular /\ \E payload \in Decoys : file' = [file EXCEPT !.payload = payload]
       \/ file' = Link
       \/ file' = None
    /\ UNCHANGED <<pc, upload, held, stored>>

----------------------------------------------------------------------------
(* The adapter.                                                            *)

Start == [ok |-> TRUE, seen |-> {}, total |-> 0, body |-> None]

\* One round of the loop over the members.
Inspect(r, m) ==
    IF ~r.ok \/ m.name \in r.seen \/ m.kind = "special" THEN [r EXCEPT !.ok = FALSE]
    ELSE IF m.kind = "dir" THEN [r EXCEPT !.seen = @ \cup {m.name}]
    ELSE [ok |-> r.total + m.body.size <= MaxBytes /\ m.name = "session" /\ r.body = None,
          seen |-> r.seen \cup {m.name}, total |-> r.total + m.body.size, body |-> m.body]

\* The loop: scan[n] is what the first n members leave behind.
Scan(archive) ==
    LET scan[n \in 0..Len(archive)] ==
            IF n = 0 THEN Start ELSE Inspect(scan[n - 1], archive[n])
    IN  scan[Len(archive)]

\* The bytes of the session member, None when the archive is rejected.
ArchiveMemberPayload(archive) ==
    LET r == Scan(archive)
    IN  IF Len(archive) <= MaxMembers /\ r.ok THEN r.body ELSE None

\* Signature and version, and a body within the limit.
ValidEnvelope(blob) == blob.header /\ blob.size > Header /\ blob.size - Header <= MaxBytes

\* What the converter is given, of a bare envelope or of an archive; None when refused.
ValidatedPayload(payload) ==
    LET blob == IF payload.form = "bare" THEN payload.blob
                ELSE ArchiveMemberPayload(payload.members)
    IN  IF blob # None /\ ValidEnvelope(blob) THEN blob ELSE None

----------------------------------------------------------------------------
(* The processor.                                                          *)

Capture(p) ==
    /\ pc[p] = "new" /\ Regular
    /\ upload' = [upload EXCEPT ![p] = file]
    /\ Goto(p, "captured")
    /\ UNCHANGED <<file, inodes, held, stored>>

\* Mutant: the file is read while its path is validated.
ReadEarly(p) ==
    /\ pc[p] = "captured"
    /\ Goto(p, IF Regular THEN "verify" ELSE "refused")
    /\ held' = [held EXCEPT ![p] = IF Regular THEN file.payload ELSE None]
    /\ UNCHANGED <<file, inodes, upload, stored>>

\* A path that is not a regular file of the quarantine is left alone.
ValidatedOriginalPath(p) ==
    /\ pc[p] = "captured"
    /\ Goto(p, IF Regular THEN "verify" ELSE "refused")
    /\ UNCHANGED <<file, inodes, upload, held, stored>>

\* Mutant: the digest is not compared.
SameFile(p) == Regular /\ file.inode = upload[p].inode

\* Size, digest, device and inode are those that were captured.
Matches(p) == Regular /\ file = upload[p]

\* Reading and comparing; what is converted later is what was read here.
VerifiedPayload(p) ==
    /\ pc[p] = "verify"
    /\ \/ /\ Matches(p)
          /\ held' = [held EXCEPT ![p] = file.payload]
          /\ Goto(p, "convert")
       \/ /\ ~Matches(p)
          /\ Goto(p, "unlink")
          /\ UNCHANGED held
    /\ UNCHANGED <<file, inodes, upload, stored>>

\* The adapter rejects the upload, or its converter answers after a while or fails.
Convert(p) ==
    /\ pc[p] = "convert"
    /\ \/ ValidatedPayload(held[p]) # None /\ Goto(p, "put")
       \/ Goto(p, "unlink")
    /\ UNCHANGED <<file, inodes, upload, held, stored>>

\* The store encrypts and saves the session, or fails.
Put(p) ==
    /\ pc[p] = "put"
    /\ \/ stored' = [stored EXCEPT ![p] = ValidatedPayload(held[p])]
       \/ UNCHANGED stored
    /\ Goto(p, "unlink")
    /\ UNCHANGED <<file, inodes, upload, held>>

\* Mutant: only an upload that was stored is removed.
UnlinkStored(p) ==
    /\ pc[p] = "unlink"
    /\ file' = IF stored[p] # None THEN None ELSE file
    /\ Goto(p, "done")
    /\ UNCHANGED <<inodes, upload, held, stored>>

\* finally: whatever is at the path now.
Unlink(p) ==
    /\ pc[p] = "unlink"
    /\ file' = None
    /\ Goto(p, "done")
    /\ UNCHANGED <<inodes, upload, held, stored>>

ConvertAndStore(p) ==
    ValidatedOriginalPath(p) \/ VerifiedPayload(p) \/ Convert(p) \/ Put(p) \/ Unlink(p)

Next == Change \/ \E p \in Processors : Capture(p) \/ ConvertAndStore(p)

Spec == Init /\ [][Next]_vars

----------------------------------------------------------------------------
(* Properties.                                                             *)

Steps == {"new", "captured", "verify", "convert", "put", "unlink", "done", "refused"}

\* The types of the path and of the processors; only a conversion in progress, or a
\* finished one, holds an upload, and only a finished one has stored it.
TypeOK ==
    /\ file \in RegularFiles \cup {Link, None} /\ inodes \in Nat
    /\ pc \in [Processors -> Steps]
    /\ upload \in [Processors -> RegularFiles \cup {None}]
    /\ held \in [Processors -> Payloads \cup {None}]
    /\ stored \in [Processors -> Blobs \cup {None}]
    /\ \A p \in Processors :
          /\ pc[p] \in {"new", "captured", "verify", "refused"} => held[p] = None
          /\ stored[p] # None => pc[p] \in {"unlink", "done"}

\* What an importable archive is, said at once and not member by member, and what an
\* envelope is, said by the length of its body.
SessionsOf(archive) == {i \in 1..Len(archive) : archive[i].kind = "file"}
Importable(archive) ==
    /\ Len(archive) <= MaxMembers
    /\ \A i, j \in 1..Len(archive) : archive[i].name = archive[j].name => i = j
    /\ \A i \in 1..Len(archive) : archive[i].kind # "special"
    /\ \E i \in SessionsOf(archive) :
          SessionsOf(archive) = {i} /\ archive[i].name = "session" /\ archive[i].body.size <= MaxBytes
Envelope(blob) == blob.header /\ \E body \in 1..MaxBytes : blob.size = Header + body

\* A stored session is an envelope within the limits, and it is what was captured,
\* whatever was at the path before, during and after the conversion: the captured file
\* itself if that is a bare envelope, the only file of it if it is an importable archive
\* (_verified_payload, _validated_payload, _archive_member_payload).
StoredIsCaptured ==
    \A p \in Processors : stored[p] # None =>
        LET payload == upload[p].payload
        IN  /\ Envelope(stored[p])
            /\ \/ payload.form = "bare" /\ stored[p] = payload.blob
               \/ /\ payload.form = "archive" /\ Importable(payload.members)
                  /\ \E i \in SessionsOf(payload.members) : stored[p] = payload.members[i].body

\* Once a conversion is over, stored, rejected or failed, the file that was captured is
\* not in quarantine any more ("guaranteed original-file cleanup"); only a path that is
\* refused before it is opened keeps what it has.
OriginalIsGone ==
    \A p \in Processors : pc[p] = "done" /\ Regular => file.inode # upload[p].inode
=============================================================================
