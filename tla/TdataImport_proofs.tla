-------------------------- MODULE TdataImport_proofs --------------------------
(***************************************************************************)
(* Proofs about TdataImport, for any folder, contents, order of its files  *)
(* and number of changes and runs.  Neither a listing nor a pass is        *)
(* atomic, and contents may repeat.  The argument is file by file: a file  *)
(* that is in some state before the capture ends and again after it was in *)
(* that state when it ended, or has gone back to it in between.            *)
(***************************************************************************)
EXTENDS TdataImport, TLAPS

USE TdataAssumption

\* The pass knows what f is: it came by without finding it, or it has read it.
Observed(f) == f \notin unlisted /\ (f \in listing => seen[f] # None)

\* What a file is has been noted.
NowHad == pc # "idle" => \A f \in Files : folder[f] \in had[f]

\* A pass has read listed files only, and what they were.
PassReads ==
    \A f \in Files :
        /\ seen[f] # None => f \in listing \ unlisted
        /\ pc = "pass" => seen[f] \in had[f] \cup {None}

\* In the first pass: a file that was observed, and not passed over, was in that state.
\* Afterwards the digest says so of every file.
DigestHad ==
    /\ pc = "pass" /\ pass = "capture" =>
          \A f \in Files \ unsteady : Observed(f) => seen[f] \in had[f]
    /\ copy # None =>
          \A f \in Files : digest[f] \in had[f] \cup {None} /\ (f \notin unsteady => digest[f] \in had[f])

\* After the first pass: a file that is, or was observed, as it was captured has been so
\* when that pass ended.
HeldStill ==
    /\ copy # None =>
          \A f \in Files \ unsteady : folder[f] = digest[f] => captured[f] = digest[f]
    /\ pc = "pass" /\ pass # "capture" =>
          \A f \in Files \ unsteady : Observed(f) /\ seen[f] = digest[f] => captured[f] = digest[f]

\* What is parsed is the source as it was at that moment.
CopyIsSnapshot ==
    /\ pass # "capture" => copy = digest
    /\ pc \in {"verify", "ticket", "handoff"} =>
          pass # "capture" /\ \A f \in Files \ unsteady : captured[f] = digest[f]

Inv == NowHad /\ PassReads /\ DigestHad /\ HeldStill /\ CopyIsSnapshot /\ ImportedIsSnapshot

\* The folder, the passes and the private copy keep their types, and the copy exists
\* only within a run, from its mkdir on, for every folder (prepare_tdata_copy and the
\* tool's temporary directory).
THEOREM TypeCorrect == Spec => []TypeOK
<1>1. Init => TypeOK
  BY DEF Init, TypeOK, Contents, States, Empty
<1>2. TypeOK /\ [Next]_vars => TypeOK'
  <2> SUFFICES ASSUME TypeOK, [Next]_vars PROVE TypeOK'
    OBVIOUS
  <2> USE DEF TypeOK, source, reading, history
  <2>1. ASSUME NEW f \in Files, Write(f) \/ Delete(f) PROVE TypeOK'
    <3>1. PICK s \in States : Become(f, s)
      BY <2>1 DEF Write, Delete, States
    <3> QED BY <3>1 DEF Become, Contents
  <2>3. CASE Start
    BY <2>3 DEF Start, BeginPass, Contents, States, Empty
  <2>4. ASSUME NEW f \in Files, ListEntry(f) PROVE TypeOK'
    BY <2>4 DEF ListEntry
  <2>5. ASSUME NEW f \in Files, ReadRegularFile(f) PROVE TypeOK'
    BY <2>5 DEF ReadRegularFile, NextFile, Contents
  <2>6. CASE Capture
    BY <2>6 DEF Capture, PassDone, Contents, States, Empty
  <2>7. ASSUME NEW f \in Files, CopyRegularFile(f) PROVE TypeOK'
    BY <2>7 DEF CopyRegularFile, NextFile, Contents
  <2>8. CASE VerifyCopy
    BY <2>8 DEF VerifyCopy, BeginPass, Contents, States, Empty
  <2>9. CASE Recheck
    BY <2>9 DEF Recheck, BeginPass, PassDone, Contents, States, Empty
  <2>10. CASE ParseTdata
    BY <2>10 DEF ParseTdata, PassDone
  <2>11. CASE VerifySession
    BY <2>11 DEF VerifySession
  <2>12. CASE PostTicket
    BY <2>12 DEF PostTicket
  <2>13. CASE PostHandoff
    BY <2>13 DEF PostHandoff, EndRun, Handoffs, Contents, States, Empty
  <2>14. CASE Abort
    BY <2>14 DEF Abort, EndRun, Contents, States, Empty
  <2>15. CASE UNCHANGED vars
    BY <2>15 DEF vars
  <2> QED
    BY <2>1, <2>3, <2>4, <2>5, <2>6, <2>7, <2>8, <2>9, <2>10, <2>11, <2>12,
       <2>13, <2>14, <2>15
       DEF Next, Desktop, Prepare, Import, List, ReadFile, CopyFile
<1> QED BY <1>1, <1>2, PTL DEF Spec

\* A write, a creation or a deletion in the folder, whatever the tool is doing: a file that
\* becomes what was captured has gone back to it.
LEMMA DesktopStep ==
    ASSUME TypeOK, Inv, Desktop
    PROVE  Inv'
<1>1. PICK f \in Files, s \in States : Become(f, s)
  BY DEF Desktop, Write, Delete, States
<1> USE <1>1 DEF Become, reading, Inv
<1>2. /\ \A g \in Files : had[g] \subseteq had'[g]
      /\ unsteady \subseteq unsteady' /\ f \notin unsteady' => s \notin had[f]
      /\ \A g \in Files \ {f} : folder'[g] = folder[g]
      /\ folder'[f] = s /\ s \in had'[f]
  BY DEF TypeOK, Contents
<1>3. NowHad'
  BY <1>2 DEF NowHad
<1>4. PassReads'
  BY <1>2 DEF PassReads
<1>5. DigestHad'
  BY <1>2 DEF DigestHad, Observed
<1>6. HeldStill'
  BY <1>2 DEF HeldStill, DigestHad, Observed
<1>7. (CopyIsSnapshot /\ ImportedIsSnapshot)'
  BY <1>2 DEF CopyIsSnapshot, ImportedIsSnapshot
<1> QED BY <1>3, <1>4, <1>5, <1>6, <1>7

\* The listing comes by one path.
LEMMA ListStep ==
    ASSUME TypeOK, Inv, NEW f \in Files, ListEntry(f)
    PROVE  Inv'
<1> USE DEF ListEntry, Present, source, Inv
<1>1. unsteady \subseteq unsteady' /\ listing \subseteq listing' /\ seen[f] \in States
  BY DEF TypeOK, Contents
<1>2. \A g \in Files : g # f /\ Observed(g)' => Observed(g)
  BY DEF Observed
<1>3. Observed(f)' /\ f \notin unsteady' /\ seen[f] = None => folder[f] = None
  BY DEF Observed
<1>4. NowHad' /\ PassReads'
  BY <1>1 DEF NowHad, PassReads
<1>5. DigestHad'
  BY <1>1, <1>2, <1>3 DEF DigestHad, NowHad, PassReads, Observed
<1>6. HeldStill'
  BY <1>1, <1>2, <1>3 DEF HeldStill, PassReads, Observed, TypeOK
<1>7. (CopyIsSnapshot /\ ImportedIsSnapshot)'
  BY <1>1 DEF CopyIsSnapshot, ImportedIsSnapshot
<1> QED BY <1>4, <1>5, <1>6, <1>7

\* A file is read, or copied.
LEMMA FileStep ==
    ASSUME TypeOK, Inv, NEW f \in Files, ReadRegularFile(f) \/ CopyRegularFile(f)
    PROVE  Inv'
<1> USE DEF Inv, source, history
<1>1. CASE ReadRegularFile(f)
  <2> USE <1>1 DEF ReadRegularFile, NextFile, Present
  <2>1. /\ pc = "pass" /\ seen'[f] = folder[f] /\ \A g \in Files \ {f} : seen'[g] = seen[g]
        /\ \A g \in Files : g # f /\ Observed(g)' => Observed(g)
    BY DEF TypeOK, Contents, Observed
  <2>2. NowHad' /\ PassReads'
    BY <2>1 DEF NowHad, PassReads
  <2>3. DigestHad'
    BY <2>1 DEF DigestHad, NowHad
  <2>4. HeldStill'
    BY <2>1 DEF HeldStill, TypeOK
  <2>5. (CopyIsSnapshot /\ ImportedIsSnapshot)'
    BY DEF CopyIsSnapshot, ImportedIsSnapshot
  <2> QED BY <2>2, <2>3, <2>4, <2>5
<1>2. CASE CopyRegularFile(f)
  \* The copy is made before the digests are compared, in the capturing pass.
  <2>1. pass = "capture" /\ pc = "copy" /\ copy # None /\ copy' # None
    BY <1>2 DEF CopyRegularFile, TypeOK, Contents
  <2> QED
    BY <1>2, <2>1 DEF CopyRegularFile, reading, NowHad, PassReads, DigestHad, HeldStill, Observed,
                      CopyIsSnapshot, ImportedIsSnapshot
<1> QED BY <1>1, <1>2

\* A pass that begins has observed nothing.
LEMMA PassStep ==
    ASSUME TypeOK, Inv, Start \/ VerifyCopy \/ Recheck
    PROVE  Inv'
<1> USE DEF Inv, source, history, BeginPass, Empty
<1>1. CASE Start
  <2>1. copy = None /\ copy' = None /\ pass' = "capture" /\ pc' = "pass"
    BY <1>1 DEF Start, TypeOK
  <2>2. \A g \in Files : ~Observed(g)' /\ seen'[g] = None /\ had'[g] = {folder[g]} /\ folder' = folder
    BY <1>1 DEF Start, Observed
  <2> QED BY <1>1, <2>1, <2>2 DEF Start, NowHad, PassReads, DigestHad, HeldStill, CopyIsSnapshot,
                                  ImportedIsSnapshot
<1>2. CASE VerifyCopy \/ Recheck
  <2>1. /\ copy # None /\ copy = digest /\ pass' # "capture" /\ pc' = "pass" /\ pc # "idle"
        /\ UNCHANGED <<folder, changes, had, captured, unsteady, digest, copy, handed>>
    BY <1>2 DEF VerifyCopy, Recheck, PassDone, CopyIsSnapshot, TypeOK
  <2>2. \A g \in Files : ~Observed(g)' /\ seen'[g] = None
    BY <1>2 DEF VerifyCopy, Recheck, Observed
  <2> QED BY <2>1, <2>2 DEF NowHad, PassReads, DigestHad, HeldStill, CopyIsSnapshot, ImportedIsSnapshot
<1> QED BY <1>1, <1>2

\* The first pass ends: what is in the folder now is what the others are compared with.
LEMMA CaptureStep ==
    ASSUME TypeOK, Inv, Capture
    PROVE  Inv'
<1>1. /\ pc = "pass" /\ pass = "capture" /\ pc' = "copy" /\ pass' = "capture"
      /\ digest' = seen /\ captured' = folder
      /\ UNCHANGED <<folder, had, unsteady, handed, unlisted, listing, seen>>
  BY DEF Capture, PassDone, source, reading
<1>2. \A f \in Files : Observed(f)
  BY DEF Capture, PassDone, ReadAll, Observed
<1>3. (NowHad /\ PassReads)'
  BY <1>1 DEF Inv, NowHad, PassReads
<1>4. DigestHad'
  BY <1>1, <1>2 DEF Inv, DigestHad, PassReads
<1>5. HeldStill' /\ CopyIsSnapshot' /\ ImportedIsSnapshot'
  BY <1>1 DEF Inv, HeldStill, CopyIsSnapshot, ImportedIsSnapshot
<1> QED BY <1>3, <1>4, <1>5 DEF Inv

\* The last pass agrees with the first (the digest comparison of parse_tdata).
LEMMA ParseStep ==
    ASSUME TypeOK, Inv, ParseTdata
    PROVE  Inv'
<1>1. /\ pc = "pass" /\ pass = "parse" /\ pc' = "verify" /\ pass' = "parse" /\ seen = digest
      /\ UNCHANGED <<folder, had, unsteady, captured, digest, copy, handed, unlisted, listing, seen>>
  BY DEF ParseTdata, PassDone, Unchanged, source, reading, history
<1>2. \A f \in Files : Observed(f)
  BY DEF ParseTdata, PassDone, ReadAll, Observed
<1>3. \A f \in Files \ unsteady : captured[f] = digest[f]
  BY <1>1, <1>2 DEF Inv, HeldStill
<1> QED BY <1>1, <1>3
      DEF Inv, NowHad, PassReads, DigestHad, HeldStill, CopyIsSnapshot, ImportedIsSnapshot

\* The tool's other steps.
LEMMA HandoverStep ==
    ASSUME TypeOK, Inv, VerifySession \/ PostTicket \/ PostHandoff \/ Abort
    PROVE  Inv'
<1> USE DEF Inv
<1>1. CASE VerifySession \/ PostTicket
  <2>1. /\ pc \in {"verify", "ticket"} /\ pc' \in {"ticket", "handoff"}
        /\ UNCHANGED <<folder, had, unsteady, captured, digest, copy, handed, pass, unlisted, listing, seen>>
    BY <1>1 DEF VerifySession, PostTicket, source, reading, history
  <2> QED BY <2>1
        DEF NowHad, PassReads, DigestHad, HeldStill, CopyIsSnapshot, ImportedIsSnapshot
<1>2. CASE PostHandoff \/ Abort
  <2>1. /\ pc' = "idle" /\ pass' = "capture" /\ copy' = None /\ \A f \in Files : seen'[f] = None
    BY <1>2 DEF PostHandoff, Abort, EndRun, Empty
  <2>2. ImportedIsSnapshot'
    <3>1. CASE PostHandoff
      <4> DEFINE h == [folder |-> copy, captured |-> captured, had |-> had, unsteady |-> unsteady]
      <4>1. handed' = handed \cup {h} /\ copy = digest /\ copy # None
        BY <3>1 DEF PostHandoff, CopyIsSnapshot, TypeOK
      <4>2. \A f \in Files : /\ f \notin h.unsteady => h.folder[f] = h.captured[f]
                             /\ h.folder[f] \in h.had[f] \cup {None}
        BY <3>1, <4>1 DEF PostHandoff, CopyIsSnapshot, DigestHad
      <4> HIDE DEF h
      <4> QED BY <4>1, <4>2 DEF ImportedIsSnapshot
    <3>2. CASE Abort
      BY <3>2 DEF Abort, ImportedIsSnapshot
    <3> QED BY <1>2, <3>1, <3>2
  <2> QED BY <2>1, <2>2 DEF NowHad, PassReads, DigestHad, HeldStill, CopyIsSnapshot
<1> QED BY <1>1, <1>2

\* For every folder, every order of its files and every interleaving of Telegram Desktop's
\* changes with the listing, reading and copying of single files: the API is only ever
\* handed the source as it was when the first pass ended, but for files that went back to
\* an earlier state or that a listing passed over (assert_source_unchanged).
THEOREM SnapshotsOnly == Spec => []ImportedIsSnapshot
<1>1. Init => Inv
  BY DEF Init, Inv, NowHad, PassReads, DigestHad, HeldStill, CopyIsSnapshot, ImportedIsSnapshot, Empty
<1>2. TypeOK /\ Inv /\ [Next]_vars => Inv'
  <2> SUFFICES ASSUME TypeOK, Inv, [Next]_vars PROVE Inv'
    OBVIOUS
  <2>1. CASE UNCHANGED vars
    BY <2>1 DEF vars, source, reading, history, Inv, NowHad, PassReads, DigestHad, HeldStill,
                Observed, CopyIsSnapshot, ImportedIsSnapshot
  <2>2. CASE Next
    BY <2>2, DesktopStep, ListStep, FileStep, PassStep, CaptureStep, ParseStep, HandoverStep
       DEF Next, Prepare, Import, List, ReadFile, CopyFile
  <2> QED BY <2>1, <2>2
<1>3. Inv => ImportedIsSnapshot
  BY DEF Inv
<1> QED BY <1>1, <1>2, <1>3, TypeCorrect, PTL DEF Spec
=============================================================================
