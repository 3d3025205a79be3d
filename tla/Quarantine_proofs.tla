------------------------ MODULE Quarantine_proofs ------------------------
(***************************************************************************)
(* Proofs about Quarantine, for any processors, archives and changes, and  *)
(* about what the loop over an archive's members computes.                 *)
(***************************************************************************)
EXTENDS Quarantine, WellFoundedInduction, TLAPS

USE QuarantineAssumption

----------------------------------------------------------------------------
(* What the loop over the members computes.  The library's induction       *)
(* theorems take a predicate; this one takes a set.                        *)

\* Induction over the naturals, from the well-foundedness of less-than: the least number
\* outside the set would have its predecessor inside.
LEMMA SetInduction ==
    ASSUME NEW T, 0 \in T, \A n \in Nat : n \in T => n + 1 \in T
    PROVE  Nat \subseteq T
<1> DEFINE R == OpToRel(<, Nat)
<1>1. IsWellFoundedOn(R, Nat)
  BY NatLessThanWellFounded, Zenon
<1>2. \A x, y \in Nat : x < y => <<x, y>> \in R
  BY DEF OpToRel
<1> HIDE DEF R
<1>3. SUFFICES ASSUME Nat \ T # {} PROVE FALSE
  OBVIOUS
<1>4. PICK x \in Nat \ T : \A y \in Nat \ T : ~(<<y, x>> \in R)
  BY <1>1, <1>3, WFMin
<1>5. x # 0 /\ x - 1 \in Nat /\ x - 1 < x
  BY <1>4
<1>6. x - 1 \in T
  BY <1>2, <1>4, <1>5
<1> QED
  BY <1>5, <1>6

Results == [ok : BOOLEAN, seen : SUBSET Names, total : Nat, body : Blobs \cup {None}]

\* After n members without a rejection: no special file, no name twice, and at most one
\* regular file, the session, which is the body found and within the limit.
Scanned(archive, n, r) ==
    /\ r \in Results
    /\ r.ok =>
          /\ \A i \in 1..n : archive[i].kind # "special" /\ archive[i].name \in r.seen
          /\ \A i, j \in 1..n : archive[i].name = archive[j].name => i = j
          /\ r.body = None => r.total = 0 /\ \A i \in 1..n : archive[i].kind # "file"
          /\ r.body # None =>
                \E i \in 1..n :
                   /\ r.body = archive[i].body /\ archive[i].kind = "file"
                   /\ archive[i].name = "session" /\ archive[i].body.size <= MaxBytes
                   /\ \A j \in 1..n : archive[j].kind = "file" => j = i

\* The fields of a member.
LEMMA MemberFields ==
    ASSUME NEW m \in Members
    PROVE  /\ m.name \in Names /\ m.kind \in {"file", "dir", "special"}
           /\ m.kind = "file" => m.body \in Blobs /\ m.body.size \in Nat
BY DEF Members, Blobs

\* An archive is a sequence of members.
LEMMA ArchiveMembers ==
    ASSUME NEW archive \in Archives
    PROVE  Len(archive) \in Nat /\ \A i \in 1..Len(archive) : archive[i] \in Members
<1>1. PICK n \in 0..MaxMembers + 1 : archive \in [1..n -> Members]
  BY DEF Archives
<1>2. archive \in Seq(Members) /\ Len(archive) = n
  BY <1>1
<1> QED
  BY <1>1, <1>2

\* One round of the loop.
LEMMA InspectStep ==
    ASSUME NEW archive \in Archives, NEW n \in Nat, n + 1 <= Len(archive), NEW r, Scanned(archive, n, r)
    PROVE  Scanned(archive, n + 1, Inspect(r, archive[n + 1]))
<1> DEFINE m == archive[n + 1]
<1>0. m \in Members
  BY ArchiveMembers
<1>1. /\ m.name \in Names /\ m.kind \in {"file", "dir", "special"}
      /\ m.kind = "file" => m.body \in Blobs /\ m.body.size \in Nat
  BY <1>0, MemberFields
<1>2. /\ r.ok \in BOOLEAN /\ r.seen \subseteq Names /\ r.total \in Nat /\ r \in Results
  BY DEF Scanned, Results
<1>3. \A i \in 1..(n + 1) : i \in 1..n \/ i = n + 1
  OBVIOUS
<1> HIDE DEF m
<1>4. CASE ~r.ok \/ m.name \in r.seen \/ m.kind = "special"
  <2>1. Inspect(r, m) = [r EXCEPT !.ok = FALSE]
    BY <1>2, <1>4 DEF Inspect
  <2>2. Inspect(r, m) \in Results /\ ~Inspect(r, m).ok
    BY <1>2, <2>1 DEF Results
  <2> QED
    BY <2>2 DEF Scanned, m
<1>5. CASE r.ok /\ m.name \notin r.seen /\ m.kind = "dir"
  <2> DEFINE q == [r EXCEPT !.seen = @ \cup {m.name}]
  <2>1. Inspect(r, m) = q
    BY <1>5 DEF Inspect
  <2>2. q \in Results /\ q.seen = r.seen \cup {m.name} /\ q.body = r.body /\ q.total = r.total
    BY <1>1, <1>2 DEF Results
  <2> HIDE DEF q
  <2>3. \A i \in 1..(n + 1) : archive[i].kind # "special" /\ archive[i].name \in q.seen
    BY <1>3, <1>5, <2>2 DEF Scanned, m
  <2>4. \A i, j \in 1..(n + 1) : archive[i].name = archive[j].name => i = j
    BY <1>3, <1>5, <2>2 DEF Scanned, m
  <2>5. q.body = None => q.total = 0 /\ \A i \in 1..(n + 1) : archive[i].kind # "file"
    BY <1>3, <1>5, <2>2 DEF Scanned, m
  <2>6. ASSUME q.body # None
        PROVE  \E i \in 1..(n + 1) :
                  /\ q.body = archive[i].body /\ archive[i].kind = "file"
                  /\ archive[i].name = "session" /\ archive[i].body.size <= MaxBytes
                  /\ \A j \in 1..(n + 1) : archive[j].kind = "file" => j = i
    BY <1>3, <1>5, <2>2, <2>6 DEF Scanned, m
  <2> QED
    BY <2>1, <2>2, <2>3, <2>4, <2>5, <2>6 DEF Scanned, m
<1>6. CASE r.ok /\ m.name \notin r.seen /\ m.kind = "file"
  <2> DEFINE b == r.total + m.body.size <= MaxBytes /\ m.name = "session" /\ r.body = None
             q == [ok |-> b, seen |-> r.seen \cup {m.name}, total |-> r.total + m.body.size, body |-> m.body]
  <2>1. Inspect(r, m) = q
    BY <1>6 DEF Inspect
  <2>2. /\ q \in Results /\ q.seen = r.seen \cup {m.name} /\ q.body = m.body
        /\ q.ok => m.body.size + r.total <= MaxBytes /\ m.name = "session" /\ r.body = None
    <3>1. b \in BOOLEAN /\ (b => m.body.size + r.total <= MaxBytes /\ m.name = "session" /\ r.body = None)
      BY <1>1, <1>2, <1>6
    <3> HIDE DEF b
    <3>2. q \in Results
      BY <1>1, <1>2, <1>6, <3>1 DEF Results
    <3> QED
      BY <3>1, <3>2
  <2> HIDE DEF q
  <2>3. q.ok => r.total = 0 /\ \A i \in 1..n : archive[i].kind # "file"
    BY <1>6, <2>2 DEF Scanned
  <2>4. q.ok => \A i \in 1..(n + 1) : archive[i].kind # "special" /\ archive[i].name \in q.seen
    BY <1>3, <1>6, <2>2 DEF Scanned, m
  <2>5. q.ok => \A i, j \in 1..(n + 1) : archive[i].name = archive[j].name => i = j
    BY <1>3, <1>6, <2>2 DEF Scanned, m
  <2>6. ASSUME q.ok
        PROVE  \E i \in 1..(n + 1) :
                  /\ q.body = archive[i].body /\ archive[i].kind = "file"
                  /\ archive[i].name = "session" /\ archive[i].body.size <= MaxBytes
                  /\ \A j \in 1..(n + 1) : archive[j].kind = "file" => j = i
    <3>1. m.body.size <= MaxBytes
      BY <1>1, <1>2, <1>6, <2>2, <2>3, <2>6
    <3> WITNESS n + 1 \in 1..(n + 1)
    <3> QED
      BY <1>3, <1>6, <2>2, <2>3, <2>6, <3>1 DEF m
  <2> QED
    BY <1>1, <1>6, <2>1, <2>2, <2>4, <2>5, <2>6 DEF Scanned, m
<1> QED
  BY <1>1, <1>2, <1>4, <1>5, <1>6 DEF m

\* What the loop has found when it ends.
LEMMA ScanResult ==
    ASSUME NEW archive \in Archives
    PROVE  Scanned(archive, Len(archive), Scan(archive))
<1> DEFINE L == Len(archive)
           Loop(g, n) == g = [i \in 0..n |-> IF i = 0 THEN Start ELSE Inspect(g[i - 1], archive[i])]
           F == CHOOSE g : Loop(g, L)
<1>0. L \in Nat
  BY ArchiveMembers
<1>1. \E g : Loop(g, L)
  <2> DEFINE T == {n \in Nat : \E g : Loop(g, n)}
  <2>1. 0 \in T
    <3> DEFINE g == [i \in 0..0 |-> Start]
    <3>1. Loop(g, 0)
      OBVIOUS
    <3> QED
      BY <3>1
  <2>2. ASSUME NEW n \in Nat, n \in T PROVE n + 1 \in T
    <3>1. PICK g : Loop(g, n)
      BY <2>2
    <3> DEFINE h == [i \in 0..(n + 1) |-> IF i = n + 1 THEN Inspect(g[n], archive[n + 1]) ELSE g[i]]
    <3>2. Loop(h, n + 1)
      BY <3>1
    <3> HIDE DEF h
    <3>3. \E f : Loop(f, n + 1)
      BY <3>2
    <3> QED
      BY <3>3
  <2> HIDE DEF T
  <2>3. Nat \subseteq T
    BY <2>1, <2>2, SetInduction
  <2> QED
    BY <1>0, <2>3 DEF T
<1>2. Loop(F, L)
  BY <1>1
<1>3. Scan(archive) = F[L]
  BY DEF Scan
<1> HIDE DEF F
<1>4. F[0] = Start /\ \A n \in Nat : n + 1 <= L => F[n + 1] = Inspect(F[n], archive[n + 1])
  BY <1>0, <1>2
<1>5. Scanned(archive, 0, Start)
  BY DEF Scanned, Start, Results
<1> DEFINE T == {n \in Nat : n <= L => Scanned(archive, n, F[n])}
<1>6. 0 \in T
  BY <1>4, <1>5
<1>7. ASSUME NEW n \in Nat, n \in T PROVE n + 1 \in T
  BY <1>0, <1>4, <1>7, InspectStep
<1> HIDE DEF T
<1>8. L \in T
  BY <1>0, <1>6, <1>7, SetInduction
<1> QED
  BY <1>3, <1>8 DEF T

\* An archive that is not rejected has one session, and its bytes are the result.
LEMMA PayloadIsSession ==
    ASSUME NEW archive \in Archives
    PROVE  /\ ArchiveMemberPayload(archive) \in Blobs \cup {None}
           /\ ArchiveMemberPayload(archive) # None =>
                 /\ Importable(archive)
                 /\ \E i \in SessionsOf(archive) : ArchiveMemberPayload(archive) = archive[i].body
<1> DEFINE r == Scan(archive)
           s == ArchiveMemberPayload(archive)
<1>1. Scanned(archive, Len(archive), r)
  BY ScanResult
<1>2. s = IF Len(archive) <= MaxMembers /\ r.ok THEN r.body ELSE None
  BY DEF ArchiveMemberPayload
<1> HIDE DEF r, s
<1>3. s \in Blobs \cup {None}
  BY <1>1, <1>2 DEF Scanned, Results
<1>4. ASSUME s # None
      PROVE  Importable(archive) /\ \E i \in SessionsOf(archive) : s = archive[i].body
  <2>1. Len(archive) <= MaxMembers /\ r.ok /\ s = r.body
    BY <1>2, <1>4
  <2>2. /\ \A i \in 1..Len(archive) : archive[i].kind # "special"
        /\ \A i, j \in 1..Len(archive) : archive[i].name = archive[j].name => i = j
    BY <1>1, <2>1 DEF Scanned
  <2>3. PICK i \in 1..Len(archive) :
                   /\ r.body = archive[i].body /\ archive[i].kind = "file"
                   /\ archive[i].name = "session" /\ archive[i].body.size <= MaxBytes
                   /\ \A j \in 1..Len(archive) : archive[j].kind = "file" => j = i
    BY <1>1, <1>4, <2>1 DEF Scanned
  <2>4. i \in SessionsOf(archive) /\ SessionsOf(archive) = {i}
    BY <2>3 DEF SessionsOf
  <2> QED
    BY <2>1, <2>2, <2>3, <2>4 DEF Importable
<1> QED
  BY <1>3, <1>4 DEF s

\* What passes the adapter is an envelope: the upload itself, or the session of an archive.
LEMMA ValidatedIsEnvelope ==
    ASSUME NEW payload \in Payloads, ValidatedPayload(payload) # None
    PROVE  /\ ValidatedPayload(payload) \in Blobs /\ Envelope(ValidatedPayload(payload))
           /\ \/ payload.form = "bare" /\ ValidatedPayload(payload) = payload.blob
              \/ /\ payload.form = "archive" /\ Importable(payload.members)
                 /\ \E i \in SessionsOf(payload.members) :
                       ValidatedPayload(payload) = payload.members[i].body
<1> DEFINE s == ValidatedPayload(payload)
<1>1. \/ payload.form = "bare" /\ payload.blob \in Blobs
      \/ payload.form = "archive" /\ payload.members \in Archives
  BY DEF Payloads
<1>2. ValidEnvelope(s) /\ s = IF payload.form = "bare" THEN payload.blob
                              ELSE ArchiveMemberPayload(payload.members)
  BY DEF ValidatedPayload
<1>3. s # None
  OBVIOUS
<1> HIDE DEF s
<1>4. s \in Blobs
  BY <1>1, <1>2, <1>3, PayloadIsSession
<1>5. Envelope(s)
  <2>1. s.size \in Nat /\ s.size > Header /\ s.size - Header <= MaxBytes /\ s.header
    BY <1>2, <1>4 DEF ValidEnvelope, Blobs
  <2>2. s.size - Header \in 1..MaxBytes /\ s.size = Header + (s.size - Header)
    BY <2>1
  <2> QED
    BY <2>1, <2>2 DEF Envelope
<1>6. CASE payload.form = "bare"
  BY <1>2, <1>4, <1>5, <1>6 DEF s
<1>7. CASE payload.form = "archive"
  <2>1. s = ArchiveMemberPayload(payload.members) /\ payload.members \in Archives
    BY <1>1, <1>2, <1>7
  <2>2. Importable(payload.members) /\ \E i \in SessionsOf(payload.members) : s = payload.members[i].body
    BY <1>3, <2>1, PayloadIsSession
  <2> QED
    BY <1>4, <1>5, <1>7, <2>2 DEF s
<1> QED
  BY <1>1, <1>6, <1>7

----------------------------------------------------------------------------
(* The processors.                                                         *)

\* The conjuncts of TypeOK that do not depend on what the loop over the members returns.
FilesOK ==
    /\ file \in RegularFiles \cup {Link, None} /\ inodes \in Nat
    /\ pc \in [Processors -> Steps]
    /\ upload \in [Processors -> RegularFiles \cup {None}]
    /\ held \in [Processors -> Payloads \cup {None}]
    /\ stored = [p \in Processors |-> stored[p]]
    /\ \A p \in Processors : pc[p] # "new" => upload[p] \in RegularFiles

\* An inode is given out once, so a file that is gone does not come back.
InodesInv ==
    /\ Regular => file.inode <= inodes
    /\ \A p \in Processors : pc[p] # "new" => upload[p].inode <= inodes

\* A processor that converts holds what it has captured, and one that has not verified
\* its file holds nothing.
HeldInv ==
    \A p \in Processors :
        /\ pc[p] \in {"new", "captured", "verify", "refused"} => held[p] = None
        /\ pc[p] \in {"convert", "put"} => held[p] = upload[p].payload

\* What is stored is the session of the upload that was captured, whatever was at the path
\* when it was read, converted and put into the store.
StoredFromCapture ==
    \A p \in Processors : stored[p] # None =>
        pc[p] \in {"unlink", "done"} /\ stored[p] = ValidatedPayload(upload[p].payload)

IInv == FilesOK /\ InodesInv /\ HeldInv /\ OriginalIsGone /\ StoredFromCapture

LEMMA FileRecords ==
    /\ \A n \in Nat, a \in Payloads : [inode |-> n, payload |-> a] \in RegularFiles
    /\ \A f \in RegularFiles : f.inode \in Nat /\ f.payload \in Payloads
    /\ \A f \in RegularFiles, a \in Payloads :
          [f EXCEPT !.payload = a] \in RegularFiles /\ [f EXCEPT !.payload = a].inode = f.inode
BY DEF RegularFiles

LEMMA Changes ==
    ASSUME IInv, Change
    PROVE  IInv'
<1>1. /\ inodes' = inodes + 1 /\ inodes \in Nat /\ UNCHANGED <<pc, upload, held, stored>>
      /\ Decoys \subseteq Payloads
  BY DEF Change, IInv, FilesOK
<1>2. /\ file' \in RegularFiles \cup {Link, None}
      /\ Regular' => file'.inode = inodes' \/ (Regular /\ file'.inode = file.inode)
  <2>1. ASSUME NEW a \in Decoys, file' = [inode |-> inodes', payload |-> a]
        PROVE  file' \in RegularFiles /\ file'.inode = inodes'
    BY <1>1, <2>1, FileRecords
  <2>2. ASSUME Regular, NEW a \in Decoys, file' = [file EXCEPT !.payload = a]
        PROVE  file' \in RegularFiles /\ file'.inode = file.inode
    <3>1. file \in RegularFiles
      BY <2>2 DEF Regular, IInv, FilesOK
    <3> QED BY <1>1, <2>2, <3>1, FileRecords
  <2>3. CASE file' \in {Link, None}
    BY <2>3 DEF Regular
  <2> QED BY <2>1, <2>2, <2>3 DEF Change
<1>3. \A p \in Processors : pc[p] # "new" => upload[p].inode \in Nat /\ upload[p].inode <= inodes
  BY FileRecords DEF IInv, FilesOK, InodesInv
<1>4. Regular => file.inode \in Nat /\ file.inode <= inodes
  BY FileRecords DEF IInv, FilesOK, InodesInv, Regular
<1>5. FilesOK' /\ InodesInv'
  BY <1>1, <1>2, <1>3, <1>4 DEF IInv, FilesOK, InodesInv
<1>6. OriginalIsGone'
  BY <1>1, <1>2, <1>3 DEF IInv, OriginalIsGone
<1>7. HeldInv' /\ StoredFromCapture'
  BY <1>1 DEF IInv, HeldInv, StoredFromCapture
<1> QED BY <1>5, <1>6, <1>7 DEF IInv

\* One processor moves and leaves the path as it is, or clears it.
LEMMA ProcessorStep ==
    ASSUME IInv, NEW p \in Processors, Capture(p) \/ ConvertAndStore(p)
    PROVE  IInv'
<1>0. /\ file \in RegularFiles \cup {Link, None} /\ inodes \in Nat /\ pc \in [Processors -> Steps]
      /\ upload \in [Processors -> RegularFiles \cup {None}] /\ held \in [Processors -> Payloads \cup {None}]
      /\ stored = [q \in Processors |-> stored[q]]
      /\ \A q \in Processors : pc[q] # "new" => upload[q] \in RegularFiles
      /\ Regular => file \in RegularFiles /\ file.inode <= inodes
  BY DEF IInv, FilesOK, InodesInv, Regular
<1>1. CASE Capture(p)
  <2>1. /\ pc[p] = "new" /\ Regular /\ UNCHANGED <<file, inodes, held, stored>>
        /\ upload' = [upload EXCEPT ![p] = file] /\ pc' = [pc EXCEPT ![p] = "captured"]
    BY <1>1 DEF Capture, Goto
  <2>2. Regular'
    BY <2>1 DEF Regular
  <2>3. FilesOK' /\ InodesInv'
    BY <1>0, <2>1 DEF IInv, FilesOK, InodesInv, Steps, Regular
  <2>4. HeldInv' /\ OriginalIsGone'
    BY <1>0, <2>1 DEF IInv, HeldInv, OriginalIsGone, Regular
  <2>5. StoredFromCapture'
    BY <1>0, <2>1 DEF IInv, StoredFromCapture
  <2> QED BY <2>3, <2>4, <2>5 DEF IInv
<1>2. CASE ValidatedOriginalPath(p)
  <2>1. /\ pc[p] = "captured" /\ UNCHANGED <<file, inodes, upload, held, stored>>
        /\ \E l \in {"verify", "refused"} : pc' = [pc EXCEPT ![p] = l]
    BY <1>2 DEF ValidatedOriginalPath, Goto
  <2> QED BY <1>0, <2>1
        DEF IInv, FilesOK, InodesInv, HeldInv, OriginalIsGone, StoredFromCapture, Steps, Regular
<1>3. CASE VerifiedPayload(p)
  <2>1. pc[p] = "verify" /\ UNCHANGED <<file, inodes, upload, stored>>
    BY <1>3 DEF VerifiedPayload
  <2>2. CASE Matches(p) /\ held' = [held EXCEPT ![p] = file.payload] /\ pc' = [pc EXCEPT ![p] = "convert"]
    <3>1. file = upload[p] /\ file.payload \in Payloads
      BY <1>0, <2>2, FileRecords DEF Matches
    <3>2. FilesOK' /\ InodesInv'
      BY <1>0, <2>1, <2>2, <3>1 DEF IInv, FilesOK, InodesInv, Steps, Regular
    <3>3. HeldInv'
      BY <1>0, <2>1, <2>2, <3>1 DEF IInv, HeldInv
    <3>4. OriginalIsGone' /\ StoredFromCapture'
      BY <1>0, <2>1, <2>2 DEF IInv, OriginalIsGone, StoredFromCapture, Regular
    <3> QED BY <3>2, <3>3, <3>4 DEF IInv
  <2>3. CASE UNCHANGED held /\ pc' = [pc EXCEPT ![p] = "unlink"]
    BY <1>0, <2>1, <2>3
        DEF IInv, FilesOK, InodesInv, HeldInv, OriginalIsGone, StoredFromCapture, Steps, Regular
  <2> QED BY <1>3, <2>2, <2>3 DEF VerifiedPayload, Goto
<1>4. CASE Convert(p)
  <2>1. /\ pc[p] = "convert" /\ UNCHANGED <<file, inodes, upload, held, stored>>
        /\ \E l \in {"put", "unlink"} : pc' = [pc EXCEPT ![p] = l]
    BY <1>4 DEF Convert, Goto
  <2> QED BY <1>0, <2>1
        DEF IInv, FilesOK, InodesInv, HeldInv, OriginalIsGone, StoredFromCapture, Steps, Regular
<1>5. CASE Put(p)
  <2> DEFINE s == ValidatedPayload(held[p])
  <2>1. /\ pc[p] = "put" /\ UNCHANGED <<file, inodes, upload, held>> /\ pc' = [pc EXCEPT ![p] = "unlink"]
        /\ stored' = [stored EXCEPT ![p] = s] \/ stored' = stored
    BY <1>5 DEF Put, Goto
  <2>2. s = ValidatedPayload(upload[p].payload)
    BY <2>1 DEF IInv, HeldInv
  <2> HIDE DEF s
  <2>3. /\ stored' = [q \in Processors |-> stored'[q]] /\ stored'[p] \in {stored[p], s}
        /\ \A q \in Processors \ {p} : stored'[q] = stored[q]
    BY <1>0, <2>1
  <2>4. FilesOK' /\ InodesInv'
    BY <1>0, <2>1, <2>3 DEF IInv, FilesOK, InodesInv, Steps, Regular
  <2>5. HeldInv' /\ OriginalIsGone'
    BY <1>0, <2>1 DEF IInv, HeldInv, OriginalIsGone, Regular
  <2>6. StoredFromCapture'
    BY <1>0, <2>1, <2>2, <2>3 DEF IInv, StoredFromCapture
  <2> QED BY <2>4, <2>5, <2>6 DEF IInv
<1>6. CASE Unlink(p)
  <2>1. /\ pc[p] = "unlink" /\ UNCHANGED <<inodes, upload, held, stored>> /\ file' = None
        /\ pc' = [pc EXCEPT ![p] = "done"]
    BY <1>6 DEF Unlink, Goto
  <2>2. ~Regular'
    BY <2>1 DEF Regular
  <2> QED BY <1>0, <2>1, <2>2
        DEF IInv, FilesOK, InodesInv, HeldInv, OriginalIsGone, StoredFromCapture, Steps
<1> QED BY <1>1, <1>2, <1>3, <1>4, <1>5, <1>6 DEF ConvertAndStore

LEMMA InductiveInit == Init => IInv
<1> SUFFICES ASSUME Init PROVE IInv
  OBVIOUS
<1>1. PICK a \in Uploads : file = [inode |-> 1, payload |-> a]
  BY DEF Init
<1>2. file \in RegularFiles /\ file.inode = 1
  BY <1>1, FileRecords
<1>3. FilesOK /\ InodesInv
  BY <1>2 DEF Init, FilesOK, InodesInv, Steps
<1>4. HeldInv /\ OriginalIsGone /\ StoredFromCapture
  BY DEF Init, HeldInv, OriginalIsGone, StoredFromCapture
<1> QED BY <1>3, <1>4 DEF IInv

LEMMA Invariant == Spec => []IInv
<1>1. IInv /\ UNCHANGED vars => IInv'
  BY DEF vars, IInv, FilesOK, InodesInv, HeldInv, OriginalIsGone, StoredFromCapture, Regular
<1>2. IInv /\ [Next]_vars => IInv'
  BY <1>1, Changes, ProcessorStep DEF Next
<1> QED BY <1>2, InductiveInit, PTL DEF Spec

\* Once a conversion is over, the file that was captured is not in quarantine any more: the
\* cleanup clears the path, and its inode is not given out again.
THEOREM OriginalsGone == Spec => []OriginalIsGone
<1>1. IInv => OriginalIsGone
  BY DEF IInv
<1> QED BY <1>1, Invariant, PTL

\* The types of the path and of the processors: a processor holds an upload only after it
\* has verified its file, and has stored its session only when it is through with it.
THEOREM TypeCorrect == Spec => []TypeOK
<1>1. IInv => TypeOK
  <2> SUFFICES ASSUME IInv PROVE TypeOK
    OBVIOUS
  <2>1. ASSUME NEW p \in Processors PROVE stored[p] \in Blobs \cup {None}
    <3>1. CASE stored[p] # None
      <4>1. pc[p] # "new" /\ stored[p] = ValidatedPayload(upload[p].payload)
        BY <3>1 DEF IInv, StoredFromCapture
      <4>2. upload[p].payload \in Payloads
        BY <4>1, FileRecords DEF IInv, FilesOK
      <4> QED BY <3>1, <4>1, <4>2, ValidatedIsEnvelope
    <3> QED BY <3>1
  <2>2. stored \in [Processors -> Blobs \cup {None}]
    BY <2>1 DEF IInv, FilesOK
  <2> QED BY <2>2 DEF IInv, FilesOK, HeldInv, StoredFromCapture, TypeOK
<1> QED BY <1>1, Invariant, PTL

\* A stored session is the bare envelope that was captured, or the only regular file of
\* the importable archive that was: the digest and the inode tie what is read to what was
\* captured, and neither the loop over the members, however many there are, nor the check
\* of the envelope lets anything else through.
THEOREM StoredCaptured == Spec => []StoredIsCaptured
<1>1. IInv => StoredIsCaptured
  <2> SUFFICES ASSUME IInv, NEW p \in Processors, stored[p] # None
               PROVE  LET payload == upload[p].payload
                      IN  /\ Envelope(stored[p])
                          /\ \/ payload.form = "bare" /\ stored[p] = payload.blob
                             \/ /\ payload.form = "archive" /\ Importable(payload.members)
                                /\ \E i \in SessionsOf(payload.members) :
                                      stored[p] = payload.members[i].body
    BY DEF StoredIsCaptured
  <2>1. pc[p] # "new" /\ stored[p] = ValidatedPayload(upload[p].payload)
    BY DEF IInv, StoredFromCapture
  <2>2. upload[p].payload \in Payloads
    BY <2>1, FileRecords DEF IInv, FilesOK
  <2> QED BY <2>1, <2>2, ValidatedIsEnvelope
<1> QED BY <1>1, Invariant, PTL
=============================================================================
