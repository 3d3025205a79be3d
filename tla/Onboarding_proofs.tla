------------------------ MODULE Onboarding_proofs ------------------------
(***************************************************************************)
(* Proofs about Onboarding, for any owners, challenges, tickets, requests, *)
(* capacity and lifetime.                                                  *)
(***************************************************************************)
EXTENDS Onboarding, FiniteSetTheorems, SequenceTheorems, WellFoundedInduction, TLAPS

USE OnboardingAssumption

----------------------------------------------------------------------------
(* The invariant.  Nothing in it is about the order of the stores: whether *)
(* a challenge is active only decides between branches that both keep it.  *)

RecordsOK ==
    /\ now \in 0..MaxTime
    /\ challenge \in [Challenges -> ChallengeObjects]
    /\ waiters \in [Qrs -> {"none", "created", "waiting"}]
    /\ tickets \in [Tickets -> TicketRecords]
    /\ jobs \in [Jobs -> JobRecords]
    /\ accounts \in [Identities -> Orgs \cup {None}]
    /\ ciphertexts \in [Keys -> Ciphertexts]
    /\ connections \in [Identities -> Connections]
    /\ exported \in [Sources -> Seq(Identities \cup {None})]

Requesting(r) == r.pc \in {"requesting", "signing", "password", "exporting"}
User(r) == r.pc \in {"signing", "password", "exporting"}
Finalizing(r) == r.pc \in {"provision", "put", "save"}
Spent == {"processing", "failed", "expired"}

\* A request that uses a challenge's client has claimed the challenge, and its session has
\* not left yet; one that exports it knows whose session it is.
UserOK(r) ==
    /\ Requesting(r) => r.source \in Challenges
    /\ User(r) =>
        /\ challenge[r.source].state = "processing" /\ challenge[r.source].owner = r.owner
        /\ r.owner \in Owners
        /\ exported[r.source] = <<>> /\ ~Awaited(r.source)
    /\ r.pc = "exporting" => challenge[r.source].identity \in Identities

\* A request that stores a session carries the only one that has left its source.
FinalOK(r) ==
    Finalizing(r) =>
        /\ r.source \in Sources /\ r.owner \in Owners /\ r.identity \in Identities
        /\ OwnerOf(r.source) = r.owner /\ exported[r.source] = <<r.identity>>
        /\ r.pc # "provision" => accounts[r.identity] = OrgOf[r.owner]
        /\ r.pc = "save" => /\ r.key \in Keys /\ ciphertexts[r.key].account = r.identity
                            /\ ciphertexts[r.key].source = r.source
        /\ r.pc # "save" => \A k \in Keys : ciphertexts[k].source # r.source

JobsInv == \A j \in Jobs : UserOK(jobs[j]) /\ FinalOK(jobs[j])

\* Two requests at the same stage have different sources.
OneRequest ==
    \A j, l \in Jobs :
        /\ jobs[j].source = jobs[l].source
        /\ (User(jobs[j]) /\ User(jobs[l])) \/ (Finalizing(jobs[j]) /\ Finalizing(jobs[l]))
        => j = l

\* What has yielded its session is never claimed again.
ChallengeOK(ch) ==
    /\ exported[ch] # <<>> => challenge[ch].state \in Spent
    /\ challenge[ch].state = "authorized" => challenge[ch].identity \in Identities
    /\ Awaited(ch) => challenge[ch].state = "processing" /\ exported[ch] = <<>>
SourceInv ==
    /\ \A ch \in Challenges : ChallengeOK(ch)
    /\ \A t \in Tickets : exported[t] # <<>> => tickets[t].state = "gone"

StoredOK(k) ==
    ciphertexts[k] # NoCiphertext =>
        /\ ciphertexts[k].source \in Sources /\ ciphertexts[k].account \in Identities
        /\ OwnerOf(ciphertexts[k].source) \in Owners
StoredInv == \A k \in Keys : StoredOK(k)

IInv == JobsInv /\ OneRequest /\ SourceInv /\ StoredInv /\ SessionLeavesOnce /\ StoredSessionsAreEarned

----------------------------------------------------------------------------
(* Types.                                                                  *)

LEMMA RowTypes ==
    ASSUME RecordsOK
    PROVE  /\ \A ch \in Challenges : challenge[ch] \in ChallengeObjects
           /\ \A j \in Jobs : jobs[j] \in JobRecords
           /\ \A t \in Tickets : tickets[t] \in TicketRecords
           /\ \A k \in Keys : ciphertexts[k] \in Ciphertexts
           /\ \A i \in Identities : connections[i] \in Connections /\ accounts[i] \in Orgs \cup {None}
BY DEF RecordsOK

LEMMA NothingTyped ==
    /\ NoJob \in JobRecords /\ NoJob.pc = "idle"
    /\ NoCiphertext \in Ciphertexts /\ NoCiphertext.account = None /\ NoCiphertext.source = None
    /\ NoTicket \in TicketRecords /\ NoChallenge \in ChallengeObjects
<1>1. MaxTime + Ttl \in Nat
  OBVIOUS
<1> QED BY <1>1 DEF NoJob, JobRecords, NoCiphertext, Ciphertexts, NoTicket, TicketRecords,
                    NoChallenge, ChallengeObjects, States

\* A finished challenge keeps its owner and gets the state and the identity asked for, or
\* none of it changes.
LEMMA FinishEffect ==
    ASSUME RecordsOK, NEW ch \in Challenges, NEW state \in States,
           NEW identity \in Identities \cup {None}, Finish(ch, state, identity)
    PROVE  \E c \in ChallengeObjects :
              /\ challenge' = [challenge EXCEPT ![ch] = c]
              /\ c.owner = challenge[ch].owner
              /\ \/ c = challenge[ch]
                 \/ c.state \in {state, "expired"} /\ c.identity = identity
<1>1. challenge[ch] \in ChallengeObjects /\ challenge \in [Challenges -> ChallengeObjects]
  BY RowTypes DEF RecordsOK
<1> DEFINE to(s) == [challenge[ch] EXCEPT !.state = s, !.identity = identity]
<1>2. \A s \in States : /\ to(s) \in ChallengeObjects /\ to(s).owner = challenge[ch].owner
                        /\ to(s).state = s /\ to(s).identity = identity
  BY <1>1 DEF ChallengeObjects
<1>3. \/ challenge' = challenge
      \/ challenge' = [challenge EXCEPT ![ch].state = "expired", ![ch].identity = identity]
      \/ challenge' = [challenge EXCEPT ![ch].state = state, ![ch].identity = identity]
  BY DEF Finish
<1>4. ASSUME NEW s \in States, challenge' = [challenge EXCEPT ![ch].state = s, ![ch].identity = identity]
      PROVE  challenge' = [challenge EXCEPT ![ch] = to(s)]
  BY <1>1, <1>4
<1>5. CASE challenge' = challenge
  <2>1. challenge' = [challenge EXCEPT ![ch] = challenge[ch]]
    BY <1>1, <1>5
  <2> QED BY <1>1, <2>1
<1>6. "expired" \in States
  BY DEF States
<1> HIDE DEF to
<1> QED BY <1>2, <1>3, <1>4, <1>5, <1>6

LEMMA OneSession ==
    /\ \A i : Append(<<>>, i) = <<i>> /\ <<i>> # <<>> /\ Len(<<i>>) = 1
    /\ \A i, j : <<i>> = <<j>> => i = j
    /\ Len(<<>>) = 0
<1>1. ASSUME NEW i PROVE Append(<<>>, i) = <<i>> /\ <<i>> # <<>> /\ Len(<<i>>) = 1
  OBVIOUS
<1>2. ASSUME NEW i, NEW j, <<i>> = <<j>> PROVE i = j
  BY <1>2
<1> QED BY <1>1, <1>2

----------------------------------------------------------------------------
(* Steps of the stores: one challenge, its waiter and one request.         *)

\* A request ends, begins to wait for its code, is not concerned, or claims the challenge.
RequestGoes(l, ch, c) ==
    \/ jobs'[l].pc = "idle"
    \/ jobs'[l].pc = "requesting" /\ jobs'[l].source \in Challenges
    \/ jobs'[l] = jobs[l] /\ (User(jobs[l]) /\ jobs[l].source = ch => c = challenge[ch])
    \/ /\ User(jobs'[l]) /\ jobs'[l].source = ch /\ jobs'[l].owner = c.owner /\ c.owner \in Owners
       /\ c.state = "processing" /\ exported[ch] = <<>>
       /\ jobs'[l].pc = "exporting" => c.identity \in Identities
       /\ \A m \in Jobs \ {l} : User(jobs'[m]) => jobs'[m].source # ch
       /\ ch \in Qrs => waiters'[ch] # "waiting"

WaiterGoes(q, ch, c) ==
    waiters'[q] = "waiting" =>
        \/ waiters[q] = "waiting" /\ (q = ch => c = challenge[ch])
        \/ /\ q = ch /\ c.state = "processing" /\ exported[ch] = <<>>
           /\ \A l \in Jobs : User(jobs'[l]) => jobs'[l].source # ch

LEMMA ChallengeStep ==
    ASSUME RecordsOK, IInv, NEW ch \in Challenges, NEW c \in ChallengeObjects,
           challenge' = [challenge EXCEPT ![ch] = c], UNCHANGED <<now, tickets, database, exported>>,
           challenge[ch].state = "none" \/ c.owner = challenge[ch].owner,
           c.state = "authorized" => c.identity \in Identities,
           exported[ch] # <<>> => c.state \in Spent,
           waiters' \in [Qrs -> {"none", "created", "waiting"}], jobs' \in [Jobs -> JobRecords],
           \A l \in Jobs : RequestGoes(l, ch, c),
           \A q \in Qrs : WaiterGoes(q, ch, c)
    PROVE  RecordsOK' /\ IInv'
<1>1. challenge' \in [Challenges -> ChallengeObjects]
      /\ \A d \in Challenges : challenge'[d] = IF d = ch THEN c ELSE challenge[d]
  BY DEF RecordsOK
<1>2. RecordsOK'
  BY <1>1 DEF RecordsOK, database
<1>3. \A s \in Sources : exported[s] # <<>> => OwnerOf(s)' = OwnerOf(s)
  <2>1. \A d \in Challenges : exported[d] # <<>> => challenge[d].state # "none"
    BY DEF IInv, SourceInv, ChallengeOK, Spent
  <2> QED BY <1>1, <2>1 DEF OwnerOf, Sources
<1>4. SourceInv'
  <2>1. ASSUME NEW d \in Challenges PROVE ChallengeOK(d)'
    <3>1. ChallengeOK(d)
      BY DEF IInv, SourceInv
    <3>2. Awaited(d)' => \/ Awaited(d) /\ (d = ch => c = challenge[ch])
                         \/ d = ch /\ c.state = "processing" /\ exported[ch] = <<>>
      BY DEF Awaited, WaiterGoes
    <3>3. CASE d = ch
      BY <1>1, <3>1, <3>2, <3>3 DEF ChallengeOK
    <3>4. CASE d # ch
      BY <1>1, <3>1, <3>2, <3>4 DEF ChallengeOK
    <3> QED BY <3>3, <3>4
  <2> QED BY <2>1 DEF IInv, SourceInv
<1>5. JobsInv'
  <2> SUFFICES ASSUME NEW l \in Jobs PROVE UserOK(jobs[l])' /\ FinalOK(jobs[l])'
    BY DEF JobsInv
  <2>0. UserOK(jobs[l]) /\ FinalOK(jobs[l])
    BY DEF IInv, JobsInv
  <2>1. CASE jobs'[l].pc = "idle"
    BY <2>1 DEF UserOK, FinalOK, Requesting, User, Finalizing
  <2>2. CASE jobs'[l].pc = "requesting" /\ jobs'[l].source \in Challenges
    BY <2>2 DEF UserOK, FinalOK, Requesting, User, Finalizing
  <2>3. CASE jobs'[l] = jobs[l] /\ (User(jobs[l]) /\ jobs[l].source = ch => c = challenge[ch])
    <3>1. ASSUME User(jobs[l])
          PROVE  /\ jobs[l].source \in Challenges /\ challenge'[jobs[l].source] = challenge[jobs[l].source]
                 /\ exported'[jobs[l].source] = <<>> /\ ~Awaited(jobs[l].source)'
      <4>1. jobs[l].source \in Challenges /\ exported[jobs[l].source] = <<>> /\ ~Awaited(jobs[l].source)
        BY <2>0, <3>1 DEF UserOK, Requesting, User
      <4>2. challenge'[jobs[l].source] = challenge[jobs[l].source]
        BY <1>1, <2>3, <3>1, <4>1
      <4>3. ~Awaited(jobs[l].source)'
        BY <2>3, <3>1, <4>1 DEF Awaited, WaiterGoes
      <4> QED BY <4>1, <4>2, <4>3
    <3>2. UserOK(jobs[l])'
      BY <2>0, <2>3, <3>1 DEF UserOK, User, Requesting
    <3>3. FinalOK(jobs[l])'
      BY <1>3, <2>0, <2>3, OneSession DEF FinalOK, Finalizing, database
    <3> QED BY <3>2, <3>3
  <2>4. CASE /\ User(jobs'[l]) /\ jobs'[l].source = ch /\ jobs'[l].owner = c.owner /\ c.owner \in Owners
             /\ c.state = "processing" /\ exported[ch] = <<>>
             /\ jobs'[l].pc = "exporting" => c.identity \in Identities
             /\ ch \in Qrs => waiters'[ch] # "waiting"
    BY <1>1, <2>4 DEF UserOK, FinalOK, Requesting, User, Finalizing, Awaited
  <2> QED BY <2>1, <2>2, <2>3, <2>4 DEF RequestGoes
<1>6. OneRequest'
  <2> SUFFICES ASSUME NEW j \in Jobs, NEW l \in Jobs, jobs'[j].source = jobs'[l].source, j # l,
                      \/ User(jobs'[j]) /\ User(jobs'[l])
                      \/ Finalizing(jobs'[j]) /\ Finalizing(jobs'[l])
               PROVE  FALSE
    BY DEF OneRequest, User, Finalizing
  <2>1. CASE Finalizing(jobs'[j]) /\ Finalizing(jobs'[l])
    <3>1. jobs'[j] = jobs[j] /\ jobs'[l] = jobs[l]
      BY <2>1 DEF RequestGoes, Finalizing, User
    <3> QED BY <2>1, <3>1 DEF IInv, OneRequest
  <2>2. CASE User(jobs'[j]) /\ User(jobs'[l])
    <3>1. CASE jobs'[j] = jobs[j] /\ jobs'[l] = jobs[l]
      BY <2>2, <3>1 DEF IInv, OneRequest
    <3>2. CASE jobs'[j] # jobs[j]
      BY <2>2, <3>2 DEF RequestGoes, User
    <3>3. CASE jobs'[l] # jobs[l]
      BY <2>2, <3>3 DEF RequestGoes, User
    <3> QED BY <3>1, <3>2, <3>3
  <2> QED BY <2>1, <2>2
<1>7. SessionLeavesOnce' /\ StoredInv' /\ StoredSessionsAreEarned'
  <2>1. SessionLeavesOnce'
    BY DEF IInv, SessionLeavesOnce
  <2>2. ASSUME NEW k \in Keys, ciphertexts[k] # NoCiphertext
        PROVE  /\ ciphertexts[k].source \in Sources /\ ciphertexts[k].account \in Identities
               /\ OwnerOf(ciphertexts[k].source) \in Owners
               /\ exported[ciphertexts[k].source] = <<ciphertexts[k].account>>
               /\ OwnerOf(ciphertexts[k].source)' = OwnerOf(ciphertexts[k].source)
    <3>1. /\ ciphertexts[k].source \in Sources /\ ciphertexts[k].account \in Identities
          /\ OwnerOf(ciphertexts[k].source) \in Owners
          /\ exported[ciphertexts[k].source] = <<ciphertexts[k].account>>
      BY <2>2 DEF IInv, StoredInv, StoredOK, StoredSessionsAreEarned
    <3> QED BY <1>3, <3>1, OneSession DEF database
  <2>3. StoredInv'
    BY <2>2 DEF StoredInv, StoredOK, database
  <2>4. StoredSessionsAreEarned'
    BY <2>2 DEF IInv, StoredSessionsAreEarned, database
  <2> QED BY <2>1, <2>3, <2>4
<1> QED BY <1>2, <1>4, <1>5, <1>6, <1>7 DEF IInv

LEMMA GotoEffect ==
    ASSUME RecordsOK, NEW j \in Jobs, NEW r \in JobRecords, Goto(j, r)
    PROVE  jobs' \in [Jobs -> JobRecords] /\ \A l \in Jobs : jobs'[l] = IF l = j THEN r ELSE jobs[l]
BY DEF RecordsOK, Goto

LEMMA EndEffect ==
    ASSUME RecordsOK, NEW j \in Jobs, End(j)
    PROVE  jobs' \in [Jobs -> JobRecords] /\ \A l \in Jobs : jobs'[l] = IF l = j THEN NoJob ELSE jobs[l]
BY GotoEffect, NothingTyped DEF End

\* Nobody uses the client of a challenge that is not being processed.
LEMMA NotInUse ==
    ASSUME IInv, NEW ch \in Challenges, challenge[ch].state # "processing"
    PROVE  ~Awaited(ch) /\ \A l \in Jobs : User(jobs[l]) => jobs[l].source # ch
BY DEF IInv, JobsInv, UserOK, SourceInv, ChallengeOK

\* The answer of a client that nobody else uses.
LEMMA FinishStep ==
    ASSUME RecordsOK, IInv, NEW ch \in Challenges, NEW state \in States,
           NEW identity \in Identities \cup {None}, Finish(ch, state, identity),
           state = "authorized" => identity \in Identities, exported[ch] = <<>>,
           UNCHANGED <<now, tickets, database, exported>>,
           waiters' \in [Qrs -> {"none", "created", "waiting"}], jobs' \in [Jobs -> JobRecords],
           \A l \in Jobs : \/ jobs'[l] = NoJob
                           \/ jobs'[l] = jobs[l] /\ (User(jobs[l]) => jobs[l].source # ch),
           \A q \in Qrs : waiters'[q] = "waiting" => q # ch /\ waiters[q] = "waiting"
    PROVE  RecordsOK' /\ IInv'
<1>1. PICK c \in ChallengeObjects :
              /\ challenge' = [challenge EXCEPT ![ch] = c]
              /\ c.owner = challenge[ch].owner
              /\ \/ c = challenge[ch]
                 \/ c.state \in {state, "expired"} /\ c.identity = identity
  BY FinishEffect
<1>2. \A l \in Jobs : RequestGoes(l, ch, c)
  BY NothingTyped DEF RequestGoes
<1>3. \A q \in Qrs : WaiterGoes(q, ch, c)
  BY DEF WaiterGoes
<1>4. c.state = "authorized" => c.identity \in Identities
  BY <1>1 DEF IInv, SourceInv, ChallengeOK
<1> QED BY <1>1, <1>2, <1>3, <1>4, ChallengeStep

\* Requests and waiters may end without a trace.
LEMMA IdleStep ==
    ASSUME RecordsOK, IInv, UNCHANGED <<now, challenge, tickets, database, exported>>,
           waiters' \in [Qrs -> {"none", "created", "waiting"}], jobs' \in [Jobs -> JobRecords],
           \A l \in Jobs : jobs'[l] = NoJob \/ jobs'[l] = jobs[l],
           \A q \in Qrs : waiters'[q] = "waiting" => waiters[q] = "waiting",
           NEW ch \in Challenges
    PROVE  RecordsOK' /\ IInv'
<1> DEFINE c == challenge[ch]
<1>1. c \in ChallengeObjects /\ challenge' = [challenge EXCEPT ![ch] = c]
  BY DEF RecordsOK
<1>2. \A l \in Jobs : RequestGoes(l, ch, c)
  BY NothingTyped DEF RequestGoes
<1>3. \A q \in Qrs : WaiterGoes(q, ch, c)
  BY DEF WaiterGoes
<1>4. ChallengeOK(ch)
  BY DEF IInv, SourceInv
<1>5. /\ c.state = "authorized" => c.identity \in Identities
      /\ exported[ch] # <<>> => c.state \in Spent
  BY <1>4 DEF ChallengeOK
<1> QED BY <1>1, <1>2, <1>3, <1>5, ChallengeStep

\* What a claim says: the challenge was open and unused, and is now the claimant's.
LEMMA ClaimEffect ==
    ASSUME RecordsOK, IInv, NEW ch \in Challenges, NEW o,
           NEW expected \in {"code_sent", "needs_2fa", "authorized"}, Claim(ch, o, expected)
    PROVE  /\ exported[ch] = <<>> /\ ~Awaited(ch)
           /\ \A l \in Jobs : User(jobs[l]) => jobs[l].source # ch
           /\ \E c \in ChallengeObjects :
                 /\ challenge' = [challenge EXCEPT ![ch] = c]
                 /\ c.owner = o /\ challenge[ch].owner = o /\ c.state = "processing"
                 /\ expected = "authorized" => c.identity \in Identities
<1>1. challenge[ch].state = expected /\ challenge[ch].owner = o
      /\ challenge' = [challenge EXCEPT ![ch].state = "processing"]
  BY DEF Claim, Claimable
<1>2. ChallengeOK(ch) /\ challenge[ch] \in ChallengeObjects /\ challenge \in [Challenges -> ChallengeObjects]
  BY DEF IInv, SourceInv, RecordsOK
<1>3. exported[ch] = <<>>
  BY <1>1, <1>2 DEF ChallengeOK, Spent
<1>4. ~Awaited(ch) /\ \A l \in Jobs : User(jobs[l]) => jobs[l].source # ch
  BY <1>1, NotInUse
<1> DEFINE c == [challenge[ch] EXCEPT !.state = "processing"]
<1>5. c \in ChallengeObjects /\ c.owner = o /\ c.state = "processing" /\ c.identity = challenge[ch].identity
  BY <1>1, <1>2 DEF ChallengeObjects, States
<1>6. challenge' = [challenge EXCEPT ![ch] = c]
  BY <1>1, <1>2
<1>7. expected = "authorized" => c.identity \in Identities
  BY <1>1, <1>2, <1>5 DEF ChallengeOK
<1> HIDE DEF c
<1> QED BY <1>1, <1>3, <1>4, <1>5, <1>6, <1>7

\* A request claims the challenge.
LEMMA ClaimStep ==
    ASSUME RecordsOK, IInv, NEW ch \in Challenges, NEW o \in Owners, NEW j \in Jobs,
           NEW expected \in {"code_sent", "needs_2fa", "authorized"}, Claim(ch, o, expected),
           NEW step \in {"signing", "password", "exporting"},
           Goto(j, [NoJob EXCEPT !.pc = step, !.source = ch, !.owner = o]),
           step = "exporting" => expected = "authorized",
           UNCHANGED <<now, tickets, database, exported>>,
           waiters' \in [Qrs -> {"none", "created", "waiting"}],
           \A q \in Qrs : waiters'[q] = "waiting" => waiters[q] = "waiting"
    PROVE  RecordsOK' /\ IInv'
<1>1. /\ exported[ch] = <<>> /\ ~Awaited(ch)
      /\ \A l \in Jobs : User(jobs[l]) => jobs[l].source # ch
  BY ClaimEffect
<1>2. PICK c \in ChallengeObjects :
              /\ challenge' = [challenge EXCEPT ![ch] = c]
              /\ c.owner = o /\ challenge[ch].owner = o /\ c.state = "processing"
              /\ expected = "authorized" => c.identity \in Identities
  BY ClaimEffect
<1> DEFINE r == [NoJob EXCEPT !.pc = step, !.source = ch, !.owner = o]
<1>3. r \in JobRecords /\ r.pc = step /\ r.source = ch /\ r.owner = o
  BY DEF NoJob, JobRecords, Sources
<1> HIDE DEF r
<1>4. jobs' \in [Jobs -> JobRecords] /\ \A l \in Jobs : jobs'[l] = IF l = j THEN r ELSE jobs[l]
  BY <1>3, GotoEffect DEF r
<1>5. ch \in Qrs => waiters'[ch] # "waiting"
  BY <1>1 DEF Awaited
<1>6. \A l \in Jobs : RequestGoes(l, ch, c)
  <2>1. User(r)
    BY <1>3 DEF User
  <2> QED BY <1>1, <1>2, <1>3, <1>4, <1>5, <2>1 DEF RequestGoes
<1>7. \A q \in Qrs : WaiterGoes(q, ch, c)
  BY <1>5 DEF WaiterGoes
<1> QED BY <1>1, <1>2, <1>4, <1>6, <1>7, ChallengeStep

----------------------------------------------------------------------------
(* Phone and QR attempts.                                                  *)

LEMMA PhoneRequestStep ==
    ASSUME RecordsOK, IInv, NEW j \in Jobs, NEW ch \in Phones, NEW o \in Owners, PhoneRequest(j, ch, o)
    PROVE  RecordsOK' /\ IInv'
<1>0. ch \in Challenges /\ ch \notin Qrs /\ waiters \in [Qrs -> {"none", "created", "waiting"}]
  BY DEF Challenges, RecordsOK
<1>1. CASE StartPhone(j, ch, o)
  <2> DEFINE c == Created(o)
             r == [NoJob EXCEPT !.pc = "requesting", !.source = ch, !.owner = o]
  <2>1. c \in ChallengeObjects /\ c.state = "code_sent"
    BY DEF RecordsOK, Created, ChallengeObjects, States
  <2>2. r \in JobRecords /\ r.pc = "requesting" /\ r.source = ch
    BY <1>0 DEF NoJob, JobRecords, Sources
  <2>3. /\ challenge[ch].state = "none" /\ challenge' = [challenge EXCEPT ![ch] = c] /\ Goto(j, r)
        /\ UNCHANGED <<now, waiters, tickets, database, exported>>
    BY <1>1 DEF StartPhone, Create
  <2> HIDE DEF c, r
  <2>4. jobs' \in [Jobs -> JobRecords] /\ \A l \in Jobs : jobs'[l] = IF l = j THEN r ELSE jobs[l]
    BY <2>2, <2>3, GotoEffect
  <2>5. \A l \in Jobs : User(jobs[l]) => jobs[l].source # ch
    BY <1>0, <2>3, NotInUse
  <2>6. exported[ch] = <<>>
    BY <1>0, <2>3 DEF IInv, SourceInv, ChallengeOK, Spent
  <2>7. \A l \in Jobs : RequestGoes(l, ch, c)
    BY <1>0, <2>2, <2>4, <2>5 DEF RequestGoes
  <2>8. \A q \in Qrs : WaiterGoes(q, ch, c)
    BY <1>0, <2>3 DEF WaiterGoes
  <2> QED BY <1>0, <2>1, <2>3, <2>4, <2>6, <2>7, <2>8, ChallengeStep
<1>2. CASE SubmitCode(j, ch, o)
  BY <1>0, <1>2, ClaimStep DEF SubmitCode
<1>3. CASE SubmitPassword(j, ch, o)
  BY <1>0, <1>3, ClaimStep DEF SubmitPassword
<1> QED BY <1>1, <1>2, <1>3 DEF PhoneRequest

\* The answers of a phone client: the request that waits is the only user.
LEMMA PhoneAnswerStep ==
    ASSUME RecordsOK, IInv, NEW j \in Jobs
    PROVE  /\ \A state \in {"code_sent", "failed"} : CodeRequested(j, state) => RecordsOK' /\ IInv'
           /\ \A i \in Identities : SignedIn(j, i) => RecordsOK' /\ IInv'
           /\ \A state \in {"needs_2fa", "failed"} : SignInFails(j, state) => RecordsOK' /\ IInv'
<1> DEFINE ch == jobs[j].source
<1>0. UserOK(jobs[j]) /\ waiters \in [Qrs -> {"none", "created", "waiting"}]
  BY DEF IInv, JobsInv, RecordsOK
<1>1. ASSUME User(jobs[j])
      PROVE  /\ ch \in Challenges /\ challenge[ch].state = "processing" /\ exported[ch] = <<>>
             /\ challenge[ch].owner = jobs[j].owner /\ jobs[j].owner \in Owners
             /\ \A q \in Qrs : waiters[q] = "waiting" => q # ch
             /\ \A l \in Jobs \ {j} : User(jobs[l]) => jobs[l].source # ch
  BY <1>0, <1>1 DEF UserOK, User, Requesting, Awaited, IInv, OneRequest
<1>2. ASSUME NEW state \in {"code_sent", "failed"}, CodeRequested(j, state) PROVE RecordsOK' /\ IInv'
  <2>1. /\ ch \in Challenges /\ UNCHANGED <<now, waiters, tickets, database, exported>> /\ End(j)
        /\ state \in States
    BY <1>0, <1>2 DEF CodeRequested, UserOK, Requesting, States
  <2>2. jobs' \in [Jobs -> JobRecords] /\ \A l \in Jobs : jobs'[l] = IF l = j THEN NoJob ELSE jobs[l]
    BY <2>1, EndEffect
  <2>3. CASE Claimable(ch, jobs[j].owner, "code_sent")
    <3>1. challenge[ch].state = "code_sent" /\ Finish(ch, state, None)
      BY <1>2, <2>3 DEF CodeRequested, Claimable
    <3>2. exported[ch] = <<>>
      BY <2>1, <3>1 DEF IInv, SourceInv, ChallengeOK, Spent
    <3>3. ~Awaited(ch) /\ \A l \in Jobs : User(jobs[l]) => jobs[l].source # ch
      BY <2>1, <3>1, NotInUse
    <3> HIDE DEF ch
    <3>4. PICK d \in Challenges : d = ch
      BY <2>1
    <3> QED BY <1>0, <2>1, <2>2, <3>1, <3>2, <3>3, <3>4, FinishStep DEF Awaited
  <2>4. CASE ~Claimable(ch, jobs[j].owner, "code_sent")
    BY <1>0, <1>2, <2>1, <2>2, <2>4, IdleStep DEF CodeRequested
  <2> QED BY <2>3, <2>4
<1>3. ASSUME NEW i \in Identities, SignedIn(j, i) PROVE RecordsOK' /\ IInv'
  <2>1. User(jobs[j]) /\ UNCHANGED <<now, waiters, tickets, database, exported>>
    BY <1>3 DEF SignedIn, User
  <2>2. CASE Authorizes(ch)
    <3> DEFINE c == [challenge[ch] EXCEPT !.identity = i]
               r == [jobs[j] EXCEPT !.pc = "exporting"]
    <3>1. challenge[ch] \in ChallengeObjects /\ jobs[j] \in JobRecords
      BY <1>1, <2>1, RowTypes
    <3>2. c \in ChallengeObjects /\ c.owner = challenge[ch].owner /\ c.state = challenge[ch].state /\ c.identity = i
      BY <3>1 DEF ChallengeObjects
    <3>3. r \in JobRecords /\ r.pc = "exporting" /\ r.source = ch /\ r.owner = jobs[j].owner
      BY <3>1 DEF JobRecords
    <3>4. challenge' = [challenge EXCEPT ![ch] = c] /\ Goto(j, r)
      BY <1>1, <1>3, <2>1, <2>2 DEF SignedIn
    <3> HIDE DEF r, ch
    <3>5. PICK d \in Challenges : d = ch
      BY <1>1, <2>1
    <3> HIDE DEF c
    <3>6. jobs' \in [Jobs -> JobRecords] /\ \A l \in Jobs : jobs'[l] = IF l = j THEN r ELSE jobs[l]
      BY <3>3, <3>4, GotoEffect
    <3>7. \A l \in Jobs : RequestGoes(l, d, c)
      <4>1. User(r)
        BY <3>3 DEF User
      <4> QED BY <1>1, <2>1, <3>2, <3>3, <3>5, <3>6, <4>1 DEF RequestGoes
    <3>8. \A q \in Qrs : WaiterGoes(q, d, c)
      BY <1>1, <2>1, <3>5 DEF WaiterGoes
    <3> QED BY <1>0, <1>1, <2>1, <3>2, <3>4, <3>5, <3>6, <3>7, <3>8, ChallengeStep
  <2>3. CASE ~Authorizes(ch)
    <3>1. Finish(ch, "authorized", i) /\ End(j) /\ "authorized" \in States
      BY <1>3, <2>3 DEF SignedIn, States
    <3>2. jobs' \in [Jobs -> JobRecords] /\ \A l \in Jobs : jobs'[l] = IF l = j THEN NoJob ELSE jobs[l]
      BY <3>1, EndEffect
    <3> HIDE DEF ch
    <3>3. PICK d \in Challenges : d = ch
      BY <1>1, <2>1
    <3> QED BY <1>0, <1>1, <2>1, <3>1, <3>2, <3>3, FinishStep
  <2> QED BY <2>2, <2>3
<1>4. ASSUME NEW state \in {"needs_2fa", "failed"}, SignInFails(j, state) PROVE RecordsOK' /\ IInv'
  <2>1. /\ User(jobs[j]) /\ UNCHANGED <<now, waiters, tickets, database, exported>>
        /\ Finish(ch, state, None) /\ End(j) /\ state \in States
    BY <1>4 DEF SignInFails, User, States
  <2>2. jobs' \in [Jobs -> JobRecords] /\ \A l \in Jobs : jobs'[l] = IF l = j THEN NoJob ELSE jobs[l]
    BY <2>1, EndEffect
  <2> HIDE DEF ch
  <2>3. PICK d \in Challenges : d = ch
    BY <1>1, <2>1
  <2> QED BY <1>0, <1>1, <2>1, <2>2, <2>3, FinishStep
<1> QED BY <1>2, <1>3, <1>4

LEMMA QrStepKeeps ==
    ASSUME RecordsOK, IInv, NEW ch \in Qrs, QrStep(ch)
    PROVE  RecordsOK' /\ IInv'
<1>0. ch \in Challenges /\ waiters \in [Qrs -> {"none", "created", "waiting"}] /\ jobs \in [Jobs -> JobRecords]
  BY DEF Challenges, RecordsOK
<1>1. CASE AwaitQr(ch)
  <2>1. UNCHANGED <<now, tickets, jobs, database, exported>>
    BY <1>1 DEF AwaitQr
  <2>2. CASE Claim(ch, challenge[ch].owner, "code_sent") /\ waiters' = [waiters EXCEPT ![ch] = "waiting"]
    <3>1. PICK o : o = challenge[ch].owner
      OBVIOUS
    <3>2. Claim(ch, o, "code_sent")
      BY <2>2, <3>1
    <3>3. exported[ch] = <<>> /\ ~Awaited(ch) /\ \A l \in Jobs : User(jobs[l]) => jobs[l].source # ch
      BY <1>0, <3>2, ClaimEffect
    <3>4. PICK c \in ChallengeObjects :
                 /\ challenge' = [challenge EXCEPT ![ch] = c]
                 /\ c.owner = o /\ challenge[ch].owner = o /\ c.state = "processing"
      BY <1>0, <3>2, ClaimEffect
    <3>5. \A l \in Jobs : RequestGoes(l, ch, c)
      BY <2>1, <3>3 DEF RequestGoes
    <3>6. \A q \in Qrs : WaiterGoes(q, ch, c)
      BY <1>0, <2>1, <2>2, <3>3, <3>4 DEF WaiterGoes
    <3>7. waiters' \in [Qrs -> {"none", "created", "waiting"}] /\ jobs' \in [Jobs -> JobRecords]
      BY <1>0, <2>1, <2>2
    <3> QED BY <1>0, <2>1, <3>3, <3>4, <3>5, <3>6, <3>7, ChallengeStep
  <2>3. CASE UNCHANGED challenge /\ waiters' = [waiters EXCEPT ![ch] = "none"]
    BY <1>0, <2>1, <2>3, IdleStep
  <2> QED BY <1>1, <2>2, <2>3 DEF AwaitQr
<1>2. ASSUME waiters[ch] = "waiting", waiters' = [waiters EXCEPT ![ch] = "none"],
             NEW state \in States, NEW i \in Identities \cup {None}, Finish(ch, state, i),
             state = "authorized" => i \in Identities, UNCHANGED <<now, tickets, jobs, database, exported>>
      PROVE  RecordsOK' /\ IInv'
  <2>1. Awaited(ch) /\ exported[ch] = <<>>
    BY <1>0, <1>2 DEF Awaited, IInv, SourceInv, ChallengeOK
  <2>2. \A l \in Jobs : User(jobs[l]) => jobs[l].source # ch
    BY <2>1 DEF IInv, JobsInv, UserOK
  <2>3. waiters' \in [Qrs -> {"none", "created", "waiting"}] /\ jobs' \in [Jobs -> JobRecords]
    BY <1>0, <1>2
  <2>4. \A q \in Qrs : waiters'[q] = "waiting" => q # ch /\ waiters[q] = "waiting"
    BY <1>0, <1>2
  <2> QED BY <1>0, <1>2, <2>1, <2>2, <2>3, <2>4, FinishStep
<1>3. ASSUME NEW i \in Identities, QrScanned(ch, i) PROVE RecordsOK' /\ IInv'
  <2>1. "authorized" \in States
    BY DEF States
  <2> QED BY <1>2, <1>3, <2>1 DEF QrScanned
<1>4. ASSUME NEW state \in {"expired", "code_sent"}, QrFails(ch, state) PROVE RecordsOK' /\ IInv'
  <2>1. state \in States /\ state # "authorized"
    BY DEF States
  <2> QED BY <1>2, <1>4, <2>1 DEF QrFails
<1>5. ASSUME NEW o \in Owners, NEW link \in BOOLEAN, StartQr(ch, o, link) PROVE RecordsOK' /\ IInv'
  <2> DEFINE c == IF link THEN Created(o) ELSE [Created(o) EXCEPT !.state = "failed"]
  <2>1. c \in ChallengeObjects /\ c.state \in {"code_sent", "failed"}
    BY DEF RecordsOK, Created, ChallengeObjects, States
  <2>2. /\ challenge[ch].state = "none" /\ challenge' = [challenge EXCEPT ![ch] = c]
        /\ waiters' = [waiters EXCEPT ![ch] = IF link THEN "created" ELSE @]
        /\ UNCHANGED <<now, tickets, jobs, database, exported>>
    BY <1>5 DEF StartQr, Create
  <2> HIDE DEF c
  <2>3. exported[ch] = <<>>
    BY <1>0, <2>2 DEF IInv, SourceInv, ChallengeOK, Spent
  <2>4. ~Awaited(ch) /\ \A l \in Jobs : User(jobs[l]) => jobs[l].source # ch
    BY <1>0, <2>2, NotInUse
  <2>5. waiters' \in [Qrs -> {"none", "created", "waiting"}] /\ jobs' \in [Jobs -> JobRecords]
    BY <1>0, <2>2
  <2>6. \A l \in Jobs : RequestGoes(l, ch, c)
    BY <2>2, <2>4 DEF RequestGoes
  <2>7. \A q \in Qrs : WaiterGoes(q, ch, c)
    BY <1>0, <2>2, <2>4 DEF WaiterGoes, Awaited
  <2> QED BY <1>0, <2>1, <2>2, <2>3, <2>5, <2>6, <2>7, ChallengeStep
<1>6. ASSUME NEW j \in Jobs, NEW o \in Owners, PollQr(j, ch, o) PROVE RecordsOK' /\ IInv'
  <2>1. /\ UNCHANGED <<now, tickets, database, exported>>
        /\ waiters' \in [Qrs -> {"none", "created", "waiting"}]
        /\ \A q \in Qrs : waiters'[q] = "waiting" => waiters[q] = "waiting"
    BY <1>0, <1>6 DEF PollQr
  <2>2. CASE /\ Claim(ch, o, "authorized")
             /\ Goto(j, [NoJob EXCEPT !.pc = "exporting", !.source = ch, !.owner = o])
    BY <1>0, <2>1, <2>2, ClaimStep
  <2>3. CASE UNCHANGED <<challenge, jobs>>
    BY <1>0, <2>1, <2>3, IdleStep
  <2> QED BY <1>6, <2>2, <2>3 DEF PollQr
<1> QED BY <1>1, <1>3, <1>4, <1>5, <1>6 DEF QrStep, QrRequest

----------------------------------------------------------------------------
(* A source yields its session.                                            *)

\* What is stored has left its source, and keeps its owner.
LEMMA StoredFacts ==
    ASSUME IInv, NEW k \in Keys, ciphertexts[k] # NoCiphertext
    PROVE  /\ ciphertexts[k].source \in Sources /\ ciphertexts[k].account \in Identities
           /\ OwnerOf(ciphertexts[k].source) \in Owners
           /\ accounts[ciphertexts[k].account] = OrgOf[OwnerOf(ciphertexts[k].source)]
           /\ exported[ciphertexts[k].source] = <<ciphertexts[k].account>>
           /\ \A l \in Keys : ciphertexts[l].source = ciphertexts[k].source => l = k
BY DEF IInv, StoredInv, StoredOK, StoredSessionsAreEarned

LEMMA NothingStored ==
    ASSUME IInv, NEW s \in Sources, exported[s] = <<>>
    PROVE  /\ \A k \in Keys : ciphertexts[k].source # s
           /\ \A l \in Jobs : Finalizing(jobs[l]) => jobs[l].source # s
<1>1. ASSUME NEW k \in Keys PROVE ciphertexts[k].source # s
  <2>1. s # None
    BY DEF Sources
  <2>2. CASE ciphertexts[k] = NoCiphertext
    BY <2>1, <2>2, NothingTyped
  <2>3. CASE ciphertexts[k] # NoCiphertext
    BY <2>3, StoredFacts, OneSession
  <2> QED BY <2>2, <2>3
<1>2. ASSUME NEW l \in Jobs, Finalizing(jobs[l]) PROVE jobs[l].source # s
  BY <1>2, OneSession DEF IInv, JobsInv, FinalOK
<1> QED BY <1>1, <1>2

\* The database does not see it: what was stored stays earned.
LEMMA StoredKept ==
    ASSUME IInv, UNCHANGED database,
           \A x \in Sources : exported[x] # <<>> => OwnerOf(x)' = OwnerOf(x) /\ exported'[x] = exported[x]
    PROVE  StoredInv' /\ StoredSessionsAreEarned'
<1>1. ASSUME NEW k \in Keys, ciphertexts[k] # NoCiphertext
      PROVE  /\ OwnerOf(ciphertexts[k].source)' = OwnerOf(ciphertexts[k].source)
             /\ exported'[ciphertexts[k].source] = exported[ciphertexts[k].source]
  BY <1>1, StoredFacts, OneSession DEF database
<1>2. StoredInv'
  BY <1>1 DEF IInv, StoredInv, StoredOK, database
<1>3. StoredSessionsAreEarned'
  <2>1. ASSUME NEW k \in Keys, ciphertexts'[k] # NoCiphertext
        PROVE  LET c == ciphertexts'[k] IN
               /\ accounts'[c.account] = OrgOf[OwnerOf(ciphertexts[k].source)']
               /\ exported'[c.source] = <<c.account>>
               /\ \A l \in Keys : ciphertexts'[l].source = c.source => l = k
    BY <1>1, <2>1, StoredFacts DEF database
  <2>2. \A i \in Identities : connections'[i].key # None => ciphertexts'[connections'[i].key].account = i
    BY DEF IInv, StoredSessionsAreEarned, database
  <2> QED BY <2>1, <2>2 DEF StoredSessionsAreEarned
<1> QED BY <1>2, <1>3

LEMMA YieldStep ==
    ASSUME RecordsOK, IInv, RecordsOK', SourceInv', NEW s \in Sources, exported[s] = <<>>,
           NEW j \in Jobs, NEW r \in JobRecords, Goto(j, r), r.pc = "provision", r.source = s,
           r.owner \in Owners, OwnerOf(s)' = r.owner, r.identity \in Identities,
           exported' = [exported EXCEPT ![s] = Append(@, r.identity)], UNCHANGED <<waiters, database>>,
           \A x \in Sources : exported[x] # <<>> => OwnerOf(x)' = OwnerOf(x),
           \A l \in Jobs \ {j} : User(jobs[l]) =>
               jobs[l].source # s /\ challenge'[jobs[l].source] = challenge[jobs[l].source]
    PROVE  IInv'
<1>1. \A l \in Jobs : jobs'[l] = IF l = j THEN r ELSE jobs[l]
  BY GotoEffect
<1>2. /\ exported'[s] = <<r.identity>> /\ \A x \in Sources \ {s} : exported'[x] = exported[x]
      /\ \A x \in Sources : exported[x] # <<>> => exported'[x] = exported[x]
  BY OneSession DEF RecordsOK
<1>3. /\ \A k \in Keys : ciphertexts[k].source # s
      /\ \A l \in Jobs : Finalizing(jobs[l]) => jobs[l].source # s
  BY NothingStored
<1>4. Finalizing(r) /\ ~User(r) /\ ~Requesting(r)
  BY DEF Finalizing, User, Requesting
<1>5. JobsInv'
  <2> SUFFICES ASSUME NEW l \in Jobs PROVE UserOK(jobs[l])' /\ FinalOK(jobs[l])'
    BY DEF JobsInv
  <2>1. CASE l = j
    <3>1. UserOK(jobs[l])'
      BY <1>1, <1>4, <2>1 DEF UserOK, User, Requesting
    <3>2. OwnerOf(jobs[l].source)' = r.owner
      <4>1. jobs'[l].source = s
        BY <1>1, <2>1
      <4> QED BY <4>1 DEF OwnerOf
    <3>3. FinalOK(jobs[l])'
      BY <1>1, <1>2, <1>3, <2>1, <3>2 DEF FinalOK, database
    <3> QED BY <3>1, <3>3
  <2>2. CASE l # j
    <3>0. jobs'[l] = jobs[l] /\ UserOK(jobs[l]) /\ FinalOK(jobs[l])
      BY <1>1, <2>2 DEF IInv, JobsInv
    <3>1. UserOK(jobs[l])'
      <4>1. ASSUME User(jobs[l])
            PROVE  /\ exported'[jobs[l].source] = exported[jobs[l].source]
                   /\ challenge'[jobs[l].source] = challenge[jobs[l].source]
                   /\ Awaited(jobs[l].source)' <=> Awaited(jobs[l].source)
        BY <1>2, <2>2, <3>0, <4>1 DEF UserOK, User, Requesting, Awaited, Sources
      <4> QED BY <3>0, <4>1 DEF UserOK, User, Requesting
    <3>2. FinalOK(jobs[l])'
      <4>1. ASSUME Finalizing(jobs[l])
            PROVE  /\ exported'[jobs[l].source] = exported[jobs[l].source]
                   /\ OwnerOf(jobs[l].source)' = OwnerOf(jobs[l].source)
        BY <1>2, <3>0, <4>1, OneSession DEF FinalOK
      <4> QED BY <3>0, <4>1 DEF FinalOK, Finalizing, database
    <3> QED BY <3>1, <3>2
  <2> QED BY <2>1, <2>2
<1>6. OneRequest'
  <2> SUFFICES ASSUME NEW m \in Jobs, NEW l \in Jobs, jobs'[m].source = jobs'[l].source, m # l,
                      \/ User(jobs'[m]) /\ User(jobs'[l])
                      \/ Finalizing(jobs'[m]) /\ Finalizing(jobs'[l])
               PROVE  FALSE
    BY DEF OneRequest, User, Finalizing
  <2>1. CASE m # j /\ l # j
    BY <1>1, <2>1 DEF IInv, OneRequest
  <2>2. CASE m = j \/ l = j
    BY <1>1, <1>3, <1>4, <2>2
  <2> QED BY <2>1, <2>2
<1>7. SessionLeavesOnce'
  BY <1>2, OneSession DEF IInv, SessionLeavesOnce
<1>8. StoredInv' /\ StoredSessionsAreEarned'
  BY <1>2, StoredKept
<1> QED BY <1>5, <1>6, <1>7, <1>8 DEF IInv

\* consume_authorized_session
LEMMA ExportStep ==
    ASSUME RecordsOK, IInv, NEW j \in Jobs, Export(j)
    PROVE  RecordsOK' /\ IInv'
<1> DEFINE ch == jobs[j].source
           i == challenge[ch].identity
<1>0. UserOK(jobs[j]) /\ waiters \in [Qrs -> {"none", "created", "waiting"}] /\ jobs[j] \in JobRecords
  BY DEF IInv, JobsInv, RecordsOK
<1>1. /\ User(jobs[j]) /\ UNCHANGED <<now, waiters, tickets, database>> /\ Finish(ch, "failed", i)
      /\ i \in Identities /\ "failed" \in States
  BY <1>0 DEF Export, User, UserOK, Spend, States
<1>2. /\ ch \in Challenges /\ challenge[ch].state = "processing" /\ exported[ch] = <<>>
      /\ challenge[ch].owner = jobs[j].owner /\ jobs[j].owner \in Owners /\ ~Awaited(ch)
      /\ \A l \in Jobs \ {j} : User(jobs[l]) => jobs[l].source # ch
  BY <1>0, <1>1 DEF UserOK, User, Requesting, IInv, OneRequest
<1>3. PICK d \in Challenges, n \in Identities : d = ch /\ n = i
  BY <1>1, <1>2
<1>4. CASE End(j) /\ UNCHANGED exported
  <2>1. jobs' \in [Jobs -> JobRecords] /\ \A l \in Jobs : jobs'[l] = IF l = j THEN NoJob ELSE jobs[l]
    BY <1>4, EndEffect
  <2>2. \A q \in Qrs : waiters'[q] = "waiting" => q # d /\ waiters[q] = "waiting"
    BY <1>1, <1>2, <1>3 DEF Awaited
  <2> HIDE DEF ch, i
  <2> QED BY <1>0, <1>1, <1>2, <1>3, <1>4, <2>1, <2>2, FinishStep
<1>5. CASE /\ Goto(j, [jobs[j] EXCEPT !.pc = "provision", !.identity = i])
           /\ exported' = [exported EXCEPT ![ch] = Append(@, i)]
  <2> DEFINE r == [jobs[j] EXCEPT !.pc = "provision", !.identity = n]
  <2>1. r \in JobRecords /\ r.pc = "provision" /\ r.source = d /\ r.owner = jobs[j].owner /\ r.identity = n
    BY <1>0, <1>3 DEF JobRecords
  <2>2. Goto(j, r) /\ exported' = [exported EXCEPT ![d] = Append(@, n)]
    BY <1>3, <1>5
  <2> HIDE DEF r
  <2>3. Finish(d, "failed", n)
    BY <1>1, <1>3
  <2>4. PICK c \in ChallengeObjects :
              /\ challenge' = [challenge EXCEPT ![d] = c]
              /\ c.owner = challenge[d].owner
              /\ c = challenge[d] \/ c.state \in {"failed", "expired"}
    BY <1>1, <2>3, FinishEffect
  <2>5. \A x \in Challenges : challenge'[x] = IF x = d THEN c ELSE challenge[x]
    BY <2>4 DEF RecordsOK
  <2>6. RecordsOK'
    <3>1. challenge' \in [Challenges -> ChallengeObjects] /\ jobs' \in [Jobs -> JobRecords]
      BY <2>1, <2>2, <2>4, GotoEffect DEF RecordsOK
    <3>2. exported' \in [Sources -> Seq(Identities \cup {None})]
      <4>1. <<n>> \in Seq(Identities \cup {None})
        OBVIOUS
      <4>2. exported' = [exported EXCEPT ![d] = <<n>>]
        BY <1>2, <1>3, <2>2, OneSession
      <4> QED BY <4>1, <4>2 DEF RecordsOK
    <3> QED BY <1>1, <3>1, <3>2 DEF RecordsOK, database
  <2>7. SourceInv'
    <3>0. c.state \in Spent /\ d \in Sources /\ Tickets \subseteq Sources /\ d \notin Tickets
      BY <1>2, <1>3, <2>4 DEF Spent, Sources
    <3>1. ASSUME NEW x \in Challenges PROVE ChallengeOK(x)'
      <4>1. ChallengeOK(x) /\ (Awaited(x)' <=> Awaited(x)) /\ x \in Sources
        BY <1>1 DEF IInv, SourceInv, Awaited, Sources
      <4>2. CASE x = d
        <5>1. ~Awaited(x)' /\ challenge'[x].state \in Spent
          BY <1>2, <1>3, <2>5, <3>0, <4>1, <4>2
        <5> QED BY <5>1 DEF ChallengeOK, Spent
      <4>3. CASE x # d
        <5>1. challenge'[x] = challenge[x] /\ exported'[x] = exported[x]
          BY <2>2, <2>5, <4>1, <4>3 DEF RecordsOK
        <5> QED BY <4>1, <5>1 DEF ChallengeOK
      <4> QED BY <4>2, <4>3
    <3>2. \A t \in Tickets : exported'[t] = exported[t]
      BY <2>2, <3>0 DEF RecordsOK
    <3> QED BY <1>1, <3>1, <3>2 DEF IInv, SourceInv
  <2>8. d \in Sources /\ \A x \in Sources : OwnerOf(x)' = OwnerOf(x)
    BY <1>1, <2>4, <2>5 DEF OwnerOf, Sources
  <2>9. OwnerOf(d) = jobs[j].owner
    BY <1>2, <1>3 DEF OwnerOf
  <2>10. \A l \in Jobs \ {j} : User(jobs[l]) =>
              jobs[l].source # d /\ challenge'[jobs[l].source] = challenge[jobs[l].source]
    BY <1>2, <1>3, <2>5 DEF IInv, JobsInv, UserOK, User, Requesting
  <2> HIDE DEF ch, i
  <2> QED BY <1>1, <1>2, <1>3, <2>1, <2>2, <2>6, <2>7, <2>8, <2>9, <2>10, YieldStep
<1> QED BY <1>4, <1>5 DEF Export

\* The registry drops what is stale and keeps every owner.
LEMMA RegistryTyped ==
    ASSUME RecordsOK
    PROVE  /\ Registry \in [Tickets -> TicketRecords]
           /\ \A t \in Tickets : /\ Registry[t].owner = tickets[t].owner
                                 /\ Registry[t].state \in {tickets[t].state, "gone"}
<1>1. ASSUME NEW t \in Tickets
      PROVE  LET r == IF Stale(t) THEN [tickets[t] EXCEPT !.state = "gone"] ELSE tickets[t]
             IN  /\ r \in TicketRecords /\ r.owner = tickets[t].owner
                 /\ r.state \in {tickets[t].state, "gone"}
  BY RowTypes DEF TicketRecords
<1> QED BY <1>1 DEF Registry

\* Tickets change, and no session leaves.
LEMMA TicketStep ==
    ASSUME RecordsOK, IInv, tickets' \in [Tickets -> TicketRecords],
           UNCHANGED <<now, active, challenge, waiters, jobs, database, exported>>,
           \A x \in Tickets : exported[x] # <<>> =>
               tickets'[x].owner = tickets[x].owner /\ tickets'[x].state = "gone"
    PROVE  RecordsOK' /\ IInv'
<1>1. RecordsOK'
  BY DEF RecordsOK, database
<1>2. \A x \in Sources : exported[x] # <<>> => OwnerOf(x)' = OwnerOf(x) /\ exported'[x] = exported[x]
  BY DEF OwnerOf, Sources
<1>3. StoredInv' /\ StoredSessionsAreEarned'
  BY <1>2, StoredKept
<1>4. SourceInv' /\ SessionLeavesOnce' /\ OneRequest'
  BY DEF IInv, SourceInv, ChallengeOK, Awaited, SessionLeavesOnce, OneRequest, User, Finalizing
<1>5. ASSUME NEW l \in Jobs PROVE UserOK(jobs[l])' /\ FinalOK(jobs[l])'
  <2>0. jobs'[l] = jobs[l] /\ UserOK(jobs[l]) /\ FinalOK(jobs[l])
    BY DEF IInv, JobsInv
  <2>1. UserOK(jobs[l])'
    BY <2>0 DEF UserOK, User, Requesting, Awaited
  <2>2. FinalOK(jobs[l])'
    BY <1>2, <2>0, OneSession DEF FinalOK, Finalizing, database
  <2> QED BY <2>1, <2>2
<1> QED BY <1>1, <1>3, <1>4, <1>5 DEF IInv, JobsInv

LEMMA IssueStep ==
    ASSUME RecordsOK, IInv, NEW t \in Tickets, NEW o \in Owners, IssueTicket(t, o)
    PROVE  RecordsOK' /\ IInv'
<1> DEFINE r == [state |-> "open", owner |-> o, expires |-> now + Ttl]
<1>1. r \in TicketRecords
  BY DEF RecordsOK, TicketRecords
<1>2. tickets' = [Registry EXCEPT ![t] = r] /\ tickets[t].state = "none"
  BY DEF IssueTicket
<1> HIDE DEF r
<1>3. tickets' \in [Tickets -> TicketRecords]
  BY <1>1, <1>2, RegistryTyped
<1>4. ASSUME NEW x \in Tickets, exported[x] # <<>>
      PROVE  tickets'[x].owner = tickets[x].owner /\ tickets'[x].state = "gone"
  <2>1. tickets[x].state = "gone"
    BY <1>4 DEF IInv, SourceInv
  <2>2. tickets'[x] = Registry[x]
    BY <1>2, <2>1, RegistryTyped
  <2> QED BY <2>1, <2>2, RegistryTyped
<1> QED BY <1>3, <1>4, TicketStep DEF IssueTicket

\* consume_envelope
LEMMA AcceptStep ==
    ASSUME RecordsOK, IInv, NEW j \in Jobs, NEW t \in Tickets, NEW o \in Owners, NEW i \in Identities,
           AcceptHandoff(j, t, o, i)
    PROVE  RecordsOK' /\ IInv'
<1>0. /\ tickets[t].state = "open" /\ tickets[t].owner = o /\ jobs[j].pc = "idle"
      /\ tickets' = [Registry EXCEPT ![t].state = "gone"]
      /\ UNCHANGED <<now, active, challenge, waiters, database>>
  BY DEF AcceptHandoff, Idle
<1>1. /\ tickets' \in [Tickets -> TicketRecords]
      /\ \A x \in Tickets : /\ tickets'[x].owner = tickets[x].owner
                            /\ tickets'[x].state \in {tickets[x].state, "gone"}
      /\ tickets'[t].state = "gone"
  <2>1. Registry \in [Tickets -> TicketRecords] /\ Registry[t] \in TicketRecords
    BY RegistryTyped
  <2> DEFINE r == [Registry[t] EXCEPT !.state = "gone"]
  <2>2. r \in TicketRecords /\ r.owner = Registry[t].owner /\ r.state = "gone"
    BY <2>1 DEF TicketRecords
  <2>3. tickets' = [Registry EXCEPT ![t] = r]
    BY <1>0, <2>1
  <2> HIDE DEF r
  <2> QED BY <2>1, <2>2, <2>3, RegistryTyped
<1>2. exported[t] = <<>> /\ t \in Sources
  BY <1>0 DEF IInv, SourceInv, Sources
<1>3. CASE UNCHANGED <<jobs, exported>>
  <2>1. \A x \in Tickets : exported[x] # <<>> =>
               tickets'[x].owner = tickets[x].owner /\ tickets'[x].state = "gone"
    BY <1>1 DEF IInv, SourceInv
  <2> QED BY <1>0, <1>1, <1>3, <2>1, TicketStep
<1>4. CASE /\ Goto(j, [NoJob EXCEPT !.pc = "provision", !.source = t, !.owner = o, !.identity = i])
           /\ exported' = [exported EXCEPT ![t] = Append(@, i)]
  <2> DEFINE r == [NoJob EXCEPT !.pc = "provision", !.source = t, !.owner = o, !.identity = i]
  <2>1. r \in JobRecords /\ r.pc = "provision" /\ r.source = t /\ r.owner = o /\ r.identity = i
    BY DEF NoJob, JobRecords, Sources
  <2>2. Goto(j, r)
    BY <1>4
  <2> HIDE DEF r
  <2>3. exported' = [exported EXCEPT ![t] = <<i>>] /\ exported' \in [Sources -> Seq(Identities \cup {None})]
    <3>1. <<i>> \in Seq(Identities \cup {None})
      OBVIOUS
    <3>2. exported' = [exported EXCEPT ![t] = <<i>>]
      BY <1>2, <1>4, OneSession
    <3> QED BY <3>1, <3>2 DEF RecordsOK
  <2>4. RecordsOK'
    <3>1. jobs' \in [Jobs -> JobRecords]
      BY <2>1, <2>2, GotoEffect
    <3> QED BY <1>0, <1>1, <2>3, <3>1 DEF RecordsOK, database
  <2>5. SourceInv'
    <3>1. \A x \in Sources \ {t} : exported'[x] = exported[x]
      BY <2>3 DEF RecordsOK
    <3>2. Challenges \subseteq Sources \ {t} /\ Tickets \subseteq Sources
      BY DEF Sources
    <3>3. ASSUME NEW x \in Challenges PROVE ChallengeOK(x)'
      BY <1>0, <3>1, <3>2 DEF IInv, SourceInv, ChallengeOK, Awaited
    <3>4. ASSUME NEW x \in Tickets, exported'[x] # <<>> PROVE tickets'[x].state = "gone"
      BY <1>1, <3>1, <3>2, <3>4 DEF IInv, SourceInv
    <3> QED BY <3>3, <3>4 DEF SourceInv
  <2>6. \A x \in Sources : OwnerOf(x)' = OwnerOf(x)
    BY <1>0, <1>1 DEF OwnerOf, Sources
  <2>7. OwnerOf(t) = o
    BY <1>0 DEF OwnerOf
  <2>8. \A l \in Jobs \ {j} : User(jobs[l]) =>
               jobs[l].source # t /\ challenge'[jobs[l].source] = challenge[jobs[l].source]
    BY <1>0 DEF IInv, JobsInv, UserOK, User, Requesting
  <2> QED BY <1>0, <1>2, <1>4, <2>1, <2>2, <2>4, <2>5, <2>6, <2>7, <2>8, YieldStep
<1> QED BY <1>3, <1>4 DEF AcceptHandoff

----------------------------------------------------------------------------
(* The finalizer, the supervisor and the clock.                            *)

\* Memory stays; a request may end, or go on to store the session it carries.
LEMMA DatabaseStep ==
    ASSUME RecordsOK, IInv, UNCHANGED <<memory, exported>>, StoredInv', StoredSessionsAreEarned',
           \A l \in Jobs : \/ jobs'[l] = NoJob
                           \/ jobs'[l] = jobs[l] /\ FinalOK(jobs[l])'
                           \/ /\ Finalizing(jobs[l]) /\ Finalizing(jobs'[l]) /\ FinalOK(jobs[l])'
                              /\ jobs'[l].source = jobs[l].source
    PROVE  IInv'
<1>1. UNCHANGED <<challenge, waiters, tickets>>
  BY DEF memory
<1>2. SourceInv' /\ SessionLeavesOnce'
  BY <1>1 DEF IInv, SourceInv, ChallengeOK, Awaited, SessionLeavesOnce
<1>3. ASSUME NEW l \in Jobs PROVE UserOK(jobs[l])' /\ FinalOK(jobs[l])'
  <2>0. UserOK(jobs[l])
    BY DEF IInv, JobsInv
  <2>1. CASE jobs'[l] = NoJob
    BY <2>1, NothingTyped DEF UserOK, FinalOK, Requesting, User, Finalizing
  <2>2. CASE jobs'[l] = jobs[l] /\ FinalOK(jobs[l])'
    BY <1>1, <2>0, <2>2 DEF UserOK, Requesting, User, Awaited
  <2>3. CASE Finalizing(jobs'[l]) /\ FinalOK(jobs[l])'
    BY <2>3 DEF UserOK, Requesting, User, Finalizing
  <2> QED BY <2>1, <2>2, <2>3
<1>4. OneRequest'
  <2> SUFFICES ASSUME NEW m \in Jobs, NEW l \in Jobs, jobs'[m].source = jobs'[l].source,
                      \/ User(jobs'[m]) /\ User(jobs'[l])
                      \/ Finalizing(jobs'[m]) /\ Finalizing(jobs'[l])
               PROVE  m = l
    BY DEF OneRequest, User, Finalizing
  <2>1. ASSUME NEW x \in Jobs, User(jobs'[x]) \/ Finalizing(jobs'[x])
        PROVE  /\ jobs'[x].source = jobs[x].source
               /\ User(jobs'[x]) => User(jobs[x])
               /\ Finalizing(jobs'[x]) => Finalizing(jobs[x])
    BY <2>1, NothingTyped DEF User, Finalizing
  <2> QED BY <2>1 DEF IInv, OneRequest
<1> QED BY <1>2, <1>3, <1>4 DEF IInv, JobsInv

LEMMA OwnersFixed ==
    ASSUME UNCHANGED memory PROVE \A x \in Sources : OwnerOf(x)' = OwnerOf(x)
BY DEF memory, OwnerOf

\* A request that no step concerns, where accounts and ciphertexts only grow and no
\* ciphertext of its source is added.
LEMMA FinalKept ==
    ASSUME IInv, UNCHANGED <<memory, exported>>, NEW l \in Jobs, jobs'[l] = jobs[l],
           \A i \in Identities : accounts[i] # None => accounts'[i] = accounts[i],
           \A k \in Keys : \/ ciphertexts'[k] = ciphertexts[k]
                           \/ /\ ciphertexts[k] = NoCiphertext
                              /\ Finalizing(jobs[l]) => ciphertexts'[k].source # jobs[l].source
    PROVE  FinalOK(jobs[l])'
<1> SUFFICES ASSUME Finalizing(jobs[l]) PROVE FinalOK(jobs[l])'
  BY DEF FinalOK, Finalizing
<1>1. FinalOK(jobs[l])
  BY DEF IInv, JobsInv
<1>2. /\ jobs[l].source \in Sources /\ jobs[l].owner \in Owners /\ jobs[l].identity \in Identities
      /\ OwnerOf(jobs[l].source)' = OwnerOf(jobs[l].source)
  BY <1>1, OwnersFixed DEF FinalOK
<1>3. jobs[l].pc # "provision" => accounts'[jobs[l].identity] = OrgOf[jobs[l].owner]
  BY <1>1, <1>2 DEF FinalOK
<1>4. jobs[l].pc = "save" => ciphertexts'[jobs[l].key] = ciphertexts[jobs[l].key] /\ jobs[l].key \in Keys
  BY <1>1, <1>2, NothingTyped DEF FinalOK
<1>5. jobs[l].pc # "save" => \A k \in Keys : ciphertexts'[k].source # jobs[l].source
  BY <1>1 DEF FinalOK
<1> QED BY <1>1, <1>2, <1>3, <1>4, <1>5 DEF FinalOK

LEMMA ProvisionStep ==
    ASSUME RecordsOK, IInv, NEW j \in Jobs, Provision(j)
    PROVE  RecordsOK' /\ IInv'
<1> DEFINE org == OrgOf[jobs[j].owner]
<1>0. /\ jobs[j].pc = "provision" /\ UNCHANGED <<now, memory, ciphertexts, connections, exported>>
      /\ FinalOK(jobs[j]) /\ jobs[j] \in JobRecords
  BY RowTypes DEF Provision, IInv, JobsInv
<1>1. /\ Finalizing(jobs[j]) /\ jobs[j].source \in Sources /\ jobs[j].owner \in Owners
      /\ jobs[j].identity \in Identities /\ org \in Orgs
      /\ OwnerOf(jobs[j].source) = jobs[j].owner /\ exported[jobs[j].source] = <<jobs[j].identity>>
      /\ \A k \in Keys : ciphertexts[k].source # jobs[j].source
  BY <1>0 DEF FinalOK, Finalizing
<1>2. PICK i \in Identities : i = jobs[j].identity
  BY <1>1
<1> DEFINE r == [jobs[j] EXCEPT !.pc = "put"]
<1>3. r \in JobRecords /\ r.pc = "put" /\ r.source = jobs[j].source /\ r.owner = jobs[j].owner /\ r.identity = i
  BY <1>0, <1>2 DEF JobRecords
<1>4. \/ /\ accounts[i] \in {None, org} /\ accounts' = [accounts EXCEPT ![i] = IF @ = None THEN org ELSE @]
         /\ Goto(j, r)
      \/ End(j) /\ UNCHANGED accounts
  BY <1>2 DEF Provision, MayProvision
<1> HIDE DEF r
<1>5. /\ accounts' \in [Identities -> Orgs \cup {None}]
      /\ \A n \in Identities : accounts[n] # None => accounts'[n] = accounts[n]
  BY <1>1, <1>4 DEF RecordsOK
<1>6. /\ jobs' \in [Jobs -> JobRecords] /\ \A l \in Jobs \ {j} : jobs'[l] = jobs[l]
      /\ jobs'[j] = NoJob \/ (jobs'[j] = r /\ accounts'[i] = org)
  BY <1>1, <1>3, <1>4, GotoEffect, EndEffect, NothingTyped DEF RecordsOK
<1>7. RecordsOK'
  BY <1>0, <1>5, <1>6 DEF RecordsOK, memory
<1>8. \A x \in Sources : OwnerOf(x)' = OwnerOf(x)
  BY <1>0, OwnersFixed
<1>9. StoredInv' /\ StoredSessionsAreEarned'
  <2>1. ASSUME NEW k \in Keys, ciphertexts[k] # NoCiphertext
        PROVE  /\ OwnerOf(ciphertexts[k].source)' = OwnerOf(ciphertexts[k].source)
               /\ accounts'[ciphertexts[k].account] = accounts[ciphertexts[k].account]
    <3>1. OrgOf[OwnerOf(ciphertexts[k].source)] # None
      BY <2>1, StoredFacts
    <3> QED BY <1>0, <1>5, <1>8, <2>1, <3>1, StoredFacts
  <2>2. StoredInv'
    BY <1>0, <2>1 DEF IInv, StoredInv, StoredOK
  <2>3. StoredSessionsAreEarned'
    BY <1>0, <2>1 DEF IInv, StoredSessionsAreEarned
  <2> QED BY <2>2, <2>3
<1>10. jobs'[j] = r => Finalizing(jobs'[j]) /\ FinalOK(jobs[j])' /\ jobs'[j].source = jobs[j].source
  <2> SUFFICES ASSUME jobs'[j] = r PROVE Finalizing(jobs'[j]) /\ FinalOK(jobs[j])' /\ jobs'[j].source = jobs[j].source
    OBVIOUS
  <2>1. jobs'[j] # NoJob /\ accounts'[i] = org
    BY <1>3, <1>6, NothingTyped
  <2>2. OwnerOf(jobs[j].source)' = jobs[j].owner
    BY <1>1, <1>3, <1>8
  <2> QED BY <1>0, <1>1, <1>2, <1>3, <2>1, <2>2 DEF FinalOK, Finalizing
<1>11. \A l \in Jobs \ {j} : FinalOK(jobs[l])'
  BY <1>0, <1>5, <1>6, FinalKept
<1> QED BY <1>0, <1>1, <1>6, <1>7, <1>9, <1>10, <1>11, DatabaseStep

LEMMA PutStep ==
    ASSUME RecordsOK, IInv, NEW j \in Jobs, NEW k \in Keys, Put(j, k)
    PROVE  RecordsOK' /\ IInv'
<1> DEFINE c == [account |-> jobs[j].identity, source |-> jobs[j].source]
           r == [jobs[j] EXCEPT !.pc = "save", !.key = k]
<1>0. /\ jobs[j].pc = "put" /\ UNCHANGED <<now, memory, accounts, connections, exported>>
      /\ ciphertexts[k] = NoCiphertext /\ ciphertexts' = [ciphertexts EXCEPT ![k] = c] /\ Goto(j, r)
      /\ FinalOK(jobs[j]) /\ jobs[j] \in JobRecords
  BY RowTypes DEF Put, SaveCiphertext, IInv, JobsInv
<1>1. /\ Finalizing(jobs[j]) /\ jobs[j].source \in Sources /\ jobs[j].owner \in Owners
      /\ jobs[j].identity \in Identities /\ accounts[jobs[j].identity] = OrgOf[jobs[j].owner]
      /\ OwnerOf(jobs[j].source) = jobs[j].owner /\ exported[jobs[j].source] = <<jobs[j].identity>>
      /\ \A m \in Keys : ciphertexts[m].source # jobs[j].source
  BY <1>0 DEF FinalOK, Finalizing
<1>2. r \in JobRecords /\ r.pc = "save" /\ r.source = jobs[j].source /\ r.owner = jobs[j].owner
      /\ r.identity = jobs[j].identity /\ r.key = k
  BY <1>0 DEF JobRecords
<1>3. c \in Ciphertexts /\ c.account = jobs[j].identity /\ c.source = jobs[j].source
  BY <1>1 DEF Ciphertexts
<1> HIDE DEF c, r
<1>4. jobs' \in [Jobs -> JobRecords] /\ \A l \in Jobs : jobs'[l] = IF l = j THEN r ELSE jobs[l]
  BY <1>0, <1>2, GotoEffect
<1>5. /\ ciphertexts' \in [Keys -> Ciphertexts] /\ ciphertexts'[k] = c
      /\ \A m \in Keys \ {k} : ciphertexts'[m] = ciphertexts[m]
  BY <1>0, <1>3 DEF RecordsOK
<1>6. RecordsOK'
  BY <1>0, <1>4, <1>5 DEF RecordsOK, memory
<1>7. \A x \in Sources : OwnerOf(x)' = OwnerOf(x)
  BY <1>0, OwnersFixed
<1>8. ASSUME NEW m \in Keys, ciphertexts'[m] # NoCiphertext
      PROVE  /\ ciphertexts'[m].source \in Sources /\ ciphertexts'[m].account \in Identities
             /\ OwnerOf(ciphertexts[m].source)' \in Owners
             /\ accounts'[ciphertexts'[m].account] = OrgOf[OwnerOf(ciphertexts[m].source)']
             /\ exported'[ciphertexts'[m].source] = <<ciphertexts'[m].account>>
             /\ \A l \in Keys : ciphertexts'[l].source = ciphertexts'[m].source => l = m
  <2>1. CASE m = k
    BY <1>0, <1>1, <1>3, <1>5, <1>7, <2>1
  <2>2. CASE m # k
    <3>1. ciphertexts'[m] = ciphertexts[m] /\ ciphertexts[m] # NoCiphertext
      BY <1>5, <1>8, <2>2
    <3> QED BY <1>0, <1>1, <1>3, <1>5, <1>7, <3>1, StoredFacts
  <2> QED BY <2>1, <2>2
<1>9. StoredInv'
  BY <1>8 DEF StoredInv, StoredOK
<1>10. StoredSessionsAreEarned'
  <2>1. ASSUME NEW i \in Identities, connections'[i].key # None
        PROVE  ciphertexts'[connections'[i].key].account = i
    <3>1. connections[i].key \in Keys /\ ciphertexts[connections[i].key].account = i
      BY <1>0, <2>1, RowTypes DEF IInv, StoredSessionsAreEarned, Connections
    <3>2. connections[i].key # k
      BY <1>0, <3>1, NothingTyped
    <3> QED BY <1>0, <1>5, <3>1, <3>2
  <2> QED BY <1>8, <2>1 DEF StoredSessionsAreEarned
<1>11. FinalOK(jobs[j])' /\ Finalizing(jobs'[j]) /\ jobs'[j].source = jobs[j].source
  <2>1. OwnerOf(jobs[j].source)' = jobs[j].owner
    BY <1>1, <1>2, <1>4, <1>7
  <2> QED BY <1>0, <1>1, <1>2, <1>3, <1>4, <1>5, <2>1 DEF FinalOK, Finalizing
<1>12. ASSUME NEW l \in Jobs \ {j} PROVE FinalOK(jobs[l])'
  <2>1. Finalizing(jobs[l]) => ciphertexts'[k].source # jobs[l].source
    BY <1>1, <1>3, <1>5 DEF IInv, OneRequest
  <2> QED BY <1>0, <1>4, <1>5, <2>1, FinalKept
<1> QED BY <1>0, <1>1, <1>4, <1>6, <1>9, <1>10, <1>11, <1>12, DatabaseStep

\* A connection row changes its lease, or refers to a session of its own account.
LEMMA RowStep ==
    ASSUME RecordsOK, IInv, UNCHANGED <<memory, accounts, ciphertexts, exported>>, now' \in 0..MaxTime,
           jobs' \in [Jobs -> JobRecords], \A l \in Jobs : jobs'[l] = NoJob \/ jobs'[l] = jobs[l],
           connections' \in [Identities -> Connections],
           \A i \in Identities : \/ connections'[i].key = connections[i].key
                                 \/ ciphertexts[connections'[i].key].account = i
    PROVE  RecordsOK' /\ IInv'
<1>1. RecordsOK'
  BY DEF RecordsOK, memory
<1>2. \A x \in Sources : OwnerOf(x)' = OwnerOf(x)
  BY OwnersFixed
<1>3. ASSUME NEW k \in Keys, ciphertexts[k] # NoCiphertext
      PROVE  OwnerOf(ciphertexts[k].source)' = OwnerOf(ciphertexts[k].source)
  BY <1>2, <1>3, StoredFacts
<1>4. StoredInv'
  BY <1>3 DEF IInv, StoredInv, StoredOK
<1>5. StoredSessionsAreEarned'
  BY <1>3 DEF IInv, StoredSessionsAreEarned
<1>6. ASSUME NEW l \in Jobs, jobs'[l] = jobs[l] PROVE FinalOK(jobs[l])'
  BY <1>6, FinalKept
<1> QED BY <1>1, <1>4, <1>5, <1>6, DatabaseStep

LEMMA SaveStep ==
    ASSUME RecordsOK, IInv, NEW j \in Jobs, Save(j)
    PROVE  RecordsOK' /\ IInv'
<1>1. FinalOK(jobs[j]) /\ jobs[j].pc = "save" /\ End(j)
      /\ UNCHANGED <<now, memory, accounts, ciphertexts, exported>> /\ now \in 0..MaxTime
  BY DEF Save, IInv, JobsInv, RecordsOK
<1>2. PICK i \in Identities, k \in Keys : i = jobs[j].identity /\ k = jobs[j].key /\ ciphertexts[k].account = i
  BY <1>1 DEF FinalOK, Finalizing
<1>3. \/ connections' = [connections EXCEPT ![i].key = k]
      \/ connections' = connections
  BY <1>2 DEF Save
<1> DEFINE c == [connections[i] EXCEPT !.key = k]
<1>4. c \in Connections /\ c.key = k
  BY RowTypes DEF Connections
<1>8. connections' = [connections EXCEPT ![i] = c] \/ connections' = connections
  BY <1>3 DEF RecordsOK
<1> HIDE DEF c
<1>5. /\ connections' \in [Identities -> Connections]
      /\ \A n \in Identities \ {i} : connections'[n] = connections[n]
      /\ connections'[i] \in {connections[i], c}
  BY <1>4, <1>8 DEF RecordsOK
<1>6. \A n \in Identities : \/ connections'[n].key = connections[n].key
                            \/ ciphertexts[connections'[n].key].account = n
  BY <1>2, <1>4, <1>5
<1>7. jobs' \in [Jobs -> JobRecords] /\ \A l \in Jobs : jobs'[l] = NoJob \/ jobs'[l] = jobs[l]
  BY <1>1, EndEffect
<1> QED BY <1>1, <1>5, <1>6, <1>7, RowStep

LEMMA LeaseStep ==
    ASSUME RecordsOK, IInv, NEW i \in Identities, Lease(i)
    PROVE  RecordsOK' /\ IInv'
<1>1. /\ UNCHANGED <<now, memory, jobs, accounts, ciphertexts, exported>> /\ now \in 0..MaxTime
      /\ jobs \in [Jobs -> JobRecords] /\ connections[i] \in Connections
  BY DEF Lease, RecordsOK
<1> DEFINE c == [connections[i] EXCEPT !.leased = ~connections[i].leased]
<1>2. c \in Connections /\ c.key = connections[i].key
  BY <1>1 DEF Connections
<1>3. connections' = [connections EXCEPT ![i] = c]
  BY DEF Lease, RecordsOK
<1> HIDE DEF c
<1>4. /\ connections' \in [Identities -> Connections]
      /\ \A n \in Identities : connections'[n].key = connections[n].key
  BY <1>2, <1>3 DEF RecordsOK
<1> QED BY <1>1, <1>4, RowStep

LEMMA RestartStep ==
    ASSUME RecordsOK, IInv, Restart
    PROVE  RecordsOK' /\ IInv'
<1>0. /\ \A l \in Jobs : jobs'[l] = NoJob
      /\ \A q \in Qrs : waiters'[q] = "none"
      /\ UNCHANGED <<now, database, exported>>
  BY DEF Restart
<1>1. ASSUME NEW ch \in Challenges
      PROVE  /\ challenge'[ch] \in ChallengeObjects /\ challenge'[ch].state \in {"none", "failed"}
             /\ challenge[ch].state # "none" => /\ challenge'[ch].owner = challenge[ch].owner
                                                /\ challenge'[ch].state = "failed"
  <2>1. challenge[ch].owner \in Owners \cup {None}
    BY RowTypes DEF ChallengeObjects
  <2> QED BY <2>1, NothingTyped DEF Restart, ChallengeObjects, NoChallenge, States
<1>2. ASSUME NEW t \in Tickets
      PROVE  /\ tickets'[t] \in TicketRecords
             /\ tickets[t].state # "none" => tickets'[t].owner = tickets[t].owner /\ tickets'[t].state = "gone"
  <2>1. tickets[t].owner \in Owners \cup {None}
    BY RowTypes DEF TicketRecords
  <2> QED BY <2>1, NothingTyped DEF Restart, TicketRecords, NoTicket
<1>3. RecordsOK'
  <2>1. challenge' \in [Challenges -> ChallengeObjects]
    BY <1>1 DEF Restart
  <2>2. tickets' \in [Tickets -> TicketRecords]
    BY <1>2 DEF Restart
  <2>3. jobs' \in [Jobs -> JobRecords] /\ waiters' \in [Qrs -> {"none", "created", "waiting"}]
    BY NothingTyped DEF Restart
  <2> QED BY <1>0, <2>1, <2>2, <2>3 DEF RecordsOK, database
<1>4. SourceInv'
  <2>1. ASSUME NEW ch \in Challenges PROVE ChallengeOK(ch)'
    <3>1. ChallengeOK(ch) /\ ~Awaited(ch)'
      BY <1>0 DEF IInv, SourceInv, Awaited
    <3> QED BY <1>0, <1>1, <3>1 DEF ChallengeOK, Spent
  <2>2. ASSUME NEW t \in Tickets, exported'[t] # <<>> PROVE tickets'[t].state = "gone"
    BY <1>0, <1>2, <2>2 DEF IInv, SourceInv
  <2> QED BY <2>1, <2>2 DEF SourceInv
<1>5. \A x \in Sources : exported[x] # <<>> => OwnerOf(x)' = OwnerOf(x) /\ exported'[x] = exported[x]
  <2>1. \A ch \in Challenges : exported[ch] # <<>> => challenge[ch].state # "none"
    BY DEF IInv, SourceInv, ChallengeOK, Spent
  <2>2. \A t \in Tickets : exported[t] # <<>> => tickets[t].state # "none"
    BY DEF IInv, SourceInv
  <2> QED BY <1>0, <1>1, <1>2, <2>1, <2>2 DEF OwnerOf, Sources
<1>6. StoredInv' /\ StoredSessionsAreEarned'
  BY <1>0, <1>5, StoredKept
<1>7. JobsInv' /\ OneRequest'
  BY <1>0, NothingTyped DEF JobsInv, OneRequest, UserOK, FinalOK, Requesting, User, Finalizing
<1>8. SessionLeavesOnce'
  BY <1>0 DEF IInv, SessionLeavesOnce
<1> QED BY <1>3, <1>4, <1>6, <1>7, <1>8 DEF IInv

----------------------------------------------------------------------------
(* The theorems.                                                           *)

LEMMA InductiveStep == RecordsOK /\ IInv /\ [Next]_vars => RecordsOK' /\ IInv'
<1> SUFFICES ASSUME RecordsOK, IInv, [Next]_vars PROVE RecordsOK' /\ IInv'
  OBVIOUS
<1>0. now \in 0..MaxTime /\ jobs \in [Jobs -> JobRecords] /\ connections \in [Identities -> Connections]
  BY DEF RecordsOK
<1>1. CASE Tick
  <2>1. now' \in 0..MaxTime
    BY <1>0, <1>1 DEF Tick
  <2> QED BY <1>0, <1>1, <2>1, RowStep DEF Tick, database
<1>2. CASE UNCHANGED vars
  BY <1>0, <1>2, RowStep DEF vars, database
<1>3. ASSUME NEW j \in Jobs, PhoneStep(j) PROVE RecordsOK' /\ IInv'
  BY <1>3, PhoneRequestStep, PhoneAnswerStep DEF PhoneStep
<1>4. ASSUME NEW j \in Jobs, DatabaseFails(j) PROVE RecordsOK' /\ IInv'
  <2>1. jobs' \in [Jobs -> JobRecords] /\ \A l \in Jobs : jobs'[l] = NoJob \/ jobs'[l] = jobs[l]
    BY <1>4, EndEffect DEF DatabaseFails
  <2> QED BY <1>0, <1>4, <2>1, RowStep DEF DatabaseFails, database
<1>5. ASSUME NEW j \in Jobs, FinalStep(j) PROVE RecordsOK' /\ IInv'
  BY <1>4, <1>5, ExportStep, ProvisionStep, SaveStep, AcceptStep, PutStep DEF FinalStep
<1> QED BY <1>1, <1>2, <1>3, <1>5, QrStepKeeps, IssueStep, LeaseStep, RestartStep DEF Next

LEMMA InductiveInit == Init => RecordsOK /\ IInv
<1> SUFFICES ASSUME Init PROVE RecordsOK /\ IInv
  OBVIOUS
<1>1. /\ \A j \in Jobs : jobs[j] = NoJob
      /\ \A ch \in Challenges : challenge[ch] = NoChallenge
      /\ \A q \in Qrs : waiters[q] = "none"
      /\ \A k \in Keys : ciphertexts[k] = NoCiphertext
      /\ \A i \in Identities : connections[i].key = None
      /\ \A s \in Sources : exported[s] = <<>>
  BY DEF Init
<1>2. RecordsOK
  BY NothingTyped DEF Init, RecordsOK, Connections
<1>3. JobsInv /\ OneRequest
  BY <1>1, NothingTyped DEF JobsInv, OneRequest, UserOK, FinalOK, Requesting, User, Finalizing
<1>4. SourceInv
  BY <1>1 DEF SourceInv, ChallengeOK, NoChallenge, Awaited, Sources
<1>5. StoredInv /\ StoredSessionsAreEarned
  BY <1>1 DEF StoredInv, StoredOK, StoredSessionsAreEarned
<1>6. SessionLeavesOnce
  BY <1>1, OneSession DEF SessionLeavesOnce
<1> QED BY <1>2, <1>3, <1>4, <1>5, <1>6 DEF IInv

LEMMA Invariant == Spec => [](RecordsOK /\ IInv)
BY InductiveInit, InductiveStep, PTL DEF Spec

\* A challenge or a ticket yields its session at most once, however requests, polls, expiry,
\* eviction and restarts interleave: a source that has yielded is never claimed again.
THEOREM SessionsLeaveOnce == Spec => []SessionLeavesOnce
<1>1. IInv => SessionLeavesOnce
  BY DEF IInv
<1> QED BY <1>1, Invariant, PTL

\* Every stored session is of the organization that authorized it and of its Telegram user,
\* and none is stored twice: a request that stores a session is the only one that carries it.
THEOREM StoredEarned == Spec => []StoredSessionsAreEarned
<1>1. IInv => StoredSessionsAreEarned
  BY DEF IInv
<1> QED BY <1>1, Invariant, PTL

\* A challenge's client has one user at a time, and that is its owner: the claim is taken
\* before the client is awaited, and nothing but its holder's answer ends it.
THEOREM ClientsExclusive == Spec => []ClientIsExclusive
<1>1. IInv => ClientIsExclusive
  <2> SUFFICES ASSUME IInv, NEW ch \in Challenges
               PROVE  /\ Cardinality(Using(ch)) + (IF Awaited(ch) THEN 1 ELSE 0) <= 1
                      /\ \A j \in Using(ch) : jobs[j].owner = challenge[ch].owner
    BY DEF ClientIsExclusive
  <2>1. \A j \in Using(ch) : /\ j \in Jobs /\ User(jobs[j]) /\ jobs[j].source = ch
                             /\ jobs[j].owner = challenge[ch].owner /\ ~Awaited(ch)
    BY DEF Using, User, IInv, JobsInv, UserOK
  <2>2. CASE Using(ch) = {}
    BY <2>1, <2>2, FS_EmptySet
  <2>3. CASE Using(ch) # {}
    <3>1. PICK j \in Using(ch) : TRUE
      BY <2>3
    <3>2. Using(ch) = {j}
      BY <2>1, <3>1 DEF IInv, OneRequest
    <3>3. Cardinality(Using(ch)) = 1
      BY <3>2, FS_Singleton
    <3> QED BY <2>1, <3>1, <3>3
  <2> QED BY <2>2, <2>3
<1> QED BY <1>1, Invariant, PTL

\* A session is only handed on while its challenge is live: the deadline and the store are
\* looked at again after every await of a client.
THEOREM LateAnswersRefused == Spec => LateAnswerIsRefused
<1> DEFINE Refused == \A j \in Jobs : jobs'[j].pc = "exporting" /\ jobs[j].pc # "exporting" =>
                          Live(jobs'[j].source)
<1>1. RecordsOK /\ [Next]_vars => [Refused]_vars
  <2> SUFFICES ASSUME RecordsOK, Next, NEW j \in Jobs, jobs'[j].pc = "exporting", jobs[j].pc # "exporting"
               PROVE  Live(jobs'[j].source)
    BY DEF vars
  <2>0. jobs[j] \in JobRecords /\ jobs \in [Jobs -> JobRecords]
    BY DEF RecordsOK
  <2>1. \A l \in Jobs : \A r : Goto(l, r) => jobs'[j] = IF j = l THEN r ELSE jobs[j]
    BY <2>0 DEF Goto
  <2>2. NoJob.pc = "idle" /\ ~UNCHANGED jobs
    BY DEF NoJob
  <2>3. \A l \in Jobs : ~End(l)
    BY <2>1, <2>2 DEF End
  <2>4. ASSUME NEW l \in Jobs, NEW r, Goto(l, r) PROVE r.pc = "exporting" /\ l = j /\ jobs'[j] = r
    BY <2>1, <2>4
  <2>5. ASSUME NEW l \in Jobs, PhoneStep(l) PROVE Live(jobs'[j].source)
    <3>1. ~\E state \in {"code_sent", "failed"} : CodeRequested(l, state)
      BY <2>3 DEF CodeRequested
    <3>2. ~\E state \in {"needs_2fa", "failed"} : SignInFails(l, state)
      BY <2>3 DEF SignInFails
    <3>3. ASSUME NEW step \in {"requesting", "signing", "password"}, NEW ch, NEW o
          PROVE  ~Goto(l, [NoJob EXCEPT !.pc = step, !.source = ch, !.owner = o])
      <4>1. [NoJob EXCEPT !.pc = step, !.source = ch, !.owner = o].pc = step
        BY DEF NoJob
      <4> QED BY <2>4, <4>1
    <3>4. ~\E ch \in Phones, o \in Owners : PhoneRequest(l, ch, o)
      BY <3>3 DEF PhoneRequest, StartPhone, SubmitCode, SubmitPassword
    <3>5. ASSUME NEW i \in Identities, SignedIn(l, i) PROVE Live(jobs'[j].source)
      <4>1. Live(jobs[l].source) /\ Goto(l, [jobs[l] EXCEPT !.pc = "exporting"])
        BY <2>3, <3>5 DEF SignedIn, Authorizes
      <4>2. l = j /\ jobs'[j] = [jobs[l] EXCEPT !.pc = "exporting"]
        BY <2>4, <4>1
      <4>3. jobs'[j].source = jobs[j].source
        BY <2>0, <4>2 DEF JobRecords
      <4> QED BY <4>1, <4>2, <4>3
    <3> QED BY <2>5, <3>1, <3>2, <3>4, <3>5 DEF PhoneStep
  <2>6. ASSUME NEW l \in Jobs, FinalStep(l) PROVE FALSE
    <3>1. jobs[l] \in JobRecords
      BY <2>0
    <3>2. \A i : ~Goto(l, [jobs[l] EXCEPT !.pc = "provision", !.identity = i])
      <4>1. \A i : [jobs[l] EXCEPT !.pc = "provision", !.identity = i].pc = "provision"
        BY <3>1 DEF JobRecords
      <4> QED BY <2>4, <4>1
    <3>3. ~Goto(l, [jobs[l] EXCEPT !.pc = "put"])
      <4>1. [jobs[l] EXCEPT !.pc = "put"].pc = "put"
        BY <3>1 DEF JobRecords
      <4> QED BY <2>4, <4>1
    <3>4. \A k : ~Goto(l, [jobs[l] EXCEPT !.pc = "save", !.key = k])
      <4>1. \A k : [jobs[l] EXCEPT !.pc = "save", !.key = k].pc = "save"
        BY <3>1 DEF JobRecords
      <4> QED BY <2>4, <4>1
    <3>5. \A t, o, i : ~Goto(l, [NoJob EXCEPT !.pc = "provision", !.source = t, !.owner = o, !.identity = i])
      <4>1. \A t, o, i : [NoJob EXCEPT !.pc = "provision", !.source = t, !.owner = o, !.identity = i].pc = "provision"
        BY DEF NoJob
      <4> QED BY <2>4, <4>1
    <3> QED BY <2>2, <2>3, <2>6, <3>2, <3>3, <3>4, <3>5
            DEF FinalStep, Export, Provision, Save, DatabaseFails, AcceptHandoff, Put
  <2>7. ASSUME NEW ch \in Qrs, QrStep(ch) PROVE Live(jobs'[j].source)
    <3>1. PICK l \in Jobs, o \in Owners : PollQr(l, ch, o)
      BY <2>2, <2>7 DEF QrStep, QrRequest, StartQr, AwaitQr, QrScanned, QrFails
    <3> DEFINE r == [NoJob EXCEPT !.pc = "exporting", !.source = ch, !.owner = o]
    <3>2. Live(ch) /\ Goto(l, r)
      BY <2>2, <3>1 DEF PollQr, Claim, Claimable
    <3>3. r.source = ch
      BY DEF NoJob
    <3> QED BY <2>4, <3>2, <3>3
  <2>8. CASE Restart
    <3>1. jobs'[j] = NoJob
      BY <2>8 DEF Restart
    <3> QED BY <2>2, <3>1
  <2> QED BY <2>2, <2>5, <2>6, <2>7, <2>8 DEF Next, Tick, IssueTicket, Lease
<1> QED BY <1>1, Invariant, PTL DEF Spec, LateAnswerIsRefused

----------------------------------------------------------------------------
(* The stores.  What is left of a sequence is defined by recursion; the    *)
(* induction is over a set of lengths, from the well-foundedness of        *)
(* less-than, as the library's induction theorems take a predicate.        *)

LEMMA SetInduction ==
    ASSUME NEW T, 0 \in T, \A n \in Nat : n \in T => n + 1 \in T
    PROVE  Nat \subseteq T
<1> DEFINE R == OpToRel(<, Nat)
<1>1. IsWellFoundedOn(R, Nat)
  BY NatLessThanWellFounded, Zenon
<1>2. \A x, y \in Nat : x < y => <<x, y>> \in R
  BY DEF OpToRel
<1> HIDE DEF R
<1>3. SUFFICES ASSUME Nat \ T # {} PROVE FALSE
  OBVIOUS
<1>4. PICK x \in Nat \ T : \A y \in Nat \ T : ~(<<y, x>> \in R)
  BY <1>1, <1>3, WFMin
<1>5. x # 0 /\ x - 1 \in Nat /\ x - 1 < x
  BY <1>4
<1>6. x - 1 \in T
  BY <1>2, <1>4, <1>5
<1> QED
  BY <1>5, <1>6

\* Removing from a store leaves a sequence of its challenges, and no longer one.
LEMMA WithoutType ==
    ASSUME NEW S, NEW s \in Seq(S), NEW gone
    PROVE  Without(s, gone) \in Seq(S) /\ Len(Without(s, gone)) <= Len(s)
<1> DEFINE L == Len(s)
           Kept(g, n) == g = [i \in 0..n |-> IF i = 0 THEN <<>> ELSE Keep(g[i - 1], s[i], gone)]
           F == CHOOSE g : Kept(g, L)
<1>0. L \in Nat
  OBVIOUS
<1>1. \E g : Kept(g, L)
  <2> DEFINE T == {n \in Nat : \E g : Kept(g, n)}
  <2>1. 0 \in T
    <3> DEFINE g == [i \in 0..0 |-> <<>>]
    <3>1. Kept(g, 0)
      OBVIOUS
    <3> QED BY <3>1
  <2>2. ASSUME NEW n \in Nat, n \in T PROVE n + 1 \in T
    <3>1. PICK g : Kept(g, n)
      BY <2>2
    <3> DEFINE h == [i \in 0..(n + 1) |-> IF i = n + 1 THEN Keep(g[n], s[n + 1], gone) ELSE g[i]]
    <3>2. Kept(h, n + 1)
      BY <3>1
    <3> HIDE DEF h
    <3>3. \E f : Kept(f, n + 1)
      BY <3>2
    <3> QED BY <3>3
  <2> HIDE DEF T
  <2>3. Nat \subseteq T
    BY <2>1, <2>2, SetInduction
  <2> QED BY <1>0, <2>3 DEF T
<1>2. Kept(F, L)
  BY <1>1
<1>3. Without(s, gone) = F[L]
  BY DEF Without
<1> HIDE DEF F
<1>4. F[0] = <<>> /\ \A n \in Nat : n + 1 <= L => F[n + 1] = Keep(F[n], s[n + 1], gone)
  BY <1>0, <1>2
<1> DEFINE T == {n \in Nat : n <= L => F[n] \in Seq(S) /\ Len(F[n]) <= n}
<1>5. 0 \in T
  <2>1. <<>> \in Seq(S) /\ Len(<<>>) = 0
    BY EmptySeq
  <2>2. F[0] \in Seq(S) /\ Len(F[0]) <= 0
    BY <1>4, <2>1
  <2> QED BY <2>2
<1>6. ASSUME NEW n \in Nat, n \in T PROVE n + 1 \in T
  <2>1. CASE n + 1 <= L
    <3>1. F[n] \in Seq(S) /\ Len(F[n]) <= n /\ s[n + 1] \in S
      BY <1>0, <1>6, <2>1
    <3>2. F[n + 1] = Keep(F[n], s[n + 1], gone)
      BY <1>4, <2>1
    <3>3. Keep(F[n], s[n + 1], gone) \in Seq(S) /\ Len(Keep(F[n], s[n + 1], gone)) <= n + 1
      BY <3>1 DEF Keep
    <3> QED BY <3>2, <3>3
  <2> QED BY <2>1
<1> HIDE DEF T
<1>7. L \in T
  BY <1>0, <1>5, <1>6, SetInduction
<1> QED BY <1>3, <1>7 DEF T

StoresOK ==
    /\ active \in [phone : Seq(Phones), qr : Seq(Qrs)]
    /\ \A m \in {"phone", "qr"} : Len(active[m]) <= Capacity

\* The challenges a store is for.
Kind(m) == IF m = "phone" THEN Phones ELSE Qrs

\* Replacing one store's content.
LEMMA StoreUpdate ==
    ASSUME StoresOK, NEW m \in {"phone", "qr"}, NEW s \in Seq(Kind(m)), Len(s) <= Capacity,
           active' = [active EXCEPT ![m] = s]
    PROVE  StoresOK'
<1>1. CASE m = "phone"
  BY <1>1 DEF StoresOK, Kind
<1>2. CASE m = "qr"
  BY <1>2 DEF StoresOK, Kind
<1> QED BY <1>1, <1>2

\* Pruning keeps a store within its capacity, and insertion makes room.
LEMMA PrunedStores ==
    ASSUME StoresOK, NEW m \in {"phone", "qr"}, NEW gone
    PROVE  Without(active[m], gone) \in Seq(Kind(m)) /\ Len(Without(active[m], gone)) <= Capacity
<1>1. active[m] \in Seq(Kind(m)) /\ Len(active[m]) <= Capacity
  BY DEF StoresOK, Kind
<1>2. Without(active[m], gone) \in Seq(Kind(m)) /\ Len(Without(active[m], gone)) <= Len(active[m])
  BY <1>1, WithoutType
<1> QED BY <1>1, <1>2

LEMMA InsertedStores ==
    ASSUME StoresOK, NEW ch \in Challenges, active' = Inserted(ch)
    PROVE  StoresOK'
<1> DEFINE m == Store(ch)
           s == Append(Pruned(m), ch)
           t == IF Len(s) > Capacity THEN SubSeq(s, Len(s) - Capacity + 1, Len(s)) ELSE s
<1>1. m \in {"phone", "qr"} /\ ch \in Kind(m)
  BY DEF Store, Kind, Challenges
<1>2. Pruned(m) \in Seq(Kind(m)) /\ Len(Pruned(m)) <= Capacity
  BY <1>1, PrunedStores DEF Pruned
<1>3. s \in Seq(Kind(m)) /\ Len(s) = Len(Pruned(m)) + 1
  BY <1>1, <1>2
<1> HIDE DEF s
<1>4. t \in Seq(Kind(m)) /\ Len(t) <= Capacity
  <2>1. CASE Len(s) > Capacity
    <3>1. /\ Len(s) \in Nat /\ Capacity \in Nat /\ Len(s) - Capacity + 1 \in 1..Len(s) /\ Len(s) \in 1..Len(s)
      BY <1>3, <2>1
    <3>2. /\ SubSeq(s, Len(s) - Capacity + 1, Len(s)) \in Seq(Kind(m))
          /\ Len(SubSeq(s, Len(s) - Capacity + 1, Len(s))) = Capacity
      BY <1>3, <2>1, <3>1
    <3> QED BY <2>1, <3>1, <3>2
  <2>2. CASE ~(Len(s) > Capacity)
    BY <1>3, <2>2
  <2> QED BY <2>1, <2>2
<1>5. active' = [active EXCEPT ![m] = t]
  BY DEF Inserted, s
<1> HIDE DEF t, m
<1> QED BY <1>1, <1>4, <1>5, StoreUpdate

\* Every step prunes a store, inserts into one, removes from one or empties both.
StoreMoves ==
    \/ UNCHANGED active
    \/ \E m \in {"phone", "qr"} : Prune(m)
    \/ \E ch \in Challenges : \/ active' = Inserted(ch)
                              \/ active' = [active EXCEPT ![Store(ch)] = Without(@, {ch})]
    \/ active' = [phone |-> <<>>, qr |-> <<>>]

LEMMA StoreSteps ==
    ASSUME RecordsOK, IInv, [Next]_vars
    PROVE  StoreMoves
<1>0. \A ch : Store(ch) \in {"phone", "qr"}
  BY DEF Store
<1>1. ASSUME NEW ch \in Challenges, NEW state, NEW i, Finish(ch, state, i) PROVE StoreMoves
  BY <1>1 DEF Finish, StoreMoves
<1>2. ASSUME NEW ch, NEW o, NEW e, Claim(ch, o, e) PROVE StoreMoves
  BY <1>0, <1>2 DEF Claim, StoreMoves
<1>3. ASSUME NEW ch \in Challenges, Create(ch) PROVE StoreMoves
  BY <1>3 DEF Create, StoreMoves
<1>4. ASSUME NEW m \in {"phone", "qr"}, Prune(m) PROVE StoreMoves
  BY <1>4 DEF StoreMoves
<1>5. CASE UNCHANGED active
  BY <1>5 DEF StoreMoves
<1>6. \A j \in Jobs : Requesting(jobs[j]) => jobs[j].source \in Challenges
  BY DEF IInv, JobsInv, UserOK
<1>7. ASSUME NEW j \in Jobs, PhoneStep(j) PROVE StoreMoves
  <2>1. ASSUME NEW ch \in Phones, NEW o \in Owners, PhoneRequest(j, ch, o) PROVE StoreMoves
    BY <1>2, <1>3, <2>1 DEF PhoneRequest, StartPhone, SubmitCode, SubmitPassword, Challenges
  <2>2. ASSUME NEW state, CodeRequested(j, state) PROVE StoreMoves
    BY <1>1, <1>5, <1>6, <2>2 DEF CodeRequested, Requesting
  <2>3. ASSUME NEW i, SignedIn(j, i) PROVE StoreMoves
    BY <1>1, <1>4, <1>6, <2>3 DEF SignedIn, Requesting
  <2>4. ASSUME NEW state, SignInFails(j, state) PROVE StoreMoves
    BY <1>1, <1>6, <2>4 DEF SignInFails, Requesting
  <2> QED BY <1>7, <2>1, <2>2, <2>3, <2>4 DEF PhoneStep
<1>8. ASSUME NEW ch \in Qrs, QrStep(ch) PROVE StoreMoves
  <2>0. ch \in Challenges
    BY DEF Challenges
  <2>1. CASE AwaitQr(ch)
    BY <1>2, <1>4, <2>1 DEF AwaitQr
  <2>2. ASSUME NEW i, QrScanned(ch, i) PROVE StoreMoves
    BY <1>1, <2>0, <2>2 DEF QrScanned
  <2>3. ASSUME NEW state, QrFails(ch, state) PROVE StoreMoves
    BY <1>1, <2>0, <2>3 DEF QrFails
  <2>4. ASSUME NEW j \in Jobs, NEW o \in Owners, QrRequest(j, ch, o) PROVE StoreMoves
    BY <1>2, <1>3, <1>4, <2>0, <2>4 DEF QrRequest, StartQr, PollQr
  <2> QED BY <1>8, <2>1, <2>2, <2>3, <2>4 DEF QrStep
<1>9. ASSUME NEW j \in Jobs, FinalStep(j) PROVE StoreMoves
  <2>1. CASE Export(j)
    BY <1>1, <1>6, <2>1 DEF Export, Spend, Requesting
  <2>2. CASE ~Export(j)
    <3>1. UNCHANGED active
      BY <1>9, <2>2 DEF FinalStep, Provision, Save, DatabaseFails, AcceptHandoff, Put, memory
    <3> QED BY <1>5, <3>1
  <2> QED BY <2>1, <2>2
<1>10. CASE Restart
  BY <1>10 DEF Restart, StoreMoves
<1> QED BY <1>5, <1>7, <1>8, <1>9, <1>10 DEF Next, Tick, IssueTicket, Lease, memory, vars

\* The types of the stores, registry, requests and tables; a store never holds more
\* challenges than its capacity, whatever is inserted, expires or is evicted while it is
\* processed.
THEOREM TypeCorrect == Spec => []TypeOK
<1>1. Init => StoresOK
  BY DEF Init, StoresOK
<1>2. RecordsOK /\ IInv /\ StoresOK /\ [Next]_vars => StoresOK'
  <2> SUFFICES ASSUME RecordsOK, IInv, StoresOK, [Next]_vars PROVE StoresOK'
    OBVIOUS
  <2>1. CASE UNCHANGED active
    BY <2>1 DEF StoresOK
  <2>2. ASSUME NEW m \in {"phone", "qr"}, NEW gone, active' = [active EXCEPT ![m] = Without(active[m], gone)]
        PROVE  StoresOK'
    BY <2>2, PrunedStores, StoreUpdate
  <2>3. CASE active' = [phone |-> <<>>, qr |-> <<>>]
    BY <2>3 DEF StoresOK
  <2>4. ASSUME NEW m \in {"phone", "qr"}, Prune(m) PROVE StoresOK'
    BY <2>2, <2>4 DEF Prune, Pruned
  <2>5. ASSUME NEW ch \in Challenges, active' = [active EXCEPT ![Store(ch)] = Without(@, {ch})] PROVE StoresOK'
    <3>1. Store(ch) \in {"phone", "qr"}
      BY DEF Store
    <3> QED BY <2>2, <2>5, <3>1
  <2> QED BY <2>1, <2>3, <2>4, <2>5, InsertedStores, StoreSteps DEF StoreMoves
<1>3. RecordsOK /\ StoresOK => TypeOK
  BY DEF RecordsOK, StoresOK, TypeOK
<1> QED BY <1>1, <1>2, <1>3, Invariant, PTL DEF Spec
=============================================================================
