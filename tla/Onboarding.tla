------------------------------ MODULE Onboarding ------------------------------
(***************************************************************************)
(* How an authorized Telegram session gets into the database: phone and QR *)
(* challenges (adapters/phone.py, adapters/qr.py), one-time tdata tickets  *)
(* (tdata_ticket.py), and the finalizer that stores what they yield        *)
(* (tdata_handoff.py over postgres_state.py and session_store.py).         *)
(*                                                                         *)
(* Challenges and tickets live in the memory of one asyncio process.  A    *)
(* critical section of a store never awaits, so it is one step, together   *)
(* with the sections that follow it before the next await; steps of        *)
(* different requests interleave at the awaits of a Telegram client and of *)
(* the database threads.  Every account stands for its Telegram identity,  *)
(* which is unique.  A refused request changes nothing but what pruning    *)
(* removes.                                                                *)
(***************************************************************************)
EXTENDS Naturals, Sequences, FiniteSets, SequencesExt

CONSTANTS
    Owners, Orgs, OrgOf,   \* principals, and the organization each acts for
    Identities,    \* Telegram users
    Phones, Qrs,   \* challenge ids of the two adapters
    Tickets,       \* tdata ticket ids
    Jobs,          \* requests being served
    Keys,          \* ids of stored session ciphertexts
    Capacity,      \* challenges a store keeps
    Ttl,           \* lifetime of a challenge and of a ticket
    MaxStarts,     \* bound of the attempts and tickets together
    MaxTime,       \* bound of the clock
    None

Challenges == Phones \cup Qrs

ASSUME OnboardingAssumption ==
    /\ OrgOf \in [Owners -> Orgs]
    /\ Capacity \in Nat \ {0} /\ Ttl \in Nat \ {0}
    /\ MaxStarts \in Nat /\ MaxTime \in Nat
    /\ Phones \cap Qrs = {} /\ Tickets \cap Challenges = {}
    /\ None \notin Owners \cup Orgs \cup Identities \cup Challenges \cup Tickets \cup Keys

VARIABLES
    now,           \* the process's clock
    active,        \* the challenges each store keeps, oldest first
    challenge,     \* the challenge objects; a request may hold one that was removed
    waiters,       \* the background completion of each QR challenge
    tickets,       \* the ticket registry
    jobs,          \* the requests
    accounts,      \* telegram_accounts: the organization of an identity, None without a row
    ciphertexts,   \* telegram_session_ciphertexts
    connections,   \* telegram_connections: the session referred to and whether it is leased
    exported       \* history: what each challenge or ticket has yielded, in order

memory == <<active, challenge, waiters, tickets>>
database == <<accounts, ciphertexts, connections>>
vars == <<now, memory, jobs, database, exported>>

Sources == Challenges \cup Tickets
States == {"none", "code_sent", "processing", "needs_2fa", "authorized", "failed", "expired"}

ChallengeObjects == [state : States, owner : Owners \cup {None},
                     expires : 0..MaxTime + Ttl, identity : Identities \cup {None}]
TicketRecords == [state : {"none", "open", "gone"}, owner : Owners \cup {None},
                  expires : 0..MaxTime + Ttl]
\* source, owner and identity are locals of the handler; key is what put has returned.
JobRecords == [pc : {"idle", "requesting", "signing", "password", "exporting",
                     "provision", "put", "save"},
               source : Sources \cup {None}, owner : Owners \cup {None},
               identity : Identities \cup {None}, key : Keys \cup {None}]
Ciphertexts == [account : Identities \cup {None}, source : Sources \cup {None}]
Connections == [key : Keys \cup {None}, leased : BOOLEAN]

NoChallenge == [state |-> "none", owner |-> None, expires |-> 0, identity |-> None]
NoTicket == [state |-> "none", owner |-> None, expires |-> 0]
NoJob == [pc |-> "idle", source |-> None, owner |-> None, identity |-> None, key |-> None]
NoCiphertext == [account |-> None, source |-> None]

Init ==
    /\ now = 0
    /\ active = [phone |-> <<>>, qr |-> <<>>]
    /\ challenge = [ch \in Challenges |-> NoChallenge]
    /\ waiters = [ch \in Qrs |-> "none"]
    /\ tickets = [t \in Tickets |-> NoTicket]
    /\ jobs = [j \in Jobs |-> NoJob]
    /\ accounts = [i \in Identities |-> None]
    /\ ciphertexts = [k \in Keys |-> NoCiphertext]
    /\ connections = [i \in Identities |-> [key |-> None, leased |-> FALSE]]
    /\ exported = [s \in Sources |-> <<>>]

Store(ch) == IF ch \in Phones THEN "phone" ELSE "qr"
Active(ch) == Contains(active[Store(ch)], ch)
Overdue(ch) == challenge[ch].expires <= now
Live(ch) == Active(ch) /\ ~Overdue(ch)

Started == {ch \in Challenges : challenge[ch].state # "none"}
           \cup {t \in Tickets : tickets[t].state # "none"}
MayStart == Cardinality(Started) < MaxStarts

Idle(j) == jobs[j].pc = "idle"
Goto(j, r) == jobs' = [jobs EXCEPT ![j] = r]
End(j) == Goto(j, NoJob)

Tick ==
    /\ now < MaxTime
    /\ now' = now + 1
    /\ UNCHANGED <<memory, jobs, database, exported>>

----------------------------------------------------------------------------
(* The challenge store.                                                    *)

\* The challenges of s that are not gone, in order.
Keep(kept, ch, gone) == IF ch \in gone THEN kept ELSE Append(kept, ch)
Without(s, gone) ==
    LET kept[n \in 0..Len(s)] == IF n = 0 THEN <<>> ELSE Keep(kept[n - 1], s[n], gone)
    IN  kept[Len(s)]

Pruned(m) == Without(active[m], {ch \in Challenges : Overdue(ch)})
Prune(m) == active' = [active EXCEPT ![m] = Pruned(m)]

\* Mutant: one challenge too many is kept.
OneTooMany(ch) ==
    LET s == Append(Pruned(Store(ch)), ch)
    IN  [active EXCEPT ![Store(ch)] =
            IF Len(s) > Capacity + 1 THEN SubSeq(s, Len(s) - Capacity, Len(s)) ELSE s]

\* Insertion after pruning; the oldest make room, even while they are processed.
Inserted(ch) ==
    LET s == Append(Pruned(Store(ch)), ch)
    IN  [active EXCEPT ![Store(ch)] =
            IF Len(s) > Capacity THEN SubSeq(s, Len(s) - Capacity + 1, Len(s)) ELSE s]

Create(ch) ==
    /\ challenge[ch].state = "none" /\ MayStart
    /\ active' = Inserted(ch)

Created(o) == [state |-> "code_sent", owner |-> o, expires |-> now + Ttl, identity |-> None]

Claimable(ch, o, expected) ==
    /\ Live(ch)
    /\ challenge[ch].owner = o
    /\ challenge[ch].state = expected

\* Mutant: anybody may claim.
AnyOwner(ch, o, expected) ==
    /\ Live(ch) /\ challenge[ch].state = expected
    /\ Prune(Store(ch))
    /\ challenge' = [challenge EXCEPT ![ch].state = "processing"]

\* The claim is taken before the client is awaited.
Claim(ch, o, expected) ==
    /\ Claimable(ch, o, expected)
    /\ Prune(Store(ch))
    /\ challenge' = [challenge EXCEPT ![ch].state = "processing"]

\* Mutant: the deadline is not looked at again.
StillActive(ch) == Active(ch)

\* Whether the answer of a client still counts.
Authorizes(ch) == Live(ch)

\* After the await: a challenge that was removed is left alone, one that is overdue is
\* removed.
Finish(ch, state, identity) ==
    IF ~Active(ch) THEN UNCHANGED <<active, challenge>>
    ELSE IF ~Authorizes(ch)
    THEN /\ active' = [active EXCEPT ![Store(ch)] = Without(@, {ch})]
         /\ challenge' = [challenge EXCEPT ![ch].state = "expired", ![ch].identity = identity]
    ELSE /\ challenge' = [challenge EXCEPT ![ch].state = state, ![ch].identity = identity]
         /\ UNCHANGED active

----------------------------------------------------------------------------
(* Phone attempts.                                                         *)

StartPhone(j, ch, o) ==
    /\ Idle(j)
    /\ Create(ch)
    /\ challenge' = [challenge EXCEPT ![ch] = Created(o)]
    /\ Goto(j, [NoJob EXCEPT !.pc = "requesting", !.source = ch, !.owner = o])
    /\ UNCHANGED <<now, waiters, tickets, database, exported>>

\* request_code has answered; claim and finish follow without an await.
CodeRequested(j, state) ==
    LET ch == jobs[j].source IN
    /\ jobs[j].pc = "requesting"
    /\ IF Claimable(ch, jobs[j].owner, "code_sent")
       THEN Finish(ch, state, None)
       ELSE UNCHANGED <<active, challenge>>
    /\ End(j)
    /\ UNCHANGED <<now, waiters, tickets, database, exported>>

\* The caller learns the id of an attempt when its start returns.
Announced(ch) == \A j \in Jobs : jobs[j].pc = "requesting" => jobs[j].source # ch

SubmitCode(j, ch, o) ==
    /\ Idle(j) /\ Announced(ch)
    /\ Claim(ch, o, "code_sent")
    /\ Goto(j, [NoJob EXCEPT !.pc = "signing", !.source = ch, !.owner = o])
    /\ UNCHANGED <<now, waiters, tickets, database, exported>>

SubmitPassword(j, ch, o) ==
    /\ Idle(j) /\ Announced(ch)
    /\ Claim(ch, o, "needs_2fa")
    /\ Goto(j, [NoJob EXCEPT !.pc = "password", !.source = ch, !.owner = o])
    /\ UNCHANGED <<now, waiters, tickets, database, exported>>

\* sign_in or check_password answers.  The request of an attempt that is authorized by
\* this goes on to consume its session, and claims it for that before the next await.
SignedIn(j, i) ==
    LET ch == jobs[j].source IN
    /\ jobs[j].pc \in {"signing", "password"}
    /\ IF Authorizes(ch)
       THEN /\ Prune("phone")
            /\ challenge' = [challenge EXCEPT ![ch].identity = i]
            /\ Goto(j, [jobs[j] EXCEPT !.pc = "exporting"])
       ELSE Finish(ch, "authorized", i) /\ End(j)
    /\ UNCHANGED <<now, waiters, tickets, database, exported>>

SignInFails(j, state) ==
    /\ jobs[j].pc \in {"signing", "password"}
    /\ state = "needs_2fa" => jobs[j].pc = "signing"
    /\ Finish(jobs[j].source, state, None)
    /\ End(j)
    /\ UNCHANGED <<now, waiters, tickets, database, exported>>

----------------------------------------------------------------------------
(* QR attempts.                                                            *)

\* request_qr has answered: the challenge, its link and the task that waits for the scan.
\* Without a link the challenge is finished at once.
StartQr(ch, o, link) ==
    /\ Create(ch)
    /\ challenge' = [challenge EXCEPT ![ch] =
                        IF link THEN Created(o) ELSE [Created(o) EXCEPT !.state = "failed"]]
    /\ waiters' = [waiters EXCEPT ![ch] = IF link THEN "created" ELSE @]
    /\ UNCHANGED <<now, tickets, jobs, database, exported>>

\* The task starts; a challenge it cannot claim ends it.
AwaitQr(ch) ==
    /\ waiters[ch] = "created"
    /\ \/ /\ Claim(ch, challenge[ch].owner, "code_sent")
          /\ waiters' = [waiters EXCEPT ![ch] = "waiting"]
       \/ /\ ~Claimable(ch, challenge[ch].owner, "code_sent")
          /\ Prune("qr")
          /\ waiters' = [waiters EXCEPT ![ch] = "none"]
          /\ UNCHANGED challenge
    /\ UNCHANGED <<now, tickets, jobs, database, exported>>

\* complete_qr answers; after a transient failure the challenge is open again.
QrScanned(ch, i) ==
    /\ waiters[ch] = "waiting"
    /\ Finish(ch, "authorized", i)
    /\ waiters' = [waiters EXCEPT ![ch] = "none"]
    /\ UNCHANGED <<now, tickets, jobs, database, exported>>

QrFails(ch, state) ==
    /\ waiters[ch] = "waiting"
    /\ Finish(ch, state, None)
    /\ waiters' = [waiters EXCEPT ![ch] = "none"]
    /\ UNCHANGED <<now, tickets, jobs, database, exported>>

Pending(ch, o) ==
    /\ Live(ch) /\ challenge[ch].owner = o
    /\ challenge[ch].state \in {"code_sent", "processing"}

\* A poll: any answer but a pending one cancels the task, and cancelling leaves the
\* challenge as the task had it; an authorized session is claimed and exported.
PollQr(j, ch, o) ==
    /\ Idle(j) /\ challenge[ch].state # "none"
    /\ waiters' = [waiters EXCEPT ![ch] = IF Pending(ch, o) THEN @ ELSE "none"]
    /\ \/ /\ Claim(ch, o, "authorized")
          /\ Goto(j, [NoJob EXCEPT !.pc = "exporting", !.source = ch, !.owner = o])
       \/ /\ ~Claimable(ch, o, "authorized")
          /\ Prune("qr")
          /\ UNCHANGED <<challenge, jobs>>
    /\ UNCHANGED <<now, tickets, database, exported>>

----------------------------------------------------------------------------
(* From an authorized attempt, or a ticket, to the database.               *)

\* Mutant: a finished export may be repeated.
StillAuthorized(ch) == Finish(ch, "authorized", challenge[ch].identity)

\* However the export ends, the challenge is spent.
Spend(ch) == Finish(ch, "failed", challenge[ch].identity)

\* consume_authorized_session: export_session answers with a payload, or it fails.
Export(j) ==
    LET ch == jobs[j].source IN
    /\ jobs[j].pc = "exporting"
    /\ Spend(ch)
    /\ \/ /\ Goto(j, [jobs[j] EXCEPT !.pc = "provision", !.identity = challenge[ch].identity])
          /\ exported' = [exported EXCEPT ![ch] = Append(@, challenge[ch].identity)]
       \/ End(j) /\ UNCHANGED exported
    /\ UNCHANGED <<now, waiters, tickets, database>>

Stale(t) == tickets[t].state = "open" /\ tickets[t].expires <= now

\* Tickets past their deadline are dropped whenever the registry is used.
Registry == [t \in Tickets |-> IF Stale(t) THEN [tickets[t] EXCEPT !.state = "gone"] ELSE tickets[t]]

IssueTicket(t, o) ==
    /\ tickets[t].state = "none" /\ MayStart
    /\ tickets' = [Registry EXCEPT ![t] =
                      [state |-> "open", owner |-> o, expires |-> now + Ttl]]
    /\ UNCHANGED <<now, active, challenge, waiters, jobs, database, exported>>

\* The ticket is spent before its envelope is opened, and stays spent if that fails.
AcceptHandoff(j, t, o, i) ==
    /\ Idle(j)
    /\ tickets[t].state = "open" /\ tickets[t].owner = o /\ ~Stale(t)
    /\ tickets' = [Registry EXCEPT ![t].state = "gone"]
    /\ \/ /\ Goto(j, [NoJob EXCEPT !.pc = "provision", !.source = t, !.owner = o, !.identity = i])
          /\ exported' = [exported EXCEPT ![t] = Append(@, i)]
       \/ UNCHANGED <<jobs, exported>>
    /\ UNCHANGED <<now, active, challenge, waiters, database>>

\* Mutant: the row that is found is taken, whoever owns it.
AnyTenant(i, org) == TRUE

MayProvision(i, org) == accounts[i] \in {None, org}

\* The row of the Telegram identity, found or inserted; one of another organization
\* refuses.  uq telegram_user_id makes a concurrent insert retry and find it.
Provision(j) ==
    LET i == jobs[j].identity
        org == OrgOf[jobs[j].owner]
    IN
    /\ jobs[j].pc = "provision"
    /\ IF MayProvision(i, org)
       THEN /\ accounts' = [accounts EXCEPT ![i] = IF @ = None THEN org ELSE @]
            /\ Goto(j, [jobs[j] EXCEPT !.pc = "put"])
       ELSE End(j) /\ UNCHANGED accounts
    /\ UNCHANGED <<now, memory, ciphertexts, connections, exported>>

\* A row under a fresh id.
SaveCiphertext(k, record) ==
    /\ ciphertexts[k] = NoCiphertext
    /\ ciphertexts' = [ciphertexts EXCEPT ![k] = record]

\* EncryptedSessionStore.put
Put(j, k) ==
    /\ jobs[j].pc = "put"
    /\ SaveCiphertext(k, [account |-> jobs[j].identity, source |-> jobs[j].source])
    /\ Goto(j, [jobs[j] EXCEPT !.pc = "save", !.key = k])
    /\ UNCHANGED <<now, memory, accounts, connections, exported>>

MaySave(i) == ~connections[i].leased

\* The quarantined connection row; one that a supervisor has leased is not overwritten,
\* and the ciphertext stays without a reference.
Save(j) ==
    LET i == jobs[j].identity IN
    /\ jobs[j].pc = "save"
    /\ connections' = IF MaySave(i)
                      THEN [connections EXCEPT ![i].key = jobs[j].key]
                      ELSE connections
    /\ End(j)
    /\ UNCHANGED <<now, memory, accounts, ciphertexts, exported>>

\* A transaction of the finalizer fails.
DatabaseFails(j) ==
    /\ jobs[j].pc \in {"provision", "put", "save"}
    /\ End(j)
    /\ UNCHANGED <<now, memory, database, exported>>

\* The connection supervisor claims the row and gives it up again.
Lease(i) ==
    /\ connections[i].key # None
    /\ connections' = [connections EXCEPT ![i].leased = ~@]
    /\ UNCHANGED <<now, memory, jobs, accounts, ciphertexts, exported>>

\* The process is replaced: what it held in memory is gone, its requests with it.  (Who
\* had started an attempt is kept for the properties.)
Restart ==
    /\ active' = [phone |-> <<>>, qr |-> <<>>]
    /\ challenge' = [ch \in Challenges |->
           IF challenge[ch].state = "none" THEN NoChallenge
           ELSE [NoChallenge EXCEPT !.state = "failed", !.owner = challenge[ch].owner]]
    /\ waiters' = [ch \in Qrs |-> "none"]
    /\ tickets' = [t \in Tickets |->
           IF tickets[t].state = "none" THEN NoTicket
           ELSE [NoTicket EXCEPT !.state = "gone", !.owner = tickets[t].owner]]
    /\ jobs' = [j \in Jobs |-> NoJob]
    /\ UNCHANGED <<now, database, exported>>

----------------------------------------------------------------------------
\* The routes, of the platform owner and of the workspaces, that serve a principal.
PhoneRequest(j, ch, o) == StartPhone(j, ch, o) \/ SubmitCode(j, ch, o) \/ SubmitPassword(j, ch, o)
QrRequest(j, ch, o) == (\E link \in BOOLEAN : StartQr(ch, o, link)) \/ PollQr(j, ch, o)

PhoneStep(j) ==
    \/ \E ch \in Phones, o \in Owners : PhoneRequest(j, ch, o)
    \/ \E state \in {"code_sent", "failed"} : CodeRequested(j, state)
    \/ \E i \in Identities : SignedIn(j, i)
    \/ \E state \in {"needs_2fa", "failed"} : SignInFails(j, state)

QrStep(ch) ==
    \/ AwaitQr(ch)
    \/ \E i \in Identities : QrScanned(ch, i)
    \/ \E state \in {"expired", "code_sent"} : QrFails(ch, state)
    \/ \E j \in Jobs, o \in Owners : QrRequest(j, ch, o)

FinalStep(j) ==
    \/ Export(j) \/ Provision(j) \/ Save(j) \/ DatabaseFails(j)
    \/ \E t \in Tickets, o \in Owners, i \in Identities : AcceptHandoff(j, t, o, i)
    \/ \E k \in Keys : Put(j, k)

Next ==
    \/ Tick \/ Restart
    \/ \E j \in Jobs : PhoneStep(j) \/ FinalStep(j)
    \/ \E ch \in Qrs : QrStep(ch)
    \/ \E t \in Tickets, o \in Owners : IssueTicket(t, o)
    \/ \E i \in Identities : Lease(i)

Spec == Init /\ [][Next]_vars

----------------------------------------------------------------------------
(* Properties.                                                             *)

\* The types of the stores, the requests and the rows.
TypeOK ==
    /\ now \in 0..MaxTime
    /\ active \in [phone : Seq(Phones), qr : Seq(Qrs)]
    /\ \A m \in {"phone", "qr"} : Len(active[m]) <= Capacity
    /\ challenge \in [Challenges -> ChallengeObjects]
    /\ waiters \in [Qrs -> {"none", "created", "waiting"}]
    /\ tickets \in [Tickets -> TicketRecords]
    /\ jobs \in [Jobs -> JobRecords]
    /\ accounts \in [Identities -> Orgs \cup {None}]
    /\ ciphertexts \in [Keys -> Ciphertexts]
    /\ connections \in [Identities -> Connections]
    /\ exported \in [Sources -> Seq(Identities \cup {None})]

Using(ch) == {j \in Jobs : jobs[j].pc \in {"signing", "password", "exporting"} /\ jobs[j].source = ch}
Awaited(ch) == ch \in Qrs /\ waiters[ch] = "waiting"

\* A challenge's Telegram client is used by one request at a time and only by the
\* challenge's owner, across expiry, eviction at capacity, retries of a code and
\* concurrent polls (_ChallengeStore.claim: "only the claimant can invoke the client").
ClientIsExclusive ==
    \A ch \in Challenges :
        /\ Cardinality(Using(ch)) + (IF Awaited(ch) THEN 1 ELSE 0) <= 1
        /\ \A j \in Using(ch) : jobs[j].owner = challenge[ch].owner

\* A challenge or a ticket yields its session at most once, whatever is retried and
\* however the export or the storing of the session ends (consume_authorized_session,
\* consume_envelope).
SessionLeavesOnce ==
    \A s \in Sources : Len(exported[s]) <= 1

OwnerOf(s) == IF s \in Tickets THEN tickets[s].owner ELSE challenge[s].owner

\* Every stored session belongs to the organization that authorized it, for the Telegram
\* user that its challenge or ticket was authorized as, and none is stored twice; a
\* connection row refers to a session of its own account (provision, put, _save).
StoredSessionsAreEarned ==
    /\ \A k \in Keys : ciphertexts[k] # NoCiphertext =>
          LET c == ciphertexts[k] IN
          /\ accounts[c.account] = OrgOf[OwnerOf(c.source)]
          /\ exported[c.source] = <<c.account>>
          /\ \A l \in Keys : ciphertexts[l].source = c.source => l = k
    /\ \A i \in Identities : connections[i].key # None => ciphertexts[connections[i].key].account = i

\* A session is only handed on while its challenge is live: an answer of Telegram that
\* arrives after the deadline, or after the challenge was evicted, authorizes nothing
\* (_ChallengeStore.finish: "rechecking expiry after a client await").
LateAnswerIsRefused ==
    [][\A j \in Jobs : jobs'[j].pc = "exporting" /\ jobs[j].pc # "exporting" =>
          Live(jobs'[j].source)]_vars
=============================================================================
