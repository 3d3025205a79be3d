-------------------------- MODULE MessageDelivery --------------------------
(***************************************************************************)
(* One durable idempotency row and the gateway calls that share its key.   *)
(*                                                                         *)
(* TelegramGateway.send may be called several times with one (account,     *)
(* idempotency key): duplicate calls of one process, retries, and calls of *)
(* a second process after a crash.  Every call talks to one PostgreSQL row *)
(* through SqlAlchemyMessageDeliveryRepository, whose transactions are     *)
(* atomic (row lock or single UPDATE), and to Telegram through an adapter. *)
(* Rows of different keys never touch each other, so one key is enough.    *)
(*                                                                         *)
(* A lease is "live" or "expired": the clock that moves it from one to the *)
(* other is the environment, so a stalled process, a slow thread and a     *)
(* skewed clock are all covered by expiry at an arbitrary moment.          *)
(***************************************************************************)
EXTENDS Naturals

CONSTANTS
    Callers,      \* gateway.send calls
    Processes,    \* connector processes; a repository's owner_id is per process
    Peers,
    ProcessOf,    \* the process each call runs in
    PeerOf,       \* the peer_id of each call's command
    HandleOf,     \* the vault handle of each call's command; two calls may share it
    None

ASSUME DeliveryAssumption ==
    /\ ProcessOf \in [Callers -> Processes]
    /\ PeerOf \in [Callers -> Peers]
    /\ None \notin Callers \cup Processes \cup Peers
    /\ \A c \in Callers, o \in {"sent", "reconciled"} : None # [msg |-> c, outcome |-> o]

VARIABLES
    adapter,   \* the registered adapter the gateways were composed with
    row,       \* the message_deliveries row of the key
    pc,        \* where each call stands in TelegramGateway._send
    fence,     \* fence_token of the call's DeliveryReservation
    found,     \* DeliveryResult the call is about to store or has returned
    bodies,    \* handles whose raw body is still in a vault
    wire,      \* the network effect of the call's send_message
    remote     \* messages Telegram has accepted, named by the call that sent them

vars == <<adapter, row, pc, fence, found, bodies, wire, remote>>

Handles == {HandleOf[c] : c \in Callers}
Adapters == {"synthetic", "telethon"}
Results == [msg : Callers, outcome : {"sent", "reconciled"}]
Rows == [state : {"absent", "pending", "uncertain", "completed"},
         peer : Peers \cup {None}, owner : Processes \cup {None},
         lease : {"none", "live", "expired"}, fence : Nat,
         result : Results \cup {None}]

Ended == {"returned", "raised", "cancelled", "dead"}
\* The call owns a reservation and may be sending under it.
Reserved == {"begin", "sending", "complete", "persist", "persist_cancel"}
Lookups == {"lookup", "lookup_failed", "lookup_late"}
Locations == Ended \cup Reserved \cup Lookups
                \cup {"idle", "reserve", "waiting", "allow", "store"}

AbsentRow == [state |-> "absent", peer |-> None, owner |-> None,
              lease |-> "none", fence |-> 0, result |-> None]

Init ==
    /\ adapter \in Adapters
    /\ row = AbsentRow
    /\ pc = [c \in Callers |-> "idle"]
    /\ fence = [c \in Callers |-> 0]
    /\ found = [c \in Callers |-> None]
    /\ bodies = Handles
    /\ wire = [c \in Callers |-> "none"]
    /\ remote = {}

----------------------------------------------------------------------------
(* The repository: what each transaction makes of the row.                 *)

\* Only a composed registered adapter that promises remote idempotency.
HasApprovedRemoteDeduplication == adapter = "synthetic"

\* Mutants of the repository.
LeaseNeverRecovered == FALSE
OwnedByProcess(c) == row.state = "pending" /\ row.owner = ProcessOf[c]
CompletableAlways(c) == row.state # "absent"
ResendKeepsFence(c) ==
    IF row.state = "uncertain"
    THEN [row EXCEPT !.state = "pending", !.owner = ProcessOf[c], !.lease = "live"]
    ELSE row
AnyPeer(c) == FALSE
MarkKeepsLease(c) ==
    IF row.state = "pending" /\ row.owner = ProcessOf[c] /\ row.fence = fence[c]
    THEN [row EXCEPT !.state = "uncertain", !.owner = None]
    ELSE row

Owned(c) == /\ row.state = "pending"
            /\ row.owner = ProcessOf[c]
            /\ row.fence = fence[c]

LeaseExpired == row.state = "pending" /\ row.lease = "expired"

PeerMismatch(c) == row.state # "absent" /\ row.peer # PeerOf[c]

\* A pending row whose lease ran out becomes uncertain; nothing makes it sendable.
ReserveRow(c) ==
    CASE row.state = "absent" ->
            [state |-> "pending", peer |-> PeerOf[c], owner |-> ProcessOf[c],
             lease |-> "live", fence |-> 1, result |-> None]
      [] row.state # "absent" /\ ~PeerMismatch(c) /\ LeaseExpired ->
            [row EXCEPT !.state = "uncertain", !.owner = None, !.lease = "none"]
      [] OTHER -> row

Completable(c) == row.state = "uncertain" \/ Owned(c)

CompleteRow(c) ==
    IF Completable(c)
    THEN [row EXCEPT !.state = "completed", !.owner = None,
                     !.lease = "none", !.result = found[c]]
    ELSE row

MarkUncertainRow(c) ==
    IF Owned(c)
    THEN [row EXCEPT !.state = "uncertain", !.owner = None, !.lease = "none"]
    ELSE row

AllowResendRow(c) ==
    IF row.state = "uncertain"
    THEN [row EXCEPT !.state = "pending", !.owner = ProcessOf[c],
                     !.lease = "live", !.fence = row.fence + 1]
    ELSE row

----------------------------------------------------------------------------
(* The gateway call.                                                       *)

Goto(c, l) == pc' = [pc EXCEPT ![c] = l] /\ UNCHANGED bodies

\* send()'s finally clause drops the body whatever the outcome.
Finish(c, l) ==
    /\ pc' = [pc EXCEPT ![c] = l]
    /\ bodies' = bodies \ {HandleOf[c]}

NoNetwork == UNCHANGED <<adapter, wire, remote>>

\* The connection is asked once, before the loop.
Start(c) ==
    /\ pc[c] = "idle"
    /\ Goto(c, "reserve") \/ Finish(c, "raised")
    /\ UNCHANGED <<row, fence, found>> /\ NoNetwork

Reserve(c) ==
    /\ pc[c] = "reserve"
    /\ row' = ReserveRow(c)
    /\ fence' = [fence EXCEPT ![c] = row'.fence]
    /\ \/ /\ row.state = "absent"
          /\ Goto(c, "begin")
          /\ UNCHANGED found
       \/ /\ PeerMismatch(c)
          /\ Finish(c, "raised")
          /\ UNCHANGED found
       \/ /\ ~PeerMismatch(c)
          /\ row.state = "completed"
          /\ found' = [found EXCEPT ![c] = row.result]
          /\ Finish(c, "returned")
       \/ /\ ~PeerMismatch(c)
          /\ row.state = "uncertain" \/ LeaseExpired
          /\ Goto(c, "lookup")
          /\ UNCHANGED found
       \/ /\ ~PeerMismatch(c)
          /\ row.state = "pending" /\ ~LeaseExpired
          /\ Goto(c, "waiting")
          /\ UNCHANGED found
    /\ NoNetwork

Wake(c) ==
    /\ pc[c] = "waiting"
    /\ Goto(c, "reserve")
    /\ UNCHANGED <<row, fence, found>> /\ NoNetwork

\* reconcile_message found a previous remote send (Telethon never does).
LookupHit(c) ==
    /\ pc[c] \in Lookups
    /\ adapter = "synthetic"
    /\ \E m \in remote :
          /\ PeerOf[m] = PeerOf[c]
          /\ found' = [found EXCEPT ![c] = [msg |-> m, outcome |-> "reconciled"]]
    /\ Goto(c, "store")
    /\ UNCHANGED <<row, fence>> /\ NoNetwork

ResendUnguarded(c) ==
    /\ pc[c] \in Lookups
    /\ IF pc[c] = "lookup" THEN Goto(c, "allow") ELSE Finish(c, "raised")
    /\ UNCHANGED <<row, fence, found>> /\ NoNetwork

\* A miss before sending may lead to a resend, but only where Telegram itself
\* deduplicates; a miss after this call's own send ends the call.
LookupMiss(c) ==
    /\ pc[c] \in Lookups
    /\ IF pc[c] = "lookup" /\ HasApprovedRemoteDeduplication
       THEN Goto(c, "allow")
       ELSE Finish(c, "raised")
    /\ UNCHANGED <<row, fence, found>> /\ NoNetwork

LookupError(c) ==
    /\ pc[c] \in Lookups
    /\ Finish(c, "raised")
    /\ UNCHANGED <<row, fence, found>> /\ NoNetwork

AllowResend(c) ==
    /\ pc[c] = "allow"
    /\ row' = AllowResendRow(c)
    /\ fence' = [fence EXCEPT ![c] = row'.fence]
    /\ \/ /\ row.state = "completed"
          /\ found' = [found EXCEPT ![c] = row.result]
          /\ Finish(c, "returned")
       \/ /\ row.state = "uncertain"
          /\ Goto(c, "begin")
          /\ UNCHANGED found
       \/ /\ row.state = "pending"
          /\ Goto(c, "waiting")
          /\ UNCHANGED found
    /\ NoNetwork

\* The send task starts; a body that an earlier call of the same command has
\* already discarded raises before anything leaves the process.
BeginSend(c) ==
    /\ pc[c] = "begin"
    /\ IF HandleOf[c] \in bodies
       THEN /\ wire' = [wire EXCEPT ![c] = "inflight"]
            /\ Goto(c, "sending")
       ELSE /\ Goto(c, "persist")
            /\ UNCHANGED wire
    /\ UNCHANGED <<adapter, row, fence, found, remote>>

SendReturns(c) ==
    /\ pc[c] = "sending"
    /\ wire[c] = "landed"
    /\ \E m \in remote :
          /\ adapter = "telethon" => m = c
          /\ found' = [found EXCEPT ![c] = [msg |-> m, outcome |-> "sent"]]
    /\ Goto(c, "complete")
    /\ UNCHANGED <<row, fence>> /\ NoNetwork

\* send_message raised (refused, answered unusably, or cut off while the request
\* is still on its way), or the deadline passed while the send task keeps running.
SendFails(c) ==
    /\ pc[c] = "sending"
    /\ Goto(c, "persist")
    /\ UNCHANGED <<row, fence, found>> /\ NoNetwork

\* The lease is renewed while the request is out; a reservation that was lost in
\* the meantime ends the wait, not the request.
Renew(c) ==
    /\ pc[c] = "sending"
    /\ IF Owned(c)
       THEN /\ row' = [row EXCEPT !.lease = "live"]
            /\ UNCHANGED <<pc, bodies>>
       ELSE /\ Goto(c, "persist")
            /\ UNCHANGED row
    /\ UNCHANGED <<fence, found>> /\ NoNetwork

Complete(c) ==
    /\ pc[c] = "complete"
    /\ row' = CompleteRow(c)
    /\ IF Completable(c) THEN Finish(c, "returned") ELSE Goto(c, "lookup_late")
    /\ UNCHANGED <<fence, found>> /\ NoNetwork

\* _reconcile: complete with the remote hit, or report telegram_unknown.
StoreReconciled(c) ==
    /\ pc[c] = "store"
    /\ row' = CompleteRow(c)
    /\ Finish(c, IF Completable(c) THEN "returned" ELSE "raised")
    /\ UNCHANGED <<fence, found>> /\ NoNetwork

PersistUncertain(c) ==
    /\ pc[c] = "persist"
    /\ row' = MarkUncertainRow(c)
    /\ Goto(c, "lookup_failed")
    /\ UNCHANGED <<fence, found>> /\ NoNetwork

\* The caller's task is cancelled at a point where it awaits.  While it sends,
\* the ambiguity is persisted under shield first.
Cancel(c) ==
    /\ \/ /\ pc[c] \in Lookups \cup {"waiting"}
          /\ Finish(c, "cancelled")
       \/ /\ pc[c] \in {"sending", "persist"}
          /\ Goto(c, "persist_cancel")
    /\ UNCHANGED <<row, fence, found>> /\ NoNetwork

PersistCancelled(c) ==
    /\ pc[c] = "persist_cancel"
    /\ row' = MarkUncertainRow(c)
    /\ Finish(c, "cancelled")
    /\ UNCHANGED <<fence, found>> /\ NoNetwork

\* A transaction fails, with or without having committed, and its exception ends
\* the call; a failing renewal is handled like any failure of the send.
DatabaseError(c) ==
    /\ \/ pc[c] = "reserve" /\ row' \in {row, ReserveRow(c)} /\ Finish(c, "raised")
       \/ pc[c] = "allow" /\ row' \in {row, AllowResendRow(c)} /\ Finish(c, "raised")
       \/ /\ pc[c] \in {"complete", "store"}
          /\ row' \in {row, CompleteRow(c)}
          /\ Finish(c, "raised")
       \/ /\ pc[c] \in {"persist", "persist_cancel"}
          /\ row' \in {row, MarkUncertainRow(c)}
          /\ Finish(c, "raised")
    /\ UNCHANGED <<fence, found>> /\ NoNetwork

Call(c) ==
    \/ Start(c) \/ Reserve(c) \/ Wake(c)
    \/ LookupHit(c) \/ LookupMiss(c) \/ LookupError(c)
    \/ AllowResend(c) \/ BeginSend(c)
    \/ SendReturns(c) \/ SendFails(c) \/ Renew(c)
    \/ Complete(c) \/ StoreReconciled(c)
    \/ PersistUncertain(c) \/ Cancel(c) \/ PersistCancelled(c)
    \/ DatabaseError(c)

----------------------------------------------------------------------------
(* The environment.                                                        *)

\* A process dies with its calls and its vault; the row and whatever is on the
\* wire survive it.
Crash(p) ==
    /\ \E c \in Callers : ProcessOf[c] = p /\ pc[c] \notin Ended \cup {"idle"}
    /\ pc' = [c \in Callers |->
                 IF ProcessOf[c] = p /\ pc[c] \notin Ended THEN "dead" ELSE pc[c]]
    /\ bodies' = bodies \ {HandleOf[c] : c \in {d \in Callers : ProcessOf[d] = p}}
    /\ UNCHANGED <<row, fence, found>> /\ NoNetwork

ExpireLease ==
    /\ row.lease = "live"
    /\ row' = [row EXCEPT !.lease = "expired"]
    /\ UNCHANGED <<pc, fence, found, bodies>> /\ NoNetwork

\* Telegram accepts the request, possibly long after the caller gave up.  The
\* synthetic adapter's remote keeps one message per idempotency key.
Land(c) ==
    /\ wire[c] = "inflight"
    /\ wire' = [wire EXCEPT ![c] = "landed"]
    /\ remote' = IF adapter = "synthetic" /\ remote # {} THEN remote ELSE remote \cup {c}
    /\ UNCHANGED <<adapter, row, pc, fence, found, bodies>>

Lose(c) ==
    /\ wire[c] = "inflight"
    /\ wire' = [wire EXCEPT ![c] = "lost"]
    /\ UNCHANGED <<adapter, row, pc, fence, found, bodies, remote>>

Next ==
    \/ \E c \in Callers : Call(c) \/ Land(c) \/ Lose(c)
    \/ \E p \in Processes : Crash(p)
    \/ ExpireLease

Spec == Init /\ [][Next]_vars

(***************************************************************************)
(* Fairness: a running call keeps taking its steps (the event loop runs),  *)
(* a request that is out is answered or given up at the deadline, and time *)
(* passes.  Starting a call, cancelling it and crashing are never forced.  *)
(***************************************************************************)
CallProgress(c) ==
    \/ Reserve(c) \/ Wake(c)
    \/ LookupHit(c) \/ LookupMiss(c) \/ LookupError(c)
    \/ AllowResend(c) \/ BeginSend(c)
    \/ SendReturns(c) \/ SendFails(c)
    \/ Complete(c) \/ StoreReconciled(c)
    \/ PersistUncertain(c) \/ PersistCancelled(c)

FairSpec ==
    /\ Spec
    /\ \A c \in Callers : WF_vars(CallProgress(c))
    /\ WF_vars(ExpireLease)

----------------------------------------------------------------------------
(* Properties.                                                             *)

\* Types, and the columns that go together: only a pending row has an owner and a
\* lease, only a completed one a result.
RowOK(r) ==
    /\ r \in Rows
    /\ r.state = "pending" <=> r.owner # None
    /\ r.state = "pending" <=> r.lease # "none"
    /\ r.state = "completed" <=> r.result # None
    /\ r.state = "absent" <=> r.peer = None
TypeOK ==
    /\ adapter \in Adapters
    /\ RowOK(row)
    /\ pc \in [Callers -> Locations]
    /\ fence \in [Callers -> Nat]
    /\ found \in [Callers -> Results \cup {None}]
    /\ \A c \in Callers : pc[c] \in {"complete", "store"} => found[c] # None
    /\ bodies \subseteq Handles
    /\ wire \in [Callers -> {"none", "inflight", "landed", "lost"}]
    /\ remote \subseteq Callers

\* However calls of one key interleave, crash, time out, are cancelled or land
\* late, Telegram holds at most one message for the key.
AtMostOneEffect == \A m, n \in remote : m = n

\* The pending reservation belongs to at most one call: no two calls send under
\* the row's current fence token.
Holder(c) == pc[c] \in Reserved /\ row.state = "pending" /\ fence[c] = row.fence
OneHolder == \A c, d \in Callers : Holder(c) /\ Holder(d) => c = d

\* A stored or returned result names a message Telegram accepted, all calls
\* return the stored one, and no call gets a result for another peer.
ResultsAreReal ==
    /\ row.state = "completed" => row.result # None /\ row.result.msg \in remote
    /\ \A c \in Callers : pc[c] = "returned" =>
          /\ row.state = "completed"
          /\ found[c] = row.result
          /\ PeerOf[row.result.msg] = PeerOf[c]

\* A stored result is never replaced, reopened or attributed to another outcome.
CompletedIsFinal == [][row.state = "completed" => row' = row]_vars

\* While a reservation's lease is live only its own call may change the row: a
\* stale sender, a waiter or a recovering process cannot take it over.
LiveReservationIsExclusive ==
    [][(row.state = "pending" /\ row.lease = "live" /\ row' # row)
         => \/ row' = [row EXCEPT !.lease = "expired"]
            \/ \E c \in Callers : Holder(c) /\ pc'[c] # pc[c]]_vars

\* Every call that reached the repository ends: duplicates waiting on a sender
\* that crashed or stalled are released by the expiry of its lease.
CallsEnd == \A c \in Callers : pc[c] = "reserve" ~> pc[c] \in Ended

\* The row and the remote side implement the abstract promise: reserve before
\* send, one message, one final answer that names it.
KeyStatus == CASE row.state = "absent" -> "unused"
               [] row.state \in {"pending", "uncertain"} -> "open"
               [] OTHER -> "recorded"
KeyAnswer == IF row.state = "completed" THEN {row.result.msg} ELSE {}
Promise == INSTANCE IdempotentDelivery
              WITH Messages <- Callers, status <- KeyStatus, answer <- KeyAnswer, sent <- remote
KeepsPromise == Promise!Spec
=============================================================================
