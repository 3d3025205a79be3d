---------------------- MODULE MessageDelivery_proofs ----------------------
(***************************************************************************)
(* Proofs about MessageDelivery for any number of calls, processes and     *)
(* peers.  The inductive invariant is the conjunction of TypeOK and the    *)
(* named parts below; the properties checked by TLC follow from it.        *)
(***************************************************************************)
EXTENDS MessageDelivery, TLAPS

\* A call that holds a reservation or whose request has ever left the process.
Attempted(c) == pc[c] \in Reserved \/ wire[c] # "none"
\* A call that looks for an earlier send of the key.
Recovering(c) == pc[c] \in Lookups \cup {"allow", "store"}

\* Nothing is sent, looked up or answered before the row exists.
RowFirst ==
    row.state = "absent" =>
        /\ row.fence = 0
        /\ \A c \in Callers : ~Attempted(c) /\ ~Recovering(c) /\ pc[c] # "returned"

\* Reservations are told apart by their fence token; the newest one is the row's.
Fenced ==
    /\ \A c \in Callers : pc[c] \in Reserved => fence[c] <= row.fence
    /\ \A c, d \in Callers : pc[c] \in Reserved /\ pc[d] \in Reserved /\ fence[c] = fence[d]
                                => c = d
    /\ \A c \in Callers : Holder(c) => row.owner = ProcessOf[c]
    /\ \A c \in Callers : Recovering(c) =>
          /\ fence[c] <= row.fence
          /\ row.state = "pending" => fence[c] < row.fence

\* Without remote deduplication only the call that created the row ever sends.
SingleAttempt ==
    adapter = "telethon" =>
        /\ \A c \in Callers : pc[c] # "allow"
        /\ \A c, d \in Callers : Attempted(c) /\ Attempted(d) => c = d

\* A call sends at most once; what is remote came from a request that landed, and
\* there is one such message under deduplication.
RemoteSound ==
    /\ \A c \in Callers :
          pc[c] \in {"idle", "reserve", "waiting", "lookup", "allow", "begin"} => wire[c] = "none"
    /\ \A m \in remote : wire[m] = "landed"
    /\ adapter = "synthetic" => \A m, n \in remote : m = n

\* Only calls for the row's peer send, recover or answer.
OnePeer == \A c \in Callers : Attempted(c) \/ Recovering(c) => PeerOf[c] = row.peer

\* Results on their way into the row, in the row, and returned.
ResultSound ==
    /\ \A c \in Callers : pc[c] \in {"complete", "store"} =>
          found[c] \in Results /\ found[c].msg \in remote
    /\ row.state = "completed" =>
          row.result.msg \in remote /\ PeerOf[row.result.msg] = row.peer
    /\ \A c \in Callers : pc[c] = "returned" =>
          row.state = "completed" /\ found[c] = row.result /\ PeerOf[c] = row.peer

IInv == /\ TypeOK /\ RowFirst /\ Fenced /\ SingleAttempt
        /\ RemoteSound /\ OnePeer /\ ResultSound

----------------------------------------------------------------------------
\* Each repository transaction leaves a well-formed row.
LEMMA RowTypes ==
  ASSUME TypeOK, NEW c \in Callers
  PROVE  /\ RowOK(ReserveRow(c)) /\ RowOK(AllowResendRow(c)) /\ RowOK(MarkUncertainRow(c))
         /\ found[c] # None => RowOK(CompleteRow(c))
<1>p. ProcessOf[c] \in Processes /\ ProcessOf[c] # None /\ PeerOf[c] \in Peers /\ PeerOf[c] # None
  BY DeliveryAssumption
<1>1. RowOK(ReserveRow(c))
  <2>1. CASE row.state = "absent"
    <3>1. ReserveRow(c) = [state |-> "pending", peer |-> PeerOf[c], owner |-> ProcessOf[c],
                           lease |-> "live", fence |-> 1, result |-> None]
      BY <2>1 DEF ReserveRow
    <3> HIDE DEF ReserveRow
    <3>2. ReserveRow(c) \in Rows
      BY <1>p, <3>1 DEF Rows
    <3> QED
      BY <1>p, <3>1, <3>2 DEF RowOK
  <2>2. CASE row.state # "absent" /\ ~PeerMismatch(c) /\ LeaseExpired
    <3>1. ReserveRow(c) = [row EXCEPT !.state = "uncertain", !.owner = None, !.lease = "none"]
      BY <2>2 DEF ReserveRow
    <3> QED
      BY <2>2, <3>1 DEF TypeOK, RowOK, Rows, LeaseExpired
  <2>3. CASE row.state # "absent" /\ ~(~PeerMismatch(c) /\ LeaseExpired)
    BY <2>3 DEF ReserveRow, TypeOK
  <2> QED
    BY <2>1, <2>2, <2>3
<1>2. RowOK(AllowResendRow(c))
  <2>1. CASE row.state = "uncertain"
    <3>1. AllowResendRow(c) = [state |-> "pending", peer |-> row.peer, owner |-> ProcessOf[c],
                               lease |-> "live", fence |-> row.fence + 1, result |-> row.result]
      BY <2>1 DEF TypeOK, RowOK, Rows, AllowResendRow
    <3>2. AllowResendRow(c) \in Rows
      BY <1>p, <3>1 DEF TypeOK, RowOK, Rows
    <3> QED
      BY <1>p, <2>1, <3>1, <3>2 DEF TypeOK, RowOK
  <2> QED
    BY <2>1 DEF TypeOK, AllowResendRow
<1>3. RowOK(MarkUncertainRow(c))
  BY DEF MarkUncertainRow, Owned, TypeOK, RowOK, Rows
<1>4. found[c] # None => RowOK(CompleteRow(c))
  BY DEF CompleteRow, Completable, Owned, TypeOK, RowOK, Rows
<1> QED
  BY <1>1, <1>2, <1>3, <1>4

(* Every step keeps types. *)
LEMMA TypeStep == TypeOK /\ [Next]_vars => TypeOK'
<1> SUFFICES ASSUME TypeOK, [Next]_vars PROVE TypeOK'
  OBVIOUS
<1> USE DEF TypeOK, Adapters, Locations, Ended, Reserved, Lookups, Goto, Finish, NoNetwork
<1>1. ASSUME NEW c \in Callers, Start(c) PROVE TypeOK'
  BY <1>1 DEF Start, Handles
<1>2. ASSUME NEW c \in Callers, Reserve(c) PROVE TypeOK'
  <2>1. row' = ReserveRow(c) /\ RowOK(row')
    BY <1>2, RowTypes DEF Reserve
  <2>2. row'.fence \in Nat
    BY <2>1 DEF RowOK, Rows
  <2>3. row.result \in Results \cup {None}
    BY DEF RowOK, Rows
  <2> QED
    BY <1>2, <2>1, <2>2, <2>3 DEF Reserve
<1>3. ASSUME NEW c \in Callers, Wake(c) PROVE TypeOK'
  BY <1>3 DEF Wake, Handles
<1>4. ASSUME NEW c \in Callers, LookupHit(c) PROVE TypeOK'
  <2>1. PICK m \in remote : found' = [found EXCEPT ![c] = [msg |-> m, outcome |-> "reconciled"]]
    BY <1>4 DEF LookupHit
  <2>2. [msg |-> m, outcome |-> "reconciled"] \in Results
    BY DEF Results
  <2>3. [msg |-> m, outcome |-> "reconciled"] # None
    BY <2>2, DeliveryAssumption
  <2> QED
    BY <1>4, <2>1, <2>2, <2>3 DEF LookupHit
<1>5. ASSUME NEW c \in Callers, LookupMiss(c) PROVE TypeOK'
  BY <1>5 DEF LookupMiss, Handles
<1>6. ASSUME NEW c \in Callers, LookupError(c) PROVE TypeOK'
  BY <1>6 DEF LookupError, Handles
<1>7. ASSUME NEW c \in Callers, AllowResend(c) PROVE TypeOK'
  <2>1. row' = AllowResendRow(c) /\ RowOK(row')
    BY <1>7, RowTypes DEF AllowResend
  <2>2. row'.fence \in Nat
    BY <2>1 DEF RowOK, Rows
  <2>3. row.result \in Results \cup {None}
    BY DEF RowOK, Rows
  <2> QED
    BY <1>7, <2>1, <2>2, <2>3 DEF AllowResend
<1>8. ASSUME NEW c \in Callers, BeginSend(c) PROVE TypeOK'
  BY <1>8 DEF BeginSend, Handles
<1>9. ASSUME NEW c \in Callers, SendReturns(c) PROVE TypeOK'
  <2>1. PICK m \in remote : found' = [found EXCEPT ![c] = [msg |-> m, outcome |-> "sent"]]
    BY <1>9 DEF SendReturns
  <2>2. [msg |-> m, outcome |-> "sent"] \in Results
    BY DEF Results
  <2>3. [msg |-> m, outcome |-> "sent"] # None
    BY <2>2, DeliveryAssumption
  <2> QED
    BY <1>9, <2>1, <2>2, <2>3 DEF SendReturns
<1>10. ASSUME NEW c \in Callers, SendFails(c) PROVE TypeOK'
  BY <1>10 DEF SendFails, Handles
<1>11. ASSUME NEW c \in Callers, Renew(c) PROVE TypeOK'
  BY <1>11 DEF Renew, Owned, RowOK, Rows
<1>12. ASSUME NEW c \in Callers, Complete(c) PROVE TypeOK'
  BY <1>12, RowTypes DEF Complete, CompleteRow
<1>13. ASSUME NEW c \in Callers, StoreReconciled(c) PROVE TypeOK'
  BY <1>13, RowTypes DEF StoreReconciled, CompleteRow
<1>14. ASSUME NEW c \in Callers, PersistUncertain(c) PROVE TypeOK'
  BY <1>14, RowTypes DEF PersistUncertain, CompleteRow
<1>15. ASSUME NEW c \in Callers, Cancel(c) PROVE TypeOK'
  BY <1>15 DEF Cancel, Handles
<1>16. ASSUME NEW c \in Callers, PersistCancelled(c) PROVE TypeOK'
  BY <1>16, RowTypes DEF PersistCancelled, CompleteRow
<1>17. ASSUME NEW c \in Callers, DatabaseError(c) PROVE TypeOK'
  <2>1. RowOK(row')
    BY <1>17, RowTypes DEF DatabaseError
  <2> QED
    BY <1>17, <2>1 DEF DatabaseError
<1>18. ASSUME NEW c \in Callers, Land(c) PROVE TypeOK'
  BY <1>18 DEF Land, Handles
<1>19. ASSUME NEW c \in Callers, Lose(c) PROVE TypeOK'
  BY <1>19 DEF Lose, Handles
<1>20. ASSUME NEW p \in Processes, Crash(p) PROVE TypeOK'
  BY <1>20 DEF Crash
<1>21. CASE ExpireLease
  BY <1>21 DEF ExpireLease, RowOK, Rows
<1>22. CASE UNCHANGED vars
  BY <1>22 DEF vars
<1> QED
  BY <1>1, <1>2, <1>3, <1>4, <1>5, <1>6, <1>7, <1>8, <1>9, <1>10, <1>11, <1>12, <1>13, <1>14, <1>15, <1>16, <1>17, <1>18, <1>19, <1>20, <1>21, <1>22 DEF Next, Call

\* Type correctness of the gateway and its durable row.
THEOREM TypeCorrect == Spec => []TypeOK
<1>1. Init => TypeOK
  BY DeliveryAssumption DEF Init, AbsentRow, TypeOK, RowOK, Rows, Adapters, Locations, Handles
<1> QED
  BY <1>1, TypeStep, PTL DEF Spec

(* Every step preserves the inductive invariant. *)
LEMMA InductiveStep == IInv /\ [Next]_vars => IInv'
<1> SUFFICES ASSUME IInv, [Next]_vars PROVE IInv'
  OBVIOUS
<1> USE DEF IInv, Reserved, Lookups, Ended, Goto, Finish, NoNetwork,
            RowFirst, Fenced, SingleAttempt, RemoteSound, OnePeer, ResultSound,
            Attempted, Recovering, Holder
<1>t. TypeOK /\ TypeOK'
  BY TypeStep
<1>r. RowOK(row) /\ RowOK(row')
  BY <1>t DEF TypeOK
<1> USE <1>t, <1>r DEF TypeOK
<1>1. ASSUME NEW c \in Callers, Start(c) PROVE IInv'
  BY <1>1 DEF Start
<1>2. ASSUME NEW c \in Callers, Reserve(c) PROVE IInv'
  <2> USE <1>2 DEF Reserve, ReserveRow, PeerMismatch, LeaseExpired, RowOK, Rows
  <2>1. RowFirst'
    OBVIOUS
  <2>2. Fenced'
    OBVIOUS
  <2>3. SingleAttempt'
    OBVIOUS
  <2>4. RemoteSound'
    OBVIOUS
  <2>5. OnePeer'
    OBVIOUS
  <2>6. ResultSound'
    OBVIOUS
  <2> QED
    BY <2>1, <2>2, <2>3, <2>4, <2>5, <2>6
<1>3. ASSUME NEW c \in Callers, Wake(c) PROVE IInv'
  BY <1>3 DEF Wake
<1>4. ASSUME NEW c \in Callers, LookupHit(c) PROVE IInv'
  BY <1>4 DEF LookupHit
<1>5. ASSUME NEW c \in Callers, LookupMiss(c) PROVE IInv'
  BY <1>5 DEF LookupMiss, HasApprovedRemoteDeduplication
<1>6. ASSUME NEW c \in Callers, LookupError(c) PROVE IInv'
  BY <1>6 DEF LookupError
<1>7. ASSUME NEW c \in Callers, AllowResend(c) PROVE IInv'
  <2> USE <1>7 DEF AllowResend, AllowResendRow, RowOK, Rows
  <2>1. RowFirst'
    OBVIOUS
  <2>2. Fenced'
    OBVIOUS
  <2>3. SingleAttempt'
    OBVIOUS
  <2>4. RemoteSound'
    OBVIOUS
  <2>5. OnePeer'
    OBVIOUS
  <2>6. ResultSound'
    OBVIOUS
  <2> QED
    BY <2>1, <2>2, <2>3, <2>4, <2>5, <2>6
<1>8. ASSUME NEW c \in Callers, BeginSend(c) PROVE IInv'
  <2> USE <1>8 DEF BeginSend
  <2>1. RowFirst'
    OBVIOUS
  <2>2. Fenced'
    OBVIOUS
  <2>3. SingleAttempt'
    OBVIOUS
  <2>4. RemoteSound'
    OBVIOUS
  <2>5. OnePeer'
    OBVIOUS
  <2>6. ResultSound'
    OBVIOUS
  <2> QED
    BY <2>1, <2>2, <2>3, <2>4, <2>5, <2>6
<1>9. ASSUME NEW c \in Callers, SendReturns(c) PROVE IInv'
  BY <1>9 DEF SendReturns
<1>10. ASSUME NEW c \in Callers, SendFails(c) PROVE IInv'
  BY <1>10 DEF SendFails
<1>11. ASSUME NEW c \in Callers, Renew(c) PROVE IInv'
  BY <1>11 DEF Renew, Owned, RowOK, Rows
<1>12. ASSUME NEW c \in Callers, Complete(c) PROVE IInv'
  <2> USE <1>12 DEF Complete, CompleteRow, Completable, Owned, RowOK, Rows
  <2>1. RowFirst'
    OBVIOUS
  <2>2. Fenced'
    OBVIOUS
  <2>3. SingleAttempt'
    OBVIOUS
  <2>4. RemoteSound'
    OBVIOUS
  <2>5. OnePeer'
    OBVIOUS
  <2>6. ResultSound'
    OBVIOUS
  <2> QED
    BY <2>1, <2>2, <2>3, <2>4, <2>5, <2>6
<1>13. ASSUME NEW c \in Callers, StoreReconciled(c) PROVE IInv'
  <2> USE <1>13 DEF StoreReconciled, CompleteRow, Completable, Owned, RowOK, Rows
  <2>1. RowFirst'
    OBVIOUS
  <2>2. Fenced'
    OBVIOUS
  <2>3. SingleAttempt'
    OBVIOUS
  <2>4. RemoteSound'
    OBVIOUS
  <2>5. OnePeer'
    OBVIOUS
  <2>6. ResultSound'
    OBVIOUS
  <2> QED
    BY <2>1, <2>2, <2>3, <2>4, <2>5, <2>6
<1>14. ASSUME NEW c \in Callers, PersistUncertain(c) PROVE IInv'
  <2> USE <1>14 DEF PersistUncertain, MarkUncertainRow, Owned, RowOK, Rows
  <2>1. RowFirst'
    OBVIOUS
  <2>2. Fenced'
    OBVIOUS
  <2>3. SingleAttempt'
    OBVIOUS
  <2>4. RemoteSound'
    OBVIOUS
  <2>5. OnePeer'
    OBVIOUS
  <2>6. ResultSound'
    OBVIOUS
  <2> QED
    BY <2>1, <2>2, <2>3, <2>4, <2>5, <2>6
<1>15. ASSUME NEW c \in Callers, Cancel(c) PROVE IInv'
  BY <1>15 DEF Cancel
<1>16. ASSUME NEW c \in Callers, PersistCancelled(c) PROVE IInv'
  <2> USE <1>16 DEF PersistCancelled, MarkUncertainRow, Owned, RowOK, Rows
  <2>1. RowFirst'
    OBVIOUS
  <2>2. Fenced'
    OBVIOUS
  <2>3. SingleAttempt'
    OBVIOUS
  <2>4. RemoteSound'
    OBVIOUS
  <2>5. OnePeer'
    OBVIOUS
  <2>6. ResultSound'
    OBVIOUS
  <2> QED
    BY <2>1, <2>2, <2>3, <2>4, <2>5, <2>6
<1>17. ASSUME NEW c \in Callers, DatabaseError(c) PROVE IInv'
  <2> USE <1>17 DEF DatabaseError
  <2>1. CASE row' = row
    BY <2>1
  <2>2. CASE pc[c] = "reserve" /\ row' = ReserveRow(c)
    <3>1. RowFirst'
      BY <2>2 DEF ReserveRow, PeerMismatch, LeaseExpired, RowOK, Rows
    <3>2. Fenced'
      BY <2>2 DEF ReserveRow, PeerMismatch, LeaseExpired, RowOK, Rows
    <3>3. SingleAttempt'
      BY <2>2 DEF ReserveRow, PeerMismatch, LeaseExpired, RowOK, Rows
    <3>4. RemoteSound'
      BY <2>2 DEF ReserveRow, PeerMismatch, LeaseExpired, RowOK, Rows
    <3>5. OnePeer'
      BY <2>2 DEF ReserveRow, PeerMismatch, LeaseExpired, RowOK, Rows
    <3>6. ResultSound'
      BY <2>2 DEF ReserveRow, PeerMismatch, LeaseExpired, RowOK, Rows
    <3> QED
      BY <3>1, <3>2, <3>3, <3>4, <3>5, <3>6
  <2>3. CASE pc[c] = "allow" /\ row' = AllowResendRow(c)
    <3>1. RowFirst'
      BY <2>3 DEF AllowResendRow, RowOK, Rows
    <3>2. Fenced'
      BY <2>3 DEF AllowResendRow, RowOK, Rows
    <3>3. SingleAttempt'
      BY <2>3 DEF AllowResendRow, RowOK, Rows
    <3>4. RemoteSound'
      BY <2>3 DEF AllowResendRow, RowOK, Rows
    <3>5. OnePeer'
      BY <2>3 DEF AllowResendRow, RowOK, Rows
    <3>6. ResultSound'
      BY <2>3 DEF AllowResendRow, RowOK, Rows
    <3> QED
      BY <3>1, <3>2, <3>3, <3>4, <3>5, <3>6
  <2>4. CASE pc[c] \in {"complete", "store"} /\ row' = CompleteRow(c)
    <3>1. RowFirst'
      BY <2>4 DEF CompleteRow, Completable, Owned, RowOK, Rows
    <3>2. Fenced'
      BY <2>4 DEF CompleteRow, Completable, Owned, RowOK, Rows
    <3>3. SingleAttempt'
      BY <2>4 DEF CompleteRow, Completable, Owned, RowOK, Rows
    <3>4. RemoteSound'
      BY <2>4 DEF CompleteRow, Completable, Owned, RowOK, Rows
    <3>5. OnePeer'
      BY <2>4 DEF CompleteRow, Completable, Owned, RowOK, Rows
    <3>6. ResultSound'
      BY <2>4 DEF CompleteRow, Completable, Owned, RowOK, Rows
    <3> QED
      BY <3>1, <3>2, <3>3, <3>4, <3>5, <3>6
  <2>5. CASE pc[c] \in {"persist", "persist_cancel"} /\ row' = MarkUncertainRow(c)
    <3>1. RowFirst'
      BY <2>5 DEF MarkUncertainRow, Owned, RowOK, Rows
    <3>2. Fenced'
      BY <2>5 DEF MarkUncertainRow, Owned, RowOK, Rows
    <3>3. SingleAttempt'
      BY <2>5 DEF MarkUncertainRow, Owned, RowOK, Rows
    <3>4. RemoteSound'
      BY <2>5 DEF MarkUncertainRow, Owned, RowOK, Rows
    <3>5. OnePeer'
      BY <2>5 DEF MarkUncertainRow, Owned, RowOK, Rows
    <3>6. ResultSound'
      BY <2>5 DEF MarkUncertainRow, Owned, RowOK, Rows
    <3> QED
      BY <3>1, <3>2, <3>3, <3>4, <3>5, <3>6
  <2> QED
    BY <2>1, <2>2, <2>3, <2>4, <2>5
<1>18. ASSUME NEW c \in Callers, Land(c) PROVE IInv'
  BY <1>18 DEF Land
<1>19. ASSUME NEW c \in Callers, Lose(c) PROVE IInv'
  BY <1>19 DEF Lose
<1>20. ASSUME NEW p \in Processes, Crash(p) PROVE IInv'
  BY <1>20 DEF Crash
<1>21. CASE ExpireLease
  BY <1>21 DEF ExpireLease, RowOK, Rows
<1>22. CASE UNCHANGED vars
  BY <1>22 DEF vars
<1> QED
  BY <1>1, <1>2, <1>3, <1>4, <1>5, <1>6, <1>7, <1>8, <1>9, <1>10, <1>11, <1>12, <1>13, <1>14, <1>15, <1>16, <1>17, <1>18, <1>19, <1>20, <1>21, <1>22 DEF Next, Call

\* The inductive invariant holds in every reachable state.
LEMMA Inductive == Spec => []IInv
<1>1. Init => IInv
  BY DeliveryAssumption DEF Init, AbsentRow, IInv, TypeOK, RowOK, Rows, Adapters, Locations,
     Handles, RowFirst, Fenced, SingleAttempt, RemoteSound, OnePeer, ResultSound,
     Attempted, Recovering, Holder, Reserved, Lookups
<1> QED
  BY <1>1, InductiveStep, PTL DEF Spec

----------------------------------------------------------------------------
\* However many calls, processes and crashes: one message per key (gateway._send
\* with and without remote deduplication).
THEOREM AtMostOnce == Spec => []AtMostOneEffect
<1>1. IInv => AtMostOneEffect
  BY DEF IInv, AtMostOneEffect, TypeOK, Adapters, RemoteSound, SingleAttempt, Attempted
<1> QED
  BY <1>1, Inductive, PTL

\* A fence token is held by one call: the repository never hands the current
\* reservation to two senders.
THEOREM ExclusiveHolder == Spec => []OneHolder
<1>1. IInv => OneHolder
  BY DEF IInv, OneHolder, Fenced, Holder
<1> QED
  BY <1>1, Inductive, PTL

\* Every stored and every returned result names a message Telegram accepted for
\* the caller's peer, and all callers get the same one.
THEOREM ResultsSound == Spec => []ResultsAreReal
<1>1. IInv => ResultsAreReal
  BY DEF IInv, ResultsAreReal, ResultSound, TypeOK, RowOK
<1> QED
  BY <1>1, Inductive, PTL

\* The repository's complete, mark_uncertain, renew and reserve leave a completed
\* row alone.
THEOREM CompletionFinal == Spec => CompletedIsFinal
<1>1. TypeOK /\ [Next]_vars => [row.state = "completed" => row' = row]_vars
  <2> SUFFICES ASSUME TypeOK, Next, row.state = "completed" PROVE row' = row
    OBVIOUS
  <2>1. row.lease # "live"
    BY DEF TypeOK, RowOK, Rows
  <2>2. ASSUME NEW c \in Callers
        PROVE  /\ ReserveRow(c) = row /\ AllowResendRow(c) = row
               /\ CompleteRow(c) = row /\ MarkUncertainRow(c) = row /\ ~Owned(c)
    BY DEF ReserveRow, AllowResendRow, CompleteRow, MarkUncertainRow, Completable, Owned,
           LeaseExpired
  <2>3. ASSUME NEW c \in Callers, Call(c) PROVE row' = row
    BY <2>2, <2>3 DEF Call, Start, Reserve, Wake, LookupHit, LookupMiss, LookupError,
       AllowResend, BeginSend, SendReturns, SendFails, Renew, Complete, StoreReconciled,
       PersistUncertain, Cancel, PersistCancelled, DatabaseError
  <2> QED
    BY <2>1, <2>3 DEF Next, Land, Lose, Crash, ExpireLease
<1> QED
  BY <1>1, TypeCorrect, PTL DEF Spec, CompletedIsFinal

\* While its lease is live, a reservation is changed by the call that holds it and
\* by nobody else: stale senders, recoverers and waiters are fenced off.
THEOREM ExclusiveReservation == Spec => LiveReservationIsExclusive
<1> DEFINE Excl == (row.state = "pending" /\ row.lease = "live" /\ row' # row)
                     => \/ row' = [row EXCEPT !.lease = "expired"]
                        \/ \E c \in Callers : Holder(c) /\ pc'[c] # pc[c]
<1>1. IInv /\ [Next]_vars => [Excl]_vars
  <2> SUFFICES ASSUME IInv, Next, row.state = "pending", row.lease = "live", row' # row
               PROVE  \/ row' = [row EXCEPT !.lease = "expired"]
                      \/ \E c \in Callers : Holder(c) /\ pc'[c] # pc[c]
    OBVIOUS
  <2>1. ASSUME NEW c \in Callers
        PROVE  /\ ReserveRow(c) = row /\ AllowResendRow(c) = row
               /\ ~Owned(c) => CompleteRow(c) = row /\ MarkUncertainRow(c) = row
    BY DEF ReserveRow, AllowResendRow, CompleteRow, MarkUncertainRow, Completable, LeaseExpired
  <2>2. ASSUME NEW c \in Callers, Call(c) PROVE Holder(c) /\ pc'[c] # pc[c]
    <3>1. \/ Complete(c) \/ StoreReconciled(c) \/ PersistUncertain(c) \/ PersistCancelled(c)
          \/ DatabaseError(c)
      <4>1. ~Renew(c)
        BY DEF Renew, Owned, IInv, TypeOK, RowOK, Rows
      <4> QED
        BY <2>1, <2>2, <4>1 DEF Call, Start, Reserve, Wake, LookupHit, LookupMiss,
           LookupError, AllowResend, BeginSend, SendReturns, SendFails, Cancel
    <3>2. Owned(c) /\ pc[c] \in Reserved \cup {"store"}
      BY <2>1, <3>1 DEF Complete, StoreReconciled, PersistUncertain, PersistCancelled,
         DatabaseError, Reserved
    <3>3. pc[c] # "store"
      BY <3>2 DEF Owned, IInv, Fenced, Recovering, TypeOK, RowOK, Rows
    <3>4. pc'[c] # pc[c]
      BY <3>1 DEF Complete, StoreReconciled, PersistUncertain, PersistCancelled,
         DatabaseError, Goto, Finish, IInv, TypeOK
    <3> QED
      BY <3>2, <3>3, <3>4 DEF Owned, Holder
  <2> QED
    BY <2>2 DEF Next, Land, Lose, Crash, ExpireLease
<1> QED
  BY <1>1, Inductive, PTL DEF Spec, LiveReservationIsExclusive

\* The row and Telegram together implement IdempotentDelivery.
THEOREM Refinement == Spec => KeepsPromise
<1>1. Init => Promise!Init
  BY DEF Init, Promise!Init, KeyStatus, KeyAnswer, AbsentRow
<1>2. IInv /\ [Next]_vars => [Promise!Next]_(Promise!vars)
  <2> SUFFICES ASSUME IInv, [Next]_vars PROVE [Promise!Next]_(Promise!vars)
    OBVIOUS
  <2> USE DEF Promise!Next, Promise!vars
  <2>t. RowOK(row) /\ TypeOK
    BY DEF IInv, TypeOK
  <2>1. CASE row' = row /\ remote' = remote
    BY <2>1 DEF KeyStatus, KeyAnswer
  <2>2. ASSUME NEW c \in Callers, Land(c) PROVE [Promise!Next]_(Promise!vars)
    <3>1. row' = row /\ row.state # "absent" /\ c \notin remote
      BY <2>2 DEF Land, IInv, RowFirst, Attempted, RemoteSound
    <3>2. adapter = "telethon" => remote = {}
      BY <2>2, <2>t, <3>1 DEF Land, IInv, RemoteSound, SingleAttempt, Attempted, TypeOK
    <3>3. remote' = remote \/ (remote = {} /\ remote' = {c})
      BY <2>2, <2>t, <3>2 DEF Land, TypeOK, Adapters
    <3>4. KeyStatus' = KeyStatus /\ KeyAnswer' = KeyAnswer /\ KeyStatus # "unused"
      BY <3>1 DEF KeyStatus, KeyAnswer
    <3> QED
      BY <3>3, <3>4 DEF Promise!Send
  <2>3. ASSUME NEW c \in Callers, remote' = remote,
               row' \in {ReserveRow(c), AllowResendRow(c), MarkUncertainRow(c)}
        PROVE  [Promise!Next]_(Promise!vars)
    <3>1. \/ KeyStatus' = KeyStatus /\ KeyAnswer' = KeyAnswer
          \/ /\ KeyStatus = "unused" /\ KeyStatus' = "open"
             /\ KeyAnswer' = KeyAnswer
      <4>1. CASE row' = ReserveRow(c)
        BY <4>1, <2>t DEF KeyStatus, KeyAnswer, ReserveRow, LeaseExpired, RowOK, Rows
      <4>2. CASE row' = AllowResendRow(c)
        BY <4>2, <2>t DEF KeyStatus, KeyAnswer, AllowResendRow, RowOK, Rows
      <4>3. CASE row' = MarkUncertainRow(c)
        BY <4>3, <2>t DEF KeyStatus, KeyAnswer, MarkUncertainRow, Owned, RowOK, Rows
      <4> QED
        BY <2>3, <4>1, <4>2, <4>3
    <3> QED
      BY <2>3, <3>1 DEF Promise!Open
  <2>4. ASSUME NEW c \in Callers, remote' = remote, row' = CompleteRow(c),
               found[c] \in Results, found[c].msg \in remote
        PROVE  [Promise!Next]_(Promise!vars)
    <3>1. \/ KeyStatus' = KeyStatus /\ KeyAnswer' = KeyAnswer
          \/ /\ KeyStatus = "open" /\ KeyStatus' = "recorded"
             /\ KeyAnswer' = {found[c].msg}
      BY <2>4, <2>t DEF KeyStatus, KeyAnswer, CompleteRow, Completable, Owned, RowOK, Rows
    <3> QED
      BY <2>4, <3>1 DEF Promise!Record
  <2>5. ASSUME NEW c \in Callers, Call(c) PROVE [Promise!Next]_(Promise!vars)
    <3>1. remote' = remote
      BY <2>5 DEF Call, Start, Reserve, Wake, LookupHit, LookupMiss, LookupError,
         AllowResend, BeginSend, SendReturns, SendFails, Renew, Complete, StoreReconciled,
         PersistUncertain, Cancel, PersistCancelled, DatabaseError, NoNetwork
    <3>2. CASE Complete(c) \/ StoreReconciled(c)
      BY <2>4, <3>1, <3>2 DEF Complete, StoreReconciled, IInv, ResultSound
    <3>3. CASE Renew(c)
      BY <2>t, <3>1, <3>3 DEF Renew, KeyStatus, KeyAnswer, RowOK, Rows
    <3>4. CASE DatabaseError(c)
      BY <2>1, <2>3, <2>4, <3>1, <3>4 DEF DatabaseError, IInv, ResultSound
    <3>5. CASE Reserve(c) \/ AllowResend(c) \/ PersistUncertain(c) \/ PersistCancelled(c)
      BY <2>3, <3>1, <3>5 DEF Reserve, AllowResend, PersistUncertain, PersistCancelled
    <3>6. CASE \/ Start(c) \/ Wake(c) \/ LookupHit(c) \/ LookupMiss(c) \/ LookupError(c)
               \/ BeginSend(c) \/ SendReturns(c) \/ SendFails(c) \/ Cancel(c)
      BY <2>1, <3>1, <3>6 DEF Start, Wake, LookupHit, LookupMiss, LookupError, BeginSend,
         SendReturns, SendFails, Cancel
    <3> QED
      BY <2>5, <3>2, <3>3, <3>4, <3>5, <3>6 DEF Call
  <2>6. CASE ExpireLease
    BY <2>6, <2>t DEF ExpireLease, NoNetwork, KeyStatus, KeyAnswer, RowOK, Rows
  <2>7. CASE UNCHANGED vars
    BY <2>1, <2>7 DEF vars
  <2> QED
    BY <2>1, <2>2, <2>5, <2>6, <2>7 DEF Next, Lose, Crash, NoNetwork
<1> QED
  BY <1>1, <1>2, Inductive, PTL DEF Spec, KeepsPromise, Promise!Spec
=============================================================================
