----------------------- MODULE ProxyAssignment_proofs -----------------------
(***************************************************************************)
(* Proofs about ProxyAssignment, for any accounts, tenants, proxies,       *)
(* workers and bounds.                                                     *)
(***************************************************************************)
EXTENDS ProxyAssignment, FiniteSetTheorems, TLAPS

USE ProxyAssumption

\* What a transaction carries is what its next statement needs.
FieldsOK(t) ==
    /\ t.op = "put" => t.proxy \in Proxies /\ t.row \in PutRows
    /\ t.op = "reserve" => t.account \in Accounts
TInv == TypeOK /\ \A w \in Workers : FieldsOK(tx[w])

LEMMA NothingTyped ==
    /\ NoTx \in Transactions /\ FieldsOK(NoTx) /\ NoTx.op = "none" /\ NoTx.held = {}
    /\ NoAssignment \in Assignments /\ NoLease \in Leases /\ NoProxy \in ProxyRows
BY DEF NoTx, Transactions, FieldsOK, NoAssignment, Assignments, NoLease, Leases, NoProxy, ProxyRows

LEMMA RowTypes ==
    ASSUME TInv
    PROVE  /\ \A w \in Workers : tx[w] \in Transactions /\ FieldsOK(tx[w])
           /\ \A p \in Proxies : proxies[p] \in ProxyRows
           /\ \A a \in Accounts : assignments[a] \in Assignments /\ overrides[a] \in Overrides
BY DEF TInv, TypeOK

\* A transaction goes on: only its own record changes.
LEMMA TxTyped ==
    ASSUME TInv, NEW w \in Workers, NEW t \in Transactions, FieldsOK(t), TxGoto(w, t)
    PROVE  tx' \in [Workers -> Transactions] /\ (\A v \in Workers : FieldsOK(tx[v]))'
           /\ \A v \in Workers : tx'[v] = IF v = w THEN t ELSE tx[v]
BY DEF TInv, TypeOK, TxGoto

LEMMA TxOnlyTyped ==
    ASSUME TInv, NEW w \in Workers, NEW t \in Transactions, FieldsOK(t), TxGoto(w, t),
           UNCHANGED <<proxies, overrides, assignments, lease, ids>>
    PROVE  TInv'
BY TxTyped DEF TInv, TypeOK

\* The records that a transaction goes on with are typed.
LEMMA PutBeginTyped ==
    ASSUME TInv, NEW w \in Workers, NEW p \in Proxies, NEW row \in PutRows, PutBegin(w, p, row)
    PROVE  \E t \in Transactions :
              /\ FieldsOK(t) /\ TxGoto(w, t) /\ t.op = "put" /\ t.proxy = p /\ t.row = row
              /\ t.held = IF proxies[p].org # None THEN {p} ELSE {}
              /\ t.room = IF proxies[p].org # None THEN "unknown" ELSE "yes"
              /\ p \notin t.todo /\ \A q \in t.todo : proxies[q].org = row.org
<1> DEFINE todo == IF row.default THEN {q \in Proxies \ {p} : proxies[q].org = row.org} ELSE {}
           held == IF proxies[p].org # None THEN {p} ELSE {}
           room == IF proxies[p].org # None THEN "unknown" ELSE "yes"
           t == [NoTx EXCEPT !.op = "put", !.proxy = p, !.row = row,
                             !.held = held, !.room = room, !.todo = todo]
<1>1. TxGoto(w, t)
  BY DEF PutBegin
<1>5. p \notin todo /\ \A q \in todo : proxies[q].org = row.org
  OBVIOUS
<1>2. todo \in SUBSET Proxies /\ held \in SUBSET Proxies
      /\ room \in {"unknown", "yes", "no"} /\ row \in ProxyRows
  BY DEF ProxyRows
<1> HIDE DEF todo, held, room
<1>3. t \in Transactions
  BY <1>2, NothingTyped DEF Transactions
<1>4. t.op = "put" /\ t.proxy = p /\ t.row = row /\ t.held = held /\ t.room = room /\ t.todo = todo
  BY DEF NoTx
<1> HIDE DEF t
<1> QED BY <1>1, <1>2, <1>3, <1>4, <1>5 DEF FieldsOK, held, room

LEMMA PutClearTyped ==
    ASSUME TInv, NEW w \in Workers, PutClear(w)
    PROVE  \E q \in Proxies, t \in Transactions :
              /\ FieldsOK(t) /\ TxGoto(w, t) /\ t.op = "put" /\ tx[w].op = "put" /\ ~Locked(q)
              /\ t.proxy = tx[w].proxy /\ t.row = tx[w].row /\ t.room = tx[w].room
              /\ t.held = tx[w].held \cup {q} /\ t.todo \subseteq tx[w].todo /\ q \in tx[w].todo
<1>1. tx[w] \in Transactions /\ FieldsOK(tx[w])
  BY RowTypes
<1>2. PICK q \in tx[w].todo : ~Locked(q) /\ TxGoto(w, [tx[w] EXCEPT !.todo = @ \ {q}, !.held = @ \cup {q}])
  BY DEF PutClear
<1> DEFINE t == [tx[w] EXCEPT !.todo = @ \ {q}, !.held = @ \cup {q}]
<1>3. /\ q \in Proxies /\ t \in Transactions /\ t.op = tx[w].op /\ t.proxy = tx[w].proxy
      /\ t.row = tx[w].row /\ t.room = tx[w].room /\ t.account = tx[w].account
      /\ t.held = tx[w].held \cup {q} /\ t.todo \subseteq tx[w].todo
  BY <1>1 DEF Transactions
<1> HIDE DEF t
<1> QED BY <1>1, <1>2, <1>3 DEF t, PutClear, FieldsOK

LEMMA PutCountTyped ==
    ASSUME TInv, NEW w \in Workers, PutCount(w)
    PROVE  \E t \in Transactions :
              /\ FieldsOK(t) /\ TxGoto(w, t) /\ t.op = "put" /\ tx[w].op = "put"
              /\ t.proxy = tx[w].proxy /\ t.row = tx[w].row /\ t.held = tx[w].held /\ t.todo = tx[w].todo
              /\ t.room = "yes" => CapacityFits(tx[w])
<1>1. tx[w] \in Transactions /\ FieldsOK(tx[w])
  BY RowTypes
<1> DEFINE room == IF CapacityFits(tx[w]) THEN "yes" ELSE "no"
           t == [tx[w] EXCEPT !.room = room]
<1>2. room \in {"yes", "no"} /\ (room = "yes" => CapacityFits(tx[w]))
  OBVIOUS
<1>3. TxGoto(w, t) /\ tx[w].op = "put"
  BY DEF PutCount
<1> HIDE DEF room
<1>4. /\ t \in Transactions /\ t.op = tx[w].op /\ t.proxy = tx[w].proxy
      /\ t.row = tx[w].row /\ t.room = room /\ t.account = tx[w].account
      /\ t.held = tx[w].held /\ t.todo = tx[w].todo
  BY <1>1, <1>2 DEF Transactions
<1> HIDE DEF t
<1> QED BY <1>1, <1>2, <1>3, <1>4 DEF FieldsOK

LEMMA ReserveBeginTyped ==
    ASSUME TInv, NEW w \in Workers, NEW a \in Accounts, ReserveBegin(w, a)
    PROVE  \E t \in Transactions :
              /\ FieldsOK(t) /\ TxGoto(w, t) /\ t.op = "reserve" /\ t.proxy = None /\ t.held = {}
              /\ t.todo = Candidates(a)
<1> DEFINE todo == Candidates(a)
           t == [NoTx EXCEPT !.op = "reserve", !.account = a, !.todo = todo]
<1>1. todo \in SUBSET Proxies
  <2>1. overrides[a].proxy \in Proxies \cup {None}
    BY RowTypes DEF Overrides
  <2> QED BY <2>1 DEF Candidates
<1>0. TxGoto(w, t)
  BY DEF ReserveBegin
<1> HIDE DEF todo
<1>2. t \in Transactions
  BY <1>1, NothingTyped DEF Transactions
<1>3. t.op = "reserve" /\ t.account = a /\ t.proxy = None /\ t.held = {} /\ t.todo = todo
  BY DEF NoTx
<1> HIDE DEF t
<1> QED BY <1>0, <1>2, <1>3 DEF FieldsOK, todo

LEMMA ReserveLockTyped ==
    ASSUME TInv, NEW w \in Workers, ReserveLock(w)
    PROVE  \E p \in Proxies, t \in Transactions :
              /\ FieldsOK(t) /\ TxGoto(w, t) /\ t.op = "reserve" /\ tx[w].op = "reserve" /\ ~Locked(p)
              /\ t.account = tx[w].account /\ t.held = tx[w].held \cup {p}
              /\ t.todo \subseteq tx[w].todo /\ p \in tx[w].todo
              /\ t.proxy # None => t.proxy = p /\ p \in Candidates(t.account)
              /\ t.proxy # None /\ t.room = "yes" => ~Full(p, t.account)
<1>1. tx[w] \in Transactions /\ FieldsOK(tx[w]) /\ tx[w].op = "reserve"
  BY RowTypes DEF ReserveLock
<1>2. PICK p \in tx[w].todo : ~Locked(p) /\ TxGoto(w, [Looked(tx[w], p) EXCEPT !.held = @ \cup {p}])
  BY DEF ReserveLock
<1> DEFINE a == tx[w].account
           chosen == IF p \in Candidates(a) THEN p ELSE None
           room == IF p \in Candidates(a) /\ Full(p, a) THEN "no" ELSE "yes"
           t == [Looked(tx[w], p) EXCEPT !.held = @ \cup {p}]
<1>3. /\ chosen \in Proxies \cup {None} /\ room \in {"unknown", "yes", "no"} /\ p \in Proxies
      /\ chosen # None => chosen = p /\ p \in Candidates(a) /\ (room = "yes" => ~Full(p, a))
  BY <1>1 DEF Transactions
<1>4. Looked(tx[w], p) = [tx[w] EXCEPT !.todo = @ \ {p}, !.proxy = chosen, !.room = room]
  BY DEF Looked
<1> HIDE DEF chosen, room
<1>5. /\ t \in Transactions /\ t.op = "reserve" /\ t.account = a /\ t.proxy = chosen
      /\ t.room = room /\ t.held = tx[w].held \cup {p} /\ t.todo \subseteq tx[w].todo
  BY <1>1, <1>3, <1>4 DEF Transactions
<1>6. TxGoto(w, t)
  BY <1>2
<1> HIDE DEF t
<1> QED BY <1>1, <1>2, <1>3, <1>5, <1>6 DEF FieldsOK

\* What put_proxy commits.
LEMMA PutCommitTyped ==
    ASSUME TInv, NEW w \in Workers, PutCommit(w), proxies' # proxies
    PROVE  LET t == tx[w] IN
           /\ t.op = "put" /\ t.proxy \in Proxies /\ t.row \in PutRows /\ t.row \in ProxyRows
           /\ t.room = "yes" /\ DefaultFits(t)
           /\ t.proxy \in t.held \/ proxies[t.proxy].org = None
           /\ proxies'[t.proxy] = t.row
           /\ \A q \in Proxies \ {t.proxy} :
                 /\ proxies'[q].org = proxies[q].org /\ proxies'[q].capacity = proxies[q].capacity
                 /\ proxies'[q].default <=> proxies[q].default /\ q \notin t.held
                 /\ proxies'[q] \in ProxyRows
           /\ proxies' \in [Proxies -> ProxyRows]
<1> DEFINE t == tx[w]
<1>1. /\ t.op = "put" /\ t.room = "yes" /\ DefaultFits(t)
      /\ t.proxy \in t.held \/ proxies[t.proxy].org = None
      /\ proxies' = [q \in Proxies |-> IF q = t.proxy THEN t.row
                                       ELSE [proxies[q] EXCEPT !.default = @ /\ q \notin t.held]]
  BY DEF PutCommit
<1>2. t.proxy \in Proxies /\ t.row \in PutRows /\ t.row \in ProxyRows
  BY <1>1, RowTypes DEF FieldsOK, ProxyRows
<1> HIDE DEF t
<1>3. ASSUME NEW q \in Proxies \ {t.proxy}
      PROVE  /\ proxies'[q].org = proxies[q].org /\ proxies'[q].capacity = proxies[q].capacity
             /\ proxies'[q].default <=> proxies[q].default /\ q \notin t.held
             /\ proxies'[q] \in ProxyRows
  <2>1. proxies'[q] = [proxies[q] EXCEPT !.default = proxies[q].default /\ q \notin t.held]
    BY <1>1
  <2>2. proxies[q] \in ProxyRows
    BY RowTypes
  <2> QED BY <2>1, <2>2 DEF ProxyRows
<1>4. proxies'[t.proxy] = t.row
  BY <1>1, <1>2
<1>5. proxies' \in [Proxies -> ProxyRows]
  BY <1>1, <1>2, <1>3, <1>4
<1> QED BY <1>1, <1>2, <1>3, <1>4, <1>5 DEF t

\* What a reservation commits: nothing, or the assignment of the proxy it has chosen.
LEMMA ReserveCommitTyped ==
    ASSUME TInv, NEW w \in Workers, ReserveCommit(w)
    PROVE  LET a == tx[w].account
               p == tx[w].proxy
           IN
           /\ tx[w].op = "reserve" /\ a \in Accounts /\ p \in Proxies
           /\ \/ UNCHANGED assignments
              \/ /\ tx[w].room = "yes"
                 /\ assignments'[a].proxy = p
                 /\ \A b \in Accounts \ {a} : assignments'[b] = assignments[b]
           /\ TInv'
<1> DEFINE a == tx[w].account
           p == tx[w].proxy
           old == assignments[a]
           kept == old.proxy = p /\ old.revision = overrides[a].revision
           made == [proxy |-> p, id |-> ids + 1, revision |-> overrides[a].revision]
           given == IF kept \/ overrides[a].proxy # None THEN NoLease
                    ELSE [account |-> a, proxy |-> p, id |-> made.id, revision |-> made.revision]
<1>1. tx[w].op = "reserve" /\ a \in Accounts /\ p \in Proxies
  BY RowTypes DEF ReserveCommit, FieldsOK, Transactions
<1>2. made \in Assignments /\ made.proxy = p /\ made.id = ids + 1 /\ made.proxy # None /\ made.id # 0
      /\ ids \in Nat /\ given \in Leases
  BY <1>1, NothingTyped, RowTypes DEF Assignments, Overrides, Leases, TInv, TypeOK
<1>3. tx' \in [Workers -> Transactions] /\ (\A v \in Workers : FieldsOK(tx[v]))'
  BY NothingTyped, TxTyped DEF ReserveCommit, TxEnds
<1>4. /\ UNCHANGED <<proxies, overrides>>
      /\ \/ UNCHANGED <<assignments, lease, ids>>
         \/ /\ kept /\ ids' = ids /\ assignments' = [assignments EXCEPT ![a] = old]
            /\ lease' \in {lease, [lease EXCEPT ![w] = given]}
         \/ /\ ~kept /\ tx[w].room = "yes" /\ ids' = ids + 1
            /\ assignments' = [assignments EXCEPT ![a] = made]
            /\ lease' \in {lease, [lease EXCEPT ![w] = given]}
  BY DEF ReserveCommit
<1> HIDE DEF given, made, kept
<1>5. CASE UNCHANGED <<assignments, lease, ids>>
  BY <1>1, <1>3, <1>4, <1>5 DEF TInv, TypeOK
<1>6. CASE /\ kept /\ ids' = ids /\ assignments' = [assignments EXCEPT ![a] = old]
           /\ lease' \in {lease, [lease EXCEPT ![w] = given]}
  <2>1. assignments' = assignments
    BY <1>1, <1>6 DEF TInv, TypeOK
  <2> QED BY <1>1, <1>2, <1>3, <1>4, <1>6, <2>1 DEF TInv, TypeOK
<1>7. CASE /\ ~kept /\ tx[w].room = "yes" /\ ids' = ids + 1
           /\ assignments' = [assignments EXCEPT ![a] = made]
           /\ lease' \in {lease, [lease EXCEPT ![w] = given]}
  <2>1. /\ assignments' \in [Accounts -> Assignments] /\ assignments'[a] = made
        /\ \A b \in Accounts \ {a} : assignments'[b] = assignments[b]
    BY <1>1, <1>2, <1>7 DEF TInv, TypeOK
  <2>2. TInv'
    BY <1>1, <1>2, <1>3, <1>4, <1>7, <2>1 DEF TInv, TypeOK
  <2> QED BY <1>1, <1>2, <1>7, <2>1, <2>2
<1> QED BY <1>4, <1>5, <1>6, <1>7

\* A release deletes the row or leaves the table alone.
LEMMA ReleaseTyped ==
    ASSUME TInv, NEW a, assignments' \in {assignments, [assignments EXCEPT ![a] = NoAssignment]}
    PROVE  /\ assignments' \in [Accounts -> Assignments]
           /\ \A b \in Accounts : assignments'[b].proxy = None <=> assignments'[b].id = 0
           /\ \A b \in Accounts : assignments'[b] = assignments[b] \/ assignments'[b].proxy = None
BY NothingTyped DEF TInv, TypeOK, NoAssignment

LEMMA TypeStep == TInv /\ [Next]_vars => TInv'
<1> SUFFICES ASSUME TInv, [Next]_vars PROVE TInv'
  OBVIOUS
<1>1. ASSUME NEW w \in Workers, TxStep(w) PROVE TInv'
  <2>1. CASE PutClear(w)
    BY <2>1, PutClearTyped, TxOnlyTyped DEF PutClear
  <2>2. CASE PutCount(w)
    BY <2>2, PutCountTyped, TxOnlyTyped DEF PutCount
  <2>3. CASE PutCommit(w)
    <3>1. proxies' \in [Proxies -> ProxyRows]
      BY <2>3, PutCommitTyped DEF TInv, TypeOK
    <3>2. tx' \in [Workers -> Transactions] /\ (\A v \in Workers : FieldsOK(tx[v]))'
      BY <2>3, NothingTyped, TxTyped DEF PutCommit, TxEnds
    <3> QED BY <2>3, <3>1, <3>2 DEF PutCommit, TInv, TypeOK
  <2>4. CASE ReserveLock(w)
    BY <2>4, ReserveLockTyped, TxOnlyTyped DEF ReserveLock
  <2>5. CASE ReserveNone(w)
    BY <2>5, NothingTyped, TxOnlyTyped DEF ReserveNone, TxEnds
  <2>6. CASE ReserveCommit(w)
    BY <2>6, ReserveCommitTyped
  <2> QED BY <1>1, <2>1, <2>2, <2>3, <2>4, <2>5, <2>6 DEF TxStep
<1>2. ASSUME NEW w \in Workers, ReleaseFailed(w) PROVE TInv'
  <2>1. assignments' \in {assignments, [assignments EXCEPT ![lease[w].account] = NoAssignment]}
    BY <1>2 DEF ReleaseFailed
  <2>2. lease' \in [Workers -> Leases]
    BY <1>2, NothingTyped DEF ReleaseFailed, TInv, TypeOK
  <2>3. /\ assignments' \in [Accounts -> Assignments]
        /\ \A b \in Accounts : assignments'[b].proxy = None <=> assignments'[b].id = 0
    BY <2>1, ReleaseTyped
  <2> QED BY <1>2, <2>2, <2>3 DEF ReleaseFailed, TInv, TypeOK, FieldsOK
<1>3. ASSUME NEW w \in Workers, Keep(w) PROVE TInv'
  BY <1>3, NothingTyped DEF Keep, TInv, TypeOK, FieldsOK
<1>4. ASSUME NEW w \in Workers, Abort(w) PROVE TInv'
  BY <1>4, NothingTyped, TxOnlyTyped DEF Abort, TxEnds
<1>5. ASSUME NEW w \in Workers, NEW p \in Proxies, NEW row \in PutRows, PutBegin(w, p, row) PROVE TInv'
  <2>1. PICK t \in Transactions : FieldsOK(t) /\ TxGoto(w, t)
    BY <1>5, PutBeginTyped
  <2> QED BY <1>5, <2>1, TxOnlyTyped DEF PutBegin
<1>6. ASSUME NEW w \in Workers, NEW a \in Accounts, ReserveBegin(w, a) PROVE TInv'
  BY <1>6, ReserveBeginTyped, TxOnlyTyped DEF ReserveBegin
<1>7. ASSUME NEW a \in Overriding, NEW p \in Proxies \cup {None}, SetAccountOverride(a, p) PROVE TInv'
  <2>1. overrides' \in [Accounts -> Overrides]
    BY <1>7, RowTypes DEF SetAccountOverride, Overrides, TInv, TypeOK
  <2> QED BY <1>7, <2>1 DEF SetAccountOverride, TInv, TypeOK, FieldsOK
<1>8. ASSUME NEW a \in Accounts, ReleaseTerminal(a) PROVE TInv'
  <2>1. /\ assignments' \in [Accounts -> Assignments]
        /\ \A b \in Accounts : assignments'[b].proxy = None <=> assignments'[b].id = 0
    <3>1. assignments' \in {assignments, [assignments EXCEPT ![a] = NoAssignment]}
      BY <1>8 DEF ReleaseTerminal
    <3> QED BY <3>1, ReleaseTyped
  <2> QED BY <1>8, <2>1 DEF ReleaseTerminal, TInv, TypeOK, FieldsOK
<1>9. CASE UNCHANGED vars
  BY <1>9 DEF vars, TInv, TypeOK, FieldsOK
<1> QED BY <1>1, <1>2, <1>3, <1>4, <1>5, <1>6, <1>7, <1>8, <1>9 DEF Next

LEMMA TypeInit == Init => TInv
BY NothingTyped DEF Init, TInv, TypeOK, Overrides, NoAssignment

\* The proxy, override and assignment tables and the open transactions keep their types; an
\* assignment is a whole row or none.
THEOREM TypeCorrect == Spec => []TypeOK
<1>1. TInv => TypeOK
  BY DEF TInv
<1> QED BY <1>1, TypeInit, TypeStep, PTL DEF Spec

----------------------------------------------------------------------------
(* A proxy row belongs to one transaction at a time, and what a            *)
(* transaction has found out about a row that it holds stays true.         *)

LocksExclusive ==
    \A v, w \in Workers : \A p \in Proxies : p \in tx[v].held /\ p \in tx[w].held => v = w

\* put_proxy: the row it holds is of its tenant, and has room if it was counted.
PutOK(t) ==
    t.op = "put" =>
        /\ t.proxy \notin t.todo
        /\ t.proxy \in t.held => proxies[t.proxy].org = t.row.org
        /\ t.proxy \in t.held /\ t.room = "yes" => Cardinality(Assigned(t.proxy)) <= t.row.capacity

\* reserve: the row it has chosen is held, is visible to the account and has room.
ReserveOK(t) ==
    t.op = "reserve" /\ t.proxy # None =>
        /\ t.proxy \in t.held /\ Visible(t.proxy, t.account)
        /\ t.room = "yes" => Cardinality(Assigned(t.proxy) \ {t.account}) < proxies[t.proxy].capacity

TxInv == \A w \in Workers : PutOK(tx[w]) /\ ReserveOK(tx[w])

\* What is locked, or waited for, is a row.
RowsExist == \A w \in Workers : \A p \in tx[w].held \cup tx[w].todo : proxies[p].org # None

IInv == RowsExist /\ LocksExclusive /\ TxInv /\ TenantIsolation /\ CapacityHolds /\ OneDefault

LEMMA SmallerCount ==
    ASSUME NEW T \in SUBSET Accounts, NEW S \in SUBSET T
    PROVE  /\ Cardinality(S) \in Nat /\ Cardinality(T) \in Nat /\ Cardinality(S) <= Cardinality(T)
           /\ IsFiniteSet(S)
<1>1. IsFiniteSet(T)
  BY FS_Subset
<1> QED BY <1>1, FS_Subset, FS_CardinalityType

LEMMA AssignedAccounts == \A p : Assigned(p) \in SUBSET Accounts
BY DEF Assigned

\* A transaction that holds no more than it did, or what nobody holds, and knows what is
\* true of its rows keeps the invariant.
LEMMA TxOnlyStep ==
    ASSUME TInv, IInv, NEW w \in Workers, NEW t \in Transactions, FieldsOK(t), TxGoto(w, t),
           \A p \in t.held : p \in tx[w].held \/ ~Locked(p), PutOK(t), ReserveOK(t),
           \A p \in t.held \cup t.todo : proxies[p].org # None,
           UNCHANGED <<proxies, overrides, assignments, lease, ids>>
    PROVE  IInv'
<1>1. \A v \in Workers : tx'[v] = IF v = w THEN t ELSE tx[v]
  BY TxTyped
<1>2. RowsExist' /\ LocksExclusive'
  BY <1>1 DEF IInv, RowsExist, LocksExclusive, Locked
<1>3. TxInv'
  <2>1. \A p : Assigned(p)' = Assigned(p)
    BY DEF Assigned
  <2>2. \A p, a : Visible(p, a)' <=> Visible(p, a)
    BY DEF Visible
  <2> SUFFICES ASSUME NEW v \in Workers PROVE PutOK(tx[v])' /\ ReserveOK(tx[v])'
    BY DEF TxInv
  <2>3. CASE v = w
    BY <1>1, <2>1, <2>2, <2>3 DEF PutOK, ReserveOK
  <2>4. CASE v # w
    <3>1. tx'[v] = tx[v] /\ PutOK(tx[v]) /\ ReserveOK(tx[v])
      BY <1>1, <2>4 DEF IInv, TxInv
    <3> QED BY <2>1, <2>2, <3>1 DEF PutOK, ReserveOK
  <2> QED BY <2>3, <2>4
<1>4. TenantIsolation' /\ CapacityHolds' /\ OneDefault'
  BY DEF IInv, TenantIsolation, Visible, CapacityHolds, Assigned, OneDefault
<1> QED BY <1>2, <1>3, <1>4 DEF IInv

\* What is known of a row that is held stays true if tenant and capacity of the row stay
\* and no account is added to it.
SameRow(p) ==
    /\ proxies'[p].org = proxies[p].org /\ proxies'[p].capacity = proxies[p].capacity
    /\ Assigned(p)' \subseteq Assigned(p)

LEMMA HoldersKept ==
    ASSUME TInv, IInv, \A p \in Proxies : proxies[p].org # None => proxies'[p].org # None,
           \A v \in Workers : \/ tx'[v] = NoTx
                              \/ tx'[v] = tx[v] /\ \A p \in tx[v].held : SameRow(p)
    PROVE  RowsExist' /\ LocksExclusive' /\ TxInv'
<1>0. NoTx.held = {} /\ NoTx.todo = {}
  BY DEF NoTx
<1>1. RowsExist' /\ LocksExclusive'
  <2>1. \A v \in Workers : \A p \in tx[v].held \cup tx[v].todo : p \in Proxies /\ proxies[p].org # None
    BY RowTypes DEF IInv, RowsExist, Transactions
  <2>2. RowsExist'
    BY <1>0, <2>1 DEF RowsExist
  <2>3. LocksExclusive'
    BY <1>0 DEF IInv, LocksExclusive
  <2> QED BY <2>2, <2>3
<1>2. ASSUME NEW v \in Workers PROVE PutOK(tx[v])' /\ ReserveOK(tx[v])'
  <2>1. CASE tx'[v] = NoTx
    BY <2>1, NothingTyped DEF PutOK, ReserveOK
  <2>2. CASE tx'[v] = tx[v] /\ \A p \in tx[v].held : SameRow(p)
    <3> DEFINE t == tx[v]
               q == t.proxy
    <3>1. PutOK(t) /\ ReserveOK(t) /\ t \in Transactions /\ FieldsOK(t)
      BY RowTypes DEF IInv, TxInv
    <3>2. ASSUME q \in t.held
          PROVE  /\ SameRow(q)
                 /\ Cardinality(Assigned(q)') \in Nat /\ Cardinality(Assigned(q)) \in Nat
                 /\ Cardinality(Assigned(q)') <= Cardinality(Assigned(q))
                 /\ \A a : /\ Cardinality(Assigned(q)' \ {a}) \in Nat /\ Cardinality(Assigned(q) \ {a}) \in Nat
                           /\ Cardinality(Assigned(q)' \ {a}) <= Cardinality(Assigned(q) \ {a})
      <4>1. SameRow(q) /\ Assigned(q)' \subseteq Assigned(q) /\ Assigned(q) \in SUBSET Accounts
        BY <2>2, <3>2, AssignedAccounts DEF SameRow
      <4>2. \A a : /\ Assigned(q) \ {a} \in SUBSET Accounts
                   /\ Assigned(q)' \ {a} \in SUBSET (Assigned(q) \ {a})
        BY <4>1
      <4>3. Assigned(q)' \in SUBSET Assigned(q)
        BY <4>1
      <4>4. /\ Cardinality(Assigned(q)') \in Nat /\ Cardinality(Assigned(q)) \in Nat
            /\ Cardinality(Assigned(q)') <= Cardinality(Assigned(q))
        BY <4>1, <4>3, SmallerCount
      <4>5. ASSUME NEW a
            PROVE  /\ Cardinality(Assigned(q)' \ {a}) \in Nat /\ Cardinality(Assigned(q) \ {a}) \in Nat
                   /\ Cardinality(Assigned(q)' \ {a}) <= Cardinality(Assigned(q) \ {a})
        BY <4>2, SmallerCount
      <4> QED BY <4>1, <4>4, <4>5
    <3>3. PutOK(tx[v])'
      <4> SUFFICES ASSUME t.op = "put"
                   PROVE  /\ q \notin t.todo
                          /\ q \in t.held => proxies'[q].org = t.row.org
                          /\ q \in t.held /\ t.room = "yes" => Cardinality(Assigned(q)') <= t.row.capacity
        BY <2>2 DEF PutOK
      <4>1. t.row.capacity \in Nat
        BY <3>1 DEF FieldsOK
      <4> QED BY <3>1, <3>2, <4>1 DEF PutOK, SameRow
    <3>4. ReserveOK(tx[v])'
      <4> SUFFICES ASSUME t.op = "reserve", q # None
                   PROVE  /\ q \in t.held /\ proxies'[q].org \in {OrgOf[t.account], Global}
                          /\ t.room = "yes" => Cardinality(Assigned(q)' \ {t.account}) < proxies'[q].capacity
        BY <2>2 DEF ReserveOK, Visible
      <4>1. q \in t.held /\ Visible(q, t.account) /\ q \in Proxies
            /\ (t.room = "yes" => Cardinality(Assigned(q) \ {t.account}) < proxies[q].capacity)
        BY <3>1 DEF ReserveOK, Transactions
      <4>2. proxies[q] \in ProxyRows
        BY <4>1, RowTypes
      <4>3. proxies[q].capacity \in Nat
        BY <4>2 DEF ProxyRows
      <4>4. /\ SameRow(q)
            /\ Cardinality(Assigned(q)' \ {t.account}) \in Nat /\ Cardinality(Assigned(q) \ {t.account}) \in Nat
            /\ Cardinality(Assigned(q)' \ {t.account}) <= Cardinality(Assigned(q) \ {t.account})
        BY <3>2, <4>1
      <4>5. proxies'[q].org = proxies[q].org /\ proxies'[q].capacity = proxies[q].capacity
        BY <4>4 DEF SameRow
      <4>6. proxies'[q].org \in {OrgOf[t.account], Global}
        BY <4>1, <4>5 DEF Visible
      <4> QED BY <4>1, <4>3, <4>4, <4>5, <4>6
    <3> QED BY <3>3, <3>4
  <2> QED BY <2>1, <2>2
<1> QED BY <1>1, <1>2 DEF TxInv

\* A step that leaves the proxies alone and only deletes assignments keeps the invariant.
LEMMA ShrinkStep ==
    ASSUME TInv, IInv, UNCHANGED <<proxies, tx>>,
           \A a \in Accounts : assignments'[a] = assignments[a] \/ assignments'[a].proxy = None
    PROVE  IInv'
<1>1. \A p \in Proxies : SameRow(p)
  BY DEF SameRow, Assigned
<1>2. \A v \in Workers : tx'[v] = tx[v] /\ \A p \in tx[v].held : SameRow(p)
  BY <1>1, RowTypes DEF Transactions
<1>3. RowsExist' /\ LocksExclusive' /\ TxInv'
  BY <1>2, HoldersKept
<1>4. TenantIsolation' /\ OneDefault'
  BY DEF IInv, TenantIsolation, Visible, OneDefault
<1>5. CapacityHolds'
  <2> SUFFICES ASSUME NEW p \in Proxies PROVE Cardinality(Assigned(p)') <= proxies[p].capacity
    BY DEF CapacityHolds
  <2>1. /\ Assigned(p) \in SUBSET Accounts /\ Assigned(p)' \in SUBSET Assigned(p)
        /\ proxies[p].capacity \in Nat
    BY <1>1, RowTypes, AssignedAccounts DEF SameRow, ProxyRows
  <2>2. Cardinality(Assigned(p)) <= proxies[p].capacity
    BY DEF IInv, CapacityHolds
  <2> QED BY <2>1, <2>2, SmallerCount
<1> QED BY <1>3, <1>4, <1>5 DEF IInv

\* put_proxy commits: the row is its own, or there was none and so no account uses it; the
\* tenant's other defaults are cleared or keep the unique index from letting it in.
LEMMA PutCommitStep ==
    ASSUME TInv, IInv, NEW w \in Workers, PutCommit(w)
    PROVE  IInv'
<1> DEFINE t == tx[w]
           p == t.proxy
<1>0. /\ \A v \in Workers : tx'[v] = IF v = w THEN NoTx ELSE tx[v]
      /\ UNCHANGED assignments /\ \A q : Assigned(q)' = Assigned(q)
  BY NothingTyped, TxTyped DEF PutCommit, TxEnds, Assigned
<1>1. CASE proxies' = proxies
  <2>1. \A q \in Proxies : SameRow(q)
    BY <1>0, <1>1 DEF SameRow
  <2>2. \A v \in Workers : tx'[v] = NoTx \/ (tx'[v] = tx[v] /\ \A q \in tx[v].held : SameRow(q))
    BY <1>0, <2>1, RowTypes DEF Transactions
  <2>3. RowsExist' /\ LocksExclusive' /\ TxInv'
    BY <1>1, <2>2, HoldersKept
  <2>4. TenantIsolation' /\ CapacityHolds' /\ OneDefault'
    BY <1>0, <1>1 DEF IInv, TenantIsolation, Visible, CapacityHolds, OneDefault
  <2> QED BY <2>3, <2>4 DEF IInv
<1>2. CASE proxies' # proxies
  <2>1. /\ t.op = "put" /\ p \in Proxies /\ t.row \in PutRows /\ t.room = "yes" /\ DefaultFits(t)
        /\ p \in t.held \/ proxies[p].org = None
        /\ proxies'[p] = t.row
        /\ \A q \in Proxies \ {p} :
              /\ proxies'[q].org = proxies[q].org /\ proxies'[q].capacity = proxies[q].capacity
              /\ proxies'[q].default <=> proxies[q].default /\ q \notin t.held
    BY <1>2, PutCommitTyped
  <2>2. PutOK(t)
    BY DEF IInv, TxInv
  <2>3. proxies[p].org = None \/ proxies[p].org = t.row.org
    BY <2>1, <2>2 DEF PutOK
  <2>4. proxies[p].org = None => Assigned(p) = {}
    <3> SUFFICES ASSUME proxies[p].org = None, NEW a \in Accounts PROVE assignments[a].proxy # p
      BY DEF Assigned
    <3>1. ~Visible(p, a)
      BY DEF Visible
    <3> QED BY <2>1, <3>1 DEF IInv, TenantIsolation
  <2>5. Cardinality(Assigned(p)) <= t.row.capacity
    <3>1. CASE proxies[p].org = None
      <4>1. t.row.capacity \in 1..5
        BY <2>1
      <4> QED BY <2>4, <3>1, <4>1, FS_EmptySet
    <3>2. CASE p \in t.held
      BY <2>1, <2>2, <3>2 DEF PutOK
    <3> QED BY <2>1, <3>1, <3>2
  <2>6. \A q \in Proxies \ {p} : SameRow(q)
    BY <1>0, <2>1 DEF SameRow
  <2>7. \A v \in Workers \ {w} : \A q \in tx[v].held : SameRow(q)
    <3> SUFFICES ASSUME NEW v \in Workers \ {w}, NEW q \in tx[v].held PROVE SameRow(q)
      OBVIOUS
    <3>1. q \in Proxies
      BY RowTypes DEF Transactions
    <3>2. CASE q # p
      BY <2>6, <3>1, <3>2
    <3>3. CASE q = p
      <4>1. p \notin t.held
        BY <2>1, <3>3 DEF IInv, LocksExclusive
      <4>2. proxies[p].org # None
        BY <3>3 DEF IInv, RowsExist
      <4> QED BY <2>1, <4>1, <4>2
    <3> QED BY <3>2, <3>3
  <2>8. RowsExist' /\ LocksExclusive' /\ TxInv'
    <3>1. \A q \in Proxies : proxies[q].org # None => proxies'[q].org # None
      BY <2>1, <2>3
    <3> QED BY <1>0, <2>7, <3>1, HoldersKept
  <2>9. TenantIsolation'
    <3> SUFFICES ASSUME NEW a \in Accounts, assignments[a].proxy # None PROVE Visible(assignments[a].proxy, a)'
      BY <1>0 DEF TenantIsolation
    <3> DEFINE q == assignments[a].proxy
    <3>1. q \in Proxies /\ Visible(q, a)
      BY RowTypes DEF IInv, TenantIsolation, Assignments
    <3>2. proxies[q].org # None
      BY <3>1 DEF Visible
    <3>3. proxies'[q].org = proxies[q].org
      BY <2>1, <2>3, <3>1, <3>2
    <3> QED BY <1>0, <3>1, <3>3 DEF Visible
  <2>10. CapacityHolds'
    <3> SUFFICES ASSUME NEW q \in Proxies PROVE Cardinality(Assigned(q)') <= proxies'[q].capacity
      BY DEF CapacityHolds
    <3> QED BY <1>0, <2>1, <2>5 DEF IInv, CapacityHolds
  <2>11. OneDefault'
    <3> SUFFICES ASSUME NEW q \in Proxies, NEW r \in Proxies, proxies'[q].default, proxies'[r].default,
                        proxies'[q].org = proxies'[r].org, proxies'[q].org \in Orgs
                 PROVE  q = r
      BY DEF OneDefault
    <3>1. CASE q # p /\ r # p
      BY <2>1, <3>1 DEF IInv, OneDefault
    <3>2. ASSUME NEW x \in Proxies \ {p}, proxies'[p].default, proxies'[x].default,
                 proxies'[x].org = proxies'[p].org, proxies'[p].org \in Orgs
          PROVE  FALSE
      <4>1. t.row.default /\ t.row.org # Global /\ x \notin t.held /\ proxies[x].default
            /\ proxies[x].org = t.row.org
        BY <2>1, <3>2
      <4> QED BY <2>1, <4>1 DEF DefaultFits
    <3> QED BY <3>1, <3>2
  <2> QED BY <2>8, <2>9, <2>10, <2>11 DEF IInv
<1> QED BY <1>1, <1>2

\* A reservation commits: the row is held, so no one else has counted it or changes it, and
\* it had room for one account beside those that were assigned.
LEMMA ReserveCommitStep ==
    ASSUME TInv, IInv, NEW w \in Workers, ReserveCommit(w)
    PROVE  IInv'
<1> DEFINE t == tx[w]
<1> PICK a \in Accounts, p \in Proxies : a = t.account /\ p = t.proxy
  BY ReserveCommitTyped
<1>0. /\ \A v \in Workers : tx'[v] = IF v = w THEN NoTx ELSE tx[v]
      /\ UNCHANGED proxies
  BY NothingTyped, TxTyped DEF ReserveCommit, TxEnds
<1>1. /\ t.op = "reserve" /\ a \in Accounts /\ p \in Proxies
      /\ \/ UNCHANGED assignments
         \/ /\ t.room = "yes" /\ assignments'[a].proxy = p
            /\ \A b \in Accounts \ {a} : assignments'[b] = assignments[b]
  BY ReserveCommitTyped
<1>2. ReserveOK(t)
  BY DEF IInv, TxInv
<1>3. p \in t.held /\ Visible(p, a)
      /\ (t.room = "yes" => Cardinality(Assigned(p) \ {a}) < proxies[p].capacity)
  BY <1>1, <1>2 DEF ReserveOK
<1>4. \A q \in Proxies \ {p} : SameRow(q)
  BY <1>0, <1>1 DEF SameRow, Assigned
<1>5. RowsExist' /\ LocksExclusive' /\ TxInv'
  <2>1. ASSUME NEW v \in Workers \ {w}, NEW q \in tx[v].held PROVE SameRow(q)
    <3>1. q \in Proxies
      BY RowTypes DEF Transactions
    <3>2. q # p
      BY <1>1, <1>3 DEF IInv, LocksExclusive
    <3> QED BY <1>4, <3>1, <3>2
  <2> QED BY <1>0, <2>1, HoldersKept
<1>6. OneDefault'
  BY <1>0 DEF IInv, OneDefault
<1>7. TenantIsolation'
  <2> SUFFICES ASSUME NEW b \in Accounts, assignments'[b].proxy # None
               PROVE  Visible(assignments'[b].proxy, b)
    BY <1>0 DEF TenantIsolation, Visible
  <2>1. CASE assignments'[b] = assignments[b]
    BY <2>1 DEF IInv, TenantIsolation
  <2>2. CASE b = a /\ assignments'[a].proxy = p
    BY <1>3, <2>2
  <2> QED BY <1>1, <2>1, <2>2
<1>8. CapacityHolds'
  <2> SUFFICES ASSUME NEW q \in Proxies PROVE Cardinality(Assigned(q)') <= proxies[q].capacity
    BY <1>0 DEF CapacityHolds
  <2>1. /\ Cardinality(Assigned(q)) <= proxies[q].capacity /\ proxies[q].capacity \in Nat
        /\ Assigned(q) \in SUBSET Accounts
    BY RowTypes, AssignedAccounts DEF IInv, CapacityHolds, ProxyRows
  <2>2. CASE Assigned(q)' \subseteq Assigned(q)
    BY <2>1, <2>2, SmallerCount
  <2>3. CASE q = p /\ t.room = "yes" /\ Assigned(p)' = (Assigned(p) \ {a}) \cup {a}
    <3> DEFINE others == Assigned(p) \ {a}
    <3>1. others \in SUBSET Accounts /\ a \notin others
      BY AssignedAccounts
    <3>2. IsFiniteSet(others) /\ Cardinality(others) \in Nat /\ Cardinality(others) < proxies[p].capacity
      BY <1>3, <2>3, <3>1, SmallerCount
    <3>3. Assigned(p)' = others \cup {a}
      BY <2>3
    <3> HIDE DEF others
    <3>4. Cardinality(others \cup {a}) = Cardinality(others) + 1
      BY <3>1, <3>2, FS_AddElement
    <3>5. Cardinality(Assigned(p)') <= proxies[p].capacity
      <4>1. q = p
        BY <2>3
      <4>2. proxies[p].capacity \in Nat
        BY <2>1, <4>1
      <4> QED BY <3>2, <3>3, <3>4, <4>2
    <3> QED BY <2>3, <3>5
  <2>4. \/ Assigned(q)' \subseteq Assigned(q)
        \/ q = p /\ t.room = "yes" /\ Assigned(p)' = (Assigned(p) \ {a}) \cup {a}
    <3>1. CASE q # p
      BY <1>4, <3>1 DEF SameRow
    <3>2. CASE UNCHANGED assignments
      BY <3>2 DEF Assigned
    <3>3. CASE /\ t.room = "yes" /\ assignments'[a].proxy = p
               /\ \A b \in Accounts \ {a} : assignments'[b] = assignments[b]
      <4>1. Assigned(p)' = (Assigned(p) \ {a}) \cup {a}
        BY <1>1, <3>3 DEF Assigned
      <4> QED BY <3>1, <3>3, <4>1
    <3> QED BY <1>1, <3>2, <3>3
  <2> QED BY <2>2, <2>3, <2>4
<1> QED BY <1>5, <1>6, <1>7, <1>8 DEF IInv

\* A step of a transaction that locks one more row, which no one holds, or none.
LEMMA LockStep ==
    ASSUME TInv, IInv, NEW w \in Workers, NEW t \in Transactions, FieldsOK(t), TxGoto(w, t),
           UNCHANGED <<proxies, overrides, assignments, lease, ids>>, PutOK(t), ReserveOK(t),
           t.todo \subseteq tx[w].todo,
           t.held = tx[w].held \/ \E q \in tx[w].todo : ~Locked(q) /\ t.held = tx[w].held \cup {q}
    PROVE  IInv'
<1>1. \A p \in tx[w].held \cup tx[w].todo : proxies[p].org # None
  BY DEF IInv, RowsExist
<1>2. \A p \in t.held : p \in tx[w].held \/ ~Locked(p)
  OBVIOUS
<1>3. \A p \in t.held \cup t.todo : proxies[p].org # None
  BY <1>1
<1> QED BY <1>2, <1>3, TxOnlyStep

LEMMA TxStepKeeps ==
    ASSUME TInv, IInv, NEW w \in Workers, TxStep(w) \/ Abort(w)
    PROVE  IInv'
<1>0. PutOK(tx[w]) /\ ReserveOK(tx[w])
  BY DEF IInv, TxInv
<1>1. CASE PutClear(w)
  <2>1. PICK q \in Proxies, t \in Transactions :
              /\ FieldsOK(t) /\ TxGoto(w, t) /\ t.op = "put" /\ tx[w].op = "put" /\ ~Locked(q)
              /\ t.proxy = tx[w].proxy /\ t.row = tx[w].row /\ t.room = tx[w].room
              /\ t.held = tx[w].held \cup {q} /\ t.todo \subseteq tx[w].todo /\ q \in tx[w].todo
    BY <1>1, PutClearTyped
  <2>2. PutOK(t) /\ ReserveOK(t)
    BY <1>0, <2>1 DEF PutOK, ReserveOK
  <2> QED BY <1>1, <2>1, <2>2, LockStep DEF PutClear
<1>2. CASE PutCount(w)
  <2>1. PICK t \in Transactions :
              /\ FieldsOK(t) /\ TxGoto(w, t) /\ t.op = "put" /\ tx[w].op = "put"
              /\ t.proxy = tx[w].proxy /\ t.row = tx[w].row /\ t.held = tx[w].held /\ t.todo = tx[w].todo
              /\ t.room = "yes" => CapacityFits(tx[w])
    BY <1>2, PutCountTyped
  <2>2. PutOK(t) /\ ReserveOK(t)
    BY <1>0, <2>1 DEF PutOK, ReserveOK, CapacityFits
  <2> QED BY <1>2, <2>1, <2>2, LockStep DEF PutCount
<1>3. CASE ReserveLock(w)
  <2>1. PICK p \in Proxies, t \in Transactions :
              /\ FieldsOK(t) /\ TxGoto(w, t) /\ t.op = "reserve" /\ tx[w].op = "reserve" /\ ~Locked(p)
              /\ t.account = tx[w].account /\ t.held = tx[w].held \cup {p}
              /\ t.todo \subseteq tx[w].todo /\ p \in tx[w].todo
              /\ t.proxy # None => t.proxy = p /\ p \in Candidates(t.account)
              /\ t.proxy # None /\ t.room = "yes" => ~Full(p, t.account)
    BY <1>3, ReserveLockTyped
  <2>2. PutOK(t)
    BY <2>1 DEF PutOK
  <2>3. ReserveOK(t)
    <3> SUFFICES ASSUME t.proxy # None
                 PROVE  /\ p \in t.held /\ Visible(p, t.account) /\ t.proxy = p
                        /\ t.room = "yes" =>
                              Cardinality(Assigned(p) \ {t.account}) < proxies[p].capacity
      BY DEF ReserveOK
    <3>1. p \in t.held /\ t.proxy = p /\ Visible(p, t.account)
      BY <2>1 DEF Candidates
    <3>2. Assigned(p) \ {t.account} \in SUBSET Accounts /\ proxies[p].capacity \in Nat
      BY AssignedAccounts, RowTypes DEF ProxyRows
    <3>3. Cardinality(Assigned(p) \ {t.account}) \in Nat
      BY <3>2, SmallerCount
    <3> QED BY <2>1, <3>1, <3>2, <3>3 DEF Full
  <2> QED BY <1>3, <2>1, <2>2, <2>3, LockStep DEF ReserveLock
<1>4. CASE ReserveNone(w) \/ Abort(w)
  <2>1. NoTx.todo = {} /\ PutOK(NoTx) /\ ReserveOK(NoTx)
    BY NothingTyped DEF NoTx, PutOK, ReserveOK
  <2> QED BY <1>4, <2>1, NothingTyped, TxOnlyStep DEF ReserveNone, Abort, TxEnds
<1> QED BY <1>1, <1>2, <1>3, <1>4, PutCommitStep, ReserveCommitStep DEF TxStep

LEMMA BeginKeeps ==
    ASSUME TInv, IInv, NEW w \in Workers
    PROVE  /\ \A p \in Proxies, row \in PutRows : PutBegin(w, p, row) => IInv'
           /\ \A a \in Accounts : ReserveBegin(w, a) => IInv'
<1>1. ASSUME NEW p \in Proxies, NEW row \in PutRows, PutBegin(w, p, row) PROVE IInv'
  <2>1. PICK t \in Transactions :
              /\ FieldsOK(t) /\ TxGoto(w, t) /\ t.op = "put" /\ t.proxy = p /\ t.row = row
              /\ t.held = IF proxies[p].org # None THEN {p} ELSE {}
              /\ t.room = IF proxies[p].org # None THEN "unknown" ELSE "yes"
              /\ p \notin t.todo /\ \A q \in t.todo : proxies[q].org = row.org
    BY <1>1, PutBeginTyped
  <2>2. row.org # None
    OBVIOUS
  <2>3. PutOK(t) /\ ReserveOK(t)
    BY <1>1, <2>1 DEF PutBegin, SameTenant, PutOK, ReserveOK
  <2>4. \A q \in t.held \cup t.todo : proxies[q].org # None
    BY <2>1, <2>2
  <2>5. \A q \in t.held : ~Locked(q)
    BY <1>1, <2>1 DEF PutBegin
  <2> QED BY <1>1, <2>1, <2>3, <2>4, <2>5, TxOnlyStep DEF PutBegin
<1>2. ASSUME NEW a \in Accounts, ReserveBegin(w, a) PROVE IInv'
  <2>1. PICK t \in Transactions :
              /\ FieldsOK(t) /\ TxGoto(w, t) /\ t.op = "reserve" /\ t.proxy = None /\ t.held = {}
              /\ t.todo = Candidates(a)
    BY <1>2, ReserveBeginTyped
  <2>2. PutOK(t) /\ ReserveOK(t)
    BY <2>1 DEF PutOK, ReserveOK
  <2>3. \A q \in t.held \cup t.todo : proxies[q].org # None
    BY <2>1 DEF Candidates, Visible
  <2> QED BY <1>2, <2>1, <2>2, <2>3, TxOnlyStep DEF ReserveBegin
<1> QED BY <1>1, <1>2

LEMMA InductiveStep == TInv /\ IInv /\ [Next]_vars => IInv'
<1> SUFFICES ASSUME TInv, IInv, [Next]_vars PROVE IInv'
  OBVIOUS
<1>1. ASSUME NEW w \in Workers, TxStep(w) \/ Abort(w) PROVE IInv'
  BY <1>1, TxStepKeeps
<1>2. ASSUME NEW w \in Workers, ReleaseFailed(w) PROVE IInv'
  <2>1. assignments' \in {assignments, [assignments EXCEPT ![lease[w].account] = NoAssignment]}
    BY <1>2 DEF ReleaseFailed
  <2> QED BY <1>2, <2>1, ReleaseTyped, ShrinkStep DEF ReleaseFailed
<1>3. ASSUME NEW w \in Workers, Keep(w) PROVE IInv'
  BY <1>3, ShrinkStep DEF Keep
<1>4. ASSUME NEW a \in Accounts, ReleaseTerminal(a) PROVE IInv'
  <2>1. assignments' \in {assignments, [assignments EXCEPT ![a] = NoAssignment]}
    BY <1>4 DEF ReleaseTerminal
  <2>2. \A b \in Accounts : assignments'[b] = assignments[b] \/ assignments'[b].proxy = None
    BY <2>1, ReleaseTyped
  <2>3. UNCHANGED <<proxies, tx>>
    BY <1>4 DEF ReleaseTerminal
  <2> QED BY <2>2, <2>3, ShrinkStep
<1>5. ASSUME NEW a \in Overriding, NEW p \in Proxies \cup {None}, SetAccountOverride(a, p) PROVE IInv'
  BY <1>5, ShrinkStep DEF SetAccountOverride
<1>6. CASE UNCHANGED vars
  BY <1>6, ShrinkStep DEF vars
<1> QED BY <1>1, <1>2, <1>3, <1>4, <1>5, <1>6, BeginKeeps DEF Next

LEMMA InductiveInit == Init => IInv
<1> SUFFICES ASSUME Init PROVE IInv
  OBVIOUS
<1>1. /\ \A w \in Workers : tx[w] = NoTx
      /\ \A p \in Proxies : proxies[p] = NoProxy
      /\ \A a \in Accounts : assignments[a].proxy = None
  BY DEF Init, NoAssignment
<1>2. NoTx.op = "none" /\ NoTx.held = {} /\ NoTx.todo = {}
  BY DEF NoTx
<1>3. RowsExist /\ LocksExclusive /\ TxInv
  BY <1>1, <1>2 DEF RowsExist, LocksExclusive, TxInv, PutOK, ReserveOK
<1>4. TenantIsolation /\ OneDefault
  BY <1>1 DEF TenantIsolation, OneDefault, NoProxy
<1>5. CapacityHolds
  <2>1. \A p \in Proxies : Assigned(p) = {}
    BY <1>1 DEF Assigned
  <2> QED BY <1>1, <2>1, FS_EmptySet DEF CapacityHolds, NoProxy
<1> QED BY <1>3, <1>4, <1>5 DEF IInv

LEMMA Invariant == Spec => [](TInv /\ IInv)
BY TypeInit, TypeStep, InductiveInit, InductiveStep, PTL DEF Spec

\* No interleaving of reservations, releases and put_proxy calls assigns an account a proxy
\* of another tenant: the row is looked at again under its lock, and its tenant never changes.
THEOREM TenantsIsolated == Spec => []TenantIsolation
<1>1. IInv => TenantIsolation
  BY DEF IInv
<1> QED BY <1>1, Invariant, PTL

\* No proxy is overbooked: a count made under the row's lock is still an upper bound when
\* the assignment, or the new capacity, is committed.
THEOREM CapacityRespected == Spec => []CapacityHolds
<1>1. IInv => CapacityHolds
  BY DEF IInv
<1> QED BY <1>1, Invariant, PTL

\* Two requests that each make a default of one tenant never both succeed: the unique index
\* refuses the row that the clearing UPDATE did not see.
THEOREM DefaultUnique == Spec => []OneDefault
<1>1. IInv => OneDefault
  BY DEF IInv
<1> QED BY <1>1, Invariant, PTL

\* No cleanup takes the assignment of an account with an override: a release looks at the
\* override in the transaction that deletes the row, and a reservation only replaces it.
THEOREM OverridesSurvive == Spec => OverrideSurvives
<1> DEFINE Survives == \A a \in Accounts :
              assignments[a].proxy # None /\ overrides[a].proxy # None => assignments'[a].proxy # None
<1>1. TInv /\ [Next]_vars => [Survives]_vars
  <2> SUFFICES ASSUME TInv, Next PROVE Survives
    BY DEF vars
  <2> SUFFICES ASSUME NEW a \in Accounts, assignments[a].proxy # None, overrides[a].proxy # None
               PROVE  assignments'[a].proxy # None
    OBVIOUS
  <2>1. CASE UNCHANGED assignments
    BY <2>1
  <2>2. ASSUME NEW w \in Workers, ReserveCommit(w) PROVE assignments'[a].proxy # None
    <3>1. /\ tx[w].proxy \in Proxies
          /\ \/ UNCHANGED assignments
             \/ /\ assignments'[tx[w].account].proxy = tx[w].proxy
                /\ \A b \in Accounts \ {tx[w].account} : assignments'[b] = assignments[b]
      BY <2>2, ReserveCommitTyped
    <3> QED BY <3>1
  <2>3. ASSUME NEW w \in Workers, ReleaseFailed(w) PROVE assignments'[a].proxy # None
    <3>1. Releases(lease[w]) => lease[w].account # a
      BY DEF Releases
    <3> QED BY <2>3, <3>1 DEF ReleaseFailed, TInv, TypeOK
  <2>4. ASSUME NEW b \in Accounts, ReleaseTerminal(b) PROVE assignments'[a].proxy # None
    <3>1. b # a
      BY <2>4 DEF ReleaseTerminal
    <3> QED BY <2>4, <3>1 DEF ReleaseTerminal, TInv, TypeOK
  <2> QED BY <2>1, <2>2, <2>3, <2>4 DEF Next, TxStep, PutClear, PutCount, PutCommit, ReserveLock,
             ReserveNone, Keep, Abort, PutBegin, ReserveBegin, SetAccountOverride
<1> QED BY <1>1, Invariant, PTL DEF Spec, OverrideSurvives
=============================================================================
