--------------------------- MODULE ProxyAssignment ---------------------------
(***************************************************************************)
(* The proxy pool: proxies with a capacity and one default per tenant, the *)
(* account overrides and the account's one assignment, changed by the      *)
(* concurrent transactions of SqlAlchemyProxyAssignmentRepository.         *)
(*                                                                         *)
(* The transactions run at READ COMMITTED and lock rows.  One that only    *)
(* needs the account's row is a single step, taken while that row is       *)
(* unlocked; a reservation and a put_proxy take several proxy rows one     *)
(* after another, hold what they have locked and write when they commit.   *)
(***************************************************************************)
EXTENDS Naturals, FiniteSets

CONSTANTS
    Accounts,
    Orgs,          \* the tenants
    OrgOf,         \* the tenant of each account
    Global,        \* the NULL organization of the shared proxies
    Proxies,       \* proxy ids, ordered as the UUIDs are
    Workers,       \* calls that may run at a time
    PutRows,       \* the rows put_proxy is asked to write: org, capacity, default
    Overriding,    \* accounts whose override an operator changes
    MaxRevision,   \* bound on those changes
    MaxIds,        \* bound on the assignments created
    None

ASSUME ProxyAssumption ==
    /\ OrgOf \in [Accounts -> Orgs]
    /\ Global \notin Orgs /\ None \notin Orgs \cup {Global}
    /\ Proxies \subseteq Nat /\ IsFiniteSet(Proxies)
    /\ None \notin Proxies /\ None \notin Accounts
    /\ IsFiniteSet(Accounts) /\ Overriding \subseteq Accounts
    /\ {MaxRevision, MaxIds} \subseteq Nat
    /\ PutRows \subseteq [org : Orgs \cup {Global}, capacity : 1..5, default : BOOLEAN]

VARIABLES
    proxies,       \* telegram_proxies; organization None where there is no row
    overrides,     \* telegram_proxy_overrides; revision 0 where there is no row
    assignments,   \* telegram_proxy_assignments; id 0 where there is no row
    tx,            \* the transaction each worker has open
    lease,         \* the reservation that each worker gives back if its start fails
    ids            \* assignment ids drawn so far

vars == <<proxies, overrides, assignments, tx, lease, ids>>

ProxyRows == [org : Orgs \cup {Global, None}, capacity : 0..5, default : BOOLEAN]
Overrides == [proxy : Proxies \cup {None}, revision : Nat]
Assignments == [proxy : Proxies \cup {None}, id : Nat, revision : Nat]
Leases == [account : Accounts \cup {None}, proxy : Proxies \cup {None}, id : Nat, revision : Nat]
Transactions == [op : {"none", "reserve", "put"}, account : Accounts \cup {None},
                 proxy : Proxies \cup {None}, todo : SUBSET Proxies, held : SUBSET Proxies,
                 row : ProxyRows, room : {"unknown", "yes", "no"}]

NoProxy == [org |-> None, capacity |-> 0, default |-> FALSE]
NoAssignment == [proxy |-> None, id |-> 0, revision |-> 0]
NoLease == [account |-> None, proxy |-> None, id |-> 0, revision |-> 0]
NoTx == [op |-> "none", account |-> None, proxy |-> None, todo |-> {}, held |-> {},
         row |-> NoProxy, room |-> "unknown"]

Init ==
    /\ proxies = [p \in Proxies |-> NoProxy]
    /\ overrides = [a \in Accounts |-> [proxy |-> None, revision |-> 0]]
    /\ assignments = [a \in Accounts |-> NoAssignment]
    /\ tx = [w \in Workers |-> NoTx]
    /\ lease = [w \in Workers |-> NoLease]
    /\ ids = 0

Locked(p) == \E w \in Workers : p \in tx[w].held
AccountLocked(a) == \E w \in Workers : tx[w].account = a
Assigned(p) == {a \in Accounts : assignments[a].proxy = p}
Visible(p, a) == proxies[p].org \in {OrgOf[a], Global}

TxGoto(w, t) == tx' = [tx EXCEPT ![w] = t]
TxEnds(w) == TxGoto(w, NoTx)

----------------------------------------------------------------------------
(* put_proxy.                                                              *)

\* Mutants of put_proxy.
AnyTenant(p, org) == TRUE
NoIndex(t) == TRUE

SameTenant(p, org) == proxies[p].org \in {None, org}

\* The row is locked if it exists; a default first clears the tenant's other rows,
\* as its UPDATE's snapshot knows them.
PutBegin(w, p, row) ==
    /\ tx[w].op = "none" /\ ~Locked(p)
    /\ SameTenant(p, row.org)
    /\ TxGoto(w, [NoTx EXCEPT
          !.op = "put", !.proxy = p, !.row = row,
          !.held = IF proxies[p].org # None THEN {p} ELSE {},
          !.room = IF proxies[p].org # None THEN "unknown" ELSE "yes",
          !.todo = IF row.default THEN {q \in Proxies \ {p} : proxies[q].org = row.org} ELSE {}])
    /\ UNCHANGED <<proxies, overrides, assignments, lease, ids>>

PutClear(w) ==
    /\ tx[w].op = "put"
    /\ \E q \in tx[w].todo :
          /\ ~Locked(q)
          /\ TxGoto(w, [tx[w] EXCEPT !.todo = @ \ {q}, !.held = @ \cup {q}])
    /\ UNCHANGED <<proxies, overrides, assignments, lease, ids>>

\* The capacity of a row in use is not lowered below its assignments.
CapacityFits(t) == Cardinality(Assigned(t.proxy)) <= t.row.capacity

PutCount(w) ==
    /\ tx[w].op = "put" /\ tx[w].todo = {} /\ tx[w].room = "unknown"
    /\ TxGoto(w, [tx[w] EXCEPT !.room = IF CapacityFits(tx[w]) THEN "yes" ELSE "no"])
    /\ UNCHANGED <<proxies, overrides, assignments, lease, ids>>

\* uq_telegram_proxies_one_default_per_organization, which NULL never violates.
DefaultFits(t) ==
    t.row.default /\ t.row.org # Global =>
       \A q \in Proxies \ (t.held \cup {t.proxy}) : proxies[q].org = t.row.org => ~proxies[q].default

PutCommit(w) ==
    LET t == tx[w] IN
    /\ t.op = "put" /\ t.todo = {} /\ t.room # "unknown"
    /\ IF /\ t.room = "yes" /\ DefaultFits(t)
          /\ t.proxy \in t.held \/ proxies[t.proxy].org = None
       THEN proxies' = [q \in Proxies |->
                           IF q = t.proxy THEN t.row
                           ELSE [proxies[q] EXCEPT !.default = @ /\ q \notin t.held]]
       ELSE UNCHANGED proxies
    /\ TxEnds(w)
    /\ UNCHANGED <<overrides, assignments, lease, ids>>

----------------------------------------------------------------------------
(* The account's own operations.                                           *)

\* An override may name the tenant's own proxies and the shared ones.
SetAccountOverride(a, p) ==
    /\ ~AccountLocked(a)
    /\ p # None => Visible(p, a)
    /\ overrides[a].revision < MaxRevision
    /\ overrides' = [overrides EXCEPT ![a] = [proxy |-> p, revision |-> @.revision + 1]]
    /\ UNCHANGED <<proxies, assignments, tx, lease, ids>>

Candidates(a) ==
    IF overrides[a].proxy = None THEN {p \in Proxies : proxies[p].default /\ Visible(p, a)}
    ELSE {p \in {overrides[a].proxy} : Visible(p, a)}

\* The tenant's own default comes before a shared one.
First(ps, p) ==
    /\ p \in ps
    /\ \A q \in ps : /\ proxies[p].org = Global => proxies[q].org = Global
                     /\ proxies[p].org = proxies[q].org => p <= q

ReserveBegin(w, a) ==
    /\ tx[w].op = "none" /\ ~AccountLocked(a)
    /\ TxGoto(w, [NoTx EXCEPT !.op = "reserve", !.account = a, !.todo = Candidates(a)])
    /\ UNCHANGED <<proxies, overrides, assignments, lease, ids>>

Full(p, a) == Cardinality(Assigned(p) \ {a}) >= proxies[p].capacity

\* What the reservation knows once it has looked at proxy p: a row that is no
\* default any more is passed over, the others are counted.
Looked(t, p) ==
    [t EXCEPT !.todo = @ \ {p},
              !.proxy = IF p \in Candidates(t.account) THEN p ELSE None,
              !.room = IF p \in Candidates(t.account) /\ Full(p, t.account) THEN "no" ELSE "yes"]

\* A mutant of the reservation: no FOR UPDATE.
ReserveUnlocked(w) ==
    /\ tx[w].op = "reserve" /\ tx[w].proxy = None
    /\ \E p \in tx[w].todo : First(tx[w].todo, p) /\ TxGoto(w, Looked(tx[w], p))
    /\ UNCHANGED <<proxies, overrides, assignments, lease, ids>>

\* SELECT ... LIMIT 1 FOR UPDATE: the first row of the snapshot is waited for, and
\* the next one is tried if it is passed over.
ReserveLock(w) ==
    LET t == tx[w] IN
    /\ t.op = "reserve" /\ t.proxy = None
    /\ \E p \in t.todo :
          /\ First(t.todo, p) /\ ~Locked(p)
          /\ TxGoto(w, [Looked(t, p) EXCEPT !.held = @ \cup {p}])
    /\ UNCHANGED <<proxies, overrides, assignments, lease, ids>>

ReserveNone(w) ==
    /\ tx[w].op = "reserve" /\ tx[w].proxy = None /\ tx[w].todo = {}
    /\ TxEnds(w)
    /\ UNCHANGED <<proxies, overrides, assignments, lease, ids>>

\* The assignment stays if it is this one already; else it is replaced if the proxy
\* has room for the account.  Only a new one without an override is given back later,
\* and a caller that is cancelled never learns of it.
ReserveCommit(w) ==
    LET a == tx[w].account
        p == tx[w].proxy
        old == assignments[a]
        kept == old.proxy = p /\ old.revision = overrides[a].revision
        made == [proxy |-> p, id |-> ids + 1, revision |-> overrides[a].revision]
    IN
    /\ tx[w].op = "reserve" /\ p # None
    /\ \/ /\ ~kept /\ tx[w].room = "no"
          /\ UNCHANGED <<assignments, lease, ids>>
       \/ /\ kept \/ tx[w].room = "yes"
          /\ ids' = IF kept THEN ids ELSE ids + 1
          /\ ids' <= MaxIds
          /\ assignments' = [assignments EXCEPT ![a] = IF kept THEN old ELSE made]
          /\ lease' \in {lease, [lease EXCEPT ![w] =
                IF kept \/ overrides[a].proxy # None THEN NoLease
                ELSE [account |-> a, proxy |-> p, id |-> made.id, revision |-> made.revision]]}
    /\ TxEnds(w)
    /\ UNCHANGED <<proxies, overrides>>

\* Mutants of the release operations.
ReleasesAnyRevision(l) ==
    assignments[l.account].id = l.id

\* A failed start gives back the assignment it made, unless an override has changed.
Releases(l) ==
    /\ overrides[l.account] = [proxy |-> None, revision |-> l.revision]
    /\ assignments[l.account] = [proxy |-> l.proxy, id |-> l.id, revision |-> l.revision]

ReleaseFailed(w) ==
    /\ lease[w] # NoLease /\ ~AccountLocked(lease[w].account)
    /\ assignments' = IF Releases(lease[w])
                      THEN [assignments EXCEPT ![lease[w].account] = NoAssignment]
                      ELSE assignments
    /\ lease' = [lease EXCEPT ![w] = NoLease]
    /\ UNCHANGED <<proxies, overrides, tx, ids>>

\* The start succeeded, or its process died: the assignment stays.
Keep(w) ==
    /\ lease[w] # NoLease
    /\ lease' = [lease EXCEPT ![w] = NoLease]
    /\ UNCHANGED <<proxies, overrides, assignments, tx, ids>>

ReleaseByUpdate(a) ==
    /\ ~AccountLocked(a)
    /\ overrides[a].proxy = None
    /\ assignments' = [assignments EXCEPT ![a].proxy = None]
    /\ UNCHANGED <<proxies, overrides, tx, lease, ids>>

\* A stopped account's assignment is deleted, unless an override keeps it.
ReleaseTerminal(a) ==
    /\ ~AccountLocked(a)
    /\ overrides[a].proxy = None
    /\ assignments' = [assignments EXCEPT ![a] = NoAssignment]
    /\ UNCHANGED <<proxies, overrides, tx, lease, ids>>

----------------------------------------------------------------------------
(* PostgreSQL.                                                             *)

\* A transaction is rolled back: a lost connection, or the victim of a deadlock between
\* two transactions that wait for each other's proxy rows.
Abort(w) ==
    /\ tx[w].op # "none"
    /\ TxEnds(w)
    /\ UNCHANGED <<proxies, overrides, assignments, lease, ids>>

TxStep(w) == PutClear(w) \/ PutCount(w) \/ PutCommit(w) \/ ReserveLock(w) \/ ReserveNone(w) \/ ReserveCommit(w)

Next ==
    \/ \E w \in Workers : TxStep(w) \/ ReleaseFailed(w) \/ Keep(w) \/ Abort(w)
    \/ \E w \in Workers, p \in Proxies, row \in PutRows : PutBegin(w, p, row)
    \/ \E w \in Workers, a \in Accounts : ReserveBegin(w, a)
    \/ \E a \in Overriding, p \in Proxies \cup {None} : SetAccountOverride(a, p)
    \/ \E a \in Accounts : ReleaseTerminal(a)

Spec == Init /\ [][Next]_vars

----------------------------------------------------------------------------
(* Properties.                                                             *)

\* Types of the three tables and of the open transactions; an account without an
\* assignment has no row, so a release leaves nothing of one behind.
TypeOK ==
    /\ proxies \in [Proxies -> ProxyRows]
    /\ overrides \in [Accounts -> Overrides]
    /\ assignments \in [Accounts -> Assignments]
    /\ \A a \in Accounts : assignments[a].proxy = None <=> assignments[a].id = 0
    /\ tx \in [Workers -> Transactions]
    /\ lease \in [Workers -> Leases]
    /\ ids \in Nat

\* No proxy is overbooked: however reservations, overrides and changes of capacity
\* interleave, the assignments of a proxy fit its capacity.
CapacityHolds == \A p \in Proxies : Cardinality(Assigned(p)) <= proxies[p].capacity

\* An account is only ever assigned a proxy of its own tenant or a shared one.
TenantIsolation == \A a \in Accounts : assignments[a].proxy # None => Visible(assignments[a].proxy, a)

\* A tenant has one default, even if two requests make one at the same time.
OneDefault ==
    \A p, q \in Proxies :
       proxies[p].default /\ proxies[q].default /\ proxies[p].org = proxies[q].org
       /\ proxies[p].org \in Orgs => p = q

\* While an account has an override, no cleanup, however late, takes its assignment.
OverrideSurvives ==
    [][\A a \in Accounts :
          assignments[a].proxy # None /\ overrides[a].proxy # None => assignments'[a].proxy # None]_vars
=============================================================================
