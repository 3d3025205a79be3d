----------------------------- MODULE PolicyGate ------------------------------
(***************************************************************************)
(* The approval boundary in front of AI operations on Telegram content     *)
(* (policy/service.py, policy/repository.py and the functions and triggers *)
(* of migration 0001_policy_gate).                                         *)
(*                                                                         *)
(* PostgreSQL's CURRENT_TIMESTAMP is the start of the transaction, and a   *)
(* transaction reads and commits later than it starts, so every            *)
(* transaction is a begin step that takes the time and a later step that   *)
(* does its work.  A refused request changes nothing and is no step.       *)
(***************************************************************************)
EXTENDS Naturals, Sequences, FiniteSets

CONSTANTS
    Orgs, Accounts,                    \* tenants and the Telegram accounts they connect
    Channels, Categories, Operations,  \* the allow-listed dimensions of an approval
    Terms,         \* terms revisions a deployment may be configured with
    Grants,        \* the approvals the platform owner asks for
    Approvals,     \* approval ids; their number bounds the grants
    Callers,       \* calls of the protected loader
    Writers,       \* administration requests being served
    MaxTime,       \* bound of the clock
    None

Requests == [org : Orgs, channels : SUBSET Channels \ {{}},
             categories : SUBSET Categories \ {{}}, operations : SUBSET Operations \ {{}},
             terms : Terms, expires : 0..MaxTime + 1]
Scopes == [channel : Channels, category : Categories, operation : Operations]
Contexts == [org : Orgs, scope : Scopes]

Times == 0..MaxTime
Records == [request : Requests, approved_at : Times]

ASSUME PolicyAssumption ==
    /\ Grants \subseteq Requests
    /\ MaxTime \in Nat
    /\ None \notin Orgs \cup Approvals \cup Contexts \cup Requests \cup Records \cup Nat

VARIABLES
    clock,         \* the database's time
    terms,         \* the configured terms revision of the running process
    accounts,      \* the organization of each account row, None where there is no row
    records,       \* ai_approval_records, None where there is no row
    revocations,   \* ai_approval_revocations: revoked_at, None where there is no row
    events,        \* ai_approval_audit_events in the order of their commits
    calls,         \* the protected loads
    writes         \* the administration requests

vars == <<clock, terms, accounts, records, revocations, events, calls, writes>>
history == <<records, revocations, events>>

Events == [approval : Approvals, action : {"created", "revoked"}, at : Times]

\* context is the object the caller holds, claims what the authority's registry keeps
\* for that object; barred are the approvals already revoked when the call was made.
Calls == [pc : {"idle", "issued", "reading", "allowed", "loaded"},
          account : Accounts \cup {None},
          context : Contexts \cup {None}, claims : Contexts \cup {None},
          checked_at : Times, approval : Approvals \cup {None}, barred : SUBSET Approvals]
Writes == [op : {"idle", "grant", "revoke"}, request : Requests \cup {None},
           approval : Approvals \cup {None}, started : Times]

NoCall == [pc |-> "idle", account |-> None, context |-> None, claims |-> None,
           checked_at |-> 0, approval |-> None, barred |-> {}]
NoWrite == [op |-> "idle", request |-> None, approval |-> None, started |-> 0]

Revoked == {a \in Approvals : revocations[a] # None}

Init ==
    /\ clock = 0
    /\ terms \in Terms
    /\ accounts = [x \in Accounts |-> None]
    /\ records = [a \in Approvals |-> None]
    /\ revocations = [a \in Approvals |-> None]
    /\ events = <<>>
    /\ calls = [c \in Callers |-> NoCall]
    /\ writes = [w \in Writers |-> NoWrite]

Tick ==
    /\ clock < MaxTime
    /\ clock' = clock + 1
    /\ UNCHANGED <<terms, accounts, history, calls, writes>>

\* The row an import provisions; its organization is never changed.
Provision(x, org) ==
    /\ accounts[x] = None
    /\ accounts' = [accounts EXCEPT ![x] = org]
    /\ UNCHANGED <<clock, terms, history, calls, writes>>

\* A new process, with whatever terms it is configured for; what the old one had issued
\* or was serving is gone, and its open transactions roll back.
Restart(t) ==
    /\ terms' = t
    /\ calls' = [c \in Callers |-> NoCall]
    /\ writes' = [w \in Writers |-> NoWrite]
    /\ UNCHANGED <<clock, accounts, history>>

----------------------------------------------------------------------------
(* Administration by the platform owner.                                   *)

\* The principal is resolved by the identity of the object the authenticator has
\* issued; anything else is refused before the writer is reached.
BeginGrant(w, r) ==
    /\ writes[w].op = "idle"
    /\ writes' = [writes EXCEPT ![w] =
                      [NoWrite EXCEPT !.op = "grant", !.request = r, !.started = clock]]
    /\ UNCHANGED <<clock, terms, accounts, history, calls>>

FutureExpiry(r, started) == r.expires > started

Event(a, action, at) == [approval |-> a, action |-> action, at |-> at]

\* policy_grant_ai_approval: the record and its event in one transaction, nothing for
\* an expiry that is not ahead.
Grant(w, a) ==
    LET r == writes[w].request
        started == writes[w].started
    IN
    /\ writes[w].op = "grant" /\ records[a] = None
    /\ writes' = [writes EXCEPT ![w] = NoWrite]
    /\ IF FutureExpiry(r, started)
       THEN /\ records' = [records EXCEPT ![a] = [request |-> r, approved_at |-> started]]
            /\ events' = Append(events, Event(a, "created", started))
       ELSE UNCHANGED <<records, events>>
    /\ UNCHANGED <<clock, terms, accounts, revocations, calls>>

\* Only ids that a grant has returned can be named; another one is not found.
BeginRevoke(w, a) ==
    /\ writes[w].op = "idle" /\ records[a] # None
    /\ writes' = [writes EXCEPT ![w] =
                      [NoWrite EXCEPT !.op = "revoke", !.approval = a, !.started = clock]]
    /\ UNCHANGED <<clock, terms, accounts, history, calls>>

\* Mutants: the revocation is stamped with a time to come, or a second one is audited
\* like the first.
NextSecond(a, at) ==
    /\ revocations' = [revocations EXCEPT ![a] = IF @ = None THEN at + 1 ELSE @]
    /\ UNCHANGED events
AlwaysAudit(a, at) ==
    /\ revocations' = [revocations EXCEPT ![a] = IF @ = None THEN at ELSE @]
    /\ events' = Append(events, Event(a, "revoked", at))

\* INSERT ... ON CONFLICT DO NOTHING, audited only when it inserted.
InsertRevocation(a, at) ==
    IF revocations[a] = None
    THEN /\ revocations' = [revocations EXCEPT ![a] = at]
         /\ events' = Append(events, Event(a, "revoked", at))
    ELSE UNCHANGED <<revocations, events>>

\* policy_revoke_ai_approval; the lock on the record's row serialises revocations.
Revoke(w) ==
    /\ writes[w].op = "revoke"
    /\ InsertRevocation(writes[w].approval, writes[w].started)
    /\ writes' = [writes EXCEPT ![w] = NoWrite]
    /\ UNCHANGED <<clock, terms, accounts, records, calls>>

\* The connection fails; nothing is committed.
WriteFails(w) ==
    /\ writes[w].op # "idle"
    /\ writes' = [writes EXCEPT ![w] = NoWrite]
    /\ UNCHANGED <<clock, terms, accounts, history, calls>>

----------------------------------------------------------------------------
(* A protected load.                                                       *)

\* Mutant: the caller names the organization.
AnyOwner(x) == {o \in Orgs : accounts[x] # None}

\* The organization a context is issued for is read from the account's row.
OrganizationFor(x) == {o \in Orgs : accounts[x] = o}

\* The values that a context shows and that the registry remembers for the object.
RealTelegram(o, s) == [org |-> o, scope |-> s]

\* TelegramPolicyContextIssuer: the context of the account's organization.
IssueContext(c, x, s) ==
    /\ calls[c].pc = "idle"
    /\ \E o \in OrganizationFor(x) :
          calls' = [calls EXCEPT ![c] =
                        [NoCall EXCEPT !.pc = "issued", !.account = x,
                                       !.context = RealTelegram(o, s),
                                       !.claims = RealTelegram(o, s)]]
    /\ UNCHANGED <<clock, terms, accounts, history, writes>>

\* The issued object is changed, or a copy with its own fields is used instead (the
\* registry knows nothing of a copy); its holder takes it for what it now says.
Relabel(c, context) ==
    /\ calls[c].pc = "issued"
    /\ \E claims \in {calls[c].claims, None} :
          calls' = [calls EXCEPT ![c].context = context, ![c].claims = claims]
    /\ UNCHANGED <<clock, terms, accounts, history, writes>>

\* The registry resolves the very object it issued, while its fields are the claims.
Resolves(call) == call.claims # None /\ call.context = call.claims

Deny(c) == calls' = [calls EXCEPT ![c] = NoCall]

\* PolicyGate.evaluate resolves the context and the repository's transaction starts; an
\* untrusted context is denied.
Evaluate(c) ==
    /\ calls[c].pc = "issued"
    /\ IF Resolves(calls[c])
       THEN calls' = [calls EXCEPT ![c].pc = "reading", ![c].checked_at = clock,
                                   ![c].barred = Revoked]
       ELSE Deny(c)
    /\ UNCHANGED <<clock, terms, accounts, history, writes>>

\* Mutant: the outer join without its IS NULL.
Joined(a) == records[a] # None

Unrevoked(a) == records[a] # None /\ revocations[a] = None

Covers(record, context, revision, now) ==
    LET r == record.request IN
    /\ r.org = context.org
    /\ context.scope.channel \in r.channels
    /\ context.scope.category \in r.categories
    /\ context.scope.operation \in r.operations
    /\ r.terms = revision
    /\ record.approved_at <= now /\ now < r.expires

\* find_matching reads what is committed by now but compares with the time its
\* transaction started; the gate looks at the row again by the same clauses.
Matching(context, now) ==
    {a \in Approvals : Unrevoked(a) /\ Covers(records[a], context, terms, now)}

Decide(c) ==
    LET found == Matching(calls[c].context, calls[c].checked_at) IN
    /\ calls[c].pc = "reading"
    /\ \/ \E a \in found :     \* LIMIT 1 without an order
             calls' = [calls EXCEPT ![c].pc = "allowed", ![c].approval = a]
       \/ found = {} /\ Deny(c)
    /\ UNCHANGED <<clock, terms, accounts, history, writes>>

\* The repository is unavailable, or returns what cannot be validated: denied.
Unavailable(c) ==
    /\ calls[c].pc = "reading"
    /\ Deny(c)
    /\ UNCHANGED <<clock, terms, accounts, history, writes>>

\* load_content is awaited with the decision in hand.
Load(c) ==
    /\ calls[c].pc = "allowed"
    /\ calls' = [calls EXCEPT ![c].pc = "loaded"]
    /\ UNCHANGED <<clock, terms, accounts, history, writes>>

Return(c) ==
    /\ calls[c].pc = "loaded"
    /\ calls' = [calls EXCEPT ![c] = NoCall]
    /\ UNCHANGED <<clock, terms, accounts, history, writes>>

----------------------------------------------------------------------------
CallStep(c) ==
    \/ \E x \in Accounts, s \in Scopes : IssueContext(c, x, s)
    \/ \E context \in Contexts : Relabel(c, context)
    \/ Evaluate(c) \/ Decide(c) \/ Unavailable(c) \/ Load(c) \/ Return(c)

WriteStep(w) ==
    \/ \E r \in Grants : BeginGrant(w, r)
    \/ \E a \in Approvals : Grant(w, a) \/ BeginRevoke(w, a)
    \/ Revoke(w) \/ WriteFails(w)

Next ==
    \/ Tick
    \/ \E x \in Accounts, o \in Orgs : Provision(x, o)
    \/ \E t \in Terms : Restart(t)
    \/ \E c \in Callers : CallStep(c)
    \/ \E w \in Writers : WriteStep(w)

Spec == Init /\ [][Next]_vars

----------------------------------------------------------------------------
(* Properties.                                                             *)

\* The types of the tables, the calls and the administration requests.
TypeOK ==
    /\ clock \in Times /\ terms \in Terms
    /\ accounts \in [Accounts -> Orgs \cup {None}]
    /\ records \in [Approvals -> Records \cup {None}]
    /\ revocations \in [Approvals -> Times \cup {None}]
    /\ events \in Seq(Events)
    /\ calls \in [Callers -> Calls]
    /\ writes \in [Writers -> Writes]

Decided(c) == calls[c].pc \in {"allowed", "loaded"}

\* Content is loaded on an approval of the organization that owns the account, for the
\* scope the caller asked for, under the terms the process runs with, and within the
\* approval's window when its check began, whatever was granted, revoked, relabelled or
\* restarted between issuing the context, evaluating it and loading
\* (PolicyProtectedMessageLoader.load).
LoadIsCovered ==
    \A c \in Callers : Decided(c) =>
        LET a == calls[c].approval IN
        /\ records[a] # None
        /\ Covers(records[a], [org |-> accounts[calls[c].account], scope |-> calls[c].context.scope],
                  terms, calls[c].checked_at)

\* Once a revocation has committed, no load that is asked for afterwards is served on the
\* revoked approval, although evaluate compares with the time its transaction started
\* (policy_revoke_ai_approval, find_matching).
RevocationIsPrompt ==
    \A c \in Callers : Decided(c) => calls[c].approval \notin calls[c].barred

EventsOf(a, action) == {i \in 1..Len(events) : events[i].approval = a /\ events[i].action = action}

\* Each approval has one "created" event and each revocation one "revoked" event, later
\* and with the row's own time, however many administrators revoke at once or fail half
\* way (the two write functions pair a row with its event).
AuditTellsHistory ==
    \A a \in Approvals :
        /\ Cardinality(EventsOf(a, "created")) = (IF records[a] = None THEN 0 ELSE 1)
        /\ Cardinality(EventsOf(a, "revoked")) = (IF revocations[a] = None THEN 0 ELSE 1)
        /\ \A i \in EventsOf(a, "created") : events[i].at = records[a].approved_at
        /\ \A i \in EventsOf(a, "revoked") : events[i].at = revocations[a]
        /\ \A i \in EventsOf(a, "created"), j \in EventsOf(a, "revoked") : i < j
=============================================================================
