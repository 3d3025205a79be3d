-------------------------- MODULE PolicyGate_proofs --------------------------
(***************************************************************************)
(* Proofs about PolicyGate, for any tenants, accounts, scopes, approvals,  *)
(* callers, administrators and clock.                                      *)
(***************************************************************************)
EXTENDS PolicyGate, FiniteSetTheorems, TLAPS

USE PolicyAssumption

\* What an administration request carries is what its operation needs.
WriteInv ==
    \A w \in Writers :
        /\ writes[w].op = "grant" => writes[w].request \in Requests
        /\ writes[w].op = "revoke" => writes[w].approval \in Approvals

\* A call has the account and the context it was issued for.
CallInv ==
    \A c \in Callers : calls[c].pc # "idle" =>
        calls[c].account \in Accounts /\ calls[c].context \in Contexts

TInv == TypeOK /\ WriteInv /\ CallInv

\* A call's record is replaced by another one.
LEMMA CallReplaced ==
    ASSUME TInv, NEW c \in Callers, NEW k \in Calls,
           calls' = [calls EXCEPT ![c] = k],
           k.pc # "idle" => k.account \in Accounts /\ k.context \in Contexts,
           UNCHANGED <<clock, terms, accounts, history, writes>>
    PROVE  TInv'
BY DEF TInv, TypeOK, WriteInv, CallInv, history

LEMMA NoCallTyped == NoCall \in Calls /\ NoCall.pc = "idle"
BY DEF NoCall, Calls, Times

\* One step of a protected load leaves the types alone.
LEMMA CallTypes ==
    ASSUME TInv, NEW c \in Callers, CallStep(c)
    PROVE  TInv'
<1> DEFINE call == calls[c]
<1>0. /\ call \in Calls
      /\ call.pc # "idle" => call.account \in Accounts /\ call.context \in Contexts
  BY DEF TInv, TypeOK, CallInv
<1>1. ASSUME NEW x \in Accounts, NEW s \in Scopes, IssueContext(c, x, s) PROVE TInv'
  <2>1. PICK o \in Orgs : calls' = [calls EXCEPT ![c] =
                        [NoCall EXCEPT !.pc = "issued", !.account = x,
                                       !.context = RealTelegram(o, s),
                                       !.claims = RealTelegram(o, s)]]
    BY <1>1 DEF IssueContext, OrganizationFor
  <2>2. RealTelegram(o, s) \in Contexts
    BY DEF RealTelegram, Contexts
  <2> DEFINE k == [NoCall EXCEPT !.pc = "issued", !.account = x,
                                 !.context = RealTelegram(o, s), !.claims = RealTelegram(o, s)]
  <2>3. k \in Calls /\ k.account \in Accounts /\ k.context \in Contexts
    BY <2>2, NoCallTyped DEF Calls
  <2> QED BY <1>1, <2>1, <2>3, CallReplaced DEF IssueContext
<1>2. ASSUME NEW context \in Contexts, Relabel(c, context) PROVE TInv'
  <2>1. PICK claims \in {call.claims, None} :
            calls' = [calls EXCEPT ![c].context = context, ![c].claims = claims]
    BY <1>2 DEF Relabel
  <2> DEFINE k == [call EXCEPT !.context = context, !.claims = claims]
  <2>2. k \in Calls /\ (k.pc # "idle" => k.account \in Accounts /\ k.context \in Contexts)
    BY <1>0, <1>2 DEF Calls, Relabel
  <2>3. calls' = [calls EXCEPT ![c] = k]
    BY <2>1
  <2> QED BY <1>2, <2>2, <2>3, CallReplaced DEF Relabel
<1>3. CASE Evaluate(c)
  <2> DEFINE k == [call EXCEPT !.pc = "reading", !.checked_at = clock, !.barred = Revoked]
  <2>1. k \in Calls /\ k.account \in Accounts /\ k.context \in Contexts
    BY <1>0, <1>3 DEF Calls, Evaluate, Revoked, TInv, TypeOK
  <2>2. calls' = [calls EXCEPT ![c] = k] \/ calls' = [calls EXCEPT ![c] = NoCall]
    BY <1>3 DEF Evaluate, Deny
  <2> QED BY <1>3, <2>1, <2>2, NoCallTyped, CallReplaced DEF Evaluate
<1>4. CASE Decide(c)
  <2>1. CASE calls' = [calls EXCEPT ![c] = NoCall]
    BY <1>4, <2>1, NoCallTyped, CallReplaced DEF Decide
  <2>2. ASSUME NEW a \in Approvals,
               calls' = [calls EXCEPT ![c].pc = "allowed", ![c].approval = a]
        PROVE  TInv'
    <3> DEFINE k == [call EXCEPT !.pc = "allowed", !.approval = a]
    <3>1. k \in Calls /\ k.account \in Accounts /\ k.context \in Contexts
      BY <1>0, <1>4 DEF Calls, Decide
    <3>2. calls' = [calls EXCEPT ![c] = k]
      BY <2>2
    <3> QED BY <1>4, <3>1, <3>2, CallReplaced DEF Decide
  <2> QED BY <1>4, <2>1, <2>2 DEF Decide, Deny, Matching
<1>5. CASE Load(c)
  <2> DEFINE k == [call EXCEPT !.pc = "loaded"]
  <2>1. k \in Calls /\ k.account \in Accounts /\ k.context \in Contexts
    BY <1>0, <1>5 DEF Calls, Load
  <2>2. calls' = [calls EXCEPT ![c] = k]
    BY <1>5 DEF Load
  <2> QED BY <1>5, <2>1, <2>2, CallReplaced DEF Load
<1>6. CASE Unavailable(c) \/ Return(c)
  BY <1>6, NoCallTyped, CallReplaced DEF Unavailable, Return, Deny
<1> QED BY <1>1, <1>2, <1>3, <1>4, <1>5, <1>6 DEF CallStep

\* One step of an administration request leaves the types alone.
LEMMA WriteTypes ==
    ASSUME TInv, NEW w \in Writers, WriteStep(w)
    PROVE  TInv'
<1> USE DEF TInv, TypeOK, WriteInv, CallInv, history, Writes
<1>1. ASSUME NEW r \in Grants, BeginGrant(w, r) PROVE TInv'
  BY <1>1 DEF BeginGrant, NoWrite, Times
<1>2. ASSUME NEW a \in Approvals, Grant(w, a) PROVE TInv'
  <2>1. NoWrite \in Writes /\ NoWrite.op = "idle"
    BY DEF NoWrite, Times
  <2>2. writes[w] \in Writes /\ writes[w].op = "grant"
    BY <1>2 DEF Grant
  <2>3. writes[w].request \in Requests /\ writes[w].started \in Times
    BY <2>2
  <2>4. /\ [request |-> writes[w].request, approved_at |-> writes[w].started] \in Records
        /\ Event(a, "created", writes[w].started) \in Events
    BY <2>3 DEF Records, Event, Events
  <2>5. records' \in [Approvals -> Records \cup {None}]
    <3> DEFINE r == [request |-> writes[w].request, approved_at |-> writes[w].started]
    <3>1. records' = [records EXCEPT ![a] = r] \/ records' = records
      BY <1>2 DEF Grant
    <3> HIDE DEF r
    <3> QED BY <2>4, <3>1 DEF r
  <2>6. events' \in Seq(Events)
    <3>1. events' = Append(events, Event(a, "created", writes[w].started)) \/ events' = events
      BY <1>2 DEF Grant
    <3> QED BY <2>4, <3>1
  <2> QED BY <1>2, <2>1, <2>5, <2>6 DEF Grant
<1>3. ASSUME NEW a \in Approvals, BeginRevoke(w, a) PROVE TInv'
  BY <1>3 DEF BeginRevoke, NoWrite, Times
<1>4. CASE Revoke(w)
  <2>1. NoWrite \in Writes /\ NoWrite.op = "idle"
    BY DEF NoWrite, Times
  <2>2. writes[w].approval \in Approvals /\ writes[w].started \in Times
    BY <1>4 DEF Revoke
  <2>3. Event(writes[w].approval, "revoked", writes[w].started) \in Events
    BY <2>2 DEF Event, Events
  <2>4. \/ /\ revocations' = [revocations EXCEPT ![writes[w].approval] = writes[w].started]
           /\ events' = Append(events, Event(writes[w].approval, "revoked", writes[w].started))
        \/ UNCHANGED <<revocations, events>>
    BY <1>4 DEF Revoke, InsertRevocation
  <2>5. revocations' \in [Approvals -> Times \cup {None}]
    BY <2>2, <2>4
  <2>6. events' \in Seq(Events)
    BY <2>3, <2>4
  <2> QED BY <1>4, <2>1, <2>5, <2>6 DEF Revoke
<1>5. CASE WriteFails(w)
  BY <1>5 DEF WriteFails, NoWrite, Times
<1> QED BY <1>1, <1>2, <1>3, <1>4, <1>5 DEF WriteStep

\* The clock, new accounts and restarts leave the types alone.
LEMMA OtherTypes ==
    ASSUME TInv,
           \/ Tick
           \/ \E x \in Accounts, o \in Orgs : Provision(x, o)
           \/ \E t \in Terms : Restart(t)
           \/ UNCHANGED vars
    PROVE  TInv'
<1> USE DEF TInv, TypeOK, WriteInv, CallInv, history
<1>1. CASE Tick
  BY <1>1 DEF Tick, Times
<1>2. ASSUME NEW x \in Accounts, NEW o \in Orgs, Provision(x, o) PROVE TInv'
  BY <1>2 DEF Provision
<1>3. ASSUME NEW t \in Terms, Restart(t) PROVE TInv'
  BY <1>3 DEF Restart, NoCall, NoWrite, Calls, Writes, Times
<1>4. CASE UNCHANGED vars
  BY <1>4 DEF vars
<1> QED BY <1>1, <1>2, <1>3, <1>4

LEMMA TypeStep == TInv /\ [Next]_vars => TInv'
BY CallTypes, WriteTypes, OtherTypes DEF Next

LEMMA TypeInit == Init => TInv
BY DEF Init, TInv, TypeOK, WriteInv, CallInv, NoCall, NoWrite, Calls, Writes, Times

\* The tables, the calls and the administration requests keep their types, for any number
\* of them: approvals and revocations carry the database's own times.
THEOREM TypeCorrect == Spec => []TypeOK
<1>1. TInv => TypeOK
  BY DEF TInv
<1> QED BY <1>1, TypeInit, TypeStep, PTL DEF Spec

----------------------------------------------------------------------------
(* What is loaded was approved.  A decided call keeps its context, its     *)
(* account's organization, the approval's row and the terms until it       *)
(* returns: rows are only added, and new terms come with a new process.    *)

\* What the registry keeps for a context, and what passed its check, is the organization
\* of the account's row.
Trusted ==
    \A c \in Callers :
        /\ calls[c].pc # "idle" /\ calls[c].claims # None =>
              calls[c].claims.org \in Orgs /\ calls[c].claims.org = accounts[calls[c].account]
        /\ calls[c].pc \in {"reading", "allowed", "loaded"} =>
              calls[c].context.org \in Orgs /\ calls[c].context.org = accounts[calls[c].account]

\* What was revoked when the check began has stayed so.
Barred ==
    \A c \in Callers : calls[c].pc \in {"reading", "allowed", "loaded"} => calls[c].barred \subseteq Revoked

\* A decision names an approval that is there.
Approved ==
    \A c \in Callers : Decided(c) => calls[c].approval \in Approvals

LInv == Trusted /\ Barred /\ Approved /\ LoadIsCovered /\ RevocationIsPrompt

\* The rows that the invariant refers to are only added; the calls are as before.
LEMMA RowsOnlyAdded ==
    ASSUME TInv, LInv, UNCHANGED <<terms, calls>>,
           \A x \in Accounts : accounts[x] # None => accounts'[x] = accounts[x],
           \A a \in Approvals : records[a] # None => records'[a] = records[a],
           \A a \in Approvals : revocations[a] # None => revocations'[a] = revocations[a]
    PROVE  LInv'
<1>1. Trusted'
  BY DEF LInv, Trusted, TInv, CallInv
<1>2. Barred'
  BY DEF LInv, Barred, Revoked
<1>3. Approved' /\ RevocationIsPrompt'
  BY DEF LInv, Approved, RevocationIsPrompt, Decided
<1>4. LoadIsCovered'
  <2> SUFFICES ASSUME NEW c \in Callers, Decided(c)'
               PROVE  /\ records'[calls[c].approval] # None
                      /\ Covers(records'[calls[c].approval],
                                [org |-> accounts'[calls[c].account],
                                 scope |-> calls[c].context.scope], terms, calls[c].checked_at)
    BY DEF LoadIsCovered
  <2>1. Decided(c)
    BY DEF Decided
  <2>2. accounts'[calls[c].account] = accounts[calls[c].account]
    BY <2>1 DEF LInv, Trusted, Decided, TInv, CallInv
  <2>3. calls[c].approval \in Approvals /\ records[calls[c].approval] # None
    BY <2>1 DEF LInv, Approved, LoadIsCovered
  <2> QED BY <2>1, <2>2, <2>3 DEF LInv, LoadIsCovered
<1> QED BY <1>1, <1>2, <1>3, <1>4 DEF LInv

\* A step of one call: the others are as they were, and it satisfies the invariant.
LEMMA OneCallChanges ==
    ASSUME TInv, LInv, NEW c \in Callers, NEW k \in Calls,
           calls' = [calls EXCEPT ![c] = k],
           UNCHANGED <<clock, terms, accounts, history, writes>>,
           k.pc # "idle" /\ k.claims # None =>
              k.claims.org \in Orgs /\ k.claims.org = accounts[k.account],
           k.pc \in {"reading", "allowed", "loaded"} =>
              /\ k.context.org \in Orgs /\ k.context.org = accounts[k.account]
              /\ k.barred \subseteq Revoked,
           k.pc \in {"allowed", "loaded"} =>
              /\ k.approval \in Approvals \ k.barred
              /\ records[k.approval] # None
              /\ Covers(records[k.approval], [org |-> accounts[k.account], scope |-> k.context.scope],
                        terms, k.checked_at)
    PROVE  LInv'
<1>1. \A d \in Callers : calls'[d] = IF d = c THEN k ELSE calls[d]
  BY DEF TInv, TypeOK
<1> USE <1>1 DEF LInv, history
<1>2. Trusted'
  BY DEF Trusted
<1>3. Barred'
  BY DEF Barred, Revoked
<1>4. Approved' /\ RevocationIsPrompt'
  BY DEF Approved, RevocationIsPrompt, Decided
<1>5. LoadIsCovered'
  BY DEF LoadIsCovered, Decided
<1> QED BY <1>2, <1>3, <1>4, <1>5

LEMMA IdleCallChanges ==
    ASSUME TInv, LInv, NEW c \in Callers, calls' = [calls EXCEPT ![c] = NoCall],
           UNCHANGED <<clock, terms, accounts, history, writes>>
    PROVE  LInv'
<1>1. NoCall \in Calls /\ NoCall.pc = "idle"
  BY NoCallTyped
<1> QED BY <1>1, OneCallChanges

\* The steps of a protected load.
LEMMA CallKeeps ==
    ASSUME TInv, LInv, NEW c \in Callers, CallStep(c)
    PROVE  LInv'
<1> DEFINE call == calls[c]
<1>0. /\ call \in Calls
      /\ call.pc # "idle" => call.account \in Accounts /\ call.context \in Contexts
  BY DEF TInv, TypeOK, CallInv
<1>1. ASSUME NEW x \in Accounts, NEW s \in Scopes, IssueContext(c, x, s) PROVE LInv'
  <2>1. PICK o \in OrganizationFor(x) : calls' = [calls EXCEPT ![c] =
                        [NoCall EXCEPT !.pc = "issued", !.account = x,
                                       !.context = RealTelegram(o, s),
                                       !.claims = RealTelegram(o, s)]]
    BY <1>1 DEF IssueContext
  <2> DEFINE k == [NoCall EXCEPT !.pc = "issued", !.account = x,
                                 !.context = RealTelegram(o, s), !.claims = RealTelegram(o, s)]
  <2>2. o \in Orgs /\ accounts[x] = o
    BY DEF OrganizationFor
  <2>3. RealTelegram(o, s) \in Contexts /\ RealTelegram(o, s).org = o
    BY <2>2 DEF RealTelegram, Contexts
  <2>4. k \in Calls /\ k.pc = "issued" /\ k.account = x /\ k.claims = RealTelegram(o, s)
    BY <2>3, NoCallTyped DEF Calls
  <2> HIDE DEF k
  <2> QED BY <1>1, <2>1, <2>2, <2>3, <2>4, OneCallChanges DEF IssueContext, k
<1>2. ASSUME NEW context \in Contexts, Relabel(c, context) PROVE LInv'
  <2>1. PICK claims \in {call.claims, None} :
            calls' = [calls EXCEPT ![c].context = context, ![c].claims = claims]
    BY <1>2 DEF Relabel
  <2> DEFINE k == [call EXCEPT !.context = context, !.claims = claims]
  <2>2. /\ k \in Calls /\ k.pc = "issued" /\ k.account = call.account /\ k.claims = claims
        /\ call.pc = "issued"
    BY <1>0, <1>2 DEF Calls, Relabel
  <2>3. calls' = [calls EXCEPT ![c] = k]
    BY <2>1
  <2>4. k.claims # None => k.claims.org \in Orgs /\ k.claims.org = accounts[k.account]
    BY <2>2 DEF LInv, Trusted
  <2> HIDE DEF k
  <2> QED BY <1>2, <2>2, <2>3, <2>4, OneCallChanges DEF Relabel
<1>3. CASE Evaluate(c)
  <2>1. CASE ~Resolves(call)
    BY <1>3, <2>1, IdleCallChanges DEF Evaluate, Deny
  <2>2. CASE Resolves(call)
    <3> DEFINE k == [call EXCEPT !.pc = "reading", !.checked_at = clock, !.barred = Revoked]
    <3>1. calls' = [calls EXCEPT ![c] = k]
      BY <1>3, <2>2 DEF Evaluate
    <3>2. /\ k \in Calls /\ k.pc = "reading" /\ k.account = call.account
          /\ k.claims = call.claims /\ k.context = call.context /\ k.barred = Revoked
      BY <1>0, <1>3 DEF Calls, Evaluate, Revoked, TInv, TypeOK
    <3>3. call.claims.org \in Orgs /\ call.claims.org = accounts[call.account]
      BY <1>3, <2>2 DEF Evaluate, Resolves, LInv, Trusted
    <3>4. call.context = call.claims
      BY <2>2 DEF Resolves
    <3> HIDE DEF k
    <3> QED BY <1>3, <3>1, <3>2, <3>3, <3>4, OneCallChanges DEF Evaluate
  <2> QED BY <2>1, <2>2
<1>4. CASE Decide(c)
  <2>1. CASE calls' = [calls EXCEPT ![c] = NoCall]
    BY <1>4, <2>1, IdleCallChanges DEF Decide
  <2>2. ASSUME NEW a \in Matching(call.context, call.checked_at),
               calls' = [calls EXCEPT ![c].pc = "allowed", ![c].approval = a]
        PROVE  LInv'
    <3> DEFINE k == [call EXCEPT !.pc = "allowed", !.approval = a]
    <3>1. calls' = [calls EXCEPT ![c] = k]
      BY <2>2
    <3>2. /\ a \in Approvals /\ records[a] # None /\ revocations[a] = None
          /\ Covers(records[a], call.context, terms, call.checked_at)
      BY DEF Matching, Unrevoked
    <3>3. /\ k \in Calls /\ k.pc = "allowed" /\ k.account = call.account
          /\ k.claims = call.claims /\ k.context = call.context /\ k.barred = call.barred
          /\ k.approval = a /\ k.checked_at = call.checked_at
      BY <1>0, <1>4, <3>2 DEF Calls, Decide
    <3>4. call.pc = "reading"
      BY <1>4 DEF Decide
    <3>5. call.context.org \in Orgs /\ call.context.org = accounts[call.account]
      BY <3>4 DEF LInv, Trusted
    <3>6. call.barred \subseteq Revoked /\ a \notin Revoked
      BY <3>2, <3>4 DEF LInv, Barred, Revoked
    <3>7. Covers(records[a], [org |-> accounts[k.account], scope |-> k.context.scope],
                 terms, k.checked_at)
      BY <3>2, <3>3, <3>5 DEF Covers
    <3>8. call.claims # None =>
            call.claims.org \in Orgs /\ call.claims.org = accounts[call.account]
      BY <3>4 DEF LInv, Trusted
    <3> HIDE DEF k
    <3> QED
      BY <1>4, <3>1, <3>2, <3>3, <3>5, <3>6, <3>7, <3>8, OneCallChanges DEF Decide
  <2> QED BY <1>4, <2>1, <2>2 DEF Decide, Deny
<1>5. CASE Load(c)
  <2> DEFINE k == [call EXCEPT !.pc = "loaded"]
  <2>1. calls' = [calls EXCEPT ![c] = k] /\ call.pc = "allowed"
    BY <1>5 DEF Load
  <2>2. /\ k \in Calls /\ k.pc = "loaded" /\ k.account = call.account
        /\ k.claims = call.claims /\ k.context = call.context /\ k.barred = call.barred
        /\ k.approval = call.approval /\ k.checked_at = call.checked_at
    BY <1>0, <1>5 DEF Calls
  <2>3. Decided(c)
    BY <2>1 DEF Decided
  <2>4. /\ call.claims # None =>
             call.claims.org \in Orgs /\ call.claims.org = accounts[call.account]
        /\ call.context.org \in Orgs /\ call.context.org = accounts[call.account]
    BY <2>1 DEF LInv, Trusted
  <2>5. call.barred \subseteq Revoked /\ call.approval \in Approvals \ call.barred
    BY <2>1, <2>3 DEF LInv, Barred, Approved, RevocationIsPrompt
  <2>6. /\ records[call.approval] # None
        /\ Covers(records[call.approval],
                  [org |-> accounts[call.account], scope |-> call.context.scope],
                  terms, call.checked_at)
    BY <2>3 DEF LInv, LoadIsCovered
  <2>7. UNCHANGED <<clock, terms, accounts, history, writes>>
    BY <1>5 DEF Load
  <2>8. /\ k.approval \in Approvals \ k.barred /\ records[k.approval] # None
        /\ Covers(records[k.approval],
                  [org |-> accounts[k.account], scope |-> k.context.scope],
                  terms, k.checked_at)
    BY <2>2, <2>5, <2>6
  <2> HIDE DEF k
  <2> QED BY <2>1, <2>2, <2>4, <2>5, <2>7, <2>8, OneCallChanges
<1>6. CASE Unavailable(c) \/ Return(c)
  BY <1>6, IdleCallChanges DEF Unavailable, Return, Deny
<1> QED BY <1>1, <1>2, <1>3, <1>4, <1>5, <1>6 DEF CallStep

\* Administration only adds rows.
LEMMA WriteKeeps ==
    ASSUME TInv, LInv, NEW w \in Writers, WriteStep(w)
    PROVE  LInv'
<1> USE DEF history
<1>1. ASSUME NEW r \in Grants, BeginGrant(w, r) PROVE LInv'
  BY <1>1, RowsOnlyAdded DEF BeginGrant
<1>2. ASSUME NEW a \in Approvals, Grant(w, a) PROVE LInv'
  <2>1. \A b \in Approvals : records[b] # None => records'[b] = records[b]
    BY <1>2 DEF Grant, TInv, TypeOK
  <2> QED BY <1>2, <2>1, RowsOnlyAdded DEF Grant
<1>3. ASSUME NEW a \in Approvals, BeginRevoke(w, a) PROVE LInv'
  BY <1>3, RowsOnlyAdded DEF BeginRevoke
<1>4. CASE Revoke(w)
  <2>1. \A b \in Approvals : revocations[b] # None => revocations'[b] = revocations[b]
    BY <1>4 DEF Revoke, InsertRevocation, TInv, TypeOK
  <2> QED BY <1>4, <2>1, RowsOnlyAdded DEF Revoke
<1>5. CASE WriteFails(w)
  BY <1>5, RowsOnlyAdded DEF WriteFails
<1> QED BY <1>1, <1>2, <1>3, <1>4, <1>5 DEF WriteStep

LEMMA LoadStep == TInv /\ LInv /\ [Next]_vars => LInv'
<1> SUFFICES ASSUME TInv, LInv, [Next]_vars PROVE LInv'
  OBVIOUS
<1> USE DEF history
<1>1. CASE Tick
  BY <1>1, RowsOnlyAdded DEF Tick
<1>2. ASSUME NEW x \in Accounts, NEW o \in Orgs, Provision(x, o) PROVE LInv'
  <2>1. \A y \in Accounts : accounts[y] # None => accounts'[y] = accounts[y]
    BY <1>2 DEF Provision, TInv, TypeOK
  <2> QED BY <1>2, <2>1, RowsOnlyAdded DEF Provision
<1>3. ASSUME NEW t \in Terms, Restart(t) PROVE LInv'
  <2>1. \A c \in Callers : calls'[c] = NoCall
    BY <1>3 DEF Restart
  <2>2. \A c \in Callers : calls'[c].pc = "idle"
    BY <2>1, NoCallTyped
  <2> QED BY <2>2 DEF LInv, Trusted, Barred, Approved, LoadIsCovered, RevocationIsPrompt, Decided
<1>4. CASE UNCHANGED vars
  BY <1>4, RowsOnlyAdded DEF vars
<1> QED BY <1>1, <1>2, <1>3, <1>4, CallKeeps, WriteKeeps DEF Next

LEMMA LoadInit == Init => LInv
<1> SUFFICES ASSUME Init PROVE LInv
  OBVIOUS
<1>1. \A c \in Callers : calls[c].pc = "idle"
  BY NoCallTyped DEF Init
<1> QED BY <1>1 DEF LInv, Trusted, Barred, Approved, LoadIsCovered, RevocationIsPrompt, Decided

\* Whatever is granted, revoked, relabelled, restarted or connected meanwhile: what
\* PolicyProtectedMessageLoader.load serves was approved for the organization that owns
\* the account, for the scope asked for, under the terms in force.
THEOREM LoadsAreCovered == Spec => []LoadIsCovered
<1>1. LInv => LoadIsCovered
  BY DEF LInv
<1> QED BY <1>1, TypeInit, TypeStep, LoadInit, LoadStep, PTL DEF Spec

\* A committed revocation stops every load whose check begins after it, although both
\* sides compare with the time their transactions started (find_matching reads the rows
\* that are committed when it runs).
THEOREM RevocationsArePrompt == Spec => []RevocationIsPrompt
<1>1. LInv => RevocationIsPrompt
  BY DEF LInv
<1> QED BY <1>1, TypeInit, TypeStep, LoadInit, LoadStep, PTL DEF Spec

----------------------------------------------------------------------------
(* The audit.                                                              *)

\* The events of an approval, as sets: none, or one with the row's own time.
AuditInv ==
    \A a \in Approvals :
        /\ records[a] = None => EventsOf(a, "created") = {} /\ revocations[a] = None
        /\ records[a] # None =>
              \E i \in 1..Len(events) :
                  /\ EventsOf(a, "created") = {i}
                  /\ events[i].at = records[a].approved_at
                  /\ \A j \in EventsOf(a, "revoked") : i < j
        /\ revocations[a] = None => EventsOf(a, "revoked") = {}
        /\ revocations[a] # None =>
              \E j \in 1..Len(events) :
                  EventsOf(a, "revoked") = {j} /\ events[j].at = revocations[a]

\* Only an approval that is there is revoked.
RevokesApproved ==
    \A w \in Writers : writes[w].op = "revoke" => records[writes[w].approval] # None

AInv == AuditInv /\ RevokesApproved

\* Appending an event adds its index to one of the sets.
LEMMA EventAppended ==
    ASSUME TypeOK, NEW a \in Approvals, NEW action \in {"created", "revoked"}, NEW at \in Times,
           events' = Append(events, Event(a, action, at))
    PROVE  /\ Len(events') = Len(events) + 1 /\ Len(events) \in Nat
           /\ \A i \in 1..Len(events) : events'[i] = events[i]
           /\ events'[Len(events')].at = at
           /\ EventsOf(a, action)' = EventsOf(a, action) \cup {Len(events')}
           /\ \A b \in Approvals, other \in {"created", "revoked"} :
                 <<b, other>> # <<a, action>> => EventsOf(b, other)' = EventsOf(b, other)
<1> DEFINE e == Event(a, action, at)
<1>1. e \in Events /\ e.approval = a /\ e.action = action /\ e.at = at
  BY DEF Event, Events
<1>2. events \in Seq(Events)
  BY DEF TypeOK
<1>3. /\ Len(events') = Len(events) + 1 /\ Len(events) \in Nat
      /\ \A i \in 1..Len(events) : events'[i] = events[i]
      /\ events'[Len(events) + 1] = e
  <2> HIDE DEF e
  <2> QED BY <1>1, <1>2 DEF e
<1> HIDE DEF e
<1>4. EventsOf(a, action)' = EventsOf(a, action) \cup {Len(events')}
  BY <1>1, <1>3 DEF EventsOf
<1>5. ASSUME NEW b \in Approvals, NEW other \in {"created", "revoked"},
             <<b, other>> # <<a, action>>
      PROVE  EventsOf(b, other)' = EventsOf(b, other)
  BY <1>1, <1>3, <1>5 DEF EventsOf
<1> QED BY <1>1, <1>3, <1>4, <1>5

\* policy_grant_ai_approval writes the record and its event together.
LEMMA GrantAudited ==
    ASSUME TInv, AInv, NEW w \in Writers, NEW a \in Approvals, Grant(w, a)
    PROVE  AInv'
<1> DEFINE started == writes[w].started
           r == [request |-> writes[w].request, approved_at |-> started]
<1>1. writes[w] \in Writes /\ writes[w].op = "grant" /\ writes[w].request \in Requests
  BY DEF TInv, TypeOK, WriteInv, Grant
<1>2. started \in Times /\ r \in Records /\ r # None /\ r.approved_at = started
  BY <1>1 DEF Writes, Records
<1>3. \A v \in Writers : writes'[v] = IF v = w THEN NoWrite ELSE writes[v]
  BY DEF Grant, TInv, TypeOK
<1>4. NoWrite.op = "idle"
  BY DEF NoWrite
<1>5. revocations' = revocations /\ records[a] = None
  BY DEF Grant
<1>6. CASE UNCHANGED <<records, events>>
  <2>1. AuditInv'
    BY <1>5, <1>6 DEF AInv, AuditInv, EventsOf
  <2>2. RevokesApproved'
    BY <1>3, <1>4, <1>6 DEF AInv, RevokesApproved
  <2> QED BY <2>1, <2>2 DEF AInv
<1>7. CASE /\ records' = [records EXCEPT ![a] = r]
           /\ events' = Append(events, Event(a, "created", started))
  <2> HIDE DEF r, started
  <2>1. \A b \in Approvals : records'[b] = IF b = a THEN r ELSE records[b]
    BY <1>7 DEF TInv, TypeOK
  <2>2. /\ Len(events') = Len(events) + 1 /\ Len(events) \in Nat
        /\ \A i \in 1..Len(events) : events'[i] = events[i]
        /\ events'[Len(events')].at = started
        /\ EventsOf(a, "created")' = EventsOf(a, "created") \cup {Len(events')}
        /\ \A b \in Approvals, other \in {"created", "revoked"} :
              <<b, other>> # <<a, "created">> => EventsOf(b, other)' = EventsOf(b, other)
    BY <1>2, <1>7, EventAppended DEF TInv
  <2>3. EventsOf(a, "created") = {} /\ EventsOf(a, "revoked") = {} /\ revocations[a] = None
    BY <1>5 DEF AInv, AuditInv
  <2>4. EventsOf(a, "revoked")' = {} /\ EventsOf(a, "created")' = {Len(events')}
    BY <2>2, <2>3
  <2>5. Len(events') \in 1..Len(events')
    BY <2>2
  <2>6. AuditInv'
    <3> SUFFICES ASSUME NEW b \in Approvals
                 PROVE  /\ records'[b] = None => EventsOf(b, "created")' = {} /\ revocations'[b] = None
                        /\ records'[b] # None =>
                              \E i \in 1..Len(events') :
                                  /\ EventsOf(b, "created")' = {i}
                                  /\ events'[i].at = records'[b].approved_at
                                  /\ \A j \in EventsOf(b, "revoked")' : i < j
                        /\ revocations'[b] = None => EventsOf(b, "revoked")' = {}
                        /\ revocations'[b] # None =>
                              \E j \in 1..Len(events') :
                                  EventsOf(b, "revoked")' = {j} /\ events'[j].at = revocations'[b]
      BY DEF AuditInv
    <3>1. CASE b = a
      BY <1>2, <1>5, <2>1, <2>2, <2>3, <2>4, <2>5, <3>1
    <3>2. CASE b # a
      <4>1. /\ EventsOf(b, "created")' = EventsOf(b, "created")
            /\ EventsOf(b, "revoked")' = EventsOf(b, "revoked")
            /\ records'[b] = records[b] /\ revocations'[b] = revocations[b]
        BY <1>5, <2>1, <2>2, <3>2
      <4> QED BY <2>2, <4>1 DEF AInv, AuditInv
    <3> QED BY <3>1, <3>2
  <2>7. RevokesApproved'
    BY <1>2, <1>3, <1>4, <2>1 DEF AInv, RevokesApproved, TInv, WriteInv
  <2> QED BY <2>6, <2>7 DEF AInv
<1> QED BY <1>6, <1>7 DEF Grant

\* policy_revoke_ai_approval inserts the revocation with its event, or neither.
LEMMA RevokeAudited ==
    ASSUME TInv, AInv, NEW w \in Writers, Revoke(w)
    PROVE  AInv'
<1>0. writes[w] \in Writes /\ writes[w].op = "revoke" /\ writes[w].approval \in Approvals
  BY DEF TInv, TypeOK, WriteInv, Revoke
<1>1. PICK a \in Approvals : a = writes[w].approval
  BY <1>0
<1>2. PICK started \in Times : started = writes[w].started /\ started # None
  BY <1>0 DEF Writes, Times
<1>3. \A v \in Writers : writes'[v] = IF v = w THEN NoWrite ELSE writes[v]
  BY DEF Revoke, TInv, TypeOK
<1>4. NoWrite.op = "idle"
  BY DEF NoWrite
<1>5. records' = records /\ records[a] # None
  BY <1>0, <1>1 DEF Revoke, AInv, RevokesApproved
<1>6. RevokesApproved'
  BY <1>3, <1>4, <1>5 DEF AInv, RevokesApproved
<1>7. CASE UNCHANGED <<revocations, events>>
  <2>1. AuditInv'
    BY <1>5, <1>7 DEF AInv, AuditInv, EventsOf
  <2> QED BY <1>6, <2>1 DEF AInv
<1>8. CASE /\ revocations[a] = None
           /\ revocations' = [revocations EXCEPT ![a] = started]
           /\ events' = Append(events, Event(a, "revoked", started))
  <2>1. \A b \in Approvals : revocations'[b] = IF b = a THEN started ELSE revocations[b]
    BY <1>8 DEF TInv, TypeOK
  <2>2. /\ Len(events') = Len(events) + 1 /\ Len(events) \in Nat
        /\ \A i \in 1..Len(events) : events'[i] = events[i]
        /\ events'[Len(events')].at = started
        /\ EventsOf(a, "revoked")' = EventsOf(a, "revoked") \cup {Len(events')}
        /\ \A b \in Approvals, other \in {"created", "revoked"} :
              <<b, other>> # <<a, "revoked">> => EventsOf(b, other)' = EventsOf(b, other)
    BY <1>1, <1>2, <1>8, EventAppended DEF TInv
  <2>3. EventsOf(a, "revoked") = {}
    BY <1>1, <1>8 DEF AInv, AuditInv
  <2>4. EventsOf(a, "revoked")' = {Len(events')} /\ EventsOf(a, "created")' = EventsOf(a, "created")
    BY <1>1, <2>2, <2>3
  <2>5. Len(events') \in 1..Len(events')
    BY <2>2
  <2>6. AuditInv'
    <3> SUFFICES ASSUME NEW b \in Approvals
                 PROVE  /\ records'[b] = None => EventsOf(b, "created")' = {} /\ revocations'[b] = None
                        /\ records'[b] # None =>
                              \E i \in 1..Len(events') :
                                  /\ EventsOf(b, "created")' = {i}
                                  /\ events'[i].at = records'[b].approved_at
                                  /\ \A j \in EventsOf(b, "revoked")' : i < j
                        /\ revocations'[b] = None => EventsOf(b, "revoked")' = {}
                        /\ revocations'[b] # None =>
                              \E j \in 1..Len(events') :
                                  EventsOf(b, "revoked")' = {j} /\ events'[j].at = revocations'[b]
      BY DEF AuditInv
    <3>1. CASE b = a
      <4>1. PICK i \in 1..Len(events) :
                EventsOf(a, "created") = {i} /\ events[i].at = records[a].approved_at
        BY <1>1, <1>5 DEF AInv, AuditInv
      <4> QED BY <1>2, <1>5, <2>1, <2>2, <2>4, <2>5, <3>1, <4>1
    <3>2. CASE b # a
      <4>1. /\ EventsOf(b, "created")' = EventsOf(b, "created")
            /\ EventsOf(b, "revoked")' = EventsOf(b, "revoked")
            /\ records'[b] = records[b] /\ revocations'[b] = revocations[b]
        BY <1>5, <2>1, <2>2, <3>2
      <4> QED BY <2>2, <4>1 DEF AInv, AuditInv
    <3> QED BY <3>1, <3>2
  <2> QED BY <1>6, <2>6 DEF AInv
<1> QED BY <1>1, <1>2, <1>7, <1>8 DEF Revoke, InsertRevocation

\* Steps that write no row.
LEMMA Unaudited ==
    ASSUME TInv, AInv, UNCHANGED history,
           \A w \in Writers : writes'[w].op = "revoke" =>
               records[writes'[w].approval] # None
    PROVE  AInv'
BY DEF AInv, AuditInv, RevokesApproved, EventsOf, history

LEMMA AuditStep == TInv /\ AInv /\ [Next]_vars => AInv'
<1> SUFFICES ASSUME TInv, AInv, [Next]_vars PROVE AInv'
  OBVIOUS
<1>1. CASE UNCHANGED <<history, writes>>
  BY <1>1, Unaudited DEF AInv, RevokesApproved
<1>2. NoWrite.op = "idle"
  BY DEF NoWrite
<1>3. ASSUME NEW w \in Writers, WriteStep(w) PROVE AInv'
  <2>1. ASSUME NEW r \in Grants, BeginGrant(w, r) PROVE AInv'
    <3>1. \A v \in Writers : v # w => writes'[v] = writes[v]
      BY <2>1 DEF BeginGrant, TInv, TypeOK
    <3>2. writes'[w].op = "grant"
      BY <2>1 DEF BeginGrant, TInv, TypeOK, NoWrite
    <3> QED BY <2>1, <3>1, <3>2, Unaudited DEF BeginGrant, AInv, RevokesApproved
  <2>2. ASSUME NEW a \in Approvals, BeginRevoke(w, a) PROVE AInv'
    <3>1. \A v \in Writers : v # w => writes'[v] = writes[v]
      BY <2>2 DEF BeginRevoke, TInv, TypeOK
    <3>2. writes'[w].approval = a
      BY <2>2 DEF BeginRevoke, TInv, TypeOK, NoWrite
    <3> QED BY <2>2, <3>1, <3>2, Unaudited DEF BeginRevoke, AInv, RevokesApproved
  <2>3. CASE WriteFails(w)
    <3>1. \A v \in Writers : writes'[v] = IF v = w THEN NoWrite ELSE writes[v]
      BY <2>3 DEF WriteFails, TInv, TypeOK
    <3> QED BY <1>2, <2>3, <3>1, Unaudited DEF WriteFails, AInv, RevokesApproved
  <2> QED BY <1>3, <2>1, <2>2, <2>3, GrantAudited, RevokeAudited DEF WriteStep
<1>4. ASSUME NEW t \in Terms, Restart(t) PROVE AInv'
  BY <1>2, <1>4, Unaudited DEF Restart
<1>5. ASSUME NEW c \in Callers, CallStep(c) PROVE UNCHANGED <<history, writes>>
  BY <1>5 DEF CallStep, IssueContext, Relabel, Evaluate, Decide, Unavailable, Load, Return
<1> QED
  BY <1>1, <1>3, <1>4, <1>5 DEF Next, Tick, Provision, vars, history

LEMMA AuditInit == Init => AInv
BY DEF Init, AInv, AuditInv, RevokesApproved, EventsOf, NoWrite

\* Exactly one "created" event for each approval and one "revoked" event for each
\* revocation, in this order and with the times of the rows, for any number of
\* administrators that race or fail (the write functions of migration 0001).
THEOREM AuditIsHistory == Spec => []AuditTellsHistory
<1>1. AInv => AuditTellsHistory
  <2> SUFFICES ASSUME AInv, NEW a \in Approvals
               PROVE  /\ Cardinality(EventsOf(a, "created")) = (IF records[a] = None THEN 0 ELSE 1)
                      /\ Cardinality(EventsOf(a, "revoked")) = (IF revocations[a] = None THEN 0 ELSE 1)
                      /\ \A i \in EventsOf(a, "created") : events[i].at = records[a].approved_at
                      /\ \A i \in EventsOf(a, "revoked") : events[i].at = revocations[a]
                      /\ \A i \in EventsOf(a, "created"), j \in EventsOf(a, "revoked") : i < j
    BY DEF AuditTellsHistory
  <2>1. Cardinality({}) = 0 /\ \A i : Cardinality({i}) = 1
    BY FS_EmptySet, FS_Singleton
  <2>2. CASE records[a] = None
    BY <2>1, <2>2 DEF AInv, AuditInv
  <2>3. CASE records[a] # None
    <3>1. PICK i \in 1..Len(events) :
              /\ EventsOf(a, "created") = {i}
              /\ events[i].at = records[a].approved_at
              /\ \A j \in EventsOf(a, "revoked") : i < j
      BY <2>3 DEF AInv, AuditInv
    <3>2. CASE revocations[a] = None
      BY <2>1, <2>3, <3>1, <3>2 DEF AInv, AuditInv
    <3>3. CASE revocations[a] # None
      <4>1. PICK j \in 1..Len(events) :
                EventsOf(a, "revoked") = {j} /\ events[j].at = revocations[a]
        BY <3>3 DEF AInv, AuditInv
      <4> QED BY <2>1, <2>3, <3>1, <3>3, <4>1
    <3> QED BY <3>2, <3>3
  <2> QED BY <2>2, <2>3
<1> QED BY <1>1, TypeInit, TypeStep, AuditInit, AuditStep, PTL DEF Spec
=============================================================================
