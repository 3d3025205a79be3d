-------------------- MODULE ConnectionSupervisor_proofs --------------------
(***************************************************************************)
(* Proofs about ConnectionSupervisor for any number of supervisors and     *)
(* stop calls: type correctness, no claim on a terminal row, terminal      *)
(* states left by operators only, late writes fenced off, a durable retry  *)
(* budget, and no open client out of reach.                                *)
(***************************************************************************)
EXTENDS ConnectionSupervisor, TLAPS

\* The row's columns agree: an owner comes with a lease, a terminal state with neither.
GoodRow(r) ==
    /\ r \in Rows
    /\ r.owner = None <=> r.lease = "none"
    /\ r.state \in Terminal => r.owner = None /\ r.retry = "none"

\* The inductive invariant, by owner of the state: tasks refer to things that
\* exist, and no session is newer than the newest import.
RowInv == GoodRow(row) /\ row.session <= sessions
RunInv ==
    /\ run \in [Supervisors -> Runs]
    /\ \A s \in Supervisors :
          /\ run[s].session <= sessions
          /\ run[s].pc \in {"connect", "authorize", "activate"} =>
                run[s].client \in Clients /\ home[run[s].client] = s
LocalInv ==
    /\ clients \in [Supervisors -> Clients \cup {0}]
    /\ monitorTasks \in [Supervisors -> Clients \cup {0}]
    /\ monitor \in [Clients -> Monitors]
    /\ connected \subseteq Clients
    /\ home \in [Clients -> Supervisors \cup {None}]
    /\ \A c \in Clients : monitor[c].pc # "none" => home[c] \in Supervisors
StopInv ==
    /\ stop \in [Stops -> StopCalls]
    /\ \A o \in Stops : stop[o].pc # "idle" => stop[o].sup \in Supervisors
CallsInv ==
    /\ late \in [Supervisors -> Runs]
    /\ \A s \in Supervisors : late[s].session <= sessions
    /\ resume # None => GoodRow(resume) /\ resume.state = "paused" /\ resume.session <= sessions
CountInv == sessions \in Nat /\ assigned \in Nat /\ issued \in Nat

IInv == RowInv /\ RunInv /\ LocalInv /\ StopInv /\ CallsInv /\ CountInv

----------------------------------------------------------------------------
\* The columns of a good row.
LEMMA RowColumns ==
    ASSUME NEW r, GoodRow(r)
    PROVE  /\ r = [state |-> r.state, session |-> r.session, version |-> r.version,
                   owner |-> r.owner, lease |-> r.lease, fence |-> r.fence,
                   retries |-> r.retries, retry |-> r.retry]
           /\ r.state \in Terminal \cup {"quarantine", "active", "limited"}
           /\ r.session \in Nat /\ r.version \in Nat /\ r.owner \in Supervisors \cup {None}
           /\ r.lease \in {"none", "live", "expired"} /\ r.fence \in Nat
           /\ r.retries \in Nat /\ r.retry \in {"none", "set"}
           /\ r.owner = None <=> r.lease = "none"
           /\ r.state \in Terminal => r.owner = None /\ r.retry = "none"
BY DEF GoodRow, Rows

\* force_terminal leaves the row's columns in agreement and its session alone.
LEMMA ForcedRow ==
    ASSUME GoodRow(row), NEW state \in {"paused", "archived"}
    PROVE  /\ GoodRow(ForceTerminalRow(state))
           /\ ForceTerminalRow(state).session = row.session
<1>0. /\ row \in Rows
      /\ row.session \in Nat /\ row.version + 1 \in Nat /\ row.fence + 1 \in Nat
      /\ row.retries \in Nat
  <2>1. row.version \in Nat /\ row.fence \in Nat
    BY RowColumns
  <2> QED
    BY <2>1, RowColumns DEF GoodRow
<1>1. CASE row.state # "archived"
  <2>1. state \in Terminal
    BY DEF Terminal
  <2>2. /\ ForceTerminalRow(state) \in Rows
        /\ ForceTerminalRow(state).state = state /\ ForceTerminalRow(state).owner = None
        /\ ForceTerminalRow(state).lease = "none" /\ ForceTerminalRow(state).retry = "none"
        /\ ForceTerminalRow(state).session = row.session
    BY <1>0, <1>1, <2>1 DEF ForceTerminalRow, Rows
  <2> QED
    BY <2>1, <2>2 DEF GoodRow
<1> QED
  BY <1>1 DEF ForceTerminalRow

\* Each transaction of a claim's owner leaves the row's columns in agreement.
LEMMA GoodRows ==
    ASSUME GoodRow(row), NEW s \in Supervisors
    PROVE  /\ Claimable => GoodRow(ClaimRow(s))
           /\ \A t \in Runs \cup Monitors : GoodRow(RenewRow(t, s)) /\ GoodRow(FailClosedRow(t, s))
           /\ \A t \in Runs : GoodRow(ActiveRow(t, s))
           /\ \A t \in Runs, e \in BOOLEAN : GoodRow(FailureRow(t, s, e))
<1> USE SupervisorAssumption
<1>0. /\ row \in Rows
      /\ row.state \in Terminal \cup {"quarantine", "active", "limited"}
      /\ row.session \in Nat /\ row.version + 1 \in Nat /\ row.owner \in Supervisors \cup {None}
      /\ row.lease \in {"none", "live", "expired"} /\ row.fence \in Nat /\ row.fence + 1 \in Nat
      /\ row.retries \in Nat /\ row.retry \in {"none", "set"}
  <2>1. row.version \in Nat /\ row.fence \in Nat
    BY RowColumns
  <2> QED
    BY <2>1, RowColumns DEF GoodRow
<1>1. ASSUME Claimable PROVE GoodRow(ClaimRow(s))
  <2>1. /\ ClaimRow(s) \in Rows
        /\ ClaimRow(s).state = row.state /\ ClaimRow(s).owner = s
        /\ ClaimRow(s).lease = "live" /\ ClaimRow(s).retry = row.retry
    BY <1>0 DEF ClaimRow, Rows
  <2>2. row.state \notin Terminal
    BY <1>1 DEF Claimable
  <2> QED
    BY <1>0, <2>1, <2>2 DEF GoodRow
<1>2. ASSUME NEW t \in Runs \cup Monitors PROVE GoodRow(RenewRow(t, s))
  <2>1. CASE Renewable(t, s)
    <3>1. /\ RenewRow(t, s) \in Rows
          /\ RenewRow(t, s).state = row.state /\ RenewRow(t, s).owner = s
          /\ RenewRow(t, s).lease = "live" /\ RenewRow(t, s).retry = row.retry
      BY <2>1, <1>0 DEF RenewRow, Renewable, OwnsClaim, ClaimMatches, Rows
    <3>2. row.state \notin Terminal
      BY <2>1 DEF Renewable
    <3> QED
      BY <1>0, <3>1, <3>2 DEF GoodRow
  <2> QED
    BY <2>1 DEF RenewRow
<1>3. ASSUME NEW t \in Runs \cup Monitors PROVE GoodRow(FailClosedRow(t, s))
  <2>1. CASE ClaimMatches(t, s)
    <3>1. /\ FailClosedRow(t, s) \in Rows
          /\ FailClosedRow(t, s).state = "quarantine" /\ FailClosedRow(t, s).owner = None
          /\ FailClosedRow(t, s).lease = "none" /\ FailClosedRow(t, s).retry = "none"
      BY <2>1, <1>0 DEF FailClosedRow, Rows
    <3>2. "quarantine" \notin Terminal
      BY DEF Terminal
    <3> QED
      BY <1>0, <3>1, <3>2 DEF GoodRow
  <2> QED
    BY <2>1 DEF FailClosedRow
<1>4. ASSUME NEW t \in Runs, NEW state \in Terminal \cup {"quarantine", "active", "limited"},
             NEW retries \in Nat, NEW retry \in {"none", "set"}, NEW release \in BOOLEAN,
             state \in Terminal => release /\ retry = "none"
      PROVE  GoodRow(SaveClaimed(t, s, state, retries, retry, release))
  <2> DEFINE X == SaveClaimed(t, s, state, retries, retry, release)
  <2>1. CASE ~OwnsClaim(t, s)
    BY <2>1 DEF SaveClaimed
  <2>2. CASE OwnsClaim(t, s) /\ release
    <3>0. t.session \in Nat
      BY DEF Runs
    <3>1. /\ X \in Rows
          /\ X.state = state /\ X.owner = None
          /\ X.lease = "none" /\ X.retry = retry
      BY <3>0, <2>2, <1>0 DEF SaveClaimed, Rows
    <3> QED
      BY <1>0, <1>4, <3>1 DEF GoodRow
  <2>3. CASE OwnsClaim(t, s) /\ ~release
    <3>0. t.session \in Nat
      BY DEF Runs
    <3>1. /\ X \in Rows
          /\ X.state = state /\ X.owner = s
          /\ X.lease = "live" /\ X.retry = retry
      BY <3>0, <2>3, <1>0 DEF SaveClaimed, OwnsClaim, Rows
    <3> QED
      BY <1>0, <1>4, <2>3, <3>1 DEF GoodRow
  <2> QED
    BY <2>1, <2>2, <2>3
<1>5. ASSUME NEW t \in Runs PROVE GoodRow(ActiveRow(t, s))
  <2>1. "active" \notin Terminal
    BY DEF Terminal
  <2> QED
    BY <1>4, <2>1 DEF ActiveRow
<1>6. ASSUME NEW t \in Runs, NEW e \in BOOLEAN PROVE GoodRow(FailureRow(t, s, e))
  <2>1. t.retries \in Nat /\ t.retries + 1 \in Nat
    BY DEF Runs
  <2>2. /\ {"reauth_required", "blocked"} \subseteq Terminal
        /\ "limited" \notin Terminal /\ "quarantine" \notin Terminal
    BY DEF Terminal
  <2>3. CASE t.why = "auth"
    BY <2>1, <2>2, <2>3, <1>4 DEF FailureRow
  <2>4. CASE t.why \in {"block", "unavailable"}
    BY <2>1, <2>2, <2>4, <1>4 DEF FailureRow
  <2>5. CASE t.why \notin {"auth", "block", "unavailable"} /\ e
    <3>1. FailureRow(t, s, e) = SaveClaimed(t, s, "blocked", t.retries + 1, "none", e)
      BY <2>5 DEF FailureRow
    <3> QED
      BY <2>1, <2>2, <2>5, <3>1, <1>4
  <2>6. CASE t.why \notin {"auth", "block", "unavailable"} /\ ~e
    <3>1. PICK state \in {"limited", "quarantine"} :
             FailureRow(t, s, e) = SaveClaimed(t, s, state, t.retries + 1, "set", e)
      BY <2>6 DEF FailureRow
    <3> QED
      BY <2>1, <2>2, <2>6, <3>1, <1>4
  <2> QED
    BY <2>3, <2>4, <2>5, <2>6
<1> QED
  BY <1>1, <1>2, <1>3, <1>5, <1>6

\* The inductive invariant implies type correctness.
LEMMA InvTypes == IInv => TypeOK
BY DEF IInv, RowInv, RunInv, LocalInv, StopInv, CallsInv, CountInv, TypeOK, GoodRow

\* A transaction writes a session the account has had, never a newer one.
LEMMA SessionKept ==
    ASSUME RowInv, CountInv, NEW s \in Supervisors
    PROVE  /\ ClaimRow(s).session = row.session
           /\ \A t : RenewRow(t, s).session = row.session /\ FailClosedRow(t, s).session = row.session
           /\ \A t \in Runs : t.session <= sessions =>
                 /\ ActiveRow(t, s).session <= sessions
                 /\ \A e \in BOOLEAN : FailureRow(t, s, e).session <= sessions
<1> USE DEF RowInv, CountInv, GoodRow, Rows
<1>1. ClaimRow(s).session = row.session
  BY DEF ClaimRow
<1>2. \A t : RenewRow(t, s).session = row.session /\ FailClosedRow(t, s).session = row.session
  BY DEF RenewRow, FailClosedRow
<1>3. ASSUME NEW t \in Runs, t.session <= sessions, NEW state, NEW retries, NEW retry, NEW release
      PROVE  SaveClaimed(t, s, state, retries, retry, release).session <= sessions
  BY <1>3 DEF SaveClaimed
<1>4. ASSUME NEW t \in Runs, t.session <= sessions
      PROVE  /\ ActiveRow(t, s).session <= sessions
             /\ \A e \in BOOLEAN : FailureRow(t, s, e).session <= sessions
  BY <1>3, <1>4 DEF ActiveRow, FailureRow
<1> QED
  BY <1>1, <1>2, <1>4

\* Clients are numbered from 1.
LEMMA ClientNumbers == \A c : c \in Clients \/ c = 0 => c \in Nat
<1>1. MaxClients \in Nat
  BY SupervisorAssumption
<1> QED
  BY <1>1 DEF Clients

\* Replacing one task's record by a well-formed one.
LEMMA RunUpdate ==
    ASSUME RunInv, NEW s \in Supervisors, NEW r \in Runs,
           run' = [run EXCEPT ![s] = r], home' = home, sessions' = sessions,
           r.session <= sessions,
           r.pc \in {"connect", "authorize", "activate"} => r.client \in Clients /\ home[r.client] = s
    PROVE  RunInv'
BY DEF RunInv

\* Replacing one stop call's record by a well-formed one.
LEMMA StopUpdate ==
    ASSUME StopInv, NEW o \in Stops, NEW r \in StopCalls, r.sup \in Supervisors,
           stop' = [stop EXCEPT ![o] = r]
    PROVE  StopInv'
BY DEF StopInv

\* Every step preserves the inductive invariant.
LEMMA InductiveStep == IInv /\ [Next]_vars => IInv'
<1> SUFFICES ASSUME IInv, [Next]_vars PROVE IInv'
  OBVIOUS
<1> USE SupervisorAssumption DEF IInv, CountInv, calls, local, proxy
<1>1. ASSUME NEW s \in Supervisors, Start(s) PROVE IInv'
  <2>1. RowInv'
    BY <1>1, GoodRows, SessionKept DEF Start, RunGoto, RowInv
  <2>2. RunInv'
    <3>1. run[s] \in Runs /\ run[s].session <= sessions
      BY DEF RunInv
    <3>2. NoRun \in Runs /\ NoRun.session <= sessions /\ NoRun.pc = "none"
      BY DEF NoRun, Runs
    <3>3. /\ row'.version \in Nat /\ row'.fence \in Nat /\ row.session \in Nat /\ row.retries \in Nat
          /\ row.session <= sessions
      BY <2>1, RowColumns DEF RowInv
    <3>4. CASE run' = [run EXCEPT ![s] = [NoRun EXCEPT !.pc = "renew", !.version = row'.version, !.fence = row'.fence,
                                         !.session = row.session, !.retries = row.retries]]
      <4> DEFINE r == [NoRun EXCEPT !.pc = "renew", !.version = row'.version, !.fence = row'.fence,
                                         !.session = row.session, !.retries = row.retries]
      <4>1. r \in Runs /\ r.pc = "renew"
        BY <3>1, <3>2, <3>3 DEF Runs
      <4>2. r.session <= sessions
        BY <3>1, <3>2, <3>3 DEF Runs
      <4> QED
        BY <1>1, <3>4, <4>1, <4>2, RunUpdate DEF Start
    <3>5. CASE run' = run
      BY <1>1, <3>5 DEF Start, RunInv
    <3> QED
      BY <1>1, <3>4, <3>5 DEF Start, RunGoto
  <2>3. LocalInv'
    BY <1>1 DEF Start, RunGoto, LocalInv
  <2>4. StopInv'
    BY <1>1 DEF Start, RunGoto, StopInv
  <2>5. CallsInv'
    BY <1>1 DEF Start, RunGoto, CallsInv
  <2>6. CountInv'
    BY <1>1 DEF Start, RunGoto
  <2> QED
    BY <2>1, <2>2, <2>3, <2>4, <2>5, <2>6
<1>2. ASSUME NEW s \in Supervisors, Renew(s) PROVE IInv'
  <2>1. RowInv'
    BY <1>2, GoodRows, SessionKept DEF Renew, RunGoto, RunEnds, RowInv, RunInv
  <2>2. RunInv'
    <3>1. run[s] \in Runs /\ run[s].session <= sessions
      BY DEF RunInv
    <3>2. NoRun \in Runs /\ NoRun.session <= sessions /\ NoRun.pc = "none"
      BY DEF NoRun, Runs
    <3>3. /\ row'.version \in Nat /\ row.session \in Nat /\ row.retries \in Nat
          /\ row.session <= sessions
      BY <2>1, RowColumns DEF RowInv
    <3>4. CASE run' = [run EXCEPT ![s] = [run[s] EXCEPT !.pc = "acquire", !.why = "none", !.version = row'.version,
                                         !.session = row.session, !.retries = row.retries]]
      <4> DEFINE r == [run[s] EXCEPT !.pc = "acquire", !.why = "none", !.version = row'.version,
                                         !.session = row.session, !.retries = row.retries]
      <4>1. r \in Runs /\ r.pc = "acquire"
        BY <3>1, <3>3 DEF Runs
      <4>2. r.session <= sessions
        BY <3>1, <3>3 DEF Runs
      <4> QED
        BY <1>2, <3>4, <4>1, <4>2, RunUpdate DEF Renew
    <3>5. CASE run' = [run EXCEPT ![s] = [run[s] EXCEPT !.pc = "sleep", !.why = "none", !.version = row'.version,
                                         !.session = row.session, !.retries = row.retries]]
      <4> DEFINE r == [run[s] EXCEPT !.pc = "sleep", !.why = "none", !.version = row'.version,
                                         !.session = row.session, !.retries = row.retries]
      <4>1. r \in Runs /\ r.pc = "sleep"
        BY <3>1, <3>3 DEF Runs
      <4>2. r.session <= sessions
        BY <3>1, <3>3 DEF Runs
      <4> QED
        BY <1>2, <3>5, <4>1, <4>2, RunUpdate DEF Renew
    <3>6. CASE run' = [run EXCEPT ![s] = NoRun]
      BY <1>2, <3>2, <3>6, RunUpdate DEF Renew
    <3> QED
      BY <1>2, <3>4, <3>5, <3>6 DEF Renew, RunGoto, RunEnds
  <2>3. LocalInv'
    BY <1>2 DEF Renew, RunGoto, RunEnds, LocalInv
  <2>4. StopInv'
    BY <1>2 DEF Renew, RunGoto, RunEnds, StopInv
  <2>5. CallsInv'
    BY <1>2 DEF Renew, RunGoto, RunEnds, CallsInv
  <2>6. CountInv'
    BY <1>2 DEF Renew, RunGoto, RunEnds
  <2> QED
    BY <2>1, <2>2, <2>3, <2>4, <2>5, <2>6
<1>3. ASSUME NEW s \in Supervisors, Sleep(s) PROVE IInv'
  <2>1. RowInv'
    BY <1>3 DEF Sleep, RunGoto, RunEnds, RowInv
  <2>2. RunInv'
    <3>1. run[s] \in Runs /\ run[s].session <= sessions
      BY DEF RunInv
    <3>2. NoRun \in Runs /\ NoRun.session <= sessions /\ NoRun.pc = "none"
      BY DEF NoRun, Runs
    <3>4. CASE run' = [run EXCEPT ![s] = [run[s] EXCEPT !.pc = "renew", !.why = "slept"]]
      <4> DEFINE r == [run[s] EXCEPT !.pc = "renew", !.why = "slept"]
      <4>1. r \in Runs /\ r.pc = "renew"
        BY <3>1 DEF Runs
      <4>2. r.session <= sessions
        BY <3>1 DEF Runs
      <4> QED
        BY <1>3, <3>4, <4>1, <4>2, RunUpdate DEF Sleep
    <3>5. CASE run' = [run EXCEPT ![s] = NoRun]
      BY <1>3, <3>2, <3>5, RunUpdate DEF Sleep
    <3> QED
      BY <1>3, <3>4, <3>5 DEF Sleep, RunGoto, RunEnds
  <2>3. LocalInv'
    BY <1>3 DEF Sleep, RunGoto, RunEnds, LocalInv
  <2>4. StopInv'
    BY <1>3 DEF Sleep, RunGoto, RunEnds, StopInv
  <2>5. CallsInv'
    BY <1>3 DEF Sleep, RunGoto, RunEnds, CallsInv
  <2>6. CountInv'
    BY <1>3 DEF Sleep, RunGoto, RunEnds
  <2> QED
    BY <2>1, <2>2, <2>3, <2>4, <2>5, <2>6
<1>4. ASSUME NEW s \in Supervisors, CheckProxy(s) PROVE IInv'
  <2>1. RowInv'
    BY <1>4 DEF CheckProxy, RunGoto, Fails, RowInv
  <2>2. RunInv'
    <3>1. run[s] \in Runs /\ run[s].session <= sessions
      BY DEF RunInv
    <3>2. NoRun \in Runs /\ NoRun.session <= sessions /\ NoRun.pc = "none"
      BY DEF NoRun, Runs
    <3>3. CASE \E why \in Failure \cup {"gone", "lost", "unavailable"} : Fails(s, why)
      <4> PICK why \in Failure \cup {"gone", "lost", "unavailable"} : Fails(s, why)
        BY <3>3
      <4> DEFINE r == [run[s] EXCEPT !.pc = "release", !.why = why]
      <4>1. r \in Runs /\ r.pc = "release"
        BY <3>1 DEF Runs, Failure
      <4>2. r.session <= sessions
        BY <3>1 DEF Runs
      <4> QED
        BY <1>4, <4>1, <4>2, RunUpdate DEF CheckProxy, Fails, RunGoto
    <3>4. CASE run' = [run EXCEPT ![s] = [run[s] EXCEPT !.pc = "create"]]
      <4> DEFINE r == [run[s] EXCEPT !.pc = "create"]
      <4>1. r \in Runs /\ r.pc = "create"
        BY <3>1 DEF Runs
      <4>2. r.session <= sessions
        BY <3>1 DEF Runs
      <4> QED
        BY <1>4, <3>4, <4>1, <4>2, RunUpdate DEF CheckProxy
    <3> QED
      BY <1>4, <3>3, <3>4 DEF CheckProxy, RunGoto
  <2>3. LocalInv'
    BY <1>4 DEF CheckProxy, RunGoto, Fails, LocalInv
  <2>4. StopInv'
    BY <1>4 DEF CheckProxy, RunGoto, Fails, StopInv
  <2>5. CallsInv'
    BY <1>4 DEF CheckProxy, RunGoto, Fails, CallsInv
  <2>6. CountInv'
    BY <1>4 DEF CheckProxy, RunGoto, Fails
  <2> QED
    BY <2>1, <2>2, <2>3, <2>4, <2>5, <2>6
<1>5. ASSUME NEW s \in Supervisors, Handshake(s) PROVE IInv'
  <2>1. RowInv'
    BY <1>5 DEF Handshake, RunGoto, Fails, RowInv
  <2>2. RunInv'
    <3>1. run[s] \in Runs /\ run[s].session <= sessions
      BY DEF RunInv
    <3>2. NoRun \in Runs /\ NoRun.session <= sessions /\ NoRun.pc = "none"
      BY DEF NoRun, Runs
    <3>3. CASE \E why \in Failure \cup {"gone", "lost", "unavailable"} : Fails(s, why)
      <4> PICK why \in Failure \cup {"gone", "lost", "unavailable"} : Fails(s, why)
        BY <3>3
      <4> DEFINE r == [run[s] EXCEPT !.pc = "release", !.why = why]
      <4>1. r \in Runs /\ r.pc = "release"
        BY <3>1 DEF Runs, Failure
      <4>2. r.session <= sessions
        BY <3>1 DEF Runs
      <4> QED
        BY <1>5, <4>1, <4>2, RunUpdate DEF Handshake, Fails, RunGoto
    <3>4. CASE run' = [run EXCEPT ![s] = [run[s] EXCEPT !.pc = IF @ = "connect" THEN "authorize" ELSE "activate"]]
      <4> DEFINE r == [run[s] EXCEPT !.pc = IF @ = "connect" THEN "authorize" ELSE "activate"]
      <4>1. r \in Runs /\ r.client = run[s].client
        BY <3>1 DEF Runs
      <4>2. r.session <= sessions
        BY <3>1 DEF Runs
      <4> QED
        BY <1>5, <3>4, <4>1, <4>2, RunUpdate DEF Handshake, RunInv
    <3> QED
      BY <1>5, <3>3, <3>4 DEF Handshake, RunGoto
  <2>3. LocalInv'
    BY <1>5 DEF Handshake, RunGoto, Fails, LocalInv
  <2>4. StopInv'
    BY <1>5 DEF Handshake, RunGoto, Fails, StopInv
  <2>5. CallsInv'
    BY <1>5 DEF Handshake, RunGoto, Fails, CallsInv
  <2>6. CountInv'
    BY <1>5 DEF Handshake, RunGoto, Fails
  <2> QED
    BY <2>1, <2>2, <2>3, <2>4, <2>5, <2>6
<1>6. ASSUME NEW s \in Supervisors, Acquire(s) PROVE IInv'
  <2>1. RowInv'
    BY <1>6 DEF Acquire, RunGoto, Reserve, RowInv
  <2>2. RunInv'
    <3>1. run[s] \in Runs /\ run[s].session <= sessions
      BY DEF RunInv
    <3>2. NoRun \in Runs /\ NoRun.session <= sessions /\ NoRun.pc = "none"
      BY DEF NoRun, Runs
    <3>3. assigned' \in Nat
      BY <1>6 DEF Acquire, Reserve
    <3>4. CASE run' = [run EXCEPT ![s] = [run[s] EXCEPT !.pc = "check", !.slot = 0, !.why = "unavailable"]]
      <4> DEFINE r == [run[s] EXCEPT !.pc = "check", !.slot = 0, !.why = "unavailable"]
      <4>1. r \in Runs /\ r.pc = "check"
        BY <3>1 DEF Runs
      <4>2. r.session <= sessions
        BY <3>1 DEF Runs
      <4> QED
        BY <1>6, <3>4, <4>1, <4>2, RunUpdate DEF Acquire
    <3>5. CASE run' = [run EXCEPT ![s] = [run[s] EXCEPT !.pc = "check", !.slot = 0]]
      <4> DEFINE r == [run[s] EXCEPT !.pc = "check", !.slot = 0]
      <4>1. r \in Runs /\ r.pc = "check"
        BY <3>1 DEF Runs
      <4>2. r.session <= sessions
        BY <3>1 DEF Runs
      <4> QED
        BY <1>6, <3>5, <4>1, <4>2, RunUpdate DEF Acquire
    <3>6. CASE run' = [run EXCEPT ![s] = [run[s] EXCEPT !.pc = "check", !.slot = assigned']]
      <4> DEFINE r == [run[s] EXCEPT !.pc = "check", !.slot = assigned']
      <4>1. r \in Runs /\ r.pc = "check"
        BY <3>1, <3>3 DEF Runs
      <4>2. r.session <= sessions
        BY <3>1, <3>3 DEF Runs
      <4> QED
        BY <1>6, <3>6, <4>1, <4>2, RunUpdate DEF Acquire
    <3> QED
      BY <1>6, <3>4, <3>5, <3>6 DEF Acquire, RunGoto
  <2>3. LocalInv'
    BY <1>6 DEF Acquire, RunGoto, Reserve, LocalInv
  <2>4. StopInv'
    BY <1>6 DEF Acquire, RunGoto, Reserve, StopInv
  <2>5. CallsInv'
    BY <1>6 DEF Acquire, RunGoto, Reserve, CallsInv
  <2>6. CountInv'
    BY <1>6 DEF Acquire, RunGoto, Reserve
  <2> QED
    BY <2>1, <2>2, <2>3, <2>4, <2>5, <2>6
<1>7. ASSUME NEW s \in Supervisors, Create(s) PROVE IInv'
  <2>1. RowInv'
    BY <1>7 DEF Create, RunGoto, Fails, RowInv
  <2>2. RunInv'
    <3>1. run[s] \in Runs /\ run[s].session <= sessions
      BY DEF RunInv
    <3>2. CASE home' = home /\ \E why \in Failure \cup {"lost"} : Fails(s, why)
      <4> PICK why \in Failure \cup {"lost"} : Fails(s, why)
        BY <3>2
      <4> DEFINE r == [run[s] EXCEPT !.pc = "release", !.why = why]
      <4>1. r \in Runs /\ r.pc = "release"
        BY <3>1 DEF Runs, Failure
      <4>2. r.session <= sessions
        BY <3>1 DEF Runs
      <4> QED
        BY <1>7, <3>2, <4>1, <4>2, RunUpdate DEF Create, Fails, RunGoto
    <3>3. ASSUME NEW c \in Clients, home[c] = None, home' = [home EXCEPT ![c] = s],
                 run' = [run EXCEPT ![s] = [run[s] EXCEPT !.pc = "connect", !.client = c]]
          PROVE  RunInv'
      <4> DEFINE r == [run[s] EXCEPT !.pc = "connect", !.client = c]
      <4>1. r \in Runs /\ r.client = c
        BY <3>1, ClientNumbers DEF Runs
      <4>2. r.session <= sessions
        BY <3>1 DEF Runs
      <4>3. sessions' = sessions
        BY <1>7 DEF Create
      <4>4. run' \in [Supervisors -> Runs] /\ home'[c] = s
        BY <3>3, <4>1 DEF RunInv, LocalInv
      <4>5. run'[s] = r /\ \A u \in Supervisors \ {s} : run'[u] = run[u]
        BY <3>3 DEF RunInv
      <4>6. \A d \in Clients : home[d] \in Supervisors => home'[d] = home[d]
        BY <3>3 DEF LocalInv
      <4> HIDE DEF r
      <4> QED
        BY <4>1, <4>2, <4>3, <4>4, <4>5, <4>6 DEF RunInv
    <3> QED
      BY <1>7, <3>2, <3>3 DEF Create, RunGoto
  <2>3. LocalInv'
    <3>1. CASE UNCHANGED <<clients, connected, home>>
      BY <1>7, <3>1 DEF Create, LocalInv
    <3>2. ASSUME NEW c \in Clients, home' = [home EXCEPT ![c] = s],
                 clients' = [clients EXCEPT ![s] = c], connected' = connected \cup {c}
          PROVE  LocalInv'
      BY <1>7, <3>2 DEF Create, LocalInv
    <3> QED
      BY <1>7, <3>1, <3>2 DEF Create
  <2>4. StopInv'
    BY <1>7 DEF Create, RunGoto, Fails, StopInv
  <2>5. CallsInv'
    BY <1>7 DEF Create, RunGoto, Fails, CallsInv
  <2>6. CountInv'
    BY <1>7 DEF Create, RunGoto, Fails
  <2> QED
    BY <2>1, <2>2, <2>3, <2>4, <2>5, <2>6
<1>8. ASSUME NEW s \in Supervisors, Activate(s) PROVE IInv'
  <2>1. RowInv'
    BY <1>8, GoodRows, SessionKept DEF Activate, RunGoto, RunEnds, RowInv, RunInv
  <2>2. RunInv'
    <3>1. run[s] \in Runs /\ run[s].session <= sessions
      BY DEF RunInv
    <3>2. NoRun \in Runs /\ NoRun.session <= sessions
      BY DEF NoRun, Runs
    <3>3. CASE run' = [run EXCEPT ![s] = NoRun]
      BY <1>8, <3>2, <3>3, RunUpdate DEF Activate, NoRun
    <3>4. CASE run' = [run EXCEPT ![s] = [run[s] EXCEPT !.pc = "drop", !.why = "done"]]
      <4>1. [run[s] EXCEPT !.pc = "drop", !.why = "done"] \in Runs
        BY <3>1 DEF Runs
      <4>2. /\ [run[s] EXCEPT !.pc = "drop", !.why = "done"].session = run[s].session
            /\ [run[s] EXCEPT !.pc = "drop", !.why = "done"].pc = "drop"
        BY <3>1 DEF Runs
      <4> QED
        BY <1>8, <3>1, <3>4, <4>1, <4>2, RunUpdate DEF Activate
    <3> QED
      BY <1>8, <3>3, <3>4 DEF Activate, RunGoto, RunEnds
  <2>3. LocalInv'
    <3>1. row'.version \in Nat /\ row'.fence \in Nat
      BY <2>1, RowColumns DEF RowInv
    <3> QED
      BY <1>8, <3>1 DEF Activate, RunGoto, RunEnds, RunInv, LocalInv, Monitors
  <2>4. StopInv'
    BY <1>8 DEF Activate, RunGoto, RunEnds, StopInv
  <2>5. CallsInv'
    BY <1>8 DEF Activate, RunGoto, RunEnds, CallsInv
  <2>6. CountInv'
    BY <1>8 DEF Activate, RunGoto, RunEnds
  <2> QED
    BY <2>1, <2>2, <2>3, <2>4, <2>5, <2>6
<1>9. ASSUME NEW s \in Supervisors, Release(s) PROVE IInv'
  <2>1. RowInv'
    BY <1>9 DEF Release, RunGoto, ReleaseFailed, RowInv
  <2>2. RunInv'
    <3>1. run[s] \in Runs /\ run[s].session <= sessions
      BY DEF RunInv
    <3>2. NoRun \in Runs /\ NoRun.session <= sessions /\ NoRun.pc = "none"
      BY DEF NoRun, Runs
    <3>4. CASE run' = [run EXCEPT ![s] = [run[s] EXCEPT !.pc = IF run[s].why \in {"gone", "lost"} THEN "drop" ELSE "save"]]
      <4> DEFINE r == [run[s] EXCEPT !.pc = IF run[s].why \in {"gone", "lost"} THEN "drop" ELSE "save"]
      <4>1. r \in Runs /\ r.pc \in {"drop", "save"}
        BY <3>1 DEF Runs
      <4>2. r.session <= sessions
        BY <3>1 DEF Runs
      <4> QED
        BY <1>9, <3>4, <4>1, <4>2, RunUpdate DEF Release
    <3> QED
      BY <1>9, <3>4 DEF Release, RunGoto
  <2>3. LocalInv'
    BY <1>9 DEF Release, RunGoto, ReleaseFailed, LocalInv
  <2>4. StopInv'
    BY <1>9 DEF Release, RunGoto, ReleaseFailed, StopInv
  <2>5. CallsInv'
    BY <1>9 DEF Release, RunGoto, ReleaseFailed, CallsInv
  <2>6. CountInv'
    BY <1>9 DEF Release, RunGoto, ReleaseFailed
  <2> QED
    BY <2>1, <2>2, <2>3, <2>4, <2>5, <2>6
<1>10. ASSUME NEW s \in Supervisors, Save(s) PROVE IInv'
  <2>1. RowInv'
    BY <1>10, GoodRows, SessionKept DEF Save, RunGoto, RowInv, RunInv
  <2>2. RunInv'
    <3>1. row'.version \in Nat /\ row'.retries \in Nat
      BY <2>1, RowColumns DEF RowInv
    <3>2. run[s] \in Runs /\ run[s].session <= sessions
      BY DEF RunInv
    <3>3. ASSUME NEW exhausted \in BOOLEAN,
                 run' = [run EXCEPT ![s] = [run[s] EXCEPT
                    !.pc = "drop",
                    !.version = IF OwnsClaim(run[s], s) THEN row'.version ELSE @,
                    !.retries = IF OwnsClaim(run[s], s) THEN row'.retries ELSE @,
                    !.why = IF OwnsClaim(run[s], s) /\ ~exhausted THEN "retry" ELSE "done"]]
          PROVE  RunInv'
      <4> DEFINE r == [run[s] EXCEPT
                    !.pc = "drop",
                    !.version = IF OwnsClaim(run[s], s) THEN row'.version ELSE @,
                    !.retries = IF OwnsClaim(run[s], s) THEN row'.retries ELSE @,
                    !.why = IF OwnsClaim(run[s], s) /\ ~exhausted THEN "retry" ELSE "done"]
      <4>1. r \in Runs /\ r.pc = "drop"
        BY <3>1, <3>2 DEF Runs
      <4>2. r.session <= sessions
        BY <3>2 DEF Runs
      <4> QED
        BY <1>10, <3>3, <4>1, <4>2, RunUpdate DEF Save
    <3> QED
      BY <1>10, <3>3 DEF Save, RunGoto
  <2>3. LocalInv'
    BY <1>10 DEF Save, RunGoto, LocalInv
  <2>4. StopInv'
    BY <1>10 DEF Save, RunGoto, StopInv
  <2>5. CallsInv'
    BY <1>10 DEF Save, RunGoto, CallsInv
  <2>6. CountInv'
    BY <1>10 DEF Save, RunGoto
  <2> QED
    BY <2>1, <2>2, <2>3, <2>4, <2>5, <2>6
<1>11. ASSUME NEW s \in Supervisors, Drop(s) PROVE IInv'
  <2>1. RowInv'
    BY <1>11 DEF Drop, RunGoto, RunEnds, RowInv
  <2>2. RunInv'
    <3>1. run[s] \in Runs /\ run[s].session <= sessions
      BY DEF RunInv
    <3>2. NoRun \in Runs /\ NoRun.session <= sessions /\ NoRun.pc = "none"
      BY DEF NoRun, Runs
    <3>4. CASE run' = [run EXCEPT ![s] = [run[s] EXCEPT !.pc = "sleep", !.slot = 0, !.client = 0, !.why = "none"]]
      <4> DEFINE r == [run[s] EXCEPT !.pc = "sleep", !.slot = 0, !.client = 0, !.why = "none"]
      <4>1. r \in Runs /\ r.pc = "sleep"
        BY <3>1 DEF Runs
      <4>2. r.session <= sessions
        BY <3>1 DEF Runs
      <4> QED
        BY <1>11, <3>4, <4>1, <4>2, RunUpdate DEF Drop
    <3>5. CASE run' = [run EXCEPT ![s] = NoRun]
      BY <1>11, <3>2, <3>5, RunUpdate DEF Drop
    <3> QED
      BY <1>11, <3>4, <3>5 DEF Drop, RunGoto, RunEnds
  <2>3. LocalInv'
    BY <1>11 DEF Drop, RunGoto, RunEnds, LocalInv
  <2>4. StopInv'
    BY <1>11 DEF Drop, RunGoto, RunEnds, StopInv
  <2>5. CallsInv'
    BY <1>11 DEF Drop, RunGoto, RunEnds, CallsInv
  <2>6. CountInv'
    BY <1>11 DEF Drop, RunGoto, RunEnds
  <2> QED
    BY <2>1, <2>2, <2>3, <2>4, <2>5, <2>6
<1>12. ASSUME NEW s \in Supervisors, RunFault(s) PROVE IInv'
  <2>1. RowInv'
    BY <1>12, GoodRows, SessionKept DEF RunFault, RowInv, RunInv
  <2>2. RunInv'
    <3>1. run[s] \in Runs /\ run[s].session <= sessions
      BY DEF RunInv
    <3>2. NoRun \in Runs /\ NoRun.session <= sessions /\ NoRun.pc = "none"
      BY DEF NoRun, Runs
    <3>4. CASE run' = [run EXCEPT ![s] = [run[s] EXCEPT !.pc = "release", !.why = "error"]]
      <4> DEFINE r == [run[s] EXCEPT !.pc = "release", !.why = "error"]
      <4>1. r \in Runs /\ r.pc = "release"
        BY <3>1 DEF Runs, Failure
      <4>2. r.session <= sessions
        BY <3>1 DEF Runs
      <4> QED
        BY <1>12, <3>4, <4>1, <4>2, RunUpdate DEF RunFault
    <3>5. CASE run' = [run EXCEPT ![s] = NoRun]
      BY <1>12, <3>2, <3>5, RunUpdate DEF RunFault
    <3> QED
      BY <1>12, <3>4, <3>5 DEF RunFault, Fails, RunGoto, RunEnds
  <2>3. LocalInv'
    BY <1>12 DEF RunFault, Abandoned, LocalInv
  <2>4. StopInv'
    BY <1>12 DEF RunFault, StopInv
  <2>5. CallsInv'
    BY <1>12 DEF RunFault, CallsInv
  <2>6. CountInv'
    BY <1>12 DEF RunFault, RunGoto, RunEnds, Fails, Reserve, ReleaseFailed, Abandoned
  <2> QED
    BY <2>1, <2>2, <2>3, <2>4, <2>5, <2>6
<1>13. ASSUME NEW c \in Clients, Heartbeat(c) PROVE IInv'
  <2>1. RowInv'
    <3>1. home[c] \in Supervisors /\ monitor[c] \in Monitors
      BY <1>13 DEF Heartbeat, MonitorGoto, LocalInv
    <3> QED
      BY <1>13, <3>1, GoodRows, SessionKept DEF Heartbeat, MonitorGoto, RowInv
  <2>2. RunInv'
    BY <1>13 DEF Heartbeat, MonitorGoto, RunInv
  <2>3. LocalInv'
    <3>1. row'.version \in Nat
      BY <2>1, RowColumns DEF RowInv
    <3> QED
      BY <1>13, <3>1 DEF Heartbeat, MonitorGoto, LocalInv, Monitors
  <2>4. StopInv'
    BY <1>13 DEF Heartbeat, MonitorGoto, StopInv
  <2>5. CallsInv'
    BY <1>13 DEF Heartbeat, MonitorGoto, CallsInv
  <2>6. CountInv'
    BY <1>13 DEF Heartbeat, MonitorGoto
  <2> QED
    BY <2>1, <2>2, <2>3, <2>4, <2>5, <2>6
<1>14. ASSUME NEW c \in Clients, HeartbeatFault(c) PROVE IInv'
  <2>1. RowInv'
    <3>1. home[c] \in Supervisors /\ monitor[c] \in Monitors
      BY <1>14 DEF HeartbeatFault, MonitorGoto, LocalInv
    <3> QED
      BY <1>14, <3>1, GoodRows, SessionKept DEF HeartbeatFault, MonitorGoto, RowInv
  <2>2. RunInv'
    BY <1>14 DEF HeartbeatFault, MonitorGoto, RunInv
  <2>3. LocalInv'
    <3>1. row'.version \in Nat
      BY <2>1, RowColumns DEF RowInv
    <3> QED
      BY <1>14, <3>1 DEF HeartbeatFault, MonitorGoto, LocalInv, Monitors
  <2>4. StopInv'
    BY <1>14 DEF HeartbeatFault, MonitorGoto, StopInv
  <2>5. CallsInv'
    BY <1>14 DEF HeartbeatFault, MonitorGoto, CallsInv
  <2>6. CountInv'
    BY <1>14 DEF HeartbeatFault, MonitorGoto
  <2> QED
    BY <2>1, <2>2, <2>3, <2>4, <2>5, <2>6
<1>15. ASSUME NEW c \in Clients, FailClosed(c) PROVE IInv'
  <2>1. RowInv'
    <3>1. home[c] \in Supervisors /\ monitor[c] \in Monitors
      BY <1>15 DEF FailClosed, MonitorGoto, LocalInv
    <3> QED
      BY <1>15, <3>1, GoodRows, SessionKept DEF FailClosed, MonitorGoto, RowInv
  <2>2. RunInv'
    BY <1>15 DEF FailClosed, MonitorGoto, RunInv
  <2>3. LocalInv'
    <3>1. row'.version \in Nat
      BY <2>1, RowColumns DEF RowInv
    <3> QED
      BY <1>15, <3>1 DEF FailClosed, MonitorGoto, LocalInv, Monitors
  <2>4. StopInv'
    BY <1>15 DEF FailClosed, MonitorGoto, StopInv
  <2>5. CallsInv'
    BY <1>15 DEF FailClosed, MonitorGoto, CallsInv
  <2>6. CountInv'
    BY <1>15 DEF FailClosed, MonitorGoto
  <2> QED
    BY <2>1, <2>2, <2>3, <2>4, <2>5, <2>6
<1>16. ASSUME NEW c \in Clients, MonitorDrop(c) PROVE IInv'
  <2>1. RowInv'
    BY <1>16 DEF MonitorDrop, MonitorGoto, RowInv
  <2>2. RunInv'
    BY <1>16 DEF MonitorDrop, MonitorGoto, RunInv
  <2>3. LocalInv'
    BY <1>16 DEF MonitorDrop, MonitorGoto, LocalInv, Monitors, NoMonitor
  <2>4. StopInv'
    BY <1>16 DEF MonitorDrop, MonitorGoto, StopInv
  <2>5. CallsInv'
    BY <1>16 DEF MonitorDrop, MonitorGoto, CallsInv
  <2>6. CountInv'
    BY <1>16 DEF MonitorDrop, MonitorGoto
  <2> QED
    BY <2>1, <2>2, <2>3, <2>4, <2>5, <2>6
<1>17. ASSUME NEW o \in Stops, ForceTerminal(o) PROVE IInv'
  <2>1. RowInv'
    BY <1>17, ForcedRow DEF ForceTerminal, StopGoto, RowInv
  <2>2. RunInv'
    BY <1>17 DEF ForceTerminal, StopGoto, RunInv
  <2>3. LocalInv'
    BY <1>17 DEF ForceTerminal, StopGoto, LocalInv
  <2>4. StopInv'
    <3>1. PICK s \in Supervisors : stop' = [stop EXCEPT ![o] = [NoStop EXCEPT !.pc = "forced", !.sup = s]]
      BY <1>17 DEF ForceTerminal, StopGoto
    <3>2. [NoStop EXCEPT !.pc = "forced", !.sup = s] \in StopCalls
      BY DEF StopCalls, NoStop
    <3>3. [NoStop EXCEPT !.pc = "forced", !.sup = s].sup = s
      BY DEF NoStop
    <3> QED
      BY <3>1, <3>2, <3>3, StopUpdate
  <2>5. CallsInv'
    BY <1>17 DEF ForceTerminal, StopGoto, CallsInv
  <2>6. CountInv'
    BY <1>17 DEF ForceTerminal, StopGoto
  <2> QED
    BY <2>1, <2>2, <2>3, <2>4, <2>5, <2>6
<1>18. ASSUME NEW o \in Stops, Capture(o) PROVE IInv'
  <2>1. RowInv'
    BY <1>18 DEF Capture, StopGoto, RunGoto, RunEnds, Abandoned, RowInv
  <2>2. RunInv'
    BY <1>18 DEF Capture, StopGoto, RunGoto, RunEnds, Abandoned, StopInv, RunInv, Runs, NoRun
  <2>3. LocalInv'
    BY <1>18 DEF Capture, StopGoto, RunGoto, RunEnds, Abandoned, StopInv, LocalInv, Monitors, NoMonitor
  <2>4. StopInv'
    <3> DEFINE r == [stop[o] EXCEPT !.client = clients[stop[o].sup], !.awaited = monitorTasks[stop[o].sup],
                                !.pc = IF clients[stop[o].sup] = 0 THEN "release" ELSE "disconnect"]
    <3>1. stop[o] \in StopCalls /\ stop[o].sup \in Supervisors
      BY <1>18 DEF Capture, StopInv
    <3>2. clients[stop[o].sup] \in Nat /\ monitorTasks[stop[o].sup] \in Nat
      BY <3>1, ClientNumbers DEF LocalInv
    <3>3. r \in StopCalls
      BY <3>1, <3>2 DEF StopCalls
    <3>4. r.sup \in Supervisors
      BY <3>1 DEF StopCalls
    <3>5. stop' = [stop EXCEPT ![o] = r]
      BY <1>18 DEF Capture, StopGoto
    <3> HIDE DEF r
    <3> QED
      BY <3>3, <3>4, <3>5, StopUpdate
  <2>5. CallsInv'
    BY <1>18 DEF Capture, StopGoto, RunGoto, RunEnds, Abandoned, StopInv, RunInv, CallsInv
  <2>6. CountInv'
    BY <1>18 DEF Capture, StopGoto, RunGoto, RunEnds, Abandoned
  <2> QED
    BY <2>1, <2>2, <2>3, <2>4, <2>5, <2>6
<1>19. ASSUME NEW o \in Stops, Disconnect(o) PROVE IInv'
  <2>1. RowInv'
    BY <1>19 DEF Disconnect, StopGoto, RowInv
  <2>2. RunInv'
    BY <1>19 DEF Disconnect, StopGoto, RunInv
  <2>3. LocalInv'
    BY <1>19 DEF Disconnect, StopGoto, LocalInv
  <2>4. StopInv'
    BY <1>19 DEF Disconnect, StopGoto, StopInv, StopCalls
  <2>5. CallsInv'
    BY <1>19 DEF Disconnect, StopGoto, CallsInv
  <2>6. CountInv'
    BY <1>19 DEF Disconnect, StopGoto
  <2> QED
    BY <2>1, <2>2, <2>3, <2>4, <2>5, <2>6
<1>20. ASSUME NEW o \in Stops, Pop(o) PROVE IInv'
  <2>1. RowInv'
    BY <1>20 DEF Pop, StopGoto, RowInv
  <2>2. RunInv'
    BY <1>20 DEF Pop, StopGoto, RunInv
  <2>3. LocalInv'
    BY <1>20 DEF Pop, StopGoto, StopInv, LocalInv
  <2>4. StopInv'
    BY <1>20 DEF Pop, StopGoto, StopInv, StopCalls
  <2>5. CallsInv'
    BY <1>20 DEF Pop, StopGoto, CallsInv
  <2>6. CountInv'
    BY <1>20 DEF Pop, StopGoto
  <2> QED
    BY <2>1, <2>2, <2>3, <2>4, <2>5, <2>6
<1>21. ASSUME NEW o \in Stops, ReleaseTerminal(o) PROVE IInv'
  <2>1. RowInv'
    BY <1>21 DEF ReleaseTerminal, StopGoto, RowInv
  <2>2. RunInv'
    BY <1>21 DEF ReleaseTerminal, StopGoto, RunInv
  <2>3. LocalInv'
    BY <1>21 DEF ReleaseTerminal, StopGoto, LocalInv
  <2>4. StopInv'
    BY <1>21 DEF ReleaseTerminal, StopGoto, StopInv, StopCalls, NoStop
  <2>5. CallsInv'
    BY <1>21 DEF ReleaseTerminal, StopGoto, CallsInv
  <2>6. CountInv'
    BY <1>21 DEF ReleaseTerminal, StopGoto
  <2> QED
    BY <2>1, <2>2, <2>3, <2>4, <2>5, <2>6
<1>22. ASSUME ApiForce PROVE IInv'
  <2>1. RowInv'
    BY <1>22, ForcedRow DEF ApiForce, RowInv
  <2>2. RunInv'
    BY <1>22 DEF ApiForce, RunInv
  <2>3. LocalInv'
    BY <1>22 DEF ApiForce, LocalInv
  <2>4. StopInv'
    BY <1>22 DEF ApiForce, StopInv
  <2>5. CallsInv'
    BY <1>22 DEF ApiForce, CallsInv
  <2>6. CountInv'
    BY <1>22 DEF ApiForce
  <2> QED
    BY <2>1, <2>2, <2>3, <2>4, <2>5, <2>6
<1>23. ASSUME ResumeRead PROVE IInv'
  <2>1. RowInv'
    BY <1>23 DEF ResumeRead, RowInv
  <2>2. RunInv'
    BY <1>23 DEF ResumeRead, RunInv
  <2>3. LocalInv'
    BY <1>23 DEF ResumeRead, LocalInv
  <2>4. StopInv'
    BY <1>23 DEF ResumeRead, StopInv
  <2>5. CallsInv'
    BY <1>23 DEF ResumeRead, RowInv, CallsInv
  <2>6. CountInv'
    BY <1>23 DEF ResumeRead
  <2> QED
    BY <2>1, <2>2, <2>3, <2>4, <2>5, <2>6
<1>24. ASSUME ResumeSave PROVE IInv'
  <2>1. RowInv'
    BY <1>24 DEF ResumeSave, RowInv, CallsInv, GoodRow, Rows, Terminal
  <2>2. RunInv'
    BY <1>24 DEF ResumeSave, RunInv
  <2>3. LocalInv'
    BY <1>24 DEF ResumeSave, LocalInv
  <2>4. StopInv'
    BY <1>24 DEF ResumeSave, StopInv
  <2>5. CallsInv'
    BY <1>24 DEF ResumeSave, CallsInv
  <2>6. CountInv'
    BY <1>24 DEF ResumeSave
  <2> QED
    BY <2>1, <2>2, <2>3, <2>4, <2>5, <2>6
<1>25. ASSUME Reimport PROVE IInv'
  <2>1. RowInv'
    BY <1>25 DEF Reimport, RowInv, FreshRow, GoodRow, Rows, Terminal
  <2>2. RunInv'
    BY <1>25 DEF Reimport, RunInv, Runs
  <2>3. LocalInv'
    BY <1>25 DEF Reimport, LocalInv
  <2>4. StopInv'
    BY <1>25 DEF Reimport, StopInv
  <2>5. CallsInv'
    <3>1. \A t \in Supervisors : late[t].session \in Nat
      BY DEF CallsInv, Runs
    <3>2. resume # None => resume.session \in Nat
      BY RowColumns DEF CallsInv
    <3> QED
      BY <1>25, <3>1, <3>2 DEF Reimport, CallsInv
  <2>6. CountInv'
    BY <1>25 DEF Reimport
  <2> QED
    BY <2>1, <2>2, <2>3, <2>4, <2>5, <2>6
<1>26. ASSUME NEW s \in Supervisors, LateWrite(s) PROVE IInv'
  <2>1. RowInv'
    BY <1>26, GoodRows, SessionKept DEF LateWrite, RowInv, CallsInv
  <2>2. RunInv'
    BY <1>26 DEF LateWrite, Reserve, ReleaseFailed, RunInv
  <2>3. LocalInv'
    BY <1>26 DEF LateWrite, Reserve, ReleaseFailed, LocalInv
  <2>4. StopInv'
    BY <1>26 DEF LateWrite, Reserve, ReleaseFailed, StopInv
  <2>5. CallsInv'
    BY <1>26 DEF LateWrite, CallsInv, Runs, NoRun
  <2>6. CountInv'
    BY <1>26 DEF LateWrite, Reserve, ReleaseFailed
  <2> QED
    BY <2>1, <2>2, <2>3, <2>4, <2>5, <2>6
<1>27. ASSUME ExpireLease PROVE IInv'
  <2>1. RowInv'
    BY <1>27 DEF ExpireLease, RowInv, GoodRow, Rows
  <2>2. RunInv'
    BY <1>27 DEF ExpireLease, RunInv
  <2>3. LocalInv'
    BY <1>27 DEF ExpireLease, LocalInv
  <2>4. StopInv'
    BY <1>27 DEF ExpireLease, StopInv
  <2>5. CallsInv'
    BY <1>27 DEF ExpireLease, CallsInv
  <2>6. CountInv'
    BY <1>27 DEF ExpireLease
  <2> QED
    BY <2>1, <2>2, <2>3, <2>4, <2>5, <2>6
<1>28. ASSUME NEW s \in Supervisors, Crash(s) PROVE IInv'
  <2>1. RowInv'
    BY <1>28 DEF Crash, RowInv
  <2>2. RunInv'
    BY <1>28 DEF Crash, RunInv, Runs, NoRun
  <2>3. LocalInv'
    BY <1>28 DEF Crash, LocalInv, Monitors, NoMonitor
  <2>4. StopInv'
    BY <1>28 DEF Crash, StopInv, StopCalls, NoStop
  <2>5. CallsInv'
    BY <1>28 DEF Crash, CallsInv, Runs, NoRun
  <2>6. CountInv'
    BY <1>28 DEF Crash
  <2> QED
    BY <2>1, <2>2, <2>3, <2>4, <2>5, <2>6
<1>29. CASE UNCHANGED vars
  BY <1>29 DEF vars, RowInv, RunInv, LocalInv, StopInv, CallsInv
<1> QED
  BY <1>1, <1>2, <1>3, <1>4, <1>5, <1>6, <1>7, <1>8, <1>9, <1>10, <1>11, <1>12, <1>13, <1>14, <1>15, <1>16, <1>17, <1>18, <1>19, <1>20, <1>21, <1>22, <1>23, <1>24, <1>25, <1>26, <1>27, <1>28, <1>29 DEF Next, Loop, Monitoring, Stopping

\* The inductive invariant holds in every reachable state.
LEMMA Invariant == Spec => []IInv
<1>1. Init => IInv
  <2> SUFFICES ASSUME Init PROVE IInv
    OBVIOUS
  <2> USE DEF Init
  <2>1. RowInv
    BY DEF RowInv, GoodRow, FreshRow, Rows, Terminal
  <2>2. RunInv
    BY DEF RunInv, Runs, NoRun
  <2>3. LocalInv
    BY DEF LocalInv, Monitors, NoMonitor
  <2>4. StopInv
    BY DEF StopInv, StopCalls, NoStop
  <2>5. CallsInv
    BY DEF CallsInv, Runs, NoRun
  <2>6. CountInv
    BY DEF CountInv
  <2> QED
    BY <2>1, <2>2, <2>3, <2>4, <2>5, <2>6 DEF IInv
<1> QED
  BY <1>1, InductiveStep, PTL DEF Spec

\* Type correctness of the connection row, of every task's snapshot of it and of each
\* process's dictionaries; in particular the row has an owner exactly when it has a lease.
THEOREM TypeCorrect == Spec => []TypeOK
BY Invariant, InvTypes, PTL

\* No loop, monitor or late thread ever holds a claim on a terminal row.
THEOREM TerminalUnclaimed == Spec => []TerminalIsUnclaimed
<1>1. IInv => TerminalIsUnclaimed
  BY DEF IInv, RowInv, GoodRow, TerminalIsUnclaimed
<1> QED
  BY <1>1, Invariant, PTL

\* On a terminal row every transaction that needs a claim leaves the row as it is.
LEMMA TerminalRowFixed ==
    ASSUME RowInv, row.state \in Terminal, NEW s \in Supervisors
    PROVE  /\ ~Claimable
           /\ \A t : RenewRow(t, s) = row /\ FailClosedRow(t, s) = row /\ ActiveRow(t, s) = row
           /\ \A t, e : FailureRow(t, s, e) = row
<1>1. row.owner # s
  BY SupervisorAssumption DEF RowInv, GoodRow
<1>2. \A t : ~ClaimMatches(t, s) /\ ~OwnsClaim(t, s) /\ ~Renewable(t, s)
  BY <1>1 DEF ClaimMatches, OwnsClaim, Renewable
<1>3. \A t, state, retries, retry, release : SaveClaimed(t, s, state, retries, retry, release) = row
  BY <1>2 DEF SaveClaimed
<1>4. \A t : RenewRow(t, s) = row /\ FailClosedRow(t, s) = row /\ ActiveRow(t, s) = row
  BY <1>2, <1>3 DEF RenewRow, FailClosedRow, ActiveRow
<1>5. ASSUME NEW t, NEW e PROVE FailureRow(t, s, e) = row
  BY <1>3 DEF FailureRow
<1> QED
  BY <1>4, <1>5 DEF Claimable

\* Whatever the loops, monitors and late threads do, only a pause, an archive, a resume
\* or a new import changes a terminal row.
THEOREM TerminalStays == Spec => TerminalLeftByOperator
<1> DEFINE A == row.state \in Terminal /\ row' # row =>
                   /\ row'.owner = None
                   /\ \/ row'.state \in {"paused", "archived"}
                      \/ resume' # resume
                      \/ row'.session # row.session
<1>1. IInv /\ [Next]_vars => [A]_vars
  <2> SUFFICES ASSUME IInv, Next, row.state \in Terminal, row' # row
               PROVE  /\ row'.owner = None
                      /\ \/ row'.state \in {"paused", "archived"}
                         \/ resume' # resume
                         \/ row'.session # row.session
    OBVIOUS
  <2>0. RowInv /\ RunInv /\ LocalInv /\ CallsInv /\ CountInv /\ row.lease # "live"
    BY DEF IInv, RowInv, GoodRow
  <2>1. ASSUME NEW s \in Supervisors, Start(s) \/ Loop(s) \/ RunFault(s) \/ LateWrite(s) \/ Crash(s)
        PROVE  row' = row
    <3>1. CASE Start(s)
      BY <2>0, <3>1, TerminalRowFixed DEF Start
    <3>2. CASE Loop(s)
      <4>1. CASE Renew(s)
        BY <2>0, <4>1, TerminalRowFixed DEF Renew
      <4>2. CASE Activate(s)
        BY <2>0, <4>2, TerminalRowFixed DEF Activate
      <4>3. CASE Save(s)
        BY <2>0, <4>3, TerminalRowFixed DEF Save
      <4>4. CASE Sleep(s) \/ Acquire(s) \/ CheckProxy(s) \/ Create(s) \/ Handshake(s) \/ Release(s) \/ Drop(s)
        BY <4>4 DEF Sleep, Acquire, CheckProxy, Create, Handshake, Release, Drop
      <4> QED
        BY <3>2, <4>1, <4>2, <4>3, <4>4 DEF Loop
    <3>3. CASE RunFault(s)
      BY <2>0, <3>3, TerminalRowFixed DEF RunFault
    <3>4. CASE LateWrite(s)
      BY <2>0, <3>4, TerminalRowFixed DEF LateWrite
    <3>5. CASE Crash(s)
      BY <3>5 DEF Crash
    <3> QED
      BY <2>1, <3>1, <3>2, <3>3, <3>4, <3>5
  <2>2. ASSUME NEW c \in Clients, Monitoring(c) \/ HeartbeatFault(c)
        PROVE  row' = row
    <3>1. CASE Heartbeat(c) \/ HeartbeatFault(c) \/ FailClosed(c)
      <4>1. home[c] \in Supervisors
        BY <2>0, <3>1 DEF LocalInv, Heartbeat, HeartbeatFault, FailClosed
      <4> QED
        BY <2>0, <3>1, <4>1, TerminalRowFixed DEF Heartbeat, HeartbeatFault, FailClosed
    <3>2. CASE MonitorDrop(c)
      BY <3>2 DEF MonitorDrop
    <3> QED
      BY <2>2, <3>1, <3>2 DEF Monitoring
  <2>3. ASSUME NEW o \in Stops, Stopping(o)
        PROVE  row' = row
    BY <2>3 DEF Stopping, Capture, Disconnect, Pop, ReleaseTerminal
  <2>4. ASSUME NEW state \in {"paused", "archived"}, row' = ForceTerminalRow(state)
        PROVE  row'.owner = None /\ row'.state \in {"paused", "archived"}
    <3>1. GoodRow(row) /\ GoodRow(row')
      BY <2>0, <2>4, ForcedRow DEF RowInv
    <3>2. row'.state = state
      <4>1. row.state # "archived"
        BY <2>4 DEF ForceTerminalRow
      <4> QED
        BY <2>4, <3>1, <4>1 DEF ForceTerminalRow, GoodRow, Rows
    <3>3. row'.owner = None
      <4>1. row'.state \in Terminal
        BY <3>2 DEF Terminal
      <4> QED
        BY <3>1, <4>1 DEF GoodRow
    <3> QED
      BY <3>2, <3>3
  <2>5. CASE ResumeRead \/ ExpireLease
    BY <2>0, <2>5 DEF ResumeRead, ExpireLease
  <2>6. CASE ResumeSave
    <3>1. row' = [resume EXCEPT !.state = "quarantine"] /\ resume.owner = None /\ resume # None /\ resume' = None
      BY <2>6 DEF ResumeSave
    <3>2. resume \in Rows
      BY <2>0, <3>1 DEF CallsInv, GoodRow
    <3> QED
      BY <3>1, <3>2 DEF Rows
  <2>7. CASE Reimport
    <3>1. row' = FreshRow(sessions + 1)
      BY <2>7 DEF Reimport
    <3>2. row.session <= sessions /\ row.session \in Nat /\ sessions \in Nat
      BY <2>0, RowColumns DEF RowInv, CountInv
    <3>3. row'.owner = None /\ row'.session = sessions + 1
      BY <3>1 DEF FreshRow
    <3> QED
      BY <3>2, <3>3
  <2> QED
    BY <2>1, <2>2, <2>3, <2>4, <2>5, <2>6, <2>7 DEF Next, ForceTerminal, ApiForce
<1> QED
  BY <1>1, Invariant, PTL DEF Spec, TerminalLeftByOperator

----------------------------------------------------------------------------
(* Who writes the row.                                                     *)

\* A transaction of the loops, monitors and late threads of supervisor s.
ClaimantWrites(s) ==
    \/ Claimable /\ row' = ClaimRow(s)
    \/ \E t \in Runs \cup Monitors : row' \in {RenewRow(t, s), FailClosedRow(t, s)}
    \/ \E t \in Runs : row' = ActiveRow(t, s)
    \/ \E t \in Runs, e \in BOOLEAN : Exhausted(t, e) /\ row' = FailureRow(t, s, e)

OperatorForces == \E state \in {"paused", "archived"} : row' = ForceTerminalRow(state)

\* Every write of the row is one of the repository's transactions.
LEMMA RowWriters ==
    ASSUME IInv, [Next]_vars
    PROVE  \/ UNCHANGED row
           \/ \E s \in Supervisors : ClaimantWrites(s)
           \/ OperatorForces \/ ResumeSave \/ Reimport
           \/ row' = [row EXCEPT !.lease = "expired"]
<1> USE DEF ClaimantWrites
<1>0. RunInv /\ LocalInv /\ CallsInv
  BY DEF IInv
<1>1. ASSUME NEW s \in Supervisors, Start(s) \/ Loop(s) \/ RunFault(s) \/ LateWrite(s) \/ Crash(s)
      PROVE  UNCHANGED row \/ ClaimantWrites(s)
  <2>0. run[s] \in Runs /\ late[s] \in Runs
    BY <1>0 DEF RunInv, CallsInv
  <2>1. CASE Start(s)
    BY <2>1 DEF Start
  <2>2. CASE Renew(s)
    BY <2>0, <2>2 DEF Renew
  <2>3. CASE Activate(s)
    BY <2>0, <2>3 DEF Activate
  <2>4. CASE Save(s)
    BY <2>0, <2>4 DEF Save
  <2>5. CASE Sleep(s) \/ Acquire(s) \/ CheckProxy(s) \/ Create(s) \/ Handshake(s) \/ Release(s)
             \/ Drop(s) \/ Crash(s)
    BY <2>5 DEF Sleep, Acquire, CheckProxy, Create, Handshake, Release, Drop, Crash
  <2>6. CASE RunFault(s)
    BY <2>0, <2>6 DEF RunFault
  <2>7. CASE LateWrite(s)
    BY <2>0, <2>7 DEF LateWrite
  <2> QED
    BY <1>1, <2>1, <2>2, <2>3, <2>4, <2>5, <2>6, <2>7 DEF Loop
<1>2. ASSUME NEW c \in Clients, Monitoring(c) \/ HeartbeatFault(c)
      PROVE  UNCHANGED row \/ \E s \in Supervisors : ClaimantWrites(s)
  <2>1. CASE Heartbeat(c) \/ HeartbeatFault(c) \/ FailClosed(c)
    <3>1. home[c] \in Supervisors /\ monitor[c] \in Monitors
      BY <1>0, <2>1 DEF LocalInv, Heartbeat, HeartbeatFault, FailClosed
    <3>2. row' \in {row, RenewRow(monitor[c], home[c]), FailClosedRow(monitor[c], home[c])}
      BY <2>1 DEF Heartbeat, HeartbeatFault, FailClosed
    <3> QED
      BY <3>1, <3>2
  <2>2. CASE MonitorDrop(c)
    BY <2>2 DEF MonitorDrop
  <2> QED
    BY <1>2, <2>1, <2>2 DEF Monitoring
<1>3. ASSUME NEW o \in Stops, ForceTerminal(o) \/ Stopping(o)
      PROVE  UNCHANGED row \/ OperatorForces
  BY <1>3 DEF Stopping, Capture, Disconnect, Pop, ReleaseTerminal, ForceTerminal, OperatorForces
<1>4. CASE ApiForce \/ ResumeRead \/ ExpireLease \/ UNCHANGED vars
  BY <1>4 DEF ApiForce, ResumeRead, ExpireLease, OperatorForces, vars
<1> QED
  BY <1>1, <1>2, <1>3, <1>4 DEF Next

\* No transaction of a claim's owner leaves a budget of retries used up and the
\* account retryable.
LEMMA BudgetKept ==
    ASSUME RowInv, RetryBudgetIsDurable, NEW s \in Supervisors, ClaimantWrites(s)
    PROVE  RetryBudgetIsDurable'
<1> USE SupervisorAssumption
<1>0. /\ row \in Rows
      /\ row.retries \in Nat
      /\ row.owner = s => row.state \notin Terminal
  BY RowColumns DEF RowInv, GoodRow
<1>1. CASE row' = row
  BY <1>1 DEF RetryBudgetIsDurable
<1>2. CASE row' = ClaimRow(s)
  BY <1>0, <1>2 DEF ClaimRow, Rows, RetryBudgetIsDurable
<1>3. ASSUME NEW t \in Runs \cup Monitors, row' = RenewRow(t, s) PROVE RetryBudgetIsDurable'
  BY <1>0, <1>1, <1>3 DEF RenewRow, Rows, RetryBudgetIsDurable
<1>4. ASSUME NEW t \in Runs \cup Monitors, row' = FailClosedRow(t, s) PROVE RetryBudgetIsDurable'
  <2>1. CASE ClaimMatches(t, s)
    <3>1. row.retries < MaxRetries
      BY <1>0, <2>1 DEF ClaimMatches, RetryBudgetIsDurable
    <3>2. row'.retries = row.retries
      BY <1>0, <1>4, <2>1 DEF FailClosedRow, Rows
    <3> QED
      BY <1>0, <3>1, <3>2 DEF RetryBudgetIsDurable
  <2> QED
    BY <1>1, <1>4, <2>1 DEF FailClosedRow
<1>5. ASSUME NEW t \in Runs, NEW state, NEW retries \in Nat, NEW retry, NEW release,
             row' = SaveClaimed(t, s, state, retries, retry, release),
             retries < MaxRetries \/ state \in Terminal
      PROVE  RetryBudgetIsDurable'
  <2>1. CASE OwnsClaim(t, s)
    <3>1. row'.retries = retries /\ row'.state = state
      BY <1>0, <1>5, <2>1 DEF SaveClaimed, Rows
    <3> QED
      BY <1>5, <3>1 DEF RetryBudgetIsDurable
  <2> QED
    BY <1>1, <1>5, <2>1 DEF SaveClaimed
<1>6. ASSUME NEW t \in Runs, row' = ActiveRow(t, s) PROVE RetryBudgetIsDurable'
  BY <1>5, <1>6 DEF ActiveRow
<1>7. ASSUME NEW t \in Runs, NEW e \in BOOLEAN, Exhausted(t, e), row' = FailureRow(t, s, e)
      PROVE  RetryBudgetIsDurable'
  <2>0. t.retries \in Nat /\ t.retries + 1 \in Nat /\ {"reauth_required", "blocked"} \subseteq Terminal
    BY DEF Runs, Terminal
  <2>1. CASE t.why = "auth"
    <3>1. row' = SaveClaimed(t, s, "reauth_required", t.retries, "none", TRUE)
      BY <1>7, <2>1 DEF FailureRow
    <3> QED
      BY <1>5, <2>0, <3>1
  <2>2. CASE t.why \in {"block", "unavailable"}
    <3>1. row' = SaveClaimed(t, s, "blocked", t.retries, "none", TRUE)
      BY <1>7, <2>2 DEF FailureRow
    <3> QED
      BY <1>5, <2>0, <3>1
  <2>3. CASE t.why \notin {"auth", "block", "unavailable"}
    <3>1. PICK state, retry :
             /\ row' = SaveClaimed(t, s, state, t.retries + 1, retry, e)
             /\ e => state = "blocked"
      BY <1>7, <2>3 DEF FailureRow
    <3>2. t.retries + 1 < MaxRetries \/ e
      BY <1>7, <2>0 DEF Exhausted
    <3> QED
      BY <1>5, <2>0, <3>1, <3>2
  <2> QED
    BY <2>1, <2>2, <2>3
<1> QED
  BY <1>2, <1>3, <1>4, <1>6, <1>7 DEF ClaimantWrites

\* The retry budget is durable for any number of processes that start, stall, lose
\* their answers or crash in the attempts, and whatever is paused, archived or imported
\* in between: only a resume, which keeps the count, gives a used-up account another
\* attempt.
THEOREM RetryBudget ==
    ASSUME "resume" \notin Environment
    PROVE  Spec => []RetryBudgetIsDurable
<1> DEFINE BInv == RetryBudgetIsDurable /\ resume = None
<1>1. Init => BInv
  BY SupervisorAssumption DEF Init, FreshRow, RetryBudgetIsDurable
<1>2. IInv /\ BInv /\ [Next]_vars => BInv'
  <2> SUFFICES ASSUME IInv, BInv, [Next]_vars PROVE BInv'
    OBVIOUS
  <2>0. RowInv /\ row \in Rows /\ row.retries \in Nat
    BY RowColumns DEF IInv, RowInv, GoodRow
  <2>1. resume' = None
    BY DEF Next, vars, calls, local, proxy, Start, Loop, Renew, Sleep, Acquire, CheckProxy, Create, Handshake,
           Activate, Release, Save, Drop, RunFault, LateWrite, Crash, Monitoring, Heartbeat,
           FailClosed, MonitorDrop, HeartbeatFault, ForceTerminal, Stopping, Capture, Disconnect,
           Pop, ReleaseTerminal, ApiForce, ResumeRead, ResumeSave, Reimport, ExpireLease
  <2>2. CASE \E s \in Supervisors : ClaimantWrites(s)
    BY <2>0, <2>1, <2>2, BudgetKept
  <2>3. CASE OperatorForces
    <3>1. PICK state \in {"paused", "archived"} : row' = ForceTerminalRow(state)
      BY <2>3 DEF OperatorForces
    <3>2. row'.state \in Terminal
      BY <2>0, <3>1 DEF ForceTerminalRow, Rows, Terminal
    <3> QED
      BY <2>1, <3>2 DEF RetryBudgetIsDurable
  <2>4. ~ResumeSave
    BY DEF ResumeSave
  <2>5. CASE Reimport
    <3>1. row'.retries = 0
      BY <2>5 DEF Reimport, FreshRow
    <3> QED
      BY <2>1, <3>1, SupervisorAssumption DEF RetryBudgetIsDurable
  <2>6. CASE row' = [row EXCEPT !.lease = "expired"]
    BY <2>0, <2>1, <2>6 DEF Rows, RetryBudgetIsDurable
  <2>7. CASE UNCHANGED row
    BY <2>1, <2>7 DEF RetryBudgetIsDurable
  <2> QED
    BY <2>2, <2>3, <2>4, <2>5, <2>6, <2>7, RowWriters
<1> QED
  BY <1>1, <1>2, Invariant, PTL DEF Spec

----------------------------------------------------------------------------
(* Fencing.                                                                *)

Stopped == {"paused", "archived"}

\* While the first session is in place a fence token is never given out twice: no task
\* is ahead of the row, whoever was stopped or cancelled is behind it, and behind the
\* copy that a resume is about to write back.
RunFence(s) ==
    /\ run[s].fence <= row.fence
    /\ row.state \in Stopped => run[s].fence < row.fence
LateFence(s) == late[s].pc # "none" => late[s].fence < row.fence
ResumeFence(s) ==
    resume # None =>
       /\ run[s].fence < resume.fence
       /\ late[s].pc # "none" => late[s].fence < resume.fence
StopFence(o) == stop[o].pc = "forced" => run[stop[o].sup].fence < row.fence
Fenced ==
    /\ resume # None => row.state \in Stopped
    /\ \A s \in Supervisors : RunFence(s) /\ LateFence(s) /\ ResumeFence(s)
    /\ \A o \in Stops : StopFence(o)
FenceInv == sessions >= 1 /\ (sessions = 1 => Fenced)

\* A step of the claimants, an operator or the clock never takes the fence token back,
\* and an account is stopped only with a new one.
FenceMoves ==
    /\ row'.fence >= row.fence
    /\ row'.state \in Stopped => row.state \in Stopped \/ row'.fence > row.fence
    /\ row.state \in Stopped => row'.state \in Stopped

\* Nothing a claimant writes takes the fence token back or stops the account.
LEMMA ClaimantFence ==
    ASSUME RowInv, NEW s \in Supervisors, ClaimantWrites(s)
    PROVE  FenceMoves
<1> USE SupervisorAssumption
<1>0. /\ row \in Rows /\ row.fence \in Nat
      /\ Stopped \subseteq Terminal
      /\ {"active", "quarantine", "limited", "blocked", "reauth_required"} \cap Stopped = {}
  BY RowColumns DEF RowInv, GoodRow, Stopped, Terminal
<1>1. CASE row.state \in Terminal
  <2>1. row' = row
    <3>1. /\ ~Claimable
          /\ \A t : RenewRow(t, s) = row /\ FailClosedRow(t, s) = row /\ ActiveRow(t, s) = row
          /\ \A t, e : FailureRow(t, s, e) = row
      BY <1>1, TerminalRowFixed
    <3> QED
      BY <3>1 DEF ClaimantWrites
  <2> QED
    BY <1>0, <2>1 DEF FenceMoves
<1>2. CASE row.state \notin Terminal
  <2>0. CASE row' = row
    BY <1>0, <2>0 DEF FenceMoves
  <2>1. CASE row' = ClaimRow(s)
    BY <1>0, <1>2, <2>1 DEF ClaimRow, Rows, FenceMoves
  <2>2. ASSUME NEW t, row' = RenewRow(t, s) PROVE FenceMoves
    BY <1>0, <1>2, <2>0, <2>2 DEF RenewRow, Rows, FenceMoves
  <2>3. ASSUME NEW t, row' = FailClosedRow(t, s) PROVE FenceMoves
    BY <1>0, <1>2, <2>0, <2>3 DEF FailClosedRow, Rows, FenceMoves
  <2>4. ASSUME NEW t, NEW state \in {"active", "quarantine", "limited", "blocked", "reauth_required"},
               NEW retries, NEW retry, NEW release,
               row' = SaveClaimed(t, s, state, retries, retry, release)
        PROVE  FenceMoves
    <3>1. CASE OwnsClaim(t, s)
      <4>1. row'.fence = row.fence /\ row'.state = state
        BY <1>0, <2>4, <3>1 DEF SaveClaimed, Rows
      <4>2. state \notin Stopped /\ row.state \notin Stopped
        BY <1>0, <1>2
      <4> QED
        BY <1>0, <4>1, <4>2 DEF FenceMoves
    <3> QED
      BY <2>0, <2>4, <3>1 DEF SaveClaimed
  <2>5. ASSUME NEW t, row' = ActiveRow(t, s) PROVE FenceMoves
    BY <2>4, <2>5 DEF ActiveRow
  <2>6. ASSUME NEW t, NEW e \in BOOLEAN, row' = FailureRow(t, s, e) PROVE FenceMoves
    <3>1. \E state \in {"active", "quarantine", "limited", "blocked", "reauth_required"} :
             \E retries, retry, release : row' = SaveClaimed(t, s, state, retries, retry, release)
      BY <2>6 DEF FailureRow
    <3> QED
      BY <2>4, <3>1
  <2> QED
    BY <2>1, <2>2, <2>3, <2>5, <2>6 DEF ClaimantWrites
<1> QED
  BY <1>1, <1>2

\* force_terminal gives out a new fence token, or finds the account archived.
LEMMA ForcedFence ==
    ASSUME RowInv, OperatorForces
    PROVE  /\ FenceMoves
           /\ row'.state \in Stopped
           /\ (row' = row /\ row.state = "archived") \/ row'.fence > row.fence
<1>0. row \in Rows /\ row.fence \in Nat
  BY RowColumns DEF RowInv, GoodRow
<1>1. PICK state \in {"paused", "archived"} : row' = ForceTerminalRow(state)
  BY DEF OperatorForces
<1>2. CASE row.state = "archived"
  BY <1>0, <1>1, <1>2 DEF ForceTerminalRow, FenceMoves, Stopped
<1>3. CASE row.state # "archived"
  BY <1>0, <1>1, <1>3 DEF ForceTerminalRow, FenceMoves, Stopped, Rows
<1> QED
  BY <1>2, <1>3

\* Where a task has no client yet, or none any more.
Early == {"none", "dead", "renew", "sleep", "acquire", "check", "create"}

\* A step of the task of s that ends it, or moves it on with its token and its client.
Advances(s) ==
    /\ \A t \in Supervisors \ {s} : run'[t] = run[t]
    /\ \/ run'[s] = NoRun
       \/ /\ run'[s].fence = run[s].fence /\ run'[s].client = run[s].client
          /\ run[s].pc # "none" /\ (run'[s].pc \in Early => run[s].pc \in Early)

\* The step that registers a client.
Registers(s, c) ==
    /\ run[s].pc = "create" /\ OwnsClaim(run[s], s)
    /\ home[c] = None
    /\ home' = [home EXCEPT ![c] = s]
    /\ clients' = [clients EXCEPT ![s] = c]
    /\ connected' = connected \cup {c}
    /\ run' = [run EXCEPT ![s] = [run[s] EXCEPT !.pc = "connect", !.client = c]]

\* A loop advances, registers a client or drops one.
LEMMA LoopAdvances ==
    ASSUME run \in [Supervisors -> Runs], NEW s \in Supervisors, Loop(s) \/ RunFault(s)
    PROVE  \/ Advances(s)
           \/ \E c \in Clients : Registers(s, c)
           \/ Drop(s)
<1> USE DEF RunGoto, RunEnds
<1>0. run[s] \in Runs
  OBVIOUS
<1>1. ASSUME NEW why, Fails(s, why), run[s].pc # "none" PROVE Advances(s)
  BY <1>0, <1>1 DEF Fails, Runs, Advances, Early
<1>2. ASSUME run' = [run EXCEPT ![s] = NoRun] PROVE Advances(s)
  BY <1>2 DEF Advances
<1>3. CASE Renew(s)
  <2>0. run[s].pc # "none" /\ run[s].pc \in Early
    BY <1>3 DEF Renew, Early
  <2>1. ASSUME NEW l \in {"acquire", "sleep"},
                 run' = [run EXCEPT ![s] =
                    [run[s] EXCEPT !.pc = l, !.why = "none", !.version = row'.version,
                                   !.session = row.session, !.retries = row.retries]]
        PROVE  Advances(s)
    BY <1>0, <2>0, <2>1 DEF Runs, Advances, Early
  <2> QED
    BY <1>1, <1>2, <1>3, <2>0, <2>1 DEF Renew
<1>4. CASE Sleep(s)
  <2>0. run[s].pc # "none" /\ run[s].pc \in Early
    BY <1>4 DEF Sleep, Early
  <2>1. ASSUME run' = [run EXCEPT ![s] = [run[s] EXCEPT !.pc = "renew", !.why = "slept"]]
        PROVE  Advances(s)
    BY <1>0, <2>0, <2>1 DEF Runs, Advances, Early
  <2> QED
    BY <1>1, <1>2, <1>4, <2>0, <2>1 DEF Sleep
<1>5. CASE Acquire(s)
  <2>0. run[s].pc # "none" /\ run[s].pc \in Early
    BY <1>5 DEF Acquire, Early
  <2>1. ASSUME NEW l, NEW w, run' = [run EXCEPT ![s] = [run[s] EXCEPT !.pc = "check", !.slot = l, !.why = w]]
        PROVE  Advances(s)
    BY <1>0, <2>0, <2>1 DEF Runs, Advances, Early
  <2>2. ASSUME NEW l, run' = [run EXCEPT ![s] = [run[s] EXCEPT !.pc = "check", !.slot = l]]
        PROVE  Advances(s)
    BY <1>0, <2>0, <2>2 DEF Runs, Advances, Early
  <2> QED
    BY <1>1, <1>2, <1>5, <2>0, <2>1, <2>2 DEF Acquire
<1>6. CASE CheckProxy(s)
  <2>0. run[s].pc # "none" /\ run[s].pc \in Early
    BY <1>6 DEF CheckProxy, Early
  <2>1. ASSUME run' = [run EXCEPT ![s] = [run[s] EXCEPT !.pc = "create"]]
        PROVE  Advances(s)
    BY <1>0, <2>0, <2>1 DEF Runs, Advances, Early
  <2> QED
    BY <1>1, <1>2, <1>6, <2>0, <2>1 DEF CheckProxy
<1>7. CASE Handshake(s)
  <2>0. run[s].pc # "none"
    BY <1>7 DEF Handshake
  <2>1. ASSUME NEW l \in {"authorize", "activate"}, run' = [run EXCEPT ![s] = [run[s] EXCEPT !.pc = l]]
        PROVE  Advances(s)
    BY <1>0, <2>0, <2>1 DEF Runs, Advances, Early
  <2> QED
    BY <1>1, <1>2, <1>7, <2>0, <2>1 DEF Handshake
<1>8. CASE Activate(s)
  <2>0. run[s].pc # "none"
    BY <1>8 DEF Activate
  <2>1. ASSUME run' = [run EXCEPT ![s] = [run[s] EXCEPT !.pc = "drop", !.why = "done"]]
        PROVE  Advances(s)
    BY <1>0, <2>0, <2>1 DEF Runs, Advances, Early
  <2> QED
    BY <1>1, <1>2, <1>8, <2>0, <2>1 DEF Activate
<1>9. CASE Release(s)
  <2>0. run[s].pc # "none"
    BY <1>9 DEF Release
  <2>1. ASSUME NEW l \in {"drop", "save"}, run' = [run EXCEPT ![s] = [run[s] EXCEPT !.pc = l]]
        PROVE  Advances(s)
    BY <1>0, <2>0, <2>1 DEF Runs, Advances, Early
  <2> QED
    BY <1>1, <1>2, <1>9, <2>0, <2>1 DEF Release
<1>10. CASE Save(s)
  <2>0. run[s].pc # "none"
    BY <1>10 DEF Save
  <2>1. ASSUME NEW v, NEW n, NEW w,
                 run' = [run EXCEPT ![s] = [run[s] EXCEPT !.pc = "drop", !.version = v,
                                                          !.retries = n, !.why = w]]
        PROVE  Advances(s)
    BY <1>0, <2>0, <2>1 DEF Runs, Advances, Early
  <2> QED
    BY <1>1, <1>2, <1>10, <2>0, <2>1 DEF Save
<1>11. CASE Create(s)
  BY <1>1, <1>11 DEF Create, Registers
<1>12. CASE RunFault(s)
  BY <1>1, <1>2, <1>12 DEF RunFault
<1> QED
  BY <1>3, <1>4, <1>5, <1>6, <1>7, <1>8, <1>9, <1>10, <1>11, <1>12 DEF Loop

\* Steps that only move tasks on: a task keeps its token or ends, a late call ends, no
\* stop call is at its start, and no resume or import happens.
TasksMoveOn ==
    /\ \A s \in Supervisors : run'[s].fence = run[s].fence \/ run'[s].fence = 0
    /\ \A s \in Supervisors : late'[s] = late[s] \/ late'[s].pc = "none"
    /\ \A o \in Stops : stop'[o].pc = "forced" => stop'[o] = stop[o]
    /\ resume' = resume /\ sessions' = sessions

\* Every step starts a loop, forces the row, captures a task, resumes, imports, or
\* moves tasks on.
LEMMA StepKinds ==
    ASSUME IInv, [Next]_vars
    PROVE  \/ \E s \in Supervisors : Start(s)
           \/ \E o \in Stops : ForceTerminal(o) \/ Capture(o)
           \/ ResumeRead \/ ResumeSave \/ Reimport
           \/ TasksMoveOn
<1>0. /\ run \in [Supervisors -> Runs] /\ late \in [Supervisors -> Runs]
      /\ stop \in [Stops -> StopCalls] /\ NoRun.fence = 0 /\ NoRun.pc = "none" /\ NoStop.pc = "idle"
  BY DEF IInv, RunInv, CallsInv, StopInv, NoRun, NoStop
<1>a. ASSUME run' = run, late' = late, stop' = stop, resume' = resume, sessions' = sessions
      PROVE  TasksMoveOn
  BY <1>a DEF TasksMoveOn
<1>1. ASSUME NEW s \in Supervisors, \A t \in Supervisors \ {s} : run'[t] = run[t],
             run'[s].fence = run[s].fence \/ run'[s].fence = 0,
             late' = late, stop' = stop, resume' = resume, sessions' = sessions
      PROVE  TasksMoveOn
  BY <1>0, <1>1 DEF TasksMoveOn
<1>2. ASSUME NEW s \in Supervisors, Loop(s) \/ RunFault(s) PROVE TasksMoveOn
  <2>0. run[s] \in Runs /\ late' = late /\ stop' = stop /\ resume' = resume /\ sessions' = sessions
    BY <1>0, <1>2 DEF Loop, Renew, Sleep, Acquire, CheckProxy, Create, Handshake, Activate, Release,
                      Save, Drop, RunFault, calls
  <2>1. CASE Advances(s)
    BY <1>0, <1>1, <2>0, <2>1 DEF Advances
  <2>2. ASSUME NEW c, Registers(s, c) PROVE TasksMoveOn
    BY <1>0, <1>1, <2>0, <2>2 DEF Registers, Runs
  <2>3. CASE Drop(s)
    <3>1. CASE run' = [run EXCEPT ![s] = [run[s] EXCEPT !.pc = "sleep", !.slot = 0, !.client = 0,
                                                        !.why = "none"]]
      BY <1>0, <1>1, <2>0, <3>1 DEF Runs
    <3>2. CASE run' = [run EXCEPT ![s] = NoRun]
      BY <1>0, <1>1, <2>0, <3>2
    <3> QED
      BY <2>3, <3>1, <3>2 DEF Drop, RunGoto, RunEnds
  <2> QED
    BY <1>0, <1>2, <2>1, <2>2, <2>3, LoopAdvances
<1>4. ASSUME NEW s \in Supervisors, LateWrite(s) PROVE TasksMoveOn
  BY <1>0, <1>4 DEF LateWrite, TasksMoveOn
<1>5. ASSUME NEW s \in Supervisors, Crash(s) PROVE TasksMoveOn
  <2>1. \A t \in Supervisors : run'[t].fence = run[t].fence \/ run'[t].fence = 0
    BY <1>0, <1>5 DEF Crash, NoRun
  <2>2. \A t \in Supervisors : late'[t] = late[t] \/ late'[t].pc = "none"
    BY <1>0, <1>5 DEF Crash
  <2>3. \A o \in Stops : stop'[o].pc = "forced" => stop'[o] = stop[o]
    BY <1>0, <1>5 DEF Crash
  <2> QED
    BY <1>5, <2>1, <2>2, <2>3 DEF Crash, TasksMoveOn
<1>6. ASSUME NEW c \in Clients, Monitoring(c) \/ HeartbeatFault(c) PROVE TasksMoveOn
  BY <1>a, <1>6 DEF Monitoring, Heartbeat, HeartbeatFault, FailClosed, MonitorDrop, calls
<1>7. ASSUME NEW o \in Stops, Disconnect(o) \/ Pop(o) \/ ReleaseTerminal(o) PROVE TasksMoveOn
  <2>1. /\ \A p \in Stops \ {o} : stop'[p] = stop[p]
        /\ stop'[o].pc # "forced"
    BY <1>0, <1>7 DEF Disconnect, Pop, ReleaseTerminal, StopGoto, StopCalls
  <2>2. run' = run /\ late' = late /\ resume' = resume /\ sessions' = sessions
    BY <1>7 DEF Disconnect, Pop, ReleaseTerminal
  <2> QED
    BY <1>0, <2>1, <2>2 DEF TasksMoveOn
<1>8. CASE ApiForce \/ ExpireLease \/ UNCHANGED vars
  BY <1>a, <1>8 DEF ApiForce, ExpireLease, vars, calls
<1> QED
  BY <1>2, <1>4, <1>5, <1>6, <1>7, <1>8 DEF Next, Stopping

\* Every step keeps whoever was stopped or cancelled behind the fence token.
LEMMA FenceStep ==
    ASSUME IInv, FenceInv, [Next]_vars
    PROVE  FenceInv'
<1>0. /\ RowInv /\ CountInv
      /\ row \in Rows /\ row.fence \in Nat
      /\ \A s \in Supervisors : run[s].fence \in Nat /\ late[s].fence \in Nat
      /\ resume # None => resume \in Rows /\ resume.fence \in Nat
      /\ \A o \in Stops : stop[o].pc # "idle" => stop[o].sup \in Supervisors
  BY RowColumns DEF IInv, RowInv, GoodRow, CallsInv, RunInv, StopInv, Runs
<1>1. IInv'
  BY InductiveStep
<1>2. row'.fence \in Nat
  BY <1>1, RowColumns DEF IInv, RowInv
<1>3. sessions' >= 1 /\ (sessions' = 1 => sessions' = sessions /\ ~Reimport)
  <2>1. sessions' = sessions \/ Reimport
    BY StepKinds DEF TasksMoveOn, Start, ForceTerminal, Capture, ResumeRead, ResumeSave, calls
  <2> QED
    BY <1>0, <2>1 DEF FenceInv, Reimport, CountInv
<1> SUFFICES ASSUME sessions' = 1
             PROVE  Fenced'
  BY <1>3 DEF FenceInv
<1>4. /\ resume # None => row.state \in Stopped
      /\ \A s \in Supervisors : RunFence(s) /\ LateFence(s) /\ ResumeFence(s)
      /\ \A o \in Stops : StopFence(o)
  BY <1>3 DEF FenceInv, Fenced
<1>5. FenceMoves \/ ResumeSave
  <2>1. CASE \E s \in Supervisors : ClaimantWrites(s)
    BY <1>0, <2>1, ClaimantFence
  <2>2. CASE OperatorForces
    BY <1>0, <2>2, ForcedFence
  <2>3. CASE row' = row \/ row' = [row EXCEPT !.lease = "expired"]
    BY <1>0, <2>3 DEF FenceMoves, Rows
  <2> QED
    BY <1>3, <2>1, <2>2, <2>3, RowWriters
<1> USE DEF Fenced, RunFence, LateFence, ResumeFence, StopFence
<1>6. ASSUME NEW s \in Supervisors, Start(s) PROVE Fenced'
  <2>1. /\ row.state \notin Stopped /\ resume' = None
        /\ row'.fence = row.fence + 1 /\ row'.state \notin Stopped
        /\ late' = late /\ stop' = stop /\ resume' = resume
    <3>1. row.state \notin Stopped
      BY <1>6 DEF Start, Claimable, Terminal, Stopped
    <3>2. row'.fence = row.fence + 1 /\ row'.state = row.state
      BY <1>0, <1>6 DEF Start, ClaimRow, Rows
    <3> QED
      BY <1>4, <1>6, <3>1, <3>2 DEF Start, calls
  <2>2. \A t \in Supervisors : run'[t] = run[t] \/ (t = s /\ run'[t].fence = row'.fence)
    <3>1. run \in [Supervisors -> Runs]
      BY DEF IInv, RunInv
    <3>2. CASE run' = run
      BY <3>2
    <3>3. CASE run' # run
      <4>1. run' = [run EXCEPT ![s] = [NoRun EXCEPT !.pc = "renew", !.version = row'.version,
                       !.fence = row'.fence, !.session = row.session, !.retries = row.retries]]
        BY <1>6, <3>3 DEF Start, RunGoto
      <4> QED
        BY <3>1, <4>1 DEF NoRun
    <3> QED
      BY <3>2, <3>3
  <2>3. \A t \in Supervisors : RunFence(t)' /\ LateFence(t)' /\ ResumeFence(t)'
    BY <1>0, <1>4, <2>1, <2>2
  <2>4. ASSUME NEW o \in Stops, stop'[o].pc = "forced" PROVE run'[stop'[o].sup].fence < row'.fence
    <3>1. stop[o].pc = "forced" /\ stop[o].sup \in Supervisors /\ stop[o].sup # s
      BY <1>0, <1>6, <2>1, <2>4 DEF Start, Locked
    <3>2. run[stop[o].sup].fence < row.fence
      BY <1>4, <3>1
    <3> QED
      BY <1>0, <2>1, <2>2, <3>1, <3>2
  <2> QED
    BY <2>1, <2>3, <2>4
<1>7. ASSUME NEW o \in Stops, ForceTerminal(o) PROVE Fenced'
  <2>1. OperatorForces
    BY <1>7 DEF ForceTerminal, OperatorForces
  <2>2. /\ row'.state \in Stopped /\ row'.fence >= row.fence
        /\ (row' = row /\ row.state = "archived") \/ row'.fence > row.fence
    BY <1>0, <2>1, ForcedFence DEF FenceMoves
  <2>3. run' = run /\ late' = late /\ resume' = resume
    BY <1>7 DEF ForceTerminal
  <2>4. \A s \in Supervisors : run[s].fence < row'.fence
    BY <1>0, <1>2, <1>4, <2>2 DEF Stopped
  <2>5. \A p \in Stops : stop'[p].pc # "idle" => stop'[p].sup \in Supervisors
    BY <1>1 DEF IInv, StopInv
  <2>6. \A s \in Supervisors : LateFence(s)'
    BY <1>0, <1>2, <1>4, <2>2, <2>3
  <2> QED
    BY <1>0, <1>2, <1>4, <2>2, <2>3, <2>4, <2>5, <2>6
<1>8. ASSUME NEW o \in Stops, Capture(o) PROVE Fenced'
  <2>0. run \in [Supervisors -> Runs] /\ late \in [Supervisors -> Runs] /\ stop \in [Stops -> StopCalls]
    BY DEF IInv, RunInv, CallsInv, StopInv
  <2>1. row' = row /\ resume' = resume
    BY <1>8 DEF Capture
  <2>2. /\ stop[o].sup \in Supervisors
        /\ run[stop[o].sup].fence < row.fence
    BY <1>0, <1>4, <1>8 DEF Capture
  <2>3. \A s \in Supervisors : run'[s] = run[s] \/ (s = stop[o].sup /\ run'[s].fence = 0)
    BY <1>8, <2>0 DEF Capture, RunEnds, RunGoto, NoRun
  <2>4. \A s \in Supervisors : late'[s] = late[s] \/ (s = stop[o].sup /\ late'[s] = run[s])
    BY <1>8, <2>0 DEF Capture
  <2>5. \A p \in Stops : stop'[p] = stop[p] \/ (p = o /\ stop'[p].pc # "forced")
    BY <1>8, <2>0 DEF Capture, StopGoto, StopCalls
  <2>6. ASSUME NEW s \in Supervisors PROVE RunFence(s)' /\ LateFence(s)' /\ ResumeFence(s)'
    <3>1. RunFence(s) /\ LateFence(s) /\ ResumeFence(s)
      BY <1>4
    <3>2. RunFence(s)'
      BY <1>0, <2>1, <2>2, <2>3, <3>1
    <3>3. LateFence(s)'
      BY <1>0, <2>1, <2>2, <2>4, <3>1
    <3>4. ResumeFence(s)'
      BY <1>0, <2>1, <2>3, <2>4, <3>1
    <3> QED
      BY <3>2, <3>3, <3>4
  <2>7. ASSUME NEW p \in Stops, stop'[p].pc = "forced" PROVE run'[stop'[p].sup].fence < row'.fence
    <3>1. stop'[p] = stop[p] /\ stop[p].sup \in Supervisors /\ run[stop[p].sup].fence < row.fence
      BY <1>0, <1>4, <2>5, <2>7
    <3> QED
      BY <1>0, <2>1, <2>2, <2>3, <3>1
  <2> QED
    BY <1>4, <2>1, <2>6, <2>7
<1>9. CASE ResumeRead
  BY <1>4, <1>9 DEF ResumeRead, Stopped
<1>10. CASE ResumeSave
  <2>1. /\ run' = run /\ late' = late /\ stop' = stop /\ resume' = None /\ resume # None
        /\ row' = row \/ row' = [resume EXCEPT !.state = "quarantine"]
    BY <1>10 DEF ResumeSave
  <2>2. CASE row' = row
    BY <1>4, <2>1, <2>2
  <2>3. CASE row' = [resume EXCEPT !.state = "quarantine"]
    <3>1. row'.fence = resume.fence /\ row'.state \notin Stopped
      BY <1>0, <2>1, <2>3 DEF Rows, Stopped
    <3> QED
      BY <1>0, <1>4, <2>1, <3>1
  <2> QED
    BY <2>1, <2>2, <2>3
<1>11. CASE TasksMoveOn /\ ~ResumeSave
  <2>1. /\ row'.fence >= row.fence
        /\ row'.state \in Stopped => row.state \in Stopped \/ row'.fence > row.fence
        /\ row.state \in Stopped => row'.state \in Stopped
    BY <1>5, <1>11 DEF FenceMoves
  <2>2. /\ \A s \in Supervisors : run'[s].fence = run[s].fence \/ run'[s].fence = 0
        /\ \A s \in Supervisors : late'[s] = late[s] \/ late'[s].pc = "none"
        /\ \A o \in Stops : stop'[o].pc = "forced" => stop'[o] = stop[o]
        /\ resume' = resume
    BY <1>11 DEF TasksMoveOn
  <2>3. ASSUME NEW s \in Supervisors PROVE RunFence(s)' /\ LateFence(s)' /\ ResumeFence(s)'
    <3>1. RunFence(s) /\ LateFence(s) /\ ResumeFence(s)
      BY <1>4
    <3>2. RunFence(s)'
      BY <1>0, <1>2, <2>1, <2>2, <3>1
    <3>3. LateFence(s)'
      BY <1>0, <1>2, <2>1, <2>2, <3>1
    <3>4. ResumeFence(s)'
      BY <1>0, <2>2, <3>1
    <3> QED
      BY <3>2, <3>3, <3>4
  <2>4. ASSUME NEW o \in Stops, stop'[o].pc = "forced" PROVE run'[stop'[o].sup].fence < row'.fence
    <3>1. stop'[o] = stop[o] /\ stop[o].sup \in Supervisors /\ run[stop[o].sup].fence < row.fence
      BY <1>0, <1>4, <2>2, <2>4
    <3> QED
      BY <1>0, <1>2, <2>1, <2>2, <3>1
  <2> QED
    BY <1>4, <2>1, <2>2, <2>3, <2>4
<1> HIDE DEF Fenced, RunFence, LateFence, ResumeFence, StopFence
<1> QED
  BY <1>3, <1>6, <1>7, <1>8, <1>9, <1>10, <1>11, StepKinds

\* A database call that outlives the cancellation of its task finds its fence token
\* passed, whatever faults, crashes, stops and resumes came in between: until an import
\* starts the tokens over it never changes the row.
THEOREM LateWritesFenced == Spec => LateWriteIsFenced
<1> DEFINE A == \A s \in Supervisors : LateClaimWrite(s) /\ sessions = 1 => row' = row
<1>1. Init => FenceInv
  <2> SUFFICES ASSUME Init PROVE FenceInv
    OBVIOUS
  <2>1. /\ row.fence = 0 /\ row.state = "quarantine" /\ sessions = 1 /\ resume = None
        /\ \A s \in Supervisors : run[s].fence = 0 /\ late[s].pc = "none"
        /\ \A o \in Stops : stop[o].pc = "idle"
    BY DEF Init, FreshRow, NoRun, NoStop
  <2> QED
    BY <2>1 DEF FenceInv, Fenced, RunFence, LateFence, ResumeFence, StopFence, Stopped
<1>2. IInv /\ FenceInv /\ [Next]_vars => [A]_vars
  <2> SUFFICES ASSUME IInv, FenceInv, Next, sessions = 1,
                      NEW s \in Supervisors, LateClaimWrite(s)
               PROVE  row' = row
    OBVIOUS
  <2>0. run \in [Supervisors -> Runs] /\ late \in [Supervisors -> Runs]
    BY DEF IInv, RunInv, CallsInv
  <2>1. late[s].fence < row.fence /\ late[s].fence \in Nat /\ row.fence \in Nat
    BY RowColumns DEF FenceInv, Fenced, LateFence, LateClaimWrite, IInv, RowInv, CallsInv, Runs
  <2>2. LateWrite(s) \/ Crash(s)
    <3>1. late'[s] # late[s]
      BY DEF LateClaimWrite
    <3>2. ASSUME NEW o \in Stops, Capture(o) PROVE late'[s].pc # "none"
      BY <2>0, <3>1, <3>2 DEF Capture
    <3>3. ASSUME NEW t \in Supervisors, LateWrite(t) \/ Crash(t) PROVE t = s
      BY <2>0, <3>1, <3>3 DEF LateWrite, Crash
    <3> QED
      BY <3>1, <3>2, <3>3
      DEF Next, calls, local, proxy, Start, Loop, Renew, Sleep, Acquire, CheckProxy, Create, Handshake,
          Activate, Release, Save, Drop, RunFault, Monitoring, Heartbeat, FailClosed, MonitorDrop,
          HeartbeatFault, ForceTerminal, Stopping, Disconnect, Pop, ReleaseTerminal, ApiForce,
          ResumeRead, ResumeSave, Reimport, ExpireLease, LateClaimWrite
  <2>3. ~ClaimMatches(late[s], s)
    BY <2>1 DEF ClaimMatches
  <2>4. /\ RenewRow(late[s], s) = row /\ ActiveRow(late[s], s) = row
        /\ \A e \in BOOLEAN : FailureRow(late[s], s, e) = row
    BY <2>3 DEF RenewRow, Renewable, OwnsClaim, ActiveRow, FailureRow, SaveClaimed
  <2> QED
    BY <2>2, <2>4 DEF LateWrite, Crash
<1>3. IInv /\ FenceInv /\ [Next]_vars => FenceInv'
  BY FenceStep
<1> QED
  BY <1>1, <1>2, <1>3, Invariant, PTL DEF Spec, LateWriteIsFenced

----------------------------------------------------------------------------
(* Clients.                                                                *)

\* What makes every open client reachable: a task owns the client its supervisor has
\* registered, a stop call the one it captured, and while a stop call is at work the
\* account is terminal, so that no new client can be registered behind its back.
ClientInv ==
    /\ \A s \in Supervisors : clients[s] # 0 => home[clients[s]] = s
    /\ \A c \in connected : home[c] \in Supervisors
TaskInv(s) ==
    /\ run[s].pc \in Early => run[s].client = 0
    /\ run[s].pc # "none" => clients[s] \in {0, run[s].client}
CaptureInv(o) ==
    /\ stop[o].pc # "idle" => row.state \in Terminal
    /\ stop[o].pc \in {"disconnect", "pop"} =>
          /\ stop[o].client \in Clients
          /\ home[stop[o].client] = stop[o].sup
          /\ clients[stop[o].sup] \in {0, stop[o].client}
    /\ stop[o].pc = "pop" => stop[o].client \notin connected
ReachInv ==
    /\ resume = None
    /\ ClientInv
    /\ \A s \in Supervisors : TaskInv(s)
    /\ \A o \in Stops : CaptureInv(o)
    /\ OpenClientIsReachable

\* Without a resume or an import a terminal account stays terminal.
LEMMA TerminalAbsorbs ==
    ASSUME IInv, [Next]_vars, resume = None, "reimport" \notin Environment
    PROVE  row.state \in Terminal => row'.state \in Terminal
<1> SUFFICES ASSUME row.state \in Terminal PROVE row'.state \in Terminal
  OBVIOUS
<1>0. RowInv /\ row \in Rows
  BY DEF IInv, RowInv, GoodRow
<1>1. CASE \E s \in Supervisors : ClaimantWrites(s)
  <2>1. PICK s \in Supervisors : ClaimantWrites(s)
    BY <1>1
  <2>2. /\ ~Claimable
        /\ \A t : RenewRow(t, s) = row /\ FailClosedRow(t, s) = row /\ ActiveRow(t, s) = row
        /\ \A t, e : FailureRow(t, s, e) = row
    BY <1>0, TerminalRowFixed
  <2> QED
    BY <2>1, <2>2 DEF ClaimantWrites
<1>2. CASE OperatorForces
  BY <1>0, <1>2, ForcedFence DEF Stopped, Terminal
<1>3. CASE row' = row \/ row' = [row EXCEPT !.lease = "expired"]
  BY <1>0, <1>3 DEF Rows
<1>4. ~ResumeSave /\ ~Reimport
  BY DEF ResumeSave, Reimport
<1> QED
  BY <1>1, <1>2, <1>3, <1>4, RowWriters

\* Steps that register nothing, deregister nothing and leave the stop calls alone.
LEMMA ReachKept ==
    ASSUME IInv, ReachInv, row.state \in Terminal => row'.state \in Terminal,
           clients' = clients, home' = home, stop' = stop, resume' = resume, connected' \subseteq connected,
           \A s \in Supervisors :
              \/ run'[s] = run[s]
              \/ run'[s] = NoRun
              \/ /\ run'[s].client = run[s].client
                 /\ run[s].pc # "none" /\ (run'[s].pc \in Early => run[s].pc \in Early)
    PROVE  ReachInv'
<1>1. ClientInv'
  BY DEF ReachInv, ClientInv
<1>2. \A s \in Supervisors : TaskInv(s)'
  BY DEF ReachInv, TaskInv, NoRun
<1>3. \A o \in Stops : CaptureInv(o)'
  BY DEF ReachInv, CaptureInv
<1>4. OpenClientIsReachable'
  BY DEF ReachInv, OpenClientIsReachable, Captured
<1> QED
  BY <1>1, <1>2, <1>3, <1>4 DEF ReachInv

\* Steps that deregister or close clients and leave the stop calls alone.
LEMMA ReachClosed ==
    ASSUME IInv, ReachInv, row.state \in Terminal => row'.state \in Terminal,
           home' = home, stop' = stop, resume' = resume, connected' \subseteq connected,
           \A s \in Supervisors : clients'[s] \in {clients[s], 0},
           \A s \in Supervisors : clients'[s] # clients[s] => clients[s] \notin connected',
           \A s \in Supervisors : TaskInv(s)'
    PROVE  ReachInv'
<1>0. \A o \in Stops : stop[o].pc # "idle" => stop[o].sup \in Supervisors
  BY DEF IInv, StopInv
<1>1. ClientInv'
  BY DEF ReachInv, ClientInv
<1>3. \A o \in Stops : CaptureInv(o)'
  BY <1>0 DEF ReachInv, CaptureInv
<1>4. OpenClientIsReachable'
  BY DEF ReachInv, OpenClientIsReachable, Captured, ClientInv
<1> QED
  BY <1>1, <1>3, <1>4 DEF ReachInv

\* Every step keeps every open client reachable.
LEMMA ReachStep ==
    ASSUME IInv, ReachInv, [Next]_vars, Environment \cap {"resume", "reimport"} = {}
    PROVE  ReachInv'
<1> USE SupervisorAssumption
<1>0. /\ run \in [Supervisors -> Runs] /\ clients \in [Supervisors -> Clients \cup {0}]
      /\ home \in [Clients -> Supervisors \cup {None}] /\ stop \in [Stops -> StopCalls]
      /\ connected \subseteq Clients /\ resume = None
      /\ \A s \in Supervisors : TaskInv(s)
      /\ \A c \in Clients : c # 0
      /\ \A o \in Stops : stop[o].pc # "idle" => stop[o].sup \in Supervisors
      /\ NoRun.client = 0 /\ NoRun.pc = "none" /\ NoStop.pc = "idle" /\ NoStop.sup = None
  BY DEF IInv, RunInv, LocalInv, StopInv, ReachInv, Clients, NoRun, NoStop
<1>t. row.state \in Terminal => row'.state \in Terminal
  BY <1>0, TerminalAbsorbs
<1>1. ASSUME NEW s \in Supervisors, Start(s) PROVE ReachInv'
  <2>1. /\ clients' = clients /\ connected' = connected /\ home' = home /\ stop' = stop
        /\ resume' = resume /\ clients[s] = 0
    BY <1>1 DEF Start, local, calls
  <2>2. \A t \in Supervisors : run'[t] = run[t] \/ (t = s /\ run'[t].client = 0)
    <3>1. CASE run' = run
      BY <3>1
    <3>2. CASE run' # run
      <4>1. run' = [run EXCEPT ![s] = [NoRun EXCEPT !.pc = "renew", !.version = row'.version,
                       !.fence = row'.fence, !.session = row.session, !.retries = row.retries]]
        BY <1>1, <3>2 DEF Start, RunGoto
      <4> QED
        BY <1>0, <4>1 DEF NoRun
    <3> QED
      BY <3>1, <3>2
  <2>3. \A t \in Supervisors : TaskInv(t)'
    BY <1>0, <2>1, <2>2 DEF TaskInv
  <2> QED
    BY <1>t, <2>1, <2>3, ReachClosed
<1>2. ASSUME NEW s \in Supervisors, Loop(s) \/ RunFault(s), Advances(s), ~Drop(s), ~Create(s) PROVE ReachInv'
  <2>1. clients' = clients /\ connected' \subseteq connected /\ home' = home /\ stop' = stop /\ resume' = resume
    BY <1>2 DEF Loop, Renew, Sleep, Acquire, CheckProxy, Handshake, Activate, Release, Save, RunFault,
                Abandoned, local, calls
  <2> QED
    BY <1>t, <1>2, <2>1, ReachKept DEF Advances
<1>3. ASSUME NEW s \in Supervisors, Create(s), \A c \in Clients : ~Registers(s, c) PROVE ReachInv'
  <2>1. clients' = clients /\ connected' = connected /\ home' = home /\ stop' = stop /\ resume' = resume
    BY <1>3 DEF Create, Registers, RunGoto, calls
  <2>2. Advances(s)
    <3>1. run[s].pc = "create" /\ ~Drop(s)
      BY <1>3 DEF Create, Drop
    <3> QED
      BY <1>0, <1>3, <3>1, LoopAdvances DEF Loop
  <2> QED
    BY <1>t, <2>1, <2>2, ReachKept DEF Advances
<1>4. ASSUME NEW s \in Supervisors, Create(s), NEW c \in Clients, Registers(s, c) PROVE ReachInv'
  <2>1. /\ home[c] = None /\ home' = [home EXCEPT ![c] = s] /\ clients' = [clients EXCEPT ![s] = c]
        /\ connected' = connected \cup {c} /\ stop' = stop /\ resume' = resume /\ row' = row
        /\ clients[s] = 0
    <3>1. run[s].pc = "create"
      BY <1>4 DEF Registers
    <3>2. clients[s] = 0
      BY <1>0, <3>1 DEF TaskInv, Early
    <3> QED
      BY <1>4, <3>2 DEF Create, Registers, calls
  <2>2. \A o \in Stops : stop[o].pc = "idle"
    <3>1. row.owner = s
      BY <1>4 DEF Registers, OwnsClaim, ClaimMatches
    <3>2. row.state \notin Terminal
      BY <3>1 DEF IInv, RowInv, GoodRow
    <3> QED
      BY <3>2 DEF ReachInv, CaptureInv
  <2>3. ClientInv'
    BY <1>0, <2>1 DEF ReachInv, ClientInv
  <2>4. ASSUME NEW t \in Supervisors PROVE TaskInv(t)'
    <3>1. CASE t = s
      <4>1. run'[s].pc = "connect" /\ run'[s].client = c
        BY <1>0, <1>4 DEF Registers, Runs
      <4> QED
        BY <1>0, <2>1, <3>1, <4>1 DEF TaskInv, Early
    <3>2. CASE t # s
      BY <1>0, <1>4, <2>1, <3>2 DEF TaskInv, Registers
    <3> QED
      BY <3>1, <3>2
  <2>5. \A o \in Stops : CaptureInv(o)'
    BY <2>1, <2>2 DEF CaptureInv
  <2>6. OpenClientIsReachable'
    <3>1. \A d \in connected : home[d] \in Supervisors /\ clients[home[d]] = d
      BY <2>2 DEF ReachInv, ClientInv, OpenClientIsReachable, Captured
    <3> QED
      BY <1>0, <2>1, <3>1 DEF OpenClientIsReachable
  <2> QED
    BY <1>0, <2>1, <2>3, <2>4, <2>5, <2>6 DEF ReachInv
<1>5. ASSUME NEW s \in Supervisors, Drop(s) PROVE ReachInv'
  <2>1. /\ home' = home /\ stop' = stop /\ resume' = resume
        /\ clients' = [clients EXCEPT ![s] = IF @ = run[s].client THEN 0 ELSE @]
        /\ connected' = connected \ {run[s].client}
    BY <1>5 DEF Drop, calls
  <2>2. clients'[s] = 0 /\ clients[s] \notin connected'
    BY <1>0, <1>5, <2>1 DEF Drop, TaskInv
  <2>3. run'[s].client = 0 /\ \A t \in Supervisors \ {s} : run'[t] = run[t]
    <3>1. CASE run' = [run EXCEPT ![s] = [run[s] EXCEPT !.pc = "sleep", !.slot = 0, !.client = 0,
                                                        !.why = "none"]]
      BY <1>0, <3>1 DEF Runs
    <3>2. CASE run' = [run EXCEPT ![s] = NoRun]
      BY <1>0, <3>2
    <3> QED
      BY <1>5, <3>1, <3>2 DEF Drop, RunGoto, RunEnds
  <2>4. \A t \in Supervisors : TaskInv(t)'
    BY <1>0, <2>1, <2>2, <2>3 DEF TaskInv
  <2> QED
    BY <1>0, <1>t, <2>1, <2>2, <2>4, ReachClosed
<1>6. ASSUME NEW s \in Supervisors, LateWrite(s) PROVE ReachInv'
  BY <1>t, <1>6, ReachKept DEF LateWrite, local
<1>7. ASSUME NEW s \in Supervisors, Crash(s) PROVE ReachInv'
  <2>1. /\ home' = home /\ resume' = resume /\ row' = row
        /\ clients' = [clients EXCEPT ![s] = 0]
        /\ connected' = {c \in connected : home[c] # s}
        /\ stop' = [o \in Stops |-> IF stop[o].sup = s THEN NoStop ELSE stop[o]]
    BY <1>7 DEF Crash
  <2>2. /\ \A t \in Supervisors \ {s} : run'[t] = run[t]
        /\ run'[s].client = 0
    BY <1>0, <1>7 DEF Crash, NoRun
  <2>3. ClientInv'
    BY <1>0, <2>1 DEF ReachInv, ClientInv
  <2>4. \A t \in Supervisors : TaskInv(t)'
    BY <1>0, <2>1, <2>2 DEF TaskInv
  <2>5. \A o \in Stops : CaptureInv(o)'
    BY <1>0, <2>1 DEF ReachInv, CaptureInv
  <2>6. OpenClientIsReachable'
    <3> SUFFICES ASSUME NEW c \in connected, home[c] # s PROVE clients'[home[c]] = c \/ Captured(c)'
      BY <2>1 DEF OpenClientIsReachable
    <3>1. home[c] \in Supervisors /\ (clients[home[c]] = c \/ Captured(c))
      BY DEF ReachInv, ClientInv, OpenClientIsReachable
    <3>2. CASE clients[home[c]] = c
      BY <1>0, <2>1, <3>1, <3>2
    <3>3. CASE Captured(c)
      <4>1. PICK o \in Stops : stop[o].client = c /\ stop[o].pc = "disconnect"
        BY <3>3 DEF Captured
      <4>2. stop[o].sup = home[c]
        BY <4>1 DEF ReachInv, CaptureInv
      <4> QED
        BY <2>1, <4>1, <4>2 DEF Captured
    <3> QED
      BY <3>1, <3>2, <3>3
  <2> QED
    BY <1>0, <2>1, <2>3, <2>4, <2>5, <2>6 DEF ReachInv
<1>8. ASSUME NEW c \in Clients, Heartbeat(c) \/ HeartbeatFault(c) \/ FailClosed(c) PROVE ReachInv'
  BY <1>t, <1>8, ReachKept DEF Heartbeat, HeartbeatFault, FailClosed, calls
<1>9. ASSUME NEW c \in Clients, MonitorDrop(c) PROVE ReachInv'
  <2>0. home[c] \in Supervisors
    BY <1>9 DEF MonitorDrop, IInv, LocalInv
  <2>1. /\ home' = home /\ stop' = stop /\ resume' = resume /\ run' = run
        /\ clients' = [clients EXCEPT ![home[c]] = IF @ = c THEN 0 ELSE @]
        /\ connected' = IF clients[home[c]] = c THEN connected \ {c} ELSE connected
    BY <1>9 DEF MonitorDrop, calls
  <2>2. \A t \in Supervisors : TaskInv(t)'
    BY <1>0, <2>0, <2>1 DEF TaskInv
  <2> QED
    BY <1>0, <1>t, <2>0, <2>1, <2>2, ReachClosed
<1>10. ASSUME NEW o \in Stops, ForceTerminal(o) PROVE ReachInv'
  <2>1. /\ clients' = clients /\ connected' = connected /\ home' = home /\ run' = run /\ resume' = resume
        /\ stop[o].pc = "idle" /\ OperatorForces
    BY <1>10 DEF ForceTerminal, OperatorForces, local
  <2>2. \A p \in Stops : stop'[p] = stop[p] \/ (p = o /\ stop'[p].pc = "forced")
    BY <1>0, <1>10 DEF ForceTerminal, StopGoto, NoStop
  <2>3. row'.state \in Terminal
    BY <2>1, ForcedFence DEF IInv, Stopped, Terminal
  <2>4. \A p \in Stops : CaptureInv(p)'
    BY <2>1, <2>2, <2>3 DEF ReachInv, CaptureInv
  <2>5. OpenClientIsReachable'
    <3>1. \A c : Captured(c) => Captured(c)'
      BY <2>1, <2>2 DEF Captured
    <3> QED
      BY <2>1, <3>1 DEF ReachInv, OpenClientIsReachable
  <2> QED
    BY <2>1, <2>4, <2>5 DEF ReachInv, ClientInv, TaskInv
<1>11. ASSUME NEW o \in Stops, Capture(o) PROVE ReachInv'
  <2> DEFINE s == stop[o].sup
  <2>0. s \in Supervisors /\ stop[o].pc = "forced" /\ row.state \in Terminal
    BY <1>0, <1>11 DEF Capture, ReachInv, CaptureInv
  <2>1. /\ clients' = clients /\ connected' \subseteq connected /\ home' = home /\ row' = row /\ resume' = resume
        /\ run' = [run EXCEPT ![s] = NoRun]
    BY <1>11 DEF Capture, Abandoned, RunEnds, RunGoto
  <2>2. /\ \A p \in Stops \ {o} : stop'[p] = stop[p]
        /\ stop'[o].sup = s /\ stop'[o].client = clients[s]
        /\ stop'[o].pc = IF clients[s] = 0 THEN "release" ELSE "disconnect"
    BY <1>0, <1>11 DEF Capture, StopGoto, StopCalls
  <2> HIDE DEF s
  <2>3. ClientInv'
    BY <2>1 DEF ReachInv, ClientInv
  <2>4. \A t \in Supervisors : TaskInv(t)'
    BY <1>0, <2>0, <2>1 DEF TaskInv
  <2>5. \A p \in Stops : CaptureInv(p)'
    <3>1. CaptureInv(o)'
      BY <1>0, <2>0, <2>1, <2>2 DEF ReachInv, ClientInv, CaptureInv
    <3>2. \A p \in Stops \ {o} : CaptureInv(p)'
      BY <2>1, <2>2 DEF ReachInv, CaptureInv
    <3> QED
      BY <3>1, <3>2
  <2>6. OpenClientIsReachable'
    <3>1. \A c : Captured(c) => Captured(c)'
      BY <2>0, <2>2 DEF Captured
    <3> QED
      BY <2>1, <3>1 DEF ReachInv, OpenClientIsReachable
  <2> QED
    BY <1>0, <2>1, <2>3, <2>4, <2>5, <2>6 DEF ReachInv
<1>12. ASSUME NEW o \in Stops, Disconnect(o) PROVE ReachInv'
  <2>1. /\ clients' = clients /\ connected' = connected \ {stop[o].client} /\ home' = home
        /\ row' = row /\ resume' = resume /\ run' = run /\ stop[o].pc = "disconnect"
    BY <1>12 DEF Disconnect
  <2>2. /\ \A p \in Stops \ {o} : stop'[p] = stop[p]
        /\ stop'[o].sup = stop[o].sup /\ stop'[o].client = stop[o].client /\ stop'[o].pc = "pop"
    BY <1>0, <1>12 DEF Disconnect, StopGoto, StopCalls
  <2>3. \A p \in Stops : CaptureInv(p)'
    BY <2>1, <2>2 DEF ReachInv, CaptureInv
  <2>4. OpenClientIsReachable'
    <3>1. \A c \in connected' : Captured(c) => Captured(c)'
      BY <2>1, <2>2 DEF Captured
    <3> QED
      BY <2>1, <3>1 DEF ReachInv, OpenClientIsReachable
  <2> QED
    BY <2>1, <2>3, <2>4 DEF ReachInv, ClientInv, TaskInv
<1>13. ASSUME NEW o \in Stops, Pop(o) PROVE ReachInv'
  <2>0. stop[o].sup \in Supervisors /\ clients[stop[o].sup] \notin connected
    BY <1>0, <1>13 DEF Pop, ReachInv, CaptureInv
  <2>1. /\ clients' = [clients EXCEPT ![stop[o].sup] = 0] /\ connected' = connected /\ home' = home
        /\ row' = row /\ resume' = resume /\ run' = run /\ stop[o].pc = "pop"
    BY <1>13 DEF Pop
  <2>2. /\ \A p \in Stops \ {o} : stop'[p] = stop[p]
        /\ stop'[o].pc = "release"
    BY <1>0, <1>13 DEF Pop, StopGoto, StopCalls
  <2>3. \A p \in Stops : CaptureInv(p)'
    BY <1>0, <2>0, <2>1, <2>2 DEF ReachInv, CaptureInv
  <2>4. OpenClientIsReachable'
    <3>1. \A c \in connected : Captured(c) => Captured(c)'
      BY <2>1, <2>2 DEF Captured
    <3>2. \A c \in connected : clients[home[c]] = c => clients'[home[c]] = c
      BY <1>0, <2>0, <2>1 DEF ReachInv, ClientInv
    <3> QED
      BY <2>1, <3>1, <3>2 DEF ReachInv, OpenClientIsReachable
  <2>5. ClientInv'
    BY <1>0, <2>0, <2>1 DEF ReachInv, ClientInv
  <2>6. \A t \in Supervisors : TaskInv(t)'
    BY <1>0, <2>0, <2>1 DEF TaskInv
  <2> QED
    BY <2>1, <2>3, <2>4, <2>5, <2>6 DEF ReachInv
<1>14. ASSUME NEW o \in Stops, ReleaseTerminal(o) PROVE ReachInv'
  <2>1. /\ clients' = clients /\ connected' = connected /\ home' = home
        /\ row' = row /\ resume' = resume /\ run' = run /\ stop[o].pc = "release"
    BY <1>14 DEF ReleaseTerminal, local
  <2>2. /\ \A p \in Stops \ {o} : stop'[p] = stop[p]
        /\ stop'[o].pc = "idle"
    BY <1>0, <1>14 DEF ReleaseTerminal, StopGoto
  <2>3. \A p \in Stops : CaptureInv(p)'
    BY <2>1, <2>2 DEF ReachInv, CaptureInv
  <2>4. OpenClientIsReachable'
    <3>1. \A c \in connected : Captured(c) => Captured(c)'
      BY <2>1, <2>2 DEF Captured
    <3> QED
      BY <2>1, <3>1 DEF ReachInv, OpenClientIsReachable
  <2> QED
    BY <2>1, <2>3, <2>4 DEF ReachInv, ClientInv, TaskInv
<1>15. CASE ApiForce \/ ExpireLease \/ UNCHANGED vars
  BY <1>t, <1>15, ReachKept DEF ApiForce, ExpireLease, vars, local, calls
<1>16. ~ResumeRead /\ ~ResumeSave /\ ~Reimport
  BY <1>0 DEF ResumeRead, ResumeSave, Reimport
<1>17. ASSUME NEW s \in Supervisors, Loop(s) \/ RunFault(s) PROVE ReachInv'
  <2>1. CASE Create(s)
    BY <1>3, <1>4, <2>1
  <2>2. CASE ~Create(s) /\ ~Drop(s)
    <3>1. ASSUME NEW c \in Clients PROVE ~Registers(s, c)
      <4>1. clients' = clients
        BY <1>17, <2>2 DEF Loop, Renew, Sleep, Acquire, CheckProxy, Handshake, Activate, Release, Save,
                           RunFault, local
      <4> QED
        BY <1>0, <4>1 DEF Registers, TaskInv, Early
    <3> QED
      BY <1>0, <1>2, <1>17, <2>2, <3>1, LoopAdvances
  <2> QED
    BY <1>5, <2>1, <2>2
<1> QED
  BY <1>1, <1>6, <1>7, <1>8, <1>9, <1>10, <1>11, <1>12, <1>13, <1>14, <1>15, <1>16, <1>17
  DEF Next, Monitoring, Stopping

\* Every open client is registered with its supervisor or in the hands of a stop call,
\* for any number of processes and overlapping stop calls, through crashes, faults and
\* late threads, as long as the account is not resumed or imported anew while a stop call
\* is still cleaning up.
THEOREM ClientsReachable ==
    ASSUME Environment \cap {"resume", "reimport"} = {}
    PROVE  Spec => []OpenClientIsReachable
<1>1. Init => ReachInv
  <2> SUFFICES ASSUME Init PROVE ReachInv
    OBVIOUS
  <2>1. /\ connected = {} /\ resume = None
        /\ \A s \in Supervisors : clients[s] = 0 /\ run[s].client = 0
        /\ \A o \in Stops : stop[o].pc = "idle"
    BY DEF Init, NoRun, NoStop
  <2> QED
    BY <2>1 DEF ReachInv, ClientInv, TaskInv, CaptureInv, OpenClientIsReachable
<1>2. IInv /\ ReachInv /\ [Next]_vars => ReachInv'
  BY ReachStep
<1>3. ReachInv => OpenClientIsReachable
  BY DEF ReachInv
<1> QED
  BY <1>1, <1>2, <1>3, Invariant, PTL DEF Spec
=============================================================================
