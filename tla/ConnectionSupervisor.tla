------------------------ MODULE ConnectionSupervisor ------------------------
(***************************************************************************)
(* One account's durable connection row and everything that works on it:   *)
(* the supervisors of several connector processes (their connection loops, *)
(* monitors and stop calls) and the control API, which pauses, archives,   *)
(* resumes and re-imports an account by writing the row alone.             *)
(*                                                                         *)
(* Every repository call is one transaction under a row lock.  Python code *)
(* between two awaits runs without interruption, and reads or writes only  *)
(* the process's own dictionaries, so a step here is one awaited call      *)
(* together with the local code up to the next one.  A database call runs  *)
(* in a thread that outlives the cancellation of its task.                 *)
(***************************************************************************)
EXTENDS Naturals

CONSTANTS
    Supervisors,   \* one ConnectionSupervisor (one owner_id) per process
    Stops,         \* supervisor.pause / archive calls that may run at a time
    Environment,   \* what may happen around them, a subset of Features
    MaxRetries,    \* max_retries of every supervisor
    MaxFence,      \* bound on the fence token: on claims and stops together
    MaxVersion,    \* bound on the versions at which a heartbeat still renews
    MaxClients,    \* bound on the Telegram clients created
    MaxSlots,      \* bound on the proxy assignments created
    MaxSessions,   \* bound on the sessions imported
    None

Features == {"crash", "fault", "late", "resume", "reimport"}

ASSUME SupervisorAssumption ==
    /\ None \notin Supervisors
    /\ Environment \subseteq Features
    /\ MaxRetries \in Nat /\ MaxRetries > 0
    /\ {MaxFence, MaxVersion, MaxClients, MaxSlots, MaxSessions} \subseteq Nat

VARIABLES
    row,           \* the telegram_connections row
    run,           \* the _run task of each supervisor, with its record snapshot
    clients,       \* _clients: the registered client, or 0
    monitorTasks,  \* _monitor_tasks: the client whose monitor is registered, or 0
    monitor,       \* the _monitor task of each client
    connected,     \* clients whose connection may be open
    home,          \* the supervisor that created each client
    stop,          \* the _terminal_transition calls
    resume,        \* the record the API's resume has read, or None
    late,          \* a cancelled task's database call that is still running
    sessions,      \* sessions stored for the account so far
    assigned,      \* the account's proxy assignment, or 0
    issued         \* proxy assignments created so far

local == <<clients, monitorTasks, monitor, connected, home>>
calls == <<stop, resume, late, sessions>>
proxy == <<assigned, issued>>
vars == <<row, run, local, calls, proxy>>

Clients == 1..MaxClients
Terminal == {"paused", "reauth_required", "blocked", "archived"}
Failure == {"auth", "block", "flood", "error"}

Rows == [state : Terminal \cup {"quarantine", "active", "limited"},
         session : Nat, version : Nat, owner : Supervisors \cup {None},
         lease : {"none", "live", "expired"}, fence : Nat,
         retries : Nat, retry : {"none", "set"}]
Runs == [pc : {"none", "dead", "renew", "sleep", "acquire", "check", "create", "connect",
               "authorize", "activate", "release", "save", "drop"},
         version : Nat, fence : Nat, session : Nat, retries : Nat,
         slot : Nat, client : Nat,
         why : Failure \cup {"none", "slept", "gone", "lost", "unavailable", "retry", "done"}]
Monitors == [pc : {"none", "watch", "fail", "drop"}, version : Nat, fence : Nat]
StopCalls == [pc : {"idle", "forced", "disconnect", "pop", "release"},
              sup : Supervisors \cup {None}, client : Nat, awaited : Nat]

\* _quarantined_record: what an import saves, whatever the row was before.
FreshRow(session) ==
    [state |-> "quarantine", session |-> session, version |-> 0, owner |-> None,
     lease |-> "none", fence |-> 0, retries |-> 0, retry |-> "none"]
NoRun == [pc |-> "none", version |-> 0, fence |-> 0, session |-> 0, retries |-> 0,
          slot |-> 0, client |-> 0, why |-> "none"]
NoMonitor == [pc |-> "none", version |-> 0, fence |-> 0]
NoStop == [pc |-> "idle", sup |-> None, client |-> 0, awaited |-> 0]

Init ==
    /\ row = FreshRow(1)
    /\ run = [s \in Supervisors |-> NoRun]
    /\ clients = [s \in Supervisors |-> 0]
    /\ monitorTasks = [s \in Supervisors |-> 0]
    /\ monitor = [c \in Clients |-> NoMonitor]
    /\ connected = {}
    /\ home = [c \in Clients |-> None]
    /\ stop = [o \in Stops |-> NoStop]
    /\ resume = None
    /\ late = [s \in Supervisors |-> NoRun]
    /\ sessions = 1
    /\ assigned = 0
    /\ issued = 0

----------------------------------------------------------------------------
(* The repository.  t is the caller's record (version, fence, ...), s its  *)
(* supervisor.                                                             *)

\* Mutants of the repository.
MatchesOwner(t, s) == row.owner = s /\ row.state # "archived"
ClaimsTerminal == row.lease # "live"
ForceKeepsLease(state) ==
    IF row.state = "archived" THEN row
    ELSE [row EXCEPT !.state = state, !.version = @ + 1, !.owner = None, !.fence = @ + 1,
                     !.retry = "none"]
ExhaustedLate(t, exhausted) ==
    /\ t.why \in {"auth", "block", "unavailable"} \/ t.retries + 1 > MaxRetries => exhausted
    /\ t.why = "error" /\ t.retries + 1 <= MaxRetries => ~exhausted

ClaimMatches(t, s) ==
    /\ row.version = t.version
    /\ row.owner = s
    /\ row.fence = t.fence
    /\ row.state # "archived"

\* _owns_claim, and the require_live form of _claim_matches.
OwnsClaim(t, s) == ClaimMatches(t, s) /\ row.lease = "live"

Claimable == row.state \notin Terminal /\ row.lease # "live"

ClaimRow(s) == [row EXCEPT !.version = @ + 1, !.owner = s, !.lease = "live", !.fence = @ + 1]

Renewable(t, s) == OwnsClaim(t, s) /\ row.state \notin Terminal

RenewRow(t, s) ==
    IF Renewable(t, s) THEN [row EXCEPT !.version = @ + 1, !.lease = "live"] ELSE row

\* save_claimed writes the caller's whole record; terminal outcomes release the lease.
SaveClaimed(t, s, state, retries, retry, release) ==
    IF OwnsClaim(t, s)
    THEN [row EXCEPT !.state = state, !.session = t.session, !.version = @ + 1,
                     !.retries = retries, !.retry = retry,
                     !.owner = IF release THEN None ELSE s,
                     !.lease = IF release THEN "none" ELSE @]
    ELSE row

ActiveRow(t, s) == SaveClaimed(t, s, "active", 0, "none", FALSE)

\* The except clauses of _run, and the unavailable proxy.
FailureRow(t, s, exhausted) ==
    CASE t.why = "auth" -> SaveClaimed(t, s, "reauth_required", t.retries, "none", TRUE)
      [] t.why \in {"block", "unavailable"} -> SaveClaimed(t, s, "blocked", t.retries, "none", TRUE)
      [] OTHER ->
            SaveClaimed(t, s, IF exhausted THEN "blocked"
                              ELSE IF t.why = "flood" THEN "limited" ELSE "quarantine",
                        t.retries + 1, IF exhausted THEN "none" ELSE "set", exhausted)

\* The retry budget is used up, or Telegram asks for a wait beyond the limit.
Exhausted(t, exhausted) ==
    /\ t.why \in {"auth", "block", "unavailable"} \/ t.retries + 1 >= MaxRetries => exhausted
    /\ t.why = "error" /\ t.retries + 1 < MaxRetries => ~exhausted

\* force_terminal: archived is absorbing, everything else loses its claim.
ForceTerminalRow(state) ==
    IF row.state = "archived" THEN row
    ELSE [row EXCEPT !.state = state, !.version = @ + 1, !.owner = None, !.lease = "none",
                     !.fence = @ + 1, !.retry = "none"]

FailClosedRow(t, s) ==
    IF ClaimMatches(t, s)
    THEN [row EXCEPT !.state = "quarantine", !.version = @ + 1, !.owner = None,
                     !.lease = "none", !.retry = "none"]
    ELSE row

\* The proxy repository: reserve the default proxy, or find it already reserved.
Reserve == /\ assigned = 0
           /\ issued < MaxSlots
           /\ issued' = issued + 1
           /\ assigned' = issued'

ReleaseFailed(t) == IF t.slot # 0 /\ assigned = t.slot THEN 0 ELSE assigned

----------------------------------------------------------------------------
(* The connection loop: start and _run.                                    *)

Locked(s) == \E o \in Stops : stop[o].pc = "forced" /\ stop[o].sup = s

RunGoto(s, t) == run' = [run EXCEPT ![s] = t]
RunEnds(s) == RunGoto(s, NoRun)

\* start: a running task is joined and a registered client answers with its
\* health, neither changing anything.  A claim whose caller is cancelled or whose
\* answer is lost stays in the row until its lease runs out.
Start(s) ==
    /\ run[s].pc = "none" /\ clients[s] = 0 /\ ~Locked(s)
    /\ Claimable /\ row.fence < MaxFence
    /\ row' = ClaimRow(s)
    /\ \/ RunGoto(s, [NoRun EXCEPT !.pc = "renew", !.version = row'.version, !.fence = row'.fence,
                                   !.session = row.session, !.retries = row.retries])
       \/ "fault" \in Environment /\ UNCHANGED run
    /\ UNCHANGED <<local, calls, proxy>>

Renew(s) ==
    /\ run[s].pc = "renew"
    /\ row' = RenewRow(run[s], s)
    /\ IF Renewable(run[s], s)
       THEN \E l \in {"acquire", "sleep"} :
               /\ l = "sleep" => row.retry = "set" /\ run[s].why # "slept"
               /\ RunGoto(s, [run[s] EXCEPT !.pc = l, !.why = "none", !.version = row'.version,
                                            !.session = row.session, !.retries = row.retries])
       ELSE RunEnds(s)
    /\ UNCHANGED <<local, calls, proxy>>

\* The persisted deadline, a flood wait or a backoff has passed: it is in the past
\* when the loop looks at it again.
Sleep(s) ==
    /\ run[s].pc = "sleep"
    /\ IF OwnsClaim(run[s], s)
       THEN RunGoto(s, [run[s] EXCEPT !.pc = "renew", !.why = "slept"])
       ELSE RunEnds(s)
    /\ UNCHANGED <<row, local, calls, proxy>>

\* acquire's reservation: none to be had, the existing one, or a new one.
Acquire(s) ==
    /\ run[s].pc = "acquire"
    /\ \/ /\ RunGoto(s, [run[s] EXCEPT !.pc = "check", !.slot = 0, !.why = "unavailable"])
          /\ UNCHANGED proxy
       \/ /\ assigned # 0
          /\ RunGoto(s, [run[s] EXCEPT !.pc = "check", !.slot = 0])
          /\ UNCHANGED proxy
       \/ /\ Reserve
          /\ RunGoto(s, [run[s] EXCEPT !.pc = "check", !.slot = assigned'])
    /\ UNCHANGED <<row, local, calls>>

Fails(s, why) == RunGoto(s, [run[s] EXCEPT !.pc = "release", !.why = why])

\* The proxy's health check, and whether the claim survived it.
CheckProxy(s) ==
    /\ run[s].pc = "check"
    /\ IF ~OwnsClaim(run[s], s) THEN Fails(s, "gone")
       ELSE \/ Fails(s, "unavailable")
            \/ run[s].why = "none" /\ RunGoto(s, [run[s] EXCEPT !.pc = "create"])
    /\ UNCHANGED <<row, local, calls, proxy>>

\* A client is registered before it connects.
Create(s) ==
    /\ run[s].pc = "create"
    /\ \/ /\ \E why \in Failure : Fails(s, why)
          /\ UNCHANGED <<clients, connected, home>>
       \/ /\ ~OwnsClaim(run[s], s)
          /\ Fails(s, "lost")
          /\ UNCHANGED <<clients, connected, home>>
       \/ /\ OwnsClaim(run[s], s)
          /\ \E c \in Clients :
                /\ home[c] = None /\ \A d \in 1..(c - 1) : home[d] # None
                /\ home' = [home EXCEPT ![c] = s]
                /\ clients' = [clients EXCEPT ![s] = c]
                /\ connected' = connected \cup {c}
                /\ RunGoto(s, [run[s] EXCEPT !.pc = "connect", !.client = c])
    /\ UNCHANGED <<row, monitorTasks, monitor, calls, proxy>>

\* connect, then is_authorized, each followed by a look at the claim.
Handshake(s) ==
    /\ run[s].pc \in {"connect", "authorize"}
    /\ \/ \E why \in Failure : Fails(s, why)
       \/ ~OwnsClaim(run[s], s) /\ Fails(s, "lost")
       \/ /\ OwnsClaim(run[s], s)
          /\ RunGoto(s, [run[s] EXCEPT !.pc = IF @ = "connect" THEN "authorize" ELSE "activate"])
    /\ UNCHANGED <<row, local, calls, proxy>>

\* Active is saved under the claim and a monitor takes the client over; a claim
\* lost at this point drops the client (and keeps the proxy assignment).
Activate(s) ==
    /\ run[s].pc = "activate"
    /\ row' = ActiveRow(run[s], s)
    /\ IF OwnsClaim(run[s], s)
       THEN /\ RunEnds(s)
            /\ monitor' = [monitor EXCEPT ![run[s].client] =
                              [pc |-> "watch", version |-> row'.version, fence |-> row'.fence]]
            /\ monitorTasks' = [monitorTasks EXCEPT ![s] = run[s].client]
       ELSE /\ RunGoto(s, [run[s] EXCEPT !.pc = "drop", !.why = "done"])
            /\ UNCHANGED <<monitorTasks, monitor>>
    /\ UNCHANGED <<clients, connected, home, calls, proxy>>

Release(s) ==
    /\ run[s].pc = "release"
    /\ assigned' = ReleaseFailed(run[s])
    /\ RunGoto(s, [run[s] EXCEPT !.pc = IF run[s].why \in {"gone", "lost"} THEN "drop" ELSE "save"])
    /\ UNCHANGED <<row, local, calls, issued>>

Save(s) ==
    /\ run[s].pc = "save"
    /\ \E exhausted \in BOOLEAN :
          /\ Exhausted(run[s], exhausted)
          /\ row' = FailureRow(run[s], s, exhausted)
          /\ RunGoto(s, [run[s] EXCEPT
                !.pc = "drop",
                !.version = IF OwnsClaim(run[s], s) THEN row'.version ELSE @,
                !.retries = IF OwnsClaim(run[s], s) THEN row'.retries ELSE @,
                !.why = IF OwnsClaim(run[s], s) /\ ~exhausted THEN "retry" ELSE "done"])
    /\ UNCHANGED <<local, calls, proxy>>

DropWithoutDisconnect(s) ==
    /\ run[s].pc = "drop"
    /\ clients' = [clients EXCEPT ![s] = IF @ = run[s].client THEN 0 ELSE @]
    /\ RunEnds(s)
    /\ UNCHANGED <<row, monitorTasks, monitor, connected, home, calls, proxy>>

\* _drop_client deregisters its own client only; the finally clause closes a client
\* that is no longer the registered one.
Drop(s) ==
    /\ run[s].pc = "drop"
    /\ clients' = [clients EXCEPT ![s] = IF @ = run[s].client THEN 0 ELSE @]
    /\ connected' = connected \ {run[s].client}
    /\ IF run[s].why = "retry"
       THEN RunGoto(s, [run[s] EXCEPT !.pc = "sleep", !.slot = 0, !.client = 0, !.why = "none"])
       ELSE RunEnds(s)
    /\ UNCHANGED <<row, monitorTasks, monitor, home, calls, proxy>>

\* What an exception that leaves the inner try closes on its way out.
Abandoned(s) == IF clients[s] = run[s].client THEN connected ELSE connected \ {run[s].client}

\* A repository call raises, committed or not.  Outside the inner try the task
\* ends; inside it the generic handler runs; in a handler the task ends with its
\* client still registered.
RunFault(s) ==
    /\ "fault" \in Environment
    /\ \/ /\ run[s].pc = "renew" /\ row' \in {row, RenewRow(run[s], s)}
          /\ RunEnds(s) /\ UNCHANGED <<connected, proxy>>
       \/ /\ run[s].pc \in {"sleep", "check"}
          /\ RunEnds(s) /\ UNCHANGED <<row, connected, proxy>>
       \/ /\ run[s].pc = "acquire" /\ (Reserve \/ UNCHANGED proxy)
          /\ RunEnds(s) /\ UNCHANGED <<row, connected>>
       \/ /\ run[s].pc \in {"create", "connect", "authorize"}
          /\ Fails(s, "error") /\ UNCHANGED <<row, connected, proxy>>
       \/ /\ run[s].pc = "activate" /\ row' \in {row, ActiveRow(run[s], s)}
          /\ Fails(s, "error") /\ UNCHANGED <<connected, proxy>>
       \/ /\ run[s].pc = "release" /\ run[s].why = "lost"
          /\ assigned' \in {assigned, ReleaseFailed(run[s])}
          /\ Fails(s, "error") /\ UNCHANGED <<row, connected, issued>>
       \/ /\ run[s].pc = "release" /\ run[s].why # "lost"
          /\ assigned' \in {assigned, ReleaseFailed(run[s])}
          /\ connected' = Abandoned(s)
          /\ RunEnds(s) /\ UNCHANGED <<row, issued>>
       \/ /\ run[s].pc = "save"
          /\ \E exhausted \in BOOLEAN :
                Exhausted(run[s], exhausted) /\ row' \in {row, FailureRow(run[s], s, exhausted)}
          /\ connected' = Abandoned(s)
          /\ RunEnds(s) /\ UNCHANGED proxy
    /\ UNCHANGED <<clients, monitorTasks, monitor, home, calls>>

----------------------------------------------------------------------------
(* The monitor of an active client.                                        *)

MonitorGoto(c, m) == monitor' = [monitor EXCEPT ![c] = m]

HeartbeatBound(c) == Renewable(monitor[c], home[c]) => row.version < MaxVersion

HeartbeatIgnoresLoss(c) ==
    /\ monitor[c].pc = "watch" /\ HeartbeatBound(c)
    /\ row' = RenewRow(monitor[c], home[c])
    /\ MonitorGoto(c, [monitor[c] EXCEPT !.version = row'.version])
    /\ UNCHANGED <<run, clients, monitorTasks, connected, home, calls, proxy>>

\* A heartbeat: renew, or drop the client whose claim is gone.
Heartbeat(c) ==
    /\ monitor[c].pc = "watch" /\ HeartbeatBound(c)
    /\ row' = RenewRow(monitor[c], home[c])
    /\ MonitorGoto(c, IF Renewable(monitor[c], home[c])
                      THEN [monitor[c] EXCEPT !.version = row'.version]
                      ELSE [monitor[c] EXCEPT !.pc = "drop"])
    /\ UNCHANGED <<run, clients, monitorTasks, connected, home, calls, proxy>>

HeartbeatFault(c) ==
    /\ "fault" \in Environment
    /\ monitor[c].pc = "watch" /\ HeartbeatBound(c)
    /\ row' \in {row, RenewRow(monitor[c], home[c])}
    /\ MonitorGoto(c, [monitor[c] EXCEPT !.pc = "fail"])
    /\ UNCHANGED <<run, clients, monitorTasks, connected, home, calls, proxy>>

\* fail_closed may itself fail; the client is dropped either way.
FailClosed(c) ==
    /\ monitor[c].pc = "fail"
    /\ row' \in {row, FailClosedRow(monitor[c], home[c])}
    /\ MonitorGoto(c, [monitor[c] EXCEPT !.pc = "drop"])
    /\ UNCHANGED <<run, clients, monitorTasks, connected, home, calls, proxy>>

\* The monitor's _drop_client does nothing for a client that is not registered.
MonitorDrop(c) ==
    /\ monitor[c].pc = "drop"
    /\ MonitorGoto(c, NoMonitor)
    /\ monitorTasks' = [monitorTasks EXCEPT ![home[c]] = IF @ = c THEN 0 ELSE @]
    /\ clients' = [clients EXCEPT ![home[c]] = IF @ = c THEN 0 ELSE @]
    /\ connected' = IF clients[home[c]] = c THEN connected \ {c} ELSE connected
    /\ UNCHANGED <<row, run, home, calls, proxy>>

----------------------------------------------------------------------------
(* pause, stop and archive: _terminal_transition and _terminal_cleanup.    *)

StopGoto(o, t) == stop' = [stop EXCEPT ![o] = t]

\* The row goes first, under the account's lock.
ForceTerminal(o) ==
    /\ stop[o].pc = "idle" /\ row.fence < MaxFence
    /\ \E s \in Supervisors :
          /\ run[s].pc # "dead" /\ ~Locked(s)
          /\ StopGoto(o, [NoStop EXCEPT !.pc = "forced", !.sup = s])
    /\ \E state \in {"paused", "archived"} : row' = ForceTerminalRow(state)
    /\ UNCHANGED <<run, local, resume, late, sessions, proxy>>

\* The loop is cancelled, whatever it awaits; a database call that it awaited goes
\* on in its thread.  The client registered now is the one to be closed.  The
\* cleanup task starts on the next turn of the event loop: it cancels the
\* registered monitor and awaits it (one that is failing still drops its client).
Capture(o) ==
    LET s == stop[o].sup
        m == monitorTasks[s]
    IN
    /\ stop[o].pc = "forced"
    /\ RunEnds(s)
    /\ connected' = Abandoned(s)
    /\ \/ UNCHANGED late
       \/ /\ "late" \in Environment
          /\ run[s].pc \in {"renew", "acquire", "activate", "release", "save"}
          /\ late' = [late EXCEPT ![s] = run[s]]
    /\ monitorTasks' = [monitorTasks EXCEPT ![s] = 0]
    /\ monitor' = [c \in Clients |->
                      IF c # m THEN monitor[c]
                      ELSE IF monitor[c].pc = "watch" THEN NoMonitor
                      ELSE [monitor[c] EXCEPT !.pc = IF @ = "fail" THEN "drop" ELSE @]]
    /\ StopGoto(o, [stop[o] EXCEPT !.client = clients[s], !.awaited = m,
                                   !.pc = IF clients[s] = 0 THEN "release" ELSE "disconnect"])
    /\ UNCHANGED <<row, clients, home, resume, sessions, proxy>>

MonitorDone(o) == \A c \in Clients : c = stop[o].awaited => monitor[c].pc = "none"

Disconnect(o) ==
    /\ stop[o].pc = "disconnect" /\ MonitorDone(o)
    /\ connected' = connected \ {stop[o].client}
    /\ StopGoto(o, [stop[o] EXCEPT !.pc = "pop"])
    /\ UNCHANGED <<row, run, clients, monitorTasks, monitor, home, resume, late, sessions, proxy>>

\* Whatever is registered by now is deregistered.
Pop(o) ==
    /\ stop[o].pc = "pop"
    /\ clients' = [clients EXCEPT ![stop[o].sup] = 0]
    /\ StopGoto(o, [stop[o] EXCEPT !.pc = "release"])
    /\ UNCHANGED <<row, run, monitorTasks, monitor, connected, home, resume, late, sessions, proxy>>

\* release_terminal_assignment, or its failure.
ReleaseTerminal(o) ==
    /\ stop[o].pc = "release" /\ MonitorDone(o)
    /\ \/ assigned' = 0
       \/ "fault" \in Environment /\ UNCHANGED assigned
    /\ StopGoto(o, NoStop)
    /\ UNCHANGED <<row, run, local, resume, late, sessions, issued>>

----------------------------------------------------------------------------
(* The control API and the environment.                                    *)

\* TelegramConnectionLifecycleService.pause / archive: only the row.  A supervisor
\* call that is cut off right after its transaction does the same.
ApiForce ==
    /\ row.fence < MaxFence
    /\ \E state \in {"paused", "archived"} : row' = ForceTerminalRow(state)
    /\ UNCHANGED <<run, local, calls, proxy>>

ResumeRead ==
    /\ "resume" \in Environment
    /\ resume = None /\ row.state = "paused"
    /\ resume' = row
    /\ UNCHANGED <<row, run, local, stop, late, sessions, proxy>>

\* save overwrites the whole row with the copy that was read, or fails on a leased
\* row or a leased copy.
ResumeSave ==
    /\ resume # None
    /\ row' = IF row.owner = None /\ resume.owner = None
              THEN [resume EXCEPT !.state = "quarantine"] ELSE row
    /\ resume' = None
    /\ UNCHANGED <<run, local, stop, late, sessions, proxy>>

\* ConnectionFinalizer / TdataHandoff save a new session for a known account.
Reimport ==
    /\ "reimport" \in Environment
    /\ sessions < MaxSessions
    /\ sessions' = sessions + 1
    /\ row.owner = None
    /\ row' = FreshRow(sessions')
    /\ UNCHANGED <<run, local, stop, resume, late, proxy>>

\* The thread of a cancelled task reaches the database.
LateWrite(s) ==
    LET t == late[s] IN
    /\ t.pc # "none"
    /\ \/ t.pc = "renew" /\ row' = RenewRow(t, s) /\ UNCHANGED proxy
       \/ t.pc = "activate" /\ row' = ActiveRow(t, s) /\ UNCHANGED proxy
       \/ t.pc = "save" /\ UNCHANGED proxy
             /\ \E exhausted \in BOOLEAN :
                   Exhausted(t, exhausted) /\ row' = FailureRow(t, s, exhausted)
       \/ t.pc = "acquire" /\ (Reserve \/ (assigned # 0 /\ UNCHANGED proxy)) /\ UNCHANGED row
       \/ t.pc = "release" /\ assigned' = ReleaseFailed(t) /\ UNCHANGED <<row, issued>>
    /\ late' = [late EXCEPT ![s] = NoRun]
    /\ UNCHANGED <<run, local, stop, resume, sessions>>

ExpireLease ==
    /\ row.lease = "live"
    /\ row' = [row EXCEPT !.lease = "expired"]
    /\ UNCHANGED <<run, local, calls, proxy>>

\* A connector process dies with its tasks and connections.
Crash(s) ==
    /\ "crash" \in Environment
    /\ run[s].pc # "dead"
    /\ run' = [run EXCEPT ![s] = [NoRun EXCEPT !.pc = "dead"]]
    /\ clients' = [clients EXCEPT ![s] = 0]
    /\ monitorTasks' = [monitorTasks EXCEPT ![s] = 0]
    /\ monitor' = [c \in Clients |-> IF home[c] = s THEN NoMonitor ELSE monitor[c]]
    /\ connected' = {c \in connected : home[c] # s}
    /\ stop' = [o \in Stops |-> IF stop[o].sup = s THEN NoStop ELSE stop[o]]
    /\ late' = [late EXCEPT ![s] = NoRun]
    /\ UNCHANGED <<row, home, resume, sessions, proxy>>

Loop(s) ==
    \/ Renew(s) \/ Sleep(s) \/ Acquire(s) \/ CheckProxy(s) \/ Create(s) \/ Handshake(s)
    \/ Activate(s) \/ Release(s) \/ Save(s) \/ Drop(s)
Monitoring(c) == Heartbeat(c) \/ FailClosed(c) \/ MonitorDrop(c)
Stopping(o) ==
    Capture(o) \/ Disconnect(o) \/ Pop(o) \/ ReleaseTerminal(o)

Next ==
    \/ \E s \in Supervisors : Start(s) \/ Loop(s) \/ RunFault(s) \/ LateWrite(s) \/ Crash(s)
    \/ \E c \in Clients : Monitoring(c) \/ HeartbeatFault(c)
    \/ \E o \in Stops : ForceTerminal(o) \/ Stopping(o)
    \/ ApiForce \/ ResumeRead \/ ResumeSave \/ Reimport \/ ExpireLease

Spec == Init /\ [][Next]_vars

\* The event loop runs every ready task, and a sleeping or waiting one gets its
\* answer in the end; starts, stops, failures and API calls are never forced.
FairSpec ==
    /\ Spec
    /\ \A s \in Supervisors : WF_vars(Loop(s))
    /\ \A c \in Clients : WF_vars(Monitoring(c))
    /\ \A o \in Stops : WF_vars(Stopping(o))

----------------------------------------------------------------------------
(* Properties.                                                             *)

\* Types of the row and of the process's dictionaries; a row has an owner exactly when
\* it has a lease, which _try_claim and _force_terminal must set and clear together.
TypeOK ==
    /\ row \in Rows
    /\ row.owner = None <=> row.lease = "none"
    /\ run \in [Supervisors -> Runs]
    /\ clients \in [Supervisors -> Clients \cup {0}]
    /\ monitorTasks \in [Supervisors -> Clients \cup {0}]
    /\ monitor \in [Clients -> Monitors]
    /\ connected \subseteq Clients
    /\ home \in [Clients -> Supervisors \cup {None}]
    /\ stop \in [Stops -> StopCalls]
    /\ resume \in Rows \cup {None} /\ sessions \in Nat
    /\ late \in [Supervisors -> Runs]
    /\ assigned \in Nat /\ issued \in Nat

\* A terminal row has no owner, no lease and no retry deadline, so no loop, monitor
\* or late thread holds a claim on it.
TerminalIsUnclaimed ==
    row.state \in Terminal => row.owner = None /\ row.lease = "none" /\ row.retry = "none"

\* Only an operator takes an account out of a terminal state: the loops, monitors
\* and late threads of every supervisor leave it alone.
TerminalLeftByOperator ==
    [][row.state \in Terminal /\ row' # row =>
          /\ row'.owner = None
          /\ \/ row'.state \in {"paused", "archived"}
             \/ resume' # resume
             \/ row'.session # row.session]_vars

\* A write of a cancelled task that reaches the database late changes nothing, as
\* long as no import has started version and fence token over.
LateClaimWrite(s) == late[s].pc \in {"renew", "activate", "save"} /\ late'[s].pc = "none"
LateWriteIsFenced ==
    [][\A s \in Supervisors : LateClaimWrite(s) /\ sessions = 1 => row' = row]_vars

\* The retry budget is durable: without an operator's resume, an account that has
\* used it up is terminal, whichever processes made, lost or crashed in the attempts.
RetryBudgetIsDurable == row.retries >= MaxRetries => row.state \in Terminal

\* Every open client is the one its supervisor would close: registered, or in the
\* hands of a stop call.
Captured(c) == \E o \in Stops : stop[o].client = c /\ stop[o].pc = "disconnect"
OpenClientIsReachable == \A c \in connected : clients[home[c]] = c \/ Captured(c)

\* A client whose supervisor has lost the account (paused or archived here or by
\* the API, or claimed by another process after a stall) is closed.
LostClaimClosesClient ==
    \A c \in Clients : (c \in connected /\ row.owner # home[c]) ~> c \notin connected

\* supervisor.archive's docstring: archiving prevents all future starts for this
\* session record.
ArchivedIsFinal ==
    [][row.state = "archived" => row'.state = "archived" \/ row'.session # row.session]_vars
=============================================================================
