# AIsales: a TLA+ model of the Telegram connector and its control API

The repository runs a Telegram connector (`services/telegram_connector`) behind a
FastAPI control API (`apps/api/app`), with a web client and a few tools. PostgreSQL is
authoritative: sessions, connection rows, proxy assignments and delivery rows survive the
processes, which may crash, stall or run beside each other. The hard part of the program is
that protocol of rows, leases, fence tokens and row locks, and it is what is modelled here.

## Inventory

| Component | State | Operations | What makes it correct |
|---|---|---|---|
| Message delivery gateway (`gateway.py`, `persistence.py`) | one `message_deliveries` row per (account, idempotency key): state, peer, owner, lease, fence token, result; the body vault | `send`: reserve, wait, look up, allow a resend, send with renewal, complete, mark uncertain | one message per key, whatever crashes or arrives late; one final answer, a real one; waiters are released |
| Connection supervisor (`runtime/supervisor.py`) | per process: tasks, clients, monitors, locks; per account: the `telegram_connections` row | `start`, the connection loop `_run`, `_monitor`, `pause`, `archive` | one claim at a time; terminal states stick; no client is left open; the retry budget is finite |
| Connection repository (`postgres_state.py`) | the row: health state, session, version, owner, lease, fence, retries | `try_claim`, `save_claimed`, `force_terminal`, `renew_lease`, `fail_closed`, `save` | a stale snapshot writes nothing |
| Proxy pool (`postgres_state.py`, `proxies.py`, `modules/proxies`) | proxies (tenant, capacity, default), overrides with a revision, one assignment per account | `put_proxy`, `set_account_override`, `reserve`, `release_failed`, `release_terminal` | no overbooking, no foreign proxy, one default per tenant |
| Account lifecycle API (`telegram_connections/service.py`, `routes.py`) | none; the connection row and the challenge stores | `pause`, `archive`, `resume`; start, submit and poll an attempt; issue a ticket | an operator's decision is not lost |
| Authorization challenges (`adapters/phone.py`, `adapters/qr.py`) | in-memory challenges with owner, deadline and state, at most a capacity of them; one waiting task per QR challenge | start, submit code, submit password, wait for the scan, poll, consume the session | one request at a time uses a client; a late answer counts for nothing; a session leaves once |
| Account import (`finalizer.py`, `tdata_handoff.py`, `tdata_ticket.py`, `session_store.py`) | one-time tickets in memory; account, ciphertext and connection rows | issue/consume a ticket, provision, put, save the quarantined row | one session per ticket; it lands with the organization and identity it was authorized for |
| Tdata import tool (`tools/import_tdata.py`, `importers/tdata`) | a private copy of a folder that is in use | snapshot, copy, re-check, parse, verify, hand off | what is imported is the folder as it was when first read, but for files that changed back |
| Quarantine (`quarantine.py`, `adapters/tdata.py`) | an uploaded file, captured by inode and digest | capture, validate, verify, convert, store, unlink | only what was captured is stored; the upload goes |
| Authentication and staff (`modules/auth`, `modules/organizations`) | organizations, users with password, TOTP secret and recovery codes, invitations, enrolments, sessions | provision, invite, set up, confirm, login, revoke, deactivate, rename | sessions are earned; deactivated stays out; credentials are set once; a code works once |
| AI policy gate (`modules/policy`, migration 0001) | approvals, revocations, audit events; issued contexts | grant, revoke, issue a context, evaluate, load | nothing is loaded without a live approval of the account's owner; the audit is complete |
| Outbox and audit (`shared/outbox.py`) | two append-only tables | append in one unit of work | nobody opens one yet |
| Composition, hashing, TOTP, web client, developer tools | - | - | no protocol state of their own |

Components meet in six ways. The supervisor calls the repositories through
`asyncio.to_thread`, so the transaction of a cancelled task runs on. The control API writes
the same connection row without knowing the supervisor's dictionaries; the supervisor
learns of it when its next claim check fails. The supervisor reserves a proxy before it
connects, and gives it back when the start fails. The gateway uses a client of its own
adapter and shares nothing with other processes but the delivery row. An authorized
challenge and a consumed ticket end in the same three transactions (account, ciphertext,
connection row), the last of which meets the supervisor's lease. The organization of an
account row, which the import writes, is what the policy gate issues its contexts from.

Hard behaviours, each listed at its line under `hazards` in `PROJECT.json`: leases that
expire while their holder still works; crashes between a remote effect and its record; late
writes of cancelled threads; whole-row writes of an earlier read; cleanups that run outside
the lock they belong to; check-then-act across rows; retries spread over processes; claims
that span a Telegram call; clocks that were read before the rows they are compared with;
files that change while they are read.

## Modules

| Module | Models | Lines of code it stands for |
|---|---|---|
| `MessageDelivery` | one delivery row, its callers in several processes, Telegram | `gateway.py` 387-525, `persistence.py` 83-202 |
| `IdempotentDelivery` | abstract: what the gateway promises for one key | - |
| `ConnectionSupervisor` | one connection row, the supervisors of several processes, the API | `supervisor.py`, `postgres_state.py` 311-547, parts of `service.py`, `finalizer.py` |
| `ProxyAssignment` | proxies, overrides, assignments, and interleaved row-locking transactions | `postgres_state.py` 677-986 |
| `StaffAccess` | users and sessions of several organizations, and the requests of several API processes | `auth/service.py`, `auth/persistence.py`, `session_auth.py`, `organizations/provisioning.py` |
| `PolicyGate` | approvals, revocations and audit; the protected loads | `policy/service.py`, `policy/repository.py`, migration `0001_policy_gate.py` |
| `Onboarding` | challenges, tickets and the finalizer up to the stored session | `phone.py`, `qr.py`, `tdata_ticket.py`, `tdata_handoff.py`, `postgres_state.py` 190-369 |
| `TdataImport` | the import tool against a folder that Telegram Desktop writes | `preflight.py`, `parser.py`, `tools/import_tdata.py` |
| `Quarantine` | processors of an upload, and the archive rules | `quarantine.py`, `adapters/tdata.py` |
| `MC*` | small instances of these for TLC | - |
| `*_proofs` | theorems for every value of the constants | - |

Operators that start a `Mutants of ...` comment are plausible wrong versions of the
definition below them; no specification uses them. `PROJECT.json` names, for each property,
one of them that the property catches.

### MessageDelivery

`pc[c]` is where a `TelegramGateway._send` call stands between two awaits; `row` is the
row; each repository method is one operator on the row (`ReserveRow`, `CompleteRow`,
`MarkUncertainRow`, `AllowResendRow`) because the code runs it in one transaction.
`wire` and `remote` are the network: `Land` may happen any time after `BeginSend`, so a
send takes effect before or after its caller gave up, was cancelled or died. With the
`synthetic` adapter the remote side deduplicates by key; with `telethon` it does not, and
the gateway must then never resend. A lease is `live` or `expired` and may expire at any
moment, which covers slow threads, stalls and skewed clocks; how often a sender renews is
therefore not counted. Rows of different keys never touch, so one key is enough. A database
error may strike before or after the commit. Left out: the in-memory repository used by
tests, counters, redaction.

### ConnectionSupervisor

A step is one awaited call together with the local code up to the next await: Python code
between awaits is not interrupted. `run[s]` is the `_run` task with the record it holds,
`monitor[c]` the monitor of client `c`, `stop[o]` a `pause`/`archive` call, and `late[s]`
the database call of a cancelled task that still runs in its thread. `ClaimMatches`,
`ClaimRow`, `RenewRow`, `ActiveRow`, `FailureRow`, `ForceTerminalRow`, `FailClosedRow` are the
repository's transactions. `ApiForce`, `ResumeRead`/`ResumeSave` and `Reimport` are the
control API, which acts on the row alone. `Environment` switches crashes, database faults,
late threads, resumes and imports on, so that a run pays only for what it asks about.
Simplifications: one lease flag for the process's and the database's clock; the account has
no proxy override (`ProxyAssignment` has them); at most one late call per process; a cancelled
monitor's renewal is not followed after the cancellation. The supervisor is wired up in the
repository's tests only; it is modelled from its own code.

### ProxyAssignment

Transactions run at READ COMMITTED. One that needs the account's row only is one step. A
reservation and a `put_proxy` lock several proxy rows in turn: what is locked is in
`tx[w].held`, writes appear at commit. Locking a row and the read that follows form one step,
since taking a free lock commutes with the steps of the others. `SELECT ... LIMIT 1 FOR
UPDATE` is modelled as PostgreSQL does it: the first row of the snapshot is waited for and
checked again; if it no longer qualifies it stays locked and the next row *of the snapshot*
is tried, so a default made meanwhile is not seen. `Abort` is a lost connection or a
deadlock victim (two `put_proxy` calls of one tenant can wait for each other). The partial
unique index on defaults ignores NULL, so shared proxies may have two defaults; `OneDefault`
is about tenants.

### StaffAccess

A request is the list of its repository calls, each one transaction, with what it has read
kept in `request[w]`; requests of two API processes interleave between them. `SaveUser`
writes the whole row, as `save_user` does; the `UPDATE ... WHERE consumed_at IS NULL` of
invitations and enrolments is part of the consuming step. Expiry is judged by the clock a
request reads first, so an invitation may expire between that and its transaction, and is
still consumed. A secret is named after the request that made it and a code after its
confirmation. Verification succeeds or the request is refused, which changes nothing.
`late`, `given` and `spent` are history. A session row changes only by revocation, so its
read and its write are one step.

### PolicyGate

`CURRENT_TIMESTAMP` is the start of a PostgreSQL transaction; `BeginGrant`, `BeginRevoke` and
`Evaluate` take it, and `Grant`, `Revoke` and `Decide` do the work later, on the rows that are
committed by then. `Relabel` is a context whose fields were changed, or a copy of it, after it
was issued. `Restart` starts a process under another terms revision. The append-only triggers
are the absence of any action that changes a row. The synthetic contexts that fixtures use
never reach the repository and are left out.

### Onboarding

The stores live in one asyncio process: a critical section, with those that follow before the
next await, is one step; between `SubmitCode` and `SignedIn` lies the call of Telegram, in
which the challenge may expire or be evicted. `SignedIn` and `CodeRequested` join the answer
with what the code does before it awaits again. The finalizer's `Provision`, `Put` and `Save`
are one transaction each and may fail. `Restart` loses what is in memory and keeps the rows.
Left out: the memory of expired ids, which only words the answer, and the id of an attempt
before its start has returned (`Announced`).

### TdataImport

A file is a path below the folder. `sorted(root.rglob("*"))` scans nested directories one after
another before any file is read, so a pass comes by the paths one at a time, in any order
(`ListEntry`), and reads what it listed afterwards in sorted order; anything may change between
two of these steps. One step per path is finer than one per directory. A directory that cannot
be scanned is passed over by `rglob`: its files are then not listed although they are there.
Contents may repeat: Telegram Desktop may put back what was there before (`Become`). A digest
stands for the names and contents it was taken of, which abstracts SHA-256. `had`, `captured`
and `unsteady` are history. Whatever is refused or fails is `Abort`, which ends the run and
removes the copy.

### Quarantine

A captured upload is an inode and a payload: a bare `TDATA` envelope, which skips the archive
rules (`adapters/tdata.py:250-255`), or an archive. Of the bytes of a file only their length
and whether they begin with signature and schema version matter. `Change` is anybody else with
access to the path. The archive rules (`Scan`, a recursive function over the members, one
`Inspect` for each pass of the code's loop) and the envelope check (`ValidEnvelope`) are checked
against `Importable` and `Envelope`, which say at once what an acceptable upload is. ZIP and TAR
share the rules; the limit on compressed bytes is among the rejections that may always happen.
`stored` names the envelope whose converted session was stored. Removing a file succeeds.

## Runs

| Run | Instance | Shows |
|---|---|---|
| `delivery_crew` | 3 calls, 2 processes, 2 calls share a command | `AtMostOneEffect`, `OneHolder`, `CompletedIsFinal`, `LiveReservationIsExclusive`, and that the gateway implements `IdempotentDelivery` (`KeepsPromise`) |
| `delivery_pair` | 3 calls, 2 processes, one for another peer; fair | `ResultsAreReal`; `CallsEnd`: duplicates of a crashed sender are released |
| `supervisor_safety` | 1 supervisor, 1 stop, faults, late threads, resumes, 2 sessions | `TerminalIsUnclaimed`, `TerminalLeftByOperator`, `LateWriteIsFenced` |
| `supervisor_liveness` | 2 supervisors, 1 stop, crashes; fair | `OpenClientIsReachable`, `RetryBudgetIsDurable`, `LostClaimClosesClient` |
| `supervisor_archive` | 1 supervisor, 1 stop, resumes | violation (see Findings) |
| `proxy_pool` | 2 tenants with an account each, 2 proxies, 2 open transactions | `CapacityHolds`, `TenantIsolation`, `OneDefault`, `OverrideSurvives` |
| `staff_access` | 2 organizations, 2 addresses, 2 API processes, 2 sessions | `SessionIsEarned`, `DeactivationRevokes`, `DeactivationDrains`, `CodesShownOnce`, `CredentialsSetOnce` |
| `staff_recovery` | 1 owner, 2 processes, 2 codes | violation (see Findings) |
| `ai_policy` | 2 tenants, 1 account, 2 approvals, 2 administrators, 1 caller, times 0 to 2 | `LoadIsCovered`, `RevocationIsPrompt`, `AuditTellsHistory` |
| `onboarding` | 2 owners of 2 organizations, 2 identities, stores of capacity 1, 2 attempts, 2 requests | `ClientIsExclusive`, `SessionLeavesOnce`, `StoredSessionsAreEarned`, `LateAnswerIsRefused` |
| `tdata_import` | 3 files, 2 contents, 4 changes, 1 run of the tool | `ImportedIsSnapshot` |
| `quarantine` | all bare payloads, archives up to 3 members, 2 processors, 2 changes | `StoredIsCaptured`, `OriginalIsGone` |

Bounds. Three calls are a sender, the caller that recovers its row and a third that finds
either; two processes separate what is per process (owner id, vault) from what is shared.
`MaxFence` bounds claims and stops together, `MaxVersion` the versions at which a heartbeat
still renews (a start goes active at version 3, so 4 lets its monitor renew once; other
steps go on beyond it), `MaxClients`, `MaxSlots` and `MaxSessions` what is
created; three claims allow a first owner, one that takes over, and the return of the first.
In `proxy_pool` a shared proxy grows and shrinks between capacity 1 and 2, with two accounts
to fill it, and one tenant has defaults of its own; `MaxRevision` = 2 sets and clears an
override; `MaxIds` = 2 lets an assignment be lost and made again. In `staff_access`
two addresses are an owner and either another owner or a member, and two processes are what
every race here needs. In `ai_policy` a short approval for one channel and a longer one for
both, under different terms, can overlap or replace each other, and expire within the clock's
bound. In `onboarding` a capacity of one makes the second attempt evict the first, a `Ttl` of
one lets it expire during a call, and the two organizations may want the same identity or
different ones. In `tdata_import` four changes move a file away and back, over two contents that
may recur; runs do not share state but the folder, so one is enough. In `quarantine` two members
are the least at which duplicates, directories and the limits matter, and the bodies are an
envelope, one without a body, one that is too long and no envelope; 16, the byte limit and the
length of the header are parameters. Workers are symmetric;
no liveness is checked under symmetry. Deadlock is checked for the proxy pool; calls and
connections really come to rest, so the other runs do not check it.

Fairness. `MessageDelivery!FairSpec`: a running call goes on (the event loop runs; a
request is answered or given up at the deadline) and time passes. It holds no fairness for
starting, cancelling, crashing or for a message to land. `ConnectionSupervisor!FairSpec`:
each loop, monitor and stop call goes on. Starts, stops, faults and API calls are never
forced. `supervisor_liveness` has no database faults: if the save in an `except` clause fails
too, the task ends with its client registered and no monitor, which is a hazard listed in
`PROJECT.json` and not something fairness would repair. It has no resumes either, because
the cleanup at `supervisor.py:325-327` would then violate `OpenClientIsReachable` (see
below). The other modules have no fairness: their requests are refused, fail or are
abandoned at any step, and the code promises no outcome in time.

## Findings

Each is a run that expects a violation, checking a statement of the repository.

1. `supervisor_archive` (`supervisor.py:97`): archive "prevent[s] all future starts"; a
   `resume` that read the paused row earlier overwrites it (`service.py:317-329`).
2. `staff_recovery` (`docs/superpowers/specs/2026-08-16-stage-1-auth-design.md:35`): recovery
   codes are "consumed once"; two logins that both read the row before either writes it back
   are let in with the same code (`auth/service.py:178`).

The models show more that no statement of the repository forbids outright, or that the
properties are stated around:

- a recovery login that read the active row writes `disabled = false` over a deactivation;
- a reconciliation that finds its message is not recorded while another caller holds the row
  (`persistence.py:133-137`), whatever the comment at `gateway.py:493` says of it;
- the cleanup of a stop runs outside the lock and deregisters the client of a newer start
  (`supervisor.py:325-327`), which no stop can close any more;
- an import resets version and fence token, so the late write of a cancelled task can match a
  new claim (`LateWriteIsFenced` is therefore about the first session);
- a start that fails releases an assignment on which a second process is active already;
- a poll by somebody else cancels the task that waits for the owner's scan (`qr.py:87-93`);
- a transient failure of the scan leaves a QR challenge open that nobody waits on (`qr.py:66`);
- the clients of authorization attempts are connected and never disconnected
  (`concrete.py:121-148`);
- the answer of a grant may be lost; asking again makes a second live approval, and revoking
  the known one leaves it in force;
- two `put_proxy` calls of one tenant can wait for each other's rows until PostgreSQL rolls one
  back; and a reservation that waits for a default which moves meanwhile passes it over;
- a flood wait longer than the lease ends in a limited account that somebody has to start; a
  cancelled start whose reservation commits late leaves an assignment to a paused account;
- a tool that is killed leaves its temporary copy of the account keys behind;
- equal digests do not make a snapshot: files that change and change back in each pass, or
  are moved between two directories while these are scanned, can make all digests agree on a
  folder that never existed (`preflight.py:50,122`); `ImportedIsSnapshot` exempts the files that
  went back to an earlier state, and those in directories that could not be scanned;
- a login that has read the active row saves a live session after the deactivation has revoked
  the others; `DeactivationRevokes` exempts it;
- content is loaded on a decision already taken, even if the approval is revoked or expires in
  between (`policy/service.py:350`); `LoadIsCovered` and `RevocationIsPrompt` speak of the check.

## Proofs

`MessageDelivery_proofs`, for any callers, processes and peers, from `DeliveryAssumption`
(the constant functions have their types and `None` is no element of them). `OneHolder`
or `AtMostOneEffect` alone are not inductive: that no second call sends depends on which
calls have ever sent. The invariant `IInv` has seven parts: `TypeOK`; `RowFirst` (nothing
happens before the row exists); `Fenced` (reservations differ in their tokens, the newest
is the row's, and a recovering call is behind a pending row); `SingleAttempt` (without remote
deduplication only one call ever sends); `RemoteSound` (what is remote was sent by a request
that landed); `OnePeer`; `ResultSound`. `InductiveStep` goes through the actions one by one.
From it follow `TypeCorrect`, `AtMostOnce`, `ExclusiveHolder`, `ResultsSound`,
`CompletionFinal`, `ExclusiveReservation` and `Refinement` (every step is a step of
`IdempotentDelivery` or leaves its variables alone).

`TdataImport_proofs`, for any folder, contents, order of its files, changes and runs, from
`TdataAssumption`. Neither a listing nor a pass is atomic, so `ImportedIsSnapshot` is argued file
by file: `DigestHad` (what the digest says of a file, the file has been in this run), `HeldStill`
(a file that is, or was observed in a later pass, as it was captured has been so when the first
pass ended, unless it went back to that state, and then it is `unsteady`) and `CopyIsSnapshot`.
When the last pass agrees with the digest, every file has been observed as captured
(`ParseStep`); `TypeCorrect` and `SnapshotsOnly` follow.

`PolicyGate_proofs`, for any tenants, accounts, scopes, approvals, callers, administrators and
clock, from `PolicyAssumption`. `TypeCorrect` needs the fields a request in progress carries
(`WriteInv`, `CallInv`). `LoadIsCovered` and `RevocationIsPrompt` speak of calls that have
loaded, while the decision was taken earlier on rows read earlier; `LInv` carries it forward:
`Trusted` (what the registry keeps for a context, and what passed its check, names the owner of
the account's row), `Barred` (what was
revoked before the check is still revoked) and `Approved` (a decided call names an
approval). It is inductive because approvals and revocations are only added
(`RowsOnlyAdded`) and the terms only change with a restart, which ends every call. From it
`LoadsAreCovered` and `RevocationsArePrompt`. `AuditIsHistory` rests on `AuditInv` (every row has
exactly its event, every event its row) and `RevokesApproved`; `EventAppended` says what one more
event does to the events of a kind and an approval, and `FiniteSetTheorems` counts them.

`ConnectionSupervisor_proofs`, for any supervisors, stop calls, environment and bounds, from
`SupervisorAssumption`. `IInv` is split by the owner of the state: `RowInv` (`GoodRow`: an
owner comes with a lease, a terminal state with neither; the row's session is not newer than
the newest import), `RunInv` and `LocalInv` (tasks refer to clients of their own process),
`StopInv`, `CallsInv` (what a resume has read was a good paused row) and `CountInv`. From it
`TypeCorrect` and `TerminalUnclaimed`. `TerminalStays` adds the lemma `TerminalRowFixed`:
every transaction that needs a claim leaves a terminal row as it is, because such a row has
no owner to match. Three more theorems build on `IInv`:

- `RetryBudget` assumes that nobody resumes, since a resume keeps the count and makes a used-up
  account startable again. `RowWriters` lists who writes the row; each of them leaves the
  retries below the budget or the row terminal (`BudgetKept`).
- `LateWritesFenced` holds in every environment. A late call writes only where its snapshot
  matches the row, so the invariant `FenceInv` compares fence tokens: as long as the first
  session is in place no task is ahead of the row; a call that has outlived its task, and a
  task that is being stopped, are behind the row *and* behind the copy that a resume has read
  and will write back (`RunFence`, `LateFence`, `ResumeFence`, `StopFence`).
- `ClientsReachable` assumes no resume and no import: the cleanup of a stop runs outside the
  account lock, and if the account could be started again meanwhile it would deregister the new
  client (see Findings, `supervisor.py:325-327`). `ReachInv` says that a task
  owns the client its supervisor has registered, a stop the one it captured, and that the row is
  terminal while a stop is at work; `TerminalAbsorbs` says that it then stays terminal, so no
  client is registered behind the stop's back.

`ProxyAssignment_proofs`, for any tenants, accounts, proxies, capacities and open transactions,
from `ProxyAssumption`. The properties speak of committed rows, while a transaction checks its
row long before it writes it. `IInv` therefore has `LocksExclusive` (a row is held by one
transaction) and `TxInv`: what a transaction found out about a row it holds is still true,
namely that the row is visible to the account and has room (`ReserveOK`), or has the tenant of
the request and no more assignments than the new capacity (`PutOK`). Releases only lower a
count, reservations raise it only on the row they hold; `FiniteSetTheorems` counts. From it
`TenantsIsolated`, `CapacityRespected` and `DefaultUnique`; `OverridesSurvive` needs the types
only.

`StaffAccess_proofs`, for any organizations, members, API processes and sessions, from
`StaffAssumption`. A login decides on a row it read earlier and writes the whole row back, so
the question is what of its copy can be out of date. `Kept`: organization, role, password and
TOTP secret are written once, by setup and confirmation; a login begins only after setup, and
only one that has read a TOTP secret writes its copy back.
`IInv` says what of the copy agrees with the table (`LoginInv`), in which order setup, enrolment
and confirmation happened (`SetupInv`), and that codes are handed out only with the consumption
of the enrolment (`GivenInv`). From it `SessionsEarned`, `DeactivationEndsSessions` and
`CodesShown`; `CredentialsFixed` is the same argument for a step. `DeactivatedStayOut` shows
that a deactivated member without a login under way gets no session from any step. What the
proof cannot have, that a code is consumed once or that a login never overwrites a
deactivation, is false (see Findings).

`Onboarding_proofs`, for any owners, attempts, requests, identities and capacity, from
`OnboardingAssumption`. `IInv`: a request at a client has its claim (`JobsInv`), two requests at
the same stage have different sources (`OneRequest`), a source that has yielded its session is
spent (`SourceInv`), a ciphertext comes from its source (`StoredInv`). Nothing in it is about the
order of the stores: whether a challenge is still active only decides between branches that both
keep it, which is why expiry and eviction in the middle of a call do no harm. From it
`SessionsLeaveOnce`, `StoredEarned`, `ClientsExclusive`; `LateAnswersRefused` is an action
property. `TypeCorrect` adds the stores: every step prunes, inserts, removes or empties
(`StoreSteps`), pruning does not lengthen (`WithoutType`), and insertion ends at the capacity.

`Quarantine_proofs`, for bare envelopes and archives of any length, any limits and any changes at
the path, from `QuarantineAssumption`. `InodesInv` (an inode is given out once) and `HeldInv` (a processor
converts what it captured) give `OriginalsGone`; `StoredFromCapture` ties what is stored to the
captured upload. That the loop over the members lets only acceptable archives through is
an induction over the members (`ScanResult`, with `InspectStep` for one pass); with the check of
the envelope (`ValidatedIsEnvelope`) it gives `StoredCaptured`.

Inductions over data, in the last two, are by the least counterexample: `SetInduction`, proved
from the well-foundedness of the naturals (`WFMin`, `NatLessThanWellFounded`), takes the set of
numbers for which a fact holds where the library's induction theorems take a predicate, which
the provers cannot instantiate. The existence of the recursive functions is proved the same way.

Model-checked only: the liveness properties (`CallsEnd`, `LostClaimClosesClient`), which are out
of the prover's reach, and the two violations. Every invariant and every action property of a
passing run has a theorem. The theorems hold for the bounds of the models as parameters
(`MaxFence`, `MaxClients`, `MaxSessions`, ...), so for every size of them.

## Plan

Modelled: `MessageDelivery` with `IdempotentDelivery`, `ConnectionSupervisor`,
`ProxyAssignment`, `StaffAccess`, `PolicyGate`, `Onboarding`, `TdataImport`, `Quarantine`; the
safety properties of all of them are proved.

Still to come: `ClientsReachable` with imports of accounts on which no stop is at work, in
place of no imports at all; and lemmas that the conjuncts of the larger invariants share, to
make the proofs of `ConnectionSupervisor` shorter.

## Not modelled

Cryptography (session encryption, password hashing, TOTP, envelopes) and the byte formats of
`tdata`: they are functions without protocol state, beyond a model checker. The web client, the
composition root, configuration and the developer tools hold no state that others depend on.
The unit of work of `shared/outbox.py` is not opened by any service. The Telegram library is
the environment of the models. Error texts, redaction, listings and metrics are left out.
Durations appear as "may expire now", or as a clock of a few ticks where two readings of it
are compared; back-off and flood waits are therefore waits of any length.
