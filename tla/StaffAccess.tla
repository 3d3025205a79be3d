----------------------------- MODULE StaffAccess -----------------------------
(***************************************************************************)
(* Who may act for an organization: owners and staff with their setup      *)
(* invitations, second factors, recovery codes and server sessions         *)
(* (auth/service.py, auth/persistence.py, auth/session_auth.py and         *)
(* organizations/provisioning.py).                                         *)
(*                                                                         *)
(* Each repository call is one transaction.  A request makes several and   *)
(* keeps what it has read in between; requests of different API processes  *)
(* interleave there.  A user is identified with their e-mail address,      *)
(* which is unique; a refused request changes nothing and is no step.      *)
(***************************************************************************)
EXTENDS Naturals, FiniteSets

CONSTANTS
    Orgs, Names,   \* organizations and the names they may be given
    Users,         \* e-mail addresses
    Provisions,    \* the owners, organizations and names that the platform owner provisions
    Sessions,      \* session ids; their number bounds the logins
    Workers,       \* API processes, each serving one request at a time
    MaxCodes,      \* recovery codes of an enrolment
    None

ASSUME StaffAssumption ==
    /\ None \notin Orgs \cup Names \cup Users \cup Workers
    /\ Provisions \subseteq Users \X Orgs \X Names
    /\ MaxCodes \in Nat

Owner == "company_owner"
Roles == {Owner, "administrator", "manager"}
PrivilegedRoles == {Owner, "administrator"}
InvitableRoles == {"administrator", "manager"}

VARIABLES
    organizations, \* the name of each organization, None where there is no row
    users,         \* app_users; role "none" where there is no row
    invitations,   \* auth_setup_invitations, one per user
    enrollments,   \* auth_totp_enrollments, one per user
    sessions,      \* auth_sessions
    request,       \* what each worker's request has read
    given,         \* history: the recovery codes that callers were shown
    spent          \* history: the recovery codes that logins were let in with

vars == <<organizations, users, invitations, enrollments, sessions, request, given, spent>>

\* A password or a TOTP secret is named after the request that set it up, a recovery
\* code after the confirmation that generated it.
Secrets == Workers \cup {None}
Codes == Workers \X (1..MaxCodes)
NoCode == <<None, 0>>

Organizations == Names \cup {None}
AppUsers == [org : Orgs \cup {None}, role : Roles \cup {"none"}, password : Secrets,
             totp : Secrets, codes : SUBSET Codes, disabled : BOOLEAN]
Invitations == {"none", "open", "expired", "consumed"}
Enrollments == [state : Invitations, secret : Secrets]
AuthSessions == [state : {"none", "live", "over"}, user : Users \cup {None},
                 org : Orgs \cup {None}, role : Roles \cup {"none"}, mfa : BOOLEAN,
                 late : BOOLEAN]   \* over: revoked or expired; late: saved for a disabled user

Principals == [user : Users \cup {None}, org : Orgs \cup {None}, role : Roles \cup {"none"}]
Requests == [op : {"idle", "authenticated", "deactivate", "activate", "confirm", "spend", "issue"},
             by : Principals, user : Users \cup {None}, row : AppUsers, code : Codes \cup {NoCode}]

NoUser == [org |-> None, role |-> "none", password |-> None, totp |-> None,
           codes |-> {}, disabled |-> FALSE]
NoSession == [state |-> "none", user |-> None, org |-> None, role |-> "none",
              mfa |-> FALSE, late |-> FALSE]
NoPrincipal == [user |-> None, org |-> None, role |-> "none"]
Idle == [op |-> "idle", by |-> NoPrincipal, user |-> None, row |-> NoUser,
         code |-> NoCode]

Init ==
    /\ organizations = [o \in Orgs |-> None]
    /\ users = [u \in Users |-> NoUser]
    /\ invitations = [u \in Users |-> "none"]
    /\ enrollments = [u \in Users |-> [state |-> "none", secret |-> None]]
    /\ sessions = [s \in Sessions |-> NoSession]
    /\ request = [w \in Workers |-> Idle]
    /\ given = {} /\ spent = {}

Exists(u) == users[u].role # "none"
Live(s) == sessions[s].state = "live"
LiveSessions(u) == {s \in Sessions : Live(s) /\ sessions[s].user = u}

Goto(w, r) == request' = [request EXCEPT ![w] = r]
Answer(w) == Goto(w, Idle)

----------------------------------------------------------------------------
(* Transactions of the repository.                                         *)

\* Mutant of the insert.
CreateAnyRole(u, org, role) ==
    /\ ~Exists(u)
    /\ users' = [users EXCEPT ![u] = [NoUser EXCEPT !.org = org, !.role = "platform_owner"]]
    /\ invitations' = [invitations EXCEPT ![u] = "open"]

\* A pending user and the setup invitation, inserted together; uq_app_users_email
\* rolls both back when the address is taken.
CreateUser(u, org, role) ==
    /\ ~Exists(u)
    /\ users' = [users EXCEPT ![u] = [NoUser EXCEPT !.org = org, !.role = role]]
    /\ invitations' = [invitations EXCEPT ![u] = "open"]

\* The tenant and its owner; a taken name rolls back as well.
ProvisionCompanyOwner(u, org, name) ==
    /\ organizations[org] = None
    /\ \A o \in Orgs : organizations[o] # name
    /\ organizations' = [organizations EXCEPT ![org] = name]
    /\ CreateUser(u, org, Owner)

RenameOrganization(org, name) ==
    /\ organizations[org] # None
    /\ \A o \in Orgs \ {org} : organizations[o] # name
    /\ organizations' = [organizations EXCEPT ![org] = name]

\* Mutants of the repository.
LeaveSessions(u) == UNCHANGED sessions
ConsumeAnyInvitation(u, w) ==
    /\ invitations' = [invitations EXCEPT ![u] = "consumed"]
    /\ users' = [users EXCEPT ![u].password = w]
    /\ enrollments' = [enrollments EXCEPT ![u] = [state |-> "open", secret |-> w]]
ConsumeAnyEnrollment(u, batch) ==
    /\ enrollments' = [enrollments EXCEPT ![u].state = "consumed"]
    /\ users' = [users EXCEPT ![u].totp = enrollments[u].secret, ![u].codes = batch]

RevokeSessions(u) ==
    sessions' = [s \in Sessions |->
                    IF sessions[s].user = u /\ sessions[s].state # "none"
                    THEN [sessions[s] EXCEPT !.state = "over"] ELSE sessions[s]]

DeactivateUserAndRevokeSessions(u) ==
    /\ Exists(u)
    /\ users' = [users EXCEPT ![u].disabled = TRUE]
    /\ RevokeSessions(u)

\* The UPDATE ... WHERE consumed_at IS NULL decides between two requests that have read
\* the same invitation; the enrolment is inserted in the same transaction.
ConsumeSetupInvitation(u, w) ==
    /\ invitations[u] \in {"open", "expired"}
    /\ enrollments[u].state = "none"
    /\ invitations' = [invitations EXCEPT ![u] = "consumed"]
    /\ users' = [users EXCEPT ![u].password = w]
    /\ enrollments' = [enrollments EXCEPT ![u] = [state |-> "open", secret |-> w]]

ConsumeTotpEnrollment(u, batch) ==
    /\ enrollments[u].state \in {"open", "expired"}
    /\ enrollments' = [enrollments EXCEPT ![u].state = "consumed"]
    /\ users' = [users EXCEPT ![u].totp = enrollments[u].secret, ![u].codes = batch]

\* The whole row, as the caller has it.
SaveUser(u, row) == users' = [users EXCEPT ![u] = row]
SaveSession(s, row) == sessions' = [sessions EXCEPT ![s] = row]

----------------------------------------------------------------------------
(* Provisioning, and the requests of a signed-in owner.                    *)

Provision(u, org, name) ==
    /\ ProvisionCompanyOwner(u, org, name)
    /\ UNCHANGED <<enrollments, sessions, request, given, spent>>

\* A principal is what the session row says, not what the user row says by now.
Authenticate(w, s) ==
    /\ request[w].op = "idle" /\ Live(s)
    /\ Goto(w, [Idle EXCEPT !.op = "authenticated",
                  !.by = [user |-> sessions[s].user, org |-> sessions[s].org, role |-> sessions[s].role]])
    /\ UNCHANGED <<organizations, users, invitations, enrollments, sessions, given, spent>>

AsOwner(w) == request[w].op = "authenticated" /\ request[w].by.role = Owner

Invite(w, u, role) ==
    /\ AsOwner(w) /\ role \in InvitableRoles
    /\ CreateUser(u, request[w].by.org, role)
    /\ Answer(w)
    /\ UNCHANGED <<organizations, enrollments, sessions, given, spent>>

Rename(w, name) ==
    /\ AsOwner(w)
    /\ RenameOrganization(request[w].by.org, name)
    /\ Answer(w)
    /\ UNCHANGED <<users, invitations, enrollments, sessions, given, spent>>

MayDeactivate(p, u) ==
    /\ users[u].org = p.org /\ u # p.user
    /\ users[u].role \in InvitableRoles
    /\ ~users[u].disabled

DeactivateRead(w, u) ==
    /\ AsOwner(w) /\ MayDeactivate(request[w].by, u)
    /\ Goto(w, [request[w] EXCEPT !.op = "deactivate", !.user = u])
    /\ UNCHANGED <<organizations, users, invitations, enrollments, sessions, given, spent>>

DeactivateMember(w) ==
    /\ request[w].op = "deactivate"
    /\ DeactivateUserAndRevokeSessions(request[w].user)
    /\ Answer(w)
    /\ UNCHANGED <<organizations, invitations, enrollments, given, spent>>

----------------------------------------------------------------------------
(* Setup: the holder of the setup token chooses a password and gets a TOTP *)
(* secret, whose first code is exchanged for the recovery codes.           *)

\* Expiry is judged by the clock that the request has read before its transaction, which
\* may therefore still consume what has expired meanwhile.
ActivateRead(w, u) ==
    /\ request[w].op = "idle"
    /\ invitations[u] = "open"
    /\ Goto(w, [Idle EXCEPT !.op = "activate", !.user = u])
    /\ UNCHANGED <<organizations, users, invitations, enrollments, sessions, given, spent>>

ActivateSetupToken(w) ==
    /\ request[w].op = "activate"
    /\ ConsumeSetupInvitation(request[w].user, w)
    /\ Answer(w)
    /\ UNCHANGED <<organizations, sessions, given, spent>>

ConfirmRead(w, u) ==
    /\ request[w].op = "idle"
    /\ enrollments[u].state = "open"
    /\ Goto(w, [Idle EXCEPT !.op = "confirm", !.user = u])
    /\ UNCHANGED <<organizations, users, invitations, enrollments, sessions, given, spent>>

ConfirmTotpEnrollment(w) ==
    LET batch == {w} \X (1..MaxCodes) IN
    /\ request[w].op = "confirm"
    /\ ConsumeTotpEnrollment(request[w].user, batch)
    /\ given' = given \cup {<<request[w].user, w>>}
    /\ Answer(w)
    /\ UNCHANGED <<organizations, invitations, sessions, spent>>

----------------------------------------------------------------------------
(* Login and sessions.                                                     *)

\* Mutants of login.
AnyPassword(row) == row.password # None
OnlyOwners(row) == row.role = Owner

PasswordAccepted(row) == ~row.disabled /\ row.password # None
NeedsSecondFactor(row) == row.role \in PrivilegedRoles

\* The password, and where the role needs it a TOTP code.
Login(w, u) ==
    /\ request[w].op = "idle"
    /\ PasswordAccepted(users[u])
    /\ NeedsSecondFactor(users[u]) => users[u].totp # None
    /\ Goto(w, [Idle EXCEPT !.op = "issue", !.user = u, !.row = users[u]])
    /\ UNCHANGED <<organizations, users, invitations, enrollments, sessions, given, spent>>

\* A recovery code instead: the row is written back without the code.
RecoveryLogin(w, u, c) ==
    /\ request[w].op = "idle"
    /\ PasswordAccepted(users[u]) /\ NeedsSecondFactor(users[u])
    /\ c \in users[u].codes
    /\ Goto(w, [Idle EXCEPT !.op = "spend", !.user = u, !.code = c,
                  !.row = [users[u] EXCEPT !.codes = @ \ {c}]])
    /\ UNCHANGED <<organizations, users, invitations, enrollments, sessions, given, spent>>

SpendCode(w) ==
    /\ request[w].op = "spend"
    /\ SaveUser(request[w].user, request[w].row)
    /\ spent' = spent \cup {<<request[w].user, request[w].code>>}
    /\ Goto(w, [request[w] EXCEPT !.op = "issue", !.code = NoCode])
    /\ UNCHANGED <<organizations, invitations, enrollments, sessions, given>>

IssueSession(w, s) ==
    LET row == request[w].row IN
    /\ request[w].op = "issue" /\ sessions[s] = NoSession
    /\ SaveSession(s, [state |-> "live", user |-> request[w].user, org |-> row.org, role |-> row.role,
                        mfa |-> NeedsSecondFactor(row), late |-> users[request[w].user].disabled])
    /\ Answer(w)
    /\ UNCHANGED <<organizations, users, invitations, enrollments, given, spent>>

\* Only a revocation changes a session row, so that its read and its write are one step.
RevokeSession(s) ==
    /\ Live(s)
    /\ SaveSession(s, [sessions[s] EXCEPT !.state = "over"])
    /\ UNCHANGED <<organizations, users, invitations, enrollments, request, given, spent>>

----------------------------------------------------------------------------
(* The clock, and requests that are refused or die with their process.     *)

ExpireInvitation(u) ==
    /\ invitations[u] = "open"
    /\ invitations' = [invitations EXCEPT ![u] = "expired"]
    /\ UNCHANGED <<organizations, users, enrollments, sessions, request, given, spent>>

ExpireEnrollment(u) ==
    /\ enrollments[u].state = "open"
    /\ enrollments' = [enrollments EXCEPT ![u].state = "expired"]
    /\ UNCHANGED <<organizations, users, invitations, sessions, request, given, spent>>

ExpireSession(s) ==
    /\ Live(s)
    /\ sessions' = [sessions EXCEPT ![s].state = "over"]
    /\ UNCHANGED <<organizations, users, invitations, enrollments, request, given, spent>>

Abandon(w) ==
    /\ request[w].op # "idle"
    /\ Answer(w)
    /\ UNCHANGED <<organizations, users, invitations, enrollments, sessions, given, spent>>

ProvisionStep == \E p \in Provisions : Provision(p[1], p[2], p[3])
OwnerStep(w) ==
    \/ \E s \in Sessions : Authenticate(w, s)
    \/ \E u \in Users, role \in InvitableRoles : Invite(w, u, role)
    \/ \E n \in Names : Rename(w, n)
    \/ \E u \in Users : DeactivateRead(w, u)
    \/ DeactivateMember(w)
SetupStep(w) ==
    \/ \E u \in Users : ActivateRead(w, u) \/ ConfirmRead(w, u)
    \/ ActivateSetupToken(w)
    \/ ConfirmTotpEnrollment(w)
LoginStep(w) ==
    \/ \E u \in Users : Login(w, u) \/ \E c \in Codes : RecoveryLogin(w, u, c)
    \/ SpendCode(w)
    \/ \E s \in Sessions : IssueSession(w, s)

Next ==
    \/ ProvisionStep
    \/ \E w \in Workers : OwnerStep(w) \/ SetupStep(w) \/ LoginStep(w) \/ Abandon(w)
    \/ \E s \in Sessions : RevokeSession(s) \/ ExpireSession(s)
    \/ \E u \in Users : ExpireInvitation(u) \/ ExpireEnrollment(u)

Spec == Init /\ [][Next]_vars

----------------------------------------------------------------------------
(* Properties.                                                             *)

\* Every variable holds what its table, or the request that carries it, may hold.
TypeOK ==
    /\ organizations \in [Orgs -> Organizations]
    /\ users \in [Users -> AppUsers]
    /\ invitations \in [Users -> Invitations]
    /\ enrollments \in [Users -> Enrollments]
    /\ sessions \in [Sessions -> AuthSessions]
    /\ request \in [Workers -> Requests]
    /\ given \subseteq Users \X Workers
    /\ spent \subseteq Users \X Codes

\* A session, whichever writes its login raced with, speaks for the organization and the
\* role of its user, and one of a privileged role exists only after the user's TOTP
\* enrolment was confirmed.
SessionIsEarned ==
    \A s \in Sessions : sessions[s].state # "none" =>
       LET u == sessions[s].user IN
       /\ u \in Users /\ users[u].password # None
       /\ sessions[s].org = users[u].org /\ sessions[s].role = users[u].role
       /\ sessions[s].role \in PrivilegedRoles =>
             sessions[s].mfa /\ enrollments[u].state = "consumed" /\ users[u].totp = users[u].password

\* A session that a deactivated member still has was saved by a login that had read the
\* row before; deactivation leaves none of the sessions that it found.
DeactivationRevokes ==
    \A s \in Sessions : Live(s) /\ users[sessions[s].user].disabled => sessions[s].late

InFlight(u) == {w \in Workers : request[w].op \in {"spend", "issue"} /\ request[w].user = u}
Out(u) == Exists(u) /\ users[u].disabled /\ InFlight(u) = {}

\* Nobody is let in with a deactivated row: once no login that read the active row is under
\* way, the member stays out for good.
DeactivationDrains ==
    [][\A u \in Users : Out(u) => Out(u)' /\ LiveSessions(u)' \subseteq LiveSessions(u)]_vars

\* Password and TOTP secret are set up once, by one holder of the setup token: neither a
\* second use of the token nor a login that writes an old row back changes them.
CredentialsSetOnce ==
    [][\A u \in Users :
          /\ users[u].password # None => users'[u].password = users[u].password
          /\ users[u].totp # None => users'[u].totp = users[u].totp]_vars

\* One confirmation of an enrolment hands out recovery codes, and the codes that open the
\* account are codes it handed out.
CodesShownOnce ==
    \A u \in Users :
       /\ \A v, w \in Workers : {<<u, v>>, <<u, w>>} \subseteq given => v = w
       /\ \A c \in users[u].codes : <<u, c[1]>> \in given

\* "Recovery codes are stored only as hashes and consumed once": no login is let in with a
\* code that another has used.
RecoveryCodesConsumedOnce ==
    [][\A w \in Workers : SpendCode(w) => <<request[w].user, request[w].code>> \notin spent]_vars
=============================================================================
