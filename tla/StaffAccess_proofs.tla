------------------------- MODULE StaffAccess_proofs -------------------------
(***************************************************************************)
(* Proofs about StaffAccess, for any organizations, users, sessions, API   *)
(* processes and number of recovery codes.                                 *)
(***************************************************************************)
EXTENDS StaffAccess, TLAPS

USE StaffAssumption

LoginOps == {"spend", "issue"}

\* What a request carries is what its next transaction needs.
RequestOK(r) ==
    /\ r.op \in {"deactivate", "activate", "confirm", "spend", "issue"} => r.user \in Users
    /\ r.op = "spend" => r.code \in Codes
RequestInv == \A w \in Workers : RequestOK(request[w])

TInv == TypeOK /\ RequestInv

LEMMA NothingTyped ==
    /\ NoUser \in AppUsers /\ Idle \in Requests /\ RequestOK(Idle) /\ Idle.op = "idle"
    /\ Idle.row = NoUser
BY DEF NoUser, AppUsers, Idle, Requests, RequestOK, NoPrincipal, Principals, Secrets, Roles

LEMMA RowTypes ==
    ASSUME TInv
    PROVE  /\ \A u \in Users : users[u] \in AppUsers
           /\ \A w \in Workers : request[w] \in Requests /\ RequestOK(request[w])
           /\ \A s \in Sessions : sessions[s] \in AuthSessions
BY DEF TInv, TypeOK, RequestInv

\* A request goes on with another record.
LEMMA RequestTyped ==
    ASSUME TInv, NEW w \in Workers, NEW r \in Requests, RequestOK(r), Goto(w, r)
    PROVE  request' \in [Workers -> Requests] /\ RequestInv'
BY DEF TInv, TypeOK, RequestInv, Goto

\* The insert of a user keeps the types of both tables.
LEMMA CreateTyped ==
    ASSUME TInv, NEW u \in Users, NEW org \in Orgs \cup {None}, NEW role \in Roles, CreateUser(u, org, role)
    PROVE  users' \in [Users -> AppUsers] /\ invitations' \in [Users -> Invitations]
<1>1. [NoUser EXCEPT !.org = org, !.role = role] \in AppUsers
  BY NothingTyped DEF AppUsers
<1> QED BY <1>1 DEF TInv, TypeOK, CreateUser, Invitations

\* Each step of an owner's request keeps the types.
LEMMA OwnerTypes ==
    ASSUME TInv, NEW w \in Workers, OwnerStep(w)
    PROVE  TInv'
<1>0. request[w] \in Requests /\ RequestOK(request[w])
  BY RowTypes
<1>1. ASSUME NEW s \in Sessions, Authenticate(w, s) PROVE TInv'
  <2> DEFINE r == [Idle EXCEPT !.op = "authenticated",
                  !.by = [user |-> sessions[s].user, org |-> sessions[s].org, role |-> sessions[s].role]]
  <2>1. sessions[s] \in AuthSessions
    BY RowTypes
  <2>2. r \in Requests /\ RequestOK(r)
    BY <2>1, NothingTyped DEF Requests, Principals, AuthSessions, RequestOK
  <2> HIDE DEF r
  <2> QED BY <1>1, <2>2, RequestTyped DEF r, Authenticate, TInv, TypeOK
<1>2. ASSUME NEW u \in Users, NEW role \in InvitableRoles, Invite(w, u, role) PROVE TInv'
  <2>1. request[w].by.org \in Orgs \cup {None} /\ role \in Roles
    BY <1>0 DEF Requests, Principals, InvitableRoles, Roles
  <2>2. users' \in [Users -> AppUsers] /\ invitations' \in [Users -> Invitations]
    BY <1>2, <2>1, CreateTyped DEF Invite
  <2>3. request' \in [Workers -> Requests] /\ RequestInv'
    BY <1>2, NothingTyped, RequestTyped DEF Invite, Answer
  <2> QED BY <1>2, <2>2, <2>3 DEF Invite, TInv, TypeOK
<1>3. ASSUME NEW n \in Names, Rename(w, n) PROVE TInv'
  <2>1. request' \in [Workers -> Requests] /\ RequestInv'
    BY <1>3, NothingTyped, RequestTyped DEF Rename, Answer
  <2> QED BY <1>3, <2>1 DEF Rename, RenameOrganization, Organizations, TInv, TypeOK
<1>4. ASSUME NEW u \in Users, DeactivateRead(w, u) PROVE TInv'
  <2> DEFINE r == [request[w] EXCEPT !.op = "deactivate", !.user = u]
  <2>1. r \in Requests /\ RequestOK(r)
    BY <1>0 DEF Requests, RequestOK
  <2> HIDE DEF r
  <2> QED BY <1>4, <2>1, RequestTyped DEF r, DeactivateRead, TInv, TypeOK
<1>5. CASE DeactivateMember(w)
  <2>1. request' \in [Workers -> Requests] /\ RequestInv'
    BY <1>5, NothingTyped, RequestTyped DEF DeactivateMember, Answer
  <2>2. users' \in [Users -> AppUsers]
    BY <1>5, RowTypes DEF DeactivateMember, DeactivateUserAndRevokeSessions, AppUsers, TInv, TypeOK
  <2>3. sessions' \in [Sessions -> AuthSessions]
    BY <1>5, RowTypes DEF DeactivateMember, DeactivateUserAndRevokeSessions, RevokeSessions, AuthSessions
  <2> QED BY <1>5, <2>1, <2>2, <2>3 DEF DeactivateMember, TInv, TypeOK
<1> QED BY <1>1, <1>2, <1>3, <1>4, <1>5 DEF OwnerStep

\* Each step of a setup keeps the types.
LEMMA SetupTypes ==
    ASSUME TInv, NEW w \in Workers, SetupStep(w)
    PROVE  TInv'
<1>0. request[w] \in Requests /\ RequestOK(request[w])
  BY RowTypes
<1>1. ASSUME NEW u \in Users, ActivateRead(w, u) \/ ConfirmRead(w, u) PROVE TInv'
  <2>1. \A op \in {"activate", "confirm"} :
           [Idle EXCEPT !.op = op, !.user = u] \in Requests /\ RequestOK([Idle EXCEPT !.op = op, !.user = u])
    BY NothingTyped DEF Requests, RequestOK
  <2> QED BY <1>1, <2>1, RequestTyped DEF ActivateRead, ConfirmRead, TInv, TypeOK
<1>2. CASE ActivateSetupToken(w)
  <2>1. request' \in [Workers -> Requests] /\ RequestInv'
    BY <1>2, NothingTyped, RequestTyped DEF ActivateSetupToken, Answer
  <2>2. users' \in [Users -> AppUsers]
    BY <1>2, RowTypes DEF ActivateSetupToken, ConsumeSetupInvitation, AppUsers, Secrets, TInv, TypeOK
  <2>3. /\ enrollments' \in [Users -> Enrollments]
        /\ invitations' \in [Users -> Invitations]
    BY <1>2 DEF ActivateSetupToken, ConsumeSetupInvitation, Enrollments, Invitations, Secrets, TInv, TypeOK
  <2> QED BY <1>2, <2>1, <2>2, <2>3 DEF ActivateSetupToken, TInv, TypeOK
<1>3. CASE ConfirmTotpEnrollment(w)
  <2>0. request[w].user \in Users
    BY <1>0, <1>3 DEF ConfirmTotpEnrollment, RequestOK
  <2>1. request' \in [Workers -> Requests] /\ RequestInv'
    BY <1>3, NothingTyped, RequestTyped DEF ConfirmTotpEnrollment, Answer
  <2>2. {w} \X (1..MaxCodes) \in SUBSET Codes
    BY DEF Codes
  <2>3. enrollments[request[w].user] \in Enrollments
    BY <2>0 DEF TInv, TypeOK
  <2>4. users' \in [Users -> AppUsers]
    <3> DEFINE u == request[w].user
               row == [users[u] EXCEPT !.totp = enrollments[u].secret, !.codes = {w} \X (1..MaxCodes)]
    <3>1. row \in AppUsers
      BY <2>0, <2>2, <2>3, RowTypes DEF AppUsers, Enrollments
    <3>2. users' = [users EXCEPT ![u] = row]
      BY <1>3 DEF ConfirmTotpEnrollment, ConsumeTotpEnrollment
    <3> HIDE DEF row
    <3> QED BY <3>1, <3>2 DEF TInv, TypeOK
  <2>5. enrollments' \in [Users -> Enrollments]
    BY <1>3, <2>0, <2>3 DEF ConfirmTotpEnrollment, ConsumeTotpEnrollment, Enrollments, Invitations, TInv, TypeOK
  <2>6. given' \subseteq Users \X Workers
    BY <1>3, <2>0 DEF ConfirmTotpEnrollment, TInv, TypeOK
  <2> QED BY <1>3, <2>1, <2>4, <2>5, <2>6 DEF ConfirmTotpEnrollment, TInv, TypeOK
<1> QED BY <1>1, <1>2, <1>3 DEF SetupStep

\* Each step of a login keeps the types.
LEMMA LoginTypes ==
    ASSUME TInv, NEW w \in Workers, LoginStep(w)
    PROVE  TInv'
<1>0. request[w] \in Requests /\ RequestOK(request[w])
  BY RowTypes
<1>1. ASSUME NEW u \in Users, Login(w, u) PROVE TInv'
  <2> DEFINE r == [Idle EXCEPT !.op = "issue", !.user = u, !.row = users[u]]
  <2>1. r \in Requests /\ RequestOK(r)
    BY NothingTyped, RowTypes DEF Requests, RequestOK
  <2> HIDE DEF r
  <2> QED BY <1>1, <2>1, RequestTyped DEF r, Login, TInv, TypeOK
<1>2. ASSUME NEW u \in Users, NEW c \in Codes, RecoveryLogin(w, u, c) PROVE TInv'
  <2> DEFINE row == [users[u] EXCEPT !.codes = @ \ {c}]
  <2> DEFINE r == [Idle EXCEPT !.op = "spend", !.user = u, !.code = c, !.row = row]
  <2>1. row \in AppUsers
    BY RowTypes DEF AppUsers
  <2> HIDE DEF row
  <2>2. r \in Requests /\ RequestOK(r)
    BY <2>1, NothingTyped DEF Requests, RequestOK
  <2> HIDE DEF r
  <2> QED BY <1>2, <2>2, RequestTyped DEF r, row, RecoveryLogin, TInv, TypeOK
<1>3. CASE SpendCode(w)
  <2> DEFINE r == [request[w] EXCEPT !.op = "issue", !.code = NoCode]
  <2>1. request[w].user \in Users /\ request[w].code \in Codes /\ request[w].row \in AppUsers
    BY <1>0, <1>3 DEF SpendCode, RequestOK, Requests
  <2>2. r \in Requests /\ RequestOK(r)
    BY <1>0, <2>1 DEF Requests, RequestOK
  <2> HIDE DEF r
  <2>3. request' \in [Workers -> Requests] /\ RequestInv'
    BY <1>3, <2>2, RequestTyped DEF r, SpendCode
  <2>4. users' \in [Users -> AppUsers] /\ spent' \subseteq Users \X Codes
    BY <1>3, <2>1 DEF SpendCode, SaveUser, TInv, TypeOK
  <2> QED BY <1>3, <2>3, <2>4 DEF SpendCode, TInv, TypeOK
<1>4. ASSUME NEW s \in Sessions, IssueSession(w, s) PROVE TInv'
  <2>1. request[w].user \in Users /\ request[w].row \in AppUsers
    BY <1>0, <1>4 DEF IssueSession, RequestOK, Requests
  <2>2. users[request[w].user].disabled \in BOOLEAN
    BY <2>1, RowTypes DEF AppUsers
  <2>3. NeedsSecondFactor(request[w].row) \in BOOLEAN
    BY DEF NeedsSecondFactor
  <2>4. [state |-> "live", user |-> request[w].user, org |-> request[w].row.org, role |-> request[w].row.role,
         mfa |-> NeedsSecondFactor(request[w].row), late |-> users[request[w].user].disabled] \in AuthSessions
    BY <2>1, <2>2, <2>3 DEF AppUsers, AuthSessions
  <2>5. sessions' \in [Sessions -> AuthSessions]
    BY <1>4, <2>4 DEF IssueSession, SaveSession, TInv, TypeOK
  <2>6. request' \in [Workers -> Requests] /\ RequestInv'
    BY <1>4, NothingTyped, RequestTyped DEF IssueSession, Answer
  <2> QED BY <1>4, <2>5, <2>6 DEF IssueSession, TInv, TypeOK
<1> QED BY <1>1, <1>2, <1>3, <1>4 DEF LoginStep

LEMMA TypeStep == TInv /\ [Next]_vars => TInv'
<1> SUFFICES ASSUME TInv, [Next]_vars PROVE TInv'
  OBVIOUS
<1>1. CASE ProvisionStep
  <2>1. PICK p \in Provisions : Provision(p[1], p[2], p[3])
    BY <1>1 DEF ProvisionStep
  <2>2. p[1] \in Users /\ p[2] \in Orgs /\ p[3] \in Names
    OBVIOUS
  <2>3. users' \in [Users -> AppUsers] /\ invitations' \in [Users -> Invitations]
    BY <2>1, <2>2, CreateTyped DEF Provision, ProvisionCompanyOwner, Owner, Roles
  <2>4. organizations' \in [Orgs -> Organizations]
    BY <2>1, <2>2 DEF Provision, ProvisionCompanyOwner, Organizations, TInv, TypeOK
  <2> QED BY <2>1, <2>3, <2>4 DEF Provision, TInv, TypeOK, RequestInv
<1>2. ASSUME NEW w \in Workers, Abandon(w) PROVE TInv'
  BY <1>2, NothingTyped, RequestTyped DEF Abandon, Answer, TInv, TypeOK
<1>3. ASSUME NEW s \in Sessions, RevokeSession(s) \/ ExpireSession(s) PROVE TInv'
  <2>1. sessions' \in [Sessions -> AuthSessions]
    BY <1>3, RowTypes DEF RevokeSession, ExpireSession, SaveSession, AuthSessions, TInv, TypeOK
  <2> QED BY <1>3, <2>1 DEF RevokeSession, ExpireSession, TInv, TypeOK, RequestInv
<1>4. ASSUME NEW u \in Users, ExpireInvitation(u) \/ ExpireEnrollment(u) PROVE TInv'
  <2>1. invitations' \in [Users -> Invitations] /\ enrollments' \in [Users -> Enrollments]
    BY <1>4 DEF ExpireInvitation, ExpireEnrollment, Invitations, Enrollments, TInv, TypeOK
  <2> QED BY <1>4, <2>1 DEF ExpireInvitation, ExpireEnrollment, TInv, TypeOK, RequestInv
<1>5. CASE UNCHANGED vars
  BY <1>5 DEF vars, TInv, TypeOK, RequestInv
<1> QED BY <1>1, <1>2, <1>3, <1>4, <1>5, OwnerTypes, SetupTypes, LoginTypes DEF Next

LEMMA TypeInit == Init => TInv
BY NothingTyped DEF Init, TInv, TypeOK, RequestInv, Organizations, Invitations, Enrollments, Secrets,
    NoSession, AuthSessions

\* The user, invitation, enrolment and session tables and what a request has read of them
\* keep their types.
THEOREM TypeCorrect == Spec => []TypeOK
<1>1. TInv => TypeOK
  BY DEF TInv
<1> QED BY <1>1, TypeInit, TypeStep, PTL DEF Spec

----------------------------------------------------------------------------

(* Credentials and sessions.  A row's organization, role, password and     *)
(* TOTP secret are written once, each by the holder of the setup token, so *)
(* that a login's old copy of the row agrees with the table in them.       *)

\* The rows of a user agree: an address without a row has nothing, the password is the one
\* set up with the enrolment, and a TOTP secret comes from its confirmation.
UserOK(u) ==
    /\ ~Exists(u) => users[u] = NoUser /\ enrollments[u].state = "none"
    /\ users[u].password # None <=> enrollments[u].state # "none"
    /\ users[u].password = enrollments[u].secret
    /\ users[u].totp # None <=> enrollments[u].state = "consumed"
    /\ users[u].totp # None => users[u].totp = users[u].password
    /\ users[u].codes # {} => users[u].totp # None
    /\ invitations[u] # "none" => Exists(u)

\* A login has read a row of the user's that was active and has since kept organization,
\* role and credentials.
LoginOK(r) ==
    r.op \in {"spend", "issue"} =>
        /\ Exists(r.user) /\ r.row.org = users[r.user].org /\ r.row.role = users[r.user].role
        /\ r.row.password # None /\ r.row.password = users[r.user].password
        /\ r.row.totp # None => r.row.totp = users[r.user].totp
        /\ r.row.role \in PrivilegedRoles \/ r.op = "spend" => r.row.totp # None
        /\ ~r.row.disabled

\* The codes that a login writes back were handed out.
CodesOK(r) == r.op = "spend" => \A c \in r.row.codes : <<r.user, c[1]>> \in given

SetupInv == \A u \in Users : UserOK(u)
LoginInv == \A w \in Workers : LoginOK(request[w]) /\ CodesOK(request[w])
GivenInv == \A u \in Users, w \in Workers : <<u, w>> \in given => enrollments[u].state = "consumed"

IInv == SetupInv /\ LoginInv /\ GivenInv /\ SessionIsEarned /\ DeactivationRevokes /\ CodesShownOnce

\* A step of one request: it goes on with r, which is no login that it was not before.
Quiet == \A v \in Workers : request'[v] = request[v] \/ request'[v].op \notin {"spend", "issue"}

LEMMA QuietAnswer ==
    ASSUME TInv, NEW w \in Workers, NEW r, r.op \notin {"spend", "issue"}, Goto(w, r)
    PROVE  Quiet
BY DEF Quiet, Goto, TInv, TypeOK

\* Organization, role and credentials of a user with a password stay.
Kept(u) ==
    users[u].password # None =>
        /\ users'[u].role = users[u].role /\ users'[u].org = users[u].org
        /\ users'[u].password = users[u].password
        /\ users[u].totp # None => users'[u].totp = users[u].totp

\* A request that has read what it goes on with keeps the invariant.
LEMMA RequestStep ==
    ASSUME TInv, IInv, NEW w \in Workers, NEW r, LoginOK(r), CodesOK(r), Goto(w, r),
           UNCHANGED <<users, invitations, enrollments, sessions, given>>
    PROVE  IInv'
<1>1. LoginInv'
  <2> SUFFICES ASSUME NEW v \in Workers PROVE LoginOK(request[v])' /\ CodesOK(request[v])'
    BY DEF LoginInv
  <2>1. request'[v] = IF v = w THEN r ELSE request[v]
    BY DEF Goto, TInv, TypeOK
  <2>2. LoginOK(request[v]) /\ CodesOK(request[v])
    BY DEF IInv, LoginInv
  <2>3. CASE v = w
    BY <2>1, <2>3 DEF LoginOK, CodesOK, Exists
  <2>4. CASE v # w
    BY <2>1, <2>2, <2>4 DEF LoginOK, CodesOK, Exists
  <2> QED BY <2>3, <2>4
<1>2. SetupInv' /\ GivenInv'
  BY DEF IInv, SetupInv, UserOK, Exists, GivenInv
<1>3. SessionIsEarned' /\ DeactivationRevokes' /\ CodesShownOnce'
  BY DEF IInv, SessionIsEarned, DeactivationRevokes, CodesShownOnce, Live
<1> QED BY <1>1, <1>2, <1>3 DEF IInv

\* The logins under way keep their part of the invariant when the credentials are kept.
LEMMA LoginsKept ==
    ASSUME TInv, IInv, Quiet, given \subseteq given', \A u \in Users : Kept(u)
    PROVE  LoginInv'
<1> SUFFICES ASSUME NEW v \in Workers PROVE LoginOK(request[v])' /\ CodesOK(request[v])'
  BY DEF LoginInv
<1>1. CASE request'[v].op \in {"spend", "issue"}
  <2>1. request'[v] = request[v]
    BY <1>1 DEF Quiet
  <2>2. LoginOK(request[v]) /\ CodesOK(request[v])
    BY DEF IInv, LoginInv
  <2>3. request[v].user \in Users
    BY <1>1, <2>1, RowTypes DEF RequestOK
  <2>4. Kept(request[v].user)
    BY <2>3
  <2> QED BY <1>1, <2>1, <2>2, <2>4 DEF CodesOK, LoginOK, Exists, Kept
<1> QED BY <1>1 DEF LoginOK, CodesOK

\* So do the sessions; a confirmed enrolment stays confirmed.
LEMMA SessionsKept ==
    ASSUME TInv, IInv, \A u \in Users : Kept(u),
           \A u \in Users : enrollments[u].state = "consumed" => enrollments'[u].state = "consumed",
           \A s \in Sessions : \/ sessions'[s] = sessions[s]
                               \/ /\ sessions[s].state # "none"
                                  /\ sessions'[s] = [sessions[s] EXCEPT !.state = "over"]
    PROVE  SessionIsEarned'
<1> SUFFICES ASSUME NEW s \in Sessions, sessions'[s].state # "none"
             PROVE  LET u == sessions'[s].user IN
                    /\ u \in Users /\ users'[u].password # None
                    /\ sessions'[s].org = users'[u].org /\ sessions'[s].role = users'[u].role
                    /\ sessions'[s].role \in PrivilegedRoles =>
                          sessions'[s].mfa /\ enrollments'[u].state = "consumed"
                          /\ users'[u].totp = users'[u].password
  BY DEF SessionIsEarned
<1>1. /\ sessions[s].state # "none" /\ sessions'[s].user = sessions[s].user
      /\ sessions'[s].org = sessions[s].org /\ sessions'[s].role = sessions[s].role
      /\ sessions'[s].mfa = sessions[s].mfa
  BY RowTypes DEF AuthSessions
<1> DEFINE u == sessions[s].user
<1>2. /\ u \in Users /\ users[u].password # None
      /\ sessions[s].org = users[u].org /\ sessions[s].role = users[u].role
      /\ sessions[s].role \in PrivilegedRoles =>
            sessions[s].mfa /\ enrollments[u].state = "consumed" /\ users[u].totp = users[u].password
  BY <1>1 DEF IInv, SessionIsEarned
<1>3. Kept(u) /\ (enrollments[u].state = "consumed" => enrollments'[u].state = "consumed")
  BY <1>2
<1> HIDE DEF u
<1> QED BY <1>1, <1>2, <1>3 DEF u, Kept

\* A new user has no credentials, and no login or session of theirs is about.
LEMMA CreateStep ==
    ASSUME TInv, IInv, NEW u \in Users, NEW org \in Orgs \cup {None}, NEW role \in Roles,
           CreateUser(u, org, role), Quiet, UNCHANGED <<enrollments, sessions, given>>
    PROVE  IInv' /\ \A v \in Users : Kept(v)
<1> DEFINE row == [NoUser EXCEPT !.org = org, !.role = role]
<1>1. users[u] = NoUser /\ enrollments[u].state = "none" /\ UserOK(u)
  BY DEF IInv, SetupInv, UserOK, CreateUser
<1>2. \A v \in Users : users'[v] = IF v = u THEN row ELSE users[v]
  BY DEF CreateUser, TInv, TypeOK
<1>3. /\ row.role # "none" /\ row.password = None /\ row.totp = None /\ row.codes = {} /\ ~row.disabled
      /\ NoUser.password = None /\ NoUser.totp = None
  BY DEF NoUser, Roles, Owner
<1> HIDE DEF row
<1>4. \A v \in Users : Kept(v)
  BY <1>1, <1>2, <1>3 DEF Kept
<1>5. SetupInv'
  <2> SUFFICES ASSUME NEW v \in Users PROVE UserOK(v)'
    BY DEF SetupInv
  <2>1. UserOK(v)
    BY DEF IInv, SetupInv
  <2>2. invitations'[v] = IF v = u THEN "open" ELSE invitations[v]
    BY DEF CreateUser, TInv, TypeOK
  <2>3. CASE v = u
    BY <1>1, <1>2, <1>3, <2>2, <2>3 DEF UserOK, Exists
  <2> QED BY <1>2, <2>1, <2>2, <2>3 DEF UserOK, Exists
<1>6. LoginInv' /\ SessionIsEarned'
  BY <1>4, LoginsKept, SessionsKept
<1>7. GivenInv'
  BY DEF IInv, GivenInv
<1>8. DeactivationRevokes' /\ CodesShownOnce'
  BY <1>1, <1>2, <1>3 DEF IInv, SessionIsEarned, DeactivationRevokes, CodesShownOnce, Live
<1> QED BY <1>4, <1>5, <1>6, <1>7, <1>8 DEF IInv

\* Deactivation: the sessions that are there end with it.
LEMMA DeactivateStep ==
    ASSUME TInv, IInv, NEW w \in Workers, DeactivateMember(w)
    PROVE  IInv' /\ \A v \in Users : Kept(v)
<1> DEFINE u == request[w].user
<1>1. u \in Users /\ Exists(u)
  BY RowTypes DEF DeactivateMember, RequestOK, DeactivateUserAndRevokeSessions
<1>2. \A v \in Users : /\ users'[v].role = users[v].role /\ users'[v].org = users[v].org
                       /\ users'[v].password = users[v].password /\ users'[v].totp = users[v].totp
                       /\ users'[v].codes = users[v].codes
                       /\ v # u => users'[v] = users[v]
                       /\ ~Exists(v) => users'[v] = users[v]
  BY <1>1, RowTypes DEF DeactivateMember, DeactivateUserAndRevokeSessions, AppUsers, TInv, TypeOK, Exists
<1>3. UNCHANGED <<invitations, enrollments, given>> /\ Quiet
  <2>1. Answer(w) /\ UNCHANGED <<invitations, enrollments, given>>
    BY DEF DeactivateMember
  <2> QED BY <2>1, NothingTyped, QuietAnswer DEF Answer
<1>4. \A s \in Sessions :
         /\ \/ sessions'[s] = sessions[s]
            \/ sessions[s].state # "none" /\ sessions'[s] = [sessions[s] EXCEPT !.state = "over"]
         /\ sessions'[s].user = sessions[s].user /\ sessions'[s].late = sessions[s].late
         /\ sessions'[s].state = "live" => sessions[s].user # u /\ sessions[s].state = "live"
  BY RowTypes DEF DeactivateMember, DeactivateUserAndRevokeSessions, RevokeSessions, AuthSessions
<1> HIDE DEF u
<1>5. \A v \in Users : Kept(v)
  BY <1>2 DEF Kept
<1>6. SetupInv'
  BY <1>2, <1>3 DEF IInv, SetupInv, UserOK, Exists
<1>7. LoginInv' /\ SessionIsEarned'
  BY <1>3, <1>4, <1>5, LoginsKept, SessionsKept
<1>8. GivenInv' /\ CodesShownOnce'
  BY <1>2, <1>3 DEF IInv, GivenInv, CodesShownOnce
<1>9. DeactivationRevokes'
  <2> SUFFICES ASSUME NEW s \in Sessions, sessions'[s].state = "live", users'[sessions'[s].user].disabled
               PROVE  sessions'[s].late
    BY DEF DeactivationRevokes, Live
  <2>1. sessions[s].state = "live" /\ sessions'[s].user = sessions[s].user /\ sessions[s].user # u
    BY <1>4
  <2>2. sessions[s].user \in Users
    BY <2>1 DEF IInv, SessionIsEarned
  <2>3. users'[sessions[s].user] = users[sessions[s].user]
    BY <1>2, <2>1, <2>2
  <2>4. sessions[s].late
    BY <2>1, <2>3 DEF IInv, DeactivationRevokes, Live
  <2> QED BY <1>4, <2>4
<1> QED BY <1>5, <1>6, <1>7, <1>8, <1>9 DEF IInv

\* The setup token: the password is set where there was none.
LEMMA ActivateStep ==
    ASSUME TInv, IInv, NEW w \in Workers, ActivateSetupToken(w)
    PROVE  IInv' /\ \A v \in Users : Kept(v)
<1> DEFINE u == request[w].user
<1>1. u \in Users /\ enrollments[u].state = "none" /\ invitations[u] # "none"
  BY RowTypes DEF ActivateSetupToken, RequestOK, ConsumeSetupInvitation
<1>2. UserOK(u) /\ Exists(u) /\ users[u].password = None /\ users[u].totp = None /\ users[u].codes = {}
  BY <1>1 DEF IInv, SetupInv, UserOK
<1>3. Answer(w) /\ UNCHANGED <<sessions, given>> /\ Quiet
  <2>1. Answer(w) /\ UNCHANGED <<sessions, given>>
    BY DEF ActivateSetupToken
  <2> QED BY <2>1, NothingTyped, QuietAnswer DEF Answer
<1>4. \A v \in Users :
         /\ v # u => users'[v] = users[v] /\ enrollments'[v] = enrollments[v] /\ invitations'[v] = invitations[v]
         /\ users'[u].password = w /\ users'[u].totp = None /\ users'[u].codes = {}
         /\ users'[u].role = users[u].role /\ users'[u].disabled = users[u].disabled
         /\ enrollments'[u].state = "open" /\ enrollments'[u].secret = w
  BY <1>1, <1>2, RowTypes DEF ActivateSetupToken, ConsumeSetupInvitation, AppUsers, TInv, TypeOK
<1>5. w # None
  OBVIOUS
<1> HIDE DEF u
<1>6. \A v \in Users : Kept(v)
  BY <1>2, <1>4 DEF Kept
<1>7. SetupInv'
  <2> SUFFICES ASSUME NEW v \in Users PROVE UserOK(v)'
    BY DEF SetupInv
  <2>1. CASE v = u
    BY <1>1, <1>2, <1>4, <1>5, <2>1 DEF UserOK, Exists
  <2>2. CASE v # u
    BY <1>4, <2>2 DEF IInv, SetupInv, UserOK, Exists
  <2> QED BY <2>1, <2>2
<1>8. LoginInv' /\ SessionIsEarned'
  <2>1. \A v \in Users : enrollments[v].state = "consumed" => enrollments'[v].state = "consumed"
    BY <1>1, <1>4
  <2> QED BY <1>3, <1>6, <2>1, LoginsKept, SessionsKept
<1>9. GivenInv'
  BY <1>1, <1>3, <1>4 DEF IInv, GivenInv
<1>10. DeactivationRevokes' /\ CodesShownOnce'
  BY <1>1, <1>3, <1>4 DEF IInv, SessionIsEarned, DeactivationRevokes, CodesShownOnce, Live
<1> QED BY <1>6, <1>7, <1>8, <1>9, <1>10 DEF IInv

\* The first TOTP code: the secret and the recovery codes are set where there were none.
LEMMA ConfirmStep ==
    ASSUME TInv, IInv, NEW w \in Workers, ConfirmTotpEnrollment(w)
    PROVE  IInv' /\ \A v \in Users : Kept(v)
<1> DEFINE u == request[w].user
           batch == {w} \X (1..MaxCodes)
<1>1. u \in Users /\ enrollments[u].state \in {"open", "expired"}
  BY RowTypes DEF ConfirmTotpEnrollment, RequestOK, ConsumeTotpEnrollment
<1>2. UserOK(u) /\ Exists(u) /\ users[u].password # None /\ users[u].totp = None
      /\ enrollments[u].secret = users[u].password
  BY <1>1 DEF IInv, SetupInv, UserOK
<1>3. Quiet /\ UNCHANGED <<invitations, sessions>> /\ given' = given \cup {<<u, w>>}
  <2>1. Answer(w) /\ UNCHANGED <<invitations, sessions>> /\ given' = given \cup {<<u, w>>}
    BY DEF ConfirmTotpEnrollment
  <2> QED BY <2>1, NothingTyped, QuietAnswer DEF Answer
<1>4. users' = [users EXCEPT ![u] = [users[u] EXCEPT !.totp = enrollments[u].secret, !.codes = batch]]
  BY DEF ConfirmTotpEnrollment, ConsumeTotpEnrollment
<1>5. enrollments' = [enrollments EXCEPT ![u].state = "consumed"]
  BY DEF ConfirmTotpEnrollment, ConsumeTotpEnrollment
<1> HIDE DEF batch
<1>6. /\ users'[u].password = users[u].password /\ users'[u].totp = users[u].password
      /\ users'[u].codes = batch /\ users'[u].role = users[u].role /\ users'[u].org = users[u].org
      /\ users'[u].disabled = users[u].disabled
      /\ \A v \in Users \ {u} : users'[v] = users[v]
  BY <1>1, <1>2, <1>4, RowTypes DEF AppUsers, TInv, TypeOK
<1>7. /\ enrollments'[u].state = "consumed" /\ enrollments'[u].secret = enrollments[u].secret
      /\ \A v \in Users \ {u} : enrollments'[v] = enrollments[v]
  BY <1>1, <1>5 DEF Enrollments, TInv, TypeOK
<1> HIDE DEF u
<1>8. \A v \in Users : Kept(v)
  BY <1>2, <1>6 DEF Kept
<1>9. SetupInv'
  <2> SUFFICES ASSUME NEW v \in Users PROVE UserOK(v)'
    BY DEF SetupInv
  <2>1. CASE v = u
    BY <1>1, <1>2, <1>3, <1>6, <1>7, <2>1 DEF UserOK, Exists
  <2>2. CASE v # u
    BY <1>3, <1>6, <1>7, <2>2 DEF IInv, SetupInv, UserOK, Exists
  <2> QED BY <2>1, <2>2
<1>10. LoginInv' /\ SessionIsEarned'
  <2>1. \A v \in Users : enrollments[v].state = "consumed" => enrollments'[v].state = "consumed"
    BY <1>7
  <2> QED BY <1>3, <1>8, <2>1, LoginsKept, SessionsKept
<1>11. GivenInv'
  BY <1>3, <1>7 DEF IInv, GivenInv
<1>12. DeactivationRevokes'
  BY <1>1, <1>3, <1>6 DEF IInv, SessionIsEarned, DeactivationRevokes, Live
<1>13. CodesShownOnce'
  <2>1. \A v \in Workers : <<u, v>> \notin given
    BY <1>1 DEF IInv, GivenInv
  <2>2. \A c \in batch : c[1] = w
    BY DEF batch
  <2> SUFFICES ASSUME NEW x \in Users
               PROVE  /\ \A v1, v2 \in Workers : {<<x, v1>>, <<x, v2>>} \subseteq given' => v1 = v2
                      /\ \A c \in users'[x].codes : <<x, c[1]>> \in given'
    BY DEF CodesShownOnce
  <2>3. CASE x = u
    BY <1>3, <1>6, <2>1, <2>2, <2>3
  <2>4. CASE x # u
    BY <1>3, <1>6, <2>4 DEF IInv, CodesShownOnce
  <2> QED BY <2>3, <2>4
<1> QED BY <1>8, <1>9, <1>10, <1>11, <1>12, <1>13 DEF IInv

\* A recovery code is spent: the old row is written back, without the code.
LEMMA SpendStep ==
    ASSUME TInv, IInv, NEW w \in Workers, SpendCode(w)
    PROVE  IInv' /\ \A v \in Users : Kept(v)
<1> DEFINE u == request[w].user
           row == request[w].row
           r == [request[w] EXCEPT !.op = "issue", !.code = NoCode]
<1>1. request[w] \in Requests /\ request[w].op = "spend" /\ u \in Users
  BY RowTypes DEF SpendCode, RequestOK
<1>2. LoginOK(request[w]) /\ CodesOK(request[w])
  BY DEF IInv, LoginInv
<1>3. /\ Exists(u) /\ row.org = users[u].org /\ row.role = users[u].role
      /\ row.password # None /\ row.password = users[u].password
      /\ row.totp # None /\ row.totp = users[u].totp /\ ~row.disabled
      /\ \A c \in row.codes : <<u, c[1]>> \in given
  BY <1>1, <1>2 DEF LoginOK, CodesOK
<1>4. UNCHANGED <<invitations, enrollments, sessions, given>>
  BY DEF SpendCode
<1>5. \A v \in Users : users'[v] = IF v = u THEN row ELSE users[v]
  BY <1>1 DEF SpendCode, SaveUser, TInv, TypeOK
<1>6. /\ r.op = "issue" /\ r.user = u /\ r.row = row
      /\ \A v \in Workers : request'[v] = IF v = w THEN r ELSE request[v]
  BY <1>1 DEF SpendCode, Goto, Requests, TInv, TypeOK
<1> HIDE DEF r, row, u
<1>7. \A v \in Users : Kept(v)
  BY <1>3, <1>5 DEF Kept
<1>8. SetupInv'
  <2> SUFFICES ASSUME NEW v \in Users PROVE UserOK(v)'
    BY DEF SetupInv
  <2>0. UserOK(v)
    BY DEF IInv, SetupInv
  <2>1. CASE v = u
    BY <1>1, <1>3, <1>4, <1>5, <2>0, <2>1 DEF UserOK, Exists
  <2>2. CASE v # u
    BY <1>4, <1>5, <2>0, <2>2 DEF UserOK, Exists
  <2> QED BY <2>1, <2>2
<1>9. LoginInv'
  <2> SUFFICES ASSUME NEW v \in Workers PROVE LoginOK(request[v])' /\ CodesOK(request[v])'
    BY DEF LoginInv
  <2>1. CASE v = w
    BY <1>1, <1>3, <1>5, <1>6, <2>1 DEF LoginOK, CodesOK, Exists
  <2>2. CASE v # w /\ request[v].op \in {"spend", "issue"}
    <3>1. request'[v] = request[v] /\ LoginOK(request[v]) /\ CodesOK(request[v])
      BY <1>6, <2>2 DEF IInv, LoginInv
    <3>2. request[v].user \in Users
      BY <2>2, RowTypes DEF RequestOK
    <3>3. Kept(request[v].user)
      BY <1>7, <3>2
    <3> QED BY <1>4, <2>2, <3>1, <3>3 DEF LoginOK, CodesOK, Exists, Kept
  <2>3. CASE v # w /\ request[v].op \notin {"spend", "issue"}
    BY <1>6, <2>3 DEF LoginOK, CodesOK
  <2> QED BY <2>1, <2>2, <2>3
<1>10. SessionIsEarned'
  BY <1>4, <1>7, SessionsKept
<1>11. GivenInv'
  BY <1>4 DEF IInv, GivenInv
<1>12. DeactivationRevokes'
  <2> SUFFICES ASSUME NEW s \in Sessions, sessions[s].state = "live", users'[sessions[s].user].disabled
               PROVE  sessions[s].late
    BY <1>4 DEF DeactivationRevokes, Live
  <2>1. sessions[s].user \in Users
    BY DEF IInv, SessionIsEarned
  <2> QED BY <1>3, <1>5, <2>1 DEF IInv, DeactivationRevokes, Live
<1>13. CodesShownOnce'
  BY <1>3, <1>4, <1>5 DEF IInv, CodesShownOnce
<1> QED BY <1>7, <1>8, <1>9, <1>10, <1>11, <1>12, <1>13 DEF IInv

\* A session is what the login has read, and is late if the user was deactivated meanwhile.
LEMMA IssueStep ==
    ASSUME TInv, IInv, NEW w \in Workers, NEW s \in Sessions, IssueSession(w, s)
    PROVE  IInv'
<1> DEFINE u == request[w].user
           row == request[w].row
           new == [state |-> "live", user |-> u, org |-> row.org, role |-> row.role,
                   mfa |-> NeedsSecondFactor(row), late |-> users[u].disabled]
<1>1. request[w].op = "issue" /\ u \in Users
  BY RowTypes DEF IssueSession, RequestOK
<1>2. LoginOK(request[w])
  BY DEF IInv, LoginInv
<1>3. /\ Exists(u) /\ row.org = users[u].org /\ row.role = users[u].role
      /\ users[u].password # None
      /\ row.role \in PrivilegedRoles => users[u].totp # None
  BY <1>1, <1>2 DEF LoginOK
<1>4. UNCHANGED <<users, invitations, enrollments, given>> /\ Quiet
  <2>1. Answer(w) /\ UNCHANGED <<users, invitations, enrollments, given>>
    BY DEF IssueSession
  <2> QED BY <2>1, NothingTyped, QuietAnswer DEF Answer
<1>5. \A x \in Sessions : sessions'[x] = IF x = s THEN new ELSE sessions[x]
  BY DEF IssueSession, SaveSession, TInv, TypeOK
<1>6. /\ new.state = "live" /\ new.user = u /\ new.org = row.org /\ new.role = row.role
      /\ row.role \in PrivilegedRoles => new.mfa
      /\ users[u].disabled => new.late
  BY DEF NeedsSecondFactor
<1> HIDE DEF new, row, u
<1>7. UserOK(u)
  BY <1>1 DEF IInv, SetupInv
<1>8. SetupInv' /\ GivenInv' /\ CodesShownOnce'
  BY <1>4 DEF IInv, SetupInv, UserOK, Exists, GivenInv, CodesShownOnce
<1>9. LoginInv'
  BY <1>4, LoginsKept DEF Kept
<1>10. SessionIsEarned'
  BY <1>1, <1>3, <1>4, <1>5, <1>6, <1>7 DEF IInv, SessionIsEarned, UserOK
<1>11. DeactivationRevokes'
  BY <1>4, <1>5, <1>6 DEF IInv, DeactivationRevokes, Live
<1> QED BY <1>8, <1>9, <1>10, <1>11 DEF IInv

\* A session ends.
LEMMA SessionEndStep ==
    ASSUME TInv, IInv, NEW s \in Sessions, RevokeSession(s) \/ ExpireSession(s)
    PROVE  IInv' /\ UNCHANGED users
<1>1. UNCHANGED <<users, invitations, enrollments, request, given>>
  BY DEF RevokeSession, ExpireSession
<1>2. /\ sessions[s].state = "live"
      /\ \A x \in Sessions : sessions'[x] = IF x = s THEN [sessions[s] EXCEPT !.state = "over"] ELSE sessions[x]
  BY DEF RevokeSession, ExpireSession, SaveSession, Live, TInv, TypeOK
<1>3. \A x \in Sessions : sessions'[x].state = "live" => sessions'[x] = sessions[x]
  BY <1>2, RowTypes DEF AuthSessions
<1>4. SetupInv' /\ GivenInv' /\ CodesShownOnce'
  BY <1>1 DEF IInv, SetupInv, UserOK, Exists, GivenInv, CodesShownOnce
<1>5. LoginInv' /\ SessionIsEarned'
  BY <1>1, <1>2, LoginsKept, SessionsKept DEF Kept, Quiet
<1>6. DeactivationRevokes'
  BY <1>1, <1>3 DEF IInv, DeactivationRevokes, Live
<1> QED BY <1>1, <1>4, <1>5, <1>6 DEF IInv

\* An invitation or an enrolment expires; a confirmed one does not.
LEMMA ExpiryStep ==
    ASSUME TInv, IInv, NEW u \in Users, ExpireInvitation(u) \/ ExpireEnrollment(u)
    PROVE  IInv' /\ UNCHANGED users
<1>1. UNCHANGED <<users, sessions, request, given>>
  BY DEF ExpireInvitation, ExpireEnrollment
<1>2. \A v \in Users :
         /\ invitations'[v] = "none" <=> invitations[v] = "none"
         /\ enrollments'[v].state = "none" <=> enrollments[v].state = "none"
         /\ enrollments'[v].state = "consumed" <=> enrollments[v].state = "consumed"
         /\ enrollments'[v].secret = enrollments[v].secret
  BY DEF ExpireInvitation, ExpireEnrollment, Enrollments, TInv, TypeOK
<1>3. SetupInv'
  BY <1>1, <1>2 DEF IInv, SetupInv, UserOK, Exists
<1>4. LoginInv' /\ SessionIsEarned'
  BY <1>1, <1>2, LoginsKept, SessionsKept DEF Kept, Quiet
<1>5. GivenInv' /\ CodesShownOnce' /\ DeactivationRevokes'
  BY <1>1, <1>2 DEF IInv, GivenInv, CodesShownOnce, DeactivationRevokes, Live
<1> QED BY <1>1, <1>3, <1>4, <1>5 DEF IInv

\* Every step keeps the invariant and the credentials.
LEMMA InductiveStep ==
    ASSUME TInv, IInv, [Next]_vars
    PROVE  IInv' /\ \A v \in Users : Kept(v)
<1>0. UNCHANGED users => \A v \in Users : Kept(v)
  BY DEF Kept
<1>1. CASE ProvisionStep
  <2>1. PICK p \in Provisions : Provision(p[1], p[2], p[3])
    BY <1>1 DEF ProvisionStep
  <2>2. p[1] \in Users /\ p[2] \in Orgs
    OBVIOUS
  <2>3. Owner \in Roles /\ CreateUser(p[1], p[2], Owner)
    BY <2>1 DEF Provision, ProvisionCompanyOwner, Roles
  <2>4. Quiet /\ UNCHANGED <<enrollments, sessions, given>>
    BY <2>1 DEF Provision, Quiet
  <2> QED BY <2>2, <2>3, <2>4, CreateStep
<1>2. ASSUME NEW w \in Workers, OwnerStep(w) PROVE IInv' /\ \A v \in Users : Kept(v)
  <2>0. request[w] \in Requests /\ RequestOK(request[w])
    BY RowTypes
  <2>1. ASSUME NEW r, Goto(w, r), r.op \notin {"spend", "issue"},
               UNCHANGED <<users, invitations, enrollments, sessions, given>>
        PROVE  IInv' /\ \A v \in Users : Kept(v)
    BY <1>0, <2>1, RequestStep DEF LoginOK, CodesOK
  <2>2. ASSUME NEW s \in Sessions, Authenticate(w, s) PROVE IInv' /\ \A v \in Users : Kept(v)
    <3> DEFINE r == [Idle EXCEPT !.op = "authenticated",
                  !.by = [user |-> sessions[s].user, org |-> sessions[s].org, role |-> sessions[s].role]]
    <3>1. r.op = "authenticated"
      BY DEF Idle
    <3>2. Goto(w, r) /\ UNCHANGED <<users, invitations, enrollments, sessions, given>>
      BY <2>2 DEF Authenticate
    <3> HIDE DEF r
    <3> QED BY <2>1, <3>1, <3>2
  <2>3. ASSUME NEW u \in Users, NEW role \in InvitableRoles, Invite(w, u, role)
        PROVE  IInv' /\ \A v \in Users : Kept(v)
    <3>1. request[w].by.org \in Orgs \cup {None} /\ role \in Roles
      BY <2>0 DEF Requests, Principals, InvitableRoles, Roles
    <3>2. Answer(w) /\ CreateUser(u, request[w].by.org, role) /\ UNCHANGED <<enrollments, sessions, given>>
      BY <2>3 DEF Invite
    <3>3. Quiet
      BY <3>2, NothingTyped, QuietAnswer DEF Answer
    <3> QED BY <3>1, <3>2, <3>3, CreateStep
  <2>4. ASSUME NEW n \in Names, Rename(w, n) PROVE IInv' /\ \A v \in Users : Kept(v)
    BY <2>1, <2>4, NothingTyped DEF Rename, Answer
  <2>5. ASSUME NEW u \in Users, DeactivateRead(w, u) PROVE IInv' /\ \A v \in Users : Kept(v)
    <3> DEFINE r == [request[w] EXCEPT !.op = "deactivate", !.user = u]
    <3>1. r.op = "deactivate"
      BY <2>0 DEF Requests
    <3>2. Goto(w, r) /\ UNCHANGED <<users, invitations, enrollments, sessions, given>>
      BY <2>5 DEF DeactivateRead
    <3> HIDE DEF r
    <3> QED BY <2>1, <3>1, <3>2
  <2> QED BY <1>2, <2>2, <2>3, <2>4, <2>5, DeactivateStep DEF OwnerStep
<1>3. ASSUME NEW w \in Workers, SetupStep(w) PROVE IInv' /\ \A v \in Users : Kept(v)
  <2>1. ASSUME NEW u \in Users, ActivateRead(w, u) \/ ConfirmRead(w, u)
        PROVE  IInv' /\ \A v \in Users : Kept(v)
    <3>1. PICK op \in {"activate", "confirm"} : Goto(w, [Idle EXCEPT !.op = op, !.user = u])
      BY <2>1 DEF ActivateRead, ConfirmRead
    <3> DEFINE r == [Idle EXCEPT !.op = op, !.user = u]
    <3>2. r.op \notin {"spend", "issue"} /\ Goto(w, r)
      BY <3>1 DEF Idle
    <3> HIDE DEF r
    <3>3. LoginOK(r) /\ CodesOK(r)
      BY <3>2 DEF LoginOK, CodesOK
    <3>4. UNCHANGED <<users, invitations, enrollments, sessions, given>>
      BY <2>1 DEF ActivateRead, ConfirmRead
    <3> QED BY <1>0, <3>2, <3>3, <3>4, RequestStep
  <2> QED BY <1>3, <2>1, ActivateStep, ConfirmStep DEF SetupStep
<1>4. ASSUME NEW w \in Workers, LoginStep(w) PROVE IInv' /\ \A v \in Users : Kept(v)
  <2>1. ASSUME NEW u \in Users, Login(w, u) PROVE IInv' /\ \A v \in Users : Kept(v)
    <3> DEFINE r == [Idle EXCEPT !.op = "issue", !.user = u, !.row = users[u]]
    <3>1. r.op = "issue" /\ r.user = u /\ r.row = users[u]
      BY DEF Idle
    <3>2. Goto(w, r) /\ UNCHANGED <<users, invitations, enrollments, sessions, given>>
      BY <2>1 DEF Login
    <3> HIDE DEF r
    <3>3. UserOK(u)
      BY DEF IInv, SetupInv
    <3>4. Exists(u)
      BY <2>1, <3>3 DEF Login, PasswordAccepted, UserOK, NoUser
    <3>5. LoginOK(r) /\ CodesOK(r)
      BY <2>1, <3>1, <3>4 DEF Login, PasswordAccepted, NeedsSecondFactor, LoginOK, CodesOK
    <3> QED BY <1>0, <3>2, <3>5, RequestStep
  <2>2. ASSUME NEW u \in Users, NEW c \in Codes, RecoveryLogin(w, u, c)
        PROVE  IInv' /\ \A v \in Users : Kept(v)
    <3> DEFINE row == [users[u] EXCEPT !.codes = @ \ {c}]
               r == [Idle EXCEPT !.op = "spend", !.user = u, !.code = c, !.row = row]
    <3>1. r.op = "spend" /\ r.user = u /\ r.row = row
      BY DEF Idle
    <3>2. Goto(w, r) /\ UNCHANGED <<users, invitations, enrollments, sessions, given>>
      BY <2>2 DEF RecoveryLogin
    <3>3. /\ row.org = users[u].org /\ row.role = users[u].role /\ row.password = users[u].password
          /\ row.totp = users[u].totp /\ row.disabled = users[u].disabled /\ row.codes \subseteq users[u].codes
      BY RowTypes DEF AppUsers
    <3> HIDE DEF r, row
    <3>4. UserOK(u) /\ \A x \in users[u].codes : <<u, x[1]>> \in given
      BY DEF IInv, SetupInv, CodesShownOnce
    <3>5. Exists(u) /\ users[u].totp # None
      BY <2>2, <3>4 DEF RecoveryLogin, PasswordAccepted, UserOK, NoUser
    <3>6. LoginOK(r) /\ CodesOK(r)
      BY <2>2, <3>1, <3>3, <3>4, <3>5 DEF RecoveryLogin, PasswordAccepted, LoginOK, CodesOK
    <3> QED BY <1>0, <3>2, <3>6, RequestStep
  <2>3. ASSUME NEW s \in Sessions, IssueSession(w, s) PROVE IInv' /\ \A v \in Users : Kept(v)
    BY <1>0, <2>3, IssueStep DEF IssueSession
  <2> QED BY <1>4, <2>1, <2>2, <2>3, SpendStep DEF LoginStep
<1>5. ASSUME NEW w \in Workers, Abandon(w) PROVE IInv' /\ \A v \in Users : Kept(v)
  BY <1>0, <1>5, NothingTyped, RequestStep DEF Abandon, Answer, LoginOK, CodesOK
<1>6. CASE UNCHANGED vars
  <2>1. SetupInv' /\ LoginInv' /\ GivenInv'
    BY <1>6 DEF vars, IInv, SetupInv, UserOK, LoginInv, LoginOK, CodesOK, Exists, GivenInv
  <2>2. SessionIsEarned' /\ DeactivationRevokes' /\ CodesShownOnce'
    BY <1>6 DEF vars, IInv, SessionIsEarned, DeactivationRevokes, CodesShownOnce, Live
  <2> QED BY <1>0, <1>6, <2>1, <2>2 DEF vars, IInv
<1>7. ASSUME NEW s \in Sessions, RevokeSession(s) \/ ExpireSession(s) PROVE IInv' /\ \A v \in Users : Kept(v)
  BY <1>0, <1>7, SessionEndStep
<1>8. ASSUME NEW u \in Users, ExpireInvitation(u) \/ ExpireEnrollment(u) PROVE IInv' /\ \A v \in Users : Kept(v)
  BY <1>0, <1>8, ExpiryStep
<1> QED BY <1>1, <1>2, <1>3, <1>4, <1>5, <1>6, <1>7, <1>8 DEF Next

LEMMA InvariantInit == Init => IInv
<1> SUFFICES ASSUME Init PROVE IInv
  OBVIOUS
<1>1. SetupInv /\ GivenInv
  BY DEF Init, SetupInv, UserOK, Exists, NoUser, GivenInv
<1>2. LoginInv
  BY NothingTyped DEF Init, LoginInv, LoginOK, CodesOK
<1>3. SessionIsEarned /\ DeactivationRevokes /\ CodesShownOnce
  BY DEF Init, SessionIsEarned, DeactivationRevokes, Live, CodesShownOnce, NoSession, NoUser
<1> QED BY <1>1, <1>2, <1>3 DEF IInv

LEMMA Invariant == Spec => [](TInv /\ IInv)
<1>1. TInv /\ IInv /\ [Next]_vars => IInv'
  BY InductiveStep
<1> QED BY <1>1, TypeInit, TypeStep, InvariantInit, PTL DEF Spec

\* Whatever a login raced with, its session speaks for the organization and role of its
\* user, and a privileged one needs a confirmed TOTP enrolment.
THEOREM SessionsEarned == Spec => []SessionIsEarned
BY Invariant, PTL DEF IInv

\* Deactivation leaves none of the sessions that it found.
THEOREM DeactivationEndsSessions == Spec => []DeactivationRevokes
BY Invariant, PTL DEF IInv

\* One confirmation hands out the codes that open the account.
THEOREM CodesShown == Spec => []CodesShownOnce
BY Invariant, PTL DEF IInv

\* Password and TOTP secret are never changed once they are set.
THEOREM CredentialsFixed == Spec => CredentialsSetOnce
<1> DEFINE A == \A u \in Users :
                   /\ users[u].password # None => users'[u].password = users[u].password
                   /\ users[u].totp # None => users'[u].totp = users[u].totp
<1>1. TInv /\ IInv /\ [Next]_vars => A
  <2> SUFFICES ASSUME TInv, IInv, [Next]_vars, NEW u \in Users
               PROVE  /\ users[u].password # None => users'[u].password = users[u].password
                      /\ users[u].totp # None => users'[u].totp = users[u].totp
    OBVIOUS
  <2>1. Kept(u) /\ UserOK(u)
    BY InductiveStep DEF IInv, SetupInv
  <2> QED BY <2>1 DEF Kept, UserOK
<1> QED BY <1>1, Invariant, PTL DEF Spec, CredentialsSetOnce

\* A step that begins no login and writes no session leaves a user who is out as they are,
\* if it does not write an active row of theirs.
LEMMA OutKept ==
    ASSUME TInv, NEW u \in Users, Out(u), Quiet,
           users'[u].role = users[u].role, users'[u].disabled,
           \A s \in Sessions : sessions'[s].state = "live" => sessions'[s] = sessions[s]
    PROVE  Out(u)' /\ LiveSessions(u)' \subseteq LiveSessions(u)
<1>1. InFlight(u)' = {}
  BY DEF Out, InFlight, Quiet
<1>2. Exists(u)' /\ users'[u].disabled
  BY DEF Out, Exists
<1>3. LiveSessions(u)' \subseteq LiveSessions(u)
  BY DEF LiveSessions, Live
<1> QED BY <1>1, <1>2, <1>3 DEF Out

\* Once no login that had read the active row is under way, a deactivated member stays out:
\* no login begins, no old row is written back and no session is added.
THEOREM DeactivatedStayOut == Spec => DeactivationDrains
<1> DEFINE A == \A u \in Users : Out(u) => Out(u)' /\ LiveSessions(u)' \subseteq LiveSessions(u)
<1>1. TInv /\ [Next]_vars => A
  <2> SUFFICES ASSUME TInv, [Next]_vars, NEW u \in Users, Out(u)
               PROVE  Out(u)' /\ LiveSessions(u)' \subseteq LiveSessions(u)
    OBVIOUS
  <2> DEFINE Stays == Out(u)' /\ LiveSessions(u)' \subseteq LiveSessions(u)
  <2>0. /\ users[u].role # "none" /\ users[u].disabled
        /\ \A w \in Workers : request[w].op \in {"spend", "issue"} => request[w].user # u
    BY DEF Out, Exists, InFlight
  <2>1. ASSUME Quiet, UNCHANGED <<users, sessions>> PROVE Stays
    BY <2>0, <2>1, OutKept
  <2>2. ASSUME NEW x, NEW org, NEW role, CreateUser(x, org, role), Quiet, UNCHANGED sessions
        PROVE  Stays
    <3>1. users'[u] = users[u]
      BY <2>0, <2>2 DEF CreateUser, Exists, TInv, TypeOK
    <3> QED BY <2>0, <2>2, <3>1, OutKept
  <2>3. ASSUME NEW w \in Workers, NEW r, Goto(w, r), r.op \notin {"spend", "issue"} PROVE Quiet
    BY <2>3, QuietAnswer
  <2>4. CASE ProvisionStep
    <3>1. PICK p \in Provisions : Provision(p[1], p[2], p[3])
      BY <2>4 DEF ProvisionStep
    <3> QED BY <2>2, <3>1 DEF Provision, ProvisionCompanyOwner, Quiet
  <2>5. ASSUME NEW w \in Workers, OwnerStep(w) PROVE Stays
    <3>0. request[w] \in Requests
      BY RowTypes
    <3>1. ASSUME NEW s \in Sessions, Authenticate(w, s) PROVE Stays
      <4>1. Quiet
        BY <2>3, <3>1 DEF Authenticate, Idle
      <4> QED BY <2>1, <3>1, <4>1 DEF Authenticate
    <3>2. ASSUME NEW x \in Users, NEW role \in InvitableRoles, Invite(w, x, role) PROVE Stays
      BY <2>2, <2>3, <3>2, NothingTyped DEF Invite, Answer
    <3>3. ASSUME NEW n \in Names, Rename(w, n) PROVE Stays
      BY <2>1, <2>3, <3>3, NothingTyped DEF Rename, Answer
    <3>4. ASSUME NEW x \in Users, DeactivateRead(w, x) PROVE Stays
      <4>1. Quiet
        BY <2>3, <3>0, <3>4 DEF DeactivateRead, Requests
      <4> QED BY <2>1, <3>4, <4>1 DEF DeactivateRead
    <3>5. CASE DeactivateMember(w)
      <4>1. Quiet
        BY <2>3, <3>5, NothingTyped DEF DeactivateMember, Answer
      <4>2. users'[u].role = users[u].role /\ users'[u].disabled
        BY <2>0, <3>5, RowTypes DEF DeactivateMember, DeactivateUserAndRevokeSessions, AppUsers, TInv, TypeOK
      <4>3. \A s \in Sessions : sessions'[s].state = "live" => sessions'[s] = sessions[s]
        BY <3>5, RowTypes DEF DeactivateMember, DeactivateUserAndRevokeSessions, RevokeSessions, AuthSessions
      <4> QED BY <4>1, <4>2, <4>3, OutKept
    <3> QED BY <2>5, <3>1, <3>2, <3>3, <3>4, <3>5 DEF OwnerStep
  <2>6. ASSUME NEW w \in Workers, SetupStep(w) PROVE Stays
    <3>1. ASSUME NEW x \in Users, ActivateRead(w, x) \/ ConfirmRead(w, x) PROVE Stays
      <4>1. Quiet
        BY <2>3, <3>1 DEF ActivateRead, ConfirmRead, Idle
      <4> QED BY <2>1, <3>1, <4>1 DEF ActivateRead, ConfirmRead
    <3>2. CASE ActivateSetupToken(w)
      <4>1. Quiet /\ UNCHANGED sessions
        BY <2>3, <3>2, NothingTyped DEF ActivateSetupToken, Answer
      <4>2. users'[u].role = users[u].role /\ users'[u].disabled
        BY <2>0, <3>2, RowTypes DEF ActivateSetupToken, ConsumeSetupInvitation, AppUsers, TInv, TypeOK
      <4> QED BY <4>1, <4>2, OutKept
    <3>3. CASE ConfirmTotpEnrollment(w)
      <4>1. Quiet /\ UNCHANGED sessions
        BY <2>3, <3>3, NothingTyped DEF ConfirmTotpEnrollment, Answer
      <4>2. users'[u].role = users[u].role /\ users'[u].disabled
        <5> DEFINE x == request[w].user
                   batch == {w} \X (1..MaxCodes)
                   row == [users[x] EXCEPT !.totp = enrollments[x].secret, !.codes = batch]
        <5>1. x \in Users /\ users' = [users EXCEPT ![x] = row]
          BY <3>3, RowTypes DEF ConfirmTotpEnrollment, ConsumeTotpEnrollment, RequestOK
        <5> HIDE DEF batch
        <5>2. row.role = users[x].role /\ row.disabled = users[x].disabled
          BY <5>1, RowTypes DEF AppUsers
        <5> HIDE DEF row, x
        <5> QED BY <2>0, <5>1, <5>2 DEF TInv, TypeOK
      <4> QED BY <4>1, <4>2, OutKept
    <3> QED BY <2>6, <3>1, <3>2, <3>3 DEF SetupStep
  <2>7. ASSUME NEW w \in Workers, LoginStep(w) PROVE Stays
    <3>1. ASSUME NEW x \in Users, Login(w, x) \/ \E c \in Codes : RecoveryLogin(w, x, c)
          PROVE  Stays
      <4>1. x # u /\ UNCHANGED <<users, sessions>>
        BY <2>0, <3>1 DEF Login, RecoveryLogin, PasswordAccepted
      <4>2. InFlight(u)' = {}
        <5>1. \E r : r.user = x /\ Goto(w, r)
          <6>1. CASE Login(w, x)
            <7> DEFINE r == [Idle EXCEPT !.op = "issue", !.user = x, !.row = users[x]]
            <7>1. r.user = x
              BY DEF Idle
            <7> QED BY <6>1, <7>1 DEF Login
          <6>2. ASSUME NEW c \in Codes, RecoveryLogin(w, x, c) PROVE \E r : r.user = x /\ Goto(w, r)
            <7> DEFINE r == [Idle EXCEPT !.op = "spend", !.user = x, !.code = c,
                               !.row = [users[x] EXCEPT !.codes = @ \ {c}]]
            <7>1. r.user = x
              BY DEF Idle
            <7> QED BY <6>2, <7>1 DEF RecoveryLogin
          <6> QED BY <3>1, <6>1, <6>2
        <5>2. PICK r : r.user = x /\ Goto(w, r)
          BY <5>1
        <5> QED BY <2>0, <4>1, <5>2 DEF InFlight, Goto, TInv, TypeOK
      <4> QED BY <2>0, <4>1, <4>2 DEF Out, LiveSessions, Live, Exists
    <3>2. CASE SpendCode(w)
      <4>1. request[w].user # u /\ UNCHANGED sessions
        BY <2>0, <3>2 DEF SpendCode
      <4>2. users'[u] = users[u]
        BY <3>2, <4>1 DEF SpendCode, SaveUser, TInv, TypeOK
      <4>3. InFlight(u)' = {}
        <5> DEFINE r == [request[w] EXCEPT !.op = "issue", !.code = NoCode]
        <5>1. r.user # u
          BY <4>1, RowTypes DEF Requests
        <5> HIDE DEF r
        <5>2. \A v \in Workers : request'[v] = IF v = w THEN r ELSE request[v]
          BY <3>2 DEF r, SpendCode, Goto, TInv, TypeOK
        <5> QED BY <2>0, <5>1, <5>2 DEF InFlight
      <4> QED BY <2>0, <4>1, <4>2, <4>3 DEF Out, LiveSessions, Live, Exists
    <3>3. ASSUME NEW s \in Sessions, IssueSession(w, s) PROVE Stays
      <4>1. request[w].user # u /\ UNCHANGED users
        BY <2>0, <3>3 DEF IssueSession
      <4>2. Quiet
        BY <2>3, <3>3, NothingTyped DEF IssueSession, Answer
      <4>3. InFlight(u)' = {}
        BY <2>0, <4>2 DEF InFlight, Quiet
      <4>4. LiveSessions(u)' \subseteq LiveSessions(u)
        BY <3>3, <4>1 DEF IssueSession, SaveSession, LiveSessions, Live, TInv, TypeOK
      <4> QED BY <2>0, <4>1, <4>3, <4>4 DEF Out, Exists
    <3> QED BY <2>7, <3>1, <3>2, <3>3 DEF LoginStep
  <2>8. ASSUME NEW w \in Workers, Abandon(w) PROVE Stays
    BY <2>1, <2>3, <2>8, NothingTyped DEF Abandon, Answer
  <2>9. ASSUME NEW s \in Sessions, RevokeSession(s) \/ ExpireSession(s) PROVE Stays
    <3>1. Quiet /\ UNCHANGED users
      BY <2>9 DEF RevokeSession, ExpireSession, Quiet
    <3>2. \A x \in Sessions : sessions'[x].state = "live" => sessions'[x] = sessions[x]
      BY <2>9, RowTypes DEF RevokeSession, ExpireSession, SaveSession, AuthSessions, TInv, TypeOK
    <3> QED BY <2>0, <3>1, <3>2, OutKept
  <2>10. ASSUME NEW x \in Users, ExpireInvitation(x) \/ ExpireEnrollment(x) PROVE Stays
    BY <2>1, <2>10 DEF ExpireInvitation, ExpireEnrollment, Quiet
  <2>11. CASE UNCHANGED vars
    BY <2>1, <2>11 DEF vars, Quiet
  <2> QED BY <2>4, <2>5, <2>6, <2>7, <2>8, <2>9, <2>10, <2>11 DEF Next
<1> QED BY <1>1, Invariant, PTL DEF Spec, DeactivationDrains
=============================================================================
