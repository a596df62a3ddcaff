------------------------------ MODULE AdminAuth ------------------------------
(***************************************************************************)
(* Administrators and their sessions: admin.auth.controller.ts and         *)
(* administrator.controller.ts over admin.auth.service.ts and              *)
(* administrator.service.ts, with the guards in front of them.             *)
(*                                                                         *)
(* Steps, transactions, hashes, credentials and ids are modelled as in     *)
(* UserAuth.  What is particular here: any administrator may rename any    *)
(* other and set the other's password, in one statement that asks for no   *)
(* proof, while the other logs in, refreshes or changes that password.     *)
(***************************************************************************)
EXTENDS Naturals, Sequences

CONSTANTS
    Names,          \* usernames
    Root,           \* the administrator there is at the start
    Requests,       \* slots for the requests in progress
    None,           \* absent value
    MaxCalls        \* BOUND: calls begun in a behaviour

ASSUME AdminAssumption ==
    /\ Root \in Names
    /\ None \notin Names
    /\ MaxCalls \in Nat

VARIABLES
    admins,         \* administrator
    sessions,       \* administrator_session
    credentials,    \* what login and refresh handed out
    requests,       \* handlers in progress
    hashes,         \* password hashes written so far
    calls           \* calls begun

vars == <<admins, sessions, credentials, requests, hashes, calls>>

-----------------------------------------------------------------------------
(* Rows and records.                                                       *)

AdminRows == [username : Names, hash : Nat, isActive : BOOLEAN]

SessionRows == [adminId : Nat, credential : Nat, revoked : BOOLEAN, expired : BOOLEAN]

CredentialRows == [session : Nat, jwt : Nat, parent : Nat]

Ops == {"login", "refresh", "logout", "logoutAll", "change", "add", "edit"}

Steps == {"idle", "authenticate", "createSession", "findSession", "findAdmin", "rotate",
          "replay", "guardSession", "guardAdmin", "logout", "logoutAll", "change",
          "changeCommit", "add", "createAdmin", "edit"}

(* `target' and `username' are what an edit or an add names, `setsPassword'*)
(* whether an edit carries a password.  History: `late' says that the      *)
(* session had been revoked when the call began, `seen' is how many there  *)
(* were.                                                                   *)
RequestRecords ==
    [op : Ops \cup {None}, pc : Steps, username : Names \cup {None}, password : Nat,
     target : Nat, setsPassword : BOOLEAN, session : Nat, refresh : Nat, csrf : Nat,
     credential : Nat, adminId : Nat, hash : Nat, doomed : SUBSET Nat,
     late : BOOLEAN, seen : Nat]

Idle == [op |-> None, pc |-> "idle", username |-> None, password |-> 0, target |-> 0,
         setsPassword |-> FALSE, session |-> 0, refresh |-> 0, csrf |-> 0,
         credential |-> 0, adminId |-> 0, hash |-> 0, doomed |-> {}, late |-> FALSE,
         seen |-> 0]

At(r, step) == requests[r].pc = step
Go(r, step) == requests' = [requests EXCEPT ![r].pc = step]
Reply(r) == requests' = [requests EXCEPT ![r] = Idle]

(* findByUsername, a unique column.                                        *)
Named(n) == {i \in DOMAIN admins : admins[i].username = n}

LiveSessionsOf(i) ==
    {s \in DOMAIN sessions : sessions[s].adminId = i /\ ~sessions[s].revoked}

OtherSessionsOf(i, s) == LiveSessionsOf(i) \ {s}

Revoke(S) == [s \in DOMAIN sessions |->
                 [sessions[s] EXCEPT !.revoked = @ \/ s \in S]]

-----------------------------------------------------------------------------
(* Calls.                                                                  *)

Begin(r, op, step, q) ==
    /\ At(r, "idle")
    /\ calls < MaxCalls
    /\ calls' = calls + 1
    /\ requests' = [requests EXCEPT ![r] = [q EXCEPT !.op = op, !.pc = step,
           !.late = q.session # 0 /\ sessions[q.session].revoked,
           !.seen = Len(sessions)]]
    /\ UNCHANGED <<admins, sessions, credentials, hashes>>

CallLogin(r) ==
    \E n \in Names, p \in 1..hashes :
        Begin(r, "login", "authenticate", [Idle EXCEPT !.username = n, !.password = p])

CallRefresh(r) ==
    \E c, d \in DOMAIN credentials :
        /\ credentials[d].session = credentials[c].session
        /\ Begin(r, "refresh", "findSession",
                 [Idle EXCEPT !.session = credentials[c].session,
                              !.refresh = credentials[c].jwt, !.csrf = d])

(* These start with AllowToUsersGuard and CsrfGuard.                       *)
WithCredential(d) == [Idle EXCEPT !.session = credentials[d].session, !.csrf = d]

CallLogout(r) ==
    \E d \in DOMAIN credentials : Begin(r, "logout", "guardSession", WithCredential(d))

CallLogoutAll(r) ==
    \E d \in DOMAIN credentials : Begin(r, "logoutAll", "guardSession", WithCredential(d))

CallChange(r) ==
    \E d \in DOMAIN credentials, p \in 1..hashes :
        Begin(r, "change", "guardSession", [WithCredential(d) EXCEPT !.password = p])

CallAdd(r) ==
    \E d \in DOMAIN credentials, n \in Names :
        Begin(r, "add", "guardSession", [WithCredential(d) EXCEPT !.username = n])

CallEdit(r) ==
    \E d \in DOMAIN credentials, i \in DOMAIN admins, n \in Names \cup {None}, b \in BOOLEAN :
        Begin(r, "edit", "guardSession",
              [WithCredential(d) EXCEPT !.target = i, !.username = n, !.setsPassword = b])

-----------------------------------------------------------------------------
(* login.                                                                  *)

Authenticate(r) ==
    /\ At(r, "authenticate")
    /\ \/ \E i \in Named(requests[r].username) :
             /\ admins[i].isActive
             /\ admins[i].hash = requests[r].password
             /\ requests' = [requests EXCEPT ![r].pc = "createSession", ![r].adminId = i]
       \/ /\ \A i \in Named(requests[r].username) :
                ~admins[i].isActive \/ admins[i].hash # requests[r].password
          /\ Reply(r)
    /\ UNCHANGED <<admins, sessions, credentials, hashes, calls>>

CreateSession(r) ==
    LET c == Len(credentials) + 1 IN
    /\ At(r, "createSession")
    /\ sessions' = Append(sessions, [adminId |-> requests[r].adminId, credential |-> c,
                                     revoked |-> FALSE, expired |-> FALSE])
    /\ credentials' = Append(credentials,
                             [session |-> Len(sessions) + 1, jwt |-> c, parent |-> 0])
    /\ Reply(r)
    /\ UNCHANGED <<admins, hashes, calls>>

-----------------------------------------------------------------------------
(* refresh.                                                                *)

RefreshMatches(s, jwt) == credentials[sessions[s].credential].jwt = jwt

CsrfMatches(s, csrf) == sessions[s].credential = csrf

FindSession(r) ==
    LET s == requests[r].session IN
    /\ At(r, "findSession")
    /\ IF /\ ~sessions[s].revoked
          /\ ~sessions[s].expired
          /\ RefreshMatches(s, requests[r].refresh)
          /\ CsrfMatches(s, requests[r].csrf)
       THEN requests' = [requests EXCEPT ![r].pc = "findAdmin",
                             ![r].adminId = sessions[s].adminId,
                             ![r].credential = sessions[s].credential]
       ELSE Reply(r)
    /\ UNCHANGED <<admins, sessions, credentials, hashes, calls>>

FindAdmin(r) ==
    /\ At(r, "findAdmin")
    /\ IF admins[requests[r].adminId].isActive THEN Go(r, "rotate") ELSE Reply(r)
    /\ UNCHANGED <<admins, sessions, credentials, hashes, calls>>

(* Faulty form: the session may have ended meanwhile.                      *)
SameHash(s, c) == sessions[s].credential = c

(* where: { refreshTokenHash: session.refreshTokenHash, revokedAt: null }  *)
Rotatable(s, c) == sessions[s].credential = c /\ ~sessions[s].revoked

Rotate(r) ==
    LET s == requests[r].session  old == requests[r].credential
        new == Len(credentials) + 1 IN
    /\ At(r, "rotate")
    /\ \/ /\ Rotatable(s, old)
          /\ \E jwt \in {credentials[old].jwt, new} :
                credentials' = Append(credentials,
                                      [session |-> s, jwt |-> jwt, parent |-> requests[r].csrf])
          /\ sessions' = [sessions EXCEPT ![s].credential = new]
          /\ Reply(r)
       \/ /\ ~Rotatable(s, old)
          /\ Go(r, "replay")
          /\ UNCHANGED <<sessions, credentials>>
    /\ UNCHANGED <<admins, hashes, calls>>

(* "The token was already rotated.  Treat this as replay."                 *)
Replay(r) ==
    /\ At(r, "replay")
    /\ sessions' = Revoke({requests[r].session})
    /\ Reply(r)
    /\ UNCHANGED <<admins, credentials, hashes, calls>>

-----------------------------------------------------------------------------
(* JwtStrategy and CsrfGuard, then the guarded endpoints.                  *)

(* Faulty form: the guard trusts the token, not the session behind it.     *)
NotExpired(s) == ~sessions[s].expired

Stands(s) == ~sessions[s].revoked /\ ~sessions[s].expired

GuardSession(r) ==
    LET s == requests[r].session IN
    /\ At(r, "guardSession")
    /\ IF Stands(s) /\ CsrfMatches(s, requests[r].csrf)
       THEN requests' = [requests EXCEPT ![r].pc = "guardAdmin",
                                         ![r].adminId = sessions[s].adminId]
       ELSE Reply(r)
    /\ UNCHANGED <<admins, sessions, credentials, hashes, calls>>

(* changePassword compares with the hash the guard read, "Wrong password", *)
(* and refuses a new password that is the current one.                     *)
GuardAdmin(r) ==
    LET i == requests[r].adminId IN
    /\ At(r, "guardAdmin")
    /\ \/ /\ admins[i].isActive
          /\ requests[r].op = "change" => admins[i].hash = requests[r].password
          /\ requests' = [requests EXCEPT ![r].pc = requests[r].op, ![r].hash = admins[i].hash]
       \/ /\ ~admins[i].isActive \/ requests[r].op = "change"
          /\ Reply(r)
    /\ UNCHANGED <<admins, sessions, credentials, hashes, calls>>

Logout(r) ==
    /\ At(r, "logout")
    /\ sessions' = Revoke({requests[r].session})
    /\ Reply(r)
    /\ UNCHANGED <<admins, credentials, hashes, calls>>

LogoutAll(r) ==
    /\ At(r, "logoutAll")
    /\ sessions' = Revoke(LiveSessionsOf(requests[r].adminId))
    /\ Reply(r)
    /\ UNCHANGED <<admins, credentials, hashes, calls>>

(* A transaction that updated the row of i has not committed yet.          *)
RowHeld(i) == \E q \in Requests : At(q, "changeCommit") /\ requests[q].adminId = i

(* Faulty form: an unconditional update.                                   *)
Always(i, hash) == TRUE

(* where: { administratorId, passwordHash: currentPasswordHash }           *)
StillCurrent(i, hash) == admins[i].hash = hash

(* Faulty form: the sessions are left alone.                               *)
KeepSessions(r) ==
    LET i == requests[r].adminId IN
    /\ At(r, "change")
    /\ ~RowHeld(i)
    /\ IF StillCurrent(i, requests[r].hash) THEN Go(r, "changeCommit") ELSE Reply(r)
    /\ UNCHANGED <<admins, sessions, credentials, hashes, calls>>

(* updatePasswordIfCurrentMatches, or "Password was changed by another     *)
(* request", and the rows revokeAllSessionsExceptCurrentOne reaches ...    *)
ChangeRevoke(r) ==
    LET i == requests[r].adminId IN
    /\ At(r, "change")
    /\ ~RowHeld(i)
    /\ IF StillCurrent(i, requests[r].hash)
       THEN requests' = [requests EXCEPT ![r].pc = "changeCommit",
                ![r].doomed = OtherSessionsOf(i, requests[r].session)]
       ELSE Reply(r)
    /\ UNCHANGED <<admins, sessions, credentials, hashes, calls>>

(* ... and the commit.                                                     *)
ChangeCommit(r) ==
    /\ At(r, "changeCommit")
    /\ hashes' = hashes + 1
    /\ admins' = [admins EXCEPT ![requests[r].adminId].hash = hashes + 1]
    /\ sessions' = Revoke(requests[r].doomed)
    /\ Reply(r)
    /\ UNCHANGED <<credentials, calls>>

(* addAdministrator looks for the name ...                                 *)
FindName(r) ==
    /\ At(r, "add")
    /\ IF Named(requests[r].username) = {} THEN Go(r, "createAdmin") ELSE Reply(r)
    /\ UNCHANGED <<admins, sessions, credentials, hashes, calls>>

(* Faulty form: no unique index.                                           *)
NeverTaken(n, i) == FALSE

(* The unique index on username, for the row i.                            *)
Taken(n, i) == Named(n) \ {i} # {}

(* ... and inserts the row, which the index may refuse.                    *)
CreateAdmin(r) ==
    /\ At(r, "createAdmin")
    /\ \/ /\ ~Taken(requests[r].username, 0)
          /\ hashes' = hashes + 1
          /\ admins' = Append(admins, [username |-> requests[r].username,
                                       hash |-> hashes + 1, isActive |-> TRUE])
       \/ /\ Taken(requests[r].username, 0)
          /\ UNCHANGED <<admins, hashes>>
    /\ Reply(r)
    /\ UNCHANGED <<sessions, credentials, calls>>

(* Faulty form: a username that is not there is written.                   *)
AnyName(r) == requests[r].username

NewName(r) == IF requests[r].username = None
              THEN admins[requests[r].target].username ELSE requests[r].username

NewHash(r) == IF requests[r].setsPassword THEN hashes + 1
              ELSE admins[requests[r].target].hash

(* editById: one statement, no proof, and the sessions stay.               *)
Edit(r) ==
    LET i == requests[r].target IN
    /\ At(r, "edit")
    /\ ~RowHeld(i)
    /\ \/ /\ ~Taken(NewName(r), i)
          /\ admins' = [admins EXCEPT ![i].username = NewName(r), ![i].hash = NewHash(r)]
          /\ hashes' = IF requests[r].setsPassword THEN hashes + 1 ELSE hashes
       \/ /\ Taken(NewName(r), i)                       \* -1001
          /\ UNCHANGED <<admins, hashes>>
    /\ Reply(r)
    /\ UNCHANGED <<sessions, credentials, calls>>

-----------------------------------------------------------------------------
(* The environment.                                                        *)

(* The process or its connection fails; an open transaction rolls back.    *)
Abort(r) ==
    /\ ~At(r, "idle")
    /\ Reply(r)
    /\ UNCHANGED <<admins, sessions, credentials, hashes, calls>>

Expire ==
    /\ \E s \in DOMAIN sessions : sessions' = [sessions EXCEPT ![s].expired = TRUE]
    /\ UNCHANGED <<admins, credentials, requests, hashes, calls>>

(* No endpoint clears is_active: an operator does, in the database.        *)
Deactivate(i) ==
    /\ admins' = [admins EXCEPT ![i].isActive = FALSE]
    /\ UNCHANGED <<sessions, credentials, requests, hashes, calls>>

-----------------------------------------------------------------------------
Init ==
    /\ admins = <<[username |-> Root, hash |-> 1, isActive |-> TRUE]>>
    /\ sessions = <<>>
    /\ credentials = <<>>
    /\ requests = [r \in Requests |-> Idle]
    /\ hashes = 1
    /\ calls = 0

Call(r) ==
    \/ CallLogin(r) \/ CallRefresh(r) \/ CallLogout(r) \/ CallLogoutAll(r)
    \/ CallChange(r) \/ CallAdd(r) \/ CallEdit(r)

Step(r) ==
    \/ Authenticate(r) \/ CreateSession(r)
    \/ FindSession(r) \/ FindAdmin(r) \/ Rotate(r) \/ Replay(r)
    \/ GuardSession(r) \/ GuardAdmin(r) \/ Logout(r) \/ LogoutAll(r)
    \/ ChangeRevoke(r) \/ ChangeCommit(r)
    \/ FindName(r) \/ CreateAdmin(r) \/ Edit(r)

Next ==
    \/ \E r \in Requests : Call(r)
    \/ \E r \in Requests : Step(r)
    \/ \E r \in Requests : Abort(r)
    \/ Expire
    \/ \E i \in DOMAIN admins : Deactivate(i)

Spec == Init /\ [][Next]_vars

-----------------------------------------------------------------------------
(* Properties.                                                             *)

(* Every table and every handler holds rows of its type.                   *)
TypeOK ==
    /\ admins \in Seq(AdminRows)
    /\ sessions \in Seq(SessionRows)
    /\ credentials \in Seq(CredentialRows)
    /\ requests \in [Requests -> RequestRecords]
    /\ hashes \in Nat
    /\ calls \in 0..MaxCalls

(* A username names one administrator, whichever adds and renames race:    *)
(* login and its password check are about one person.                      *)
OneOfAName ==
    \A i, j \in DOMAIN admins : admins[i].username = admins[j].username => i = j

(* No handler acts on a session that had been revoked when the call began, *)
(* neither behind the guards nor in a rotation.                            *)
Acting == {"rotate", "logout", "logoutAll", "change", "changeCommit", "add",
           "createAdmin", "edit"}

NobodyActsLate == \A r \in Requests : requests[r].pc \in Acting => ~requests[r].late

(* Whoever changes a password proved the very password that is replaced:   *)
(* a password that an edit set meanwhile is not overwritten by a change    *)
(* that verified the one before.                                           *)
ChangeIsProven ==
    [][\A i \in DOMAIN admins :
          admins'[i].hash # admins[i].hash =>
             \E r \in Requests :
                /\ requests'[r].pc = "idle"
                /\ \/ At(r, "edit") /\ requests[r].target = i
                   \/ /\ At(r, "changeCommit")
                      /\ requests[r].adminId = i
                      /\ requests[r].password = admins[i].hash]_vars

(* "revoke all sessions except current one": a change of password ends all *)
(* other sessions that existed when the call began, also those that are    *)
(* rotated meanwhile.                                                      *)
ChangeEndsOthers ==
    [][\A r \in Requests :
          At(r, "changeCommit") /\ admins' # admins /\ requests'[r].pc = "idle" =>
             \A s \in 1..requests[r].seen :
                sessions[s].adminId = requests[r].adminId =>
                   sessions'[s].revoked \/ s = requests[r].session]_vars

(* The sessions of administrators live as those of users do.               *)
Lives == [s \in DOMAIN sessions |-> [owner |-> sessions[s].adminId,
                                     credential |-> sessions[s].credential,
                                     ended |-> sessions[s].revoked]]

Traded == {credentials[c].parent : c \in DOMAIN credentials} \ {0}

SessionLife == INSTANCE SessionLife WITH lives <- Lives,
                                         issued <- Len(credentials), traded <- Traded

ImplementsSessions == SessionLife!Spec
=============================================================================
