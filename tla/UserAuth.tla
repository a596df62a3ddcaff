------------------------------- MODULE UserAuth -------------------------------
(***************************************************************************)
(* Accounts, sessions and mailed tokens of the customers: the endpoints of *)
(* user.auth.controller.ts over user.auth.service.ts, user.service.ts and  *)
(* verification-token.service.ts, and the guards in front of them.         *)
(*                                                                         *)
(* Every awaited database statement is a step; handlers interleave between *)
(* them.  A transaction is a step for its statements and a step for its    *)
(* commit, when others see its writes: the rows a bulk UPDATE or DELETE    *)
(* reaches (`doomed') are those its own statement saw, and a handler that  *)
(* updated a user row holds it until it commits.  Transactions that write  *)
(* single rows only are one step.                                          *)
(*                                                                         *)
(* Abstractions.  A user is known by the email address.  A salted password *)
(* hash never repeats: hashes are numbered as they are written, and the    *)
(* number also names the password.  A session's or a token's id is its     *)
(* position.  A credential is what login and refresh hand out: its number  *)
(* stands for the random csrf token and the stored hashes, `jwt' for the   *)
(* refresh token, which has no random part and is the same string when the *)
(* session is refreshed twice within a second.  Time passes as sessions    *)
(* and tokens expiring.                                                    *)
(***************************************************************************)
EXTENDS Naturals, Sequences

CONSTANTS
    Users,          \* email addresses
    Phones,         \* phone numbers
    Members,        \* at most one user, registered and verified at the start
    Requests,       \* slots for the requests in progress
    None,           \* absent value
    Enabled,        \* operations and faults of an instance
    MaxCalls        \* BOUND: calls begun in a behaviour

EMAIL == "EMAIL_VERIFICATION"
RESET == "PASSWORD_RESET"
Types == {EMAIL, RESET}

Ops == {"register", "resend", "verify", "forgot", "reset", "login", "refresh",
        "logout", "logoutAll", "change"}
Faults == {"abort", "expire", "deactivate"}

ASSUME AuthAssumption ==
    /\ Members \subseteq Users
    /\ \A u, v \in Members : u = v
    /\ None \notin Users \cup Phones
    /\ Enabled \subseteq Ops \cup Faults
    /\ MaxCalls \in Nat

VARIABLES
    users,          \* user table, by email
    sessions,       \* user_session
    tokens,         \* verification_token, deleted rows kept as such
    credentials,    \* what login and refresh handed out
    requests,       \* handlers in progress
    hashes,         \* password hashes written so far
    calls           \* calls begun

vars == <<users, sessions, tokens, credentials, requests, hashes, calls>>

-----------------------------------------------------------------------------
(* Rows and records.                                                       *)

UserRows == [registered : BOOLEAN, phone : Phones \cup {None}, isActive : BOOLEAN,
             verified : BOOLEAN, hash : Nat]

(* `credential' stands for refresh_token_hash and csrf_token_hash.         *)
(* `checked' is history: the password that was verified at login.          *)
SessionRows == [userId : Users, credential : Nat, revoked : BOOLEAN,
                expired : BOOLEAN, checked : Nat]

(* `mailed' says that the provider took the mail that carries the token.   *)
(* mail.service.ts sends every mail to one address of its own, whatever    *)
(* `to' it is given, so who reads it is left open: somebody, and not       *)
(* necessarily the user.  `spent' counts the handlers that acted on it.    *)
TokenRows == [userId : Users, type : Types, used : BOOLEAN, expired : BOOLEAN,
              deleted : BOOLEAN, mailed : BOOLEAN, spent : Nat]

(* `parent' is the credential that was traded in, 0 at login.              *)
CredentialRows == [session : Nat, jwt : Nat, parent : Nat]

Steps == {"idle", "findEmail", "findPhone", "createUser", "findUnverified",
          "findVerified", "purge", "insert", "mail", "findToken", "verifyEmail",
          "resetRevoke", "resetCommit", "authenticate", "createSession", "findSession",
          "findUser", "rotate", "replay", "guardSession", "guardUser", "logout",
          "logoutAll", "change", "changeCommit"}

(* `seen' is history: the sessions that existed when the call began.       *)
RequestRecords ==
    [op : Ops \cup {None}, pc : Steps, userId : Users \cup {None},
     phone : Phones \cup {None}, password : Nat, token : Nat, session : Nat,
     refresh : Nat, csrf : Nat, credential : Nat, hash : Nat,
     doomed : SUBSET Nat, seen : Nat]

Idle == [op |-> None, pc |-> "idle", userId |-> None, phone |-> None, password |-> 0,
         token |-> 0, session |-> 0, refresh |-> 0, csrf |-> 0, credential |-> 0,
         hash |-> 0, doomed |-> {}, seen |-> 0]

At(r, step) == requests[r].pc = step
Go(r, step) == requests' = [requests EXCEPT ![r].pc = step]
Reply(r) == requests' = [requests EXCEPT ![r] = Idle]

Usable(u) == users[u].registered /\ users[u].isActive /\ users[u].verified

(* where: { userId, revokedAt: null }                                      *)
LiveSessionsOf(u) == {s \in DOMAIN sessions : sessions[s].userId = u /\ ~sessions[s].revoked}

(* ... NOT: { sessionUuid: currentSessionUuid }                            *)
OtherSessionsOf(u, s) == LiveSessionsOf(u) \ {s}

Revoke(S) == [s \in DOMAIN sessions |->
                 [sessions[s] EXCEPT !.revoked = @ \/ s \in S]]

-----------------------------------------------------------------------------
(* Calls.                                                                  *)

Begin(r, op, step, q) ==
    /\ op \in Enabled
    /\ At(r, "idle")
    /\ calls < MaxCalls
    /\ calls' = calls + 1
    /\ requests' = [requests EXCEPT ![r] =
           [q EXCEPT !.op = op, !.pc = step, !.seen = Len(sessions)]]
    /\ UNCHANGED <<users, sessions, tokens, credentials, hashes>>

CallRegister(r) ==
    \E u \in Users, n \in Phones :
        Begin(r, "register", "findEmail", [Idle EXCEPT !.userId = u, !.phone = n])

CallResend(r) ==
    \E u \in Users : Begin(r, "resend", "findUnverified", [Idle EXCEPT !.userId = u])

CallForgot(r) ==
    \E u \in Users : Begin(r, "forgot", "findVerified", [Idle EXCEPT !.userId = u])

(* The links of the mails lead here; whoever reads a mail may follow them. *)
CallVerify(r) ==
    \E t \in DOMAIN tokens :
        tokens[t].mailed /\ Begin(r, "verify", "findToken", [Idle EXCEPT !.token = t])

CallReset(r) ==
    \E t \in DOMAIN tokens :
        tokens[t].mailed /\ Begin(r, "reset", "findToken", [Idle EXCEPT !.token = t])

CallLogin(r) ==
    \E u \in Users, p \in 1..hashes :
        Begin(r, "login", "authenticate", [Idle EXCEPT !.userId = u, !.password = p])

(* The refresh and the csrf token are sent apart; a browser may mix those  *)
(* of two answers.                                                         *)
CallRefresh(r) ==
    \E c, d \in DOMAIN credentials :
        /\ credentials[d].session = credentials[c].session
        /\ Begin(r, "refresh", "findSession",
                 [Idle EXCEPT !.session = credentials[c].session,
                              !.refresh = credentials[c].jwt, !.csrf = d])

(* These start with AllowToUsersGuard and CsrfGuard.                       *)
WithCredential(d) == [Idle EXCEPT !.session = credentials[d].session, !.csrf = d]

CallLogout(r) ==
    \E d \in DOMAIN credentials : Begin(r, "logout", "guardSession", WithCredential(d))

CallLogoutAll(r) ==
    \E d \in DOMAIN credentials : Begin(r, "logoutAll", "guardSession", WithCredential(d))

CallChange(r) ==
    \E d \in DOMAIN credentials, p \in 1..hashes :
        Begin(r, "change", "guardSession", [WithCredential(d) EXCEPT !.password = p])

Call(r) ==
    \/ CallRegister(r) \/ CallResend(r) \/ CallVerify(r)
    \/ CallForgot(r) \/ CallReset(r)
    \/ CallLogin(r) \/ CallRefresh(r) \/ CallLogout(r) \/ CallLogoutAll(r)
    \/ CallChange(r)

-----------------------------------------------------------------------------
(* register.                                                               *)

FindEmail(r) ==
    /\ At(r, "findEmail")
    /\ IF users[requests[r].userId].registered THEN Reply(r) ELSE Go(r, "findPhone")
    /\ UNCHANGED <<users, sessions, tokens, credentials, hashes, calls>>

PhoneInUse(n) == \E u \in Users : users[u].registered /\ users[u].phone = n

FindPhone(r) ==
    /\ At(r, "findPhone")
    /\ IF PhoneInUse(requests[r].phone) THEN Reply(r) ELSE Go(r, "createUser")
    /\ UNCHANGED <<users, sessions, tokens, credentials, hashes, calls>>

NewToken(u, type) == [userId |-> u, type |-> type, used |-> FALSE, expired |-> FALSE,
                      deleted |-> FALSE, mailed |-> FALSE, spent |-> 0]

(* Faulty forms: only one of the two indexes.                              *)
EmailTaken(u, n) == users[u].registered
PhoneTaken(u, n) == PhoneInUse(n)

(* The unique indexes on email and phone_number.                           *)
Refused(u, n) == users[u].registered \/ PhoneInUse(n)

(* createUserWithVerificationToken: both rows or, on a conflict, neither.  *)
CreateUser(r) ==
    LET u == requests[r].userId  n == requests[r].phone IN
    /\ At(r, "createUser")
    /\ \/ /\ Refused(u, n)
          /\ Reply(r)
          /\ UNCHANGED <<users, tokens, hashes>>
       \/ /\ ~Refused(u, n)
          /\ hashes' = hashes + 1
          /\ users' = [users EXCEPT ![u] = [registered |-> TRUE, phone |-> n,
                           isActive |-> TRUE, verified |-> FALSE, hash |-> hashes + 1]]
          /\ tokens' = Append(tokens, NewToken(u, EMAIL))
          /\ requests' = [requests EXCEPT ![r].pc = "mail", ![r].token = Len(tokens) + 1]
    /\ UNCHANGED <<sessions, credentials, calls>>

-----------------------------------------------------------------------------
(* resendVerificationEmail, forgotPassword and VerificationTokenService's  *)
(* create.                                                                 *)

FindUnverified(r) ==
    LET u == users[requests[r].userId] IN
    /\ At(r, "findUnverified")
    /\ IF u.registered /\ ~u.verified THEN Go(r, "purge") ELSE Reply(r)
    /\ UNCHANGED <<users, sessions, tokens, credentials, hashes, calls>>

FindVerified(r) ==
    /\ At(r, "findVerified")
    /\ IF Usable(requests[r].userId) THEN Go(r, "purge") ELSE Reply(r)
    /\ UNCHANGED <<users, sessions, tokens, credentials, hashes, calls>>

(* Faulty form: the name of the endpoint for the kind of token.            *)
EndpointFor(op) == op

TypeFor(op) == IF op \in {"resend", "verify"} THEN EMAIL ELSE RESET

(* deleteMany: the rows it sees, deleted when the transaction commits if   *)
(* nobody used them first.                                                 *)
Purge(r) ==
    /\ At(r, "purge")
    /\ requests' = [requests EXCEPT ![r].pc = "insert", ![r].doomed =
           {t \in DOMAIN tokens : /\ tokens[t].userId = requests[r].userId
                                  /\ tokens[t].type = TypeFor(requests[r].op)
                                  /\ ~tokens[t].used /\ ~tokens[t].deleted}]
    /\ UNCHANGED <<users, sessions, tokens, credentials, hashes, calls>>

Purged(S) == [t \in DOMAIN tokens |->
                 [tokens[t] EXCEPT !.deleted = @ \/ (t \in S /\ ~tokens[t].used)]]

(* Faulty form: the new row is swept up with the old ones.                 *)
InsertThenPurge(r) ==
    /\ At(r, "insert")
    /\ tokens' = Append(Purged(requests[r].doomed),
                        [NewToken(requests[r].userId, TypeFor(requests[r].op))
                            EXCEPT !.deleted = TRUE])
    /\ requests' = [requests EXCEPT ![r].pc = "mail", ![r].token = Len(tokens) + 1]
    /\ UNCHANGED <<users, sessions, credentials, hashes, calls>>

InsertToken(r) ==
    /\ At(r, "insert")
    /\ tokens' = Append(Purged(requests[r].doomed),
                        NewToken(requests[r].userId, TypeFor(requests[r].op)))
    /\ requests' = [requests EXCEPT ![r].pc = "mail", ![r].token = Len(tokens) + 1]
    /\ UNCHANGED <<users, sessions, credentials, hashes, calls>>

(* The provider takes the mail or fails; either way the row stays, and the *)
(* handler is done.                                                        *)
SendMail(r) ==
    /\ At(r, "mail")
    /\ \/ tokens' = [tokens EXCEPT ![requests[r].token].mailed = TRUE]
       \/ UNCHANGED tokens
    /\ Reply(r)
    /\ UNCHANGED <<users, sessions, credentials, hashes, calls>>

-----------------------------------------------------------------------------
(* verifyEmail and resetPassword.                                          *)

TypeMatches(t, op) == tokens[t].type = TypeFor(op)

(* VerificationTokenService.verify.                                        *)
FindToken(r) ==
    LET t == requests[r].token IN
    /\ At(r, "findToken")
    /\ IF /\ ~tokens[t].deleted
          /\ TypeMatches(t, requests[r].op)
          /\ ~tokens[t].used
          /\ ~tokens[t].expired
       THEN requests' = [requests EXCEPT
                ![r].pc = IF requests[r].op = "verify" THEN "verifyEmail" ELSE "resetRevoke",
                ![r].userId = tokens[t].userId]
       ELSE Reply(r)
    /\ UNCHANGED <<users, sessions, tokens, credentials, hashes, calls>>

(* markAsUsed updates by id: a row that is gone rolls the transaction back.*)
RowGone(t) == tokens[t].deleted

(* Faulty form: the token is left as it was.                               *)
LeaveUnused(t) == UNCHANGED tokens

MarkAsUsed(t) == tokens' = [tokens EXCEPT ![t].used = TRUE, ![t].spent = @ + 1]

VerifyEmail(r) ==
    LET t == requests[r].token IN
    /\ At(r, "verifyEmail")
    /\ \/ RowGone(t) /\ UNCHANGED <<users, tokens>>
       \/ /\ ~RowGone(t)
          /\ users' = [users EXCEPT ![requests[r].userId].verified = TRUE]
          /\ MarkAsUsed(t)
    /\ Reply(r)
    /\ UNCHANGED <<sessions, credentials, hashes, calls>>

(* A transaction that updated the row of u has not committed yet.          *)
RowHeld(u) ==
    \E q \in Requests : /\ requests[q].pc \in {"resetCommit", "changeCommit"}
                        /\ requests[q].userId = u

(* Faulty form: the revocation is left out.                                *)
RevokeNone(r) ==
    /\ At(r, "resetRevoke")
    /\ ~RowHeld(requests[r].userId)
    /\ Go(r, "resetCommit")
    /\ UNCHANGED <<users, sessions, tokens, credentials, hashes, calls>>

(* updatePassword's lock on the user row, and the rows that                *)
(* revokeAllSessions reaches ...                                           *)
ResetRevoke(r) ==
    /\ At(r, "resetRevoke")
    /\ ~RowHeld(requests[r].userId)
    /\ requests' = [requests EXCEPT ![r].pc = "resetCommit",
                                    ![r].doomed = LiveSessionsOf(requests[r].userId)]
    /\ UNCHANGED <<users, sessions, tokens, credentials, hashes, calls>>

(* ... and the commit of resetPassword's transaction.                      *)
ResetCommit(r) ==
    LET t == requests[r].token IN
    /\ At(r, "resetCommit")
    /\ \/ RowGone(t) /\ UNCHANGED <<users, tokens, sessions, hashes>>
       \/ /\ ~RowGone(t)
          /\ hashes' = hashes + 1
          /\ users' = [users EXCEPT ![requests[r].userId].hash = hashes + 1]
          /\ MarkAsUsed(t)
          /\ sessions' = Revoke(requests[r].doomed)
    /\ Reply(r)
    /\ UNCHANGED <<credentials, calls>>

-----------------------------------------------------------------------------
(* login.                                                                  *)

Authenticate(r) ==
    LET u == requests[r].userId IN
    /\ At(r, "authenticate")
    /\ IF Usable(u) /\ users[u].hash = requests[r].password
       THEN Go(r, "createSession")
       ELSE Reply(r)
    /\ UNCHANGED <<users, sessions, tokens, credentials, hashes, calls>>

CreateSession(r) ==
    LET c == Len(credentials) + 1 IN
    /\ At(r, "createSession")
    /\ sessions' = Append(sessions, [userId |-> requests[r].userId, credential |-> c,
                              revoked |-> FALSE, expired |-> FALSE,
                              checked |-> requests[r].password])
    /\ credentials' = Append(credentials,
                             [session |-> Len(sessions) + 1, jwt |-> c, parent |-> 0])
    /\ Reply(r)
    /\ UNCHANGED <<users, tokens, hashes, calls>>

-----------------------------------------------------------------------------
(* refresh.                                                                *)

RefreshMatches(s, jwt) == credentials[sessions[s].credential].jwt = jwt

CsrfMatches(s, csrf) == sessions[s].credential = csrf

FindSession(r) ==
    LET s == requests[r].session IN
    /\ At(r, "findSession")
    /\ IF /\ ~sessions[s].revoked
          /\ ~sessions[s].expired
          /\ RefreshMatches(s, requests[r].refresh)
          /\ CsrfMatches(s, requests[r].csrf)
       THEN requests' = [requests EXCEPT ![r].pc = "findUser",
                             ![r].userId = sessions[s].userId,
                             ![r].credential = sessions[s].credential]
       ELSE Reply(r)
    /\ UNCHANGED <<users, sessions, tokens, credentials, hashes, calls>>

FindUser(r) ==
    /\ At(r, "findUser")
    /\ IF Usable(requests[r].userId) THEN Go(r, "rotate") ELSE Reply(r)
    /\ UNCHANGED <<users, sessions, tokens, credentials, hashes, calls>>

(* Faulty forms: one of the two conditions is missing.                     *)
NotRevoked(s, c) == ~sessions[s].revoked
SameHash(s, c) == sessions[s].credential = c

(* where: { refreshTokenHash: session.refreshTokenHash, revokedAt: null }  *)
Rotatable(s, c) == sessions[s].credential = c /\ ~sessions[s].revoked

(* The new refresh token repeats the old one if the second has not passed. *)
Rotate(r) ==
    LET s == requests[r].session  old == requests[r].credential
        new == Len(credentials) + 1 IN
    /\ At(r, "rotate")
    /\ \/ /\ Rotatable(s, old)
          /\ \E jwt \in {credentials[old].jwt, new} :
                credentials' = Append(credentials,
                                      [session |-> s, jwt |-> jwt, parent |-> requests[r].csrf])
          /\ sessions' = [sessions EXCEPT ![s].credential = new]
          /\ Reply(r)
       \/ /\ ~Rotatable(s, old)
          /\ Go(r, "replay")
          /\ UNCHANGED <<sessions, credentials>>
    /\ UNCHANGED <<users, tokens, hashes, calls>>

(* Faulty form: the losing call is refused and nothing else.               *)
Refuse(r) ==
    /\ At(r, "replay")
    /\ Reply(r)
    /\ UNCHANGED <<users, sessions, tokens, credentials, hashes, calls>>

(* "The token was already rotated.  Treat this as replay."                 *)
Replay(r) ==
    /\ At(r, "replay")
    /\ sessions' = Revoke({requests[r].session})
    /\ Reply(r)
    /\ UNCHANGED <<users, tokens, credentials, hashes, calls>>

-----------------------------------------------------------------------------
(* JwtStrategy and CsrfGuard, then the guarded endpoints.                  *)

GuardSession(r) ==
    LET s == requests[r].session IN
    /\ At(r, "guardSession")
    /\ IF ~sessions[s].revoked /\ ~sessions[s].expired /\ CsrfMatches(s, requests[r].csrf)
       THEN requests' = [requests EXCEPT ![r].pc = "guardUser",
                                         ![r].userId = sessions[s].userId]
       ELSE Reply(r)
    /\ UNCHANGED <<users, sessions, tokens, credentials, hashes, calls>>

(* changePassword compares with the hash the guard read, "Wrong password", *)
(* and refuses a new password that is the current one.                     *)
GuardUser(r) ==
    LET u == requests[r].userId IN
    /\ At(r, "guardUser")
    /\ \/ /\ Usable(u)
          /\ requests[r].op = "change" => users[u].hash = requests[r].password
          /\ requests' = [requests EXCEPT ![r].pc = requests[r].op, ![r].hash = users[u].hash]
       \/ /\ \/ ~Usable(u)
             \/ requests[r].op = "change"
          /\ Reply(r)
    /\ UNCHANGED <<users, sessions, tokens, credentials, hashes, calls>>

Logout(r) ==
    /\ At(r, "logout")
    /\ sessions' = Revoke({requests[r].session})
    /\ Reply(r)
    /\ UNCHANGED <<users, tokens, credentials, hashes, calls>>

LogoutAll(r) ==
    /\ At(r, "logoutAll")
    /\ sessions' = Revoke(LiveSessionsOf(requests[r].userId))
    /\ Reply(r)
    /\ UNCHANGED <<users, tokens, credentials, hashes, calls>>

(* Faulty form: an unconditional update.                                   *)
Always(u, hash) == TRUE

(* where: { userId, passwordHash: currentPasswordHash }                    *)
StillCurrent(u, hash) == users[u].hash = hash

(* updatePasswordIfCurrentMatches, or "Password was changed by another     *)
(* request", and the rows revokeAllSessionsExceptCurrentOne reaches ...    *)
ChangeRevoke(r) ==
    LET u == requests[r].userId IN
    /\ At(r, "change")
    /\ ~RowHeld(u)
    /\ IF StillCurrent(u, requests[r].hash)
       THEN requests' = [requests EXCEPT ![r].pc = "changeCommit",
                ![r].doomed = OtherSessionsOf(u, requests[r].session)]
       ELSE Reply(r)
    /\ UNCHANGED <<users, sessions, tokens, credentials, hashes, calls>>

(* ... and the commit.                                                     *)
ChangeCommit(r) ==
    /\ At(r, "changeCommit")
    /\ hashes' = hashes + 1
    /\ users' = [users EXCEPT ![requests[r].userId].hash = hashes + 1]
    /\ sessions' = Revoke(requests[r].doomed)
    /\ Reply(r)
    /\ UNCHANGED <<tokens, credentials, calls>>

-----------------------------------------------------------------------------
(* The environment.                                                        *)

(* The process or its connection fails: the handler ends, its transaction, *)
(* if one is open, is rolled back.                                         *)
Abort(r) ==
    /\ "abort" \in Enabled
    /\ ~At(r, "idle")
    /\ Reply(r)
    /\ UNCHANGED <<users, sessions, tokens, credentials, hashes, calls>>

Expire ==
    /\ "expire" \in Enabled
    /\ \/ /\ \E s \in DOMAIN sessions : sessions' = [sessions EXCEPT ![s].expired = TRUE]
          /\ UNCHANGED tokens
       \/ /\ \E t \in DOMAIN tokens : tokens' = [tokens EXCEPT ![t].expired = TRUE]
          /\ UNCHANGED sessions
    /\ UNCHANGED <<users, credentials, requests, hashes, calls>>

(* Nothing in the code clears is_active (deactivateUser is empty): an      *)
(* operator does, in the database.                                         *)
Deactivate(u) ==
    /\ "deactivate" \in Enabled
    /\ users' = [users EXCEPT ![u].isActive = FALSE]
    /\ UNCHANGED <<sessions, tokens, credentials, requests, hashes, calls>>

-----------------------------------------------------------------------------
(* A member starts with a password, and a phone nobody else registers.     *)
NewUser == [registered |-> FALSE, phone |-> None, isActive |-> TRUE, verified |-> FALSE,
            hash |-> 0]

Init ==
    /\ users = [u \in Users |-> IF u \in Members
                   THEN [NewUser EXCEPT !.registered = TRUE, !.verified = TRUE, !.hash = 1]
                   ELSE NewUser]
    /\ sessions = <<>>
    /\ tokens = <<>>
    /\ credentials = <<>>
    /\ requests = [r \in Requests |-> Idle]
    /\ hashes = 1
    /\ calls = 0

Step(r) ==
    \/ FindEmail(r) \/ FindPhone(r) \/ CreateUser(r)
    \/ FindUnverified(r) \/ FindVerified(r) \/ Purge(r) \/ InsertToken(r) \/ SendMail(r)
    \/ FindToken(r) \/ VerifyEmail(r) \/ ResetRevoke(r) \/ ResetCommit(r)
    \/ Authenticate(r) \/ CreateSession(r)
    \/ FindSession(r) \/ FindUser(r) \/ Rotate(r) \/ Replay(r)
    \/ GuardSession(r) \/ GuardUser(r) \/ Logout(r) \/ LogoutAll(r)
    \/ ChangeRevoke(r) \/ ChangeCommit(r)

Next ==
    \/ \E r \in Requests : Call(r)
    \/ \E r \in Requests : Step(r)
    \/ \E r \in Requests : Abort(r)
    \/ Expire
    \/ \E u \in Users : Deactivate(u)

Spec == Init /\ [][Next]_vars

(* The statements a handler awaits are answered: no handler stops for good *)
(* between two of them.                                                    *)
FairSpec == Spec /\ \A r \in Requests : WF_vars(Step(r))

-----------------------------------------------------------------------------
(* Properties.                                                             *)

(* Every table and every handler holds rows of its type.                   *)
TypeOK ==
    /\ users \in [Users -> UserRows]
    /\ sessions \in Seq(SessionRows)
    /\ tokens \in Seq(TokenRows)
    /\ credentials \in Seq(CredentialRows)
    /\ requests \in [Requests -> RequestRecords]
    /\ hashes \in Nat
    /\ calls \in 0..MaxCalls

(* A credential is traded in once: of two refreshes that both passed the   *)
(* checks of refresh with it, only one rotates the session.                *)
TradedOnce ==
    \A c, d \in DOMAIN credentials :
        credentials[c].parent = credentials[d].parent =>
            c = d \/ credentials[c].parent = 0

(* The sessions live as SessionLife says: only the credential that counts  *)
(* is traded, and a session that a handler read before it was revoked is   *)
(* not brought back by a rotation after it.                                *)
Lives == [s \in DOMAIN sessions |-> [owner |-> sessions[s].userId,
                                     credential |-> sessions[s].credential,
                                     ended |-> sessions[s].revoked]]

Traded == {credentials[c].parent : c \in DOMAIN credentials} \ {0}

SessionLife == INSTANCE SessionLife WITH lives <- Lives,
                                         issued <- Len(credentials), traded <- Traded

ImplementsSessions == SessionLife!Spec

(* "Treat this as replay": when two refreshes are about to rotate the same *)
(* session, one of them loses, and the session ends.                       *)
Contended(s) ==
    \E q, r \in Requests : /\ q # r
                           /\ At(q, "rotate") /\ requests[q].session = s
                           /\ At(r, "rotate") /\ requests[r].session = s

ReplayEndsSession ==
    \A s \in 1..MaxCalls : Contended(s) ~> s \in DOMAIN sessions /\ sessions[s].revoked

(* A changed or reset password ends every session of the user that existed *)
(* when the call began ("revoke all user sessions"), but the one that asks *)
(* for the change, also when sessions are rotated or created meanwhile.    *)
ChangeEndsSessions ==
    [][\A u \in Users :
          users[u].registered /\ users'[u].hash # users[u].hash =>
             \E r \in Requests :
                /\ requests[r].pc \in {"resetCommit", "changeCommit"}
                /\ requests'[r].pc = "idle"
                /\ \A s \in DOMAIN sessions :
                      s <= requests[r].seen /\ sessions[s].userId = u =>
                         \/ sessions'[s].revoked
                         \/ requests[r].op = "change" /\ requests[r].session = s]_vars

(* A password is replaced by someone who proved to know the very password  *)
(* that is replaced, or who sends in a reset token of this account that    *)
(* went out by mail and still stands.                                      *)
ChangeIsProven ==
    [][\A u \in Users :
          users[u].registered /\ users'[u].hash # users[u].hash =>
             \/ \E r \in Requests : /\ requests[r].pc = "changeCommit"
                                   /\ requests'[r].pc = "idle"
                                   /\ requests[r].userId = u
                                   /\ requests[r].password = users[u].hash
             \/ \E t \in DOMAIN tokens : /\ tokens'[t].spent # tokens[t].spent
                                        /\ tokens[t].type = RESET
                                        /\ tokens[t].userId = u
                                        /\ tokens[t].mailed
                                        /\ ~tokens[t].deleted]_vars

(* Two accounts never share a phone number, whichever registrations race.  *)
PhonesAreUnique ==
    \A u, v \in Users :
        users[u].registered /\ users[v].registered /\ users[u].phone = users[v].phone =>
            u = v \/ users[u].phone = None

(* A registration never takes over an account that exists by then.         *)
RegisteredOnce ==
    [][\A u \in Users :
          users[u].registered => /\ users'[u].registered
                                 /\ users'[u].phone = users[u].phone
                                 /\ users[u].verified => users'[u].verified]_vars

(* An account counts as verified only after a verification token of this   *)
(* very account went out by mail and was spent: not one of another         *)
(* account, not a reset token, not one whose mail was never sent, and not  *)
(* one that was deleted before it could be marked as used.  Whether the    *)
(* reader of the mail owns the address is not claimed: mail.service.ts     *)
(* sends to a constant address.                                            *)
VerifiedByToken ==
    \A u \in Users \ Members :
        users[u].verified =>
            \E t \in DOMAIN tokens : /\ tokens[t].userId = u
                                     /\ tokens[t].type = EMAIL
                                     /\ tokens[t].mailed
                                     /\ tokens[t].spent > 0

(* However the requests for new tokens overlap, they never delete each     *)
(* other's: the newest token of a kind stands.                             *)
NewestTokenStands ==
    \A t \in DOMAIN tokens :
        tokens[t].deleted =>
            \E n \in DOMAIN tokens : /\ n > t
                                     /\ tokens[n].userId = tokens[t].userId
                                     /\ tokens[n].type = tokens[t].type
                                     /\ ~tokens[n].deleted

(* "mark token as used", and verify's 'Token already used': a token serves *)
(* once.                                                                   *)
TokenServesOnce == \A t \in DOMAIN tokens : tokens[t].spent <= 1

(* "revoke all user sessions": after a reset nobody is signed in with an   *)
(* older password.                                                         *)
ResetLeavesNoOldSession ==
    \A s \in DOMAIN sessions :
        ~sessions[s].revoked => sessions[s].checked = users[sessions[s].userId].hash
=============================================================================
