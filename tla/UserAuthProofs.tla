---------------------------- MODULE UserAuthProofs ----------------------------
(***************************************************************************)
(* What UserAuth guarantees for any number of users, sessions, tokens and  *)
(* requests, however they overlap and whatever is cut short.               *)
(***************************************************************************)
EXTENDS UserAuth, SequenceTheorems, TLAPS

(* Where a handler knows a session, a user or a token.                     *)
OfSession == {"findSession", "findUser", "rotate", "replay", "guardSession", "guardUser",
              "logout", "logoutAll", "change", "changeCommit"}
OfUser == Steps \ {"idle", "findToken", "findSession", "replay", "guardSession"}
OfToken == {"mail", "findToken", "verifyEmail", "resetRevoke", "resetCommit"}
Holders == {"resetCommit", "changeCommit"}

(* The token that a handler acts on went out by mail, for the account it   *)
(* acts on and for this purpose.                                           *)
Serves(t, q) ==
    /\ tokens[t].mailed
    /\ tokens[t].userId = q.userId
    /\ tokens[t].type = IF q.pc = "verifyEmail" THEN EMAIL ELSE RESET

(* What the locals of a handler mean across its awaits.                    *)
Sound(q) ==
    /\ q.pc \in OfSession => q.session \in DOMAIN sessions
    /\ q.pc \in OfUser => q.userId \in Users
    /\ q.pc \in OfToken => q.token \in DOMAIN tokens
    /\ q.pc = "findToken" => q.op \in {"verify", "reset"} /\ tokens[q.token].mailed
    /\ q.pc \in {"verifyEmail", "resetRevoke", "resetCommit"} => Serves(q.token, q)
    /\ q.pc \in {"findEmail", "findPhone", "createUser"} => q.phone \in Phones
    /\ q.pc = "insert" =>
          \A t \in q.doomed : /\ t \in DOMAIN tokens
                              /\ tokens[t].userId = q.userId
                              /\ tokens[t].type = TypeFor(q.op)
    /\ q.pc \in {"findUser", "rotate"} =>
          q.csrf \in DOMAIN credentials /\ q.credential = q.csrf
    /\ q.pc \in {"guardSession", "guardUser"} => q.op \in {"logout", "logoutAll", "change"}
    /\ q.pc \in {"change", "changeCommit"} =>
          q.op = "change" /\ q.hash = q.password /\ users[q.userId].registered
    /\ q.seen <= Len(sessions)

Handlers == \A r \in Requests : Sound(requests[r])

(* The sessions of the user that there were have ended, or will.           *)
Doomed(q) ==
    \A s \in 1..q.seen :
        sessions[s].userId = q.userId =>
           \/ sessions[s].revoked
           \/ s \in q.doomed
           \/ q.op = "change" /\ q.session = s

OldDoomed == \A r \in Requests : requests[r].pc \in Holders => Doomed(requests[r])

(* A password that is being replaced is in the hands of one handler.       *)
OneHolder ==
    \A r \in Requests :
        requests[r].pc \in Holders =>
           /\ At(r, "changeCommit") => users[requests[r].userId].hash = requests[r].hash
           /\ \A q \in Requests \ {r} :
                 requests[q].pc \in Holders => requests[q].userId # requests[r].userId

(* Foreign keys, and that a session's credential is its own.               *)
References ==
    /\ \A s \in DOMAIN sessions : /\ sessions[s].credential \in DOMAIN credentials
                                  /\ credentials[sessions[s].credential].session = s
    /\ \A c \in DOMAIN credentials : /\ credentials[c].session \in DOMAIN sessions
                                     /\ credentials[c].parent <= Len(credentials)

(* The credential that counts has not been traded yet.                     *)
Untraded ==
    \A s \in DOMAIN sessions, c \in DOMAIN credentials :
        credentials[c].parent # sessions[s].credential

SessionsInv == References /\ Untraded /\ TradedOnce

AccountsInv == PhonesAreUnique /\ VerifiedByToken /\ NewestTokenStands

Inv ==
    /\ TypeOK
    /\ SessionsInv
    /\ AccountsInv
    /\ Handlers
    /\ OldDoomed
    /\ OneHolder

-----------------------------------------------------------------------------
(* What no step undoes.                                                    *)
Grows ==
    /\ Len(credentials) <= Len(credentials')
    /\ Len(sessions) <= Len(sessions')
    /\ \A s \in DOMAIN sessions : /\ sessions'[s].userId = sessions[s].userId
                                  /\ sessions[s].revoked => sessions'[s].revoked
    /\ Len(tokens) <= Len(tokens')
    /\ \A t \in DOMAIN tokens : /\ tokens'[t].userId = tokens[t].userId
                                /\ tokens'[t].type = tokens[t].type
                                /\ tokens[t].mailed => tokens'[t].mailed
    /\ \A u \in Users : users[u].registered => users'[u].registered

(* The password whose change another handler has under way stays.          *)
HeldRowsKept(r) ==
    \A q \in Requests \ {r} :
        At(q, "changeCommit") =>
           users'[requests[q].userId].hash = users[requests[q].userId].hash

OnlyRequest(r) == \A q \in Requests \ {r} : requests'[q] = requests[q]

Tables == <<users, sessions, tokens, credentials, hashes, calls>>

-----------------------------------------------------------------------------
(* The record of an idle slot is of its type.                              *)
LEMMA IdleType == Idle \in RequestRecords /\ Idle.pc = "idle" /\ Idle.seen = 0
  BY DEF Idle, RequestRecords, Ops, Steps

(* What TypeOK says of each table, row by row.                             *)
LEMMA RowTypes ==
  ASSUME TypeOK
  PROVE  /\ users \in [Users -> UserRows]
         /\ \A u \in Users : users[u] \in UserRows
         /\ sessions \in Seq(SessionRows) /\ tokens \in Seq(TokenRows)
         /\ credentials \in Seq(CredentialRows) /\ hashes \in Nat
         /\ requests \in [Requests -> RequestRecords]
         /\ \A r \in Requests : requests[r] \in RequestRecords /\ requests[r].seen \in Nat
         /\ DOMAIN sessions = 1..Len(sessions) /\ Len(sessions) \in Nat
         /\ DOMAIN tokens = 1..Len(tokens) /\ Len(tokens) \in Nat
         /\ DOMAIN credentials = 1..Len(credentials) /\ Len(credentials) \in Nat
         /\ \A s \in DOMAIN sessions : sessions[s] \in SessionRows
         /\ \A t \in DOMAIN tokens : tokens[t] \in TokenRows
         /\ \A c \in DOMAIN credentials : credentials[c] \in CredentialRows
<1>1. /\ users \in [Users -> UserRows]
      /\ sessions \in Seq(SessionRows) /\ tokens \in Seq(TokenRows)
      /\ credentials \in Seq(CredentialRows) /\ hashes \in Nat
      /\ requests \in [Requests -> RequestRecords]
  BY DEF TypeOK
<1>2. \A r \in Requests : requests[r] \in RequestRecords /\ requests[r].seen \in Nat
  BY <1>1 DEF RequestRecords
<1> QED
  BY <1>1, <1>2

(* The initial state satisfies the inductive invariant.                    *)
LEMMA InitInv == Init => Inv
<1> SUFFICES ASSUME Init PROVE Inv
  OBVIOUS
<1>1. /\ \A r \in Requests : requests[r] = Idle
      /\ requests \in [Requests -> RequestRecords]
  BY IdleType DEF Init
<1>2. sessions = <<>> /\ credentials = <<>> /\ tokens = <<>> /\ hashes = 1 /\ calls = 0
  BY DEF Init
<1>3. \A u \in Users : /\ users[u] \in UserRows
                       /\ users[u].phone = None
                       /\ users[u].verified => u \in Members
  BY DEF Init, NewUser, UserRows
<1>4. users \in [Users -> UserRows]
  BY <1>3 DEF Init
<1>5. TypeOK
  BY <1>1, <1>2, <1>4, AuthAssumption DEF TypeOK
<1>6. SessionsInv
  BY <1>2 DEF SessionsInv, References, Untraded, TradedOnce
<1>7. AccountsInv
  BY <1>2, <1>3 DEF AccountsInv, PhonesAreUnique, VerifiedByToken, NewestTokenStands
<1>8. Handlers /\ OldDoomed /\ OneHolder
  BY <1>1, <1>2, IdleType DEF Handlers, Sound, OldDoomed, OneHolder, At, OfSession, OfUser,
                              OfToken, Holders
<1> QED
  BY <1>5, <1>6, <1>7, <1>8 DEF Inv

(* The locals of the other handlers mean the same after a step.            *)
LEMMA SoundFrame ==
  ASSUME TypeOK, TypeOK', Grows, NEW q \in RequestRecords, Sound(q)
  PROVE  Sound(q)'
<1>1. /\ DOMAIN sessions \subseteq DOMAIN sessions' /\ DOMAIN tokens \subseteq DOMAIN tokens'
      /\ DOMAIN credentials \subseteq DOMAIN credentials'
      /\ Len(sessions) \in Nat /\ Len(sessions') \in Nat /\ q.seen \in Nat
  BY DEF TypeOK, Grows, RequestRecords
<1>2. q.pc \in OfUser => q.userId \in Users
  BY DEF Sound
<1>3. {"change", "changeCommit"} \subseteq OfUser
  BY DEF OfUser, Steps
<1>4. {"findToken", "verifyEmail", "resetRevoke", "resetCommit"} \subseteq OfToken
  BY DEF OfToken
<1> QED
  BY <1>1, <1>2, <1>3, <1>4 DEF Sound, Serves, Grows

(* ... and the sessions that were doomed are.                              *)
LEMMA DoomedFrame ==
  ASSUME TypeOK, Grows, NEW q \in RequestRecords, Doomed(q), Sound(q)
  PROVE  Doomed(q)'
<1>1. \A s \in 1..q.seen : s \in DOMAIN sessions
  BY DEF TypeOK, RequestRecords, Sound
<1> QED
  BY <1>1 DEF Doomed, Grows

(* A step of r keeps the invariant if it leaves r's own record sound.      *)
LEMMA StepInv ==
  ASSUME Inv, TypeOK', NEW r \in Requests, OnlyRequest(r), Grows,
         SessionsInv', AccountsInv', HeldRowsKept(r), Sound(requests[r])',
         requests'[r].pc \in Holders =>
            /\ Doomed(requests[r])'
            /\ requests'[r].pc = "changeCommit" =>
                  users'[requests'[r].userId].hash = requests'[r].hash
            /\ \A q \in Requests \ {r} :
                  requests[q].pc \in Holders => requests[q].userId # requests'[r].userId
  PROVE  Inv'
<1>1. \A q \in Requests \ {r} : requests'[q] = requests[q] /\ requests[q] \in RequestRecords
  BY RowTypes DEF Inv, OnlyRequest
<1>2. \A q \in Requests \ {r} : Sound(requests[q])'
  BY <1>1, SoundFrame DEF Inv, Handlers, Sound, Serves
<1>3. Handlers'
  BY <1>2 DEF Handlers
<1>4. \A q \in Requests \ {r} : requests'[q].pc \in Holders => Doomed(requests[q])'
  BY <1>1, DoomedFrame DEF Inv, Handlers, OldDoomed, Doomed
<1>5. OldDoomed'
  BY <1>4 DEF OldDoomed
<1>6. OneHolder'
  BY <1>1 DEF Inv, OneHolder, At, HeldRowsKept, Holders
<1> QED
  BY <1>3, <1>5, <1>6 DEF Inv

(* A handler that reads and moves on, or takes a user row.                 *)
LEMMA UpdateInv ==
  ASSUME Inv, NEW r \in Requests, NEW R \in RequestRecords,
         requests' = [requests EXCEPT ![r] = R], UNCHANGED Tables, Sound(R),
         R.pc \in Holders =>
            /\ Doomed(R)
            /\ R.pc = "changeCommit" => users[R.userId].hash = R.hash
            /\ \A q \in Requests \ {r} :
                  requests[q].pc \in Holders => requests[q].userId # R.userId
  PROVE  Inv'
<1>1. /\ requests'[r] = R /\ OnlyRequest(r)
      /\ requests' \in [Requests -> RequestRecords]
  BY DEF Inv, TypeOK, OnlyRequest
<1>2. TypeOK' /\ Grows /\ HeldRowsKept(r)
  BY <1>1 DEF Inv, TypeOK, Tables, Grows, HeldRowsKept
<1>3. SessionsInv' /\ AccountsInv'
  BY DEF Inv, Tables, SessionsInv, References, Untraded, TradedOnce, AccountsInv,
         PhonesAreUnique, VerifiedByToken, NewestTokenStands
<1>4. Sound(requests[r])'
  BY <1>1 DEF Tables, Sound, Serves
<1>5. R.pc \in Holders => Doomed(requests[r])'
  BY <1>1 DEF Tables, Doomed
<1>6. users' = users
  BY DEF Tables
<1> QED
  BY <1>1, <1>2, <1>3, <1>4, <1>5, <1>6, StepInv

(* A handler that ends, whatever it wrote.                                 *)
LEMMA ReplyInv ==
  ASSUME Inv, NEW r \in Requests, Reply(r), Grows, SessionsInv', AccountsInv',
         HeldRowsKept(r), users' \in [Users -> UserRows], sessions' \in Seq(SessionRows),
         tokens' \in Seq(TokenRows), credentials' \in Seq(CredentialRows), hashes' \in Nat,
         UNCHANGED calls
  PROVE  Inv'
<1>1. /\ requests'[r] = Idle /\ OnlyRequest(r)
      /\ requests' \in [Requests -> RequestRecords]
  BY IdleType DEF Inv, TypeOK, Reply, OnlyRequest
<1>2. TypeOK'
  BY <1>1 DEF Inv, TypeOK
<1>3. Len(sessions') \in Nat
  OBVIOUS
<1>4. Sound(requests[r])' /\ requests'[r].pc = "idle"
  BY <1>1, <1>3, IdleType DEF Sound, OfSession, OfUser, OfToken
<1> QED
  BY <1>1, <1>2, <1>4, StepInv DEF Holders

(* A handler that ends without having written anything.                    *)
LEMMA RefuseInv ==
  ASSUME Inv, NEW r \in Requests, Reply(r), UNCHANGED Tables
  PROVE  Inv'
<1>1. requests' = [requests EXCEPT ![r] = Idle]
  BY DEF Reply
<1>2. Sound(Idle) /\ Idle.pc \notin Holders
  BY IdleType, RowTypes DEF Inv, Sound, OfSession, OfUser, OfToken, Holders
<1> QED
  BY <1>1, <1>2, IdleType, UpdateInv

-----------------------------------------------------------------------------
(* Calls.                                                                  *)

(* A slot that was idle may take any call that names rows that exist.      *)
LEMMA BeginInv ==
  ASSUME Inv, NEW r \in Requests, NEW op \in Ops,
         NEW step \in {"findEmail", "findUnverified", "findVerified", "findToken",
                       "authenticate", "findSession", "guardSession"},
         NEW q \in RequestRecords, Begin(r, op, step, q),
         step \in OfUser => q.userId \in Users,
         step = "findEmail" => q.phone \in Phones,
         step = "findToken" => /\ q.token \in DOMAIN tokens
                               /\ tokens[q.token].mailed
                               /\ op \in {"verify", "reset"},
         step \in OfSession => q.session \in DOMAIN sessions,
         step = "guardSession" => op \in {"logout", "logoutAll", "change"}
  PROVE  Inv'
<1> DEFINE R == [q EXCEPT !.op = op, !.pc = step, !.seen = Len(sessions)]
<1>1. Len(sessions) \in Nat /\ TypeOK
  BY RowTypes DEF Inv
<1>2. R \in RequestRecords
  BY <1>1 DEF RequestRecords, Steps
<1>3. /\ R.op = op /\ R.pc = step /\ R.seen = Len(sessions)
      /\ R.session = q.session /\ R.userId = q.userId /\ R.token = q.token
      /\ R.phone = q.phone
  BY DEF RequestRecords
<1>4. requests' = [requests EXCEPT ![r] = R]
  BY DEF Begin
<1> HIDE DEF R
<1>5. requests'[r] = R /\ OnlyRequest(r) /\ requests' \in [Requests -> RequestRecords]
  BY <1>1, <1>2, <1>4 DEF TypeOK, OnlyRequest
<1>6. UNCHANGED <<users, sessions, tokens, credentials, hashes>> /\ calls' \in 0..MaxCalls
  BY <1>1, AuthAssumption DEF Begin, TypeOK
<1>7. TypeOK' /\ Grows /\ HeldRowsKept(r)
  BY <1>1, <1>5, <1>6 DEF TypeOK, Grows, HeldRowsKept
<1>8. SessionsInv' /\ AccountsInv'
  BY <1>6 DEF Inv, SessionsInv, References, Untraded, TradedOnce, AccountsInv,
              PhonesAreUnique, VerifiedByToken, NewestTokenStands
<1>9. Sound(R)
  BY <1>1, <1>3 DEF Sound, OfSession, OfUser, OfToken
<1>10. Sound(requests[r])'
  BY <1>5, <1>6, <1>9 DEF Sound, Serves
<1> QED
  BY <1>3, <1>5, <1>7, <1>8, <1>10, StepInv DEF Holders

(* What a browser sends along names a session.                             *)
LEMMA CredentialType ==
  ASSUME Inv, NEW d \in DOMAIN credentials
  PROVE  /\ WithCredential(d) \in RequestRecords
         /\ WithCredential(d).session = credentials[d].session
         /\ credentials[d].session \in DOMAIN sessions
         /\ credentials[d].session \in Nat /\ credentials[d].jwt \in Nat /\ d \in Nat
<1>1. credentials[d] \in CredentialRows /\ d \in Nat
  BY RowTypes DEF Inv
<1>2. credentials[d].session \in Nat /\ credentials[d].jwt \in Nat
  BY <1>1 DEF CredentialRows
<1>3. credentials[d].session \in DOMAIN sessions
  BY DEF Inv, SessionsInv, References
<1>4. WithCredential(d) \in RequestRecords
  BY <1>1, <1>2, IdleType DEF WithCredential, RequestRecords
<1>5. WithCredential(d).session = credentials[d].session
  BY DEF WithCredential, Idle
<1> QED
  BY <1>1, <1>2, <1>3, <1>4, <1>5

LEMMA CallInv ==
  ASSUME Inv, NEW r \in Requests, Call(r)
  PROVE  Inv'
<1>0. hashes \in Nat /\ \A t \in DOMAIN tokens : t \in Nat
  BY RowTypes DEF Inv
<1>1. ASSUME NEW u \in Users, NEW n \in Phones,
             Begin(r, "register", "findEmail", [Idle EXCEPT !.userId = u, !.phone = n])
      PROVE  Inv'
  <2> DEFINE q == [Idle EXCEPT !.userId = u, !.phone = n]
  <2>1. q \in RequestRecords /\ q.userId = u /\ q.phone = n
    BY IdleType DEF RequestRecords
  <2> HIDE DEF q
  <2>2. Begin(r, "register", "findEmail", q)
    BY <1>1 DEF q
  <2> QED
    BY <2>1, <2>2, BeginInv DEF Ops, OfSession
<1>2. ASSUME NEW u \in Users, NEW op \in {"resend", "forgot"},
             NEW step \in {"findUnverified", "findVerified"},
             Begin(r, op, step, [Idle EXCEPT !.userId = u])
      PROVE  Inv'
  <2> DEFINE q == [Idle EXCEPT !.userId = u]
  <2>1. q \in RequestRecords /\ q.userId = u
    BY IdleType DEF RequestRecords
  <2> HIDE DEF q
  <2>2. Begin(r, op, step, q)
    BY <1>2 DEF q
  <2> QED
    BY <2>1, <2>2, BeginInv DEF Ops, OfSession
<1>3. ASSUME NEW t \in DOMAIN tokens, tokens[t].mailed, NEW op \in {"verify", "reset"},
             Begin(r, op, "findToken", [Idle EXCEPT !.token = t])
      PROVE  Inv'
  <2> DEFINE q == [Idle EXCEPT !.token = t]
  <2>1. q \in RequestRecords /\ q.token = t
    BY <1>0, IdleType DEF RequestRecords
  <2> HIDE DEF q
  <2>2. Begin(r, op, "findToken", q)
    BY <1>3 DEF q
  <2> QED
    BY <1>3, <2>1, <2>2, BeginInv DEF Ops, OfSession, OfUser
<1>4. CASE CallLogin(r)
  <2>1. PICK u \in Users, p \in 1..hashes :
           Begin(r, "login", "authenticate", [Idle EXCEPT !.userId = u, !.password = p])
    BY <1>4 DEF CallLogin
  <2> DEFINE q == [Idle EXCEPT !.userId = u, !.password = p]
  <2>2. p \in Nat
    BY <1>0
  <2>3. q \in RequestRecords /\ q.userId = u
    BY <2>2, IdleType DEF RequestRecords
  <2> HIDE DEF q
  <2>4. Begin(r, "login", "authenticate", q)
    BY <2>1 DEF q
  <2> QED
    BY <2>3, <2>4, BeginInv DEF Ops, OfSession
<1>5. CASE CallRefresh(r)
  <2>1. PICK c \in DOMAIN credentials, d \in DOMAIN credentials :
           Begin(r, "refresh", "findSession",
                 [Idle EXCEPT !.session = credentials[c].session,
                              !.refresh = credentials[c].jwt, !.csrf = d])
    BY <1>5 DEF CallRefresh
  <2> DEFINE q == [Idle EXCEPT !.session = credentials[c].session,
                               !.refresh = credentials[c].jwt, !.csrf = d]
  <2>2. q \in RequestRecords /\ q.session = credentials[c].session
    BY CredentialType, IdleType DEF RequestRecords
  <2> HIDE DEF q
  <2>3. Begin(r, "refresh", "findSession", q)
    BY <2>1 DEF q
  <2> QED
    BY <2>2, <2>3, CredentialType, BeginInv DEF Ops, OfUser
<1>6. ASSUME NEW op \in {"logout", "logoutAll"}, NEW d \in DOMAIN credentials,
             Begin(r, op, "guardSession", WithCredential(d))
      PROVE  Inv'
  BY <1>6, CredentialType, BeginInv DEF Ops, OfUser
<1>7. CASE CallChange(r)
  <2>1. PICK d \in DOMAIN credentials, p \in 1..hashes :
           Begin(r, "change", "guardSession", [WithCredential(d) EXCEPT !.password = p])
    BY <1>7 DEF CallChange
  <2> DEFINE q == [WithCredential(d) EXCEPT !.password = p]
  <2>2. p \in Nat
    BY <1>0
  <2>3. q \in RequestRecords /\ q.session = credentials[d].session
    BY <2>2, CredentialType DEF RequestRecords
  <2> HIDE DEF q
  <2>4. Begin(r, "change", "guardSession", q)
    BY <2>1 DEF q
  <2> QED
    BY <2>3, <2>4, CredentialType, BeginInv DEF Ops, OfUser
<1> QED
  BY <1>1, <1>2, <1>3, <1>4, <1>5, <1>6, <1>7
     DEF Call, CallRegister, CallResend, CallForgot, CallVerify, CallReset, CallLogout,
         CallLogoutAll

-----------------------------------------------------------------------------
(* Steps that write no table.                                              *)

(* The record of a handler, and what it means.                             *)
LEMMA Mine ==
  ASSUME Inv, NEW r \in Requests
  PROVE  /\ requests[r] \in RequestRecords /\ Sound(requests[r])
         /\ requests[r].seen \in Nat /\ requests[r].token \in Nat
         /\ requests[r].session \in Nat /\ requests[r].hash \in Nat
         /\ requests[r].password \in Nat /\ requests[r].csrf \in Nat
<1>1. requests[r] \in RequestRecords
  BY RowTypes DEF Inv
<1> QED
  BY <1>1 DEF Inv, Handlers, RequestRecords

(* A handler that has passed a check moves on to the next step.            *)
LEMMA GoInv ==
  ASSUME Inv, NEW r \in Requests, NEW p \in Steps, Go(r, p), UNCHANGED Tables,
         \/ requests[r].pc = "findEmail" /\ p = "findPhone"
         \/ requests[r].pc = "findPhone" /\ p = "createUser"
         \/ requests[r].pc \in {"findUnverified", "findVerified"} /\ p = "purge"
         \/ requests[r].pc = "authenticate" /\ p = "createSession"
         \/ requests[r].pc = "findUser" /\ p = "rotate"
         \/ requests[r].pc = "rotate" /\ p = "replay"
  PROVE  Inv'
<1> DEFINE R == [requests[r] EXCEPT !.pc = p]
<1>1. R \in RequestRecords /\ requests' = [requests EXCEPT ![r] = R]
  BY Mine DEF RequestRecords, Go
<1>2. /\ R.pc = p /\ R.userId = requests[r].userId /\ R.token = requests[r].token
      /\ R.credential = requests[r].credential /\ R.csrf = requests[r].csrf
      /\ R.op = requests[r].op /\ R.phone = requests[r].phone
      /\ R.seen = requests[r].seen /\ R.session = requests[r].session
  BY Mine DEF RequestRecords
<1> HIDE DEF R
<1>3. Sound(R)
  BY <1>2, Mine DEF Sound, OfSession, OfUser, OfToken, Steps
<1> QED
  BY <1>1, <1>2, <1>3, UpdateInv DEF Holders

LEMMA LookUpInv ==
  ASSUME Inv, NEW r \in Requests,
         \/ FindEmail(r) \/ FindPhone(r) \/ FindUnverified(r) \/ FindVerified(r)
         \/ Authenticate(r) \/ FindUser(r)
  PROVE  Inv'
<1>1. UNCHANGED Tables
  BY DEF FindEmail, FindPhone, FindUnverified, FindVerified, Authenticate, FindUser, Tables
<1>2. \/ Reply(r)
      \/ Go(r, "findPhone") /\ requests[r].pc = "findEmail"
      \/ Go(r, "createUser") /\ requests[r].pc = "findPhone"
      \/ Go(r, "purge") /\ requests[r].pc \in {"findUnverified", "findVerified"}
      \/ Go(r, "createSession") /\ requests[r].pc = "authenticate"
      \/ Go(r, "rotate") /\ requests[r].pc = "findUser"
  BY DEF FindEmail, FindPhone, FindUnverified, FindVerified, Authenticate, FindUser, At
<1> QED
  BY <1>1, <1>2, RefuseInv, GoInv DEF Steps

LEMMA PurgeInv ==
  ASSUME Inv, NEW r \in Requests, Purge(r)
  PROVE  Inv'
<1> DEFINE D == {t \in DOMAIN tokens : /\ tokens[t].userId = requests[r].userId
                                       /\ tokens[t].type = TypeFor(requests[r].op)
                                       /\ ~tokens[t].used /\ ~tokens[t].deleted}
           R == [requests[r] EXCEPT !.pc = "insert", !.doomed = D]
<1>1. requests[r].pc = "purge" /\ UNCHANGED Tables /\ requests' = [requests EXCEPT ![r] = R]
  BY DEF Purge, At, Tables
<1>2. D \in SUBSET Nat
  BY RowTypes DEF Inv
<1>3. \A t \in D : /\ t \in DOMAIN tokens
                   /\ tokens[t].userId = requests[r].userId
                   /\ tokens[t].type = TypeFor(requests[r].op)
  OBVIOUS
<1> HIDE DEF D
<1>a. requests[r] \in RequestRecords
  BY Mine
<1>4. R \in RequestRecords
  BY <1>2, <1>a DEF RequestRecords, Steps
<1>5. /\ R.pc = "insert" /\ R.doomed = D /\ R.userId = requests[r].userId
      /\ R.op = requests[r].op /\ R.seen = requests[r].seen
  BY Mine DEF RequestRecords
<1> HIDE DEF R
<1>6. Sound(R)
  BY <1>1, <1>3, <1>5, Mine DEF Sound, OfSession, OfUser, OfToken, Steps
<1> QED
  BY <1>1, <1>4, <1>5, <1>6, UpdateInv DEF Holders

LEMMA FindTokenInv ==
  ASSUME Inv, NEW r \in Requests, FindToken(r)
  PROVE  Inv'
<1> DEFINE t == requests[r].token
           p == IF requests[r].op = "verify" THEN "verifyEmail" ELSE "resetRevoke"
           R == [requests[r] EXCEPT !.pc = p, !.userId = tokens[t].userId]
<1>1. CASE Reply(r)
  BY <1>1, RefuseInv DEF FindToken, Tables
<1>2. CASE ~Reply(r)
  <2>1. /\ requests' = [requests EXCEPT ![r] = R]
        /\ requests[r].pc = "findToken" /\ tokens[t].type = TypeFor(requests[r].op)
        /\ UNCHANGED Tables
    BY <1>2 DEF FindToken, At, TypeMatches, Tables
  <2>2. /\ t \in DOMAIN tokens /\ requests[r].op \in {"verify", "reset"}
        /\ tokens[t].mailed
    BY <2>1, Mine DEF Sound, OfToken
  <2>3. tokens[t] \in TokenRows
    BY <2>2, RowTypes DEF Inv
  <2>4. tokens[t].userId \in Users /\ p \in {"verifyEmail", "resetRevoke"}
    BY <2>3 DEF TokenRows
  <2>5. /\ requests[r].op = "verify" => p = "verifyEmail" /\ tokens[t].type = EMAIL
        /\ requests[r].op = "reset" => p = "resetRevoke" /\ tokens[t].type = RESET
    BY <2>1 DEF TypeFor
  <2> HIDE DEF p
  <2>a. requests[r] \in RequestRecords
    BY Mine
  <2>6. R \in RequestRecords
    BY <2>4, <2>a DEF RequestRecords, Steps
  <2>7. /\ R.pc = p /\ R.userId = tokens[t].userId /\ R.token = t
        /\ R.op = requests[r].op /\ R.seen = requests[r].seen
    BY Mine DEF RequestRecords
  <2> HIDE DEF R
  <2>8. Serves(R.token, R)
    BY <2>2, <2>4, <2>5, <2>7 DEF Serves
  <2>9. Sound(R)
    BY <2>2, <2>4, <2>7, <2>8, Mine DEF Sound, OfSession
  <2> QED
    BY <2>1, <2>4, <2>6, <2>7, <2>9, UpdateInv DEF Holders
<1> QED
  BY <1>1, <1>2

(* The row of a session that is there.                                     *)
LEMMA SessionRow ==
  ASSUME Inv, NEW s \in DOMAIN sessions
  PROVE  /\ sessions[s] \in SessionRows /\ sessions[s].userId \in Users
         /\ sessions[s].credential \in Nat /\ sessions[s].revoked \in BOOLEAN
         /\ sessions[s].credential \in DOMAIN credentials
         /\ credentials[sessions[s].credential].session = s
<1>1. sessions[s] \in SessionRows
  BY RowTypes DEF Inv
<1> QED
  BY <1>1 DEF SessionRows, Inv, SessionsInv, References

LEMMA FindSessionInv ==
  ASSUME Inv, NEW r \in Requests, FindSession(r)
  PROVE  Inv'
<1> DEFINE s == requests[r].session
           R == [requests[r] EXCEPT !.pc = "findUser", !.userId = sessions[s].userId,
                                    !.credential = sessions[s].credential]
<1>1. CASE Reply(r)
  BY <1>1, RefuseInv DEF FindSession, Tables
<1>2. CASE ~Reply(r)
  <2>1. /\ requests' = [requests EXCEPT ![r] = R]
        /\ requests[r].pc = "findSession"
        /\ sessions[s].credential = requests[r].csrf
        /\ UNCHANGED Tables
    BY <1>2 DEF FindSession, At, CsrfMatches, Tables
  <2>2. s \in DOMAIN sessions
    BY <2>1, Mine DEF Sound, OfSession
  <2>a. /\ requests[r] \in RequestRecords /\ sessions[s].userId \in Users
        /\ sessions[s].credential \in Nat
    BY <2>2, Mine, SessionRow
  <2>3. R \in RequestRecords
    BY <2>a DEF RequestRecords, Steps
  <2>4. /\ R.pc = "findUser" /\ R.userId = sessions[s].userId /\ R.session = s
        /\ R.credential = sessions[s].credential /\ R.csrf = requests[r].csrf
        /\ R.op = requests[r].op /\ R.seen = requests[r].seen
    BY Mine DEF RequestRecords
  <2> HIDE DEF R
  <2>5. Sound(R)
    BY <2>1, <2>2, <2>4, Mine, SessionRow DEF Sound, OfToken
  <2> QED
    BY <2>1, <2>3, <2>4, <2>5, UpdateInv DEF Holders
<1> QED
  BY <1>1, <1>2

LEMMA GuardSessionInv ==
  ASSUME Inv, NEW r \in Requests, GuardSession(r)
  PROVE  Inv'
<1> DEFINE s == requests[r].session
           R == [requests[r] EXCEPT !.pc = "guardUser", !.userId = sessions[s].userId]
<1>1. CASE Reply(r)
  BY <1>1, RefuseInv DEF GuardSession, Tables
<1>2. CASE ~Reply(r)
  <2>1. /\ requests' = [requests EXCEPT ![r] = R]
        /\ requests[r].pc = "guardSession" /\ UNCHANGED Tables
    BY <1>2 DEF GuardSession, At, Tables
  <2>2. s \in DOMAIN sessions
    BY <2>1, Mine DEF Sound, OfSession
  <2>a. /\ requests[r] \in RequestRecords /\ sessions[s].userId \in Users
        /\ sessions[s].credential \in Nat
    BY <2>2, Mine, SessionRow
  <2>3. R \in RequestRecords
    BY <2>a DEF RequestRecords, Steps
  <2>4. /\ R.pc = "guardUser" /\ R.userId = sessions[s].userId /\ R.session = s
        /\ R.op = requests[r].op /\ R.seen = requests[r].seen
    BY Mine DEF RequestRecords
  <2> HIDE DEF R
  <2>5. Sound(R)
    BY <2>1, <2>2, <2>4, Mine, SessionRow DEF Sound, OfToken
  <2> QED
    BY <2>1, <2>3, <2>4, <2>5, UpdateInv DEF Holders
<1> QED
  BY <1>1, <1>2

LEMMA GuardUserInv ==
  ASSUME Inv, NEW r \in Requests, GuardUser(r)
  PROVE  Inv'
<1> DEFINE u == requests[r].userId
           R == [requests[r] EXCEPT !.pc = requests[r].op, !.hash = users[u].hash]
<1>1. CASE Reply(r)
  BY <1>1, RefuseInv DEF GuardUser, Tables
<1>2. CASE ~Reply(r)
  <2>1. /\ requests' = [requests EXCEPT ![r] = R]
        /\ requests[r].pc = "guardUser" /\ users[u].registered
        /\ requests[r].op = "change" => users[u].hash = requests[r].password
        /\ UNCHANGED Tables
    BY <1>2 DEF GuardUser, At, Usable, Tables
  <2>2. /\ u \in Users /\ requests[r].session \in DOMAIN sessions
        /\ requests[r].op \in {"logout", "logoutAll", "change"}
    BY <2>1, Mine DEF Sound, OfSession, OfUser, Steps
  <2>3. users[u] \in UserRows
    BY <2>2, RowTypes DEF Inv
  <2>4. users[u].hash \in Nat
    BY <2>3 DEF UserRows
  <2>a. requests[r] \in RequestRecords
    BY Mine
  <2>5. R \in RequestRecords
    BY <2>2, <2>4, <2>a DEF RequestRecords, Steps
  <2>6. /\ R.pc = requests[r].op /\ R.hash = users[u].hash /\ R.userId = u
        /\ R.op = requests[r].op /\ R.password = requests[r].password
        /\ R.session = requests[r].session /\ R.seen = requests[r].seen
    BY Mine DEF RequestRecords
  <2> HIDE DEF R
  <2>7. Sound(R)
    BY <2>1, <2>2, <2>6, Mine DEF Sound, OfToken
  <2> QED
    BY <2>1, <2>2, <2>5, <2>6, <2>7, UpdateInv DEF Holders
<1> QED
  BY <1>1, <1>2

(* The sessions a bulk UPDATE reaches are all there are of the user.       *)
LEMMA AllDoomed ==
  ASSUME Inv, NEW q \in RequestRecords, Sound(q),
         \/ q.doomed = LiveSessionsOf(q.userId)
         \/ q.op = "change" /\ q.doomed = OtherSessionsOf(q.userId, q.session)
  PROVE  Doomed(q)
<1>1. \A s \in 1..q.seen : s \in DOMAIN sessions
  BY RowTypes DEF Inv, RequestRecords, Sound
<1> QED
  BY <1>1 DEF Doomed, LiveSessionsOf, OtherSessionsOf

LEMMA ResetRevokeInv ==
  ASSUME Inv, NEW r \in Requests, ResetRevoke(r)
  PROVE  Inv'
<1> DEFINE D == LiveSessionsOf(requests[r].userId)
           R == [requests[r] EXCEPT !.pc = "resetCommit", !.doomed = D]
<1>1. /\ requests[r].pc = "resetRevoke" /\ ~RowHeld(requests[r].userId)
      /\ UNCHANGED Tables /\ requests' = [requests EXCEPT ![r] = R]
  BY DEF ResetRevoke, At, Tables
<1>2. D \in SUBSET Nat
  BY RowTypes DEF Inv, LiveSessionsOf
<1> HIDE DEF D
<1>a. requests[r] \in RequestRecords
  BY Mine
<1>3. R \in RequestRecords
  BY <1>2, <1>a DEF RequestRecords, Steps
<1>4. /\ R.pc = "resetCommit" /\ R.doomed = D /\ R.userId = requests[r].userId
      /\ R.op = requests[r].op /\ R.seen = requests[r].seen /\ R.token = requests[r].token
  BY Mine DEF RequestRecords
<1> HIDE DEF R
<1>5. Sound(R)
  BY <1>1, <1>4, Mine DEF Sound, Serves, OfSession, OfUser, OfToken, Steps
<1>6. Doomed(R)
  BY <1>3, <1>4, <1>5, AllDoomed DEF D
<1>7. \A q \in Requests : requests[q].pc \in Holders => requests[q].userId # R.userId
  BY <1>1, <1>4 DEF RowHeld, Holders
<1> QED
  BY <1>1, <1>3, <1>4, <1>5, <1>6, <1>7, UpdateInv

LEMMA ChangeRevokeInv ==
  ASSUME Inv, NEW r \in Requests, ChangeRevoke(r)
  PROVE  Inv'
<1> DEFINE u == requests[r].userId
           D == OtherSessionsOf(u, requests[r].session)
           R == [requests[r] EXCEPT !.pc = "changeCommit", !.doomed = D]
<1>1. CASE Reply(r)
  BY <1>1, RefuseInv DEF ChangeRevoke, Tables
<1>2. CASE ~Reply(r)
  <2>1. /\ requests[r].pc = "change" /\ ~RowHeld(u) /\ users[u].hash = requests[r].hash
        /\ UNCHANGED Tables /\ requests' = [requests EXCEPT ![r] = R]
    BY <1>2 DEF ChangeRevoke, At, StillCurrent, Tables
  <2>2. D \in SUBSET Nat
    BY RowTypes DEF Inv, OtherSessionsOf, LiveSessionsOf
  <2> HIDE DEF D
  <2>a. requests[r] \in RequestRecords
    BY Mine
  <2>3. R \in RequestRecords
    BY <2>2, <2>a DEF RequestRecords, Steps
  <2>4. /\ R.pc = "changeCommit" /\ R.doomed = D /\ R.userId = u
        /\ R.op = requests[r].op /\ R.seen = requests[r].seen
        /\ R.session = requests[r].session /\ R.hash = requests[r].hash
        /\ R.password = requests[r].password
    BY Mine DEF RequestRecords
  <2> HIDE DEF R
  <2>5. Sound(R) /\ R.op = "change"
    BY <2>1, <2>4, Mine DEF Sound, OfSession, OfUser, OfToken, Steps
  <2>6. Doomed(R)
    BY <2>3, <2>4, <2>5, AllDoomed DEF D
  <2>7. \A q \in Requests : requests[q].pc \in Holders => requests[q].userId # R.userId
    BY <2>1, <2>4 DEF RowHeld, Holders
  <2> QED
    BY <2>1, <2>3, <2>4, <2>5, <2>6, <2>7, UpdateInv
<1> QED
  BY <1>1, <1>2

-----------------------------------------------------------------------------
(* Steps that write tables: what a write owes to the invariant, table by   *)
(* table.                                                                  *)

SessionsKept ==
    /\ sessions' \in Seq(SessionRows) /\ credentials' \in Seq(CredentialRows)
    /\ Len(credentials) <= Len(credentials')
    /\ Len(sessions) <= Len(sessions')
    /\ \A s \in DOMAIN sessions : /\ sessions'[s].userId = sessions[s].userId
                                  /\ sessions[s].revoked => sessions'[s].revoked
    /\ SessionsInv'

TokensKept ==
    /\ tokens' \in Seq(TokenRows)
    /\ Len(tokens) <= Len(tokens')
    /\ \A t \in DOMAIN tokens : /\ tokens'[t].userId = tokens[t].userId
                                /\ tokens'[t].type = tokens[t].type
                                /\ tokens[t].mailed => tokens'[t].mailed
                                /\ tokens[t].spent > 0 => tokens'[t].spent > 0
    /\ NewestTokenStands'

ProvenAddress(u) ==
    \E t \in DOMAIN tokens : /\ tokens[t].userId = u
                             /\ tokens[t].type = EMAIL
                             /\ tokens[t].mailed
                             /\ tokens[t].spent > 0

UsersKept ==
    /\ users' \in [Users -> UserRows]
    /\ \A u \in Users : users[u].registered => users'[u].registered
    /\ PhonesAreUnique'
    /\ \A u \in Users \ Members :
          users'[u].verified => users[u].verified \/ ProvenAddress(u)'

Kept == SessionsKept /\ TokensKept /\ UsersKept

(* A table that a step leaves alone.                                       *)
LEMMA SameKept ==
  ASSUME Inv
  PROVE  /\ UNCHANGED <<sessions, credentials>> => SessionsKept
         /\ UNCHANGED tokens => TokensKept
         /\ UNCHANGED users => UsersKept
<1>1. ASSUME UNCHANGED <<sessions, credentials>> PROVE SessionsKept
  BY <1>1, RowTypes DEF Inv, SessionsKept, SessionsInv, References, Untraded, TradedOnce
<1>2. ASSUME UNCHANGED tokens PROVE TokensKept
  BY <1>2, RowTypes DEF Inv, TokensKept, AccountsInv, NewestTokenStands
<1>3. ASSUME UNCHANGED users PROVE UsersKept
  BY <1>3, RowTypes DEF Inv, UsersKept, AccountsInv, PhonesAreUnique
<1> QED
  BY <1>1, <1>2, <1>3

(* What the tables owe is all that the invariant asks of them.             *)
LEMMA KeptAccounts ==
  ASSUME Inv, Kept
  PROVE  Grows /\ SessionsInv' /\ AccountsInv'
<1>1. Grows /\ SessionsInv' /\ PhonesAreUnique' /\ NewestTokenStands'
  BY DEF Kept, SessionsKept, TokensKept, UsersKept, Grows
<1>2. ASSUME NEW u \in Users \ Members, users'[u].verified PROVE ProvenAddress(u)'
  <2>1. CASE users[u].verified
    <3>1. PICK t \in DOMAIN tokens : /\ tokens[t].userId = u
                                     /\ tokens[t].type = EMAIL
                                     /\ tokens[t].mailed
                                     /\ tokens[t].spent > 0
      BY <2>1 DEF Inv, AccountsInv, VerifiedByToken
    <3>2. t \in DOMAIN tokens'
      BY <3>1, RowTypes DEF Inv, Kept, TokensKept
    <3> QED
      BY <3>1, <3>2 DEF Kept, TokensKept, ProvenAddress
  <2> QED
    BY <1>2, <2>1 DEF Kept, UsersKept
<1>3. VerifiedByToken'
  BY <1>2 DEF VerifiedByToken, ProvenAddress
<1> QED
  BY <1>1, <1>3 DEF AccountsInv

(* A handler that writes what the tables allow and ends.                   *)
LEMMA WriteInv ==
  ASSUME Inv, NEW r \in Requests, Reply(r), Kept, HeldRowsKept(r), hashes' \in Nat,
         UNCHANGED calls
  PROVE  Inv'
<1>1. Grows /\ SessionsInv' /\ AccountsInv'
  BY KeptAccounts
<1>2. /\ users' \in [Users -> UserRows] /\ sessions' \in Seq(SessionRows)
      /\ tokens' \in Seq(TokenRows) /\ credentials' \in Seq(CredentialRows)
  BY DEF Kept, SessionsKept, TokensKept, UsersKept
<1> QED
  BY <1>1, <1>2, ReplyInv

(* A write of one token row.                                               *)
LEMMA TokenEdit ==
  ASSUME Inv, NEW t \in DOMAIN tokens, NEW T \in TokenRows,
         tokens' = [tokens EXCEPT ![t] = T],
         T.userId = tokens[t].userId, T.type = tokens[t].type,
         T.deleted = tokens[t].deleted,
         tokens[t].mailed => T.mailed, tokens[t].spent > 0 => T.spent > 0
  PROVE  /\ TokensKept /\ DOMAIN tokens' = DOMAIN tokens
         /\ tokens'[t] = T
<1>1. tokens \in Seq(TokenRows) /\ t \in 1..Len(tokens)
  BY RowTypes DEF Inv
<1>2. tokens' \in Seq(TokenRows) /\ Len(tokens') = Len(tokens)
  BY <1>1, ExceptSeq
<1>3. /\ DOMAIN tokens' = DOMAIN tokens
      /\ \A x \in DOMAIN tokens : tokens'[x] = IF x = t THEN T ELSE tokens[x]
  BY <1>1
<1>4. \A x \in DOMAIN tokens : /\ tokens'[x].userId = tokens[x].userId
                               /\ tokens'[x].type = tokens[x].type
                               /\ tokens'[x].deleted = tokens[x].deleted
                               /\ tokens[x].mailed => tokens'[x].mailed
                               /\ tokens[x].spent > 0 => tokens'[x].spent > 0
  BY <1>3
<1>5. NewestTokenStands'
  BY <1>3, <1>4 DEF Inv, AccountsInv, NewestTokenStands
<1>6. Len(tokens) <= Len(tokens')
  BY <1>1, <1>2
<1> QED
  BY <1>1, <1>2, <1>3, <1>4, <1>5, <1>6 DEF TokensKept

(* The row of a token that is there.                                       *)
LEMMA TokenRow ==
  ASSUME Inv, NEW t \in DOMAIN tokens
  PROVE  /\ tokens[t] \in TokenRows /\ tokens[t].spent \in Nat
         /\ tokens[t].userId \in Users /\ tokens[t].type \in Types
<1>1. tokens[t] \in TokenRows
  BY RowTypes DEF Inv
<1> QED
  BY <1>1 DEF TokenRows

LEMMA SendMailInv ==
  ASSUME Inv, NEW r \in Requests, SendMail(r)
  PROVE  Inv'
<1> DEFINE t == requests[r].token
           T == [tokens[t] EXCEPT !.mailed = TRUE]
<1>1. /\ requests[r].pc = "mail" /\ Reply(r)
      /\ tokens' = [tokens EXCEPT ![t] = T] \/ UNCHANGED tokens
      /\ UNCHANGED <<users, sessions, credentials, hashes, calls>>
  BY DEF SendMail, At
<1>2. t \in DOMAIN tokens
  BY <1>1, Mine DEF Sound, OfToken
<1>a. tokens[t] \in TokenRows
  BY <1>2, TokenRow
<1>3. /\ T \in TokenRows /\ T.userId = tokens[t].userId /\ T.type = tokens[t].type
      /\ T.deleted = tokens[t].deleted /\ T.mailed /\ T.spent = tokens[t].spent
  BY <1>a DEF TokenRows
<1> HIDE DEF T
<1>4. TokensKept
  BY <1>1, <1>2, <1>3, TokenEdit, SameKept
<1>5. SessionsKept /\ UsersKept /\ HeldRowsKept(r) /\ hashes' \in Nat
  BY <1>1, SameKept, RowTypes DEF HeldRowsKept, Inv
<1> QED
  BY <1>1, <1>4, <1>5, WriteInv DEF Kept

(* Where a handler acts on a token.                                        *)
LEMMA SpendToken ==
  ASSUME Inv, NEW t \in DOMAIN tokens, MarkAsUsed(t)
  PROVE  /\ TokensKept /\ DOMAIN tokens' = DOMAIN tokens
         /\ tokens'[t].spent = tokens[t].spent + 1
         /\ tokens'[t].userId = tokens[t].userId
         /\ tokens'[t].type = tokens[t].type
<1> DEFINE n == tokens[t].spent + 1
           T == [tokens[t] EXCEPT !.used = TRUE, !.spent = n]
<1>1. tokens[t] \in TokenRows /\ tokens[t].spent \in Nat
  BY TokenRow
<1>2. n \in Nat /\ n > 0
  BY <1>1
<1>3. tokens' = [tokens EXCEPT ![t] = T]
  BY DEF MarkAsUsed
<1> HIDE DEF n
<1>4. T \in TokenRows
  BY <1>1, <1>2 DEF TokenRows
<1>5. /\ T.userId = tokens[t].userId /\ T.type = tokens[t].type
      /\ T.deleted = tokens[t].deleted /\ T.spent = n
      /\ tokens[t].mailed => T.mailed
  BY <1>1 DEF TokenRows
<1> HIDE DEF T
<1>6. TokensKept /\ DOMAIN tokens' = DOMAIN tokens /\ tokens'[t] = T
  BY <1>2, <1>3, <1>4, <1>5, TokenEdit
<1> QED
  BY <1>5, <1>6 DEF n

(* A write of one user row that keeps the phone number.                    *)
LEMMA UserEdit ==
  ASSUME Inv, NEW u \in Users, NEW U \in UserRows, users' = [users EXCEPT ![u] = U],
         U.registered = users[u].registered, U.phone = users[u].phone,
         U.verified /\ u \notin Members => users[u].verified \/ ProvenAddress(u)'
  PROVE  UsersKept
<1>1. users \in [Users -> UserRows]
  BY RowTypes DEF Inv
<1>2. \A v \in Users : users'[v] = IF v = u THEN U ELSE users[v]
  BY <1>1
<1>3. users' \in [Users -> UserRows]
  BY <1>1
<1>4. PhonesAreUnique'
  BY <1>2 DEF Inv, AccountsInv, PhonesAreUnique
<1> QED
  BY <1>2, <1>3, <1>4 DEF UsersKept

LEMMA VerifyEmailInv ==
  ASSUME Inv, NEW r \in Requests, VerifyEmail(r)
  PROVE  Inv'
<1>1. /\ requests[r].pc = "verifyEmail" /\ Reply(r)
      /\ UNCHANGED <<sessions, credentials, hashes, calls>>
  BY DEF VerifyEmail, At
<1>2. CASE UNCHANGED <<users, tokens>>
  BY <1>1, <1>2, RefuseInv DEF Tables
<1>a. requests[r].userId \in Users
  BY <1>1, Mine DEF Sound, OfUser, Steps
<1>b. PICK u \in Users, t \in {requests[r].token} : u = requests[r].userId
  BY <1>a
<1> DEFINE U == [users[u] EXCEPT !.verified = TRUE]
<1>3. CASE users' = [users EXCEPT ![u] = U] /\ MarkAsUsed(t)
  <2>1. /\ t \in DOMAIN tokens /\ tokens[t].mailed /\ tokens[t].userId = u
        /\ tokens[t].type = EMAIL
    BY <1>1, <1>b, Mine DEF Sound, Serves, OfToken
  <2>2. TokensKept /\ ProvenAddress(u)'
    <3>1. tokens[t].spent \in Nat
      BY <2>1, TokenRow
    <3> QED
      BY <1>3, <2>1, <3>1, SpendToken DEF ProvenAddress, TokensKept
  <2>a. users[u] \in UserRows
    BY <2>1, RowTypes DEF Inv
  <2>3. /\ U \in UserRows /\ U.registered = users[u].registered
        /\ U.phone = users[u].phone /\ U.hash = users[u].hash
    BY <2>a DEF UserRows
  <2> HIDE DEF U
  <2>4. UsersKept
    BY <1>3, <2>1, <2>2, <2>3, UserEdit
  <2>5. HeldRowsKept(r)
    BY <1>3, <2>1, <2>3, RowTypes DEF HeldRowsKept, Inv
  <2>6. SessionsKept /\ hashes' \in Nat
    BY <1>1, SameKept, RowTypes DEF Inv
  <2> QED
    BY <1>1, <2>2, <2>4, <2>5, <2>6, WriteInv DEF Kept
<1> QED
  BY <1>b, <1>2, <1>3 DEF VerifyEmail

(* What a revocation leaves.                                               *)
LEMMA RevokeKeeps ==
  ASSUME Inv, NEW S, sessions' = Revoke(S), UNCHANGED credentials
  PROVE  /\ SessionsKept /\ DOMAIN sessions' = DOMAIN sessions
         /\ \A s \in DOMAIN sessions \cap S : sessions'[s].revoked
<1>1. /\ sessions \in Seq(SessionRows) /\ DOMAIN sessions = 1..Len(sessions)
      /\ Len(sessions) \in Nat /\ credentials \in Seq(CredentialRows)
      /\ Len(credentials) \in Nat
  BY RowTypes DEF Inv
<1>2. \A s \in DOMAIN sessions : sessions[s] \in SessionRows
  BY <1>1
<1>3. /\ DOMAIN sessions' = DOMAIN sessions
      /\ \A s \in DOMAIN sessions :
            sessions'[s] = [sessions[s] EXCEPT !.revoked = @ \/ s \in S]
  BY DEF Revoke
<1>4. \A s \in DOMAIN sessions :
         /\ sessions'[s] \in SessionRows
         /\ sessions'[s].userId = sessions[s].userId
         /\ sessions'[s].credential = sessions[s].credential
         /\ sessions[s].revoked => sessions'[s].revoked
         /\ s \in S => sessions'[s].revoked
  BY <1>2, <1>3 DEF SessionRows
<1>5. sessions' \in Seq(SessionRows) /\ Len(sessions') = Len(sessions)
  <2>1. sessions' \in [1..Len(sessions) -> SessionRows]
    BY <1>1, <1>3, <1>4 DEF Revoke
  <2> QED
    BY <1>1, <2>1, SeqDef, LenProperties
<1>6. SessionsInv'
  BY <1>3, <1>4 DEF Inv, SessionsInv, References, Untraded, TradedOnce
<1> QED
  BY <1>1, <1>3, <1>4, <1>5, <1>6 DEF SessionsKept

LEMMA LogoutInv ==
  ASSUME Inv, NEW r \in Requests, Logout(r) \/ LogoutAll(r) \/ Replay(r)
  PROVE  Inv'
<1>1. PICK S : sessions' = Revoke(S)
  BY DEF Logout, LogoutAll, Replay
<1>2. Reply(r) /\ UNCHANGED <<users, tokens, credentials, hashes, calls>>
  BY DEF Logout, LogoutAll, Replay
<1>3. Kept /\ HeldRowsKept(r) /\ hashes' \in Nat
  BY <1>1, <1>2, SameKept, RevokeKeeps, RowTypes DEF Kept, HeldRowsKept, Inv
<1> QED
  BY <1>2, <1>3, WriteInv

(* Whoever holds a user row holds it alone.                                *)
LEMMA HashWrite ==
  ASSUME Inv, NEW r \in Requests, requests[r].pc \in Holders,
         users' = [users EXCEPT ![requests[r].userId].hash = hashes + 1]
  PROVE  UsersKept /\ HeldRowsKept(r)
<1> DEFINE u == requests[r].userId
           U == [users[u] EXCEPT !.hash = hashes + 1]
<1>b. u \in Users
  BY Mine DEF Sound, OfUser, Steps, Holders
<1>1. u \in Users /\ hashes + 1 \in Nat
  BY <1>b, RowTypes DEF Inv
<1>a. users[u] \in UserRows /\ users \in [Users -> UserRows]
  BY <1>1, RowTypes DEF Inv
<1>2. /\ U \in UserRows /\ U.registered = users[u].registered
      /\ U.phone = users[u].phone /\ U.verified = users[u].verified
  BY <1>1, <1>a DEF UserRows
<1> HIDE DEF U
<1>3. users' = [users EXCEPT ![u] = U]
  BY DEF U
<1>4. UsersKept
  BY <1>1, <1>2, <1>3, UserEdit
<1>5. \A q \in Requests \ {r} : requests[q].pc \in Holders => requests[q].userId # u
  BY DEF Inv, OneHolder
<1>6. HeldRowsKept(r)
  BY <1>3, <1>5, <1>a DEF HeldRowsKept, At, Holders
<1> QED
  BY <1>4, <1>6

LEMMA ResetCommitInv ==
  ASSUME Inv, NEW r \in Requests, ResetCommit(r)
  PROVE  Inv'
<1>1. /\ requests[r].pc = "resetCommit" /\ Reply(r) /\ UNCHANGED <<credentials, calls>>
  BY DEF ResetCommit, At
<1>2. CASE UNCHANGED <<users, tokens, sessions, hashes>>
  BY <1>1, <1>2, RefuseInv DEF Tables
<1>3. CASE /\ hashes' = hashes + 1
           /\ users' = [users EXCEPT ![requests[r].userId].hash = hashes + 1]
           /\ MarkAsUsed(requests[r].token)
           /\ sessions' = Revoke(requests[r].doomed)
  <2>1. requests[r].token \in DOMAIN tokens /\ hashes' \in Nat
    BY <1>1, <1>3, Mine, RowTypes DEF Sound, OfToken, Inv
  <2>2. Kept /\ HeldRowsKept(r)
    BY <1>1, <1>3, <2>1, SpendToken, RevokeKeeps, HashWrite DEF Kept, Holders
  <2> QED
    BY <1>1, <2>1, <2>2, WriteInv
<1> QED
  BY <1>2, <1>3 DEF ResetCommit

LEMMA ChangeCommitInv ==
  ASSUME Inv, NEW r \in Requests, ChangeCommit(r)
  PROVE  Inv'
<1>1. /\ requests[r].pc = "changeCommit" /\ Reply(r)
      /\ UNCHANGED <<tokens, credentials, calls>>
      /\ hashes' = hashes + 1
      /\ users' = [users EXCEPT ![requests[r].userId].hash = hashes + 1]
      /\ sessions' = Revoke(requests[r].doomed)
  BY DEF ChangeCommit, At
<1>2. SessionsKept /\ TokensKept
  BY <1>1, SameKept, RevokeKeeps
<1>3. UsersKept /\ HeldRowsKept(r)
  BY <1>1, HashWrite DEF Holders
<1>4. hashes' \in Nat
  BY <1>1, RowTypes DEF Inv
<1> QED
  BY <1>1, <1>2, <1>3, <1>4, WriteInv DEF Kept

(* New token rows.                                                         *)
LEMMA NewTokenType ==
  ASSUME NEW u \in Users, NEW type \in Types
  PROVE  /\ NewToken(u, type) \in TokenRows /\ ~NewToken(u, type).deleted
         /\ NewToken(u, type).userId = u /\ NewToken(u, type).type = type
  BY DEF NewToken, TokenRows

(* A row is appended, and rows of its user and type may have been deleted. *)
LEMMA TokenAppend ==
  ASSUME Inv, NEW P \in Seq(TokenRows), NEW D, NEW N \in TokenRows,
         Len(P) = Len(tokens), tokens' = Append(P, N), ~N.deleted,
         \A t \in DOMAIN tokens \cap D : /\ tokens[t].userId = N.userId
                                         /\ tokens[t].type = N.type,
         \A t \in DOMAIN tokens : /\ P[t].userId = tokens[t].userId
                                  /\ P[t].type = tokens[t].type
                                  /\ P[t].deleted => tokens[t].deleted \/ t \in D
                                  /\ tokens[t].mailed => P[t].mailed
                                  /\ P[t].spent = tokens[t].spent
  PROVE  TokensKept /\ Len(tokens') = Len(tokens) + 1
<1>1. DOMAIN tokens = 1..Len(tokens) /\ Len(tokens) \in Nat
  BY RowTypes DEF Inv
<1>2. /\ tokens' \in Seq(TokenRows) /\ Len(tokens') = Len(tokens) + 1
      /\ DOMAIN tokens' = 1..Len(tokens) + 1
      /\ \A t \in DOMAIN tokens : tokens'[t] = P[t]
      /\ tokens'[Len(tokens) + 1] = N
  BY <1>1, AppendProperties
<1>3. ASSUME NEW t \in DOMAIN tokens', tokens'[t].deleted
      PROVE  \E n \in DOMAIN tokens' : /\ n > t
                                       /\ tokens'[n].userId = tokens'[t].userId
                                       /\ tokens'[n].type = tokens'[t].type
                                       /\ ~tokens'[n].deleted
  <2>1. t \in DOMAIN tokens /\ P[t].deleted /\ tokens'[t] = P[t]
    BY <1>1, <1>2, <1>3
  <2>2. Len(tokens) + 1 \in DOMAIN tokens' /\ \A n \in DOMAIN tokens : Len(tokens) + 1 > n
    BY <1>1, <1>2
  <2>3. CASE t \in D
    BY <1>2, <2>1, <2>2, <2>3
  <2>4. CASE t \notin D
    <3>1. PICK n \in DOMAIN tokens : /\ n > t
                                     /\ tokens[n].userId = tokens[t].userId
                                     /\ tokens[n].type = tokens[t].type
                                     /\ ~tokens[n].deleted
      BY <2>1, <2>4 DEF Inv, AccountsInv, NewestTokenStands
    <3>2. CASE n \in D
      BY <1>2, <2>1, <2>2, <3>1, <3>2
    <3>3. CASE n \notin D
      BY <1>1, <1>2, <2>1, <3>1, <3>3
    <3> QED
      BY <3>2, <3>3
  <2> QED
    BY <2>3, <2>4
<1>4. NewestTokenStands'
  BY <1>3 DEF NewestTokenStands
<1>5. \A t \in DOMAIN tokens : /\ tokens'[t].userId = tokens[t].userId
                               /\ tokens'[t].type = tokens[t].type
                               /\ tokens[t].mailed => tokens'[t].mailed
                               /\ tokens[t].spent > 0 => tokens'[t].spent > 0
  BY <1>2
<1> QED
  BY <1>1, <1>2, <1>4, <1>5 DEF TokensKept

(* The handler goes on to mail the token it inserted.                      *)
LEMMA MailInv ==
  ASSUME Inv, NEW r \in Requests, Kept, HeldRowsKept(r), hashes' \in Nat, UNCHANGED calls,
         Len(tokens') = Len(tokens) + 1, requests[r].userId \in Users,
         requests' = [requests EXCEPT ![r].pc = "mail", ![r].token = Len(tokens) + 1]
  PROVE  Inv'
<1> DEFINE n == Len(tokens) + 1
           R == [requests[r] EXCEPT !.pc = "mail", !.token = n]
<1>1. requests[r] \in RequestRecords /\ n \in Nat
  BY Mine, RowTypes DEF Inv
<1>2. requests' = [requests EXCEPT ![r] = R]
  OBVIOUS
<1>3. n \in DOMAIN tokens' /\ tokens' \in Seq(TokenRows)
  BY RowTypes DEF Inv, Kept, TokensKept
<1> HIDE DEF n
<1>4. R \in RequestRecords
  BY <1>1 DEF RequestRecords, Steps
<1>5. R.pc = "mail" /\ R.token = n /\ R.userId = requests[r].userId
      /\ R.seen = requests[r].seen
  BY <1>1 DEF RequestRecords
<1> HIDE DEF R
<1>6. requests'[r] = R /\ OnlyRequest(r) /\ requests' \in [Requests -> RequestRecords]
  BY <1>2, <1>4, RowTypes DEF Inv, OnlyRequest
<1>7. Grows /\ SessionsInv' /\ AccountsInv'
  BY KeptAccounts
<1>8. TypeOK'
  BY <1>6 DEF Inv, TypeOK, Kept, SessionsKept, TokensKept, UsersKept
<1>9. R.seen <= Len(sessions')
  <2>1. /\ requests[r].seen \in Nat /\ requests[r].seen <= Len(sessions)
        /\ Len(sessions) \in Nat /\ Len(sessions') \in Nat
    BY <1>8, Mine, RowTypes DEF Sound, Inv, TypeOK
  <2> QED
    BY <1>5, <1>7, <2>1 DEF Grows
<1>10. Sound(requests[r])'
  BY <1>3, <1>5, <1>6, <1>9 DEF Sound, OfSession
<1> QED
  BY <1>5, <1>6, <1>7, <1>8, <1>10, StepInv DEF Holders

LEMMA InsertTokenInv ==
  ASSUME Inv, NEW r \in Requests, InsertToken(r)
  PROVE  Inv'
<1> DEFINE q == requests[r]
           P == Purged(q.doomed)
           N == NewToken(q.userId, TypeFor(q.op))
<1>1. /\ q.pc = "insert" /\ tokens' = Append(P, N)
      /\ UNCHANGED <<users, sessions, credentials, hashes, calls>>
  BY DEF InsertToken, At
<1>2. q.userId \in Users /\ TypeFor(q.op) \in Types
  BY <1>1, Mine DEF Sound, OfUser, Steps, TypeFor, Types
<1>3. N \in TokenRows /\ ~N.deleted /\ N.userId = q.userId /\ N.type = TypeFor(q.op)
  BY <1>2, NewTokenType
<1>4. \A t \in DOMAIN tokens \cap q.doomed : /\ tokens[t].userId = N.userId
                                             /\ tokens[t].type = N.type
  BY <1>1, <1>3, Mine DEF Sound
<1>5. /\ DOMAIN P = 1..Len(tokens) /\ Len(tokens) \in Nat
      /\ \A t \in 1..Len(tokens) :
            P[t] = [tokens[t] EXCEPT !.deleted = @ \/ (t \in q.doomed /\ ~tokens[t].used)]
  BY RowTypes DEF Inv, Purged
<1>6. \A t \in DOMAIN tokens : /\ P[t] \in TokenRows
                               /\ P[t].userId = tokens[t].userId
                               /\ P[t].type = tokens[t].type
                               /\ P[t].deleted => tokens[t].deleted \/ t \in q.doomed
                               /\ tokens[t].mailed => P[t].mailed
                               /\ P[t].spent = tokens[t].spent
  <2>1. \A t \in DOMAIN tokens : tokens[t] \in TokenRows /\ t \in 1..Len(tokens)
    BY RowTypes DEF Inv
  <2> HIDE DEF P
  <2> SUFFICES ASSUME NEW t \in DOMAIN tokens
               PROVE  /\ P[t] \in TokenRows
                      /\ P[t].userId = tokens[t].userId
                      /\ P[t].type = tokens[t].type
                      /\ P[t].deleted => tokens[t].deleted \/ t \in q.doomed
                      /\ tokens[t].mailed => P[t].mailed
                      /\ P[t].spent = tokens[t].spent
    OBVIOUS
  <2> DEFINE b == tokens[t].deleted \/ (t \in q.doomed /\ ~tokens[t].used)
  <2>2. b \in BOOLEAN /\ (b => tokens[t].deleted \/ t \in q.doomed)
    OBVIOUS
  <2>3. P[t] = [tokens[t] EXCEPT !.deleted = b] /\ tokens[t] \in TokenRows
    BY <1>5, <2>1
  <2> HIDE DEF b
  <2> QED
    BY <2>2, <2>3 DEF TokenRows
<1>7. P \in Seq(TokenRows) /\ Len(P) = Len(tokens)
  <2>1. P \in [1..Len(tokens) -> TokenRows]
    BY <1>5, <1>6, RowTypes DEF Inv, Purged
  <2> QED
    BY <1>5, <2>1, SeqDef, LenProperties
<1> HIDE DEF P, N
<1>8. TokensKept /\ Len(tokens') = Len(tokens) + 1
  BY <1>1, <1>3, <1>4, <1>6, <1>7, TokenAppend
<1>9. Kept /\ HeldRowsKept(r) /\ hashes' \in Nat
  BY <1>1, <1>8, SameKept, RowTypes DEF Kept, HeldRowsKept, Inv
<1> QED
  BY <1>1, <1>2, <1>8, <1>9, MailInv DEF InsertToken

LEMMA CreateUserInv ==
  ASSUME Inv, NEW r \in Requests, CreateUser(r)
  PROVE  Inv'
<1> DEFINE u == requests[r].userId
           n == requests[r].phone
           U == [registered |-> TRUE, phone |-> n, isActive |-> TRUE, verified |-> FALSE,
                 hash |-> hashes + 1]
           N == NewToken(u, EMAIL)
<1>1. requests[r].pc = "createUser" /\ UNCHANGED <<sessions, credentials, calls>>
  BY DEF CreateUser, At
<1>2. u \in Users /\ n \in Phones
  BY <1>1, Mine DEF Sound, OfUser, Steps
<1>3. CASE Refused(u, n)
  BY <1>1, <1>3, RefuseInv DEF CreateUser, Tables
<1>4. CASE ~Refused(u, n)
  <2>1. /\ hashes' = hashes + 1 /\ users' = [users EXCEPT ![u] = U]
        /\ tokens' = Append(tokens, N)
        /\ requests' = [requests EXCEPT ![r].pc = "mail", ![r].token = Len(tokens) + 1]
    BY <1>4 DEF CreateUser
  <2>2. hashes + 1 \in Nat
    BY RowTypes DEF Inv
  <2>3. U \in UserRows /\ U.registered /\ ~U.verified /\ U.phone = n
    BY <1>2, <2>2 DEF UserRows
  <2>4. N \in TokenRows /\ ~N.deleted
    BY <1>2, NewTokenType DEF Types
  <2> HIDE DEF U, N
  <2>5. TokensKept /\ Len(tokens') = Len(tokens) + 1
    <3>1. tokens \in Seq(TokenRows)
      BY RowTypes DEF Inv
    <3>2. \A t \in DOMAIN tokens \cap {} : /\ tokens[t].userId = N.userId
                                           /\ tokens[t].type = N.type
      OBVIOUS
    <3> QED
      BY <2>1, <2>4, <3>1, <3>2, TokenAppend
  <2>6. /\ \A v \in Users : users'[v] = IF v = u THEN U ELSE users[v]
        /\ users' \in [Users -> UserRows]
    BY <1>2, <2>1, <2>3, RowTypes DEF Inv
  <2>7. ~users[u].registered /\ \A v \in Users : users[v].registered => users[v].phone # n
    BY <1>4 DEF Refused, PhoneInUse
  <2>8. PhonesAreUnique'
    BY <2>3, <2>6, <2>7 DEF Inv, AccountsInv, PhonesAreUnique
  <2>9. UsersKept
    BY <2>3, <2>6, <2>8 DEF UsersKept
  <2>10. HeldRowsKept(r)
    <3>1. ASSUME NEW q \in Requests, At(q, "changeCommit")
          PROVE  requests[q].userId \in Users /\ users[requests[q].userId].registered
      BY <3>1, Mine DEF At, Sound, OfUser, Steps
    <3> QED
      BY <2>6, <2>7, <3>1 DEF HeldRowsKept
  <2> QED
    BY <1>1, <1>2, <2>1, <2>2, <2>5, <2>9, <2>10, SameKept, MailInv DEF Kept
<1> QED
  BY <1>3, <1>4

(* What credentials refer to, in numbers.                                  *)
LEMMA CredentialRow ==
  ASSUME Inv, NEW c \in DOMAIN credentials
  PROVE  /\ credentials[c] \in CredentialRows /\ c \in 1..Len(credentials)
         /\ credentials[c].session \in DOMAIN sessions
         /\ credentials[c].parent \in Nat /\ credentials[c].jwt \in Nat
         /\ credentials[c].parent <= Len(credentials)
<1>1. credentials[c] \in CredentialRows /\ c \in 1..Len(credentials)
  BY RowTypes DEF Inv
<1> QED
  BY <1>1 DEF CredentialRows, Inv, SessionsInv, References

(* A fresh credential, of whatever session.                                *)
LEMMA Issue ==
  ASSUME Inv, NEW C \in CredentialRows, credentials' = Append(credentials, C)
  PROVE  /\ credentials' \in Seq(CredentialRows)
         /\ Len(credentials') = Len(credentials) + 1
         /\ DOMAIN credentials' = 1..Len(credentials) + 1
         /\ \A c \in DOMAIN credentials : credentials'[c] = credentials[c]
         /\ credentials'[Len(credentials) + 1] = C
         /\ \A c \in DOMAIN credentials' : c \in DOMAIN credentials \/ c = Len(credentials) + 1
         /\ Len(credentials) \in Nat /\ DOMAIN credentials = 1..Len(credentials)
<1>1. credentials \in Seq(CredentialRows) /\ Len(credentials) \in Nat
  BY RowTypes DEF Inv
<1> QED
  BY <1>1, AppendProperties

LEMMA CreateSessionInv ==
  ASSUME Inv, NEW r \in Requests, CreateSession(r)
  PROVE  Inv'
<1> DEFINE new == Len(credentials) + 1
           fresh == Len(sessions) + 1
           S == [userId |-> requests[r].userId, credential |-> new, revoked |-> FALSE,
                 expired |-> FALSE, checked |-> requests[r].password]
           C == [session |-> fresh, jwt |-> new, parent |-> 0]
<1>1. sessions' = Append(sessions, S) /\ credentials' = Append(credentials, C)
      /\ Reply(r) /\ UNCHANGED <<users, tokens, hashes, calls>>
      /\ requests[r].pc = "createSession"
  BY DEF CreateSession, At
<1>2. requests[r].userId \in Users /\ requests[r].password \in Nat
  BY <1>1, Mine DEF Sound, OfUser, Steps
<1>3. /\ Len(sessions) \in Nat /\ DOMAIN sessions = 1..Len(sessions)
      /\ sessions \in Seq(SessionRows) /\ new \in Nat /\ fresh \in Nat
  BY RowTypes DEF Inv
<1>4. S \in SessionRows /\ C \in CredentialRows
      /\ S.credential = new /\ C.session = fresh /\ C.parent = 0
  BY <1>2, <1>3 DEF SessionRows, CredentialRows
<1> HIDE DEF S, C
<1>5. /\ sessions' \in Seq(SessionRows) /\ Len(sessions') = fresh
      /\ DOMAIN sessions' = 1..fresh
      /\ \A s \in DOMAIN sessions : sessions'[s] = sessions[s]
      /\ sessions'[fresh] = S
      /\ \A s \in DOMAIN sessions' : s \in DOMAIN sessions \/ s = fresh
  BY <1>1, <1>3, <1>4, AppendProperties
<1>6. /\ credentials' \in Seq(CredentialRows) /\ Len(credentials') = new
      /\ DOMAIN credentials' = 1..new
      /\ \A c \in DOMAIN credentials : credentials'[c] = credentials[c]
      /\ credentials'[new] = C
      /\ \A c \in DOMAIN credentials' : c \in DOMAIN credentials \/ c = new
      /\ Len(credentials) \in Nat /\ DOMAIN credentials = 1..Len(credentials)
  BY <1>1, <1>4, Issue
<1>7. References'
  <2>1. ASSUME NEW s \in DOMAIN sessions'
        PROVE  /\ sessions'[s].credential \in DOMAIN credentials'
               /\ credentials'[sessions'[s].credential].session = s
    <3>1. CASE s \in DOMAIN sessions
      BY <1>3, <1>5, <1>6, <3>1, SessionRow
    <3>2. CASE s = fresh
      BY <1>3, <1>4, <1>5, <1>6, <3>2
    <3> QED
      BY <1>5, <3>1, <3>2
  <2>2. ASSUME NEW c \in DOMAIN credentials'
        PROVE  /\ credentials'[c].session \in DOMAIN sessions'
               /\ credentials'[c].parent <= Len(credentials')
    <3>1. CASE c \in DOMAIN credentials
      BY <1>3, <1>5, <1>6, <3>1, CredentialRow
    <3>2. CASE c = new
      BY <1>3, <1>4, <1>5, <1>6, <3>2
    <3> QED
      BY <1>6, <3>1, <3>2
  <2> QED
    BY <2>1, <2>2 DEF References
<1>8. Untraded'
  <2>1. ASSUME NEW s \in DOMAIN sessions', NEW c \in DOMAIN credentials'
        PROVE  credentials'[c].parent # sessions'[s].credential
    <3>1. CASE c = new
      <4>1. credentials'[c].parent = 0
        BY <1>4, <1>6, <3>1
      <4>2. sessions'[s].credential \in 1..new
        BY <1>6, <1>7, <2>1 DEF References
      <4> QED
        BY <4>1, <4>2
    <3>2. CASE c \in DOMAIN credentials /\ s = fresh
      BY <1>4, <1>5, <1>6, <3>2, CredentialRow
    <3>3. CASE c \in DOMAIN credentials /\ s \in DOMAIN sessions
      BY <1>5, <1>6, <3>3 DEF Inv, SessionsInv, Untraded
    <3> QED
      BY <1>5, <1>6, <3>1, <3>2, <3>3
  <2> QED
    BY <2>1 DEF Untraded
<1>9. TradedOnce'
  BY <1>4, <1>6 DEF Inv, SessionsInv, TradedOnce
<1>10. SessionsKept
  BY <1>3, <1>5, <1>6, <1>7, <1>8, <1>9 DEF SessionsKept, SessionsInv
<1>11. Kept /\ HeldRowsKept(r) /\ hashes' \in Nat
  BY <1>1, <1>10, SameKept, RowTypes DEF Kept, HeldRowsKept, Inv
<1> QED
  BY <1>1, <1>11, WriteInv

(* The credential a rotation trades is the one that counts.                *)
LEMMA RotateSessions ==
  ASSUME Inv, NEW s \in DOMAIN sessions, NEW C \in CredentialRows, NEW S \in SessionRows,
         credentials' = Append(credentials, C), sessions' = [sessions EXCEPT ![s] = S],
         C.session = s, C.parent = sessions[s].credential,
         S.credential = Len(credentials) + 1, S.userId = sessions[s].userId,
         sessions[s].revoked => S.revoked
  PROVE  SessionsKept
<1> DEFINE new == Len(credentials) + 1
           old == sessions[s].credential
<1>1. /\ sessions \in Seq(SessionRows) /\ s \in 1..Len(sessions)
      /\ DOMAIN sessions = 1..Len(sessions) /\ Len(sessions) \in Nat
  BY RowTypes DEF Inv
<1>2. sessions' \in Seq(SessionRows) /\ Len(sessions') = Len(sessions)
  BY <1>1, ExceptSeq
<1>3. /\ DOMAIN sessions' = DOMAIN sessions
      /\ \A t \in DOMAIN sessions : sessions'[t] = IF t = s THEN S ELSE sessions[t]
  BY <1>1
<1>4. /\ credentials' \in Seq(CredentialRows) /\ Len(credentials') = new
      /\ DOMAIN credentials' = 1..new
      /\ \A c \in DOMAIN credentials : credentials'[c] = credentials[c]
      /\ credentials'[new] = C
      /\ \A c \in DOMAIN credentials' : c \in DOMAIN credentials \/ c = new
      /\ Len(credentials) \in Nat /\ DOMAIN credentials = 1..Len(credentials)
  BY Issue
<1>5. old \in DOMAIN credentials /\ credentials[old].session = s
  BY SessionRow
<1>6. References'
  <2>1. ASSUME NEW t \in DOMAIN sessions'
        PROVE  /\ sessions'[t].credential \in DOMAIN credentials'
               /\ credentials'[sessions'[t].credential].session = t
    BY <1>3, <1>4, SessionRow
  <2>2. ASSUME NEW c \in DOMAIN credentials'
        PROVE  /\ credentials'[c].session \in DOMAIN sessions'
               /\ credentials'[c].parent <= Len(credentials')
    <3>1. CASE c \in DOMAIN credentials
      BY <1>3, <1>4, <3>1, CredentialRow
    <3>2. CASE c = new
      BY <1>3, <1>4, <1>5, <3>2
    <3> QED
      BY <1>4, <3>1, <3>2
  <2> QED
    BY <2>1, <2>2 DEF References
<1>7. Untraded'
  <2>1. ASSUME NEW t \in DOMAIN sessions', NEW c \in DOMAIN credentials'
        PROVE  credentials'[c].parent # sessions'[t].credential
    <3>1. CASE c = new
      <4>1. credentials'[c].parent = old
        BY <1>4, <3>1
      <4>2. CASE t = s
        BY <1>3, <1>4, <1>5, <4>1, <4>2
      <4>3. CASE t # s
        BY <1>3, <1>5, <4>1, <4>3, SessionRow
      <4> QED
        BY <4>2, <4>3
    <3>2. CASE c \in DOMAIN credentials /\ t = s
      BY <1>3, <1>4, <3>2, CredentialRow
    <3>3. CASE c \in DOMAIN credentials /\ t # s
      BY <1>3, <1>4, <3>3 DEF Inv, SessionsInv, Untraded
    <3> QED
      BY <1>4, <3>1, <3>2, <3>3
  <2> QED
    BY <2>1 DEF Untraded
<1>8. TradedOnce'
  <2>1. \A c \in DOMAIN credentials : credentials[c].parent # old
    BY DEF Inv, SessionsInv, Untraded
  <2> QED
    BY <1>4, <2>1 DEF Inv, SessionsInv, TradedOnce
<1> QED
  BY <1>1, <1>2, <1>3, <1>4, <1>6, <1>7, <1>8 DEF SessionsKept, SessionsInv

LEMMA RotateInv ==
  ASSUME Inv, NEW r \in Requests, Rotate(r)
  PROVE  Inv'
<1> DEFINE s == requests[r].session
           new == Len(credentials) + 1
<1>1. /\ requests[r].pc = "rotate" /\ s \in DOMAIN sessions
      /\ requests[r].csrf \in DOMAIN credentials /\ requests[r].credential = requests[r].csrf
  BY Mine DEF Rotate, At, Sound, OfSession
<1>2. CASE ~Rotatable(s, requests[r].credential)
  BY <1>1, <1>2, GoInv DEF Rotate, Tables, Steps
<1>3. CASE Rotatable(s, requests[r].credential)
  <2>1. PICK jwt \in {credentials[requests[r].credential].jwt, new} :
           credentials' = Append(credentials,
                                 [session |-> s, jwt |-> jwt, parent |-> requests[r].csrf])
    BY <1>3 DEF Rotate
  <2>2. /\ sessions' = [sessions EXCEPT ![s] = [sessions[s] EXCEPT !.credential = new]]
        /\ Reply(r) /\ UNCHANGED <<users, tokens, hashes, calls>>
        /\ sessions[s].credential = requests[r].csrf
    BY <1>1, <1>3 DEF Rotate, Rotatable
  <2> DEFINE C == [session |-> s, jwt |-> jwt, parent |-> requests[r].csrf]
             S == [sessions[s] EXCEPT !.credential = new]
  <2>3. /\ sessions[s] \in SessionRows /\ new \in Nat /\ s \in Nat /\ requests[r].csrf \in Nat
        /\ credentials[requests[r].credential].jwt \in Nat
    BY <1>1, Mine, SessionRow, CredentialRow, RowTypes DEF Inv
  <2>4. C \in CredentialRows /\ C.session = s /\ C.parent = requests[r].csrf
    BY <2>1, <2>3 DEF CredentialRows
  <2>5. /\ S \in SessionRows /\ S.credential = new /\ S.userId = sessions[s].userId
        /\ sessions[s].revoked => S.revoked
    BY <2>3 DEF SessionRows
  <2>6. credentials' = Append(credentials, C) /\ sessions' = [sessions EXCEPT ![s] = S]
    BY <2>1, <2>2
  <2> HIDE DEF C, S
  <2>7. SessionsKept
    BY <1>1, <2>2, <2>4, <2>5, <2>6, RotateSessions
  <2>8. Kept /\ HeldRowsKept(r) /\ hashes' \in Nat
    BY <2>2, <2>7, SameKept, RowTypes DEF Kept, HeldRowsKept, Inv
  <2> QED
    BY <2>2, <2>8, WriteInv
<1> QED
  BY <1>2, <1>3

(* What happens to the tables while no handler moves.                      *)
LEMMA RowsInv ==
  ASSUME Inv, Kept, UNCHANGED <<requests, hashes, calls>>,
         \A u \in Users : users'[u].hash = users[u].hash
  PROVE  Inv'
<1>1. Grows /\ SessionsInv' /\ AccountsInv'
  BY KeptAccounts
<1>2. TypeOK'
  BY DEF Inv, TypeOK, Kept, SessionsKept, TokensKept, UsersKept
<1>3. \A r \in Requests : requests'[r] = requests[r] /\ requests[r] \in RequestRecords
  BY RowTypes DEF Inv
<1>4. Handlers'
  BY <1>1, <1>2, <1>3, SoundFrame DEF Inv, Handlers, Sound, Serves
<1>5. OldDoomed'
  BY <1>1, <1>3, DoomedFrame DEF Inv, Handlers, OldDoomed, Doomed
<1>6. OneHolder'
  <2>1. \A r \in Requests : requests[r].pc \in Holders => requests[r].userId \in Users
    BY Mine DEF Sound, OfUser, Steps, Holders
  <2> QED
    BY <1>3, <2>1 DEF Inv, OneHolder, At
<1> QED
  BY <1>1, <1>2, <1>4, <1>5, <1>6 DEF Inv

LEMMA ExpireInv ==
  ASSUME Inv, Expire
  PROVE  Inv'
<1>1. UNCHANGED <<users, credentials, requests, hashes, calls>>
  BY DEF Expire
<1>2. CASE (\E s \in DOMAIN sessions : sessions' = [sessions EXCEPT ![s].expired = TRUE])
           /\ UNCHANGED tokens
  <2>1. PICK s \in DOMAIN sessions : sessions' = [sessions EXCEPT ![s].expired = TRUE]
    BY <1>2
  <2> DEFINE S == [sessions[s] EXCEPT !.expired = TRUE]
  <2>2. sessions[s] \in SessionRows /\ sessions \in Seq(SessionRows) /\ s \in 1..Len(sessions)
    BY SessionRow, RowTypes DEF Inv
  <2>3. /\ S \in SessionRows /\ S.userId = sessions[s].userId
        /\ S.credential = sessions[s].credential
        /\ sessions[s].revoked => S.revoked
    BY <2>2 DEF SessionRows
  <2>4. sessions' = [sessions EXCEPT ![s] = S]
    BY <2>1
  <2> HIDE DEF S
  <2>5. sessions' \in Seq(SessionRows) /\ Len(sessions') = Len(sessions)
        /\ DOMAIN sessions' = DOMAIN sessions
    BY <2>2, <2>3, <2>4, ExceptSeq
  <2>6. \A x \in DOMAIN sessions : /\ sessions'[x].userId = sessions[x].userId
                                   /\ sessions'[x].credential = sessions[x].credential
                                   /\ sessions[x].revoked => sessions'[x].revoked
    BY <2>2, <2>3, <2>4
  <2>7. SessionsInv'
    <3>1. DOMAIN sessions' = DOMAIN sessions /\ credentials' = credentials
      BY <1>1, <2>5
    <3>2. References'
      BY <2>6, <3>1 DEF Inv, SessionsInv, References
    <3>3. Untraded' /\ TradedOnce'
      BY <2>6, <3>1 DEF Inv, SessionsInv, Untraded, TradedOnce
    <3> QED
      BY <3>2, <3>3 DEF SessionsInv
  <2>8. SessionsKept
    BY <1>1, <2>2, <2>5, <2>6, <2>7, RowTypes DEF SessionsKept, Inv
  <2> QED
    BY <1>1, <1>2, <2>8, SameKept, RowsInv DEF Kept
<1>3. CASE (\E t \in DOMAIN tokens : tokens' = [tokens EXCEPT ![t].expired = TRUE])
           /\ UNCHANGED sessions
  <2>1. PICK t \in DOMAIN tokens : tokens' = [tokens EXCEPT ![t].expired = TRUE]
    BY <1>3
  <2> DEFINE T == [tokens[t] EXCEPT !.expired = TRUE]
  <2>2. tokens[t] \in TokenRows
    BY TokenRow
  <2>3. /\ T \in TokenRows /\ T.userId = tokens[t].userId /\ T.type = tokens[t].type
        /\ T.deleted = tokens[t].deleted /\ T.spent = tokens[t].spent
        /\ tokens[t].mailed => T.mailed
    BY <2>2 DEF TokenRows
  <2>4. tokens' = [tokens EXCEPT ![t] = T]
    BY <2>1
  <2> HIDE DEF T
  <2>5. TokensKept
    BY <2>3, <2>4, TokenEdit
  <2> QED
    BY <1>1, <1>3, <2>5, SameKept, RowsInv DEF Kept
<1> QED
  BY <1>2, <1>3 DEF Expire

LEMMA DeactivateInv ==
  ASSUME Inv, NEW u \in Users, Deactivate(u)
  PROVE  Inv'
<1> DEFINE U == [users[u] EXCEPT !.isActive = FALSE]
<1>1. users' = [users EXCEPT ![u] = U]
      /\ UNCHANGED <<sessions, tokens, credentials, requests, hashes, calls>>
  BY DEF Deactivate
<1>2. users[u] \in UserRows /\ users \in [Users -> UserRows]
  BY RowTypes DEF Inv
<1>3. /\ U \in UserRows /\ U.registered = users[u].registered /\ U.phone = users[u].phone
      /\ U.verified => users[u].verified
      /\ U.hash = users[u].hash
  BY <1>2 DEF UserRows
<1> HIDE DEF U
<1>4. UsersKept
  BY <1>1, <1>3, UserEdit
<1>5. \A v \in Users : users'[v].hash = users[v].hash
  BY <1>1, <1>2, <1>3
<1> QED
  BY <1>1, <1>4, <1>5, SameKept, RowsInv DEF Kept

-----------------------------------------------------------------------------
(* The invariant holds throughout.                                         *)

LEMMA StepsInv ==
  ASSUME Inv, NEW r \in Requests, Step(r)
  PROVE  Inv'
<1>1. CASE \/ FindEmail(r) \/ FindPhone(r) \/ FindUnverified(r) \/ FindVerified(r)
           \/ Authenticate(r) \/ FindUser(r)
  BY <1>1, LookUpInv
<1>2. CASE CreateUser(r) \/ Purge(r) \/ InsertToken(r) \/ SendMail(r)
  BY <1>2, CreateUserInv, PurgeInv, InsertTokenInv, SendMailInv
<1>3. CASE FindToken(r) \/ VerifyEmail(r) \/ ResetRevoke(r) \/ ResetCommit(r)
  BY <1>3, FindTokenInv, VerifyEmailInv, ResetRevokeInv, ResetCommitInv
<1>4. CASE CreateSession(r) \/ FindSession(r) \/ Rotate(r)
  BY <1>4, CreateSessionInv, FindSessionInv, RotateInv
<1>5. CASE Replay(r) \/ Logout(r) \/ LogoutAll(r)
  BY <1>5, LogoutInv
<1>6. CASE GuardSession(r) \/ GuardUser(r) \/ ChangeRevoke(r) \/ ChangeCommit(r)
  BY <1>6, GuardSessionInv, GuardUserInv, ChangeRevokeInv, ChangeCommitInv
<1> QED
  BY <1>1, <1>2, <1>3, <1>4, <1>5, <1>6 DEF Step

LEMMA NextInv == Inv /\ [Next]_vars => Inv'
<1> SUFFICES ASSUME Inv, [Next]_vars PROVE Inv'
  OBVIOUS
<1>1. CASE \E r \in Requests : Call(r) \/ Step(r)
  BY <1>1, CallInv, StepsInv
<1>2. ASSUME NEW r \in Requests, Abort(r) PROVE Inv'
  BY <1>2, RefuseInv DEF Abort, Tables
<1>3. CASE Expire \/ \E u \in Users : Deactivate(u)
  BY <1>3, ExpireInv, DeactivateInv
<1>4. CASE UNCHANGED vars
  <2>1. Kept /\ UNCHANGED <<requests, hashes, calls>> /\ users' = users
    BY <1>4, SameKept DEF Kept, vars
  <2> QED
    BY <2>1, RowsInv
<1> QED
  BY <1>1, <1>2, <1>3, <1>4 DEF Next

(* The inductive invariant holds throughout.                               *)
THEOREM Invariance == Spec => []Inv
  BY InitInv, NextInv, PTL DEF Spec

(* Tables and handlers hold rows of their types.                           *)
THEOREM TypeCorrect == Spec => []TypeOK
<1>1. Inv => TypeOK
  BY DEF Inv
<1> QED
  BY <1>1, Invariance, PTL

(* A credential is traded in once, whichever refreshes race.               *)
THEOREM CredentialsTradeOnce == Spec => []TradedOnce
<1>1. Inv => TradedOnce
  BY DEF Inv, SessionsInv
<1> QED
  BY <1>1, Invariance, PTL

(* Two accounts never share a phone, whichever registrations race.         *)
THEOREM PhonesStayUnique == Spec => []PhonesAreUnique
<1>1. Inv => PhonesAreUnique
  BY DEF Inv, AccountsInv
<1> QED
  BY <1>1, Invariance, PTL

(* An account counts as verified only after a verification token of this   *)
(* account went out by mail and was spent.                                 *)
THEOREM VerifiedByOwnToken == Spec => []VerifiedByToken
<1>1. Inv => VerifiedByToken
  BY DEF Inv, AccountsInv
<1> QED
  BY <1>1, Invariance, PTL

(* Requests for new tokens that overlap leave the newest one standing.     *)
THEOREM NewestStands == Spec => []NewestTokenStands
<1>1. Inv => NewestTokenStands
  BY DEF Inv, AccountsInv
<1> QED
  BY <1>1, Invariance, PTL

-----------------------------------------------------------------------------
(* What a step may never do.                                               *)

LEMMA ReplyIdle ==
  ASSUME Inv, NEW r \in Requests, Reply(r)
  PROVE  requests'[r].pc = "idle"
  BY RowTypes, IdleType DEF Inv, Reply

(* The steps that write a user's row.                                      *)
LEMMA UserWriters ==
  ASSUME Next, users' # users
  PROVE  \/ \E r \in Requests : \/ CreateUser(r) \/ VerifyEmail(r) \/ ResetCommit(r)
                                \/ ChangeCommit(r)
         \/ \E u \in Users : Deactivate(u)
  BY DEF Next, Call, CallRegister, CallResend, CallForgot, CallVerify, CallReset, CallLogin,
         CallRefresh, CallLogout, CallLogoutAll, CallChange, Begin, Step, FindEmail,
         FindPhone, FindUnverified, FindVerified, Purge, InsertToken, SendMail, FindToken,
         ResetRevoke, Authenticate, CreateSession, FindSession, FindUser, Rotate, Replay,
         GuardSession, GuardUser, Logout, LogoutAll, ChangeRevoke, Abort, Expire

(* A row that a registration writes was nobody's.                          *)
LEMMA NobodysRow ==
  ASSUME Inv, NEW r \in Requests, CreateUser(r), NEW u \in Users, users[u].registered
  PROVE  users'[u] = users[u]
<1>1. \/ users' = users
      \/ /\ ~users[requests[r].userId].registered
         /\ \E U : users' = [users EXCEPT ![requests[r].userId] = U]
  BY DEF CreateUser, Refused
<1> QED
  BY <1>1, RowTypes DEF Inv

(* A registration never takes over an account, and a number or a verified  *)
(* address stays with its user.                                            *)
THEOREM AccountsKept == Spec => RegisteredOnce
<1> DEFINE Kept1(u) == users[u].registered => /\ users'[u].registered
                                              /\ users'[u].phone = users[u].phone
                                              /\ users[u].verified => users'[u].verified
<1>1. ASSUME Inv, Next, NEW u \in Users PROVE Kept1(u)
  <2>1. users[u] \in UserRows /\ users \in [Users -> UserRows]
    BY <1>1, RowTypes DEF Inv
  <2>2. CASE users' = users
    BY <2>2
  <2>3. ASSUME NEW r \in Requests, CreateUser(r) PROVE Kept1(u)
    BY <1>1, <2>3, NobodysRow
  <2>4. ASSUME NEW r \in Requests, VerifyEmail(r) PROVE Kept1(u)
    <3>1. users' = users \/ users' = [users EXCEPT ![requests[r].userId].verified = TRUE]
      BY <2>4 DEF VerifyEmail
    <3> QED
      BY <2>1, <3>1 DEF UserRows
  <2>5. ASSUME NEW r \in Requests, ResetCommit(r) \/ ChangeCommit(r) PROVE Kept1(u)
    <3>1. users' = users \/ users' = [users EXCEPT ![requests[r].userId].hash = hashes + 1]
      BY <2>5 DEF ResetCommit, ChangeCommit
    <3> QED
      BY <2>1, <3>1 DEF UserRows
  <2>6. ASSUME NEW v \in Users, Deactivate(v) PROVE Kept1(u)
    BY <2>1, <2>6 DEF Deactivate, UserRows
  <2> QED
    BY <1>1, <2>2, <2>3, <2>4, <2>5, <2>6, UserWriters
<1>2. ASSUME Inv, [Next]_vars PROVE [\A u \in Users : Kept1(u)]_vars
  BY <1>1, <1>2
<1> QED
  BY <1>2, Invariance, PTL DEF Spec, RegisteredOnce

(* Only the two commits replace a password, the one of whose row they hold.*)
LEMMA PasswordStep ==
  ASSUME Inv, Next, NEW u \in Users, users[u].registered, users'[u].hash # users[u].hash
  PROVE  \E r \in Requests : /\ requests[r].userId = u
                             /\ requests'[r].pc = "idle"
                             /\ sessions' = Revoke(requests[r].doomed)
                             /\ \/ At(r, "changeCommit")
                                \/ /\ At(r, "resetCommit")
                                   /\ ~RowGone(requests[r].token)
                                   /\ MarkAsUsed(requests[r].token)
<1>1. users[u] \in UserRows /\ users \in [Users -> UserRows]
  BY RowTypes DEF Inv
<1>2. ASSUME NEW r \in Requests, CreateUser(r) PROVE FALSE
  BY <1>2, NobodysRow
<1>3. ASSUME NEW r \in Requests, VerifyEmail(r) PROVE FALSE
  <2>1. users' = users \/ users' = [users EXCEPT ![requests[r].userId].verified = TRUE]
    BY <1>3 DEF VerifyEmail
  <2> QED
    BY <1>1, <2>1 DEF UserRows
<1>4. ASSUME NEW v \in Users, Deactivate(v) PROVE FALSE
  BY <1>1, <1>4 DEF Deactivate, UserRows
<1>5. PICK r \in Requests : ResetCommit(r) \/ ChangeCommit(r)
  BY <1>2, <1>3, <1>4, UserWriters
<1>6. users' = [users EXCEPT ![requests[r].userId].hash = hashes + 1]
  BY <1>5 DEF ResetCommit, ChangeCommit
<1>7. requests[r].userId = u
  BY <1>1, <1>6
<1>8. /\ sessions' = Revoke(requests[r].doomed)
      /\ \/ At(r, "changeCommit")
         \/ /\ At(r, "resetCommit")
            /\ ~RowGone(requests[r].token)
            /\ MarkAsUsed(requests[r].token)
  BY <1>5 DEF ResetCommit, ChangeCommit
<1>9. requests'[r].pc = "idle"
  BY <1>5, ReplyIdle DEF ResetCommit, ChangeCommit
<1> QED
  BY <1>7, <1>8, <1>9

(* A new password ends every session there was when the call began, but    *)
(* the one that asked for it.                                              *)
THEOREM NewPasswordEndsSessions == Spec => ChangeEndsSessions
<1> DEFINE Ends(u) ==
             users[u].registered /\ users'[u].hash # users[u].hash =>
                \E r \in Requests :
                   /\ requests[r].pc \in {"resetCommit", "changeCommit"}
                   /\ requests'[r].pc = "idle"
                   /\ \A s \in DOMAIN sessions :
                         s <= requests[r].seen /\ sessions[s].userId = u =>
                            \/ sessions'[s].revoked
                            \/ requests[r].op = "change" /\ requests[r].session = s
<1>1. ASSUME Inv, Next, NEW u \in Users PROVE Ends(u)
  <2>1. SUFFICES ASSUME users[u].registered, users'[u].hash # users[u].hash
                 PROVE  Ends(u)
    OBVIOUS
  <2>2. PICK r \in Requests : /\ requests[r].userId = u
                              /\ requests'[r].pc = "idle"
                              /\ sessions' = Revoke(requests[r].doomed)
                              /\ requests[r].pc \in Holders
    BY <1>1, <2>1, PasswordStep DEF At, Holders
  <2>3. ASSUME NEW s \in DOMAIN sessions, s <= requests[r].seen, sessions[s].userId = u
        PROVE  \/ sessions'[s].revoked
               \/ requests[r].op = "change" /\ requests[r].session = s
    <3>1. s \in 1..requests[r].seen
      BY <1>1, <2>3, Mine, RowTypes DEF Inv
    <3>2. \/ sessions[s].revoked \/ s \in requests[r].doomed
          \/ requests[r].op = "change" /\ requests[r].session = s
      BY <1>1, <2>2, <2>3, <3>1 DEF Inv, OldDoomed, Doomed
    <3>3. sessions'[s] = [sessions[s] EXCEPT !.revoked = @ \/ s \in requests[r].doomed]
      BY <2>2, <2>3 DEF Revoke
    <3> QED
      BY <1>1, <3>2, <3>3, SessionRow DEF SessionRows
  <2> QED
    BY <2>2, <2>3 DEF Holders
<1>2. ASSUME Inv, [Next]_vars PROVE [\A u \in Users : Ends(u)]_vars
  BY <1>1, <1>2
<1> QED
  BY <1>2, Invariance, PTL DEF Spec, ChangeEndsSessions

(* Whoever replaces a password proved to know it, or sends in a reset      *)
(* token of the account that went out by mail and stands.                  *)
THEOREM NewPasswordProven == Spec => ChangeIsProven
<1> DEFINE Proven(u) ==
             users[u].registered /\ users'[u].hash # users[u].hash =>
                \/ \E r \in Requests : /\ requests[r].pc = "changeCommit"
                                      /\ requests'[r].pc = "idle"
                                      /\ requests[r].userId = u
                                      /\ requests[r].password = users[u].hash
                \/ \E t \in DOMAIN tokens : /\ tokens'[t].spent # tokens[t].spent
                                           /\ tokens[t].type = RESET
                                           /\ tokens[t].userId = u
                                           /\ tokens[t].mailed
                                           /\ ~tokens[t].deleted
<1>1. ASSUME Inv, Next, NEW u \in Users PROVE Proven(u)
  <2>1. SUFFICES ASSUME users[u].registered, users'[u].hash # users[u].hash
                 PROVE  Proven(u)
    OBVIOUS
  <2>2. PICK r \in Requests : /\ requests[r].userId = u
                              /\ requests'[r].pc = "idle"
                              /\ \/ At(r, "changeCommit")
                                 \/ /\ At(r, "resetCommit")
                                    /\ ~RowGone(requests[r].token)
                                    /\ MarkAsUsed(requests[r].token)
    BY <1>1, <2>1, PasswordStep
  <2>3. CASE At(r, "changeCommit")
    <3>1. requests[r].password = requests[r].hash /\ requests[r].hash = users[u].hash
      BY <1>1, <2>2, <2>3, Mine DEF At, Sound, Inv, OneHolder, Holders
    <3> QED
      BY <2>2, <2>3, <3>1 DEF At
  <2>4. CASE /\ At(r, "resetCommit") /\ ~RowGone(requests[r].token)
             /\ MarkAsUsed(requests[r].token)
    <3> DEFINE t == requests[r].token
    <3>1. /\ t \in DOMAIN tokens /\ tokens[t].mailed /\ tokens[t].userId = u
          /\ tokens[t].type = RESET
      BY <1>1, <2>2, <2>4, Mine DEF At, Sound, Serves, OfToken
    <3>2. tokens'[t].spent = tokens[t].spent + 1 /\ tokens[t].spent \in Nat
      BY <1>1, <2>4, <3>1, SpendToken, TokenRow
    <3> QED
      BY <2>4, <3>1, <3>2 DEF RowGone
  <2> QED
    BY <2>2, <2>3, <2>4
<1>2. ASSUME Inv, [Next]_vars PROVE [\A u \in Users : Proven(u)]_vars
  BY <1>1, <1>2
<1> QED
  BY <1>2, Invariance, PTL DEF Spec, ChangeIsProven

-----------------------------------------------------------------------------
(* The refinement of SessionLife.                                          *)

Life == [owner : Users, credential : Nat, ended : BOOLEAN]

LifeOf(S) == [owner |-> S.userId, credential |-> S.credential, ended |-> S.revoked]

(* The mapping, row by row.                                                *)
RowByRow ==
    /\ Lives \in Seq(Life) /\ DOMAIN Lives = DOMAIN sessions
    /\ Len(Lives) = Len(sessions)
    /\ \A s \in DOMAIN sessions : Lives[s] = LifeOf(sessions[s])

LEMMA LivesRows == sessions \in Seq(SessionRows) => RowByRow
<1> SUFFICES ASSUME sessions \in Seq(SessionRows) PROVE RowByRow
  OBVIOUS
<1>1. \A s \in 1..Len(sessions) : sessions[s] \in SessionRows
  OBVIOUS
<1>2. \A s \in 1..Len(sessions) : LifeOf(sessions[s]) \in Life
  BY <1>1 DEF SessionRows, Life, LifeOf
<1>3. DOMAIN sessions = 1..Len(sessions) /\ Len(sessions) \in Nat
  OBVIOUS
<1>4. Lives = [s \in 1..Len(sessions) |-> LifeOf(sessions[s])]
  BY <1>3 DEF Lives, LifeOf
<1>5. Lives \in [1..Len(sessions) -> Life]
  BY <1>2, <1>4
<1>6. Lives \in Seq(Life) /\ Len(Lives) = Len(sessions)
  BY <1>3, <1>5, SeqDef, LenProperties
<1> QED
  BY <1>3, <1>4, <1>6 DEF RowByRow

(* ... and after a step.                                                   *)
LEMMA LivesRowsNext == (sessions \in Seq(SessionRows))' => RowByRow'
  BY LivesRows, PTL

LEMMA TradedSame ==
  ASSUME credentials' = credentials
  PROVE  Traded' = Traded
  BY DEF Traded

LEMMA TradedGrows ==
  ASSUME NEW C \in CredentialRows, credentials \in Seq(CredentialRows),
         credentials' = Append(credentials, C)
  PROVE  Traded' = (Traded \cup {C.parent}) \ {0}
<1>1. /\ DOMAIN credentials = 1..Len(credentials) /\ Len(credentials) \in Nat
      /\ DOMAIN credentials' = 1..Len(credentials) + 1
      /\ \A c \in 1..Len(credentials) : credentials'[c] = credentials[c]
      /\ credentials'[Len(credentials) + 1] = C
  BY AppendProperties
<1>2. ASSUME NEW x, x \in Traded' PROVE x \in (Traded \cup {C.parent}) \ {0}
  <2>1. PICK c \in DOMAIN credentials' : credentials'[c].parent = x
    BY <1>2 DEF Traded
  <2>2. c \in 1..Len(credentials) \/ c = Len(credentials) + 1
    BY <1>1
  <2> QED
    BY <2>1, <2>2, <1>1, <1>2 DEF Traded
<1>3. ASSUME NEW x, x \in (Traded \cup {C.parent}) \ {0} PROVE x \in Traded'
  <2>1. PICK c \in DOMAIN credentials' : credentials'[c].parent = x
    <3>1. CASE x = C.parent
      BY <1>1, <3>1
    <3>2. CASE x \in Traded
      <4>1. PICK c \in DOMAIN credentials : credentials[c].parent = x
        BY <3>2 DEF Traded
      <4> QED
        BY <4>1, <1>1
    <3> QED
      BY <1>3, <3>1, <3>2
  <2> QED
    BY <2>1, <1>3 DEF Traded
<1> QED
  BY <1>2, <1>3

(* A revocation ends sessions and touches nothing else.                    *)
LEMMA RevokeEnds ==
  ASSUME Inv, NEW S, sessions' = Revoke(S), UNCHANGED credentials
  PROVE  SessionLife!End(S \cap DOMAIN Lives)
<1>1. sessions \in Seq(SessionRows)
  BY DEF Inv, TypeOK
<1>2. DOMAIN Lives = DOMAIN sessions /\ \A s \in DOMAIN sessions : sessions[s] \in SessionRows
  BY <1>1, LivesRows DEF RowByRow
<1>3. Lives' = [s \in DOMAIN Lives |->
                  [Lives[s] EXCEPT !.ended = @ \/ s \in S \cap DOMAIN Lives]]
  <2>1. DOMAIN sessions' = DOMAIN sessions
    BY DEF Revoke
  <2>2. Lives' = [s \in DOMAIN sessions |-> LifeOf(sessions'[s])]
    BY <2>1 DEF Lives, LifeOf
  <2>3. ASSUME NEW s \in DOMAIN sessions
        PROVE  LifeOf(sessions'[s]) = [Lives[s] EXCEPT !.ended = @ \/ s \in S \cap DOMAIN Lives]
    <3>1. sessions'[s] = [sessions[s] EXCEPT !.revoked = @ \/ s \in S]
      BY DEF Revoke
    <3>2. /\ sessions'[s].userId = sessions[s].userId
          /\ sessions'[s].credential = sessions[s].credential
          /\ sessions'[s].revoked = (sessions[s].revoked \/ s \in S)
      BY <3>1, <1>2 DEF SessionRows
    <3>3. Lives[s] = LifeOf(sessions[s])
      BY <1>1, LivesRows DEF RowByRow
    <3>4. (s \in S \cap DOMAIN Lives) = (s \in S)
      BY <1>2
    <3> QED
      BY <3>2, <3>3, <3>4 DEF LifeOf
  <2> QED
    BY <1>2, <2>2, <2>3
<1> QED
  BY <1>3, TradedSame DEF SessionLife!End

LEMMA OpenStep ==
  ASSUME Inv, NEW r \in Requests, CreateSession(r)
  PROVE  SessionLife!Open
<1> DEFINE i == requests[r].userId
           c == Len(credentials) + 1
           S == [userId |-> i, credential |-> c, revoked |-> FALSE, expired |-> FALSE,
                 checked |-> requests[r].password]
           C == [session |-> Len(sessions) + 1, jwt |-> c, parent |-> 0]
           L == [owner |-> i, credential |-> c, ended |-> FALSE]
<1>1. sessions' = Append(sessions, S) /\ credentials' = Append(credentials, C)
      /\ requests[r].pc = "createSession"
  BY DEF CreateSession, At
<1>2. i \in Users /\ requests[r].password \in Nat
  BY <1>1, Mine DEF Sound, OfUser, Steps
<1>3. S \in SessionRows /\ C \in CredentialRows /\ C.parent = 0 /\ L \in Life /\ LifeOf(S) = L
  BY <1>2, RowTypes DEF SessionRows, CredentialRows, Life, LifeOf, Inv
<1> HIDE DEF S, C
<1>4. Len(credentials') = c /\ Traded' = Traded
  <2>1. Len(credentials') = c
    BY <1>1, <1>3, RowTypes, AppendProperties DEF Inv
  <2>2. Traded' = (Traded \cup {0}) \ {0}
    BY <1>1, <1>3, RowTypes, TradedGrows DEF Inv
  <2> QED
    BY <2>1, <2>2 DEF Traded
<1>5. /\ sessions' \in Seq(SessionRows) /\ Len(sessions') = Len(sessions) + 1
      /\ \A s \in 1..Len(sessions) : sessions'[s] = sessions[s]
      /\ sessions'[Len(sessions) + 1] = S
  BY <1>1, <1>3, RowTypes, AppendProperties DEF Inv
<1>6. /\ Lives' \in Seq(Life) /\ Len(Lives') = Len(sessions) + 1
      /\ DOMAIN Lives' = DOMAIN sessions'
      /\ \A s \in DOMAIN sessions' : Lives'[s] = LifeOf(sessions'[s])
  BY <1>5, LivesRowsNext DEF RowByRow, SessionRows
<1>7. Lives' = Append(Lives, L)
  <2>1. Lives \in Seq(Life) /\ Len(Lives) = Len(sessions)
        /\ \A s \in 1..Len(sessions) : Lives[s] = LifeOf(sessions[s])
    BY RowTypes, LivesRows DEF RowByRow, Inv
  <2>2. /\ Append(Lives, L) \in Seq(Life) /\ Len(Append(Lives, L)) = Len(sessions) + 1
        /\ \A s \in 1..Len(sessions) : Append(Lives, L)[s] = Lives[s]
        /\ Append(Lives, L)[Len(sessions) + 1] = L
    BY <1>3, <2>1, AppendProperties
  <2>3. ASSUME NEW s \in 1..Len(sessions) + 1 PROVE Lives'[s] = Append(Lives, L)[s]
    <3>1. s \in 1..Len(sessions) \/ s = Len(sessions) + 1
      BY RowTypes DEF Inv
    <3>2. s \in DOMAIN sessions'
      BY <1>5
    <3> QED
      BY <3>1, <3>2, <1>3, <1>5, <1>6, <2>1, <2>2
  <2> QED
    BY <1>6, <2>2, <2>3, SeqEqual
<1>8. i \in SessionLife!Owners(Lives')
  <2>1. Len(sessions) + 1 \in DOMAIN Lives'
    BY <1>5, <1>6, RowTypes DEF Inv
  <2>2. Lives'[Len(sessions) + 1].owner = i
    BY <1>3, <1>5, <1>6, <2>1 DEF LifeOf
  <2> QED
    BY <2>1, <2>2 DEF SessionLife!Owners
<1> QED
  BY <1>4, <1>7, <1>8 DEF SessionLife!Open

(* The rotation trades the credential that counts, of a live session.      *)
LEMMA TradeStep ==
  ASSUME Inv, NEW r \in Requests, Rotate(r),
         Rotatable(requests[r].session, requests[r].credential)
  PROVE  \E s \in DOMAIN Lives : SessionLife!Trade(s)
<1> DEFINE s == requests[r].session
           new == Len(credentials) + 1
           S == [sessions[s] EXCEPT !.credential = new]
<1>1. /\ requests[r].pc = "rotate" /\ s \in DOMAIN sessions
      /\ requests[r].credential = requests[r].csrf
      /\ requests[r].csrf \in DOMAIN credentials
  BY Mine DEF Rotate, At, Sound, OfSession
<1>2. /\ sessions[s].credential = requests[r].csrf /\ ~sessions[s].revoked
      /\ sessions' = [sessions EXCEPT ![s] = S]
  BY <1>1 DEF Rotate, Rotatable
<1>3. PICK jwt \in {credentials[requests[r].credential].jwt, new} :
         credentials' = Append(credentials,
                               [session |-> s, jwt |-> jwt, parent |-> requests[r].csrf])
  BY DEF Rotate
<1> DEFINE C == [session |-> s, jwt |-> jwt, parent |-> requests[r].csrf]
<1>4. credentials[requests[r].credential] \in CredentialRows /\ sessions[s] \in SessionRows
      /\ requests[r].csrf \in Nat /\ requests[r].csrf # 0 /\ new \in Nat /\ s \in Nat
  BY <1>1, RowTypes DEF Inv
<1>5. C \in CredentialRows /\ C.parent = requests[r].csrf
  <2>1. jwt \in Nat
    BY <1>3, <1>4 DEF CredentialRows
  <2> QED
    BY <2>1, <1>4 DEF CredentialRows
<1> HIDE DEF C
<1>6. Len(credentials') = new /\ Traded' = Traded \cup {sessions[s].credential}
  <2>1. credentials' = Append(credentials, C)
    BY <1>3 DEF C
  <2>2. Len(credentials') = new
    BY <2>1, <1>5, RowTypes, AppendProperties DEF Inv
  <2>3. Traded' = (Traded \cup {requests[r].csrf}) \ {0}
    BY <2>1, <1>5, RowTypes, TradedGrows DEF Inv
  <2> QED
    BY <2>2, <2>3, <1>2, <1>4 DEF Traded
<1>7. LifeOf(S) = [LifeOf(sessions[s]) EXCEPT !.credential = new]
  BY <1>4 DEF LifeOf, SessionRows
<1>8. /\ s \in DOMAIN Lives /\ Lives[s] = LifeOf(sessions[s])
      /\ DOMAIN Lives = DOMAIN sessions
      /\ \A t \in DOMAIN sessions : Lives[t] = LifeOf(sessions[t])
  BY <1>1, RowTypes, LivesRows DEF RowByRow, Inv
<1>9. Lives' = [Lives EXCEPT ![s].credential = new]
  <2> HIDE DEF S
  <2>1. /\ DOMAIN sessions' = DOMAIN sessions
        /\ \A t \in DOMAIN sessions : sessions'[t] = IF t = s THEN S ELSE sessions[t]
    BY <1>1, <1>2
  <2>2. Lives' = [t \in DOMAIN sessions |-> LifeOf(sessions'[t])]
    BY <2>1 DEF Lives, LifeOf
  <2>3. Lives = [t \in DOMAIN sessions |-> LifeOf(sessions[t])]
    BY DEF Lives, LifeOf
  <2>4. \A t \in DOMAIN sessions :
           LifeOf(sessions'[t]) = IF t = s THEN [LifeOf(sessions[s]) EXCEPT !.credential = new]
                                  ELSE LifeOf(sessions[t])
    BY <1>7, <2>1
  <2> QED
    BY <1>8, <2>2, <2>3, <2>4
<1>10. ~Lives[s].ended /\ Lives[s].credential = sessions[s].credential
  BY <1>2, <1>8 DEF LifeOf
<1> QED
  BY <1>6, <1>8, <1>9, <1>10 DEF SessionLife!Trade

(* Every step is a step of SessionLife or changes nothing it can see.      *)
LEMMA SessionStep ==
  ASSUME Inv, [Next]_vars
  PROVE  [SessionLife!Next]_<<Lives, Len(credentials), Traded>>
<1> DEFINE Same == UNCHANGED <<Lives, Len(credentials), Traded>>
<1>1. CASE UNCHANGED <<sessions, credentials>>
  <2>1. Same
    BY <1>1, TradedSame DEF Lives
  <2> QED
    BY <2>1
<1>2. ASSUME NEW r \in Requests, CreateSession(r) PROVE SessionLife!Next
  BY <1>2, OpenStep DEF SessionLife!Next
<1>3. ASSUME NEW r \in Requests, Rotate(r)
      PROVE  SessionLife!Next \/ UNCHANGED <<sessions, credentials>>
  BY <1>3, TradeStep DEF SessionLife!Next, Rotate
<1>4. ASSUME NEW S, sessions' = Revoke(S), UNCHANGED credentials
      PROVE  SessionLife!Next
  <2>1. SessionLife!End(S \cap DOMAIN Lives)
    BY <1>4, RevokeEnds
  <2> QED
    BY <2>1 DEF SessionLife!Next
<1>5. CASE Expire
  <2>1. \/ UNCHANGED sessions
        \/ \E s \in DOMAIN sessions : sessions' = [sessions EXCEPT ![s].expired = TRUE]
    BY <1>5 DEF Expire
  <2>2. \A t \in DOMAIN sessions : sessions[t] \in SessionRows
    BY SessionRow
  <2>3. /\ DOMAIN sessions' = DOMAIN sessions
        /\ \A t \in DOMAIN sessions : LifeOf(sessions'[t]) = LifeOf(sessions[t])
    BY <2>1, <2>2 DEF LifeOf, SessionRows
  <2>4. Lives' = Lives
    BY <2>3 DEF Lives, LifeOf
  <2>5. Same
    BY <1>5, <2>4, TradedSame DEF Expire
  <2> QED
    BY <2>5
<1>6. ASSUME NEW r \in Requests, Call(r) \/ Step(r) \/ Abort(r)
      PROVE  \/ UNCHANGED <<sessions, credentials>> \/ CreateSession(r) \/ Rotate(r)
             \/ UNCHANGED credentials /\ \E S : sessions' = Revoke(S)
  <2>1. CASE Replay(r) \/ Logout(r) \/ LogoutAll(r) \/ ResetCommit(r) \/ ChangeCommit(r)
    BY <2>1 DEF Replay, Logout, LogoutAll, ResetCommit, ChangeCommit
  <2>2. CASE Call(r) \/ Abort(r)
    BY <2>2 DEF Call, CallRegister, CallResend, CallForgot, CallVerify, CallReset, CallLogin,
           CallRefresh, CallLogout, CallLogoutAll, CallChange, Begin, Abort
  <2>3. CASE \/ FindEmail(r) \/ FindPhone(r) \/ CreateUser(r) \/ FindUnverified(r)
             \/ FindVerified(r) \/ Purge(r) \/ InsertToken(r) \/ SendMail(r)
             \/ FindToken(r) \/ VerifyEmail(r) \/ ResetRevoke(r) \/ Authenticate(r)
             \/ FindSession(r) \/ FindUser(r) \/ GuardSession(r) \/ GuardUser(r)
             \/ ChangeRevoke(r)
    BY <2>3 DEF FindEmail, FindPhone, CreateUser, FindUnverified, FindVerified, Purge,
           InsertToken, SendMail, FindToken, VerifyEmail, ResetRevoke, Authenticate,
           FindSession, FindUser, GuardSession, GuardUser, ChangeRevoke
  <2> QED
    BY <1>6, <2>1, <2>2, <2>3 DEF Step
<1>7. CASE (\E u \in Users : Deactivate(u)) \/ UNCHANGED vars
  BY <1>1, <1>7 DEF Deactivate, vars
<1> QED
  BY <1>1, <1>2, <1>3, <1>4, <1>5, <1>6, <1>7 DEF Next

(* The sessions of customers live as SessionLife says: a credential is     *)
(* traded once, for its successor, and an ended session stays ended.       *)
THEOREM SessionsImplemented == Spec => ImplementsSessions
<1>1. Init => SessionLife!Init
  <2> SUFFICES ASSUME Init PROVE SessionLife!Init
    OBVIOUS
  <2>1. sessions = <<>> /\ credentials = <<>>
    BY DEF Init
  <2>2. Lives = <<>>
    BY <2>1, LivesRows DEF RowByRow
  <2>3. Traded = {}
    BY <2>1 DEF Traded
  <2> QED
    BY <2>1, <2>2, <2>3 DEF SessionLife!Init
<1>2. Inv /\ [Next]_vars => [SessionLife!Next]_<<Lives, Len(credentials), Traded>>
  BY SessionStep
<1> QED
  BY <1>1, <1>2, Invariance, PTL DEF Spec, ImplementsSessions, SessionLife!Spec

-----------------------------------------------------------------------------
(* A replay is seen through: what keeps a session hunted until it ends.    *)

Ended(s) == s \in DOMAIN sessions /\ sessions[s].revoked

(* The handler has lost its rotation, or will find that it has.            *)
Loses(q) ==
    \/ q.pc = "replay"
    \/ q.pc = "rotate" /\ ~Rotatable(q.session, q.credential)

Hunts(r, s) == requests[r].session = s /\ Loses(requests[r])

Hunted(s) == Contended(s) \/ Ended(s) \/ \E r \in Requests : Hunts(r, s)

(* Sessions stay, ended ones ended, and a new credential is a fresh one.   *)
LEMMA SessionsMove ==
  ASSUME Inv, [Next]_vars, NEW s \in DOMAIN sessions
  PROVE  /\ s \in DOMAIN sessions'
         /\ sessions[s].revoked => sessions'[s].revoked
         /\ \/ sessions'[s].credential = sessions[s].credential
            \/ sessions'[s].credential = Len(credentials) + 1
<1>1. sessions \in Seq(SessionRows) /\ (sessions \in Seq(SessionRows))'
  BY NextInv DEF Inv, TypeOK
<1>2. RowByRow /\ RowByRow'
  BY <1>1, LivesRows, LivesRowsNext
<1>3. s \in DOMAIN Lives /\ Lives[s] = LifeOf(sessions[s])
  BY <1>2 DEF RowByRow
<1>4. /\ s \in DOMAIN Lives'
      /\ Lives[s].ended => Lives'[s].ended
      /\ Lives'[s].credential \in {Lives[s].credential, Len(credentials) + 1}
  <2>1. [SessionLife!Next]_<<Lives, Len(credentials), Traded>>
    BY SessionStep
  <2>2. CASE SessionLife!Open
    <3>1. PICK L : Lives' = Append(Lives, L) /\ L \in Life
      BY <2>2, <1>2 DEF SessionLife!Open, RowByRow
    <3> QED
      BY <3>1, <1>2, <1>3, AppendProperties DEF RowByRow
  <2>3. ASSUME NEW t \in DOMAIN Lives, SessionLife!Trade(t)
        PROVE  /\ s \in DOMAIN Lives'
               /\ Lives[s].ended => Lives'[s].ended
               /\ Lives'[s].credential \in {Lives[s].credential, Len(credentials) + 1}
    BY <2>3, <1>3 DEF SessionLife!Trade, LifeOf
  <2>4. ASSUME NEW S, SessionLife!End(S)
        PROVE  /\ s \in DOMAIN Lives'
               /\ Lives[s].ended => Lives'[s].ended
               /\ Lives'[s].credential \in {Lives[s].credential, Len(credentials) + 1}
    BY <2>4, <1>3 DEF SessionLife!End, LifeOf
  <2>5. CASE UNCHANGED <<Lives, Len(credentials), Traded>>
    BY <2>5, <1>3
  <2> QED
    BY <2>1, <2>2, <2>3, <2>4, <2>5 DEF SessionLife!Next
<1>5. s \in DOMAIN sessions' /\ Lives'[s] = LifeOf(sessions'[s])
  BY <1>2, <1>4 DEF RowByRow
<1> QED
  BY <1>3, <1>4, <1>5 DEF LifeOf

(* A step is one handler's.                                                *)
LEMMA OneMoves ==
  ASSUME Inv, NEW q \in Requests, Call(q) \/ Step(q) \/ Abort(q)
  PROVE  OnlyRequest(q)
<1>1. requests \in [Requests -> RequestRecords]
  BY RowTypes DEF Inv
<1>2. CASE Call(q) \/ Abort(q)
  BY <1>1, <1>2 DEF OnlyRequest, Call, CallRegister, CallResend, CallForgot, CallVerify,
     CallReset, CallLogin, CallRefresh, CallLogout, CallLogoutAll, CallChange, Begin,
     Abort, Reply
<1>3. CASE Step(q)
  BY <1>1, <1>3 DEF OnlyRequest, Step, FindEmail, FindPhone, CreateUser, FindUnverified,
     FindVerified, Purge, InsertToken, SendMail, FindToken, VerifyEmail, ResetRevoke,
     ResetCommit, Authenticate, CreateSession, FindSession, FindUser, Rotate, Replay,
     GuardSession, GuardUser, Logout, LogoutAll, ChangeRevoke, ChangeCommit, Go, Reply
<1> QED
  BY <1>2, <1>3

(* What a handler that is about to rotate or has lost does next.           *)
LEMMA Rotating ==
  ASSUME Inv, [Next]_vars, "abort" \notin Enabled, NEW r \in Requests,
         requests[r].pc \in {"rotate", "replay"}, requests'[r] # requests[r]
  PROVE  (Rotate(r) \/ Replay(r)) /\ OnlyRequest(r)
<1>1. ~\E u \in Users : Deactivate(u)
  BY DEF Deactivate
<1>2. ~Expire /\ ~UNCHANGED vars
  BY DEF Expire, vars
<1>3. PICK q \in Requests : Call(q) \/ Step(q)
  BY <1>1, <1>2 DEF Next, Abort
<1>4. OnlyRequest(q) /\ q = r
  BY <1>3, OneMoves DEF OnlyRequest
<1>5. ~Call(r)
  BY DEF Call, CallRegister, CallResend, CallForgot, CallVerify, CallReset, CallLogin,
     CallRefresh, CallLogout, CallLogoutAll, CallChange, Begin, At
<1>6. Rotate(r) \/ Replay(r)
  BY <1>3, <1>4, <1>5 DEF Step, FindEmail, FindPhone, CreateUser, FindUnverified,
     FindVerified, Purge, InsertToken, SendMail, FindToken, VerifyEmail, ResetRevoke,
     ResetCommit, Authenticate, CreateSession, FindSession, FindUser,
     GuardSession, GuardUser, Logout, LogoutAll, ChangeRevoke, ChangeCommit, At
<1> QED
  BY <1>4, <1>6

(* A handler that has lost stays lost, or ends the session.                *)
LEMMA LoserGoesOn ==
  ASSUME Inv, [Next]_vars, "abort" \notin Enabled, NEW s, NEW r \in Requests, Hunts(r, s)
  PROVE  Hunted(s)'
<1>1. /\ requests[r].session = s /\ s \in DOMAIN sessions
      /\ requests[r].pc \in {"rotate", "replay"}
  BY Mine DEF Hunts, Loses, Sound, OfSession
<1>2. /\ s \in DOMAIN sessions'
      /\ sessions[s].revoked => sessions'[s].revoked
      /\ \/ sessions'[s].credential = sessions[s].credential
         \/ sessions'[s].credential = Len(credentials) + 1
  BY <1>1, SessionsMove
<1>3. CASE requests'[r] = requests[r]
  <2>1. CASE requests[r].pc = "replay"
    BY <1>1, <1>3, <2>1 DEF Hunted, Hunts, Loses
  <2>2. CASE requests[r].pc = "rotate"
    <3>1. requests[r].credential \in DOMAIN credentials
      BY <2>2, Mine DEF Sound
    <3>2. requests[r].credential # Len(credentials) + 1
      BY <3>1, RowTypes DEF Inv
    <3>3. \/ sessions[s].revoked
          \/ sessions[s].credential # requests[r].credential
      BY <1>1, <2>2 DEF Hunts, Loses, Rotatable
    <3>4. \/ sessions'[s].revoked
          \/ sessions'[s].credential # requests[r].credential
      BY <1>2, <3>2, <3>3
    <3> QED
      BY <1>1, <1>3, <2>2, <3>4 DEF Hunted, Hunts, Loses, Rotatable
  <2> QED
    BY <1>1, <2>1, <2>2
<1>4. CASE Rotate(r)
  <2>1. requests[r].pc = "rotate"
    BY <1>4 DEF Rotate, At
  <2>2. ~Rotatable(s, requests[r].credential)
    BY <1>1, <2>1 DEF Hunts, Loses
  <2>3. Go(r, "replay")
    BY <1>1, <1>4, <2>2 DEF Rotate
  <2>4. requests'[r].pc = "replay" /\ requests'[r].session = s
    BY <1>1, <2>3, RowTypes DEF Go, Inv, RequestRecords
  <2> QED
    BY <2>4 DEF Hunted, Hunts, Loses
<1>5. CASE Replay(r)
  <2>1. sessions' = Revoke({s})
    BY <1>1, <1>5 DEF Replay
  <2>2. sessions[s] \in SessionRows
    BY <1>1, RowTypes DEF Inv
  <2>3. s \in DOMAIN sessions' /\ sessions'[s].revoked
    BY <1>1, <2>1, <2>2 DEF Revoke, SessionRows
  <2> QED
    BY <2>3 DEF Hunted, Ended
<1> QED
  BY <1>1, <1>3, <1>4, <1>5, Rotating

(* Of two that are about to rotate, one that succeeds leaves the other     *)
(* behind with a credential that no longer counts.                         *)
LEMMA ContentionGoesOn ==
  ASSUME Inv, [Next]_vars, "abort" \notin Enabled, NEW s, Contended(s)
  PROVE  Hunted(s)'
<1>1. PICK q \in Requests, r \in Requests :
         /\ q # r
         /\ requests[q].pc = "rotate" /\ requests[q].session = s
         /\ requests[r].pc = "rotate" /\ requests[r].session = s
  BY DEF Contended, At
<1>2. CASE Hunts(q, s) \/ Hunts(r, s)
  BY <1>2, LoserGoesOn
<1>3. ASSUME ~Hunts(q, s), ~Hunts(r, s) PROVE Hunted(s)'
  <2>1. Rotatable(s, requests[q].credential) /\ Rotatable(s, requests[r].credential)
    BY <1>1, <1>3 DEF Hunts, Loses
  <2>2. CASE requests'[q] = requests[q] /\ requests'[r] = requests[r]
    BY <1>1, <2>2 DEF Hunted, Contended, At
  <2>3. ASSUME NEW x \in Requests, NEW y \in Requests, x # y, requests'[x] # requests[x],
               requests[x].pc = "rotate", requests[x].session = s,
               Rotatable(s, requests[x].credential),
               requests[y].pc = "rotate", requests[y].session = s
        PROVE  Hunted(s)'
    <3>1. Rotate(x) /\ OnlyRequest(x)
      BY <2>3, Rotating DEF Replay, At
    <3>2. s \in DOMAIN sessions /\ sessions[s] \in SessionRows
      <4>1. s \in DOMAIN sessions
        BY <2>3, Mine DEF Sound, OfSession
      <4> QED
        BY <4>1, RowTypes DEF Inv
    <3>3. sessions' = [sessions EXCEPT ![s].credential = Len(credentials) + 1]
      BY <2>3, <3>1 DEF Rotate
    <3>4. sessions'[s].credential = Len(credentials) + 1
      BY <3>2, <3>3 DEF SessionRows
    <3>5. requests[y].credential \in DOMAIN credentials
      BY <2>3, Mine DEF Sound
    <3>6. requests[y].credential # Len(credentials) + 1
      BY <3>5, RowTypes DEF Inv
    <3>7. requests'[y] = requests[y]
      BY <2>3, <3>1 DEF OnlyRequest
    <3> QED
      BY <2>3, <3>4, <3>6, <3>7 DEF Hunted, Hunts, Loses, Rotatable
  <2> QED
    BY <1>1, <2>1, <2>2, <2>3
<1> QED
  BY <1>2, <1>3

(* Once two refreshes are about to rotate a session, there is until it has *)
(* ended a handler that will end it: the safety half of ReplayEndsSession, *)
(* where no handler is cut short.                                          *)
THEOREM ReplayIsSeenThrough ==
  ASSUME "abort" \notin Enabled, NEW s
  PROVE  Spec => [](Contended(s) => []Hunted(s))
<1>1. Contended(s) => Hunted(s)
  BY DEF Hunted
<1>2. Inv /\ [Next]_vars /\ Hunted(s) => Hunted(s)'
  <2> SUFFICES ASSUME Inv, [Next]_vars, Hunted(s) PROVE Hunted(s)'
    OBVIOUS
  <2>1. CASE Ended(s)
    BY <2>1, SessionsMove DEF Hunted, Ended
  <2> QED
    BY <2>1, LoserGoesOn, ContentionGoesOn DEF Hunted
<1> QED
  BY <1>1, <1>2, Invariance, PTL DEF Spec
=============================================================================
