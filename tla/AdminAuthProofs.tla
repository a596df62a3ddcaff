--------------------------- MODULE AdminAuthProofs ---------------------------
(***************************************************************************)
(* What AdminAuth guarantees for any number of administrators, sessions    *)
(* and requests, however they overlap.                                     *)
(***************************************************************************)
EXTENDS AdminAuth, SequenceTheorems, TLAPS

(* Where a handler has passed a check of its session, where it knows whose *)
(* it is, and what may stand behind the guards.                            *)
Passed == Acting \cup {"findAdmin", "guardAdmin", "replay"}
Known == (Passed \ {"replay"}) \cup {"createSession"}
Guarded == {"logout", "logoutAll", "change", "add", "edit"}

(* Foreign keys, and that a session's credential is its own.               *)
References ==
    /\ \A s \in DOMAIN sessions : /\ sessions[s].adminId \in DOMAIN admins
                                  /\ sessions[s].credential \in DOMAIN credentials
    /\ \A c \in DOMAIN credentials : credentials[c].session \in DOMAIN sessions

(* What a handler keeps across its awaits.                                 *)
Handler(r) ==
    LET q == requests[r] IN
    /\ q.pc \notin {"idle", "authenticate", "createSession"} => q.session \in DOMAIN sessions
    /\ q.pc \in Known => q.adminId \in DOMAIN admins
    /\ q.pc \in {"findAdmin", "rotate"} =>
          q.csrf \in DOMAIN credentials /\ q.credential = q.csrf
    /\ q.pc # "idle" /\ q.op = "add" => q.username \in Names
    /\ q.pc # "idle" /\ q.op = "edit" => q.target \in DOMAIN admins
    /\ q.pc \in {"add", "createAdmin"} => q.op = "add"
    /\ q.pc = "edit" => q.op = "edit"
    /\ q.pc \in {"guardSession", "guardAdmin"} => q.op \in Guarded
    /\ q.pc \in {"change", "changeCommit"} => q.hash = q.password
    /\ q.seen <= Len(sessions)

(* A session that had ended when the call began stays so.                  *)
LateIsEnded ==
    \A r \in Requests :
        requests[r].late => /\ requests[r].session \in DOMAIN sessions
                            /\ sessions[requests[r].session].revoked
                            /\ requests[r].pc \notin Passed

(* A change of password holds the row of its administrator alone, and the  *)
(* hash it compared with is still there.                                   *)
OneHolder ==
    \A r \in Requests :
        At(r, "changeCommit") =>
           /\ admins[requests[r].adminId].hash = requests[r].hash
           /\ \A q \in Requests \ {r} :
                 At(q, "changeCommit") => requests[q].adminId # requests[r].adminId

(* The sessions there were have ended, or will with the commit.            *)
OthersDoomed ==
    \A r \in Requests :
        At(r, "changeCommit") =>
           \A s \in 1..requests[r].seen :
              sessions[s].adminId = requests[r].adminId =>
                 sessions[s].revoked \/ s = requests[r].session \/ s \in requests[r].doomed

Handlers == \A r \in Requests : Handler(r)

Inv ==
    /\ TypeOK
    /\ References
    /\ Handlers
    /\ LateIsEnded
    /\ OneOfAName
    /\ OneHolder
    /\ OthersDoomed

-----------------------------------------------------------------------------
(* What no step undoes.                                                    *)
Grows ==
    /\ Len(admins) <= Len(admins')
    /\ Len(credentials) <= Len(credentials')
    /\ Len(sessions) <= Len(sessions')
    /\ \A s \in DOMAIN sessions : /\ sessions'[s].adminId = sessions[s].adminId
                                  /\ sessions[s].revoked => sessions'[s].revoked

OnlyRequest(r) == \A q \in Requests \ {r} : requests'[q] = requests[q]

(* The rows that other handlers hold keep their hash.                      *)
HeldRowsKept(r) ==
    \A q \in Requests \ {r} :
        At(q, "changeCommit") =>
           admins'[requests[q].adminId].hash = admins[requests[q].adminId].hash

Tables == <<admins, sessions, credentials, hashes, calls>>

-----------------------------------------------------------------------------
(* The record of an idle slot is of its type.                              *)
LEMMA IdleType == Idle \in RequestRecords
  BY DEF Idle, RequestRecords, Ops, Steps

(* The initial state satisfies the inductive invariant.                    *)
LEMMA InitInv == Init => Inv
<1> SUFFICES ASSUME Init PROVE Inv
  OBVIOUS
<1>1. /\ \A r \in Requests : requests[r] = Idle
      /\ requests \in [Requests -> RequestRecords]
  BY IdleType DEF Init
<1>2. admins \in Seq(AdminRows) /\ Len(admins) = 1
  BY AdminAssumption DEF Init, AdminRows
<1>3. sessions = <<>> /\ credentials = <<>> /\ hashes = 1 /\ calls = 0
  BY DEF Init
<1>4. TypeOK
  BY <1>1, <1>2, <1>3, AdminAssumption DEF TypeOK
<1>5. References /\ OneOfAName
  BY <1>2, <1>3 DEF References, OneOfAName
<1>6. Handlers /\ LateIsEnded /\ OneHolder /\ OthersDoomed
  BY <1>1, <1>3 DEF Handlers, Handler, LateIsEnded, OneHolder, OthersDoomed, At, Idle,
                    Known, Passed, Acting
<1> QED
  BY <1>4, <1>5, <1>6 DEF Inv

(* The locals of the other handlers mean the same after a step of r.       *)
LEMMA OthersFrame ==
  ASSUME Inv, TypeOK', NEW r \in Requests, OnlyRequest(r), Grows,
         NEW q \in Requests \ {r}
  PROVE  /\ Handler(q)'
         /\ requests'[q].late => /\ requests'[q].session \in DOMAIN sessions'
                                 /\ sessions'[requests'[q].session].revoked
                                 /\ requests'[q].pc \notin Passed
         /\ At(q, "changeCommit")' =>
               \A s \in 1..requests'[q].seen :
                  sessions'[s].adminId = requests'[q].adminId =>
                     \/ sessions'[s].revoked
                     \/ s = requests'[q].session
                     \/ s \in requests'[q].doomed
<1>1. requests'[q] = requests[q] /\ Handler(q)
  BY DEF OnlyRequest, Inv, Handlers
<1>2. /\ Len(admins) \in Nat /\ Len(admins') \in Nat
      /\ Len(credentials) \in Nat /\ Len(credentials') \in Nat
      /\ Len(sessions) \in Nat /\ Len(sessions') \in Nat
      /\ DOMAIN admins = 1..Len(admins) /\ DOMAIN admins' = 1..Len(admins')
      /\ DOMAIN credentials = 1..Len(credentials)
      /\ DOMAIN credentials' = 1..Len(credentials')
      /\ DOMAIN sessions = 1..Len(sessions) /\ DOMAIN sessions' = 1..Len(sessions')
  BY DEF Inv, TypeOK
<1>3. requests[q].seen \in Nat
  BY DEF Inv, TypeOK, RequestRecords
<1>4. Handler(q)'
  BY <1>1, <1>2, <1>3 DEF Handler, Grows
<1>5. requests'[q].late => /\ requests'[q].session \in DOMAIN sessions'
                           /\ sessions'[requests'[q].session].revoked
                           /\ requests'[q].pc \notin Passed
  BY <1>1, <1>2 DEF Inv, LateIsEnded, Grows
<1>6. ASSUME At(q, "changeCommit")', NEW s \in 1..requests'[q].seen,
             sessions'[s].adminId = requests'[q].adminId
      PROVE  \/ sessions'[s].revoked
             \/ s = requests'[q].session
             \/ s \in requests'[q].doomed
  <2>1. At(q, "changeCommit") /\ s \in 1..requests[q].seen
    BY <1>1, <1>6 DEF At
  <2>2. s \in DOMAIN sessions
    BY <1>1, <1>2, <1>3, <2>1 DEF Handler
  <2>3. sessions[s].adminId = requests[q].adminId
    BY <1>1, <1>6, <2>2 DEF Grows
  <2> QED
    BY <1>1, <2>1, <2>2, <2>3 DEF Inv, OthersDoomed, Grows
<1> QED
  BY <1>4, <1>5, <1>6

(* A step of r keeps the invariant if it leaves r's own record sound.      *)
LEMMA StepInv ==
  ASSUME Inv, TypeOK', NEW r \in Requests, OnlyRequest(r), Grows,
         References', OneOfAName', HeldRowsKept(r),
         Handler(r)',
         requests'[r].late => /\ requests'[r].session \in DOMAIN sessions'
                              /\ sessions'[requests'[r].session].revoked
                              /\ requests'[r].pc \notin Passed,
         requests'[r].pc = "changeCommit" =>
            /\ admins'[requests'[r].adminId].hash = requests'[r].hash
            /\ \A q \in Requests \ {r} :
                  At(q, "changeCommit") => requests[q].adminId # requests'[r].adminId
            /\ \A s \in 1..requests'[r].seen :
                  sessions'[s].adminId = requests'[r].adminId =>
                     \/ sessions'[s].revoked
                     \/ s = requests'[r].session
                     \/ s \in requests'[r].doomed
  PROVE  Inv'
<1>1. \A q \in Requests \ {r} : requests'[q] = requests[q]
  BY DEF OnlyRequest
<1>2. Handlers'
  BY OthersFrame DEF Handlers
<1>3. LateIsEnded'
  BY OthersFrame DEF LateIsEnded
<1>4. OthersDoomed'
  BY OthersFrame DEF OthersDoomed, At
<1>5. OneHolder'
  BY <1>1 DEF Inv, OneHolder, At, HeldRowsKept
<1> QED
  BY <1>2, <1>3, <1>4, <1>5 DEF Inv

(* A handler that moves on without writing a table.                        *)
LEMMA MoveInv ==
  ASSUME Inv, NEW r \in Requests, OnlyRequest(r), UNCHANGED Tables,
         requests' \in [Requests -> RequestRecords],
         Handler(r)',
         requests'[r].late => /\ requests'[r].session \in DOMAIN sessions
                              /\ sessions[requests'[r].session].revoked
                              /\ requests'[r].pc \notin Passed,
         requests'[r].pc # "changeCommit"
  PROVE  Inv'
<1>1. TypeOK' /\ References' /\ OneOfAName' /\ HeldRowsKept(r)
  BY DEF Inv, Tables, TypeOK, References, OneOfAName, HeldRowsKept
<1>2. Grows
  BY DEF Inv, TypeOK, Tables, Grows
<1>3. requests'[r].late => /\ requests'[r].session \in DOMAIN sessions'
                           /\ sessions'[requests'[r].session].revoked
  BY DEF Tables
<1> QED
  BY <1>1, <1>2, <1>3, StepInv

(* A handler that ends, whatever it wrote.                                 *)
LEMMA ReplyInv ==
  ASSUME Inv, NEW r \in Requests, Reply(r), Grows, References', OneOfAName',
         HeldRowsKept(r),
         admins' \in Seq(AdminRows), sessions' \in Seq(SessionRows),
         credentials' \in Seq(CredentialRows), hashes' \in Nat, UNCHANGED calls
  PROVE  Inv'
<1>1. /\ requests'[r] = Idle /\ OnlyRequest(r)
      /\ requests' \in [Requests -> RequestRecords]
  BY IdleType DEF Inv, TypeOK, Reply, OnlyRequest
<1>2. TypeOK'
  BY <1>1 DEF Inv, TypeOK
<1>3. Len(sessions') \in Nat
  OBVIOUS
<1>4. Handler(r)' /\ ~requests'[r].late /\ requests'[r].pc = "idle"
  BY <1>1, <1>3 DEF Handler, Idle, Known, Passed, Acting
<1> QED
  BY <1>1, <1>2, <1>4, StepInv

-----------------------------------------------------------------------------
(* Calls.                                                                  *)

(* A slot that was idle may take any call that names rows that exist.      *)
LEMMA BeginInv ==
  ASSUME Inv, NEW r \in Requests, NEW op \in Ops,
         NEW step \in {"authenticate", "findSession", "guardSession"},
         NEW q \in RequestRecords, Begin(r, op, step, q),
         step # "authenticate" => q.session \in DOMAIN sessions,
         q.session # 0 => q.session \in DOMAIN sessions,
         step = "guardSession" => op \in Guarded,
         op = "add" => q.username \in Names,
         op = "edit" => q.target \in DOMAIN admins
  PROVE  Inv'
<1> DEFINE late == q.session # 0 /\ sessions[q.session].revoked
           R == [q EXCEPT !.op = op, !.pc = step, !.late = late, !.seen = Len(sessions)]
<1>1. late \in BOOLEAN /\ Len(sessions) \in Nat /\ Len(admins) \in Nat
      /\ Len(credentials) \in Nat
  BY DEF Inv, TypeOK
<1>2. R \in RequestRecords
  BY <1>1 DEF RequestRecords, Steps
<1>3. /\ R.op = op /\ R.pc = step /\ R.late = late /\ R.seen = Len(sessions)
      /\ R.session = q.session /\ R.username = q.username /\ R.target = q.target
  BY DEF RequestRecords
<1>4. requests' = [requests EXCEPT ![r] = R]
  BY DEF Begin
<1> HIDE DEF R
<1>5. requests'[r] = R /\ OnlyRequest(r) /\ requests' \in [Requests -> RequestRecords]
  BY <1>2, <1>4 DEF Inv, TypeOK, OnlyRequest
<1>6. UNCHANGED <<admins, sessions, credentials, hashes>> /\ calls' \in 0..MaxCalls
  BY AdminAssumption DEF Begin, Inv, TypeOK
<1>7. TypeOK'
  BY <1>5, <1>6 DEF Inv, TypeOK
<1>8. References' /\ OneOfAName' /\ HeldRowsKept(r) /\ Grows
  BY <1>1, <1>6 DEF Inv, TypeOK, References, OneOfAName, HeldRowsKept, Grows
<1>9. Handler(r)'
  BY <1>1, <1>3, <1>5, <1>6 DEF Handler, Known, Passed, Acting
<1>10. requests'[r].late => /\ requests'[r].session \in DOMAIN sessions'
                            /\ sessions'[requests'[r].session].revoked
                            /\ requests'[r].pc \notin Passed
  BY <1>3, <1>5, <1>6 DEF Passed, Acting
<1>11. requests'[r].pc # "changeCommit"
  BY <1>3, <1>5
<1> QED
  BY <1>5, <1>7, <1>8, <1>9, <1>10, <1>11, StepInv

(* What a browser sends along names a session.                             *)
LEMMA CredentialType ==
  ASSUME Inv, NEW d \in DOMAIN credentials
  PROVE  /\ WithCredential(d) \in RequestRecords
         /\ WithCredential(d).session = credentials[d].session
         /\ credentials[d].session \in DOMAIN sessions
         /\ credentials[d].session \in Nat /\ credentials[d].jwt \in Nat /\ d \in Nat
<1>1. credentials[d] \in CredentialRows /\ d \in Nat
  BY DEF Inv, TypeOK
<1>2. credentials[d].session \in Nat /\ credentials[d].jwt \in Nat
  BY <1>1 DEF CredentialRows
<1>3. credentials[d].session \in DOMAIN sessions
  BY DEF Inv, References
<1>4. WithCredential(d) \in RequestRecords
  BY <1>1, <1>2, IdleType DEF WithCredential, RequestRecords
<1>5. WithCredential(d).session = credentials[d].session
  BY DEF WithCredential, Idle
<1> QED
  BY <1>1, <1>2, <1>3, <1>4, <1>5

LEMMA CallInv ==
  ASSUME Inv, NEW r \in Requests, Call(r)
  PROVE  Inv'
<1>0. hashes \in Nat
  BY DEF Inv, TypeOK
<1>1. CASE CallLogin(r)
  <2>1. PICK n \in Names, p \in 1..hashes :
           Begin(r, "login", "authenticate", [Idle EXCEPT !.username = n, !.password = p])
    BY <1>1 DEF CallLogin
  <2> DEFINE q == [Idle EXCEPT !.username = n, !.password = p]
  <2>2. p \in Nat
    BY <1>0
  <2>3. q \in RequestRecords
    BY <2>2, IdleType DEF RequestRecords
  <2>4. q.session = 0
    BY DEF Idle
  <2> HIDE DEF q
  <2>5. Begin(r, "login", "authenticate", q)
    BY <2>1 DEF q
  <2> QED
    BY <2>3, <2>4, <2>5, BeginInv DEF Ops
<1>2. CASE CallRefresh(r)
  <2>1. PICK c \in DOMAIN credentials, d \in DOMAIN credentials :
           Begin(r, "refresh", "findSession",
                 [Idle EXCEPT !.session = credentials[c].session,
                              !.refresh = credentials[c].jwt, !.csrf = d])
    BY <1>2 DEF CallRefresh
  <2> DEFINE q == [Idle EXCEPT !.session = credentials[c].session,
                               !.refresh = credentials[c].jwt, !.csrf = d]
  <2>2. q \in RequestRecords /\ q.session = credentials[c].session
    BY CredentialType, IdleType DEF RequestRecords, Idle
  <2> HIDE DEF q
  <2>3. Begin(r, "refresh", "findSession", q) /\ q.session \in DOMAIN sessions
    BY <2>1, <2>2, CredentialType DEF q
  <2> QED
    BY <2>2, <2>3, BeginInv DEF Ops
<1>3. CASE CallLogout(r) \/ CallLogoutAll(r)
  <2>1. PICK d \in DOMAIN credentials, op \in {"logout", "logoutAll"} :
           Begin(r, op, "guardSession", WithCredential(d))
    BY <1>3 DEF CallLogout, CallLogoutAll
  <2> QED
    BY <2>1, CredentialType, BeginInv DEF Ops, Guarded
<1>4. CASE CallChange(r)
  <2>1. PICK d \in DOMAIN credentials, p \in 1..hashes :
           Begin(r, "change", "guardSession", [WithCredential(d) EXCEPT !.password = p])
    BY <1>4 DEF CallChange
  <2> DEFINE q == [WithCredential(d) EXCEPT !.password = p]
  <2>2. q \in RequestRecords /\ q.session = WithCredential(d).session
    BY <1>0, CredentialType DEF RequestRecords
  <2> HIDE DEF q
  <2>3. Begin(r, "change", "guardSession", q) /\ q.session \in DOMAIN sessions
    BY <2>1, <2>2, CredentialType DEF q
  <2> QED
    BY <2>2, <2>3, BeginInv DEF Ops, Guarded
<1>5. CASE CallAdd(r)
  <2>1. PICK d \in DOMAIN credentials, n \in Names :
           Begin(r, "add", "guardSession", [WithCredential(d) EXCEPT !.username = n])
    BY <1>5 DEF CallAdd
  <2> DEFINE q == [WithCredential(d) EXCEPT !.username = n]
  <2>2. q \in RequestRecords /\ q.session = WithCredential(d).session /\ q.username = n
    BY CredentialType DEF RequestRecords
  <2> HIDE DEF q
  <2>3. Begin(r, "add", "guardSession", q) /\ q.session \in DOMAIN sessions
    BY <2>1, <2>2, CredentialType DEF q
  <2> QED
    BY <2>2, <2>3, BeginInv DEF Ops, Guarded
<1>6. CASE CallEdit(r)
  <2>1. PICK d \in DOMAIN credentials, i \in DOMAIN admins, n \in Names \cup {None},
             b \in BOOLEAN :
           Begin(r, "edit", "guardSession",
                 [WithCredential(d) EXCEPT !.target = i, !.username = n, !.setsPassword = b])
    BY <1>6 DEF CallEdit
  <2> DEFINE q == [WithCredential(d) EXCEPT !.target = i, !.username = n, !.setsPassword = b]
  <2>2. i \in Nat
    BY DEF Inv, TypeOK
  <2>3. q \in RequestRecords /\ q.session = WithCredential(d).session /\ q.target = i
    BY <2>2, CredentialType DEF RequestRecords
  <2> HIDE DEF q
  <2>4. Begin(r, "edit", "guardSession", q) /\ q.session \in DOMAIN sessions
    BY <2>1, <2>3, CredentialType DEF q
  <2> QED
    BY <2>3, <2>4, BeginInv DEF Ops, Guarded
<1> QED
  BY <1>1, <1>2, <1>3, <1>4, <1>5, <1>6 DEF Call

-----------------------------------------------------------------------------
(* Steps that write no table.                                              *)

(* What every handler relies on when it takes a step.                      *)
LEMMA Types ==
  ASSUME Inv, NEW r \in Requests
  PROVE  /\ requests \in [Requests -> RequestRecords]
         /\ requests[r] \in RequestRecords
         /\ Handler(r)
         /\ admins \in Seq(AdminRows) /\ sessions \in Seq(SessionRows)
         /\ credentials \in Seq(CredentialRows) /\ hashes \in Nat
         /\ DOMAIN admins = 1..Len(admins) /\ Len(admins) \in Nat
         /\ DOMAIN sessions = 1..Len(sessions) /\ Len(sessions) \in Nat
         /\ DOMAIN credentials = 1..Len(credentials) /\ Len(credentials) \in Nat
  BY DEF Inv, TypeOK, Handlers

(* The reply alone.                                                        *)
LEMMA RefuseInv ==
  ASSUME Inv, NEW r \in Requests, Reply(r), UNCHANGED Tables
  PROVE  Inv'
<1>1. Grows /\ References' /\ OneOfAName' /\ HeldRowsKept(r)
  BY Types DEF Inv, Tables, Grows, References, OneOfAName, HeldRowsKept
<1> QED
  BY <1>1, Types, ReplyInv DEF Tables

LEMMA AuthenticateInv ==
  ASSUME Inv, NEW r \in Requests, Authenticate(r)
  PROVE  Inv'
<1>1. CASE Reply(r)
  BY <1>1, RefuseInv DEF Authenticate, Tables
<1>2. CASE ~Reply(r)
  <2>1. PICK i \in DOMAIN admins :
           requests' = [requests EXCEPT ![r].pc = "createSession", ![r].adminId = i]
    BY <1>2 DEF Authenticate, Named
  <2>2. i \in Nat /\ requests[r].pc = "authenticate"
    BY Types DEF Authenticate, At
  <2> DEFINE R == [requests[r] EXCEPT !.pc = "createSession", !.adminId = i]
  <2>a. requests \in [Requests -> RequestRecords] /\ requests[r] \in RequestRecords
    BY Types
  <2>b. R \in RequestRecords
    BY <2>2, <2>a DEF RequestRecords, Steps
  <2>3. /\ requests' \in [Requests -> RequestRecords] /\ OnlyRequest(r)
        /\ requests'[r] = R
    BY <2>1, <2>a, <2>b DEF OnlyRequest
  <2>4. /\ requests'[r].pc = "createSession" /\ requests'[r].adminId = i
        /\ requests'[r].op = requests[r].op /\ requests'[r].username = requests[r].username
        /\ requests'[r].target = requests[r].target /\ requests'[r].seen = requests[r].seen
        /\ requests'[r].late = requests[r].late
        /\ requests'[r].session = requests[r].session
    BY <2>3, Types DEF RequestRecords
  <2>5. UNCHANGED Tables
    BY DEF Authenticate, Tables
  <2>6. Handler(r)'
    BY <2>2, <2>4, <2>5, Types DEF Handler, Known, Passed, Acting, Tables
  <2>7. requests[r].late => /\ requests[r].session \in DOMAIN sessions
                            /\ sessions[requests[r].session].revoked
    BY DEF Inv, LateIsEnded
  <2> QED
    BY <2>3, <2>4, <2>5, <2>6, <2>7, MoveInv DEF Passed, Acting
<1> QED
  BY <1>1, <1>2

(* A session that stands, or may be rotated, had not ended before.         *)
LEMMA NotLate ==
  ASSUME Inv, NEW r \in Requests,
         ~sessions[requests[r].session].revoked \/ requests[r].pc \in Passed
  PROVE  ~requests[r].late
  BY DEF Inv, LateIsEnded

LEMMA FindSessionInv ==
  ASSUME Inv, NEW r \in Requests, FindSession(r)
  PROVE  Inv'
<1> DEFINE s == requests[r].session
           R == [requests[r] EXCEPT !.pc = "findAdmin", !.adminId = sessions[s].adminId,
                                    !.credential = sessions[s].credential]
<1>1. CASE Reply(r)
  BY <1>1, RefuseInv DEF FindSession, Tables
<1>2. CASE ~Reply(r)
  <2>1. /\ requests' = [requests EXCEPT ![r] = R]
        /\ requests[r].pc = "findSession" /\ ~sessions[s].revoked
        /\ sessions[s].credential = requests[r].csrf
        /\ UNCHANGED Tables
    BY <1>2 DEF FindSession, At, CsrfMatches, Tables
  <2>2. s \in DOMAIN sessions
    BY <2>1, Types DEF Handler
  <2>3. sessions[s].adminId \in DOMAIN admins /\ sessions[s].credential \in DOMAIN credentials
    BY <2>2 DEF Inv, References
  <2>4. sessions[s].adminId \in Nat /\ sessions[s].credential \in Nat
    BY <2>3, Types
  <2>a. requests[r] \in RequestRecords
    BY Types
  <2>5. R \in RequestRecords
    BY <2>4, <2>a DEF RequestRecords, Steps
  <2>6. /\ R.pc = "findAdmin" /\ R.adminId = sessions[s].adminId
        /\ R.credential = sessions[s].credential /\ R.csrf = requests[r].csrf
        /\ R.op = requests[r].op /\ R.username = requests[r].username
        /\ R.target = requests[r].target /\ R.seen = requests[r].seen
        /\ R.late = requests[r].late /\ R.session = s
    BY Types DEF RequestRecords
  <2> HIDE DEF R
  <2>7. requests'[r] = R /\ requests' \in [Requests -> RequestRecords] /\ OnlyRequest(r)
    BY <2>1, <2>5, Types DEF OnlyRequest
  <2>8. Handler(r)'
    BY <2>1, <2>2, <2>3, <2>6, <2>7, Types DEF Handler, Known, Passed, Acting, Tables
  <2>9. ~requests[r].late
    BY <2>1, NotLate
  <2> QED
    BY <2>1, <2>6, <2>7, <2>8, <2>9, MoveInv
<1> QED
  BY <1>1, <1>2

(* A handler that has passed a check moves on to the next step.            *)
LEMMA GoInv ==
  ASSUME Inv, NEW r \in Requests, NEW p \in Steps, Go(r, p), UNCHANGED Tables,
         \/ requests[r].pc = "findAdmin" /\ p = "rotate"
         \/ requests[r].pc = "rotate" /\ p = "replay"
         \/ requests[r].pc = "add" /\ p = "createAdmin"
  PROVE  Inv'
<1> DEFINE R == [requests[r] EXCEPT !.pc = p]
<1>1. R \in RequestRecords /\ requests' = [requests EXCEPT ![r] = R]
  BY Types DEF RequestRecords, Go
<1>2. /\ R.pc = p /\ R.adminId = requests[r].adminId
      /\ R.credential = requests[r].credential /\ R.csrf = requests[r].csrf
      /\ R.op = requests[r].op /\ R.username = requests[r].username
      /\ R.target = requests[r].target /\ R.seen = requests[r].seen
      /\ R.late = requests[r].late /\ R.session = requests[r].session
  BY Types DEF RequestRecords
<1> HIDE DEF R
<1>3. requests'[r] = R /\ requests' \in [Requests -> RequestRecords] /\ OnlyRequest(r)
  BY <1>1, Types DEF OnlyRequest
<1>4. Handler(r)'
  BY <1>2, <1>3, Types DEF Handler, Known, Passed, Acting, Tables
<1>5. ~requests'[r].late
  BY <1>2, <1>3, NotLate DEF Passed, Acting
<1> QED
  BY <1>2, <1>3, <1>4, <1>5, MoveInv

LEMMA FindAdminInv ==
  ASSUME Inv, NEW r \in Requests, FindAdmin(r) \/ FindName(r)
  PROVE  Inv'
<1>1. \/ Reply(r)
      \/ Go(r, "rotate") /\ requests[r].pc = "findAdmin"
      \/ Go(r, "createAdmin") /\ requests[r].pc = "add"
  BY DEF FindAdmin, FindName, At
<1> QED
  BY <1>1, RefuseInv, GoInv DEF FindAdmin, FindName, Tables, Steps

LEMMA GuardSessionInv ==
  ASSUME Inv, NEW r \in Requests, GuardSession(r)
  PROVE  Inv'
<1> DEFINE s == requests[r].session
           R == [requests[r] EXCEPT !.pc = "guardAdmin", !.adminId = sessions[s].adminId]
<1>1. CASE Reply(r)
  BY <1>1, RefuseInv DEF GuardSession, Tables
<1>2. CASE ~Reply(r)
  <2>1. /\ requests' = [requests EXCEPT ![r] = R]
        /\ requests[r].pc = "guardSession" /\ ~sessions[s].revoked
        /\ UNCHANGED Tables
    BY <1>2 DEF GuardSession, At, Stands, Tables
  <2>2. s \in DOMAIN sessions
    BY <2>1, Types DEF Handler
  <2>3. sessions[s].adminId \in DOMAIN admins
    BY <2>2 DEF Inv, References
  <2>4. sessions[s].adminId \in Nat /\ requests[r] \in RequestRecords
    BY <2>3, Types
  <2>5. R \in RequestRecords
    BY <2>4 DEF RequestRecords, Steps
  <2>6. /\ R.pc = "guardAdmin" /\ R.adminId = sessions[s].adminId
        /\ R.op = requests[r].op /\ R.username = requests[r].username
        /\ R.target = requests[r].target /\ R.seen = requests[r].seen
        /\ R.late = requests[r].late /\ R.session = s
    BY <2>4 DEF RequestRecords
  <2> HIDE DEF R
  <2>7. requests'[r] = R /\ requests' \in [Requests -> RequestRecords] /\ OnlyRequest(r)
    BY <2>1, <2>5, Types DEF OnlyRequest
  <2>8. Handler(r)'
    BY <2>1, <2>2, <2>3, <2>6, <2>7, Types DEF Handler, Known, Passed, Acting, Tables
  <2>9. ~requests[r].late
    BY <2>1, NotLate
  <2> QED
    BY <2>1, <2>6, <2>7, <2>8, <2>9, MoveInv
<1> QED
  BY <1>1, <1>2

LEMMA GuardAdminInv ==
  ASSUME Inv, NEW r \in Requests, GuardAdmin(r)
  PROVE  Inv'
<1> DEFINE i == requests[r].adminId
           R == [requests[r] EXCEPT !.pc = requests[r].op, !.hash = admins[i].hash]
<1>1. CASE Reply(r)
  BY <1>1, RefuseInv DEF GuardAdmin, Tables
<1>2. CASE ~Reply(r)
  <2>1. /\ requests' = [requests EXCEPT ![r] = R]
        /\ requests[r].pc = "guardAdmin"
        /\ requests[r].op = "change" => admins[i].hash = requests[r].password
        /\ UNCHANGED Tables
    BY <1>2 DEF GuardAdmin, At, Tables
  <2>2. i \in DOMAIN admins /\ requests[r].op \in Guarded
    BY <2>1, Types DEF Handler, Known, Passed, Acting
  <2>a. admins[i] \in AdminRows
    BY <2>2, Types
  <2>3. admins[i].hash \in Nat /\ requests[r] \in RequestRecords
    BY <2>a, Types DEF AdminRows
  <2>4. R \in RequestRecords
    BY <2>2, <2>3 DEF RequestRecords, Steps, Guarded
  <2>5. /\ R.pc = requests[r].op /\ R.hash = admins[i].hash /\ R.adminId = i
        /\ R.op = requests[r].op /\ R.username = requests[r].username
        /\ R.target = requests[r].target /\ R.seen = requests[r].seen
        /\ R.late = requests[r].late /\ R.session = requests[r].session
        /\ R.password = requests[r].password
    BY <2>3 DEF RequestRecords
  <2> HIDE DEF R
  <2>6. requests'[r] = R /\ requests' \in [Requests -> RequestRecords] /\ OnlyRequest(r)
    BY <2>1, <2>4, Types DEF OnlyRequest
  <2>7. Handler(r)'
    BY <2>1, <2>2, <2>5, <2>6, Types DEF Handler, Known, Passed, Acting, Tables, Guarded
  <2>8. ~requests[r].late
    BY <2>1, NotLate DEF Passed
  <2> QED
    BY <2>1, <2>2, <2>5, <2>6, <2>7, <2>8, MoveInv DEF Guarded
<1> QED
  BY <1>1, <1>2

-----------------------------------------------------------------------------
(* Steps that write a table.                                               *)

(* What a revocation leaves.                                               *)
LEMMA RevokeKeeps ==
  ASSUME Inv, NEW S, sessions' = Revoke(S), UNCHANGED credentials,
         Len(admins) <= Len(admins'), admins' \in Seq(AdminRows)
  PROVE  /\ sessions' \in Seq(SessionRows)
         /\ DOMAIN sessions' = DOMAIN sessions
         /\ Grows
         /\ References'
         /\ \A s \in DOMAIN sessions \cap S : sessions'[s].revoked
<1>1. /\ sessions \in Seq(SessionRows) /\ DOMAIN sessions = 1..Len(sessions)
      /\ Len(sessions) \in Nat /\ Len(credentials) \in Nat
      /\ DOMAIN admins = 1..Len(admins) /\ DOMAIN admins' = 1..Len(admins')
      /\ Len(admins) \in Nat /\ Len(admins') \in Nat
  BY DEF Inv, TypeOK
<1>2. \A s \in DOMAIN sessions : sessions[s] \in SessionRows
  BY <1>1
<1>3. /\ DOMAIN sessions' = DOMAIN sessions
      /\ \A s \in DOMAIN sessions :
            sessions'[s] = [sessions[s] EXCEPT !.revoked = @ \/ s \in S]
  BY DEF Revoke
<1>4. \A s \in DOMAIN sessions :
         /\ sessions'[s] \in SessionRows
         /\ sessions'[s].adminId = sessions[s].adminId
         /\ sessions'[s].credential = sessions[s].credential
         /\ sessions[s].revoked => sessions'[s].revoked
         /\ s \in S => sessions'[s].revoked
  BY <1>2, <1>3 DEF SessionRows
<1>5. sessions' \in Seq(SessionRows) /\ Len(sessions') = Len(sessions)
  <2>1. sessions' \in [1..Len(sessions) -> SessionRows]
    BY <1>1, <1>3, <1>4 DEF Revoke
  <2> QED
    BY <1>1, <2>1, SeqDef, LenProperties
<1>6. Grows
  BY <1>1, <1>4, <1>5 DEF Grows
<1>7. References'
  BY <1>1, <1>3, <1>4 DEF Inv, References
<1> QED
  BY <1>3, <1>4, <1>5, <1>6, <1>7

LEMMA LogoutInv ==
  ASSUME Inv, NEW r \in Requests, Logout(r) \/ LogoutAll(r) \/ Replay(r)
  PROVE  Inv'
<1>1. PICK S : sessions' = Revoke(S)
  BY DEF Logout, LogoutAll, Replay
<1>2. Reply(r) /\ UNCHANGED <<admins, credentials, hashes, calls>>
  BY DEF Logout, LogoutAll, Replay
<1>3. sessions' \in Seq(SessionRows) /\ Grows /\ References'
  BY <1>1, <1>2, Types, RevokeKeeps
<1>4. OneOfAName' /\ HeldRowsKept(r)
  BY <1>2 DEF Inv, OneOfAName, HeldRowsKept
<1> QED
  BY <1>2, <1>3, <1>4, Types, ReplyInv

LEMMA CreateSessionInv ==
  ASSUME Inv, NEW r \in Requests, CreateSession(r)
  PROVE  Inv'
<1> DEFINE c == Len(credentials) + 1
           S == [adminId |-> requests[r].adminId, credential |-> c,
                 revoked |-> FALSE, expired |-> FALSE]
           C == [session |-> Len(sessions) + 1, jwt |-> c, parent |-> 0]
<1>1. sessions' = Append(sessions, S) /\ credentials' = Append(credentials, C)
      /\ Reply(r) /\ UNCHANGED <<admins, hashes, calls>> /\ requests[r].pc = "createSession"
  BY DEF CreateSession, At
<1>2. requests[r].adminId \in DOMAIN admins /\ requests[r].adminId \in Nat
  BY <1>1, Types DEF Handler, Known
<1>3. S \in SessionRows /\ C \in CredentialRows /\ S.adminId \in DOMAIN admins
      /\ S.credential = Len(credentials) + 1 /\ C.session = Len(sessions) + 1
  BY <1>2, Types DEF SessionRows, CredentialRows
<1> HIDE DEF S, C
<1>4. /\ sessions' \in Seq(SessionRows) /\ Len(sessions') = Len(sessions) + 1
      /\ DOMAIN sessions' = 1..Len(sessions) + 1
      /\ \A s \in 1..Len(sessions) : sessions'[s] = sessions[s]
      /\ sessions'[Len(sessions) + 1] = S
  BY <1>1, <1>3, Types, AppendProperties
<1>5. /\ credentials' \in Seq(CredentialRows) /\ Len(credentials') = Len(credentials) + 1
      /\ DOMAIN credentials' = 1..Len(credentials) + 1
      /\ \A s \in 1..Len(credentials) : credentials'[s] = credentials[s]
      /\ credentials'[Len(credentials) + 1] = C
  BY <1>1, <1>3, Types, AppendProperties
<1>6. Grows
  BY <1>1, <1>4, <1>5, Types DEF Grows
<1>7. References'
  <2>a. /\ \A s \in 1..Len(sessions) : /\ sessions[s].adminId \in DOMAIN admins
                                       /\ sessions[s].credential \in 1..Len(credentials)
        /\ \A d \in 1..Len(credentials) : credentials[d].session \in 1..Len(sessions)
    BY Types DEF Inv, References
  <2>b. Len(sessions) \in Nat /\ Len(credentials) \in Nat
    BY Types
  <2>1. ASSUME NEW s \in DOMAIN sessions'
        PROVE  sessions'[s].adminId \in DOMAIN admins'
               /\ sessions'[s].credential \in DOMAIN credentials'
    <3>1. s \in 1..Len(sessions) \/ s = Len(sessions) + 1
      BY <1>4, Types
    <3> QED
      BY <3>1, <2>a, <2>b, <1>1, <1>3, <1>4, <1>5
  <2>2. ASSUME NEW d \in DOMAIN credentials'
        PROVE  credentials'[d].session \in DOMAIN sessions'
    <3>1. d \in 1..Len(credentials) \/ d = Len(credentials) + 1
      BY <1>5, Types
    <3> QED
      BY <3>1, <2>a, <2>b, <1>3, <1>4, <1>5
  <2> QED
    BY <2>1, <2>2 DEF References
<1>8. OneOfAName' /\ HeldRowsKept(r)
  BY <1>1 DEF Inv, OneOfAName, HeldRowsKept
<1> QED
  BY <1>1, <1>4, <1>5, <1>6, <1>7, <1>8, Types, ReplyInv

LEMMA RotateInv ==
  ASSUME Inv, NEW r \in Requests, Rotate(r)
  PROVE  Inv'
<1> DEFINE s == requests[r].session
           new == Len(credentials) + 1
<1>1. /\ requests[r].pc = "rotate" /\ s \in DOMAIN sessions
      /\ requests[r].credential \in DOMAIN credentials
  BY Types DEF Rotate, At, Handler
<1>2. CASE ~Rotatable(s, requests[r].credential)
  BY <1>1, <1>2, GoInv DEF Rotate, Tables, Steps
<1>3. CASE Rotatable(s, requests[r].credential)
  <2>1. PICK jwt \in {credentials[requests[r].credential].jwt, new} :
           credentials' = Append(credentials,
                                 [session |-> s, jwt |-> jwt, parent |-> requests[r].csrf])
    BY <1>3 DEF Rotate
  <2>2. /\ sessions' = [sessions EXCEPT ![s] = [sessions[s] EXCEPT !.credential = new]]
        /\ Reply(r) /\ UNCHANGED <<admins, hashes, calls>>
    BY <1>3 DEF Rotate
  <2> DEFINE C == [session |-> s, jwt |-> jwt, parent |-> requests[r].csrf]
             S == [sessions[s] EXCEPT !.credential = new]
  <2>3. credentials[requests[r].credential] \in CredentialRows /\ sessions[s] \in SessionRows
        /\ requests[r] \in RequestRecords /\ new \in Nat /\ s \in Nat
    BY <1>1, Types
  <2>4. jwt \in Nat /\ requests[r].csrf \in Nat
    BY <2>1, <2>3 DEF CredentialRows, RequestRecords
  <2>5. C \in CredentialRows /\ C.session = s
    BY <2>3, <2>4 DEF CredentialRows
  <2>6. /\ S \in SessionRows /\ S.credential = new /\ S.adminId = sessions[s].adminId
        /\ sessions[s].revoked => S.revoked
    BY <2>3 DEF SessionRows
  <2> HIDE DEF C, S
  <2>7. sessions' = [sessions EXCEPT ![s] = S]
    BY <2>2 DEF S
  <2>8. /\ sessions' \in Seq(SessionRows) /\ Len(sessions') = Len(sessions)
        /\ DOMAIN sessions' = DOMAIN sessions
        /\ \A t \in DOMAIN sessions : sessions'[t] = IF t = s THEN S ELSE sessions[t]
    <3>1. s \in 1..Len(sessions) /\ sessions \in Seq(SessionRows)
      BY <1>1, Types
    <3>2. sessions' \in Seq(SessionRows) /\ Len(sessions') = Len(sessions)
      BY <2>6, <2>7, <3>1, ExceptSeq
    <3> QED
      BY <2>7, <3>1, <3>2
  <2>9. /\ credentials' \in Seq(CredentialRows) /\ Len(credentials') = new
        /\ DOMAIN credentials' = 1..new
        /\ \A c \in 1..Len(credentials) : credentials'[c] = credentials[c]
        /\ credentials'[new] = C
    BY <2>1, <2>5, Types, AppendProperties DEF C
  <2>10. Grows
    BY <2>2, <2>6, <2>8, <2>9, Types DEF Grows
  <2>11. References'
    <3>1. ASSUME NEW t \in DOMAIN sessions'
          PROVE  sessions'[t].adminId \in DOMAIN admins'
                 /\ sessions'[t].credential \in DOMAIN credentials'
      BY <2>2, <2>3, <2>6, <2>8, <2>9, Types DEF Inv, References
    <3>2. ASSUME NEW c \in DOMAIN credentials'
          PROVE  credentials'[c].session \in DOMAIN sessions'
      <4>1. c \in 1..Len(credentials) \/ c = new
        BY <2>9, Types
      <4> QED
        BY <4>1, <1>1, <2>5, <2>8, <2>9, Types DEF Inv, References
    <3> QED
      BY <3>1, <3>2 DEF References
  <2>12. OneOfAName' /\ HeldRowsKept(r)
    BY <2>2 DEF Inv, OneOfAName, HeldRowsKept
  <2> QED
    BY <2>2, <2>8, <2>9, <2>10, <2>11, <2>12, Types, ReplyInv
<1> QED
  BY <1>2, <1>3

(* The change takes the row, which nobody holds.                           *)
LEMMA ChangeRevokeInv ==
  ASSUME Inv, NEW r \in Requests, ChangeRevoke(r)
  PROVE  Inv'
<1> DEFINE i == requests[r].adminId
           D == OtherSessionsOf(i, requests[r].session)
           R == [requests[r] EXCEPT !.pc = "changeCommit", !.doomed = D]
<1>1. CASE ~StillCurrent(i, requests[r].hash)
  BY <1>1, RefuseInv DEF ChangeRevoke, Tables
<1>2. CASE StillCurrent(i, requests[r].hash)
  <2>1. /\ requests' = [requests EXCEPT ![r] = R]
        /\ requests[r].pc = "change" /\ admins[i].hash = requests[r].hash
        /\ ~RowHeld(i)
        /\ UNCHANGED Tables
    BY <1>2 DEF ChangeRevoke, At, StillCurrent, Tables
  <2>2. D \in SUBSET Nat /\ requests[r] \in RequestRecords
    BY Types DEF OtherSessionsOf, LiveSessionsOf
  <2>3. R \in RequestRecords
    BY <2>2 DEF RequestRecords, Steps
  <2>4. /\ R.pc = "changeCommit" /\ R.hash = requests[r].hash /\ R.adminId = i
        /\ R.op = requests[r].op /\ R.username = requests[r].username
        /\ R.target = requests[r].target /\ R.seen = requests[r].seen
        /\ R.late = requests[r].late /\ R.session = requests[r].session
        /\ R.password = requests[r].password /\ R.doomed = D
    BY <2>2 DEF RequestRecords
  <2> HIDE DEF R
  <2>5. requests'[r] = R /\ requests' \in [Requests -> RequestRecords] /\ OnlyRequest(r)
    BY <2>1, <2>3, Types DEF OnlyRequest
  <2>6. Handler(r)'
    BY <2>1, <2>4, <2>5, Types DEF Handler, Known, Passed, Acting, Tables
  <2>7. ~requests[r].late
    BY <2>1, NotLate DEF Passed, Acting
  <2>8. TypeOK' /\ References' /\ OneOfAName' /\ HeldRowsKept(r) /\ Grows
    BY <2>1, <2>5, Types DEF Inv, Tables, TypeOK, References, OneOfAName, HeldRowsKept, Grows
  <2>9. /\ admins'[i].hash = requests'[r].hash
        /\ \A q \in Requests \ {r} : At(q, "changeCommit") => requests[q].adminId # i
    BY <2>1, <2>4, <2>5 DEF RowHeld, Tables
  <2>10. ASSUME NEW s \in 1..requests[r].seen, sessions'[s].adminId = i
         PROVE  sessions'[s].revoked \/ s = requests[r].session \/ s \in D
    <3>1. requests[r].seen \in Nat /\ requests[r].seen <= Len(sessions)
      BY <2>2, Types DEF RequestRecords, Handler
    <3>2. s \in DOMAIN sessions
      BY <3>1, Types
    <3> QED
      BY <3>2, <2>1, <2>10 DEF OtherSessionsOf, LiveSessionsOf, Tables
  <2> HIDE DEF D
  <2> QED
    BY <2>4, <2>5, <2>6, <2>7, <2>8, <2>9, <2>10, StepInv
<1> QED
  BY <1>1, <1>2

(* The names, and the administrators that hold a row, after a row changed. *)
LEMMA EditKeeps ==
  ASSUME Inv, NEW i \in DOMAIN admins, NEW A \in AdminRows,
         admins' = [admins EXCEPT ![i] = A],
         Named(A.username) \ {i} = {}
  PROVE  /\ admins' \in Seq(AdminRows) /\ Len(admins') = Len(admins)
         /\ DOMAIN admins' = DOMAIN admins
         /\ admins'[i] = A
         /\ \A j \in DOMAIN admins \ {i} : admins'[j] = admins[j]
         /\ OneOfAName'
<1>1. admins \in Seq(AdminRows) /\ i \in 1..Len(admins)
  BY DEF Inv, TypeOK
<1>2. admins' \in Seq(AdminRows) /\ Len(admins') = Len(admins)
  BY <1>1, ExceptSeq
<1>3. /\ DOMAIN admins' = DOMAIN admins /\ admins'[i] = A
      /\ \A j \in DOMAIN admins \ {i} : admins'[j] = admins[j]
  BY <1>1
<1>4. \A j \in DOMAIN admins \ {i} : admins[j].username # A.username
  BY DEF Named
<1>5. OneOfAName'
  BY <1>3, <1>4 DEF Inv, OneOfAName
<1> QED
  BY <1>2, <1>3, <1>5

LEMMA EditNames ==
  ASSUME Inv, NEW i \in DOMAIN admins
  PROVE  Named(admins[i].username) \ {i} = {}
  BY DEF Inv, OneOfAName, Named

LEMMA ChangeCommitInv ==
  ASSUME Inv, NEW r \in Requests, ChangeCommit(r)
  PROVE  Inv'
<1> DEFINE i == requests[r].adminId
           A == [admins[i] EXCEPT !.hash = hashes + 1]
<1>1. /\ requests[r].pc = "changeCommit" /\ Reply(r) /\ hashes' = hashes + 1
      /\ admins' = [admins EXCEPT ![i] = A]
      /\ sessions' = Revoke(requests[r].doomed)
      /\ UNCHANGED <<credentials, calls>>
  BY DEF ChangeCommit, At
<1>2. i \in DOMAIN admins
  BY <1>1, Types DEF Handler, Known, Passed, Acting
<1>3. admins[i] \in AdminRows /\ hashes + 1 \in Nat
  BY <1>2, Types
<1>4. A \in AdminRows /\ A.username = admins[i].username
  BY <1>3 DEF AdminRows
<1> HIDE DEF A
<1>5. /\ admins' \in Seq(AdminRows) /\ Len(admins') = Len(admins)
      /\ \A j \in DOMAIN admins \ {i} : admins'[j] = admins[j]
      /\ OneOfAName'
  BY <1>1, <1>2, <1>4, EditKeeps, EditNames
<1>6. sessions' \in Seq(SessionRows) /\ Grows /\ References'
  BY <1>1, <1>5, Types, RevokeKeeps
<1>7. HeldRowsKept(r)
  <2>1. ASSUME NEW q \in Requests \ {r}, At(q, "changeCommit")
        PROVE  requests[q].adminId \in DOMAIN admins \ {i}
    BY <2>1, <1>1, Types DEF Inv, OneHolder, At, Handler, Known, Passed, Acting
  <2> QED
    BY <2>1, <1>5 DEF HeldRowsKept
<1> QED
  BY <1>1, <1>3, <1>5, <1>6, <1>7, Types, ReplyInv

LEMMA CreateAdminInv ==
  ASSUME Inv, NEW r \in Requests, CreateAdmin(r)
  PROVE  Inv'
<1> DEFINE n == requests[r].username
           A == [username |-> n, hash |-> hashes + 1, isActive |-> TRUE]
<1>1. CASE Taken(n, 0)
  BY <1>1, RefuseInv DEF CreateAdmin, Tables
<1>2. CASE ~Taken(n, 0)
  <2>1. /\ requests[r].pc = "createAdmin" /\ Reply(r) /\ hashes' = hashes + 1
        /\ admins' = Append(admins, A)
        /\ UNCHANGED <<sessions, credentials, calls>>
    BY <1>2 DEF CreateAdmin, At
  <2>2. n \in Names
    BY <2>1, Types DEF Handler
  <2>3. A \in AdminRows /\ hashes + 1 \in Nat /\ A.username = n
    BY <2>2, Types DEF AdminRows
  <2> HIDE DEF A
  <2>4. /\ admins' \in Seq(AdminRows) /\ Len(admins') = Len(admins) + 1
        /\ DOMAIN admins' = 1..Len(admins) + 1
        /\ \A j \in 1..Len(admins) : admins'[j] = admins[j]
        /\ admins'[Len(admins) + 1] = A
    BY <2>1, <2>3, Types, AppendProperties
  <2>5. \A j \in 1..Len(admins) : admins[j].username # n
    <3>1. \A j \in 1..Len(admins) : j # 0
      BY Types
    <3> QED
      BY <1>2, <3>1, Types DEF Taken, Named
  <2>6. OneOfAName'
    <3>1. ASSUME NEW j \in DOMAIN admins', NEW k \in DOMAIN admins',
                 admins'[j].username = admins'[k].username
          PROVE  j = k
      <4>1. /\ j \in 1..Len(admins) \/ j = Len(admins) + 1
            /\ k \in 1..Len(admins) \/ k = Len(admins) + 1
        BY <2>4, Types
      <4> QED
        BY <4>1, <3>1, <2>3, <2>4, <2>5, Types DEF Inv, OneOfAName
    <3> QED
      BY <3>1 DEF OneOfAName
  <2>7. References' /\ Grows
    <3>1. DOMAIN admins \subseteq DOMAIN admins' /\ Len(admins) <= Len(admins')
      BY <2>4, Types
    <3>2. References'
      BY <2>1, <3>1 DEF Inv, References
    <3>3. Grows
      BY <2>1, <3>1, Types DEF Grows
    <3> QED
      BY <3>2, <3>3
  <2>8. HeldRowsKept(r)
    <3>1. ASSUME NEW q \in Requests \ {r}, At(q, "changeCommit")
          PROVE  requests[q].adminId \in 1..Len(admins)
      BY <3>1, Types DEF At, Handler, Known, Passed, Acting
    <3> QED
      BY <3>1, <2>4 DEF HeldRowsKept
  <2> QED
    BY <2>1, <2>3, <2>4, <2>6, <2>7, <2>8, Types, ReplyInv
<1> QED
  BY <1>1, <1>2

LEMMA EditInv ==
  ASSUME Inv, NEW r \in Requests, Edit(r)
  PROVE  Inv'
<1> DEFINE i == requests[r].target
           A == [admins[i] EXCEPT !.username = NewName(r), !.hash = NewHash(r)]
<1>1. CASE Taken(NewName(r), i)
  BY <1>1, RefuseInv DEF Edit, Tables
<1>2. CASE ~Taken(NewName(r), i)
  <2>1. /\ requests[r].pc = "edit" /\ Reply(r) /\ ~RowHeld(i)
        /\ admins' = [admins EXCEPT ![i] = A]
        /\ hashes' = IF requests[r].setsPassword THEN hashes + 1 ELSE hashes
        /\ UNCHANGED <<sessions, credentials, calls>>
    BY <1>2 DEF Edit, At
  <2>2. i \in DOMAIN admins
    BY <2>1, Types DEF Handler
  <2>3. admins[i] \in AdminRows /\ requests[r] \in RequestRecords
    BY <2>2, Types
  <2>4. NewName(r) \in Names
    BY <2>3 DEF NewName, AdminRows, RequestRecords
  <2>5. NewHash(r) \in Nat /\ hashes' \in Nat
    BY <2>1, <2>3, Types DEF NewHash, AdminRows
  <2>6. A \in AdminRows /\ A.username = NewName(r)
    BY <2>3, <2>4, <2>5 DEF AdminRows
  <2> HIDE DEF A
  <2>7. Named(A.username) \ {i} = {}
    BY <1>2, <2>6 DEF Taken
  <2>8. /\ admins' \in Seq(AdminRows) /\ Len(admins') = Len(admins)
        /\ DOMAIN admins' = DOMAIN admins
        /\ \A j \in DOMAIN admins \ {i} : admins'[j] = admins[j]
        /\ OneOfAName'
    BY <2>1, <2>2, <2>6, <2>7, EditKeeps
  <2>9. References' /\ Grows
    BY <2>1, <2>8, Types DEF Inv, References, Grows
  <2>10. HeldRowsKept(r)
    <3>1. ASSUME NEW q \in Requests \ {r}, At(q, "changeCommit")
          PROVE  requests[q].adminId \in DOMAIN admins \ {i}
      BY <3>1, <2>1, Types DEF RowHeld, At, Handler, Known, Passed, Acting
    <3> QED
      BY <3>1, <2>8 DEF HeldRowsKept
  <2> QED
    BY <2>1, <2>5, <2>8, <2>9, <2>10, Types, ReplyInv
<1> QED
  BY <1>1, <1>2

-----------------------------------------------------------------------------
(* The environment.                                                        *)

LEMMA ExpireInv ==
  ASSUME Inv, Expire
  PROVE  Inv'
<1>1. PICK s \in DOMAIN sessions : sessions' = [sessions EXCEPT ![s].expired = TRUE]
  BY DEF Expire
<1>2. UNCHANGED <<admins, credentials, requests, hashes, calls>>
  BY DEF Expire
<1> DEFINE S == [sessions[s] EXCEPT !.expired = TRUE]
<1>3. sessions \in Seq(SessionRows) /\ s \in 1..Len(sessions) /\ sessions[s] \in SessionRows
  BY DEF Inv, TypeOK
<1>4. /\ S \in SessionRows /\ S.adminId = sessions[s].adminId
      /\ S.credential = sessions[s].credential
      /\ sessions[s].revoked <=> S.revoked
  BY <1>3 DEF SessionRows
<1>5. sessions' = [sessions EXCEPT ![s] = S]
  BY <1>1
<1> HIDE DEF S
<1>6. sessions' \in Seq(SessionRows) /\ Len(sessions') = Len(sessions)
  BY <1>3, <1>4, <1>5, ExceptSeq
<1>7. /\ DOMAIN sessions' = DOMAIN sessions
      /\ \A t \in DOMAIN sessions : /\ sessions'[t].adminId = sessions[t].adminId
                                    /\ sessions'[t].credential = sessions[t].credential
                                    /\ sessions[t].revoked <=> sessions'[t].revoked
  BY <1>3, <1>4, <1>5
<1>8. TypeOK' /\ References' /\ OneOfAName' /\ OneHolder'
  BY <1>2, <1>6, <1>7 DEF Inv, TypeOK, References, OneOfAName, OneHolder, At
<1>9. Handlers' /\ LateIsEnded'
  BY <1>2, <1>6, <1>7 DEF Inv, Handlers, Handler, LateIsEnded
<1>10. OthersDoomed'
  <2>1. ASSUME NEW r \in Requests, At(r, "changeCommit"), NEW t \in 1..requests[r].seen
        PROVE  t \in DOMAIN sessions
    BY <2>1, Types DEF Handler, RequestRecords
  <2> QED
    BY <1>2, <1>7, <2>1 DEF Inv, OthersDoomed, At
<1> QED
  BY <1>8, <1>9, <1>10 DEF Inv

LEMMA DeactivateInv ==
  ASSUME Inv, NEW i \in DOMAIN admins, Deactivate(i)
  PROVE  Inv'
<1> DEFINE A == [admins[i] EXCEPT !.isActive = FALSE]
<1>1. admins' = [admins EXCEPT ![i] = A]
      /\ UNCHANGED <<sessions, credentials, requests, hashes, calls>>
  BY DEF Deactivate
<1>2. admins[i] \in AdminRows
  BY DEF Inv, TypeOK
<1>3. A \in AdminRows /\ A.username = admins[i].username /\ A.hash = admins[i].hash
  BY <1>2 DEF AdminRows
<1> HIDE DEF A
<1>4. /\ admins' \in Seq(AdminRows) /\ DOMAIN admins' = DOMAIN admins
      /\ admins'[i] = A /\ OneOfAName'
      /\ \A j \in DOMAIN admins \ {i} : admins'[j] = admins[j]
  BY <1>1, <1>3, EditKeeps, EditNames
<1>5. \A j \in DOMAIN admins : admins'[j].hash = admins[j].hash
  BY <1>3, <1>4
<1>6. TypeOK' /\ References' /\ Handlers' /\ LateIsEnded' /\ OthersDoomed'
  BY <1>1, <1>4 DEF Inv, TypeOK, References, Handlers, Handler, LateIsEnded, OthersDoomed, At
<1>7. \A r \in Requests : At(r, "changeCommit") => requests[r].adminId \in DOMAIN admins
  BY Types DEF At, Handler, Known, Passed, Acting
<1>8. OneHolder'
  BY <1>1, <1>5, <1>7 DEF Inv, OneHolder, At
<1> QED
  BY <1>4, <1>6, <1>8 DEF Inv

-----------------------------------------------------------------------------
(* The invariant holds in every state that is reached.                     *)
LEMMA StepsInv ==
  ASSUME Inv, NEW r \in Requests, Step(r)
  PROVE  Inv'
<1>1. CASE Authenticate(r) \/ CreateSession(r)
  BY <1>1, AuthenticateInv, CreateSessionInv
<1>2. CASE FindSession(r) \/ FindAdmin(r) \/ Rotate(r) \/ Replay(r)
  BY <1>2, FindSessionInv, FindAdminInv, RotateInv, LogoutInv
<1>3. CASE GuardSession(r) \/ GuardAdmin(r) \/ Logout(r) \/ LogoutAll(r)
  BY <1>3, GuardSessionInv, GuardAdminInv, LogoutInv
<1>4. CASE ChangeRevoke(r) \/ ChangeCommit(r)
  BY <1>4, ChangeRevokeInv, ChangeCommitInv
<1>5. CASE FindName(r) \/ CreateAdmin(r) \/ Edit(r)
  BY <1>5, FindAdminInv, CreateAdminInv, EditInv
<1> QED
  BY <1>1, <1>2, <1>3, <1>4, <1>5 DEF Step

LEMMA NextInv == Inv /\ [Next]_vars => Inv'
<1> SUFFICES ASSUME Inv, [Next]_vars PROVE Inv'
  OBVIOUS
<1>1. CASE \E r \in Requests : Call(r) \/ Step(r)
  BY <1>1, CallInv, StepsInv
<1>2. ASSUME NEW r \in Requests, Abort(r) PROVE Inv'
  BY <1>2, RefuseInv DEF Abort, Tables
<1>3. CASE Expire \/ \E i \in DOMAIN admins : Deactivate(i)
  BY <1>3, ExpireInv, DeactivateInv
<1>4. CASE UNCHANGED vars
  BY <1>4 DEF vars, Inv, TypeOK, References, Handlers, Handler, LateIsEnded, OneOfAName,
              OneHolder, OthersDoomed, At
<1> QED
  BY <1>1, <1>2, <1>3, <1>4 DEF Next

(* The inductive invariant holds throughout.                               *)
THEOREM Invariance == Spec => []Inv
  BY InitInv, NextInv, PTL DEF Spec

(* Tables and handlers hold rows of their types.                           *)
THEOREM TypeCorrect == Spec => []TypeOK
<1>1. Inv => TypeOK
  BY DEF Inv
<1> QED
  BY <1>1, Invariance, PTL

(* A username names one administrator, whichever adds and renames race.    *)
THEOREM NamesAreUnique == Spec => []OneOfAName
<1>1. Inv => OneOfAName
  BY DEF Inv
<1> QED
  BY <1>1, Invariance, PTL

(* No handler acts on a session that had been revoked when its call began. *)
THEOREM GuardsHold == Spec => []NobodyActsLate
<1>1. Inv => NobodyActsLate
  BY DEF Inv, LateIsEnded, NobodyActsLate, Passed
<1> QED
  BY <1>1, Invariance, PTL

-----------------------------------------------------------------------------
(* A step of another handler leaves r where it is.                         *)
LEMMA OneMoves ==
  ASSUME Inv, NEW r \in Requests, NEW q \in Requests, Call(q) \/ Step(q) \/ Abort(q),
         requests'[r] # requests[r]
  PROVE  q = r
<1>1. \E R : requests' = [requests EXCEPT ![q] = R]
  BY DEF Call, CallLogin, CallRefresh, CallLogout, CallLogoutAll, CallChange, CallAdd,
         CallEdit, Begin, Step, Authenticate, CreateSession, FindSession, FindAdmin, Rotate,
         Replay, GuardSession, GuardAdmin, Logout, LogoutAll, ChangeRevoke, ChangeCommit,
         FindName, CreateAdmin, Edit, Abort, Go, Reply
<1> QED
  BY <1>1, Types

(* The steps that write an administrator's row.                            *)
LEMMA AdminWriters ==
  ASSUME Inv, Next, admins' # admins
  PROVE  \/ \E q \in Requests : ChangeCommit(q) \/ CreateAdmin(q) \/ Edit(q)
         \/ \E i \in DOMAIN admins : Deactivate(i)
  BY DEF Next, Call, CallLogin, CallRefresh, CallLogout, CallLogoutAll, CallChange, CallAdd,
         CallEdit, Begin, Step, Authenticate, CreateSession, FindSession, FindAdmin, Rotate,
         Replay, GuardSession, GuardAdmin, Logout, LogoutAll, ChangeRevoke,
         FindName, Abort, Expire

LEMMA ReplyIdle ==
  ASSUME Inv, NEW r \in Requests, Reply(r)
  PROVE  requests'[r].pc = "idle"
  BY Types DEF Reply, Idle

(* Whoever changes a password proved the one that is replaced, or edits.   *)
THEOREM ProvenChange == Spec => ChangeIsProven
<1> DEFINE Proven ==
             \A i \in DOMAIN admins :
                admins'[i].hash # admins[i].hash =>
                   \E r \in Requests :
                      /\ requests'[r].pc = "idle"
                      /\ \/ At(r, "edit") /\ requests[r].target = i
                         \/ /\ At(r, "changeCommit")
                            /\ requests[r].adminId = i
                            /\ requests[r].password = admins[i].hash
<1>1. ASSUME Inv, [Next]_vars PROVE Proven \/ UNCHANGED vars
  <2>1. SUFFICES ASSUME Next, NEW i \in DOMAIN admins, admins'[i].hash # admins[i].hash
                 PROVE  \E r \in Requests :
                           /\ requests'[r].pc = "idle"
                           /\ \/ At(r, "edit") /\ requests[r].target = i
                              \/ /\ At(r, "changeCommit")
                                 /\ requests[r].adminId = i
                                 /\ requests[r].password = admins[i].hash
    BY <1>1 DEF vars
  <2>2. ASSUME NEW q \in Requests, ChangeCommit(q)
        PROVE  /\ requests'[q].pc = "idle" /\ At(q, "changeCommit")
               /\ requests[q].adminId = i
               /\ requests[q].password = admins[i].hash
    <3>1. At(q, "changeCommit") /\ requests'[q].pc = "idle"
      BY <1>1, <2>2, ReplyIdle DEF ChangeCommit
    <3>2. requests[q].adminId = i
      BY <2>1, <2>2 DEF ChangeCommit
    <3> QED
      BY <1>1, <3>1, <3>2, Types DEF Inv, OneHolder, Handler, At
  <2>3. ASSUME NEW q \in Requests, CreateAdmin(q) PROVE FALSE
    <3>a. admins' = admins \/ \E A : admins' = Append(admins, A)
      BY <2>3 DEF CreateAdmin
    <3>b. admins \in Seq(AdminRows) /\ i \in 1..Len(admins) /\ Len(admins) \in Nat
      BY <1>1, Types
    <3>1. admins'[i] = admins[i]
      BY <3>a, <3>b
    <3> QED
      BY <2>1, <3>1
  <2>4. ASSUME NEW q \in Requests, Edit(q)
        PROVE  requests'[q].pc = "idle" /\ At(q, "edit") /\ requests[q].target = i
    BY <1>1, <2>1, <2>4, ReplyIdle DEF Edit
  <2>5. ASSUME NEW j \in DOMAIN admins, Deactivate(j) PROVE FALSE
    <3>1. admins[i] \in AdminRows
      BY <1>1 DEF Inv, TypeOK
    <3> QED
      BY <2>1, <2>5, <3>1 DEF Deactivate, AdminRows
  <2> QED
    BY <1>1, <2>1, <2>2, <2>3, <2>4, <2>5, AdminWriters
<1>2. ASSUME Inv, [Next]_vars PROVE [Proven]_vars
  BY <1>1, <1>2
<1> QED
  BY <1>2, Invariance, PTL DEF Spec, ChangeIsProven

(* A change of password ends every other session that existed at its call. *)
THEOREM OthersEnd == Spec => ChangeEndsOthers
<1> DEFINE Ends ==
             \A r \in Requests :
                At(r, "changeCommit") /\ admins' # admins /\ requests'[r].pc = "idle" =>
                   \A s \in 1..requests[r].seen :
                      sessions[s].adminId = requests[r].adminId =>
                         sessions'[s].revoked \/ s = requests[r].session
<1>1. ASSUME Inv, Next PROVE Ends
  <2>1. SUFFICES ASSUME NEW r \in Requests, At(r, "changeCommit"), admins' # admins,
                        requests'[r].pc = "idle", NEW s \in 1..requests[r].seen,
                        sessions[s].adminId = requests[r].adminId
                 PROVE  sessions'[s].revoked \/ s = requests[r].session
    OBVIOUS
  <2>2. requests'[r] # requests[r]
    BY <2>1 DEF At
  <2>3. ChangeCommit(r)
    <3>1. PICK q \in Requests : ChangeCommit(q) \/ CreateAdmin(q) \/ Edit(q)
      BY <1>1, <2>1, <2>2, AdminWriters DEF Deactivate
    <3>2. q = r
      BY <1>1, <2>2, <3>1, OneMoves DEF Step
    <3> QED
      BY <2>1, <3>1, <3>2 DEF CreateAdmin, Edit, At
  <2>4. s \in DOMAIN sessions
    <3>1. requests[r].seen \in Nat /\ requests[r].seen <= Len(sessions)
      BY <1>1, Types DEF RequestRecords, Handler
    <3> QED
      BY <1>1, <3>1, Types
  <2>5. sessions[s].revoked \/ s = requests[r].session \/ s \in requests[r].doomed
    BY <1>1, <2>1 DEF Inv, OthersDoomed
  <2>6. sessions[s] \in SessionRows /\ sessions' = Revoke(requests[r].doomed)
    BY <1>1, <2>3, <2>4, Types DEF ChangeCommit
  <2> QED
    BY <2>4, <2>5, <2>6 DEF Revoke, SessionRows
<1>2. ASSUME Inv, [Next]_vars PROVE [Ends]_vars
  BY <1>1, <1>2
<1> QED
  BY <1>2, Invariance, PTL DEF Spec, ChangeEndsOthers

-----------------------------------------------------------------------------
(* The refinement of SessionLife.                                          *)

Life == [owner : Nat, credential : Nat, ended : BOOLEAN]

LifeOf(S) == [owner |-> S.adminId, credential |-> S.credential, ended |-> S.revoked]

(* The mapping, row by row.                                                *)
RowByRow ==
    /\ Lives \in Seq(Life) /\ DOMAIN Lives = DOMAIN sessions
    /\ Len(Lives) = Len(sessions)
    /\ \A s \in DOMAIN sessions : Lives[s] = LifeOf(sessions[s])

LEMMA LivesRows == sessions \in Seq(SessionRows) => RowByRow
<1> SUFFICES ASSUME sessions \in Seq(SessionRows) PROVE RowByRow
  OBVIOUS
<1>1. \A s \in 1..Len(sessions) : sessions[s] \in SessionRows
  OBVIOUS
<1>2. \A s \in 1..Len(sessions) : LifeOf(sessions[s]) \in Life
  BY <1>1 DEF SessionRows, Life, LifeOf
<1>3. DOMAIN sessions = 1..Len(sessions) /\ Len(sessions) \in Nat
  OBVIOUS
<1>4. Lives = [s \in 1..Len(sessions) |-> LifeOf(sessions[s])]
  BY <1>3 DEF Lives, LifeOf
<1>5. Lives \in [1..Len(sessions) -> Life]
  BY <1>2, <1>4
<1>6. Lives \in Seq(Life) /\ Len(Lives) = Len(sessions)
  BY <1>3, <1>5, SeqDef, LenProperties
<1> QED
  BY <1>3, <1>4, <1>6 DEF RowByRow

(* ... and after a step.                                                   *)
LEMMA LivesRowsNext == (sessions \in Seq(SessionRows))' => RowByRow'
  BY LivesRows, PTL

LEMMA TradedSame ==
  ASSUME credentials' = credentials
  PROVE  Traded' = Traded
  BY DEF Traded

LEMMA TradedGrows ==
  ASSUME NEW C \in CredentialRows, credentials \in Seq(CredentialRows),
         credentials' = Append(credentials, C)
  PROVE  Traded' = (Traded \cup {C.parent}) \ {0}
<1>1. /\ DOMAIN credentials = 1..Len(credentials) /\ Len(credentials) \in Nat
      /\ DOMAIN credentials' = 1..Len(credentials) + 1
      /\ \A c \in 1..Len(credentials) : credentials'[c] = credentials[c]
      /\ credentials'[Len(credentials) + 1] = C
  BY AppendProperties
<1>2. ASSUME NEW x, x \in Traded' PROVE x \in (Traded \cup {C.parent}) \ {0}
  <2>1. PICK c \in DOMAIN credentials' : credentials'[c].parent = x
    BY <1>2 DEF Traded
  <2>2. c \in 1..Len(credentials) \/ c = Len(credentials) + 1
    BY <1>1
  <2> QED
    BY <2>1, <2>2, <1>1, <1>2 DEF Traded
<1>3. ASSUME NEW x, x \in (Traded \cup {C.parent}) \ {0} PROVE x \in Traded'
  <2>1. PICK c \in DOMAIN credentials' : credentials'[c].parent = x
    <3>1. CASE x = C.parent
      BY <1>1, <3>1
    <3>2. CASE x \in Traded
      <4>1. PICK c \in DOMAIN credentials : credentials[c].parent = x
        BY <3>2 DEF Traded
      <4> QED
        BY <4>1, <1>1
    <3> QED
      BY <1>3, <3>1, <3>2
  <2> QED
    BY <2>1, <1>3 DEF Traded
<1> QED
  BY <1>2, <1>3

(* A revocation ends sessions and touches nothing else.                    *)
LEMMA RevokeEnds ==
  ASSUME Inv, NEW S, sessions' = Revoke(S), UNCHANGED credentials
  PROVE  SessionLife!End(S \cap DOMAIN Lives)
<1>1. sessions \in Seq(SessionRows)
  BY DEF Inv, TypeOK
<1>2. DOMAIN Lives = DOMAIN sessions /\ \A s \in DOMAIN sessions : sessions[s] \in SessionRows
  BY <1>1, LivesRows DEF RowByRow
<1>3. Lives' = [s \in DOMAIN Lives |->
                  [Lives[s] EXCEPT !.ended = @ \/ s \in S \cap DOMAIN Lives]]
  <2>1. DOMAIN sessions' = DOMAIN sessions
    BY DEF Revoke
  <2>2. Lives' = [s \in DOMAIN sessions |-> LifeOf(sessions'[s])]
    BY <2>1 DEF Lives, LifeOf
  <2>3. ASSUME NEW s \in DOMAIN sessions
        PROVE  LifeOf(sessions'[s]) = [Lives[s] EXCEPT !.ended = @ \/ s \in S \cap DOMAIN Lives]
    <3>1. sessions'[s] = [sessions[s] EXCEPT !.revoked = @ \/ s \in S]
      BY DEF Revoke
    <3>2. /\ sessions'[s].adminId = sessions[s].adminId
          /\ sessions'[s].credential = sessions[s].credential
          /\ sessions'[s].revoked = (sessions[s].revoked \/ s \in S)
      BY <3>1, <1>2 DEF SessionRows
    <3>3. Lives[s] = LifeOf(sessions[s])
      BY <1>1, LivesRows DEF RowByRow
    <3>4. (s \in S \cap DOMAIN Lives) = (s \in S)
      BY <1>2
    <3> QED
      BY <3>2, <3>3, <3>4 DEF LifeOf
  <2> QED
    BY <1>2, <2>2, <2>3
<1> QED
  BY <1>3, TradedSame DEF SessionLife!End

LEMMA OpenStep ==
  ASSUME Inv, NEW r \in Requests, CreateSession(r)
  PROVE  SessionLife!Open
<1> DEFINE i == requests[r].adminId
           c == Len(credentials) + 1
           S == [adminId |-> i, credential |-> c, revoked |-> FALSE, expired |-> FALSE]
           C == [session |-> Len(sessions) + 1, jwt |-> c, parent |-> 0]
           L == [owner |-> i, credential |-> c, ended |-> FALSE]
<1>1. sessions' = Append(sessions, S) /\ credentials' = Append(credentials, C)
      /\ requests[r].pc = "createSession"
  BY DEF CreateSession, At
<1>2. i \in Nat
  BY <1>1, Types DEF Handler, Known
<1>3. S \in SessionRows /\ C \in CredentialRows /\ C.parent = 0 /\ L \in Life /\ LifeOf(S) = L
  BY <1>2, Types DEF SessionRows, CredentialRows, Life, LifeOf
<1> HIDE DEF S, C
<1>4. Len(credentials') = c /\ Traded' = Traded
  <2>1. Len(credentials') = c
    BY <1>1, <1>3, Types, AppendProperties
  <2>2. Traded' = (Traded \cup {0}) \ {0}
    BY <1>1, <1>3, Types, TradedGrows
  <2> QED
    BY <2>1, <2>2 DEF Traded
<1>5. /\ sessions' \in Seq(SessionRows) /\ Len(sessions') = Len(sessions) + 1
      /\ \A s \in 1..Len(sessions) : sessions'[s] = sessions[s]
      /\ sessions'[Len(sessions) + 1] = S
  BY <1>1, <1>3, Types, AppendProperties
<1>6. /\ Lives' \in Seq(Life) /\ Len(Lives') = Len(sessions) + 1
      /\ DOMAIN Lives' = DOMAIN sessions'
      /\ \A s \in DOMAIN sessions' : Lives'[s] = LifeOf(sessions'[s])
  BY <1>5, LivesRowsNext DEF RowByRow, SessionRows
<1>7. Lives' = Append(Lives, L)
  <2>1. Lives \in Seq(Life) /\ Len(Lives) = Len(sessions)
        /\ \A s \in 1..Len(sessions) : Lives[s] = LifeOf(sessions[s])
    BY Types, LivesRows DEF RowByRow
  <2>2. /\ Append(Lives, L) \in Seq(Life) /\ Len(Append(Lives, L)) = Len(sessions) + 1
        /\ \A s \in 1..Len(sessions) : Append(Lives, L)[s] = Lives[s]
        /\ Append(Lives, L)[Len(sessions) + 1] = L
    BY <1>3, <2>1, AppendProperties
  <2>3. ASSUME NEW s \in 1..Len(sessions) + 1 PROVE Lives'[s] = Append(Lives, L)[s]
    <3>1. s \in 1..Len(sessions) \/ s = Len(sessions) + 1
      BY Types
    <3>2. s \in DOMAIN sessions'
      BY <1>5
    <3> QED
      BY <3>1, <3>2, <1>3, <1>5, <1>6, <2>1, <2>2
  <2> QED
    BY <1>6, <2>2, <2>3, SeqEqual
<1>8. i \in SessionLife!Owners(Lives')
  <2>1. Len(sessions) + 1 \in DOMAIN Lives'
    BY <1>5, <1>6, Types
  <2>2. Lives'[Len(sessions) + 1].owner = i
    BY <1>3, <1>5, <1>6, <2>1 DEF LifeOf
  <2> QED
    BY <2>1, <2>2 DEF SessionLife!Owners
<1> QED
  BY <1>4, <1>7, <1>8 DEF SessionLife!Open

(* The rotation trades the credential that counts, of a live session.      *)
LEMMA TradeStep ==
  ASSUME Inv, NEW r \in Requests, Rotate(r),
         Rotatable(requests[r].session, requests[r].credential)
  PROVE  \E s \in DOMAIN Lives : SessionLife!Trade(s)
<1> DEFINE s == requests[r].session
           new == Len(credentials) + 1
           S == [sessions[s] EXCEPT !.credential = new]
<1>1. /\ requests[r].pc = "rotate" /\ s \in DOMAIN sessions
      /\ requests[r].credential = requests[r].csrf
      /\ requests[r].csrf \in DOMAIN credentials
  BY Types DEF Rotate, At, Handler
<1>2. /\ sessions[s].credential = requests[r].csrf /\ ~sessions[s].revoked
      /\ sessions' = [sessions EXCEPT ![s] = S]
  BY <1>1 DEF Rotate, Rotatable
<1>3. PICK jwt \in {credentials[requests[r].credential].jwt, new} :
         credentials' = Append(credentials,
                               [session |-> s, jwt |-> jwt, parent |-> requests[r].csrf])
  BY DEF Rotate
<1> DEFINE C == [session |-> s, jwt |-> jwt, parent |-> requests[r].csrf]
<1>4. credentials[requests[r].credential] \in CredentialRows /\ sessions[s] \in SessionRows
      /\ requests[r].csrf \in Nat /\ requests[r].csrf # 0 /\ new \in Nat /\ s \in Nat
  BY <1>1, Types
<1>5. C \in CredentialRows /\ C.parent = requests[r].csrf
  <2>1. jwt \in Nat
    BY <1>3, <1>4 DEF CredentialRows
  <2> QED
    BY <2>1, <1>4 DEF CredentialRows
<1> HIDE DEF C
<1>6. Len(credentials') = new /\ Traded' = Traded \cup {sessions[s].credential}
  <2>1. credentials' = Append(credentials, C)
    BY <1>3 DEF C
  <2>2. Len(credentials') = new
    BY <2>1, <1>5, Types, AppendProperties
  <2>3. Traded' = (Traded \cup {requests[r].csrf}) \ {0}
    BY <2>1, <1>5, Types, TradedGrows
  <2> QED
    BY <2>2, <2>3, <1>2, <1>4 DEF Traded
<1>7. LifeOf(S) = [LifeOf(sessions[s]) EXCEPT !.credential = new]
  BY <1>4 DEF LifeOf, SessionRows
<1>8. /\ s \in DOMAIN Lives /\ Lives[s] = LifeOf(sessions[s])
      /\ DOMAIN Lives = DOMAIN sessions
      /\ \A t \in DOMAIN sessions : Lives[t] = LifeOf(sessions[t])
  BY <1>1, Types, LivesRows DEF RowByRow
<1>9. Lives' = [Lives EXCEPT ![s].credential = new]
  <2> HIDE DEF S
  <2>1. /\ DOMAIN sessions' = DOMAIN sessions
        /\ \A t \in DOMAIN sessions : sessions'[t] = IF t = s THEN S ELSE sessions[t]
    BY <1>1, <1>2
  <2>2. Lives' = [t \in DOMAIN sessions |-> LifeOf(sessions'[t])]
    BY <2>1 DEF Lives, LifeOf
  <2>3. Lives = [t \in DOMAIN sessions |-> LifeOf(sessions[t])]
    BY DEF Lives, LifeOf
  <2>4. \A t \in DOMAIN sessions :
           LifeOf(sessions'[t]) = IF t = s THEN [LifeOf(sessions[s]) EXCEPT !.credential = new]
                                  ELSE LifeOf(sessions[t])
    BY <1>7, <2>1
  <2> QED
    BY <1>8, <2>2, <2>3, <2>4
<1>10. ~Lives[s].ended /\ Lives[s].credential = sessions[s].credential
  BY <1>2, <1>8 DEF LifeOf
<1> QED
  BY <1>6, <1>8, <1>9, <1>10 DEF SessionLife!Trade

(* Every step is a step of SessionLife or changes nothing it can see.      *)
LEMMA SessionStep ==
  ASSUME Inv, [Next]_vars
  PROVE  [SessionLife!Next]_<<Lives, Len(credentials), Traded>>
<1> DEFINE Same == UNCHANGED <<Lives, Len(credentials), Traded>>
<1>1. CASE UNCHANGED <<sessions, credentials>>
  <2>1. Same
    BY <1>1, TradedSame DEF Lives
  <2> QED
    BY <2>1
<1>2. ASSUME NEW r \in Requests, CreateSession(r) PROVE SessionLife!Next
  BY <1>2, OpenStep DEF SessionLife!Next
<1>3. ASSUME NEW r \in Requests, Rotate(r)
      PROVE  SessionLife!Next \/ UNCHANGED <<sessions, credentials>>
  BY <1>3, TradeStep DEF SessionLife!Next, Rotate
<1>4. ASSUME NEW r \in Requests, Replay(r) \/ Logout(r) \/ LogoutAll(r) \/ ChangeCommit(r)
      PROVE  SessionLife!Next
  <2>1. PICK S : sessions' = Revoke(S)
    BY <1>4 DEF Replay, Logout, LogoutAll, ChangeCommit
  <2>2. SessionLife!End(S \cap DOMAIN Lives)
    BY <1>4, <2>1, RevokeEnds DEF Replay, Logout, LogoutAll, ChangeCommit
  <2> QED
    BY <2>2 DEF SessionLife!Next
<1>5. CASE Expire
  <2>1. PICK s \in DOMAIN sessions : sessions' = [sessions EXCEPT ![s].expired = TRUE]
    BY <1>5 DEF Expire
  <2>2. \A t \in DOMAIN sessions : sessions[t] \in SessionRows
    BY DEF Inv, TypeOK
  <2>3. \A t \in DOMAIN sessions : LifeOf(sessions'[t]) = LifeOf(sessions[t])
    BY <2>1, <2>2 DEF LifeOf, SessionRows
  <2>4. Lives' = Lives
    BY <2>1, <2>3 DEF Lives, LifeOf
  <2>5. Same
    BY <1>5, <2>4, TradedSame DEF Expire
  <2> QED
    BY <2>5
<1>6. ASSUME NEW r \in Requests, Call(r) \/ Step(r) \/ Abort(r)
      PROVE  \/ UNCHANGED <<sessions, credentials>> \/ CreateSession(r) \/ Rotate(r)
             \/ Replay(r) \/ Logout(r) \/ LogoutAll(r) \/ ChangeCommit(r)
  BY <1>6 DEF Call, CallLogin, CallRefresh, CallLogout, CallLogoutAll, CallChange, CallAdd,
         CallEdit, Begin, Step, Authenticate, FindSession, FindAdmin, GuardSession,
         GuardAdmin, ChangeRevoke, FindName, CreateAdmin, Edit, Abort
<1>7. CASE (\E i \in DOMAIN admins : Deactivate(i)) \/ UNCHANGED vars
  BY <1>1, <1>7 DEF Deactivate, vars
<1> QED
  BY <1>1, <1>2, <1>3, <1>4, <1>5, <1>6, <1>7 DEF Next

(* The sessions of administrators live as SessionLife says: a credential   *)
(* is traded once, for its successor, and an ended session stays ended.    *)
THEOREM SessionsImplemented == Spec => ImplementsSessions
<1>1. Init => SessionLife!Init
  <2> SUFFICES ASSUME Init PROVE SessionLife!Init
    OBVIOUS
  <2>1. sessions = <<>> /\ credentials = <<>>
    BY DEF Init
  <2>2. Lives = <<>>
    BY <2>1, LivesRows DEF RowByRow
  <2>3. Traded = {}
    BY <2>1 DEF Traded
  <2> QED
    BY <2>1, <2>2, <2>3 DEF SessionLife!Init
<1>2. Inv /\ [Next]_vars => [SessionLife!Next]_<<Lives, Len(credentials), Traded>>
  BY SessionStep
<1> QED
  BY <1>1, <1>2, Invariance, PTL DEF Spec, ImplementsSessions, SessionLife!Spec
=============================================================================
