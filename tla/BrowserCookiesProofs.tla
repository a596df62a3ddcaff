------------------------ MODULE BrowserCookiesProofs ------------------------
(***************************************************************************)
(* What BrowserCookies guarantees for any tabs, faults and number of calls. *)
(***************************************************************************)
EXTENDS BrowserCookies, SequenceTheorems, TLAPS

-----------------------------------------------------------------------------
(* The inductive invariant.                                                *)

(* A credential of a session of an account of kind k.                      *)
Issued(c, k) == c \in DOMAIN credentials /\ sessions[credentials[c]].owner = k

(* Credentials belong to their sessions, and the browser has no others.    *)
References ==
    /\ \A s \in DOMAIN sessions :
          sessions[s].credential \in DOMAIN credentials /\ credentials[sessions[s].credential] = s
    /\ \A k \in AllKinds : /\ jar[k].refresh # 0 => Issued(jar[k].refresh, k)
                           /\ \A s \in DOMAIN sessions :
                                 sessions[s].owner = k => \E t \in DOMAIN sessions : Newest(k, t)

(* What a call carries and what its answer brings.                         *)
Sound(q) ==
    /\ q.pc = "idle" => q = Idle
    /\ q.sent.csrf = q.sent.refresh
    /\ q.sent.refresh # 0 => Issued(q.sent.refresh, q.kind)
    /\ q.sent.access # 0 => q.sent.access \in DOMAIN credentials
    /\ q.set # 0 => Issued(q.set, q.kind)
    /\ q.set # 0 \/ q.clear => q.pc = "answered"
    /\ q.op = "refresh" => q.sent.refresh # 0
    /\ q.pc = "createSession" => q.op = "login"
    /\ q.pc \in {"findSession", "rotate", "replay"} => q.op = "refresh"
    /\ q.pc = "revoke" => q.sent.access # 0

Handlers == \A r \in Requests : Sound(requests[r])

(* c is what a jar in step holds for k.                                    *)
InStep(k, c) ==
    \A s \in DOMAIN sessions : Newest(k, s) =>
        (~Lives(s) \/ c # 0) /\ c \in {0, sessions[s].credential}

Changes(q, k) == q.kind = k /\ (q.set # 0 \/ q.clear)

(* A browser that waits for its answers is in step, or will be when the    *)
(* answer under way arrives.                                               *)
Waiting(q) ==
    /\ q.pc \notin {"idle", "answered"} => q.sent.refresh = jar[q.kind].refresh
    /\ q.pc = "revoke" /\ q.op = "logout" =>
          q.sent.refresh = sessions[credentials[q.sent.access]].credential
    /\ Changes(q, q.kind) => InStep(q.kind, q.set)

InTouch ==
    Informed =>
        /\ \A r, q \in Requests : r # q => At(r, "idle") \/ At(q, "idle")
        /\ \A r \in Requests : Waiting(requests[r])
        /\ \A k \in AllKinds :
              (\A r \in Requests : ~Changes(requests[r], k)) => InStep(k, jar[k].refresh)

Inv ==
    /\ TypeOK
    /\ CoherentJar
    /\ References
    /\ Handlers
    /\ InTouch

-----------------------------------------------------------------------------
(* The tables.                                                             *)

(* What every step does to sessions and credentials.                       *)
TablesKept ==
    /\ sessions' \in Seq(SessionRows) /\ credentials' \in Seq(DOMAIN sessions')
    /\ DOMAIN sessions \subseteq DOMAIN sessions'
    /\ DOMAIN credentials \subseteq DOMAIN credentials'
    /\ \A c \in DOMAIN credentials : credentials'[c] = credentials[c]
    /\ \A s \in DOMAIN sessions :
          /\ sessions'[s].owner = sessions[s].owner
          /\ sessions[s].ended => sessions'[s].ended
          /\ sessions[s].expired => sessions'[s].expired
          /\ \/ sessions'[s].credential = sessions[s].credential
             \/ sessions'[s].credential \notin DOMAIN credentials
    /\ \A s \in DOMAIN sessions' : /\ sessions'[s].credential \in DOMAIN credentials'
                                   /\ credentials'[sessions'[s].credential] = s

(* What a step does that issues nothing.                                   *)
Steady ==
    /\ sessions' \in Seq(SessionRows) /\ credentials' = credentials
    /\ DOMAIN sessions' = DOMAIN sessions
    /\ \A s \in DOMAIN sessions : /\ sessions'[s].owner = sessions[s].owner
                                  /\ sessions'[s].credential = sessions[s].credential
                                  /\ sessions[s].ended => sessions'[s].ended
                                  /\ sessions[s].expired => sessions'[s].expired

LEMMA SteadyKept == Inv /\ Steady => TablesKept
  BY DEF Inv, TypeOK, References, Steady, TablesKept

LEMMA SteadyNewest ==
  ASSUME Steady, NEW k, NEW s
  PROVE  s \in DOMAIN sessions => (Newest(k, s)' <=> Newest(k, s))
  BY DEF Steady, Newest

LEMMA SteadyInStep ==
  ASSUME Steady, NEW k, NEW c, InStep(k, c)
  PROVE  InStep(k, c)'
  BY SteadyNewest DEF Steady, InStep, Lives

LEMMA UnchangedSteady == Inv /\ UNCHANGED <<sessions, credentials>> => Steady
  BY DEF Inv, TypeOK, Steady

LEMMA FunctionIsSeq ==
  ASSUME NEW S, NEW n \in Nat, NEW f \in [1..n -> S]
  PROVE  f \in Seq(S)
  BY SeqDef, Zenon

LEMMA EndSteady ==
  ASSUME Inv, NEW S, End(S), credentials' = credentials
  PROVE  /\ Steady
         /\ \A s \in DOMAIN sessions : s \in S => sessions'[s].ended
<1>1. /\ sessions \in Seq(SessionRows) /\ DOMAIN sessions = 1..Len(sessions)
      /\ Len(sessions) \in Nat
  BY DEF Inv, TypeOK
<1>2. DOMAIN sessions' = DOMAIN sessions
  BY DEF End
<1>3. ASSUME NEW s \in DOMAIN sessions
      PROVE  /\ sessions'[s] \in SessionRows
             /\ sessions'[s].owner = sessions[s].owner
             /\ sessions'[s].credential = sessions[s].credential
             /\ sessions'[s].ended <=> (sessions[s].ended \/ s \in S)
             /\ sessions'[s].expired <=> sessions[s].expired
  <2>1. sessions[s] \in SessionRows
    BY <1>1
  <2>2. sessions'[s] = [sessions[s] EXCEPT !.ended = @ \/ s \in S]
    BY DEF End
  <2> QED
    BY <2>1, <2>2 DEF SessionRows
<1>4. sessions' \in [1..Len(sessions) -> SessionRows]
  BY <1>1, <1>3 DEF End
<1>5. sessions' \in Seq(SessionRows)
  BY <1>1, <1>4, FunctionIsSeq
<1> QED
  BY <1>2, <1>3, <1>5 DEF Steady

(* An issued credential stays issued; one that lost its worth stays so.    *)
LEMMA KeptIssued ==
  ASSUME Inv, TablesKept, NEW c, NEW k, Issued(c, k)
  PROVE  Issued(c, k)'
<1>1. c \in DOMAIN credentials /\ credentials[c] \in DOMAIN sessions
  BY DEF Inv, TypeOK, Issued
<1> QED
  BY <1>1 DEF TablesKept, Issued

LEMMA KeptWorthless ==
  ASSUME Inv, TablesKept, NEW c \in DOMAIN credentials, ~Acceptable(c)
  PROVE  ~Acceptable(c)'
<1> PICK s : s = credentials[c]
  OBVIOUS
<1>1. s \in DOMAIN sessions /\ credentials'[c] = s
  BY DEF Inv, TypeOK, TablesKept
<1>2. sessions[s].credential # c \/ sessions[s].ended \/ sessions[s].expired
  BY DEF Acceptable, Lives, SessionOf
<1>3. sessions'[s].credential # c \/ sessions'[s].ended \/ sessions'[s].expired
  BY <1>1, <1>2 DEF TablesKept
<1> QED
  BY <1>1, <1>3 DEF Acceptable, Lives, SessionOf

LEMMA SoundKept ==
  ASSUME Inv, TablesKept, NEW q, Sound(q)
  PROVE  Sound(q)'
<1>1. Issued(q.sent.refresh, q.kind) => Issued(q.sent.refresh, q.kind)'
  BY KeptIssued
<1>2. Issued(q.set, q.kind) => Issued(q.set, q.kind)'
  BY KeptIssued
<1>3. q.sent.access \in DOMAIN credentials => q.sent.access \in DOMAIN credentials'
  BY DEF TablesKept
<1> QED
  BY <1>1, <1>2, <1>3 DEF Sound

LEMMA IdleFacts ==
  /\ Idle \in RequestRecords /\ Idle.pc = "idle" /\ Idle.set = 0 /\ Idle.op = "none"
  /\ Sound(Idle) /\ Sound(Idle)' /\ \A k : ~Changes(Idle, k)
  /\ Waiting(Idle) /\ Waiting(Idle)'
<1>1. /\ Idle.pc = "idle" /\ Idle.set = 0 /\ ~Idle.clear /\ Idle.sent = NoCookies
      /\ Idle.op = "none" /\ Idle.kind = "user" /\ Idle.status = "none"
  BY DEF Idle
<1>2. NoCookies.refresh = 0 /\ NoCookies.csrf = 0 /\ NoCookies.access = 0
  BY DEF NoCookies
<1>3. Idle \in RequestRecords
  BY DEF Idle, RequestRecords, NoCookies, Cookies, Ops, Steps, Statuses, AllKinds
<1> QED
  BY <1>1, <1>2, <1>3 DEF Sound, Waiting, Changes

LEMMA RequestFacts ==
  ASSUME Inv, NEW r \in Requests
  PROVE  /\ requests[r] \in RequestRecords /\ Sound(requests[r])
         /\ requests[r].kind \in AllKinds
         /\ requests \in [Requests -> RequestRecords]
  BY DEF Inv, TypeOK, Handlers, RequestRecords

(* Nobody else is in progress, and nothing is under way to the jar.        *)
LEMMA Alone ==
  ASSUME Inv, NEW r \in Requests, Informed,
         ~At(r, "idle") \/ \A q \in Requests : At(q, "idle"), ~At(r, "answered")
  PROVE  /\ \A q \in Requests \ {r} : requests[q] = Idle
         /\ \A k \in AllKinds : InStep(k, jar[k].refresh)
<1>1. \A q \in Requests \ {r} : At(q, "idle")
  BY DEF Inv, InTouch
<1>2. \A q \in Requests \ {r} : requests[q] = Idle
  BY <1>1, RequestFacts DEF Sound, At
<1>3. \A q \in Requests, k \in AllKinds : ~Changes(requests[q], k)
  BY <1>2, IdleFacts, RequestFacts DEF Sound, At, Changes
<1> QED
  BY <1>2, <1>3 DEF Inv, InTouch

-----------------------------------------------------------------------------
(* Steps.                                                                  *)

(* A browser that is in touch, with r the one call in progress.            *)
InStepWith(q) ==
    /\ Informed
    /\ \A k \in AllKinds : InStep(k, jar[k].refresh)
    /\ q.sent.refresh = jar[q.kind].refresh
    /\ Waiting(q)

LEMMA InStepAlone ==
  ASSUME Inv, NEW r \in Requests, requests[r].pc \notin {"idle", "answered"},
         Informed
  PROVE  InStepWith(requests[r])
<1>1. Waiting(requests[r])
  BY DEF Inv, InTouch
<1>2. \A k \in AllKinds : InStep(k, jar[k].refresh)
  BY Alone DEF At
<1> QED
  BY <1>1, <1>2 DEF InStepWith, Waiting

(* In touch again, after r has gone on to Q.                               *)
LEMMA TouchStep ==
  ASSUME Inv, NEW r \in Requests, requests[r].pc \notin {"idle", "answered"},
         UNCHANGED <<jar, given>>, NEW Q, requests' = [requests EXCEPT ![r] = Q],
         InStepWith(requests[r]) => Waiting(Q)',
         InStepWith(requests[r]) => \A k \in AllKinds :
             ~Changes(Q, k) => InStep(k, jar[k].refresh)'
  PROVE  InTouch'
<1> SUFFICES ASSUME Informed PROVE InTouch'
  BY DEF InTouch, Informed, given
<1>1. \A q \in Requests \ {r} : requests[q] = Idle
  BY Alone DEF At
<1>2. /\ requests'[r] = Q
      /\ \A q \in Requests \ {r} : requests'[q] = Idle
  BY <1>1, RequestFacts
<1>3. /\ Waiting(Q)'
      /\ \A k \in AllKinds : ~Changes(Q, k) => InStep(k, jar[k].refresh)'
  BY InStepAlone
<1>4. \A q \in Requests : Waiting(requests[q])'
  <2> SUFFICES ASSUME NEW q \in Requests PROVE Waiting(requests[q])'
    OBVIOUS
  <2> PICK p : p = requests'[q]
    OBVIOUS
  <2>1. Waiting(p)'
    BY <1>2, <1>3, IdleFacts
  <2> QED
    BY <2>1 DEF Waiting, Changes, InStep, Newest, Lives
<1>5. \A q, p \in Requests : q # p => At(q, "idle")' \/ At(p, "idle")'
  BY <1>2, IdleFacts DEF At
<1>6. ASSUME NEW k \in AllKinds, \A q \in Requests : ~Changes(requests[q], k)'
      PROVE  InStep(k, jar[k].refresh)'
  <2>1. ~Changes(Q, k)
    BY <1>2, <1>6 DEF Changes
  <2> QED
    BY <1>3, <2>1
<1> QED
  BY <1>4, <1>5, <1>6 DEF InTouch

LEMMA HandlersStep ==
  ASSUME Inv, TablesKept, NEW r \in Requests, NEW Q \in RequestRecords,
         requests' = [requests EXCEPT ![r] = Q], Sound(Q)'
  PROVE  /\ Handlers'
         /\ requests' \in [Requests -> RequestRecords]
<1>1. /\ requests'[r] = Q
      /\ \A q \in Requests \ {r} : requests'[q] = requests[q]
      /\ requests' \in [Requests -> RequestRecords]
  BY RequestFacts
<1>2. ASSUME NEW q \in Requests PROVE Sound(requests[q])'
  <2> PICK p : p = requests'[q]
    OBVIOUS
  <2>1. Sound(p)'
    BY <1>1, RequestFacts, SoundKept
  <2> QED
    BY <2>1 DEF Sound, Issued
<1> QED
  BY <1>1, <1>2 DEF Handlers

LEMMA JarKept ==
  ASSUME Inv, TablesKept, jar' = jar,
         \A k \in AllKinds, s \in DOMAIN sessions' :
             sessions'[s].owner = k => \E t \in DOMAIN sessions' : Newest(k, t)'
  PROVE  References' /\ CoherentJar'
<1>1. ASSUME NEW k \in AllKinds, jar[k].refresh # 0 PROVE Issued(jar[k].refresh, k)'
  <2> PICK c : c = jar[k].refresh
    OBVIOUS
  <2>1. Issued(c, k)'
    BY <1>1, KeptIssued DEF Inv, References
  <2> QED
    BY <2>1 DEF Issued
<1> QED
  BY <1>1 DEF References, TablesKept, Inv, CoherentJar

LEMMA SteadyJar ==
  ASSUME Inv, Steady, jar' = jar
  PROVE  References' /\ CoherentJar'
<1>1. \A k \in AllKinds, s \in DOMAIN sessions' :
          sessions'[s].owner = k => \E t \in DOMAIN sessions' : Newest(k, t)'
  BY SteadyNewest DEF Inv, References, Steady
<1> QED
  BY <1>1, SteadyKept, JarKept

(* A step of r to Q that issues nothing and leaves the jar alone.          *)
LEMMA MoveStep ==
  ASSUME Inv, NEW r \in Requests, requests[r].pc \notin {"idle", "answered"},
         Steady, UNCHANGED <<jar, calls, given>>,
         NEW Q \in RequestRecords, requests' = [requests EXCEPT ![r] = Q], Sound(Q),
         Q.kind = requests[r].kind, Q.sent = requests[r].sent, Q.set = 0,
         Q.pc = "revoke" /\ Q.op = "logout" =>
             Q.sent.refresh = sessions[credentials[Q.sent.access]].credential,
         InStepWith(requests[r]) /\ Q.clear => InStep(Q.kind, 0)'
  PROVE  Inv'
<1>1. TablesKept
  BY SteadyKept
<1>2. TypeOK'
  <2>1. requests' \in [Requests -> RequestRecords]
    BY <1>1, SoundKept, HandlersStep
  <2> QED
    BY <2>1, <1>1 DEF Inv, TypeOK, TablesKept, given
<1>3. References' /\ CoherentJar'
  BY SteadyJar
<1>4. Handlers'
  BY <1>1, SoundKept, HandlersStep
<1>5. ASSUME InStepWith(requests[r])
      PROVE  /\ Waiting(Q)'
             /\ \A k \in AllKinds : InStep(k, jar[k].refresh)'
  <2>1. Q.sent.refresh = jar'[Q.kind].refresh
    BY <1>5 DEF InStepWith
  <2>2. ASSUME Q.pc = "revoke", Q.op = "logout"
        PROVE  Q.sent.refresh = sessions'[credentials'[Q.sent.access]].credential
    <3>1. Q.sent.access \in DOMAIN credentials
      BY <2>2 DEF Sound
    <3>2. credentials[Q.sent.access] \in DOMAIN sessions
      BY <3>1 DEF Inv, TypeOK
    <3> QED
      BY <2>2, <3>2 DEF Steady
  <2>3. Changes(Q, Q.kind) => InStep(Q.kind, Q.set)'
    BY <1>5 DEF Changes
  <2>4. \A k \in AllKinds : InStep(k, jar[k].refresh)'
    <3> SUFFICES ASSUME NEW k \in AllKinds PROVE InStep(k, jar[k].refresh)'
      OBVIOUS
    <3> PICK c : c = jar[k].refresh
      OBVIOUS
    <3>1. InStep(k, c)'
      BY <1>5, SteadyInStep DEF InStepWith
    <3> QED
      BY <3>1 DEF InStep, Newest, Lives
  <2> QED
    BY <2>1, <2>2, <2>3, <2>4 DEF Waiting
<1>6. InTouch'
  BY <1>5, TouchStep
<1> QED
  BY <1>2, <1>3, <1>4, <1>6 DEF Inv

LEMMA AnswerStep ==
  ASSUME Inv, NEW r \in Requests, requests[r].pc \notin {"idle", "answered"},
         Steady, UNCHANGED <<jar, calls, given>>,
         NEW status \in Statuses, NEW clear \in BOOLEAN, Answer(r, status, 0, clear),
         NEW k, k = requests[r].kind, InStepWith(requests[r]) /\ clear => InStep(k, 0)'
  PROVE  Inv'
<1> PICK Q : Q = [requests[r] EXCEPT !.pc = "answered", !.status = status,
                                     !.set = 0, !.clear = clear]
  OBVIOUS
<1>1. requests[r] \in RequestRecords /\ Sound(requests[r])
  BY RequestFacts
<1>2. /\ Q \in RequestRecords /\ Q.pc = "answered" /\ Q.set = 0 /\ Q.clear = clear
      /\ Q.kind = requests[r].kind /\ Q.sent = requests[r].sent /\ Q.op = requests[r].op
  BY <1>1 DEF RequestRecords, Steps
<1>3. Sound(Q)
  BY <1>1, <1>2 DEF Sound
<1>4. requests' = [requests EXCEPT ![r] = Q]
  BY RequestFacts DEF Answer
<1> QED
  BY <1>2, <1>3, <1>4, MoveStep

LEMMA GoStep ==
  ASSUME Inv, NEW r \in Requests, requests[r].pc \notin {"idle", "answered"},
         UNCHANGED <<jar, sessions, credentials, calls, given>>,
         NEW step \in {"rotate", "replay", "revoke"}, Go(r, step),
         step # "revoke" => requests[r].op = "refresh",
         step = "revoke" =>
             /\ requests[r].sent.access # 0
             /\ requests[r].sent.refresh = sessions[credentials[requests[r].sent.access]].credential
  PROVE  Inv'
<1> PICK Q : Q = [requests[r] EXCEPT !.pc = step]
  OBVIOUS
<1>1. requests[r] \in RequestRecords /\ Sound(requests[r])
  BY RequestFacts
<1>2. /\ Q \in RequestRecords /\ Q.pc = step /\ Q.set = requests[r].set
      /\ Q.clear = requests[r].clear
      /\ Q.kind = requests[r].kind /\ Q.sent = requests[r].sent /\ Q.op = requests[r].op
  BY <1>1 DEF RequestRecords, Steps
<1>3. Sound(Q) /\ Q.set = 0 /\ ~Q.clear
  BY <1>1, <1>2 DEF Sound, RequestRecords
<1>4. requests' = [requests EXCEPT ![r] = Q]
  BY RequestFacts DEF Go
<1>5. Steady
  BY UnchangedSteady
<1> QED
  BY <1>2, <1>3, <1>4, <1>5, MoveStep

LEMMA FailsStep ==
  ASSUME Inv, NEW r \in Requests, requests[r].pc \notin {"idle", "answered"},
         Fails(r), UNCHANGED <<jar, calls>>
  PROVE  Inv'
<1>1. "error" \in Statuses /\ FALSE \in BOOLEAN
  BY DEF Statuses
<1>2. Answer(r, "error", 0, FALSE) /\ UNCHANGED <<sessions, credentials, given>>
  BY DEF Fails
<1> QED
  BY <1>1, <1>2, AnswerStep, UnchangedSteady

(* In step, the credential in the jar is the one of the session last       *)
(* opened: if it is not good, or ends, so does that session.               *)
LEMMA NotGood ==
  ASSUME Inv, NEW k \in AllKinds, NEW c, c # 0, Issued(c, k), InStep(k, c), Steady,
         ~Acceptable(c) \/ sessions'[credentials[c]].ended
  PROVE  InStep(k, 0)'
<1> SUFFICES ASSUME NEW s \in DOMAIN sessions, Newest(k, s)
             PROVE  sessions'[s].ended \/ sessions'[s].expired
  BY SteadyNewest DEF InStep, Steady, Lives
<1>1. c = sessions[s].credential
  BY DEF InStep
<1>2. credentials[c] = s
  BY <1>1 DEF Inv, References
<1> QED
  BY <1>1, <1>2 DEF Acceptable, Lives, SessionOf, Steady

LEMMA FindSessionStep ==
  ASSUME Inv, NEW r \in Requests, FindSession(r)
  PROVE  Inv'
<1> PICK q : q = requests[r]
  OBVIOUS
<1>1. /\ q.pc = "findSession" /\ q.op = "refresh" /\ Sound(q) /\ q.kind \in AllKinds
      /\ UNCHANGED <<jar, sessions, credentials, calls, given>>
  BY RequestFacts DEF FindSession, At, Sound
<1>2. CASE Go(r, "rotate")
  BY <1>1, <1>2, GoStep
<1>3. CASE ~Matches(q.sent.refresh, q.sent.csrf) /\ Answer(r, "unauthorized", 0, TRUE)
  <2>1. ~Acceptable(q.sent.refresh) /\ q.sent.refresh # 0 /\ Issued(q.sent.refresh, q.kind)
    BY <1>1, <1>3 DEF Matches, Sound
  <2>2. InStepWith(q) => InStep(q.kind, 0)'
    BY <1>1, <2>1, NotGood, UnchangedSteady DEF InStepWith
  <2>3. "unauthorized" \in Statuses /\ TRUE \in BOOLEAN
    BY DEF Statuses
  <2> QED
    BY <1>1, <1>3, <2>2, <2>3, AnswerStep, UnchangedSteady
<1>4. CASE Fails(r)
  BY <1>1, <1>4, FailsStep
<1> QED
  BY <1>2, <1>3, <1>4 DEF FindSession

LEMMA ReplayStep ==
  ASSUME Inv, NEW r \in Requests, Replay(r)
  PROVE  Inv'
<1> PICK q : q = requests[r]
  OBVIOUS
<1>1. /\ q.pc = "replay" /\ q.op = "refresh" /\ Sound(q) /\ q.kind \in AllKinds
      /\ UNCHANGED <<jar, calls, given>>
  BY RequestFacts DEF Replay, At, Sound
<1>2. CASE /\ End({SessionOf(q.sent.refresh)})
           /\ Answer(r, "unauthorized", 0, TRUE) \/ InDoubt(r)
           /\ UNCHANGED credentials
  <2>1. q.sent.refresh # 0 /\ Issued(q.sent.refresh, q.kind)
    BY <1>1 DEF Sound
  <2>2. credentials[q.sent.refresh] \in DOMAIN sessions
    BY <2>1 DEF Inv, TypeOK, Issued
  <2>3. Steady /\ sessions'[credentials[q.sent.refresh]].ended
    BY <1>2, <2>2, EndSteady DEF SessionOf
  <2>4. InStepWith(q) => InStep(q.kind, 0)'
    BY <1>1, <2>1, <2>3, NotGood DEF InStepWith
  <2>5. {"unauthorized", "error"} \subseteq Statuses /\ {TRUE, FALSE} \subseteq BOOLEAN
    BY DEF Statuses
  <2> QED
    BY <1>1, <1>2, <2>3, <2>4, <2>5, AnswerStep DEF InDoubt
<1>3. CASE Fails(r)
  BY <1>1, <1>3, FailsStep
<1> QED
  BY <1>2, <1>3 DEF Replay

LEMMA GuardStep ==
  ASSUME Inv, NEW r \in Requests, Guard(r)
  PROVE  Inv'
<1> PICK q : q = requests[r]
  OBVIOUS
<1>1. /\ q.pc = "guard" /\ Sound(q) /\ UNCHANGED <<jar, sessions, credentials, calls, given>>
  BY RequestFacts DEF Guard, At
<1>2. CASE Verdict(r) = "ok" /\ Go(r, "revoke")
  <2>1. q.sent.access # 0 /\ q.sent.csrf = sessions[credentials[q.sent.access]].credential
    BY <1>2 DEF Verdict, SessionOf
  <2> QED
    BY <1>1, <1>2, <2>1, GoStep DEF Sound
<1>3. CASE Answer(r, Verdict(r), 0, FALSE)
  <2>1. Verdict(r) \in Statuses /\ FALSE \in BOOLEAN
    BY DEF Verdict, Statuses
  <2> QED
    BY <1>1, <1>3, <2>1, AnswerStep, UnchangedSteady
<1>4. CASE Fails(r)
  BY <1>1, <1>4, FailsStep
<1> QED
  BY <1>2, <1>3, <1>4 DEF Guard

LEMMA RevokeStep ==
  ASSUME Inv, NEW r \in Requests, Revoke(r)
  PROVE  Inv'
<1> PICK q : q = requests[r]
  OBVIOUS
<1>1. /\ q.pc = "revoke" /\ Sound(q) /\ q.kind \in AllKinds /\ UNCHANGED <<jar, calls, given>>
  BY RequestFacts DEF Revoke, At
<1>2. ASSUME NEW S, End(S), Answer(r, "ok", 0, TRUE) \/ InDoubt(r), UNCHANGED credentials,
             S = IF q.op = "logout" THEN {SessionOf(q.sent.access)}
                 ELSE {s \in DOMAIN sessions : sessions[s].owner = q.kind}
      PROVE  Inv'
  <2>1. Steady /\ \A s \in DOMAIN sessions : s \in S => sessions'[s].ended
    BY <1>2, EndSteady
  <2>2. ASSUME InStepWith(q) PROVE InStep(q.kind, 0)'
    <3>1. CASE q.op = "logout"
      <4> PICK c, t : c = q.sent.refresh /\ t = credentials[q.sent.access]
        OBVIOUS
      <4>1. q.sent.access \in DOMAIN credentials /\ c = sessions[t].credential
        BY <1>1, <2>2, <3>1 DEF Sound, InStepWith, Waiting
      <4>2. t \in DOMAIN sessions
        BY <4>1 DEF Inv, TypeOK
      <4>3. c \in DOMAIN credentials /\ credentials[c] = t
        BY <4>1, <4>2 DEF Inv, References
      <4>4. c # 0
        BY <4>3 DEF Inv, TypeOK
      <4>5. Issued(c, q.kind) /\ InStep(q.kind, c)
        BY <1>1, <2>2, <4>4 DEF Sound, InStepWith
      <4>6. sessions'[credentials[c]].ended
        BY <1>2, <2>1, <3>1, <4>2, <4>3 DEF SessionOf
      <4> QED
        BY <1>1, <2>1, <4>4, <4>5, <4>6, NotGood
    <3>2. CASE q.op # "logout"
      <4>1. \A s \in DOMAIN sessions : Newest(q.kind, s) => sessions'[s].ended
        BY <1>2, <2>1, <3>2 DEF Newest
      <4> QED
        BY <2>1, <4>1, SteadyNewest DEF InStep, Steady, Lives
    <3> QED
      BY <3>1, <3>2
  <2>3. {"ok", "error"} \subseteq Statuses /\ {TRUE, FALSE} \subseteq BOOLEAN
    BY DEF Statuses
  <2> QED
    BY <1>1, <1>2, <2>1, <2>2, <2>3, AnswerStep DEF InDoubt
<1>3. CASE Fails(r)
  BY <1>1, <1>3, FailsStep
<1> QED
  BY <1>2, <1>3 DEF Revoke

(* A step of r that issues credential n, and tells r so unless it is in    *)
(* doubt.                                                                  *)
Told(r, n) == Answer(r, "ok", n, FALSE) \/ InDoubt(r)

LEMMA IssueStep ==
  ASSUME Inv, NEW r \in Requests, requests[r].pc \in {"createSession", "rotate"},
         TablesKept, UNCHANGED <<jar, calls, given>>,
         NEW n \in Nat \ {0}, NEW k, k = requests[r].kind, Told(r, n), Issued(n, k)',
         \A j \in AllKinds, s \in DOMAIN sessions' :
             sessions'[s].owner = j => \E t \in DOMAIN sessions' : Newest(j, t)',
         InStepWith(requests[r]) =>
             /\ InStep(k, n)'
             /\ \A j \in AllKinds \ {k} : InStep(j, jar[j].refresh)'
  PROVE  Inv'
<1>0. PICK status \in Statuses, m \in {0, n} :
         Answer(r, status, m, FALSE) /\ (m = 0 => "doubt" \in faults)
  <2>1. {"ok", "error"} \subseteq Statuses
    BY DEF Statuses
  <2> QED
    BY <2>1 DEF Told, InDoubt
<1> PICK q, Q : /\ q = requests[r]
                /\ Q = [requests[r] EXCEPT !.pc = "answered", !.status = status,
                                           !.set = m, !.clear = FALSE]
  OBVIOUS
<1>1. q \in RequestRecords /\ Sound(q) /\ Sound(q)' /\ k \in AllKinds
  BY RequestFacts, SoundKept
<1>2. /\ Q \in RequestRecords /\ Q.pc = "answered" /\ Q.set = m /\ Q.clear = FALSE
      /\ Q.kind = k /\ Q.sent = q.sent /\ Q.op = q.op
  <2>1. m \in Nat /\ status \in Statuses /\ "answered" \in Steps /\ FALSE \in BOOLEAN
    BY <1>0 DEF Steps
  <2> QED
    BY <1>1, <2>1 DEF RequestRecords
<1>3. Sound(Q)'
  BY <1>1, <1>2 DEF Sound
<1>4. requests' = [requests EXCEPT ![r] = Q]
  BY <1>0, RequestFacts DEF Answer
<1>5. Handlers' /\ requests' \in [Requests -> RequestRecords]
  BY <1>2, <1>3, <1>4, HandlersStep
<1>6. TypeOK'
  BY <1>5 DEF Inv, TypeOK, TablesKept, given
<1>7. References' /\ CoherentJar'
  BY JarKept
<1>8. ASSUME InStepWith(q)
      PROVE  /\ Waiting(Q)'
             /\ \A j \in AllKinds : ~Changes(Q, j) => InStep(j, jar[j].refresh)'
  <2>0. m = n
    BY <1>0, <1>8 DEF InStepWith, Informed
  <2>1. InStep(Q.kind, Q.set)'
    BY <1>2, <1>8, <2>0
  <2>2. \A j \in AllKinds : Changes(Q, j) <=> j = k
    BY <1>2, <2>0 DEF Changes
  <2> QED
    BY <1>2, <1>8, <2>1, <2>2 DEF Waiting
<1>9. InTouch'
  BY <1>4, <1>8, TouchStep
<1> QED
  BY <1>5, <1>6, <1>7, <1>9 DEF Inv

LEMMA Opened ==
  ASSUME sessions \in Seq(SessionRows), NEW row \in SessionRows,
         sessions' = Append(sessions, row), NEW t, t = Len(sessions) + 1
  PROVE  /\ sessions' \in Seq(SessionRows) /\ sessions'[t] = row
         /\ DOMAIN sessions' = DOMAIN sessions \cup {t}
         /\ \A s \in DOMAIN sessions : sessions'[s] = sessions[s] /\ s < t
<1>1. DOMAIN sessions = 1..Len(sessions) /\ Len(sessions) \in Nat
  OBVIOUS
<1>2. sessions' \in Seq(SessionRows) /\ Len(sessions') = t
  OBVIOUS
<1>3. DOMAIN sessions' = DOMAIN sessions \cup {t}
  BY <1>1, <1>2
<1>4. sessions'[t] = row /\ \A s \in DOMAIN sessions : sessions'[s] = sessions[s] /\ s < t
  BY <1>1
<1> QED
  BY <1>2, <1>3, <1>4

LEMMA CreateSessionStep ==
  ASSUME Inv, NEW r \in Requests, CreateSession(r)
  PROVE  Inv'
<1> PICK q, k, n, t : /\ q = requests[r] /\ k = q.kind /\ n = Fresh
                      /\ t = Len(sessions) + 1
  OBVIOUS
<1>1. /\ q.pc = "createSession" /\ k \in AllKinds /\ UNCHANGED <<jar, calls, given>>
      /\ TypeOK /\ References
  BY RequestFacts DEF CreateSession, At, Inv, Fails, given
<1>2. CASE /\ sessions' = Append(sessions, [owner |-> k, credential |-> n,
                                             ended |-> FALSE, expired |-> FALSE])
           /\ Issue(t) /\ Told(r, n)
  <2> PICK row : row = [owner |-> k, credential |-> n, ended |-> FALSE, expired |-> FALSE]
    OBVIOUS
  <2>1. /\ n \in Nat \ {0} /\ t \in Nat \ {0}
        /\ n = Len(credentials) + 1 /\ credentials \in Seq(DOMAIN sessions)
        /\ sessions \in Seq(SessionRows)
    BY <1>1 DEF TypeOK, Fresh
  <2>2. /\ row \in SessionRows /\ row.owner = k /\ row.credential = n /\ ~row.ended
        /\ sessions' = Append(sessions, row) /\ credentials' = Append(credentials, t)
    BY <1>1, <1>2, <2>1 DEF SessionRows, Issue
  <2>3. /\ sessions' \in Seq(SessionRows) /\ sessions'[t] = row
        /\ DOMAIN sessions' = DOMAIN sessions \cup {t}
        /\ \A s \in DOMAIN sessions : sessions'[s] = sessions[s] /\ s < t
    BY <2>1, <2>2, Opened
  <2>4. credentials \in Seq(DOMAIN sessions') /\ t \in DOMAIN sessions'
    BY <2>1, <2>3
  <2>5. /\ credentials' \in Seq(DOMAIN sessions') /\ credentials'[n] = t
        /\ DOMAIN credentials' = DOMAIN credentials \cup {n} /\ n \notin DOMAIN credentials
        /\ \A c \in DOMAIN credentials : credentials'[c] = credentials[c]
    BY <2>1, <2>2, <2>4
  <2>6. TablesKept
    BY <1>1, <2>2, <2>3, <2>5 DEF TablesKept, References
  <2>7. \A j \in AllKinds, s \in DOMAIN sessions :
            j # k => (Newest(j, s)' <=> Newest(j, s))
    BY <2>2, <2>3 DEF Newest
  <2>8. Newest(k, t)' /\ \A j \in AllKinds : j # k => ~Newest(j, t)'
    BY <1>1, <2>1, <2>2, <2>3 DEF Newest
  <2>9. \A j \in AllKinds, s \in DOMAIN sessions' :
            sessions'[s].owner = j => \E u \in DOMAIN sessions' : Newest(j, u)'
    BY <1>1, <2>2, <2>3, <2>7, <2>8 DEF References
  <2>10. \A s \in DOMAIN sessions : ~Newest(k, s)'
    BY <2>2, <2>3 DEF Newest
  <2>11. InStep(k, n)'
    BY <2>1, <2>2, <2>3, <2>10 DEF InStep, Lives
  <2>12. ASSUME InStepWith(q), NEW j \in AllKinds \ {k}
         PROVE  InStep(j, jar[j].refresh)'
    <3>1. InStep(j, jar[j].refresh)
      BY <2>12 DEF InStepWith
    <3>2. jar' = jar
      BY <1>1
    <3> QED
      BY <2>3, <2>7, <2>8, <3>1, <3>2 DEF InStep, Lives
  <2>13. Issued(n, k)'
    BY <2>2, <2>3, <2>5 DEF Issued
  <2> QED
    BY <1>1, <1>2, <2>1, <2>6, <2>9, <2>11, <2>12, <2>13, IssueStep
<1>3. CASE Answer(r, "error", 0, FALSE) /\ UNCHANGED <<sessions, credentials>>
  <2>1. "error" \in Statuses /\ FALSE \in BOOLEAN
    BY DEF Statuses
  <2> QED
    BY <1>1, <1>3, <2>1, AnswerStep, UnchangedSteady
<1>4. CASE Fails(r)
  BY <1>1, <1>4, FailsStep
<1> QED
  BY <1>2, <1>3, <1>4 DEF CreateSession, Told

LEMMA RotateStep ==
  ASSUME Inv, NEW r \in Requests, Rotate(r)
  PROVE  Inv'
<1> PICK q, k, n, c, t : /\ q = requests[r] /\ k = q.kind /\ n = Fresh
                         /\ c = q.sent.refresh /\ t = credentials[c]
  OBVIOUS
<1>1. /\ q.pc = "rotate" /\ q.op = "refresh" /\ k \in AllKinds /\ Sound(q)
      /\ UNCHANGED <<jar, calls, given>> /\ TypeOK /\ References
  BY RequestFacts DEF Rotate, At, Inv, Fails, given, Sound
<1>2. CASE /\ Rotatable(c)
           /\ sessions' = [sessions EXCEPT ![t].credential = n]
           /\ Issue(t) /\ Told(r, n)
  <2>1. c \in DOMAIN credentials /\ t \in DOMAIN sessions /\ sessions[t].owner = k
    BY <1>1 DEF TypeOK, Sound, Issued
  <2>2. sessions[t].credential = c /\ ~sessions[t].ended
    BY <1>2 DEF Rotatable, SessionOf
  <2>3. /\ n \in Nat \ {0} /\ n = Len(credentials) + 1
        /\ credentials \in Seq(DOMAIN sessions) /\ credentials' = Append(credentials, t)
        /\ sessions \in Seq(SessionRows)
    BY <1>1, <1>2 DEF TypeOK, Fresh, Issue
  <2> PICK row : row = [sessions[t] EXCEPT !.credential = n]
    OBVIOUS
  <2>4. row \in SessionRows /\ row.owner = k /\ row.credential = n /\ ~row.ended
    <3>1. sessions[t] \in SessionRows
      BY <2>1, <2>3
    <3> QED
      BY <2>1, <2>2, <2>3, <3>1 DEF SessionRows
  <2>5. /\ sessions' = [sessions EXCEPT ![t] = row] /\ DOMAIN sessions' = DOMAIN sessions
        /\ sessions'[t] = row /\ \A s \in DOMAIN sessions \ {t} : sessions'[s] = sessions[s]
    BY <1>2, <2>1
  <2>6. sessions' \in Seq(SessionRows)
    <3>1. /\ Len(sessions) \in Nat /\ DOMAIN sessions = 1..Len(sessions)
          /\ sessions \in [1..Len(sessions) -> SessionRows]
      BY <2>3
    <3>2. sessions' \in [1..Len(sessions) -> SessionRows]
      BY <2>4, <2>5, <3>1
    <3> QED
      BY <3>1, <3>2, FunctionIsSeq
  <2>7. /\ credentials' \in Seq(DOMAIN sessions') /\ credentials'[n] = t
        /\ DOMAIN credentials' = DOMAIN credentials \cup {n} /\ n \notin DOMAIN credentials
        /\ \A d \in DOMAIN credentials : credentials'[d] = credentials[d]
    BY <2>1, <2>3, <2>5
  <2>8. TablesKept
    BY <1>1, <2>1, <2>2, <2>4, <2>5, <2>6, <2>7 DEF TablesKept, References
  <2>9. \A j, s : s \in DOMAIN sessions => (Newest(j, s)' <=> Newest(j, s))
    BY <2>1, <2>4, <2>5 DEF Newest
  <2>10. \A j \in AllKinds, s \in DOMAIN sessions' :
            sessions'[s].owner = j => \E u \in DOMAIN sessions' : Newest(j, u)'
    BY <1>1, <2>1, <2>4, <2>5, <2>9 DEF References
  <2>11. ASSUME InStepWith(q) PROVE InStep(k, n)'
    <3>1. c # 0 /\ InStep(k, c)
      BY <1>1, <2>11 DEF InStepWith, Sound
    <3>2. \A s \in DOMAIN sessions : Newest(k, s) => s = t
      BY <1>1, <3>1 DEF InStep, References
    <3> QED
      BY <2>3, <2>4, <2>5, <2>9, <3>2 DEF InStep, Lives
  <2>12. ASSUME InStepWith(q), NEW j \in AllKinds \ {k}
         PROVE  InStep(j, jar[j].refresh)'
    <3>1. InStep(j, jar[j].refresh)
      BY <2>12 DEF InStepWith
    <3>2. \A s \in DOMAIN sessions : Newest(j, s) => s # t
      BY <2>1 DEF Newest
    <3>3. jar' = jar
      BY <1>1
    <3> QED
      BY <2>5, <2>9, <3>1, <3>2, <3>3 DEF InStep, Lives
  <2>13. Issued(n, k)'
    BY <2>1, <2>4, <2>5, <2>7 DEF Issued
  <2> QED
    BY <1>1, <1>2, <2>3, <2>8, <2>10, <2>11, <2>12, <2>13, IssueStep
<1>3. CASE Answer(r, "error", 0, FALSE) /\ UNCHANGED <<sessions, credentials>>
  <2>1. "error" \in Statuses /\ FALSE \in BOOLEAN
    BY DEF Statuses
  <2> QED
    BY <1>1, <1>3, <2>1, AnswerStep, UnchangedSteady
<1>4. CASE Go(r, "replay") /\ UNCHANGED <<sessions, credentials>>
  BY <1>1, <1>4, GoStep
<1>5. CASE Fails(r)
  BY <1>1, <1>5, FailsStep
<1> QED
  BY <1>2, <1>3, <1>4, <1>5 DEF Rotate, SessionOf, Told

-----------------------------------------------------------------------------
(* What the browser and the others do.                                     *)

LEMMA SendStep ==
  ASSUME Inv, NEW r \in Requests, NEW op \in Ops, NEW k \in Kinds,
         NEW step \in {"createSession", "findSession", "guard"}, Send(r, op, k, step),
         op = "refresh" => jar[k].refresh # 0,
         step = "createSession" => op = "login", step = "findSession" => op = "refresh"
  PROVE  Inv'
<1> PICK sent : sent = [jar[k] EXCEPT !.access = Extracted]
  OBVIOUS
<1> PICK Q : Q = [Idle EXCEPT !.op = op, !.kind = k, !.pc = step, !.sent = sent]
  OBVIOUS
<1>1. /\ k \in AllKinds /\ TypeOK /\ CoherentJar /\ References /\ InTouch
      /\ \A j \in AllKinds : jar[j] \in Cookies
  BY BrowserAssumption DEF Inv, TypeOK
<1>2. "user" \in AllKinds /\ "admin" \in AllKinds
  BY DEF AllKinds
<1>3. Extracted \in Nat /\ (Extracted # 0 => Extracted \in DOMAIN credentials)
  BY <1>1, <1>2 DEF Extracted, Cookies, CoherentJar, References, Issued
<1>4. /\ sent \in Cookies /\ sent.refresh = jar[k].refresh /\ sent.csrf = sent.refresh
      /\ sent.access = Extracted
  BY <1>1, <1>3 DEF Cookies, CoherentJar
<1>5. /\ Q \in RequestRecords /\ Q.op = op /\ Q.kind = k /\ Q.pc = step /\ Q.sent = sent
      /\ Q.set = 0 /\ ~Q.clear
  BY <1>1, <1>4, IdleFacts DEF RequestRecords, Idle, Steps
<1>6. Sound(Q)
  <2>1. sent.refresh # 0 => Issued(sent.refresh, k)
    BY <1>1, <1>4 DEF References
  <2>2. Q.op = "refresh" => Q.sent.refresh # 0
    BY <1>4, <1>5
  <2> QED
    BY <1>3, <1>4, <1>5, <2>1, <2>2 DEF Sound
<1>7. /\ requests' = [requests EXCEPT ![r] = Q] /\ requests[r].pc = "idle"
      /\ UNCHANGED <<jar, sessions, credentials, given>>
      /\ Informed => \A q \in Requests : At(q, "idle")
  BY DEF Send, At, Informed
<1>8. Steady /\ TablesKept
  BY <1>7, UnchangedSteady, SteadyKept
<1>9. Handlers' /\ requests' \in [Requests -> RequestRecords]
  BY <1>5, <1>6, <1>7, <1>8, SoundKept, HandlersStep
<1>10. calls' \in 0..MaxCalls
  BY <1>1, BrowserAssumption DEF Send, TypeOK
<1>11. TypeOK'
  BY <1>1, <1>7, <1>8, <1>9, <1>10 DEF TypeOK, TablesKept, given
<1>12. References' /\ CoherentJar'
  BY <1>7, <1>8, SteadyJar
<1>13. ASSUME Informed PROVE InTouch'
  <2>1. /\ \A q \in Requests \ {r} : requests[q] = Idle
        /\ \A j \in AllKinds : InStep(j, jar[j].refresh)
    BY <1>7, <1>13, Alone DEF At
  <2>2. requests'[r] = Q /\ \A q \in Requests \ {r} : requests'[q] = Idle
    BY <1>7, <2>1, RequestFacts
  <2>3. \A q, p \in Requests : q # p => At(q, "idle")' \/ At(p, "idle")'
    BY <2>2, IdleFacts DEF At
  <2>4. \A j \in AllKinds : InStep(j, jar[j].refresh)'
    BY <1>7, <2>1 DEF InStep, Newest, Lives
  <2>5. Waiting(Q)'
    BY <1>4, <1>5, <1>7 DEF Waiting, Changes
  <2>6. \A q \in Requests : Waiting(requests[q])'
    <3> SUFFICES ASSUME NEW q \in Requests PROVE Waiting(requests[q])'
      OBVIOUS
    <3> PICK p : p = requests'[q]
      OBVIOUS
    <3>1. Waiting(p)'
      BY <2>2, <2>5, IdleFacts
    <3> QED
      BY <3>1 DEF Waiting, Changes, InStep, Newest, Lives
  <2> QED
    BY <2>3, <2>4, <2>6 DEF InTouch
<1> QED
  BY <1>7, <1>9, <1>11, <1>12, <1>13 DEF Inv, InTouch, Informed, given

LEMMA CallStep ==
  ASSUME Inv, NEW r \in Requests, Call(r)
  PROVE  Inv'
<1>1. PICK k \in Kinds : Login(r, k) \/ Refresh(r, k) \/ Guarded(r, k)
  BY DEF Call
<1>2. CASE Login(r, k)
  BY <1>2, SendStep DEF Login, Ops
<1>3. CASE Refresh(r, k)
  BY <1>3, SendStep DEF Refresh, Ops
<1>4. CASE Guarded(r, k)
  BY <1>4, SendStep DEF Guarded, Ops
<1> QED
  BY <1>1, <1>2, <1>3, <1>4

(* An answer that arrives, or gets lost.                                   *)
LEMMA ArriveStep ==
  ASSUME Inv, NEW r \in Requests, Deliver(r) \/ Lose(r)
  PROVE  Inv'
<1> PICK q : q = requests[r]
  OBVIOUS
<1>1. /\ q.pc = "answered" /\ Sound(q) /\ q \in RequestRecords /\ q.kind \in AllKinds
      /\ requests' = [requests EXCEPT ![r] = Idle]
      /\ UNCHANGED <<sessions, credentials, calls, given>>
      /\ TypeOK /\ CoherentJar /\ References /\ InTouch
  BY RequestFacts DEF Deliver, Lose, At, Inv
<1>2. Steady /\ TablesKept
  BY <1>1, UnchangedSteady, SteadyKept
<1>3. Handlers' /\ requests' \in [Requests -> RequestRecords]
  BY <1>1, <1>2, IdleFacts, HandlersStep
<1>4. /\ requests'[r] = Idle
      /\ \A p \in Requests \ {r} : requests'[p] = requests[p]
  BY <1>1, RequestFacts
<1>5. CASE Deliver(r)
  <2> PICK c : c = q.set
    OBVIOUS
  <2>1. jar' = IF c # 0 THEN [jar EXCEPT ![q.kind] = [access |-> c, refresh |-> c, csrf |-> c]]
               ELSE IF q.clear THEN [jar EXCEPT ![q.kind] = NoCookies] ELSE jar
    BY <1>5 DEF Deliver, SetCookies, ClearCookies
  <2>2. /\ c \in Nat /\ NoCookies \in Cookies
        /\ NoCookies.access = 0 /\ NoCookies.refresh = 0 /\ NoCookies.csrf = 0
    BY <1>1 DEF RequestRecords, NoCookies, Cookies
  <2>3. jar' \in [AllKinds -> Cookies]
    BY <1>1, <2>1, <2>2 DEF TypeOK, Cookies
  <2>4. /\ \A k \in AllKinds : ~Changes(q, k) => jar'[k] = jar[k]
        /\ Changes(q, q.kind) => /\ jar'[q.kind].refresh = c /\ jar'[q.kind].csrf = c
                                 /\ jar'[q.kind].access = c
    BY <1>1, <2>1, <2>2 DEF TypeOK, Changes
  <2>5. \A k \in AllKinds : Changes(q, k) => k = q.kind
    BY DEF Changes
  <2>6. CoherentJar'
    BY <1>1, <2>4, <2>5 DEF CoherentJar
  <2>7. References'
    <3>1. ASSUME NEW k \in AllKinds, jar'[k].refresh # 0
          PROVE  Issued(jar[k].refresh, k)'
      <4>1. Issued(jar'[k].refresh, k)
        BY <1>1, <2>4, <2>5, <3>1 DEF Sound, References
      <4> QED
        BY <1>1, <4>1 DEF Issued
    <3> QED
      BY <1>1, <3>1 DEF References, Newest
  <2>8. ASSUME Informed PROVE InTouch'
    <3>1. \A p \in Requests \ {r} : requests[p] = Idle
      BY <1>1, <2>8, RequestFacts DEF InTouch, At, Sound
    <3>2. \A p \in Requests : requests'[p] = Idle
      BY <1>4, <3>1
    <3>3. ASSUME NEW k \in AllKinds PROVE InStep(k, jar[k].refresh)'
      <4>1. CASE Changes(q, k)
        <5>1. InStep(k, c) /\ jar'[k].refresh = c
          BY <1>1, <2>4, <2>5, <2>8, <4>1 DEF InTouch, Waiting
        <5> QED
          BY <1>1, <5>1 DEF InStep, Newest, Lives
      <4>2. CASE ~Changes(q, k)
        <5>1. InStep(k, jar[k].refresh) /\ jar'[k] = jar[k]
          BY <1>1, <2>4, <2>8, <3>1, <4>2, IdleFacts DEF InTouch
        <5> QED
          BY <1>1, <5>1 DEF InStep, Newest, Lives
      <4> QED
        BY <4>1, <4>2
    <3>4. \A p \in Requests : Waiting(requests[p])' /\ At(p, "idle")'
      <4> SUFFICES ASSUME NEW p \in Requests PROVE Waiting(requests[p])' /\ At(p, "idle")'
        OBVIOUS
      <4>1. requests'[p] = Idle
        BY <3>2
      <4> QED
        BY <4>1, IdleFacts DEF Waiting, At, Changes
    <3> QED
      BY <3>3, <3>4 DEF InTouch
  <2>9. TypeOK'
    BY <1>1, <1>2, <1>3, <2>3 DEF TypeOK, TablesKept, given
  <2> QED
    BY <1>1, <1>3, <2>6, <2>7, <2>8, <2>9 DEF Inv, InTouch, Informed, given
<1>6. CASE Lose(r)
  <2>1. jar' = jar /\ "lose" \in faults
    BY <1>6 DEF Lose
  <2>2. TypeOK'
    BY <1>1, <1>2, <1>3, <2>1 DEF TypeOK, TablesKept, given
  <2> QED
    BY <1>1, <1>2, <1>3, <2>1, <2>2, SteadyJar DEF Inv, InTouch, Informed, given
<1> QED
  BY <1>5, <1>6

(* A session ends elsewhere, or an access cookie expires.                  *)
LEMMA OutsideStep ==
  ASSUME Inv, Steady, UNCHANGED <<requests, calls, given>>,
         jar' \in [AllKinds -> Cookies],
         \A k \in AllKinds : /\ jar'[k].refresh = jar[k].refresh /\ jar'[k].csrf = jar[k].csrf
                             /\ jar'[k].access \in {0, jar[k].access}
  PROVE  Inv'
<1>1. TablesKept /\ TypeOK /\ CoherentJar /\ References /\ InTouch
  BY SteadyKept DEF Inv
<1>2. TypeOK'
  BY <1>1 DEF TypeOK, TablesKept, given
<1>3. CoherentJar'
  BY <1>1 DEF CoherentJar
<1>4. References'
  <2>1. ASSUME NEW k \in AllKinds, jar'[k].refresh # 0
        PROVE  Issued(jar[k].refresh, k)'
    <3> PICK c : c = jar'[k].refresh
      OBVIOUS
    <3>1. Issued(c, k)'
      BY <1>1, <2>1, KeptIssued DEF References
    <3> QED
      BY <3>1 DEF Issued
  <2>2. \A k \in AllKinds, s \in DOMAIN sessions' :
            sessions'[s].owner = k => \E t \in DOMAIN sessions' : Newest(k, t)'
    BY <1>1, SteadyNewest DEF References, Steady
  <2> QED
    BY <1>1, <2>1, <2>2 DEF References, TablesKept
<1>5. Handlers'
  <2> SUFFICES ASSUME NEW r \in Requests PROVE Sound(requests[r])'
    BY DEF Handlers
  <2> PICK q : q = requests[r]
    OBVIOUS
  <2>1. Sound(q)' /\ requests'[r] = q
    BY <1>1, RequestFacts, SoundKept
  <2> QED
    BY <2>1 DEF Sound, Issued
<1>6. ASSUME Informed PROVE InTouch'
  <2>1. ASSUME NEW r \in Requests PROVE Waiting(requests[r])'
    <3> PICK q : q = requests[r]
      OBVIOUS
    <3>1. Waiting(q) /\ requests'[r] = q /\ Sound(q) /\ q.kind \in AllKinds
      BY <1>1, <1>6, RequestFacts DEF InTouch
    <3>2. Changes(q, q.kind) => InStep(q.kind, q.set)'
      BY <3>1, SteadyInStep DEF Waiting
    <3>3. q.pc = "revoke" => credentials[q.sent.access] \in DOMAIN sessions
      BY <1>1, <3>1 DEF Sound, TypeOK
    <3>4. Waiting(q)'
      BY <3>1, <3>2, <3>3 DEF Waiting, Steady
    <3> QED
      BY <3>1, <3>4 DEF Waiting, Changes, InStep, Newest, Lives
  <2>2. ASSUME NEW k \in AllKinds, \A r \in Requests : ~Changes(requests[r], k)
        PROVE  InStep(k, jar[k].refresh)'
    <3> PICK c : c = jar'[k].refresh
      OBVIOUS
    <3>1. InStep(k, c)
      BY <1>1, <1>6, <2>2 DEF InTouch
    <3>2. InStep(k, c)'
      BY <3>1, SteadyInStep
    <3> QED
      BY <3>2 DEF InStep, Newest, Lives
  <2> QED
    BY <1>1, <1>6, <2>1, <2>2 DEF InTouch, At, Changes
<1> QED
  BY <1>2, <1>3, <1>4, <1>5, <1>6 DEF Inv, InTouch, Informed, given

LEMMA EndElsewhereStep ==
  ASSUME Inv, NEW s \in DOMAIN sessions, EndElsewhere(s)
  PROVE  Inv'
<1>1. Steady
  BY EndSteady DEF EndElsewhere
<1> QED
  BY <1>1, OutsideStep DEF EndElsewhere, Inv, TypeOK

LEMMA ExpireSteady ==
  ASSUME Inv, NEW s \in DOMAIN sessions, ExpireSession(s)
  PROVE  Steady
<1> PICK row : row = [sessions[s] EXCEPT !.expired = TRUE]
  OBVIOUS
<1>1. /\ sessions \in Seq(SessionRows) /\ Len(sessions) \in Nat
      /\ DOMAIN sessions = 1..Len(sessions) /\ sessions[s] \in SessionRows
  BY DEF Inv, TypeOK
<1>2. /\ row \in SessionRows /\ row.owner = sessions[s].owner /\ row.expired
      /\ row.credential = sessions[s].credential /\ row.ended = sessions[s].ended
  BY <1>1 DEF SessionRows
<1>3. sessions' = [sessions EXCEPT ![s] = row]
  BY DEF ExpireSession
<1>4. sessions' \in [1..Len(sessions) -> SessionRows]
  BY <1>1, <1>2, <1>3
<1>5. sessions' \in Seq(SessionRows)
  BY <1>1, <1>4, FunctionIsSeq
<1> QED
  BY <1>1, <1>2, <1>3, <1>5 DEF Steady, ExpireSession

LEMMA ExpireSessionStep ==
  ASSUME Inv, NEW s \in DOMAIN sessions, ExpireSession(s)
  PROVE  Inv'
  BY ExpireSteady, OutsideStep DEF ExpireSession, Inv, TypeOK

LEMMA ExpireAccessStep ==
  ASSUME Inv, NEW k \in Kinds, ExpireAccess(k)
  PROVE  Inv'
<1>1. jar \in [AllKinds -> Cookies] /\ k \in AllKinds
  BY BrowserAssumption DEF Inv, TypeOK
<1> PICK x : x = [jar[k] EXCEPT !.access = 0]
  OBVIOUS
<1>2. /\ x \in Cookies /\ x.refresh = jar[k].refresh /\ x.csrf = jar[k].csrf /\ x.access = 0
  BY <1>1 DEF Cookies
<1>3. jar' = [jar EXCEPT ![k] = x]
  BY <1>1 DEF ExpireAccess
<1>4. /\ jar' \in [AllKinds -> Cookies]
      /\ jar'[k] = x /\ \A j \in AllKinds \ {k} : jar'[j] = jar[j]
  BY <1>1, <1>2, <1>3
<1>5. \A j \in AllKinds : /\ jar'[j].refresh = jar[j].refresh /\ jar'[j].csrf = jar[j].csrf
                          /\ jar'[j].access \in {0, jar[j].access}
  BY <1>2, <1>4
<1> QED
  BY <1>4, <1>5, UnchangedSteady, OutsideStep DEF ExpireAccess

-----------------------------------------------------------------------------
LEMMA InitInv == Init => Inv
<1> SUFFICES ASSUME Init PROVE Inv
  OBVIOUS
<1>1. /\ sessions = <<>> /\ credentials = <<>> /\ DOMAIN sessions = {}
      /\ \A r \in Requests : requests[r] = Idle
      /\ requests \in [Requests -> RequestRecords]
  BY IdleFacts DEF Init
<1>2. /\ NoCookies \in Cookies
      /\ NoCookies.access = 0 /\ NoCookies.refresh = 0 /\ NoCookies.csrf = 0
  BY DEF NoCookies, Cookies
<1>3. TypeOK
  BY <1>1, <1>2, BrowserAssumption DEF Init, TypeOK
<1>4. CoherentJar /\ References
  BY <1>1, <1>2 DEF Init, CoherentJar, References
<1>5. Handlers /\ InTouch
  <2>1. \A r \in Requests : Sound(requests[r]) /\ Waiting(requests[r]) /\ At(r, "idle")
    BY <1>1, IdleFacts DEF At
  <2>2. \A k, c : InStep(k, c)
    BY <1>1 DEF InStep
  <2> QED
    BY <2>1, <2>2 DEF Handlers, InTouch
<1> QED
  BY <1>3, <1>4, <1>5 DEF Inv

LEMMA NextInv == Inv /\ [Next]_vars => Inv'
<1> SUFFICES ASSUME Inv, [Next]_vars PROVE Inv'
  OBVIOUS
<1>1. ASSUME NEW r \in Requests, Call(r) PROVE Inv'
  BY <1>1, CallStep
<1>2. ASSUME NEW r \in Requests, Step(r) \/ Lose(r) PROVE Inv'
  BY <1>2, CreateSessionStep, FindSessionStep, RotateStep, ReplayStep, GuardStep, RevokeStep,
     ArriveStep DEF Step
<1>3. ASSUME NEW s \in DOMAIN sessions, EndElsewhere(s) \/ ExpireSession(s) PROVE Inv'
  BY <1>3, EndElsewhereStep, ExpireSessionStep
<1>4. ASSUME NEW k \in Kinds, ExpireAccess(k) PROVE Inv'
  BY <1>4, ExpireAccessStep
<1>5. CASE UNCHANGED vars
  <2>1. jar \in [AllKinds -> Cookies]
    BY DEF Inv, TypeOK
  <2> QED
    BY <1>5, <2>1, UnchangedSteady, OutsideStep DEF vars
<1> QED
  BY <1>1, <1>2, <1>3, <1>4, <1>5 DEF Next

LEMMA InvAlways == Spec => []Inv
  BY InitInv, NextInv, PTL DEF Spec

LEMMA InvSync == Inv => JarInSync
<1> SUFFICES ASSUME Inv, Informed, \A r \in Requests : At(r, "idle"),
                    NEW k \in AllKinds, NEW s \in DOMAIN sessions, Newest(k, s)
             PROVE  /\ Lives(s) => jar[k].refresh # 0
                    /\ jar[k].refresh \in {0, sessions[s].credential}
  BY DEF JarInSync
<1>1. \A r \in Requests : ~Changes(requests[r], k)
  BY RequestFacts, IdleFacts DEF At, Sound
<1>2. InStep(k, jar[k].refresh)
  BY <1>1 DEF Inv, InTouch
<1> QED
  BY <1>2 DEF InStep

(* What the jar holds was issued together, whatever answers arrive, and a  *)
(* browser that waits for its answers and gets them is never behind the    *)
(* server, for any number of sessions and of statements that fail without  *)
(* effect.                                                                 *)
THEOREM TheJarHolds == Spec => []JarHolds
<1>1. Inv => JarHolds
  BY InvSync DEF Inv, JarHolds
<1> QED
  BY <1>1, InvAlways, PTL

-----------------------------------------------------------------------------
(* Such a browser is let in by the guards.                                 *)
LEMMA LetIn ==
  ASSUME Inv, NEW r \in Requests, Informed, At(r, "guard"),
         NEW a, a = requests[r].sent.access, a # 0, jar[requests[r].kind].access = a,
         Lives(SessionOf(a))
  PROVE  Verdict(r) = "ok"
<1> PICK q, k, t : q = requests[r] /\ k = q.kind /\ t = credentials[a]
  OBVIOUS
<1>1. InStepWith(q) /\ Sound(q) /\ k \in AllKinds
  BY InStepAlone, RequestFacts DEF At
<1>2. jar[k].refresh = a /\ q.sent.csrf = a
  BY <1>1 DEF Inv, CoherentJar, InStepWith, Sound
<1>3. a \in DOMAIN credentials /\ t \in DOMAIN sessions /\ sessions[t].owner = k
  <2>1. Issued(a, k)
    BY <1>1, <1>2 DEF Inv, References
  <2> QED
    BY <2>1 DEF Inv, TypeOK, Issued
<1>4. PICK s \in DOMAIN sessions : Newest(k, s)
  BY <1>1, <1>3 DEF Inv, References
<1>5. a = sessions[s].credential
  BY <1>1, <1>2, <1>4 DEF InStepWith, InStep
<1>6. t = s
  BY <1>4, <1>5 DEF Inv, References
<1> QED
  BY <1>2, <1>3, <1>5, <1>6 DEF Verdict, SessionOf

LEMMA OtherStep ==
  ASSUME Inv, NEW r \in Requests, Call(r) \/ Step(r) \/ Lose(r), NEW q \in Requests \ {r}
  PROVE  requests'[q] = requests[q]
BY RequestFacts DEF Call, Login, Refresh, Guarded, Send, Step, CreateSession, FindSession,
   Rotate, Replay, Guard, Revoke, Deliver, Lose, Answer, Go, Fails, InDoubt

(* Every guarded endpoint serves a browser that waits for its answers, as  *)
(* long as its session lives and its access cookie is the one looked at.   *)
THEOREM SignedInServed == Spec => SignedInIsServed
<1>1. ASSUME Inv, [Next]_vars, NEW r \in Requests, NEW a, a = requests[r].sent.access,
             Informed, At(r, "guard"), At(r, "answered")',
             a # 0, jar[requests[r].kind].access = a, Lives(SessionOf(a))
      PROVE  requests'[r].status \in {"ok", "error"}
  <2>1. Verdict(r) = "ok" /\ requests[r] \in RequestRecords
    BY <1>1, LetIn, RequestFacts
  <2>2. requests'[r] # requests[r]
    BY <1>1 DEF At
  <2>3. Guard(r)
    BY <1>1, <2>2, OtherStep DEF Next, Call, Login, Refresh, Guarded, Send, Step, CreateSession,
       FindSession, Rotate, Replay, Revoke, Deliver, Lose, EndElsewhere, ExpireSession, ExpireAccess, At, vars
  <2>4. CASE Answer(r, "ok", 0, FALSE)
    BY <2>1, <2>4, <1>1, RequestFacts DEF Answer, RequestRecords
  <2>5. CASE Answer(r, "error", 0, FALSE)
    BY <2>1, <2>5, <1>1, RequestFacts DEF Answer, RequestRecords
  <2>6. CASE Go(r, "revoke")
    BY <1>1, <2>1, <2>6, RequestFacts DEF Go, At, RequestRecords
  <2> QED
    BY <2>1, <2>3, <2>4, <2>5, <2>6 DEF Guard, Fails
<1>2. Inv /\ [Next]_vars =>
        [\A r \in Requests :
            LET a == requests[r].sent.access IN
            (/\ Informed
             /\ At(r, "guard") /\ At(r, "answered")'
             /\ a # 0 /\ jar[requests[r].kind].access = a /\ Lives(SessionOf(a)))
            => requests'[r].status \in {"ok", "error"}]_vars
  BY <1>1
<1> QED
  BY <1>2, InvAlways, PTL DEF Spec, SignedInIsServed

-----------------------------------------------------------------------------
(* What has lost its worth stays worthless.                                *)
LEMMA WorthlessStays ==
  ASSUME Inv, [Next]_vars, NEW c \in DOMAIN credentials, ~Acceptable(c)
  PROVE  ~Acceptable(c)'
<1> PICK t : t = credentials[c]
  OBVIOUS
<1>1. /\ t \in DOMAIN sessions /\ credentials \in Seq(DOMAIN sessions)
      /\ sessions \in Seq(SessionRows) /\ Fresh # c
      /\ sessions[t].credential # c \/ ~Lives(t)
  BY DEF Inv, TypeOK, Acceptable, SessionOf, Fresh
<1>2. CASE Steady
  BY <1>2, SteadyKept, KeptWorthless
<1>3. ASSUME NEW row, sessions' = Append(sessions, row), Issue(Len(sessions) + 1)
      PROVE  ~Acceptable(c)'
  <2>1. credentials'[c] = t /\ sessions'[t] = sessions[t]
    BY <1>1, <1>3 DEF Issue
  <2> QED
    BY <1>1, <2>1 DEF Acceptable, Lives, SessionOf
<1>4. ASSUME NEW s, sessions' = [sessions EXCEPT ![s].credential = Fresh], Issue(s)
      PROVE  ~Acceptable(c)'
  <2>1. credentials'[c] = t
    BY <1>1, <1>4 DEF Issue
  <2>2. sessions[t] \in SessionRows
    BY <1>1
  <2>3. t = s => sessions'[t].credential = Fresh
    BY <1>1, <1>4, <2>2 DEF SessionRows
  <2>4. t # s => sessions'[t] = sessions[t]
    BY <1>1, <1>4
  <2> QED
    BY <1>1, <2>1, <2>3, <2>4 DEF Acceptable, Lives, SessionOf
<1>5. ASSUME UNCHANGED <<sessions, credentials>> PROVE Steady
  BY <1>5, UnchangedSteady
<1>6. ASSUME NEW S, End(S), credentials' = credentials PROVE Steady
  BY <1>6, EndSteady
<1>7. ASSUME NEW r \in Requests, CreateSession(r) PROVE ~Acceptable(c)'
  BY <1>2, <1>3, <1>5, <1>7 DEF CreateSession, Fails
<1>8. ASSUME NEW r \in Requests, Rotate(r) PROVE ~Acceptable(c)'
  BY <1>2, <1>4, <1>5, <1>8 DEF Rotate, Fails
<1>9. ASSUME NEW r \in Requests, Replay(r) \/ Revoke(r) PROVE ~Acceptable(c)'
  BY <1>2, <1>5, <1>6, <1>9 DEF Replay, Revoke, Fails
<1>10. ASSUME NEW s \in DOMAIN sessions, EndElsewhere(s) \/ ExpireSession(s)
       PROVE  ~Acceptable(c)'
  BY <1>2, <1>6, <1>10, ExpireSteady DEF EndElsewhere
<1>11. ASSUME NEW r \in Requests,
              Call(r) \/ FindSession(r) \/ Guard(r) \/ Deliver(r) \/ Lose(r)
       PROVE  UNCHANGED <<sessions, credentials>>
  BY <1>11 DEF Call, Login, Refresh, Guarded, Send, FindSession, Guard, Deliver, Lose
<1>12. ASSUME (\E k \in Kinds : ExpireAccess(k)) \/ UNCHANGED vars
       PROVE  UNCHANGED <<sessions, credentials>>
  BY <1>12 DEF ExpireAccess, vars
<1> QED
  BY <1>2, <1>5, <1>7, <1>8, <1>9, <1>10, <1>11, <1>12 DEF Next, Step

(* No good credential comes of a call but of a login, or of a refresh that *)
(* sent a good one.                                                        *)
LEMMA NothingComes ==
  ASSUME Inv, NEW r \in Requests,
         \/ CreateSession(r) \/ FindSession(r) \/ Rotate(r) \/ Replay(r)
         \/ Guard(r) \/ Revoke(r),
         NEW m, m = requests'[r].set
  PROVE  /\ requests'[r].op = requests[r].op /\ requests'[r].kind = requests[r].kind
         /\ requests'[r].sent = requests[r].sent
         /\ m # 0 => \/ requests[r].op = "login"
                     \/ /\ requests[r].op = "refresh"
                        /\ Acceptable(requests[r].sent.refresh) \/ ~Acceptable(m)'
<1> PICK q : q = requests[r]
  OBVIOUS
<1>1. /\ q \in RequestRecords /\ Sound(q) /\ requests \in [Requests -> RequestRecords]
  BY RequestFacts
<1>2. q.pc # "answered" => q.set = 0
  BY <1>1 DEF Sound
<1>3. ASSUME NEW step, Go(r, step)
      PROVE  /\ requests'[r].op = q.op /\ requests'[r].kind = q.kind
             /\ requests'[r].sent = q.sent /\ requests'[r].set = q.set
  BY <1>1, <1>3 DEF Go, RequestRecords
<1>4. ASSUME NEW status, NEW set, NEW clear, Answer(r, status, set, clear)
      PROVE  /\ requests'[r].op = q.op /\ requests'[r].kind = q.kind
             /\ requests'[r].sent = q.sent /\ requests'[r].set = set
  BY <1>1, <1>4 DEF Answer, RequestRecords
<1>5. CASE CreateSession(r)
  <2>1. q.op = "login"
    BY <1>1, <1>5 DEF CreateSession, At, Sound
  <2> QED
    BY <1>4, <1>5, <2>1 DEF CreateSession, Fails, InDoubt
<1>6. CASE Rotate(r)
  <2> PICK c, t, n : c = q.sent.refresh /\ t = credentials[c] /\ n = Fresh
    OBVIOUS
  <2>1. q.op = "refresh" /\ q.set = 0 /\ c \in DOMAIN credentials
    BY <1>1, <1>2, <1>6 DEF Rotate, At, Sound, Issued
  <2>2. /\ t \in DOMAIN sessions /\ sessions[t] \in SessionRows
        /\ credentials \in Seq(DOMAIN sessions) /\ n = Len(credentials) + 1
    BY <2>1 DEF Inv, TypeOK, Fresh
  <2>3. ASSUME Rotatable(c), ~Acceptable(c), Issue(t),
               sessions' = [sessions EXCEPT ![t].credential = n]
        PROVE  ~Acceptable(n)'
    <3>1. sessions[t].expired
      BY <2>3 DEF Rotatable, Acceptable, Lives, SessionOf
    <3>2. sessions'[t].expired /\ credentials'[n] = t
      BY <2>2, <2>3, <3>1 DEF SessionRows, Issue
    <3> QED
      BY <3>2 DEF Acceptable, Lives, SessionOf
  <2>4. CASE Rotatable(c) /\ Issue(t) /\ sessions' = [sessions EXCEPT ![t].credential = n]
             /\ (Answer(r, "ok", n, FALSE) \/ InDoubt(r))
    BY <1>4, <2>1, <2>3, <2>4 DEF InDoubt
  <2>5. CASE Answer(r, "error", 0, FALSE) \/ Go(r, "replay")
    BY <1>3, <1>4, <2>1, <2>5
  <2> QED
    BY <1>6, <2>4, <2>5 DEF Rotate, Fails, SessionOf
<1>7. CASE FindSession(r) \/ Replay(r) \/ Guard(r) \/ Revoke(r)
  <2>1. q.set = 0
    BY <1>2, <1>7 DEF FindSession, Replay, Guard, Revoke, At
  <2> QED
    BY <1>3, <1>4, <1>7, <2>1 DEF FindSession, Replay, Guard, Revoke, Fails, InDoubt
<1> QED
  BY <1>5, <1>6, <1>7

(* What Hopeless says of one call.                                         *)
Barren(q, k) ==
    q.kind = k => /\ q.op # "login"
                  /\ q.set # 0 => ~Acceptable(q.set)
                  /\ q.op = "refresh" => ~Acceptable(q.sent.refresh)

LEMMA BarrenStays ==
  ASSUME Inv, [Next]_vars, NEW q, Sound(q), NEW k, Barren(q, k)
  PROVE  Barren(q, k)'
<1>1. /\ q.op = "refresh" => q.sent.refresh \in DOMAIN credentials
      /\ q.set # 0 => q.set \in DOMAIN credentials
  BY DEF Sound, Issued
<1>2. q.op = "refresh" /\ ~Acceptable(q.sent.refresh) => ~Acceptable(q.sent.refresh)'
  BY <1>1, WorthlessStays
<1>3. q.set # 0 /\ ~Acceptable(q.set) => ~Acceptable(q.set)'
  BY <1>1, WorthlessStays
<1> QED
  BY <1>2, <1>3 DEF Barren

LEMMA StaysHopeless ==
  ASSUME Inv, [Next]_vars, NEW k \in Kinds, Hopeless(k),
         ~(\E r \in Requests : At(r, "idle") /\ requests'[r].op = "login")
  PROVE  Hopeless(k)'
<1>1. /\ k \in AllKinds /\ \A r \in Requests : Barren(requests[r], k)
      /\ TypeOK /\ References
  BY BrowserAssumption DEF Hopeless, Barren, Inv
<1>2. ASSUME NEW c, c = jar'[k].refresh, c # 0
      PROVE  c \in DOMAIN credentials /\ ~Acceptable(c)
  <2>1. CASE c = jar[k].refresh
    BY <1>1, <1>2, <2>1 DEF References, Issued, Hopeless
  <2>2. ASSUME NEW r \in Requests, Deliver(r)
        PROVE  c = jar[k].refresh \/ (requests[r].kind = k /\ requests[r].set = c)
    <3>1. NoCookies.refresh = 0
      BY DEF NoCookies
    <3> QED
      BY <1>1, <1>2, <2>2, <3>1 DEF Deliver, SetCookies, ClearCookies, TypeOK
  <2>3. ASSUME NEW r \in Requests, requests[r].kind = k, requests[r].set = c
        PROVE  c \in DOMAIN credentials /\ ~Acceptable(c)
    BY <1>1, <1>2, <2>3, RequestFacts DEF Barren, Sound, Issued
  <2>4. ASSUME NEW j \in Kinds, ExpireAccess(j) PROVE c = jar[k].refresh
    BY <1>1, <1>2, <2>4 DEF ExpireAccess, TypeOK, Cookies
  <2>5. ASSUME NEW r \in Requests, Call(r) \/ Lose(r) \/ (Step(r) /\ ~Deliver(r))
        PROVE  jar' = jar
    BY <2>5 DEF Call, Login, Refresh, Guarded, Send, Step, CreateSession, FindSession,
       Rotate, Replay, Guard, Revoke, Lose
  <2>6. ASSUME (\E s \in DOMAIN sessions : EndElsewhere(s) \/ ExpireSession(s)) \/ UNCHANGED vars
        PROVE  jar' = jar
    BY <2>6 DEF EndElsewhere, ExpireSession, vars
  <2> QED
    BY <1>2, <2>1, <2>2, <2>3, <2>4, <2>5, <2>6 DEF Next
<1>3. jar'[k].refresh # 0 => ~Acceptable(jar[k].refresh)'
  <2> PICK c : c = jar'[k].refresh
    OBVIOUS
  <2>1. c # 0 => ~Acceptable(c)'
    BY <1>2, WorthlessStays
  <2> QED
    BY <2>1 DEF Acceptable, Lives, SessionOf
<1>4. ASSUME NEW q \in Requests PROVE Barren(requests[q], k)'
  <2> PICK p, n : p = requests[q] /\ n = requests'[q]
    OBVIOUS
  <2>1. Barren(p, k)' /\ Barren(p, k) /\ Sound(p) /\ p \in RequestRecords
    BY <1>1, RequestFacts, BarrenStays
  <2>2. Barren(Idle, k)'
    BY IdleFacts DEF Barren
  <2>3. CASE n = p
    BY <2>1, <2>3 DEF Barren, Acceptable, Lives, SessionOf
  <2>4. CASE n = Idle
    BY <2>2, <2>4 DEF Barren, Acceptable, Lives, SessionOf
  <2> PICK m : m = requests'[q].set
    OBVIOUS
  <2>5. CASE /\ n.op = p.op /\ n.kind = p.kind /\ n.sent = p.sent
             /\ m # 0 => \/ p.op = "login"
                         \/ /\ p.op = "refresh"
                            /\ Acceptable(p.sent.refresh) \/ ~Acceptable(m)'
    <3>0. n.set = m
      OBVIOUS
    <3>1. Barren(n, k)'
      BY <2>1, <2>5, <3>0 DEF Barren, Acceptable, Lives, SessionOf
    <3> QED
      BY <3>1 DEF Barren, Acceptable, Lives, SessionOf
  <2>6. CASE Call(q)
    <3>1. PICK j \in Kinds : Login(q, j) \/ Refresh(q, j) \/ Guarded(q, j)
      BY <2>6 DEF Call
    <3>2. PICK op, step : /\ Send(q, op, j, step) /\ op \in Ops
                          /\ op = "refresh" => jar[j].refresh # 0
      BY <3>1 DEF Login, Refresh, Guarded, Ops
    <3> PICK sent : sent = [jar[j] EXCEPT !.access = Extracted]
      OBVIOUS
    <3>3. /\ n = [Idle EXCEPT !.op = op, !.kind = j, !.pc = step, !.sent = sent]
          /\ requests[q].pc = "idle" /\ jar' = jar
      BY <3>2, RequestFacts DEF Send, At
    <3>4. /\ n.op = op /\ n.kind = j /\ n.sent = sent /\ n.set = 0
          /\ sent.refresh = jar[j].refresh
      BY <1>1, <3>3, BrowserAssumption DEF Idle, TypeOK, Cookies
    <3>5. n.op # "login"
      BY <3>3 DEF At
    <3>6. j = k /\ op = "refresh" => ~Acceptable(sent.refresh)'
      BY <1>3, <3>2, <3>3, <3>4 DEF Acceptable, Lives, SessionOf
    <3>7. Barren(n, k)'
      BY <3>4, <3>5, <3>6 DEF Barren
    <3> QED
      BY <3>7 DEF Barren, Acceptable, Lives, SessionOf
  <2>7. CASE \/ CreateSession(q) \/ FindSession(q) \/ Rotate(q) \/ Replay(q)
             \/ Guard(q) \/ Revoke(q)
    <3>2. /\ n.op = p.op /\ n.kind = p.kind /\ n.sent = p.sent
          /\ m # 0 => \/ p.op = "login"
                      \/ /\ p.op = "refresh"
                         /\ Acceptable(p.sent.refresh) \/ ~Acceptable(m)'
      BY <2>7, NothingComes
    <3> QED
      BY <2>5, <3>2
  <2>8. CASE Deliver(q) \/ Lose(q)
    BY <2>4, <2>8, RequestFacts DEF Deliver, Lose
  <2>9. ASSUME NEW r \in Requests \ {q}, Call(r) \/ Step(r) \/ Lose(r) PROVE n = p
    BY <2>9, OtherStep
  <2>10. ASSUME \/ \E s \in DOMAIN sessions : EndElsewhere(s) \/ ExpireSession(s)
                \/ (\E j \in Kinds : ExpireAccess(j)) \/ UNCHANGED vars
         PROVE  n = p
    BY <2>10 DEF EndElsewhere, ExpireSession, ExpireAccess, vars
  <2> QED
    BY <2>3, <2>6, <2>7, <2>8, <2>9, <2>10 DEF Next, Step
<1> QED
  BY <1>3, <1>4 DEF Hopeless, Barren

(* A browser that has nothing good left, in the jar or on its way, gets    *)
(* back in by a login alone, whatever it retries and however many tabs do. *)
THEOREM RetriesNeedLogin == Spec => RetryNeedsLogin
<1>1. Inv /\ [Next]_vars =>
        [\A k \in Kinds : Hopeless(k) =>
            \/ Hopeless(k)'
            \/ \E r \in Requests : At(r, "idle") /\ requests'[r].op = "login"]_vars
  BY StaysHopeless
<1> QED
  BY <1>1, InvAlways, PTL DEF Spec, RetryNeedsLogin

-----------------------------------------------------------------------------
(* A refusal reaches the jar, where the server and the network do not fail *)
(* and the User-Agent fits its column.                                     *)

(* The answer to a refresh clears, or sets another credential.             *)
Settled(q) ==
    /\ q.pc \in {"guard", "revoke"} => q.op # "refresh"
    /\ q.pc = "answered" /\ q.op = "refresh" =>
          q.set # q.sent.refresh /\ (q.clear \/ q.set # 0)

Answered == faults \cap {"lose", "fail", "doubt"} = {} => \A r \in Requests : Settled(requests[r])

(* A refresh that was called with a credential that does not count (now).  *)
Refused(r, c) ==
    /\ faults \cap {"lose", "fail", "doubt"} = {}
    /\ requests[r].op = "refresh" /\ requests[r].sent.refresh = c
    /\ ~Acceptable(c)

LEMMA AnsweredStep ==
  ASSUME Inv, Answered, [Next]_vars, LongAgent = FALSE
  PROVE  Answered'
<1> SUFFICES ASSUME faults \cap {"lose", "fail", "doubt"} = {}, NEW r \in Requests
             PROVE  Settled(requests[r])'
  BY DEF Answered, Next, Call, Login, Refresh, Guarded, Send, Step, CreateSession, FindSession,
     Rotate, Replay, Guard, Revoke, Deliver, Lose, EndElsewhere, ExpireSession, ExpireAccess, Fails, given,
     vars
<1> PICK q, n : q = requests[r] /\ n = requests'[r]
  OBVIOUS
<1>1. /\ q \in RequestRecords /\ Sound(q) /\ Settled(q)
      /\ requests \in [Requests -> RequestRecords]
  BY RequestFacts DEF Answered
<1>2. Settled(n) => Settled(requests[r])'
  BY DEF Settled
<1>3. CASE n = q
  BY <1>1, <1>2, <1>3
<1>4. CASE n = Idle
  BY <1>2, <1>4, IdleFacts DEF Settled
<1>5. ASSUME NEW step \in {"rotate", "replay"}, Go(r, step) PROVE Settled(n)
  <2>1. n.pc = step
    BY <1>1, <1>5 DEF Go, RequestRecords
  <2> QED
    BY <2>1 DEF Settled
<1>6. ASSUME NEW status, NEW set, NEW clear, Answer(r, status, set, clear),
             q.op = "refresh" => set # q.sent.refresh /\ (clear \/ set # 0)
      PROVE  Settled(n)
  <2>1. /\ n.pc = "answered" /\ n.op = q.op /\ n.sent = q.sent
        /\ n.set = set /\ n.clear = clear
    BY <1>1, <1>6 DEF Answer, RequestRecords
  <2> QED
    BY <2>1, <1>6 DEF Settled
<1>7. CASE CreateSession(r)
  <2>1. q.op = "login"
    BY <1>1, <1>7 DEF CreateSession, At, Sound
  <2> QED
    BY <1>2, <1>6, <1>7, <2>1 DEF CreateSession, Fails, InDoubt
<1>8. CASE FindSession(r) \/ Replay(r)
  <2>1. q.sent.refresh # 0
    BY <1>1, <1>8 DEF FindSession, Replay, At, Sound
  <2>2. "fail" \notin faults /\ "doubt" \notin faults
    OBVIOUS
  <2> QED
    BY <1>2, <1>5, <1>6, <1>8, <2>1, <2>2 DEF FindSession, Replay, Fails, InDoubt
<1>9. CASE Rotate(r)
  <2>1. q.sent.refresh \in DOMAIN credentials
    BY <1>1, <1>9 DEF Rotate, At, Sound, Issued
  <2>2. Fresh \notin {0, q.sent.refresh} /\ "fail" \notin faults /\ "doubt" \notin faults
    BY <2>1 DEF Inv, TypeOK, Fresh
  <2> QED
    BY <1>2, <1>5, <1>6, <1>9, <2>2 DEF Rotate, Fails, InDoubt
<1>10. CASE Guard(r)
  <2>1. q.op # "refresh"
    BY <1>1, <1>10 DEF Guard, At, Settled
  <2>2. CASE Go(r, "revoke")
    <3>1. n.pc = "revoke" /\ n.op = q.op
      BY <1>1, <2>2 DEF Go, RequestRecords
    <3> QED
      BY <1>2, <2>1, <3>1 DEF Settled
  <2> QED
    BY <1>2, <1>6, <1>10, <2>1, <2>2 DEF Guard, Fails
<1>11. CASE Revoke(r)
  <2>1. q.op # "refresh"
    BY <1>1, <1>11 DEF Revoke, At, Settled
  <2> QED
    BY <1>2, <1>6, <1>11, <2>1 DEF Revoke, Fails, InDoubt
<1>12. CASE Deliver(r) \/ Lose(r)
  BY <1>1, <1>4, <1>12 DEF Deliver, Lose
<1>13. CASE Call(r)
  <2> PICK k \in Kinds : Login(r, k) \/ Refresh(r, k) \/ Guarded(r, k)
    BY <1>13 DEF Call
  <2>1. PICK op, step : /\ Send(r, op, k, step)
                        /\ step \in {"createSession", "findSession", "guard"}
                        /\ step = "guard" => op # "refresh"
    BY DEF Login, Refresh, Guarded
  <2>2. n.pc = step /\ n.op = op
    BY <1>1, <2>1 DEF Send, Idle
  <2> QED
    BY <1>2, <2>1, <2>2 DEF Settled
<1>14. ASSUME NEW p \in Requests \ {r}, Call(p) \/ Step(p) \/ Lose(p) PROVE n = q
  BY <1>14, OtherStep
<1>15. ASSUME \/ \E s \in DOMAIN sessions : EndElsewhere(s) \/ ExpireSession(s)
              \/ (\E k \in Kinds : ExpireAccess(k)) \/ UNCHANGED vars
       PROVE  n = q
  BY <1>15 DEF EndElsewhere, ExpireSession, ExpireAccess, vars
<1> QED
  BY <1>3, <1>7, <1>8, <1>9, <1>10, <1>11, <1>12, <1>13, <1>14, <1>15 DEF Next, Step

LEMMA RefusedGoesOn ==
  ASSUME Inv, Answered, [Next]_vars, NEW r \in Requests, NEW c, Refused(r, c)
  PROVE  Refused(r, c)' \/ \A k \in Kinds : jar'[k].refresh # c
<1> PICK q : q = requests[r]
  OBVIOUS
<1>1. /\ q \in RequestRecords /\ Sound(q) /\ Settled(q) /\ q.op = "refresh"
      /\ q.kind \in AllKinds /\ c = q.sent.refresh /\ c # 0 /\ Issued(c, q.kind)
  BY RequestFacts DEF Answered, Refused, Sound
<1>2. ~Acceptable(c)' /\ faults' = faults
  <2>1. ~Acceptable(c)'
    BY <1>1, WorthlessStays DEF Refused, Issued
  <2>2. faults' = faults
    BY DEF Next, Call, Login, Refresh, Guarded, Send, Step, CreateSession, FindSession,
       Rotate, Replay, Guard, Revoke, Deliver, Lose, EndElsewhere, ExpireSession, ExpireAccess, Fails, given,
       vars
  <2> QED
    BY <2>1, <2>2
<1>3. ASSUME requests'[r].op = q.op, requests'[r].sent = q.sent PROVE Refused(r, c)'
  <2>1. /\ requests'[r].op = "refresh" /\ requests'[r].sent.refresh = c
        /\ faults' \cap {"lose", "fail", "doubt"} = {}
    BY <1>1, <1>2, <1>3 DEF Refused
  <2> QED
    BY <1>2, <2>1 DEF Refused
<1>4. CASE \/ CreateSession(r) \/ FindSession(r) \/ Rotate(r) \/ Replay(r)
           \/ Guard(r) \/ Revoke(r)
  BY <1>3, <1>4, NothingComes
<1>5. ASSUME Deliver(r), NEW k \in Kinds PROVE jar'[k].refresh # c
  <2>1. /\ q.set # c /\ (q.clear \/ q.set # 0)
        /\ k \in AllKinds /\ jar \in [AllKinds -> Cookies] /\ NoCookies.refresh = 0
    BY <1>1, <1>5, BrowserAssumption DEF Deliver, At, Settled, Inv, TypeOK, NoCookies
  <2>2. CASE k = q.kind
    <3>1. CASE q.set # 0
      <4>1. jar' = [jar EXCEPT ![k] = [access |-> q.set, refresh |-> q.set, csrf |-> q.set]]
        BY <1>5, <2>2, <3>1 DEF Deliver, SetCookies
      <4>2. jar'[k].refresh = q.set
        BY <2>1, <4>1
      <4> QED
        BY <2>1, <4>2
    <3>2. CASE q.set = 0
      <4>1. jar' = [jar EXCEPT ![k] = NoCookies]
        BY <1>5, <2>1, <2>2, <3>2 DEF Deliver, ClearCookies
      <4> QED
        BY <1>1, <2>1, <4>1
    <3> QED
      BY <3>1, <3>2
  <2>3. CASE k # q.kind
    <3>1. jar'[k] = jar[k]
      BY <1>5, <2>1, <2>3 DEF Deliver, SetCookies, ClearCookies
    <3>2. jar[k].refresh # 0 => Issued(jar[k].refresh, k)
      BY <2>1 DEF Inv, References
    <3> QED
      BY <1>1, <2>3, <3>1, <3>2 DEF Issued
  <2> QED
    BY <2>2, <2>3
<1>6. ~Call(r) /\ ~Lose(r)
  <2>1. q.pc # "idle"
    BY <1>1, IdleFacts DEF Sound
  <2> QED
    BY <2>1 DEF Call, Login, Refresh, Guarded, Send, Lose, At, Refused
<1>7. ASSUME NEW p \in Requests \ {r}, Call(p) \/ Step(p) \/ Lose(p) PROVE requests'[r] = q
  BY <1>7, OtherStep
<1>8. ASSUME \/ \E s \in DOMAIN sessions : EndElsewhere(s) \/ ExpireSession(s)
             \/ (\E k \in Kinds : ExpireAccess(k)) \/ UNCHANGED vars
      PROVE  requests'[r] = q
  BY <1>8 DEF EndElsewhere, ExpireSession, ExpireAccess, vars
<1> QED
  BY <1>3, <1>4, <1>5, <1>6, <1>7, <1>8 DEF Next, Step

(* A refresh that a credential of no worth was sent with goes on to be     *)
(* refused, and its answer takes that credential out of the jar: the       *)
(* safety half of RefusedIsForgotten.                                      *)
THEOREM RefusalReachesTheJar ==
  ASSUME LongAgent = FALSE
  PROVE  Spec => [][\A r \in Requests : \A c :
                       Refused(r, c) => \/ Refused(r, c)'
                                        \/ \A k \in Kinds : jar'[k].refresh # c]_vars
<1>1. Init => Answered
  BY IdleFacts DEF Init, Answered, Settled
<1>2. Inv /\ Answered /\ [Next]_vars => Answered'
  BY AnsweredStep
<1>3. Inv /\ Answered /\ [Next]_vars =>
         [\A r \in Requests : \A c :
             Refused(r, c) => \/ Refused(r, c)'
                              \/ \A k \in Kinds : jar'[k].refresh # c]_vars
  BY RefusedGoesOn
<1> QED
  BY <1>1, <1>2, <1>3, InvAlways, PTL DEF Spec
=============================================================================
