---------------------------- MODULE BrowserCookies ----------------------------
(***************************************************************************)
(* One browser, its tabs, and the sessions it keeps by cookies: what       *)
(* cookie.service.ts sets and clears, what the refresh endpoints accept,   *)
(* and which cookie the guards of the other endpoints look at.  Answers    *)
(* come back in any order, or never.                                       *)
(*                                                                         *)
(* The server is UserAuth's and AdminAuth's reduced to what a browser can  *)
(* tell: one account of each kind, its sessions as in SessionLife, a       *)
(* refresh in the two statements between which another may come.           *)
(*                                                                         *)
(* Abstractions.  A credential numbers the three tokens issued together;   *)
(* as an access cookie it stands for its session alone.  A tab reads the   *)
(* csrf cookie when it sends the call that carries it as a header.         *)
(***************************************************************************)
EXTENDS Naturals, Sequences

CONSTANTS
    Kinds,          \* accounts the browser uses, see AllKinds
    Requests,       \* calls of its tabs that are in progress
    Faults,         \* what may come in between: some sets of FaultKinds
    LongAgent,      \* TRUE: its User-Agent exceeds the column's 255 characters
    MaxCalls        \* BOUND: calls begun in a behaviour

AllKinds == {"user", "admin"}

(* An answer is lost, a statement fails and changes nothing, a statement   *)
(* takes effect and is reported as failed, a session is revoked from       *)
(* another device, an access cookie expires, a session's time is up.       *)
FaultKinds == {"lose", "fail", "doubt", "elsewhere", "expire", "timeUp"}

ASSUME BrowserAssumption ==
    /\ Kinds \subseteq AllKinds /\ Faults \subseteq SUBSET FaultKinds
    /\ LongAgent \in BOOLEAN /\ MaxCalls \in Nat

VARIABLES
    jar,            \* cookies of the browser; 0 is none
    sessions,       \* rows of both session tables
    credentials,    \* credentials issued, with their sessions
    requests,       \* calls in progress
    calls,          \* calls begun
    faults,         \* all along: what may come in between
    serial          \* all along: the browser waits for an answer before it calls

given == <<faults, serial>>

vars == <<jar, sessions, credentials, requests, calls, given>>

-----------------------------------------------------------------------------
Cookies == [access : Nat, refresh : Nat, csrf : Nat]
NoCookies == [access |-> 0, refresh |-> 0, csrf |-> 0]

(* `ended': revokedAt is set; `expired': expiresAt has come.               *)
SessionRows == [owner : AllKinds, credential : Nat, ended : BOOLEAN, expired : BOOLEAN]

Ops == {"login", "refresh", "logout", "logoutAll", "call"}
Steps == {"idle", "createSession", "findSession", "rotate", "replay", "guard", "revoke",
          "answered"}
Statuses == {"none", "ok", "unauthorized", "forbidden", "error"}

(* `sent' are the cookies a call carries, `set' the credential its answer  *)
(* sets, `clear' whether it clears.                                        *)
RequestRecords ==
    [op : Ops \cup {"none"}, kind : AllKinds, pc : Steps, sent : Cookies,
     status : Statuses, set : Nat, clear : BOOLEAN]

Idle == [op |-> "none", kind |-> "user", pc |-> "idle", sent |-> NoCookies,
         status |-> "none", set |-> 0, clear |-> FALSE]

At(r, step) == requests[r].pc = step
Go(r, step) == requests' = [requests EXCEPT ![r].pc = step]
Answer(r, status, set, clear) ==
    requests' = [requests EXCEPT ![r].pc = "answered", ![r].status = status,
                                 ![r].set = set, ![r].clear = clear]

SessionOf(c) == credentials[c]
Lives(s) == ~sessions[s].ended /\ ~sessions[s].expired
Acceptable(c) == sessions[SessionOf(c)].credential = c /\ Lives(SessionOf(c))

(* Faulty form: the controller's catch does not ask for the exception.     *)
FailsAndClears(r) ==
    /\ "fail" \in faults
    /\ Answer(r, "error", 0, TRUE)
    /\ UNCHANGED <<sessions, credentials, given>>

(* A statement fails and changes nothing; only an UnauthorizedException    *)
(* clears cookies.                                                         *)
Fails(r) ==
    /\ "fail" \in faults
    /\ Answer(r, "error", 0, FALSE)
    /\ UNCHANGED <<sessions, credentials, given>>

(* The caller's answer when a statement that took effect is reported as    *)
(* failed: the tokens it was to set are gone with the exception.           *)
InDoubt(r) ==
    /\ "doubt" \in faults
    /\ Answer(r, "error", 0, FALSE)

-----------------------------------------------------------------------------
(* The browser.                                                            *)

(* req.cookies[user_access] ?? req.cookies[admin_access], on any endpoint  *)
Extracted == IF jar["user"].access # 0 THEN jar["user"].access ELSE jar["admin"].access

Send(r, op, k, step) ==
    /\ At(r, "idle")
    /\ calls < MaxCalls
    /\ serial => \A q \in Requests : At(q, "idle")
    /\ calls' = calls + 1
    /\ requests' = [requests EXCEPT ![r] =
           [Idle EXCEPT !.op = op, !.kind = k, !.pc = step,
                        !.sent = [jar[k] EXCEPT !.access = Extracted]]]
    /\ UNCHANGED <<jar, sessions, credentials, given>>

Login(r, k) == Send(r, "login", k, "createSession")

(* Without these cookies the decorators refuse before the handler, whose   *)
(* catch then clears nothing.                                              *)
Refresh(r, k) ==
    jar[k].refresh # 0 /\ jar[k].csrf # 0 /\ Send(r, "refresh", k, "findSession")

Guarded(r, k) == \E op \in {"logout", "logoutAll", "call"} : Send(r, op, k, "guard")

SetCookies(k, c) == [jar EXCEPT ![k] = [access |-> c, refresh |-> c, csrf |-> c]]

(* Faulty form: the paths are not those the cookies were set with.         *)
ClearElsewhere(k) == jar

ClearCookies(k) == [jar EXCEPT ![k] = NoCookies]

Deliver(r) ==
    /\ At(r, "answered")
    /\ jar' = IF requests[r].set # 0 THEN SetCookies(requests[r].kind, requests[r].set)
              ELSE IF requests[r].clear THEN ClearCookies(requests[r].kind) ELSE jar
    /\ requests' = [requests EXCEPT ![r] = Idle]
    /\ UNCHANGED <<sessions, credentials, calls, given>>

-----------------------------------------------------------------------------
(* The server.                                                             *)

Issue(s) == credentials' = Append(credentials, s)
Fresh == Len(credentials) + 1

(* The user's login stores the User-Agent as it is, the administrator's    *)
(* cuts it to the column.                                                  *)
CreateSession(r) ==
    /\ At(r, "createSession")
    /\ \/ /\ LongAgent => requests[r].kind = "admin"
          /\ sessions' = Append(sessions, [owner |-> requests[r].kind,
                                           credential |-> Fresh,
                                           ended |-> FALSE, expired |-> FALSE])
          /\ Issue(Len(sessions) + 1)
          /\ Answer(r, "ok", Fresh, FALSE) \/ InDoubt(r)
       \/ /\ LongAgent /\ requests[r].kind = "user"
          /\ Answer(r, "error", 0, FALSE)
          /\ UNCHANGED <<sessions, credentials>>
       \/ Fails(r)
    /\ UNCHANGED <<jar, calls, given>>

Matches(c, x) == Acceptable(c) /\ x = c

FindSession(r) ==
    /\ At(r, "findSession")
    /\ \/ /\ Matches(requests[r].sent.refresh, requests[r].sent.csrf)
          /\ Go(r, "rotate")
       \/ /\ ~Matches(requests[r].sent.refresh, requests[r].sent.csrf)
          /\ Answer(r, "unauthorized", 0, TRUE)
       \/ Fails(r)
    /\ UNCHANGED <<jar, sessions, credentials, calls, given>>

(* Faulty form: the rows that match are not counted.                       *)
Always(c) == TRUE

(* The where of updateMany, which does not ask for expiresAt again.        *)
Rotatable(c) == sessions[SessionOf(c)].credential = c /\ ~sessions[SessionOf(c)].ended

(* Both refreshes store the User-Agent as it is.                           *)
Rotate(r) ==
    LET c == requests[r].sent.refresh IN
    /\ At(r, "rotate")
    /\ \/ /\ Rotatable(c) /\ ~LongAgent
          /\ sessions' = [sessions EXCEPT ![SessionOf(c)].credential = Fresh]
          /\ Issue(SessionOf(c))
          /\ Answer(r, "ok", Fresh, FALSE) \/ InDoubt(r)
       \/ /\ Rotatable(c) /\ LongAgent
          /\ Answer(r, "error", 0, FALSE)
          /\ UNCHANGED <<sessions, credentials>>
       \/ /\ ~Rotatable(c)
          /\ Go(r, "replay")
          /\ UNCHANGED <<sessions, credentials>>
       \/ Fails(r)
    /\ UNCHANGED <<jar, calls, given>>

End(S) == sessions' = [s \in DOMAIN sessions |->
                          [sessions[s] EXCEPT !.ended = @ \/ s \in S]]

Replay(r) ==
    /\ At(r, "replay")
    /\ \/ /\ End({SessionOf(requests[r].sent.refresh)})
          /\ Answer(r, "unauthorized", 0, TRUE) \/ InDoubt(r)
          /\ UNCHANGED credentials
       \/ Fails(r)
    /\ UNCHANGED <<jar, calls, given>>

(* Faulty form: the guard of users on the endpoints of administrators.     *)
UsersOnly(r) ==
    LET a == requests[r].sent.access
        s == SessionOf(a)
    IN IF a = 0 THEN "unauthorized"
       ELSE IF ~Lives(s) THEN "unauthorized"
       ELSE IF sessions[s].owner # "user" THEN "forbidden"
       ELSE IF requests[r].sent.csrf # sessions[s].credential THEN "unauthorized"
       ELSE "ok"

(* What JwtStrategy, AllowToUsersGuard and CsrfGuard say, in this order.   *)
Verdict(r) ==
    LET a == requests[r].sent.access
        s == SessionOf(a)
    IN IF a = 0 THEN "unauthorized"
       ELSE IF ~Lives(s) THEN "unauthorized"
       ELSE IF sessions[s].owner # requests[r].kind THEN "forbidden"
       ELSE IF requests[r].sent.csrf # sessions[s].credential THEN "unauthorized"
       ELSE "ok"

Guard(r) ==
    /\ At(r, "guard")
    /\ \/ /\ Verdict(r) = "ok" /\ requests[r].op # "call"
          /\ Go(r, "revoke")
       \/ /\ Verdict(r) # "ok" \/ requests[r].op = "call"
          /\ Answer(r, Verdict(r), 0, FALSE)
       \/ Fails(r)
    /\ UNCHANGED <<jar, sessions, credentials, calls, given>>

Revoke(r) ==
    /\ At(r, "revoke")
    /\ \/ /\ End(IF requests[r].op = "logout" THEN {SessionOf(requests[r].sent.access)}
                 ELSE {s \in DOMAIN sessions : sessions[s].owner = requests[r].kind})
          /\ Answer(r, "ok", 0, TRUE) \/ InDoubt(r)
          /\ UNCHANGED credentials
       \/ Fails(r)
    /\ UNCHANGED <<jar, calls, given>>

-----------------------------------------------------------------------------
(* Everything else.                                                        *)

Lose(r) ==
    /\ "lose" \in faults
    /\ At(r, "answered")
    /\ requests' = [requests EXCEPT ![r] = Idle]
    /\ UNCHANGED <<jar, sessions, credentials, calls, given>>

EndElsewhere(s) ==
    /\ "elsewhere" \in faults
    /\ End({s})
    /\ UNCHANGED <<jar, credentials, requests, calls, given>>

ExpireSession(s) ==
    /\ "timeUp" \in faults
    /\ sessions' = [sessions EXCEPT ![s].expired = TRUE]
    /\ UNCHANGED <<jar, credentials, requests, calls, given>>

ExpireAccess(k) ==
    /\ "expire" \in faults
    /\ jar' = [jar EXCEPT ![k].access = 0]
    /\ UNCHANGED <<sessions, credentials, requests, calls, given>>

-----------------------------------------------------------------------------
Init ==
    /\ jar = [k \in AllKinds |-> NoCookies]
    /\ sessions = <<>> /\ credentials = <<>> /\ calls = 0
    /\ requests = [r \in Requests |-> Idle]
    /\ faults \in Faults /\ serial \in BOOLEAN

Call(r) == \E k \in Kinds : Login(r, k) \/ Refresh(r, k) \/ Guarded(r, k)

Step(r) ==
    \/ CreateSession(r) \/ FindSession(r) \/ Rotate(r) \/ Replay(r)
    \/ Guard(r) \/ Revoke(r) \/ Deliver(r)

Next ==
    \/ \E r \in Requests : Call(r) \/ Step(r) \/ Lose(r)
    \/ \E s \in DOMAIN sessions : EndElsewhere(s) \/ ExpireSession(s)
    \/ \E k \in Kinds : ExpireAccess(k)

Spec == Init /\ [][Next]_vars

(* The server answers, and the answer arrives unless it is lost.           *)
FairSpec == Spec /\ \A r \in Requests : WF_vars(Step(r))

-----------------------------------------------------------------------------
(* Properties.                                                             *)

TypeOK ==
    /\ jar \in [AllKinds -> Cookies]
    /\ sessions \in Seq(SessionRows)
    /\ credentials \in Seq(DOMAIN sessions)
    /\ requests \in [Requests -> RequestRecords]
    /\ calls \in 0..MaxCalls
    /\ faults \in Faults /\ serial \in BOOLEAN

(* Whatever answers arrive and in whatever order, the cookies of a kind in *)
(* the jar were issued together: setUserCookies and clearUserCookies name  *)
(* the same three, at the same paths.                                      *)
CoherentJar ==
    \A k \in AllKinds : /\ jar[k].csrf = jar[k].refresh
                        /\ jar[k].access \in {0, jar[k].refresh}

Newest(k, s) == /\ sessions[s].owner = k
                /\ \A t \in DOMAIN sessions : sessions[t].owner = k => t <= s

(* A browser that waits for its answers, and learns from them what the     *)
(* server did: none is lost, and no statement that took effect is reported *)
(* as failed.                                                              *)
Informed == serial /\ faults \cap {"lose", "doubt"} = {}

(* Such a browser is never behind: between calls the jar has the           *)
(* credential that counts for the session opened last, for as long as that *)
(* session lives, whichever statements fail without effect.                *)
JarInSync ==
    (Informed /\ \A r \in Requests : At(r, "idle")) =>
        \A k \in AllKinds, s \in DOMAIN sessions : Newest(k, s) =>
            /\ Lives(s) => jar[k].refresh # 0
            /\ jar[k].refresh \in {0, sessions[s].credential}

(* What is in the jar is of its type, belongs together, and counts.        *)
JarHolds == TypeOK /\ CoherentJar /\ JarInSync

(* Such a browser is served by every guarded endpoint while its session    *)
(* lives and its access cookie lasts; an administrator, though, only once  *)
(* the user's access cookie has gone, which the strategy looks at first.   *)
SignedInIsServed ==
    [][\A r \in Requests :
          LET a == requests[r].sent.access IN
          (/\ Informed
           /\ At(r, "guard") /\ At(r, "answered")'
           /\ a # 0 /\ jar[requests[r].kind].access = a /\ Lives(SessionOf(a)))
          => requests'[r].status \in {"ok", "error"}]_vars

(* Nothing the jar holds, and nothing on its way to it, is of use.         *)
Hopeless(k) ==
    /\ jar[k].refresh # 0 => ~Acceptable(jar[k].refresh)
    /\ \A r \in Requests : requests[r].kind = k =>
          /\ requests[r].op # "login"
          /\ requests[r].set # 0 => ~Acceptable(requests[r].set)
          /\ requests[r].op = "refresh" => ~Acceptable(requests[r].sent.refresh)

(* A browser that lost the answer to a refresh, or whose refresh took      *)
(* effect and was answered as an error, does not get back in by retrying:  *)
(* until the next login there is nothing it could send that the refresh    *)
(* endpoint takes.                                                         *)
RetryNeedsLogin ==
    [][\A k \in Kinds : Hopeless(k) =>
          \/ Hopeless(k)'
          \/ \E r \in Requests : At(r, "idle") /\ requests'[r].op = "login"]_vars

(* A refused credential leaves the jar: where the server and the network   *)
(* neither fail nor report a failure, a refresh that was called with one   *)
(* that no longer counts is answered, and the jar does not hold it then.   *)
RefusedIsForgotten ==
    \A r \in Requests, c \in 1..MaxCalls :
        (/\ faults \cap {"lose", "fail", "doubt"} = {}
         /\ requests[r].op = "refresh" /\ requests[r].sent.refresh = c
         /\ ~Acceptable(c))
        ~> (\A k \in Kinds : jar[k].refresh # c)

(* A browser whose User-Agent was long and whom login let in can refresh:  *)
(* no statement fails for the length, because login cuts it.               *)
AgentFits == \A r \in Requests : requests[r].op = "refresh" => requests[r].status # "error"
=============================================================================
