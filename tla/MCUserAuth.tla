----------------------------- MODULE MCUserAuth ------------------------------
(* Small instances of UserAuth for TLC.                                    *)
EXTENDS UserAuth, TLC

\* Requests are interchangeable slots.
Symmetry == Permutations(Requests)

-----------------------------------------------------------------------------
(* Two scenarios in one instance: in some behaviours newcomers register and *)
(* verify their address, in the others the member's password is reset and   *)
(* changed.  They touch different rows, and a behaviour that has begun one  *)
(* does not go on to the other: the run costs their sum, not their product. *)

Registration == {"register", "resend", "verify"}

Newcomers == Users \ Members

Registering ==
    \/ \E r \in Requests : requests[r].op \in Registration
    \/ \E u \in Newcomers : users[u].registered

Resetting ==
    \/ \E r \in Requests : requests[r].op \in Ops \ Registration
    \/ \E t \in DOMAIN tokens : tokens[t].type = RESET
    \/ sessions # <<>> \/ \E u \in Users : ~users[u].isActive

(* The calls are about the users of the scenario, at most four register,   *)
(* only tokens of newcomers expire, only members are deactivated.          *)
OneScenario ==
    /\ ~(Registering' /\ Resetting')
    /\ Registering' => calls' < MaxCalls
    /\ \A r \in Requests :
          requests'[r].userId # None =>
             (requests'[r].userId \in Newcomers <=> requests'[r].op \in Registration)
    /\ \A u \in Newcomers : users'[u].isActive
    /\ \A t \in DOMAIN tokens' : tokens'[t].expired => tokens'[t].type = EMAIL
    /\ \A s \in DOMAIN sessions' : ~sessions'[s].expired
=============================================================================
