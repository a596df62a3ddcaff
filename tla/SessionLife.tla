----------------------------- MODULE SessionLife -----------------------------
(***************************************************************************)
(* What login, refresh and logout promise, of users and of administrators: *)
(* a session is opened with a fresh credential, that credential is traded  *)
(* for a fresh one any number of times, each one once, and once the        *)
(* session has ended no credential of it is of use again.                  *)
(***************************************************************************)
EXTENDS Naturals, Sequences

VARIABLES
    lives,      \* the sessions: whose, the credential that counts, ended or not
    issued,     \* credentials handed out
    traded      \* those that were traded in

Init == lives = <<>> /\ issued = 0 /\ traded = {}

(* Whoever owns it owns it for good.                                       *)
Owners(L) == {L[s].owner : s \in DOMAIN L}

Open ==
    /\ issued' = issued + 1
    /\ \E o \in Owners(lives') :
          lives' = Append(lives, [owner |-> o, credential |-> issued + 1, ended |-> FALSE])
    /\ UNCHANGED traded

Trade(s) ==
    /\ ~lives[s].ended
    /\ traded' = traded \cup {lives[s].credential}
    /\ issued' = issued + 1
    /\ lives' = [lives EXCEPT ![s].credential = issued + 1]

End(S) ==
    /\ lives' = [s \in DOMAIN lives |-> [lives[s] EXCEPT !.ended = @ \/ s \in S]]
    /\ UNCHANGED <<issued, traded>>

Next ==
    \/ Open
    \/ \E s \in DOMAIN lives : Trade(s)
    \/ \E S \in SUBSET DOMAIN lives : End(S)

Spec == Init /\ [][Next]_<<lives, issued, traded>>
=============================================================================
