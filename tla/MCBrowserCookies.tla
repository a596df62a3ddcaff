-------------------------- MODULE MCBrowserCookies --------------------------
(* Small instances of BrowserCookies for TLC: a browser that makes one call *)
(* after another and gets its answers, and one whose calls overlap.         *)
EXTENDS BrowserCookies, TLC

CONSTANTS
    TabCalls,       \* BOUND: calls begun where they overlap
    First           \* the slot of a browser that makes one call at a time

\* It keeps calls from being sent and no step from being taken.
OneScenario ==
    /\ ~serial => calls' <= TabCalls
    /\ serial => \A r \in Requests \ {First} : requests'[r] = Idle

\* The browser that makes one call at a time is the one that is informed.
MCInit == Init /\ (serial => Informed)

MCSpec == MCInit /\ [][Next]_vars /\ \A r \in Requests : WF_vars(Step(r))
=============================================================================
