-------------------------------- MODULE Shelf --------------------------------
(***************************************************************************)
(* What the article endpoints promise: an edit replaces the price and the  *)
(* features of an article together, as they were sent in.                  *)
(***************************************************************************)
EXTENDS Naturals

CONSTANTS Articles, Prices, FeatureSets, None, MaxCalls

VARIABLE shelf      \* what is on sale: None, or a price and features

(* The features that call k sent in.                                       *)
Sent(F, k) == {[feature |-> f, call |-> k] : f \in F}

Init == shelf = [a \in Articles |-> None]

Add(a, p, F, k) ==
    /\ shelf[a] = None
    /\ shelf' = [shelf EXCEPT ![a] = [price |-> p, features |-> Sent(F, k)]]

SetPrice(a, p) ==
    /\ shelf[a] # None
    /\ shelf' = [shelf EXCEPT ![a].price = p]

SetFeatures(a, F, k) ==
    /\ shelf[a] # None
    /\ shelf' = [shelf EXCEPT ![a].features = Sent(F, k)]

SetBoth(a, p, F, k) ==
    /\ shelf[a] # None
    /\ shelf' = [shelf EXCEPT ![a] = [price |-> p, features |-> Sent(F, k)]]

Next ==
    \E a \in Articles :
        \/ \E p \in Prices : SetPrice(a, p)
        \/ \E F \in FeatureSets, k \in 1..MaxCalls :
              \/ SetFeatures(a, F, k)
              \/ \E p \in Prices : Add(a, p, F, k) \/ SetBoth(a, p, F, k)

Spec == Init /\ [][Next]_shelf
=============================================================================
