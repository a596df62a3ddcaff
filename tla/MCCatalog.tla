------------------------------ MODULE MCCatalog ------------------------------
(* A small instance of Catalog for TLC.                                    *)
EXTENDS Catalog, TLC

CONSTANT Ordered        \* the article that is ordered

\* Two articles where every edit locks its article, one article with orders
\* where edits need not.
OneScenario ==
    /\ locked => orders' = orders
    /\ ~locked => \A r \in Requests : requests'[r].article \in {None, Ordered}

\* Requests are interchangeable slots, and features are only told apart.
Symmetry == Permutations(Requests) \cup Permutations(UNION FeatureSets)
=============================================================================
