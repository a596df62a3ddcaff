---------------------------- MODULE MCStorefront ----------------------------
(* Small instances of the parts of Storefront.  In a behaviour one part    *)
(* moves and the others rest, so that the run costs the sum of the parts   *)
(* and not their product.                                                  *)
EXTENDS Storefront, TLC

VARIABLE part       \* the part that moves

-----------------------------------------------------------------------------
\* Two articles of one category with one name, a third one elsewhere.
MCStock ==
    [a \in 1..3 |-> [name |-> 1, category |-> IF a = 3 THEN 2 ELSE 1,
                     tags |-> {"blue"}, prices |-> <<[price |-> 5, createdAt |-> 0]>>]]

Body == [category |-> 1, from |-> 0, to |-> 9, keyword |-> None, filters |-> {},
         byPrice |-> FALSE, descending |-> FALSE, page |-> 1, size |-> 1]

\* By name with a filter, by price up to a bound, two pages of each, and one
\* page for all; and a keyword that is null, which the DTO lets through.
MCQueries ==
    {[Body EXCEPT !.filters = {{"blue"}}, !.page = p] : p \in 1..2}
    \cup {[Body EXCEPT !.byPrice = TRUE, !.descending = TRUE, !.to = 5, !.page = p] : p \in 1..2}
    \cup {[Body EXCEPT !.size = 2], [Body EXCEPT !.keyword = Null]}

\* One letter in both cases, the wildcards, the escape character, a blank.
MCCharacters == {"a", "A", "%", "_", "\\", " "}

-----------------------------------------------------------------------------
Parts == {"photos", "edits", "listings", "search", "pattern", "mail"}

MCInit ==
    /\ part \in Parts
    /\ StoreInit
    /\ part # "pattern" => text = <<>>

\* A listing overlaps one edit of a tree with one feature; names, which a
\* listing only copies, are fixed.
TreePart ==
    /\ TreeMoves
    /\ part = "edits" => listings' = listings
    /\ part = "listings" =>
          /\ edits' <= 1 /\ Len(features') <= 1
          /\ \A c \in DOMAIN categories : categories'[c].name = categories[c].name
          /\ \A f \in DOMAIN features' : features'[f].name = categories[1].name

MCNext ==
    /\ \/ part = "photos" /\ PhotosMove
       \/ part \in {"edits", "listings"} /\ TreePart
       \/ part = "search" /\ SearchMoves
       \/ part = "pattern" /\ PatternMoves
       \/ part = "mail" /\ MailMoves
    /\ UNCHANGED part

MCSpec == MCInit /\ [][MCNext]_<<vars, tree, catalogue, pattern, post, part>>

\* The slots of the photo requests are interchangeable, and so are names.
Symmetry == Permutations(Requests) \cup Permutations(TreeNames)
=============================================================================
