---------------------------- MODULE CategoryTree ----------------------------
(***************************************************************************)
(* Categories, their parents and their features: category.service.ts and   *)
(* feature.service.ts.                                                     *)
(*                                                                         *)
(* add and edit are one statement each.  A listing is several: one for the *)
(* categories and one for every relation the query includes, in an order   *)
(* that Prisma chooses, and edits commit in between.                       *)
(*                                                                         *)
(* Abstractions.  imagePath, which is unique as name is, goes with name.   *)
(* The relations included are subcategories, features and parentCategory.  *)
(***************************************************************************)
EXTENDS Naturals, FiniteSets, Sequences

CONSTANTS
    Names,          \* of categories and of features
    Listings,       \* slots for the listings in progress, and their answers
    None,           \* no parent, and an absent value
    MaxCategories, MaxFeatures, \* BOUND: rows
    MaxEdits        \* BOUND: edits in a behaviour

TreeAssumption ==
    /\ None \notin Names /\ None \notin Nat
    /\ MaxCategories \in Nat /\ MaxFeatures \in Nat /\ MaxEdits \in Nat

VARIABLES
    categories,     \* category in the order of ids
    features,       \* feature in the order of ids
    listings,       \* listings in progress
    edits,          \* edits made
    moved           \* history: categories an edit has put under a parent

vars == <<categories, features, listings, edits, moved>>

-----------------------------------------------------------------------------
Ids == DOMAIN categories
CategoryRows == [name : Names, parent : Nat \cup {None}]
FeatureRows == [name : Names, category : Nat]

Relations == {"subcategories", "features", "parentCategory"}

(* `overlapped' is history: something changed while the listing ran.       *)
Idle == [pc |-> "idle", include |-> {}, rows |-> <<>>, shown |-> <<>>, overlapped |-> FALSE]

Overlap == [l \in Listings |->
    IF listings[l].pc = "reading" THEN [listings[l] EXCEPT !.overlapped = TRUE] ELSE listings[l]]

(* Faulty form: a parent the database does not check.                      *)
AnyParent(p, c) == p \in 1..MaxCategories \cup {None}

(* What the foreign key accepts for row c; P2003 refuses others.  Postgres *)
(* checks the key once the row is there, so an insert may name its own id: *)
(* neither service compares the two.                                       *)
Parent(p, c) == p \in Ids \cup {c, None}

(* P2002 refuses a name that another category has.                         *)
NameIsFree(n, c) == \A d \in Ids \ {c} : categories[d].name # n

FeatureIsFree(n, c, f) == \A g \in DOMAIN features \ {f} : features[g] # [name |-> n, category |-> c]

-----------------------------------------------------------------------------
(* Changes; what is refused changes nothing.                               *)

AddCategory(n, p) ==
    /\ Len(categories) < MaxCategories
    /\ NameIsFree(n, None) /\ Parent(p, Len(categories) + 1)
    /\ categories' = Append(categories, [name |-> n, parent |-> p])
    /\ listings' = Overlap
    /\ UNCHANGED <<features, edits, moved>>

(* A field the body leaves out stays; null makes the category a root.      *)
EditCategory(c, n, p) ==
    /\ edits < MaxEdits
    /\ NameIsFree(n, c) /\ Parent(p, c)
    /\ categories' = [categories EXCEPT ![c] = [name |-> n, parent |-> p]]
    /\ moved' = IF p \notin {None, categories[c].parent} THEN moved \cup {c} ELSE moved
    /\ edits' = edits + 1
    /\ listings' = Overlap
    /\ UNCHANGED features

AddFeature(n, c) ==
    /\ Len(features) < MaxFeatures
    /\ FeatureIsFree(n, c, Len(features) + 1)
    /\ features' = Append(features, [name |-> n, category |-> c])
    /\ listings' = Overlap
    /\ UNCHANGED <<categories, edits, moved>>

EditFeature(f, n, c) ==
    /\ edits < MaxEdits
    /\ FeatureIsFree(n, c, f)
    /\ features' = [features EXCEPT ![f] = [name |-> n, category |-> c]]
    /\ edits' = edits + 1
    /\ listings' = Overlap
    /\ UNCHANGED <<categories, moved>>

-----------------------------------------------------------------------------
(* getAll, and getById for one id.                                         *)

List(l, ids, include) ==
    /\ listings[l].pc = "idle"
    /\ listings' = [listings EXCEPT ![l] =
           [Idle EXCEPT !.pc = "reading", !.include = include,
                        !.rows = [c \in ids |-> categories[c]]]]
    /\ UNCHANGED <<categories, features, edits, moved>>

(* What a statement finds for the categories listed: each row that it      *)
(* returns goes to the category the row itself names, or, of parents, to   *)
(* the category that named it when it was read.                            *)
Related(relation, rows) ==
    [c \in DOMAIN rows |->
        CASE relation = "subcategories" -> {d \in Ids : categories[d].parent = c}
          [] relation = "features" -> {f \in DOMAIN features : features[f].category = c}
          [] relation = "parentCategory" -> {p \in Ids : p = rows[c].parent}]

(* Faulty form: a statement for every category.                            *)
ReadEach(l) ==
    /\ listings[l].pc = "reading"
    /\ \E relation \in listings[l].include, c \in DOMAIN listings[l].rows :
          LET shown == listings[l].shown
              before == IF relation \in DOMAIN shown THEN shown[relation] ELSE <<>>
              now == [d \in DOMAIN before \cup {c} |->
                         IF d = c THEN Related(relation, listings[l].rows)[c] ELSE before[d]]
              whole == DOMAIN now = DOMAIN listings[l].rows
          IN /\ c \notin DOMAIN before
             /\ listings' = [listings EXCEPT
                   ![l].include = IF whole THEN @ \ {relation} ELSE @,
                   ![l].shown = [i \in DOMAIN shown \cup {relation} |->
                                     IF i = relation THEN now ELSE shown[i]]]
    /\ UNCHANGED <<categories, features, edits, moved>>

Read(l) ==
    /\ listings[l].pc = "reading"
    /\ \E relation \in listings[l].include :
          LET shown == listings[l].shown
          IN listings' = [listings EXCEPT
                ![l].include = @ \ {relation},
                ![l].shown = [i \in DOMAIN shown \cup {relation} |->
                    IF i = relation THEN Related(relation, listings[l].rows) ELSE shown[i]]]
    /\ UNCHANGED <<categories, features, edits, moved>>

Answer(l) ==
    /\ listings[l].pc = "reading" /\ listings[l].include = {}
    /\ listings' = [listings EXCEPT ![l].pc = "done"]
    /\ UNCHANGED <<categories, features, edits, moved>>

-----------------------------------------------------------------------------
Init ==
    /\ categories = <<>> /\ features = <<>>
    /\ listings = [l \in Listings |-> Idle]
    /\ edits = 0 /\ moved = {}

Next ==
    \/ \E n \in Names, p \in 1..MaxCategories \cup {None} :
          \/ AddCategory(n, p)
          \/ \E c \in Ids : EditCategory(c, n, p)
    \/ \E n \in Names, c \in Ids :
          AddFeature(n, c) \/ \E f \in DOMAIN features : EditFeature(f, n, c)
    \/ \E l \in Listings :
          \/ \E ids \in {Ids} \cup {{c} : c \in Ids}, include \in SUBSET Relations :
                List(l, ids, include)
          \/ Read(l) \/ Answer(l)

Spec == Init /\ [][Next]_vars

-----------------------------------------------------------------------------
(* Properties.                                                             *)

(* Names tell categories apart, and the features of a category.            *)
TypeOK ==
    /\ categories \in Seq(CategoryRows) /\ features \in Seq(FeatureRows)
    /\ \A c, d \in Ids : categories[c].name = categories[d].name => c = d
    /\ \A f, g \in DOMAIN features : features[f] = features[g] => f = g
    /\ moved \subseteq Ids /\ edits \in 0..MaxEdits

OwnParent(c) == categories[c].parent = c

(* Adds alone make no cycle longer than a category that is its own parent: *)
(* wherever going up never leaves a set of categories, an edit has put one *)
(* of them under its parent or one of them is its own parent, which an add *)
(* can make it.  The smallest such sets are the cycles.                    *)
CycleNeedsEdit ==
    \A S \in SUBSET Ids :
        S # {} /\ (\A c \in S : categories[c].parent \in S) =>
            \E c \in S : c \in moved \/ OwnParent(c)

(* The tree is what the schema and the two services make of it.            *)
TreeHolds == TypeOK /\ CycleNeedsEdit

Done(l, relation) == listings[l].pc = "done" /\ relation \in DOMAIN listings[l].shown

(* Whatever commits while a listing runs, it shows no category under two   *)
(* parents and no feature under two categories.                            *)
ShownOnce ==
    \A l \in Listings, relation \in {"subcategories", "features"} :
        Done(l, relation) =>
            LET shown == listings[l].shown[relation]
            IN \A c, d \in DOMAIN shown : c # d => shown[c] \cap shown[d] = {}

(* A listing in which a category and its parent disagree about each other  *)
(* ran while something changed; one that shows parents shows each          *)
(* category's own in any case.                                             *)
TornOnlyInOverlap ==
    \A l \in Listings :
        LET rows == listings[l].rows  shown == listings[l].shown IN
        /\ Done(l, "parentCategory") =>
              \A c \in DOMAIN rows : shown["parentCategory"][c] = {rows[c].parent} \ {None}
        /\ Done(l, "subcategories") /\ ~listings[l].overlapped =>
              \A c, d \in DOMAIN rows : d \in shown["subcategories"][c] <=> rows[d].parent = c

(* What a listing shows agrees with itself.                                *)
ListingsHold == ShownOnce /\ TornOnlyInOverlap
=============================================================================
