-------------------------- MODULE StorefrontProofs --------------------------
(***************************************************************************)
(* What the categories and the mails of Storefront guarantee for any       *)
(* values of its constants, whatever the other parts do.                   *)
(***************************************************************************)
EXTENDS Storefront, TLAPS

-----------------------------------------------------------------------------
(* The foreign key: a parent is a category that exists, perhaps the same.  *)
ParentsExist == \A c \in Tree!Ids : categories[c].parent \in Tree!Ids \cup {None}

TreeInv == Tree!TypeOK /\ ParentsExist /\ Tree!CycleNeedsEdit

(* A set of categories that going up never leaves.                         *)
Rootless(S) == S # {} /\ \A c \in S : categories[c].parent \in S

-----------------------------------------------------------------------------
(* Sequences of rows.                                                      *)

LEMMA Appended ==
  ASSUME NEW Rows, NEW s \in Seq(Rows), NEW row \in Rows
  PROVE  /\ Append(s, row) \in Seq(Rows)
         /\ Len(s) \in Nat /\ DOMAIN s = 1..Len(s)
         /\ DOMAIN Append(s, row) = DOMAIN s \cup {Len(s) + 1}
         /\ Len(s) + 1 \notin DOMAIN s
         /\ \A i \in DOMAIN s : Append(s, row)[i] = s[i]
         /\ Append(s, row)[Len(s) + 1] = row
  OBVIOUS

LEMMA Replaced ==
  ASSUME NEW Rows, NEW s \in Seq(Rows), NEW row \in Rows, NEW i \in DOMAIN s
  PROVE  /\ [s EXCEPT ![i] = row] \in Seq(Rows)
         /\ DOMAIN [s EXCEPT ![i] = row] = DOMAIN s
         /\ [s EXCEPT ![i] = row][i] = row
         /\ \A j \in DOMAIN s \ {i} : [s EXCEPT ![i] = row][j] = s[j]
  OBVIOUS

LEMMA CategoryRow ==
  ASSUME NEW row \in Tree!CategoryRows
  PROVE  row.name \in TreeNames /\ row.parent \in Nat \cup {None}
  BY DEF Tree!CategoryRows

-----------------------------------------------------------------------------
(* The steps that touch the tree.                                          *)

LEMMA InitTree == ASSUME Tree!TreeAssumption PROVE Tree!Init => TreeInv
<1> SUFFICES ASSUME Tree!Init PROVE TreeInv
  OBVIOUS
<1>1. Tree!Ids = {} /\ DOMAIN features = {} /\ categories \in Seq(Tree!CategoryRows) /\ features \in Seq(Tree!FeatureRows)
  BY DEF Tree!Init, Tree!Ids
<1>2. Tree!TypeOK
  BY <1>1 DEF Tree!Init, Tree!TypeOK, Tree!TreeAssumption
<1>3. ParentsExist /\ Tree!CycleNeedsEdit
  BY <1>1 DEF ParentsExist, Tree!CycleNeedsEdit
<1> QED
  BY <1>2, <1>3 DEF TreeInv

LEMMA AddCategoryTree ==
  ASSUME Tree!TreeAssumption, TreeInv, NEW n \in TreeNames, NEW p \in 1..MaxCategories \cup {None},
         Tree!AddCategory(n, p)
  PROVE  TreeInv'
<1> USE DEF TreeInv
<1> DEFINE row == [name |-> n, parent |-> p]
<1>0. PICK new \in Nat : new = Len(categories) + 1
  BY Appended DEF Tree!TypeOK
<1>1. row \in Tree!CategoryRows /\ row.name = n /\ row.parent = p
  BY DEF Tree!TreeAssumption, Tree!CategoryRows
<1> HIDE DEF row
<1>2. /\ categories' = Append(categories, row)
      /\ UNCHANGED <<features, edits, moved>>
  BY DEF Tree!AddCategory, row
<1>3. /\ categories' \in Seq(Tree!CategoryRows)
      /\ new \in Nat /\ Tree!Ids = 1..Len(categories)
      /\ Tree!Ids' = Tree!Ids \cup {new} /\ new \notin Tree!Ids
      /\ \A c \in Tree!Ids : categories'[c] = categories[c]
      /\ categories'[new] = row
  BY <1>0, <1>1, <1>2, Appended DEF Tree!TypeOK, Tree!Ids
<1>4. p \in Tree!Ids \cup {new, None} /\ \A d \in Tree!Ids : categories[d].name # n
  BY <1>0, <1>3 DEF Tree!AddCategory, Tree!Parent, Tree!NameIsFree, Tree!TreeAssumption
<1>5. Tree!TypeOK'
  <2>1. ASSUME NEW c \in Tree!Ids', NEW d \in Tree!Ids', categories'[c].name = categories'[d].name
        PROVE  c = d
    <3>1. \A e \in Tree!Ids : categories'[e].name # n
      BY <1>3, <1>4
    <3>2. categories'[new].name = n
      BY <1>1, <1>3
    <3>3. CASE c \in Tree!Ids /\ d \in Tree!Ids
      BY <1>3, <2>1, <3>3 DEF Tree!TypeOK
    <3> QED
      BY <1>3, <2>1, <3>1, <3>2, <3>3
  <2>2. features' \in Seq(Tree!FeatureRows) /\ moved' \subseteq Tree!Ids' /\ edits' \in 0..MaxTreeEdits
        /\ \A f, g \in DOMAIN features' : features'[f] = features'[g] => f = g
    BY <1>2, <1>3 DEF Tree!TypeOK
  <2> QED
    BY <1>3, <2>1, <2>2 DEF Tree!TypeOK
<1>6. ParentsExist'
  BY <1>1, <1>3, <1>4 DEF ParentsExist
<1>7. Tree!CycleNeedsEdit'
  <2> SUFFICES ASSUME NEW S \in SUBSET Tree!Ids', S # {}, \A c \in S : categories'[c].parent \in S
               PROVE  \E c \in S : c \in moved' \/ Tree!OwnParent(c)'
    BY DEF Tree!CycleNeedsEdit
  <2> DEFINE T == S \ {new}
  <2>1. T \subseteq Tree!Ids
    BY <1>3
  <2>2. CASE new \in S /\ p = new
    <3>1. Tree!OwnParent(new)'
      BY <1>1, <1>3, <2>2 DEF Tree!OwnParent
    <3> QED
      BY <2>2, <3>1
  <2>3. CASE ~(new \in S /\ p = new)
    <3>1. T # {}
      BY <1>1, <1>3, <1>4, <2>3, new \in S => p \in S DEF Tree!TreeAssumption
    <3>2. ASSUME NEW c \in T PROVE categories[c].parent \in T
      <4>1. categories[c].parent \in S
        BY <1>3, <2>1
      <4>2. categories[c].parent \in Tree!Ids \cup {None}
        BY <2>1 DEF ParentsExist
      <4>3. None \notin Tree!Ids'
        BY <1>3 DEF Tree!TreeAssumption
      <4> QED
        BY <1>3, <4>1, <4>2, <4>3
    <3>3. PICK c \in T : c \in moved \/ Tree!OwnParent(c)
      BY <2>1, <3>1, <3>2 DEF Tree!CycleNeedsEdit
    <3>4. c \in moved' \/ Tree!OwnParent(c)'
      BY <1>2, <1>3, <2>1, <3>3 DEF Tree!OwnParent
    <3> QED
      BY <3>4
  <2> QED
    BY <2>2, <2>3
<1> QED
  BY <1>5, <1>6, <1>7

LEMMA EditCategoryTree ==
  ASSUME Tree!TreeAssumption, TreeInv, NEW n \in TreeNames, NEW p \in 1..MaxCategories \cup {None},
         NEW c \in Tree!Ids, Tree!EditCategory(c, n, p)
  PROVE  TreeInv'
<1> USE DEF TreeInv
<1> DEFINE row == [name |-> n, parent |-> p]
<1>1. row \in Tree!CategoryRows /\ row.name = n /\ row.parent = p
  BY DEF Tree!TreeAssumption, Tree!CategoryRows
<1> HIDE DEF row
<1>2. /\ categories' = [categories EXCEPT ![c] = row]
      /\ features' = features
      /\ moved' = IF p \notin {None, categories[c].parent} THEN moved \cup {c} ELSE moved
      /\ edits' = edits + 1 /\ edits < MaxTreeEdits
  BY DEF Tree!EditCategory, row
<1>3. /\ categories' \in Seq(Tree!CategoryRows)
      /\ Tree!Ids' = Tree!Ids
      /\ categories'[c] = row
      /\ \A d \in Tree!Ids \ {c} : categories'[d] = categories[d]
  BY <1>1, <1>2, Replaced DEF Tree!TypeOK, Tree!Ids
<1>4. p \in Tree!Ids \cup {None} /\ \A d \in Tree!Ids \ {c} : categories[d].name # n
  BY DEF Tree!EditCategory, Tree!Parent, Tree!NameIsFree
<1>5. Tree!TypeOK'
  <2>1. \A d, e \in Tree!Ids' : categories'[d].name = categories'[e].name => d = e
    BY <1>1, <1>3, <1>4 DEF Tree!TypeOK
  <2>2. edits' \in 0..MaxTreeEdits
    BY <1>2 DEF Tree!TypeOK, Tree!TreeAssumption
  <2>3. features' \in Seq(Tree!FeatureRows) /\ moved' \subseteq Tree!Ids'
        /\ \A f, g \in DOMAIN features' : features'[f] = features'[g] => f = g
    BY <1>2, <1>3 DEF Tree!TypeOK
  <2> QED
    BY <1>3, <2>1, <2>2, <2>3 DEF Tree!TypeOK
<1>6. ParentsExist'
  BY <1>1, <1>3, <1>4 DEF ParentsExist
<1>7. Tree!CycleNeedsEdit'
  <2> SUFFICES ASSUME NEW S \in SUBSET Tree!Ids', S # {}, \A d \in S : categories'[d].parent \in S
               PROVE  \E d \in S : d \in moved' \/ Tree!OwnParent(d)'
    BY DEF Tree!CycleNeedsEdit
  <2>1. CASE c \in S /\ p # categories[c].parent
    <3>1. p \in S /\ p # None
      BY <1>1, <1>3, <2>1 DEF Tree!TreeAssumption, Tree!Ids, Tree!TypeOK
    <3> QED
      BY <1>2, <2>1, <3>1
  <2>2. CASE ~(c \in S /\ p # categories[c].parent)
    <3>1. \A d \in S : categories'[d].parent = categories[d].parent
      BY <1>1, <1>3, <2>2
    <3>2. PICK d \in S : d \in moved \/ Tree!OwnParent(d)
      BY <1>3, <3>1 DEF Tree!CycleNeedsEdit
    <3>3. d \in moved' \/ Tree!OwnParent(d)'
      BY <1>2, <3>1, <3>2 DEF Tree!OwnParent
    <3> QED
      BY <3>3
  <2> QED
    BY <2>1, <2>2
<1> QED
  BY <1>5, <1>6, <1>7

LEMMA AddFeatureTree ==
  ASSUME TreeInv, NEW n \in TreeNames, NEW c \in Tree!Ids, Tree!AddFeature(n, c)
  PROVE  TreeInv'
<1> USE DEF TreeInv
<1> DEFINE row == [name |-> n, category |-> c]
<1>1. row \in Tree!FeatureRows
  BY DEF Tree!FeatureRows, Tree!TypeOK, Tree!Ids
<1>2. features' = Append(features, row) /\ UNCHANGED <<categories, edits, moved>>
      /\ \A g \in DOMAIN features \ {Len(features) + 1} : features[g] # row
  BY DEF Tree!AddFeature, Tree!FeatureIsFree
<1> HIDE DEF row
<1>3. /\ features' \in Seq(Tree!FeatureRows)
      /\ DOMAIN features' = DOMAIN features \cup {Len(features) + 1}
      /\ Len(features) + 1 \notin DOMAIN features
      /\ \A f \in DOMAIN features : features'[f] = features[f]
      /\ features'[Len(features) + 1] = row
  BY <1>1, <1>2, Appended DEF Tree!TypeOK
<1>4. \A f, g \in DOMAIN features' : features'[f] = features'[g] => f = g
  BY <1>2, <1>3 DEF Tree!TypeOK
<1>5. Tree!TypeOK'
  BY <1>2, <1>3, <1>4 DEF Tree!TypeOK, Tree!Ids
<1>6. ParentsExist' /\ Tree!CycleNeedsEdit'
  BY <1>2 DEF ParentsExist, Tree!CycleNeedsEdit, Tree!OwnParent, Tree!Ids
<1> QED
  BY <1>5, <1>6

LEMMA EditFeatureTree ==
  ASSUME Tree!TreeAssumption, TreeInv, NEW n \in TreeNames, NEW c \in Tree!Ids, NEW f \in DOMAIN features,
         Tree!EditFeature(f, n, c)
  PROVE  TreeInv'
<1> USE DEF TreeInv
<1> DEFINE row == [name |-> n, category |-> c]
<1>1. row \in Tree!FeatureRows
  BY DEF Tree!FeatureRows, Tree!TypeOK, Tree!Ids
<1>2. /\ features' = [features EXCEPT ![f] = row] /\ UNCHANGED <<categories, moved>>
      /\ edits' = edits + 1 /\ edits < MaxTreeEdits
      /\ \A g \in DOMAIN features \ {f} : features[g] # row
  BY DEF Tree!EditFeature, Tree!FeatureIsFree
<1> HIDE DEF row
<1>3. /\ features' \in Seq(Tree!FeatureRows)
      /\ DOMAIN features' = DOMAIN features
      /\ features'[f] = row
      /\ \A g \in DOMAIN features \ {f} : features'[g] = features[g]
  BY <1>1, <1>2, Replaced DEF Tree!TypeOK
<1>4. \A g, h \in DOMAIN features' : features'[g] = features'[h] => g = h
  BY <1>2, <1>3 DEF Tree!TypeOK
<1>5. edits' \in 0..MaxTreeEdits
  BY <1>2 DEF Tree!TypeOK, Tree!TreeAssumption
<1>6. Tree!TypeOK'
  BY <1>2, <1>3, <1>4, <1>5 DEF Tree!TypeOK, Tree!Ids
<1>7. ParentsExist' /\ Tree!CycleNeedsEdit'
  BY <1>2 DEF ParentsExist, Tree!CycleNeedsEdit, Tree!OwnParent, Tree!Ids
<1> QED
  BY <1>6, <1>7

(* Listings read the tree and leave it as it is.                           *)
Steady == UNCHANGED <<categories, features, edits, moved>>

LEMMA SteadyTree == TreeInv /\ Steady => TreeInv'
  BY DEF TreeInv, Steady, Tree!TypeOK, ParentsExist, Tree!CycleNeedsEdit, Tree!OwnParent, Tree!Ids

LEMMA NextTree == ASSUME Tree!TreeAssumption, TreeInv, [Tree!Next]_(Tree!vars) PROVE TreeInv'
<1>1. ASSUME NEW n \in TreeNames, NEW p \in 1..MaxCategories \cup {None}, Tree!AddCategory(n, p)
      PROVE  TreeInv'
  BY <1>1, AddCategoryTree
<1>2. ASSUME NEW n \in TreeNames, NEW p \in 1..MaxCategories \cup {None}, NEW c \in Tree!Ids,
             Tree!EditCategory(c, n, p)
      PROVE  TreeInv'
  BY <1>2, EditCategoryTree
<1>3. ASSUME NEW n \in TreeNames, NEW c \in Tree!Ids, Tree!AddFeature(n, c)
      PROVE  TreeInv'
  BY <1>3, AddFeatureTree
<1>4. ASSUME NEW n \in TreeNames, NEW c \in Tree!Ids, NEW f \in DOMAIN features, Tree!EditFeature(f, n, c)
      PROVE  TreeInv'
  BY <1>4, EditFeatureTree
<1>5. ASSUME NEW l \in Listings,
             (\E ids \in {Tree!Ids} \cup {{c} : c \in Tree!Ids}, include \in SUBSET Tree!Relations :
                  Tree!List(l, ids, include)) \/ Tree!Read(l) \/ Tree!Answer(l)
      PROVE  TreeInv'
  BY <1>5, SteadyTree DEF Tree!List, Tree!Read, Tree!Answer, Steady
<1>6. CASE UNCHANGED Tree!vars
  BY <1>6, SteadyTree DEF Tree!vars, Steady
<1> QED
  BY <1>1, <1>2, <1>3, <1>4, <1>5, <1>6 DEF Tree!Next

LEMMA TreeInvariance == ASSUME Tree!TreeAssumption PROVE Tree!Spec => []TreeInv
<1>1. Tree!Init => TreeInv
  BY InitTree
<1>2. TreeInv /\ [Tree!Next]_(Tree!vars) => TreeInv'
  BY NextTree
<1> QED
  BY <1>1, <1>2, PTL DEF Tree!Spec

LEMMA TreeAlone == ASSUME Tree!TreeAssumption PROVE Tree!Spec => []Tree!TreeHolds
<1>1. TreeInv => Tree!TreeHolds
  BY DEF TreeInv, Tree!TreeHolds
<1> QED
  BY <1>1, TreeInvariance, PTL

-----------------------------------------------------------------------------
(* What a listing keeps between its statements: rows is what the first one *)
(* found, and as long as nothing changed the table T of categories still   *)
(* has those rows.                                                         *)

Paired(k) ==
    \A relation \in {"subcategories", "features"} \cap DOMAIN k.shown :
        \A c, d \in DOMAIN k.rows :
            c # d => k.shown[relation][c] \cap k.shown[relation][d] = {}

OwnParents(k) ==
    "parentCategory" \in DOMAIN k.shown =>
        \A c \in DOMAIN k.rows : k.shown["parentCategory"][c] = {k.rows[c].parent} \ {None}

Agrees(k) ==
    "subcategories" \in DOMAIN k.shown /\ ~k.overlapped =>
        \A c, d \in DOMAIN k.rows :
            d \in k.shown["subcategories"][c] <=> k.rows[d].parent = c

Typed(k) ==
    /\ k = [pc |-> k.pc, include |-> k.include, rows |-> k.rows, shown |-> k.shown,
            overlapped |-> k.overlapped]
    /\ k.include \subseteq Tree!Relations /\ k.overlapped \in BOOLEAN
    /\ \A relation \in DOMAIN k.shown : DOMAIN k.shown[relation] = DOMAIN k.rows

Listed(k, T) ==
    /\ Typed(k) /\ Paired(k) /\ OwnParents(k) /\ Agrees(k)
    /\ DOMAIN k.rows \subseteq DOMAIN T
    /\ \A c \in DOMAIN k.rows : k.rows[c].parent \in DOMAIN T \cup {None}
    /\ k.pc = "reading" /\ ~k.overlapped => \A c \in DOMAIN k.rows : k.rows[c] = T[c]

ListInv ==
    /\ listings = [l \in Listings |-> listings[l]]
    /\ \A l \in Listings : Listed(listings[l], categories)

-----------------------------------------------------------------------------
(* The steps of a listing.                                                 *)

LEMMA IdleListed == ASSUME NEW T PROVE Listed(Tree!Idle, T)
  BY DEF Tree!Idle, Listed, Typed, Paired, OwnParents, Agrees, Tree!Relations

(* A change that keeps every id may pass while k runs.                     *)
LEMMA OverlapListed ==
  ASSUME NEW k, NEW T, NEW U, Listed(k, T), DOMAIN T \subseteq DOMAIN U
  PROVE  /\ Listed([k EXCEPT !.overlapped = TRUE], U)
         /\ k.pc # "reading" => Listed(k, U)
<1>1. PICK Q : Q = [k EXCEPT !.overlapped = TRUE]
  OBVIOUS
<1>2. /\ Q.pc = k.pc /\ Q.include = k.include /\ Q.rows = k.rows /\ Q.shown = k.shown
      /\ Q.overlapped = TRUE
      /\ Q = [pc |-> Q.pc, include |-> Q.include, rows |-> Q.rows, shown |-> Q.shown,
              overlapped |-> Q.overlapped]
  BY <1>1 DEF Listed, Typed
<1>3. Listed(Q, U)
  <2>1. Typed(Q)
    BY <1>2 DEF Listed, Typed
  <2>2. Paired(Q)
    BY <1>2 DEF Listed, Paired
  <2>3. OwnParents(Q) /\ Agrees(Q)
    BY <1>2 DEF Listed, OwnParents, Agrees
  <2> QED
    BY <1>2, <2>1, <2>2, <2>3 DEF Listed
<1>4. k.pc # "reading" => Listed(k, U)
  BY DEF Listed
<1> QED
  BY <1>1, <1>3, <1>4

LEMMA StartListed ==
  ASSUME NEW T, NEW ids \in SUBSET DOMAIN T, NEW include \in SUBSET Tree!Relations,
         \A c \in DOMAIN T : T[c].parent \in DOMAIN T \cup {None}
  PROVE  Listed([Tree!Idle EXCEPT !.pc = "reading", !.include = include,
                             !.rows = [c \in ids |-> T[c]]], T)
<1>1. PICK Q : Q = [Tree!Idle EXCEPT !.pc = "reading", !.include = include,
                               !.rows = [c \in ids |-> T[c]]]
  OBVIOUS
<1>2. /\ Q.include = include /\ Q.rows = [c \in ids |-> T[c]] /\ Q.shown = <<>>
      /\ Q.overlapped = FALSE
      /\ Q = [pc |-> Q.pc, include |-> Q.include, rows |-> Q.rows, shown |-> Q.shown,
              overlapped |-> Q.overlapped]
  BY <1>1 DEF Tree!Idle
<1>3. DOMAIN Q.shown = {} /\ DOMAIN Q.rows = ids /\ \A c \in ids : Q.rows[c] = T[c]
  BY <1>2
<1>4. Listed(Q, T)
  BY <1>2, <1>3 DEF Listed, Typed, Paired, OwnParents, Agrees
<1> QED
  BY <1>1, <1>4

(* What one statement returns.                                             *)
LEMMA RelatedRows ==
  ASSUME Tree!TreeAssumption, TreeInv, NEW relation \in Tree!Relations, NEW rows,
         DOMAIN rows \subseteq Tree!Ids, \A c \in DOMAIN rows : rows[c].parent \in Tree!Ids \cup {None},
         NEW R, R = Tree!Related(relation, rows)
  PROVE  /\ DOMAIN R = DOMAIN rows
         /\ relation \in {"subcategories", "features"} =>
               \A c, d \in DOMAIN rows : c # d => R[c] \cap R[d] = {}
         /\ relation = "parentCategory" =>
               \A c \in DOMAIN rows : R[c] = {rows[c].parent} \ {None}
         /\ relation = "subcategories" =>
               \A c, d \in DOMAIN rows : d \in R[c] <=> categories[d].parent = c
<1>1. None \notin Tree!Ids
  BY DEF Tree!TreeAssumption, TreeInv, Tree!TypeOK, Tree!Ids
<1>2. CASE relation = "subcategories"
  <2>1. R = [c \in DOMAIN rows |-> {d \in Tree!Ids : categories[d].parent = c}]
    BY <1>2 DEF Tree!Related
  <2> QED
    BY <1>2, <2>1
<1>3. CASE relation = "features"
  <2>1. R = [c \in DOMAIN rows |-> {f \in DOMAIN features : features[f].category = c}]
    BY <1>3 DEF Tree!Related
  <2> QED
    BY <1>3, <2>1
<1>4. CASE relation = "parentCategory"
  <2>1. R = [c \in DOMAIN rows |-> {p \in Tree!Ids : p = rows[c].parent}]
    BY <1>4 DEF Tree!Related
  <2> QED
    BY <1>1, <1>4, <2>1
<1> QED
  BY <1>2, <1>3, <1>4 DEF Tree!Relations

LEMMA ReadListed ==
  ASSUME Tree!TreeAssumption, TreeInv, NEW k, Listed(k, categories), k.pc = "reading",
         NEW relation \in k.include,
         NEW Q, Q = [k EXCEPT !.include = k.include \ {relation},
                              !.shown = [i \in DOMAIN k.shown \cup {relation} |->
                                  IF i = relation THEN Tree!Related(relation, k.rows) ELSE k.shown[i]]]
  PROVE  Listed(Q, categories)
<1>1. PICK R : R = Tree!Related(relation, k.rows)
  OBVIOUS
<1>2. relation \in Tree!Relations
  BY DEF Listed, Typed
<1>3. /\ Q.pc = k.pc /\ Q.include = k.include \ {relation} /\ Q.rows = k.rows
      /\ Q.shown = [i \in DOMAIN k.shown \cup {relation} |-> IF i = relation THEN R ELSE k.shown[i]]
      /\ Q.overlapped = k.overlapped
      /\ Q = [pc |-> Q.pc, include |-> Q.include, rows |-> Q.rows, shown |-> Q.shown,
              overlapped |-> Q.overlapped]
  BY <1>1 DEF Listed, Typed
<1>4. /\ DOMAIN Q.shown = DOMAIN k.shown \cup {relation}
      /\ Q.shown[relation] = R
      /\ \A i \in DOMAIN k.shown \ {relation} : Q.shown[i] = k.shown[i]
  BY <1>3
<1>5. /\ DOMAIN R = DOMAIN k.rows
      /\ relation \in {"subcategories", "features"} =>
            \A c, d \in DOMAIN k.rows : c # d => R[c] \cap R[d] = {}
      /\ relation = "parentCategory" =>
            \A c \in DOMAIN k.rows : R[c] = {k.rows[c].parent} \ {None}
      /\ relation = "subcategories" =>
            \A c, d \in DOMAIN k.rows : d \in R[c] <=> categories[d].parent = c
  <2>1. DOMAIN k.rows \subseteq Tree!Ids /\ \A c \in DOMAIN k.rows : k.rows[c].parent \in Tree!Ids \cup {None}
    BY DEF Listed, Tree!Ids
  <2> QED
    BY <1>1, <1>2, <2>1, RelatedRows
<1>6. Typed(Q)
  BY <1>3, <1>4, <1>5 DEF Listed, Typed
<1>7. Paired(Q)
  BY <1>3, <1>4, <1>5 DEF Listed, Paired
<1>8. OwnParents(Q)
  BY <1>3, <1>4, <1>5 DEF Listed, OwnParents
<1>9. Agrees(Q)
  BY <1>3, <1>4, <1>5 DEF Listed, Agrees
<1> QED
  BY <1>3, <1>6, <1>7, <1>8, <1>9 DEF Listed

LEMMA AnswerListed ==
  ASSUME NEW k, NEW T, Listed(k, T)
  PROVE  Listed([k EXCEPT !.pc = "done"], T)
<1>1. PICK Q : Q = [k EXCEPT !.pc = "done"]
  OBVIOUS
<1>2. /\ Q.pc = "done" /\ Q.include = k.include /\ Q.rows = k.rows /\ Q.shown = k.shown
      /\ Q.overlapped = k.overlapped
      /\ Q = [pc |-> Q.pc, include |-> Q.include, rows |-> Q.rows, shown |-> Q.shown,
              overlapped |-> Q.overlapped]
  BY <1>1 DEF Listed, Typed
<1>3. Listed(Q, T)
  BY <1>2 DEF Listed, Typed, Paired, OwnParents, Agrees
<1> QED
  BY <1>1, <1>3

-----------------------------------------------------------------------------
(* A change reaches every listing in progress.                             *)
LEMMA OverlapList ==
  ASSUME ListInv, Tree!Ids \subseteq Tree!Ids', listings' = Tree!Overlap
  PROVE  ListInv'
<1>1. listings' = [l \in Listings |-> listings'[l]]
  BY DEF Tree!Overlap
<1>2. ASSUME NEW l \in Listings PROVE Listed(listings'[l], categories')
  <2>1. PICK k, Q : k = listings[l] /\ Q = listings'[l]
    OBVIOUS
  <2>2. Q = IF k.pc = "reading" THEN [k EXCEPT !.overlapped = TRUE] ELSE k
    BY <2>1 DEF Tree!Overlap
  <2>3. Listed(k, categories)
    BY <2>1 DEF ListInv
  <2>4. DOMAIN categories \subseteq DOMAIN categories'
    BY DEF Tree!Ids
  <2>5. Listed(Q, categories')
    BY <2>2, <2>3, <2>4, OverlapListed
  <2> QED
    BY <2>1, <2>5
<1> QED
  BY <1>1, <1>2 DEF ListInv

(* One listing moves and the tables stay.                                  *)
LEMMA MoveList ==
  ASSUME ListInv, Steady, NEW l \in Listings, NEW Q, Listed(Q, categories),
         listings' = [listings EXCEPT ![l] = Q]
  PROVE  ListInv'
<1>1. listings' = [j \in Listings |-> listings'[j]]
  BY DEF ListInv
<1>2. ASSUME NEW j \in Listings PROVE Listed(listings'[j], categories')
  <2>1. categories' = categories
    BY DEF Steady
  <2>2. listings'[j] = IF j = l THEN Q ELSE listings[j]
    BY DEF ListInv
  <2> QED
    BY <2>1, <2>2 DEF ListInv
<1> QED
  BY <1>1, <1>2 DEF ListInv

LEMMA GrownIds ==
  ASSUME TreeInv,
         \/ \E n \in TreeNames, p \in 1..MaxCategories \cup {None} :
               Tree!AddCategory(n, p) \/ \E c \in Tree!Ids : Tree!EditCategory(c, n, p)
         \/ \E n \in TreeNames, c \in Tree!Ids :
               Tree!AddFeature(n, c) \/ \E f \in DOMAIN features : Tree!EditFeature(f, n, c)
  PROVE  Tree!Ids \subseteq Tree!Ids' /\ listings' = Tree!Overlap
<1>1. ASSUME NEW row, categories' = Append(categories, row) PROVE Tree!Ids \subseteq Tree!Ids'
  BY <1>1 DEF Tree!Ids, TreeInv, Tree!TypeOK
<1>2. ASSUME NEW row, NEW c, categories' = [categories EXCEPT ![c] = row] PROVE Tree!Ids \subseteq Tree!Ids'
  BY <1>2 DEF Tree!Ids
<1>3. UNCHANGED categories => Tree!Ids \subseteq Tree!Ids'
  BY DEF Tree!Ids
<1> QED
  BY <1>1, <1>2, <1>3 DEF Tree!AddCategory, Tree!EditCategory, Tree!AddFeature, Tree!EditFeature

LEMMA InitList == Tree!Init => ListInv
  BY IdleListed DEF Tree!Init, ListInv

LEMMA NextList == ASSUME Tree!TreeAssumption, TreeInv, ListInv, [Tree!Next]_(Tree!vars) PROVE ListInv'
<1>1. ASSUME \/ \E n \in TreeNames, p \in 1..MaxCategories \cup {None} :
                  Tree!AddCategory(n, p) \/ \E c \in Tree!Ids : Tree!EditCategory(c, n, p)
             \/ \E n \in TreeNames, c \in Tree!Ids :
                  Tree!AddFeature(n, c) \/ \E f \in DOMAIN features : Tree!EditFeature(f, n, c)
      PROVE  ListInv'
  BY <1>1, GrownIds, OverlapList
<1>2. ASSUME NEW l \in Listings, NEW ids \in {Tree!Ids} \cup {{c} : c \in Tree!Ids},
             NEW include \in SUBSET Tree!Relations, Tree!List(l, ids, include)
      PROVE  ListInv'
  <2>1. PICK Q : Q = [Tree!Idle EXCEPT !.pc = "reading", !.include = include,
                                 !.rows = [c \in ids |-> categories[c]]]
    OBVIOUS
  <2>2. Listed(Q, categories)
    <3>1. ids \in SUBSET DOMAIN categories
      BY DEF Tree!Ids
    <3>2. \A c \in DOMAIN categories : categories[c].parent \in DOMAIN categories \cup {None}
      BY DEF TreeInv, ParentsExist, Tree!Ids
    <3> QED
      BY <2>1, <3>1, <3>2, StartListed
  <2>3. listings' = [listings EXCEPT ![l] = Q] /\ Steady
    BY <1>2, <2>1 DEF Tree!List, Steady
  <2> QED
    BY <2>2, <2>3, MoveList
<1>3. ASSUME NEW l \in Listings, Tree!Read(l) PROVE ListInv'
  <2>1. PICK k : k = listings[l]
    OBVIOUS
  <2>2. Listed(k, categories) /\ k.pc = "reading"
    BY <1>3, <2>1 DEF ListInv, Tree!Read
  <2>3. PICK relation \in k.include :
          LET shown == listings[l].shown
          IN listings' = [listings EXCEPT
                ![l].include = @ \ {relation},
                ![l].shown = [i \in DOMAIN shown \cup {relation} |->
                    IF i = relation THEN Tree!Related(relation, listings[l].rows) ELSE shown[i]]]
    BY <1>3, <2>1 DEF Tree!Read
  <2>4. PICK Q : Q = [k EXCEPT !.include = k.include \ {relation},
                              !.shown = [i \in DOMAIN k.shown \cup {relation} |->
                                  IF i = relation THEN Tree!Related(relation, k.rows) ELSE k.shown[i]]]
    OBVIOUS
  <2>5. Listed(Q, categories)
    BY <2>2, <2>4, ReadListed
  <2>6. listings' = [listings EXCEPT ![l] = Q]
    BY <2>1, <2>3, <2>4 DEF ListInv
  <2>7. Steady
    BY <1>3 DEF Tree!Read, Steady
  <2> QED
    BY <2>5, <2>6, <2>7, MoveList
<1>4. ASSUME NEW l \in Listings, Tree!Answer(l) PROVE ListInv'
  <2>1. PICK Q : Q = [listings[l] EXCEPT !.pc = "done"]
    OBVIOUS
  <2>2. Listed(Q, categories)
    BY <2>1, AnswerListed DEF ListInv
  <2>3. listings' = [listings EXCEPT ![l] = Q] /\ Steady
    BY <1>4, <2>1 DEF Tree!Answer, Steady, ListInv
  <2> QED
    BY <2>2, <2>3, MoveList
<1>5. CASE UNCHANGED Tree!vars
  BY <1>5 DEF Tree!vars, ListInv
<1> QED
  BY <1>1, <1>2, <1>3, <1>4, <1>5 DEF Tree!Next

LEMMA ListingsAlone == ASSUME Tree!TreeAssumption PROVE Tree!Spec => []Tree!ListingsHold
<1>1. Tree!Init => ListInv
  BY InitList
<1>2. TreeInv /\ ListInv /\ [Tree!Next]_(Tree!vars) => ListInv'
  BY NextList
<1>3. ListInv => Tree!ListingsHold
  <2> SUFFICES ASSUME ListInv PROVE Tree!ShownOnce /\ Tree!TornOnlyInOverlap
    BY DEF Tree!ListingsHold
  <2>1. Tree!ShownOnce
    BY DEF ListInv, Listed, Typed, Paired, Tree!ShownOnce, Tree!Done
  <2>2. Tree!TornOnlyInOverlap
    BY DEF ListInv, Listed, OwnParents, Agrees, Tree!TornOnlyInOverlap, Tree!Done
  <2> QED
    BY <2>1, <2>2
<1> QED
  BY <1>1, <1>2, <1>3, TreeInvariance, PTL DEF Tree!Spec

-----------------------------------------------------------------------------
(* The mails.                                                              *)

Whole(k, template) ==
    [call |-> k, template |-> template, with |-> Partials, to |-> Hardcoded]

(* With out at the provider: of call k that is at most its own mail, and   *)
(* nothing before it is posted.                                            *)
Posted(k, q, out) ==
    /\ q = [pc |-> q.pc, template |-> q.template, to |-> q.to, with |-> q.with]
    /\ q.pc = "post" => q.with = Partials
    /\ q.pc \in {"idle", "render", "post"} => \A mail \in out : mail.call # k
    /\ \A mail \in out : mail.call = k => mail = Whole(k, q.template)
    /\ q.pc = "returned" => Whole(k, q.template) \in out

(* Once a call runs every partial is registered.                           *)
MailInv ==
    /\ registered \subseteq Partials
    /\ \A k \in Sends : sends[k].pc # "idle" => Post!Listening
    /\ sends = [k \in Sends |-> sends[k]]
    /\ \A k \in Sends : Posted(k, sends[k], outbox)

LEMMA InitMail == Post!Init => MailInv
<1> SUFFICES ASSUME Post!Init PROVE MailInv
  OBVIOUS
<1>1. \A k \in Sends : Posted(k, Post!Idle, {})
  BY DEF Posted, Post!Idle
<1> QED
  BY <1>1 DEF Post!Init, MailInv, Post!Idle

(* One call moves; the outbox gains at most that call's mail.              *)
LEMMA OneMoves ==
  ASSUME MailInv, Post!Listening, registered' = registered,
         NEW k \in Sends, NEW Q, sends' = [sends EXCEPT ![k] = Q],
         outbox' \in {outbox, outbox \cup {Whole(k, sends[k].template)}},
         Posted(k, Q, outbox')
  PROVE  MailInv'
<1>1. sends' = [j \in Sends |-> sends'[j]] /\ sends'[k] = Q
      /\ \A j \in Sends \ {k} : sends'[j] = sends[j]
  BY DEF MailInv
<1>2. ASSUME NEW j \in Sends PROVE Posted(j, sends'[j], outbox')
  <2>1. CASE j = k
    BY <1>1, <2>1
  <2>2. CASE j # k
    <3>1. outbox \subseteq outbox' /\ \A mail \in outbox' : mail.call = j => mail \in outbox
      BY <2>2 DEF Whole
    <3>2. Posted(j, sends[j], outbox)
      BY DEF MailInv
    <3>3. Posted(j, sends[j], outbox')
      BY <3>1, <3>2 DEF Posted
    <3> QED
      BY <1>1, <2>2, <3>3
  <2> QED
    BY <2>1, <2>2
<1>3. Post!Listening'
  BY DEF Post!Listening
<1> QED
  BY <1>1, <1>2, <1>3 DEF MailInv

LEMMA NextMail == ASSUME MailInv, [Post!Next]_(Post!vars) PROVE MailInv'
<1>1. ASSUME NEW p \in Partials, Post!RegisterPartial(p) PROVE MailInv'
  BY <1>1 DEF Post!RegisterPartial, MailInv, Post!Listening
<1>2. ASSUME NEW k \in Sends, NEW template \in Templates, NEW to \in Addresses, Post!Send(k, template, to)
      PROVE  MailInv'
  <2>1. PICK Q : Q = [Post!Idle EXCEPT !.pc = "render", !.template = template, !.to = to]
    OBVIOUS
  <2>2. Q = [pc |-> "render", template |-> template, to |-> to, with |-> {}]
    BY <2>1 DEF Post!Idle
  <2>3. sends[k].pc = "idle" /\ Posted(k, sends[k], outbox) /\ UNCHANGED <<registered, outbox>>
    BY <1>2 DEF MailInv, Post!Send
  <2>4. Posted(k, Q, outbox')
    BY <2>2, <2>3 DEF Posted
  <2> QED
    BY <1>2, <2>1, <2>3, <2>4, OneMoves DEF Post!Send
<1>3. ASSUME NEW k \in Sends, Post!RenderTemplate(k) PROVE MailInv'
  <2>1. PICK q : q = sends[k]
    OBVIOUS
  <2>2. q.pc = "render" /\ Posted(k, q, outbox) /\ Post!Listening /\ UNCHANGED <<registered, outbox>>
    BY <1>3, <2>1 DEF MailInv, Post!RenderTemplate
  <2>3. PICK Q : /\ Q \in {[q EXCEPT !.pc = "post", !.with = registered], [q EXCEPT !.pc = "threw"]}
                 /\ sends' = [sends EXCEPT ![k] = Q]
    BY <1>3, <2>1 DEF MailInv, Post!RenderTemplate, Post!Goes
  <2>4. /\ Q = [pc |-> Q.pc, template |-> Q.template, to |-> Q.to, with |-> Q.with]
        /\ Q.template = q.template
        /\ Q.pc \in {"post", "threw"} /\ (Q.pc = "post" => Q.with = Partials)
    BY <2>2, <2>3 DEF Posted, Post!Listening
  <2>5. Posted(k, Q, outbox')
    BY <2>2, <2>4 DEF Posted
  <2> QED
    BY <2>2, <2>3, <2>5, OneMoves
<1>4. ASSUME NEW k \in Sends, Post!SendEmail(k) PROVE MailInv'
  <2>1. PICK q : q = sends[k]
    OBVIOUS
  <2>2. q.pc = "post" /\ Posted(k, q, outbox) /\ Post!Listening /\ registered' = registered
    BY <1>4, <2>1 DEF MailInv, Post!SendEmail
  <2>3. Post!Mail(k, Hardcoded) = Whole(k, q.template)
    BY <2>1, <2>2 DEF Post!Mail, Whole, Posted
  <2>4. PICK Q : /\ sends' = [sends EXCEPT ![k] = Q]
                 /\ \/ /\ outbox' = outbox \cup {Whole(k, q.template)}
                       /\ Q = [q EXCEPT !.pc = "returned"]
                    \/ /\ outbox' \in {outbox, outbox \cup {Whole(k, q.template)}}
                       /\ Q = [q EXCEPT !.pc = "threw"]
    BY <1>4, <2>1, <2>3 DEF MailInv, Post!SendEmail, Post!Goes, Post!WithError
  <2>5. /\ Q = [pc |-> Q.pc, template |-> Q.template, to |-> Q.to, with |-> Q.with]
        /\ Q.template = q.template
        /\ Q.pc \in {"returned", "threw"}
        /\ Q.pc = "returned" => outbox' = outbox \cup {Whole(k, q.template)}
    BY <2>2, <2>4 DEF Posted
  <2>6. Posted(k, Q, outbox')
    BY <2>2, <2>4, <2>5 DEF Posted
  <2> QED
    BY <2>1, <2>2, <2>4, <2>6, OneMoves
<1>5. CASE UNCHANGED Post!vars
  BY <1>5 DEF Post!vars, MailInv, Post!Listening
<1> QED
  BY <1>1, <1>2, <1>3, <1>4, <1>5 DEF Post!Next

LEMMA MailAlone == Post!Spec => []Post!ToldWhatWasSent
<1>1. Post!Init => MailInv
  BY InitMail
<1>2. MailInv /\ [Post!Next]_(Post!vars) => MailInv'
  BY NextMail
<1>3. MailInv => Post!ToldWhatWasSent
  <2> SUFFICES ASSUME MailInv, NEW k \in Sends
               PROVE  LET sent == {mail \in outbox : mail.call = k} IN
                      /\ \A m1, m2 \in sent : m1 = m2
                      /\ \A mail \in sent : mail.template = sends[k].template /\ mail.with = Partials
                      /\ sends[k].pc = "returned" => sent # {}
    BY DEF Post!ToldWhatWasSent
  <2>1. Posted(k, sends[k], outbox)
    BY DEF MailInv
  <2> QED
    BY <2>1 DEF Posted, Whole
<1> QED
  BY <1>1, <1>2, <1>3, PTL DEF Post!Spec

-----------------------------------------------------------------------------
(* A step of another part is a stutter of this one.                       *)

LEMMA TreePart == StoreSpec => Tree!Spec
<1>1. StoreInit => Tree!Init
  BY DEF StoreInit
<1>2. [StoreNext]_<<vars, tree, catalogue, pattern, post>> => [Tree!Next]_(Tree!vars)
  BY DEF StoreNext, PhotosMove, TreeMoves, SearchMoves, PatternMoves, MailMoves, tree, Tree!vars
<1> QED
  BY <1>1, <1>2, PTL DEF StoreSpec, Tree!Spec

LEMMA MailPart == StoreSpec => Post!Spec
<1>1. StoreInit => Post!Init
  BY DEF StoreInit
<1>2. [StoreNext]_<<vars, tree, catalogue, pattern, post>> => [Post!Next]_(Post!vars)
  BY DEF StoreNext, PhotosMove, TreeMoves, SearchMoves, PatternMoves, MailMoves, post, Post!vars
<1> QED
  BY <1>1, <1>2, PTL DEF StoreSpec, Post!Spec

(* Names tell categories apart whatever is added and edited, and a cycle   *)
(* of parents has a category that an edit put there or one that is its own *)
(* parent: add and edit of category.service.ts and feature.service.ts.     *)
THEOREM TreeAlwaysHolds == StoreSpec => []TreeHolds
<1>1. Tree!Spec => []Tree!TreeHolds
  BY TreeAlone, StorefrontAssumption
<1>2. Tree!TreeHolds => TreeHolds
  BY DEF TreeHolds
<1> QED
  BY <1>1, <1>2, TreePart, PTL

(* Between the statements of a listing anything may commit: no category is *)
(* shown under two parents, no feature under two categories, and rows that *)
(* disagree were changed meanwhile: getAll and getById of                  *)
(* category.service.ts.                                                    *)
THEOREM ListingsAlwaysHold == StoreSpec => []ListingsHold
<1>1. Tree!Spec => []Tree!ListingsHold
  BY ListingsAlone, StorefrontAssumption
<1>2. Tree!ListingsHold => ListingsHold
  BY DEF ListingsHold
<1> QED
  BY <1>1, <1>2, TreePart, PTL

(* A call that returns has exactly its own whole mail with the provider,   *)
(* one that throws at most that: sendEmail of mail.service.ts.             *)
THEOREM ToldWhatWasSentAlways == StoreSpec => []ToldWhatWasSent
<1>1. Post!Spec => []Post!ToldWhatWasSent
  BY MailAlone, StorefrontAssumption
<1>2. Post!ToldWhatWasSent => ToldWhatWasSent
  BY DEF ToldWhatWasSent
<1> QED
  BY <1>1, <1>2, MailPart, PTL
=============================================================================
