---------------------------- MODULE SearchProofs ----------------------------
(***************************************************************************)
(* What the search of Storefront and its patterns guarantee for any values *)
(* of its constants, whatever the other parts do.                          *)
(***************************************************************************)
EXTENDS Storefront, FiniteSetTheorems, SequenceTheorems, TLAPS

-----------------------------------------------------------------------------
(* The instance of ArticleSearch has finite sets of its own.               *)
LEMMA SameSizes ==
  ASSUME NEW S
  PROVE  /\ Find!IsFiniteSet(S) <=> IsFiniteSet(S)
         /\ Find!Cardinality(S) = Cardinality(S)
<1>1. Find!IsFiniteSet(S) <=> IsFiniteSet(S)
  BY DEF IsFiniteSet, Find!IsFiniteSet
<1>2. Find!Cardinality(S) = Cardinality(S)
  BY DEF Cardinality, Find!Cardinality
<1> QED
  BY <1>1, <1>2

(* Induction, with a set in place of a predicate.                          *)

Below == {p \in Nat \X Nat : p[1] < p[2]}

LEMMA BelowIsWellFounded == IsWellFoundedOn(Below, Nat)
<1>1. IsWellFoundedOn(OpToRel(<, Nat), Nat)
  BY NatLessThanWellFounded
<1>2. OpToRel(<, Nat) = {p \in Nat \X Nat : p[1] < p[2]}
  BY DEF OpToRel
<1> QED
  BY <1>1, <1>2 DEF Below

LEMMA Induction ==
  ASSUME NEW T, 0 \in T, \A n \in Nat : n \in T => n + 1 \in T
  PROVE  Nat \subseteq T
<1> SUFFICES ASSUME Nat \ T # {} PROVE FALSE
  OBVIOUS
<1> DEFINE U == Nat \ T
<1>1. PICK x \in U : \A y \in U : <<y, x>> \notin Below
  <2>1. U \subseteq Nat /\ U # {}
    OBVIOUS
  <2> HIDE DEF U
  <2> QED
    BY <2>1, BelowIsWellFounded, WFMin
<1>2. x \in Nat /\ x # 0 /\ x \notin T
  BY <1>1
<1>3. x - 1 \in T
  <2> SUFFICES ASSUME x - 1 \notin T PROVE FALSE
    OBVIOUS
  <2> DEFINE pair == <<x - 1, x>>
  <2>1. pair \in Nat \X Nat /\ pair[1] = x - 1 /\ pair[2] = x
    BY <1>2
  <2>2. pair[1] < pair[2]
    BY <1>2, <2>1
  <2>3. pair \in Below
    BY <2>1, <2>2 DEF Below
  <2> QED
    BY <1>1, <1>2, <2>3
<1>4. (x - 1) + 1 \in T
  BY <1>2, <1>3
<1> QED
  BY <1>2, <1>4

-----------------------------------------------------------------------------
(* The order of an ORDER BY.                                               *)

(* A catalogue: edits change the articles of Stock, and every one has a    *)
(* price from the start.                                                   *)
Catalogues ==
    {S \in [DOMAIN Stock -> Find!ArticleRows] : \A a \in DOMAIN Stock : S[a].prices # <<>>}

LEMMA LatestExists ==
  ASSUME Find!SearchAssumption, NEW h \in Seq(Find!PriceRows), h # <<>>
  PROVE  \E i \in DOMAIN h : \A j \in DOMAIN h : Find!Later(h, i, j)
<1> DEFINE T == {n \in Nat : n \in 1..Len(h) => \E i \in 1..n : \A j \in 1..n : Find!Later(h, i, j)}
<1>1. \A i \in 1..Len(h) : h[i].createdAt \in Nat
  <2>1. \A i \in 1..Len(h) : h[i] \in Find!PriceRows
    OBVIOUS
  <2>2. \A row \in Find!PriceRows : row.createdAt \in Nat
    BY DEF Find!SearchAssumption, Find!PriceRows
  <2> QED
    BY <2>1, <2>2
<1>2. 0 \in T
  OBVIOUS
<1>3. ASSUME NEW n \in Nat, n \in T PROVE n + 1 \in T
  <2> SUFFICES ASSUME n + 1 \in 1..Len(h)
               PROVE  \E i \in 1..(n + 1) : \A j \in 1..(n + 1) : Find!Later(h, i, j)
    OBVIOUS
  <2>1. CASE n = 0
    BY <1>1, <2>1 DEF Find!Later
  <2>2. CASE n # 0
    <3>1. PICK i \in 1..n : \A j \in 1..n : Find!Later(h, i, j)
      BY <1>3, <2>2
    <3>2. CASE h[i].createdAt > h[n + 1].createdAt
      <4>1. \A j \in 1..(n + 1) : Find!Later(h, i, j)
        BY <3>1, <3>2 DEF Find!Later
      <4> QED
        BY <4>1
    <3>3. CASE ~(h[i].createdAt > h[n + 1].createdAt)
      <4>1. \A j \in 1..n : h[j].createdAt \in Nat /\ h[i].createdAt \in Nat /\ h[n + 1].createdAt \in Nat
        BY <1>1
      <4>2. \A j \in 1..(n + 1) : Find!Later(h, n + 1, j)
        BY <3>1, <3>3, <4>1 DEF Find!Later
      <4> QED
        BY <4>2
    <3> QED
      BY <3>2, <3>3
  <2> QED
    BY <2>1, <2>2
<1>4. Len(h) \in T
  <2> HIDE DEF T
  <2>1. Nat \subseteq T
    BY <1>2, <1>3, Induction
  <2> QED
    BY <2>1
<1>5. DOMAIN h = 1..Len(h) /\ Len(h) \in 1..Len(h)
  <2>1. Len(h) \in Nat /\ Len(h) # 0
    OBVIOUS
  <2> QED
    BY <2>1
<1> QED
  BY <1>4, <1>5

LEMMA PriceType ==
  ASSUME Find!SearchAssumption, NEW S \in Catalogues, NEW a \in DOMAIN S
  PROVE  Find!CurrentPrice(S, a) \in Prices
<1>1. S[a].prices \in Seq(Find!PriceRows) /\ S[a].prices # <<>>
  BY DEF Catalogues, Find!ArticleRows
<1> DEFINE h == S[a].prices
           i == CHOOSE i \in DOMAIN h : \A j \in DOMAIN h : Find!Later(h, i, j)
<1>2. i \in DOMAIN h
  BY <1>1, LatestExists
<1>3. Find!CurrentPrice(S, a) = h[i].price
  BY DEF Find!CurrentPrice
<1> HIDE DEF h, i
<1>4. h \in Seq(Find!PriceRows)
  BY <1>1 DEF h
<1>5. h[i] \in Find!PriceRows
  BY <1>2, <1>4
<1> QED
  BY <1>3, <1>5 DEF Find!PriceRows

LEMMA KeyType ==
  ASSUME Find!SearchAssumption, NEW S \in Catalogues, NEW q, NEW a \in DOMAIN S
  PROVE  Find!Key(q, S, a) \in Nat /\ a \in Nat
<1>1. S[a].name \in ArticleNames
  BY DEF Catalogues, Find!ArticleRows
<1> QED
  BY <1>1, PriceType DEF Find!Key, Find!SearchAssumption, Catalogues

LEMMA BeforeIsTotal ==
  ASSUME Find!SearchAssumption, NEW S \in Catalogues, NEW q \in Find!QueryRecords
  PROVE  /\ \A a \in DOMAIN S : ~Find!Before(q, S, a, a)
         /\ \A a, b \in DOMAIN S : a # b => Find!Before(q, S, a, b) \/ Find!Before(q, S, b, a)
         /\ \A a, b, c \in DOMAIN S : Find!Before(q, S, a, b) /\ Find!Before(q, S, b, c) => Find!Before(q, S, a, c)
<1>1. q.descending \in BOOLEAN
  BY DEF Find!QueryRecords
<1>2. \A a \in DOMAIN S : Find!Key(q, S, a) \in Nat /\ a \in Nat
  BY KeyType
<1> QED
  BY <1>1, <1>2 DEF Find!Before

LEMMA FoundType ==
  ASSUME Find!SearchAssumption, NEW S \in Catalogues, NEW q
  PROVE  Find!Found(q, S) \subseteq DOMAIN S /\ IsFiniteSet(Find!Found(q, S)) /\ Cardinality(Find!Found(q, S)) \in Nat
<1>1. Find!Found(q, S) \subseteq DOMAIN S
  BY DEF Find!Found
<1>2. IsFiniteSet(DOMAIN S)
  BY SameSizes DEF Catalogues, Find!SearchAssumption
<1> QED
  BY <1>1, <1>2, FS_Subset, FS_CardinalityType

-----------------------------------------------------------------------------
(* Sorting.                                                                *)

(* Rows that come last, and then rows in order.                            *)
LEMMA LastExists ==
  ASSUME Find!SearchAssumption, NEW S \in Catalogues, NEW q \in Find!QueryRecords,
         NEW G \in SUBSET DOMAIN S, IsFiniteSet(G), G # {}
  PROVE  \E m \in G : \A b \in G \ {m} : Find!Before(q, S, b, m)
<1> DEFINE P(F) == IsFiniteSet(F) /\ F # {} => \E m \in F : \A b \in F \ {m} : Find!Before(q, S, b, m)
           T == {n \in Nat : \A F \in SUBSET DOMAIN S : Cardinality(F) = n => P(F)}
<1>1. 0 \in T
  BY FS_EmptySet
<1>2. ASSUME NEW n \in Nat, n \in T PROVE n + 1 \in T
  <2> SUFFICES ASSUME NEW F \in SUBSET DOMAIN S, Cardinality(F) = n + 1, IsFiniteSet(F), F # {}
               PROVE  \E m \in F : \A b \in F \ {m} : Find!Before(q, S, b, m)
    OBVIOUS
  <2>1. PICK x : x \in F
    OBVIOUS
  <2>2. IsFiniteSet(F \ {x}) /\ Cardinality(F \ {x}) = n
    <3>1. IsFiniteSet(F \ {x}) /\ Cardinality(F \ {x}) = Cardinality(F) - 1
      BY <2>1, FS_RemoveElement
    <3> QED
      BY <3>1
  <2>3. CASE F \ {x} = {}
    BY <2>1, <2>3
  <2>4. CASE F \ {x} # {}
    <3>1. PICK m \in F \ {x} : \A b \in (F \ {x}) \ {m} : Find!Before(q, S, b, m)
      BY <1>2, <2>2, <2>4
    <3>2. CASE Find!Before(q, S, x, m)
      <4>1. \A b \in F \ {m} : Find!Before(q, S, b, m)
        BY <3>1, <3>2
      <4> QED
        BY <3>1, <4>1
    <3>3. CASE ~Find!Before(q, S, x, m)
      <4>1. \A b \in F \ {x} : Find!Before(q, S, b, x)
        BY <2>1, <3>1, <3>3, BeforeIsTotal
      <4> QED
        BY <2>1, <4>1
    <3> QED
      BY <3>2, <3>3
  <2> QED
    BY <2>3, <2>4
<1>3. Cardinality(G) \in T
  <2> HIDE DEF T
  <2>1. Nat \subseteq T
    BY <1>1, <1>2, Induction
  <2> QED
    BY <2>1, FS_CardinalityType
<1> QED
  BY <1>3

Ordered(q, S, s) == \A i, j \in DOMAIN s : i < j => Find!Before(q, S, s[i], s[j])

LEMMA OrderedExists ==
  ASSUME Find!SearchAssumption, NEW S \in Catalogues, NEW q \in Find!QueryRecords,
         NEW G \in SUBSET DOMAIN S, IsFiniteSet(G)
  PROVE  \E s \in [1..Cardinality(G) -> G] : Ordered(q, S, s)
<1> DEFINE T == {n \in Nat : \A F \in SUBSET DOMAIN S :
                    IsFiniteSet(F) /\ Cardinality(F) = n => \E s \in [1..n -> F] : Ordered(q, S, s)}
<1>1. 0 \in T
  <2> SUFFICES ASSUME NEW F \in SUBSET DOMAIN S PROVE \E s \in [1..0 -> F] : Ordered(q, S, s)
    OBVIOUS
  <2>1. <<>> \in [1..0 -> F] /\ Ordered(q, S, <<>>)
    BY DEF Ordered
  <2> QED
    BY <2>1
<1>2. ASSUME NEW n \in Nat, n \in T PROVE n + 1 \in T
  <2> SUFFICES ASSUME NEW F \in SUBSET DOMAIN S, IsFiniteSet(F), Cardinality(F) = n + 1
               PROVE  \E s \in [1..(n + 1) -> F] : Ordered(q, S, s)
    OBVIOUS
  <2>1. F # {}
    BY FS_EmptySet
  <2>2. PICK m \in F : \A b \in F \ {m} : Find!Before(q, S, b, m)
    BY <2>1, LastExists
  <2>3. IsFiniteSet(F \ {m}) /\ Cardinality(F \ {m}) = n
    <3>1. IsFiniteSet(F \ {m}) /\ Cardinality(F \ {m}) = Cardinality(F) - 1
      BY <2>2, FS_RemoveElement
    <3> QED
      BY <3>1
  <2>4. PICK s \in [1..n -> F \ {m}] : Ordered(q, S, s)
    BY <1>2, <2>3
  <2>5. PICK t : t = [i \in 1..(n + 1) |-> IF i = n + 1 THEN m ELSE s[i]]
    OBVIOUS
  <2>6. t \in [1..(n + 1) -> F] /\ DOMAIN s = 1..n /\ t[n + 1] = m /\ \A i \in 1..n : t[i] = s[i]
    BY <2>2, <2>4, <2>5
  <2>7. ASSUME NEW i \in 1..(n + 1), NEW j \in 1..(n + 1), i < j PROVE Find!Before(q, S, t[i], t[j])
    <3>1. i \in 1..n /\ t[i] = s[i] /\ s[i] \in F \ {m}
      BY <2>4, <2>6, <2>7
    <3>2. CASE j = n + 1
      BY <2>2, <2>6, <3>1, <3>2
    <3>3. CASE j # n + 1
      BY <2>4, <2>6, <2>7, <3>1, <3>3 DEF Ordered
    <3> QED
      BY <3>2, <3>3
  <2> QED
    BY <2>6, <2>7 DEF Ordered
<1>3. Cardinality(G) \in T
  <2> HIDE DEF T
  <2>1. Nat \subseteq T
    BY <1>1, <1>2, Induction
  <2> QED
    BY <2>1, FS_CardinalityType
<1> QED
  BY <1>3

(* The rows found, in order: every one of them is there, and its place is  *)
(* its rank.                                                               *)
LEMMA SortedRows ==
  ASSUME Find!SearchAssumption, NEW S \in Catalogues, NEW q \in Find!QueryRecords,
         NEW F, F = Find!Found(q, S), NEW n, n = Cardinality(F), NEW s, s = Find!Sorted(q, S)
  PROVE  /\ n \in Nat /\ s \in [1..n -> F]
         /\ \A a \in F : \E k \in 1..n : s[k] = a
         /\ \A k \in 1..n : Find!Rank(q, S, s[k]) = k
         /\ \A j, k \in 1..n : s[j] = s[k] => j = k
<1>1. F \subseteq DOMAIN S /\ IsFiniteSet(F) /\ n \in Nat
  BY FoundType
<1>2. s \in [1..n -> F] /\ Ordered(q, S, s)
  <2>1. \E t \in [1..n -> F] : Ordered(q, S, t)
    BY <1>1, OrderedExists
  <2>2. s = CHOOSE t \in [1..n -> F] : Ordered(q, S, t)
    BY SameSizes DEF Find!Sorted, Ordered
  <2> QED
    BY <2>1, <2>2
<1>3. \A j, k \in 1..n : j < k => Find!Before(q, S, s[j], s[k])
  BY <1>2 DEF Ordered
<1>4. \A j, k \in 1..n : s[j] \in DOMAIN S /\ (s[j] = s[k] => j = k)
  <2>1. ASSUME NEW j \in 1..n, NEW k \in 1..n PROVE s[j] \in DOMAIN S /\ (s[j] = s[k] => j = k)
    <3>1. s[j] \in DOMAIN S
      BY <1>1, <1>2
    <3>2. ~Find!Before(q, S, s[j], s[j])
      BY <3>1, BeforeIsTotal
    <3>3. j = k \/ j < k \/ k < j
      BY <1>1
    <3> QED
      BY <1>3, <3>1, <3>2, <3>3
  <2> QED
    BY <2>1
<1>5. \A a \in F : \E k \in 1..n : s[k] = a
  <2>1. s \in Injection(1..n, F)
    BY <1>2, <1>4 DEF Injection, IsInjective
  <2>2. IsFiniteSet(1..n) /\ Cardinality(1..n) = n
    BY <1>1, FS_Interval
  <2>3. s \in Surjection(1..n, F)
    BY <1>1, <2>1, <2>2, FS_Injection
  <2> QED
    BY <2>3 DEF Surjection
<1>6. ASSUME NEW k \in 1..n PROVE Find!Rank(q, S, s[k]) = k
  <2> DEFINE R == {b \in F : Find!Before(q, S, b, s[k])}
  <2>1. PICK g : g = [j \in 1..(k - 1) |-> s[j]]
    OBVIOUS
  <2>2. \A j \in 1..(k - 1) : j \in 1..n /\ j < k /\ g[j] = s[j]
    BY <1>1, <2>1
  <2>3. ASSUME NEW j \in 1..(k - 1) PROVE s[j] \in R
    BY <1>2, <1>3, <2>2
  <2>4. ASSUME NEW b \in R PROVE \E j \in 1..(k - 1) : g[j] = b
    <3>1. PICK j \in 1..n : s[j] = b
      BY <1>5
    <3>2. ~(k < j) /\ j # k
      <4>1. b \in DOMAIN S /\ s[k] \in DOMAIN S
        BY <1>1, <1>4
      <4>2. ~Find!Before(q, S, s[k], b) /\ b # s[k]
        BY <4>1, BeforeIsTotal
      <4> QED
        BY <1>3, <3>1, <4>2
    <3>3. j \in 1..(k - 1)
      BY <1>1, <3>1, <3>2
    <3> QED
      BY <2>2, <3>1, <3>3
  <2>5. g \in Bijection(1..(k - 1), R)
    <3>1. g \in [1..(k - 1) -> R]
      BY <2>1, <2>3
    <3>2. g \in Injection(1..(k - 1), R)
      BY <1>4, <2>2, <3>1 DEF Injection, IsInjective
    <3>3. g \in Surjection(1..(k - 1), R)
      BY <2>4, <3>1 DEF Surjection
    <3> QED
      BY <3>2, <3>3 DEF Bijection
  <2>6. Cardinality(R) = k - 1
    <3> HIDE DEF R
    <3>1. k - 1 \in Nat
      BY <1>1
    <3> QED
      BY <2>5, <3>1, FS_CountingElements DEF ExistsBijection
  <2>7. Find!Rank(q, S, s[k]) = 1 + Cardinality(R)
    BY SameSizes DEF Find!Rank
  <2> QED
    BY <1>1, <2>6, <2>7
<1> QED
  BY <1>1, <1>2, <1>4, <1>5, <1>6

-----------------------------------------------------------------------------
(* Pages.                                                                  *)

LEMMA Times == ASSUME NEW x \in Nat, NEW y \in Nat PROVE x * y \in Nat
  OBVIOUS

LEMMA OffsetType ==
  ASSUME NEW q \in Find!QueryRecords
  PROVE  Find!Offset(q) \in Nat /\ q.size \in Nat \ {0} /\ q.page \in Nat \ {0}
<1>1. q.size \in Nat \ {0} /\ q.page \in Nat \ {0}
  BY DEF Find!QueryRecords
<1>2. q.page - 1 \in Nat
  BY <1>1
<1> QED
  BY <1>1, <1>2, Times DEF Find!Offset

LEMMA PageIndices ==
  ASSUME NEW off \in Nat, NEW size \in Nat \ {0}, NEW n \in Nat,
         NEW to, to = IF off + size < n THEN off + size ELSE n,
         NEW len, len = IF off + 1 <= to THEN to - (off + 1) + 1 ELSE 0
  PROVE  \A i \in Int : i \in 1..len <=> i \in 1..size /\ off + i <= n
  OBVIOUS

LEMMA PageRows ==
  ASSUME Find!SearchAssumption, NEW S \in Catalogues, NEW q \in Find!QueryRecords,
         NEW s, s = Find!Sorted(q, S), NEW n, n = Cardinality(Find!Found(q, S)),
         NEW ids, ids = Find!PageOf(q, S)
  PROVE  /\ \A i : i \in DOMAIN ids <=> i \in 1..q.size /\ Find!Offset(q) + i <= n
         /\ \A i \in DOMAIN ids : ids[i] = s[Find!Offset(q) + i]
<1>1. n \in Nat /\ s \in [1..n -> Find!Found(q, S)]
  BY SortedRows
<1>2. Find!Offset(q) \in Nat /\ q.size \in Nat \ {0}
  BY OffsetType
<1> DEFINE to == IF Find!Offset(q) + q.size < n THEN Find!Offset(q) + q.size ELSE n
<1>3. Len(s) = n /\ s \in Seq(Find!Found(q, S))
  BY <1>1
<1>4. ids = SubSeq(s, Find!Offset(q) + 1, to)
  BY <1>3 DEF Find!PageOf
<1>5. to \in Nat /\ to <= n
  BY <1>1, <1>2
<1>6. \A i \in (Find!Offset(q) + 1)..to : s[i] \in Find!Found(q, S)
  BY <1>1, <1>2, <1>5
<1> HIDE DEF to
<1>7. /\ ids \in Seq(Find!Found(q, S))
      /\ Len(ids) = IF Find!Offset(q) + 1 <= to THEN to - (Find!Offset(q) + 1) + 1 ELSE 0
      /\ \A i \in 1..(to - (Find!Offset(q) + 1) + 1) : ids[i] = s[Find!Offset(q) + 1 + i - 1]
  <2>1. Find!Offset(q) + 1 \in Int /\ to \in Int
    BY <1>2, <1>5
  <2> QED
    BY <1>4, <1>6, <2>1, SubSeqProperties
<1>8. DOMAIN ids = 1..Len(ids)
  BY <1>7
<1>9. \A i : i \in DOMAIN ids <=> i \in 1..q.size /\ Find!Offset(q) + i <= n
  <2>1. Len(ids) = IF Find!Offset(q) + 1 <= to THEN to - (Find!Offset(q) + 1) + 1 ELSE 0
    BY <1>7
  <2>2. to = IF Find!Offset(q) + q.size < n THEN Find!Offset(q) + q.size ELSE n
    BY DEF to
  <2>3. \A i \in Int : i \in 1..Len(ids) <=> i \in 1..q.size /\ Find!Offset(q) + i <= n
    BY <1>1, <1>2, <2>1, <2>2, PageIndices
  <2>4. \A i : (i \in 1..Len(ids) => i \in Int) /\ (i \in 1..q.size => i \in Int)
    OBVIOUS
  <2> QED
    BY <1>8, <2>3, <2>4
<1>10. ASSUME NEW i \in DOMAIN ids PROVE ids[i] = s[Find!Offset(q) + i]
  <2>1. i \in 1..(to - (Find!Offset(q) + 1) + 1) /\ Find!Offset(q) + 1 + i - 1 = Find!Offset(q) + i
    BY <1>2, <1>5, <1>7, <1>8
  <2> QED
    BY <1>7, <2>1
<1> QED
  BY <1>9, <1>10

(* The articles a page calls for.                                          *)
OnPage(q, S) == {a \in Find!Found(q, S) : Find!Rank(q, S, a) - Find!Offset(q) \in 1..q.size}

(* A page has the articles of its ranks, in their order.                   *)
LEMMA PageIsByRank ==
  ASSUME Find!SearchAssumption, NEW S \in Catalogues, NEW q \in Find!QueryRecords,
         NEW ids, ids = Find!PageOf(q, S)
  PROVE  /\ \A i \in DOMAIN ids : ids[i] \in Find!Found(q, S) /\ Find!Rank(q, S, ids[i]) = Find!Offset(q) + i
         /\ OnPage(q, S) = {ids[i] : i \in DOMAIN ids}
<1>1. PICK s, n, F : s = Find!Sorted(q, S) /\ F = Find!Found(q, S) /\ n = Cardinality(F)
  OBVIOUS
<1>2. /\ n \in Nat /\ s \in [1..n -> F]
      /\ \A a \in F : \E k \in 1..n : s[k] = a
      /\ \A k \in 1..n : Find!Rank(q, S, s[k]) = k
  BY <1>1, SortedRows
<1>3. /\ \A i : i \in DOMAIN ids <=> i \in 1..q.size /\ Find!Offset(q) + i <= n
      /\ \A i \in DOMAIN ids : ids[i] = s[Find!Offset(q) + i]
  <2>1. s = Find!Sorted(q, S) /\ n = Cardinality(Find!Found(q, S))
    BY <1>1
  <2> QED
    BY <2>1, PageRows
<1>4. Find!Offset(q) \in Nat /\ q.size \in Nat \ {0}
  BY OffsetType
<1>5. ASSUME NEW i \in DOMAIN ids
      PROVE  ids[i] \in F /\ Find!Rank(q, S, ids[i]) = Find!Offset(q) + i /\ ids[i] \in OnPage(q, S)
  <2>1. Find!Offset(q) + i \in 1..n /\ i \in 1..q.size
    BY <1>2, <1>3, <1>4
  <2>2. ids[i] \in F /\ Find!Rank(q, S, ids[i]) = Find!Offset(q) + i
    BY <1>2, <1>3, <2>1
  <2>3. (Find!Offset(q) + i) - Find!Offset(q) = i
    BY <1>4, <2>1
  <2> QED
    BY <1>1, <2>1, <2>2, <2>3 DEF OnPage
<1>6. ASSUME NEW a \in OnPage(q, S) PROVE \E i \in DOMAIN ids : ids[i] = a
  <2>1. PICK k \in 1..n : s[k] = a
    BY <1>1, <1>2 DEF OnPage
  <2>2. k - Find!Offset(q) \in 1..q.size
    BY <1>2, <2>1 DEF OnPage
  <2>3. k - Find!Offset(q) \in DOMAIN ids /\ Find!Offset(q) + (k - Find!Offset(q)) = k
    BY <1>2, <1>3, <1>4, <2>2
  <2> QED
    BY <1>3, <2>1, <2>3
<1> QED
  BY <1>1, <1>5, <1>6

Row(S, a) == [article |-> a, name |-> S[a].name, price |-> Find!CurrentPrice(S, a)]

(* Loading the articles of the page gives the shown S calls for.          *)
LEMMA PageIsAnswer ==
  ASSUME Find!SearchAssumption, NEW S \in Catalogues, NEW q \in Find!QueryRecords,
         NEW ids, ids = Find!PageOf(q, S),
         NEW shown, shown = [i \in DOMAIN ids |-> Row(S, ids[i])]
  PROVE  /\ Find!IsAnswer(q, S, shown)
         /\ {shown[i].article : i \in DOMAIN shown} = OnPage(q, S)
<1>1. /\ \A i \in DOMAIN ids : ids[i] \in Find!Found(q, S) /\ Find!Rank(q, S, ids[i]) = Find!Offset(q) + i
      /\ OnPage(q, S) = {ids[i] : i \in DOMAIN ids}
  BY PageIsByRank
<1>2. /\ DOMAIN shown = DOMAIN ids
      /\ \A i \in DOMAIN ids : /\ shown[i].article = ids[i]
                              /\ shown[i].name = S[ids[i]].name
                              /\ shown[i].price = Find!CurrentPrice(S, ids[i])
  BY DEF Row
<1>3. {shown[i].article : i \in DOMAIN shown} = OnPage(q, S)
  BY <1>1, <1>2
<1>4. \A a \in Find!Found(q, S) :
         Find!Rank(q, S, a) - (q.page - 1) * q.size \in 1..q.size => \E i \in DOMAIN shown : shown[i].article = a
  BY <1>1, <1>2 DEF OnPage, Find!Offset
<1> QED
  BY <1>1, <1>2, <1>3, <1>4 DEF Find!IsAnswer, Find!Offset

-----------------------------------------------------------------------------
(* Two pages of one catalogue.                                             *)

LEMMA TimesMonotone ==
  ASSUME NEW x \in Nat, NEW y \in Nat, NEW z \in Nat, x <= y
  PROVE  x * z <= y * z
<1>1. PICK d \in Nat : y = x + d
  <2>1. y - x \in Nat /\ y = x + (y - x)
    OBVIOUS
  <2> QED
    BY <2>1
<1>2. y * z = x * z + d * z
  BY <1>1
<1>3. d * z \in Nat /\ x * z \in Nat
  BY Times
<1> QED
  BY <1>2, <1>3

LEMMA LaterPage ==
  ASSUME NEW q \in Find!QueryRecords, NEW p \in Find!QueryRecords,
         p.size = q.size, q.page < p.page
  PROVE  Find!Offset(q) + q.size <= Find!Offset(p)
<1>1. PICK x, y, z : x = q.page /\ y = p.page - 1 /\ z = q.size
  OBVIOUS
<1>2. x \in Nat /\ x - 1 \in Nat /\ y \in Nat /\ z \in Nat /\ x <= y
  BY <1>1, OffsetType
<1>3. x * z <= y * z
  BY <1>2, TimesMonotone
<1>4. (x - 1) * z + z = x * z
  BY <1>2
<1>5. Find!Offset(q) = (x - 1) * z /\ Find!Offset(p) = y * z
  BY <1>1 DEF Find!Offset
<1> QED
  BY <1>1, <1>3, <1>4, <1>5

(* Queries that differ in the page find the same rows in the same order.   *)
LEMMA SameRanks ==
  ASSUME NEW S, NEW q, NEW p,
         \A f \in {"category", "from", "to", "keyword", "filters", "byPrice", "descending"} : p[f] = q[f]
  PROVE  Find!Found(p, S) = Find!Found(q, S) /\ \A a : Find!Rank(p, S, a) = Find!Rank(q, S, a)
<1>1. /\ p.category = q.category /\ p.from = q.from /\ p.to = q.to /\ p.keyword = q.keyword
      /\ p.filters = q.filters /\ p.byPrice = q.byPrice /\ p.descending = q.descending
  OBVIOUS
<1>2. Find!Found(p, S) = Find!Found(q, S)
  BY <1>1 DEF Find!Found
<1>3. \A a, b : Find!Before(p, S, a, b) <=> Find!Before(q, S, a, b)
  BY <1>1 DEF Find!Before, Find!Key
<1>4. ASSUME NEW a PROVE Find!Rank(p, S, a) = Find!Rank(q, S, a)
  <2>1. {b \in Find!Found(p, S) : Find!Before(p, S, b, a)} = {b \in Find!Found(q, S) : Find!Before(q, S, b, a)}
    BY <1>2, <1>3
  <2> QED
    BY <2>1 DEF Find!Rank
<1> QED
  BY <1>2, <1>4

LEMMA PagesApart ==
  ASSUME Find!SearchAssumption, NEW S \in Catalogues, NEW q \in Find!QueryRecords, NEW p \in Find!QueryRecords,
         p = [q EXCEPT !.page = p.page], q.page < p.page
  PROVE  /\ OnPage(q, S) \cap OnPage(p, S) = {}
         /\ OnPage(p, S) # {} => Cardinality(OnPage(q, S)) = q.size
<1>1. /\ p.size = q.size
      /\ Find!Found(p, S) = Find!Found(q, S) /\ \A a : Find!Rank(p, S, a) = Find!Rank(q, S, a)
  <2>1. \A f \in {"category", "from", "to", "keyword", "filters", "byPrice", "descending", "size"} :
           p[f] = q[f]
    BY DEF Find!QueryRecords
  <2> QED
    BY <2>1, SameRanks
<1>2. Find!Offset(q) \in Nat /\ Find!Offset(p) \in Nat /\ Find!Offset(q) + q.size <= Find!Offset(p) /\ q.size \in Nat \ {0}
  BY <1>1, LaterPage, OffsetType
<1>3. PICK s, n, F : s = Find!Sorted(q, S) /\ F = Find!Found(q, S) /\ n = Cardinality(F)
  OBVIOUS
<1>4. /\ n \in Nat /\ s \in [1..n -> F]
      /\ \A a \in F : \E k \in 1..n : s[k] = a
      /\ \A k \in 1..n : Find!Rank(q, S, s[k]) = k
      /\ \A j, k \in 1..n : s[j] = s[k] => j = k
  BY <1>3, SortedRows
<1>5. \A a \in F : Find!Rank(q, S, a) \in 1..n /\ s[Find!Rank(q, S, a)] = a
  BY <1>4
<1>6. OnPage(q, S) \cap OnPage(p, S) = {}
  BY <1>1, <1>2, <1>3, <1>4, <1>5 DEF OnPage
<1>7. ASSUME OnPage(p, S) # {} PROVE Cardinality(OnPage(q, S)) = q.size
  <2>1. PICK a \in F : Find!Rank(q, S, a) - Find!Offset(p) \in 1..q.size
    BY <1>1, <1>3, <1>7 DEF OnPage
  <2>2. Find!Offset(q) + q.size < n
    BY <1>2, <1>4, <1>5, <2>1
  <2>3. PICK g : g = [i \in 1..q.size |-> s[Find!Offset(q) + i]]
    OBVIOUS
  <2>4. ASSUME NEW i \in 1..q.size
        PROVE  Find!Offset(q) + i \in 1..n /\ g[i] = s[Find!Offset(q) + i] /\ g[i] \in OnPage(q, S)
    <3>1. Find!Offset(q) + i \in 1..n /\ g[i] = s[Find!Offset(q) + i]
      BY <1>2, <1>4, <2>2, <2>3
    <3>2. g[i] \in F /\ Find!Rank(q, S, g[i]) - Find!Offset(q) = i
      BY <1>2, <1>4, <3>1
    <3> QED
      BY <1>3, <3>1, <3>2 DEF OnPage
  <2>5. g \in Injection(1..q.size, OnPage(q, S))
    <3>1. g \in [1..q.size -> OnPage(q, S)]
      BY <2>3, <2>4
    <3>2. ASSUME NEW i \in 1..q.size, NEW j \in 1..q.size, g[i] = g[j] PROVE i = j
      <4>1. Find!Offset(q) + i = Find!Offset(q) + j
        BY <1>4, <2>4, <3>2
      <4> QED
        BY <1>2, <4>1
    <3> QED
      BY <3>1, <3>2 DEF Injection, IsInjective
  <2>6. ASSUME NEW b \in OnPage(q, S) PROVE \E i \in 1..q.size : g[i] = b
    <3>1. b \in F /\ Find!Rank(q, S, b) - Find!Offset(q) \in 1..q.size
      BY <1>3 DEF OnPage
    <3>2. Find!Offset(q) + (Find!Rank(q, S, b) - Find!Offset(q)) = Find!Rank(q, S, b)
      BY <1>2, <1>4, <1>5, <3>1
    <3>3. g[Find!Rank(q, S, b) - Find!Offset(q)] = b
      BY <1>5, <2>3, <3>1, <3>2
    <3> QED
      BY <3>1, <3>3
  <2>7. g \in Bijection(1..q.size, OnPage(q, S))
    BY <2>5, <2>6 DEF Bijection, Surjection, Injection
  <2> QED
    BY <1>2, <2>7, FS_CountingElements DEF ExistsBijection
<1> QED
  BY <1>6, <1>7

LEMMA FirstPage ==
  ASSUME Find!SearchAssumption, NEW S \in Catalogues, NEW q \in Find!QueryRecords,
         q.page = 1, Find!Found(q, S) # {}
  PROVE  OnPage(q, S) # {}
<1>1. PICK s, n, F : s = Find!Sorted(q, S) /\ F = Find!Found(q, S) /\ n = Cardinality(F)
  OBVIOUS
<1>2. /\ n \in Nat /\ s \in [1..n -> F]
      /\ \A a \in F : \E k \in 1..n : s[k] = a
      /\ \A k \in 1..n : Find!Rank(q, S, s[k]) = k
  BY <1>1, SortedRows
<1>3. Find!Offset(q) = 0 /\ 1 \in 1..q.size
  BY OffsetType DEF Find!Offset
<1>4. 1 \in 1..n
  BY <1>1, <1>2
<1>5. s[1] \in OnPage(q, S)
  BY <1>1, <1>2, <1>3, <1>4 DEF OnPage
<1> QED
  BY <1>5

-----------------------------------------------------------------------------
(* The searches.                                                           *)

(* What a search holds: the page of its snapshot, and then its articles    *)
(* as they were in the same snapshot.                                      *)
Searched(k) ==
    /\ k = [pc |-> k.pc, query |-> k.query, snapshot |-> k.snapshot, ids |-> k.ids,
            answer |-> k.answer, instants |-> k.instants]
    /\ k.pc \in {"idle", "select", "load", "done", "failed"}
    /\ k.pc # "idle" => k.query \in Queries
    /\ k.pc \in {"load", "done"} =>
          /\ k.snapshot \in Catalogues \cap k.instants
          /\ k.ids = Find!PageOf(k.query, k.snapshot)
    /\ k.pc = "done" => k.answer = [i \in DOMAIN k.ids |-> Row(k.snapshot, k.ids[i])]

SearchInv ==
    /\ shop \in Catalogues
    /\ searches = [r \in Searches |-> searches[r]]
    /\ \A r \in Searches :
          /\ Searched(searches[r])
          /\ Find!At(r, "select") => shop \in searches[r].instants

LEMMA InitSearch == ASSUME Find!SearchAssumption PROVE Find!Init => SearchInv
<1> SUFFICES ASSUME Find!Init PROVE SearchInv
  OBVIOUS
<1>1. Stock \in Catalogues
  BY DEF Catalogues, Find!SearchAssumption
<1>2. Searched(Find!Idle) /\ Find!Idle.pc = "idle"
  BY DEF Searched, Find!Idle
<1> QED
  BY <1>1, <1>2 DEF Find!Init, SearchInv, Find!At

LEMMA OneSearches ==
  ASSUME SearchInv, UNCHANGED shop, NEW r \in Searches, NEW Q, Searched(Q),
         searches' = [searches EXCEPT ![r] = Q],
         Q.pc = "select" => shop \in Q.instants
  PROVE  SearchInv'
<1>1. searches' = [j \in Searches |-> searches'[j]] /\ searches'[r] = Q
      /\ \A j \in Searches \ {r} : searches'[j] = searches[j]
  BY DEF SearchInv
<1>2. \A j \in Searches : /\ Searched(searches'[j])
                          /\ searches'[j].pc = "select" => shop' \in searches'[j].instants
  BY <1>1 DEF SearchInv, Find!At
<1> QED
  BY <1>1, <1>2 DEF SearchInv, Find!At

LEMMA EditedCatalogue ==
  ASSUME Find!SearchAssumption, SearchInv, NEW a \in DOMAIN shop, Find!Edit(a)
  PROVE  shop' \in Catalogues
<1>1. PICK n \in ArticleNames, c \in Categories, U \in SUBSET Tags,
           new \in {<<>>} \cup {<<row>> : row \in {p \in Find!PriceRows : p.price # Find!CurrentPrice(shop, a)}} :
        shop' = [shop EXCEPT ![a] = [name |-> n, category |-> c, tags |-> U,
                                     prices |-> @.prices \o new]]
  BY DEF Find!Edit
<1>2. shop \in [DOMAIN Stock -> Find!ArticleRows] /\ \A b \in DOMAIN Stock : shop[b].prices # <<>>
  BY DEF SearchInv, Catalogues
<1>3. PICK h : h = shop[a].prices
  OBVIOUS
<1>4. h \in Seq(Find!PriceRows) /\ h # <<>>
  BY <1>2, <1>3 DEF Find!ArticleRows
<1>5. new \in Seq(Find!PriceRows)
  <2>1. CASE new = <<>>
    BY <2>1
  <2>2. CASE new # <<>>
    <3>1. PICK row \in Find!PriceRows : new = <<row>>
      BY <2>2
    <3> QED
      BY <3>1
  <2> QED
    BY <2>1, <2>2
<1>6. h \o new \in Seq(Find!PriceRows) /\ h \o new # <<>>
  BY <1>4, <1>5
<1>7. PICK row : row = [name |-> n, category |-> c, tags |-> U, prices |-> h \o new]
  OBVIOUS
<1>8. row \in Find!ArticleRows /\ row.prices # <<>>
  BY <1>6, <1>7 DEF Find!ArticleRows
<1>9. shop' = [shop EXCEPT ![a] = row]
  BY <1>1, <1>3, <1>7
<1>10. shop' \in [DOMAIN Stock -> Find!ArticleRows]
  BY <1>2, <1>8, <1>9
<1>11. \A b \in DOMAIN Stock : shop'[b].prices # <<>>
  BY <1>2, <1>8, <1>9
<1> QED
  BY <1>10, <1>11 DEF Catalogues

LEMMA NextSearch == ASSUME Find!SearchAssumption, SearchInv, [Find!Next]_(Find!vars) PROVE SearchInv'
<1>1. ASSUME NEW r \in Searches, NEW q \in Queries, Find!Search(r, q) PROVE SearchInv'
  <2>1. PICK Q : Q = [Find!Idle EXCEPT !.pc = "select", !.query = q, !.instants = {shop}]
    OBVIOUS
  <2>2. Q = [pc |-> "select", query |-> q, snapshot |-> None, ids |-> <<>>, answer |-> <<>>,
             instants |-> {shop}]
    BY <2>1 DEF Find!Idle
  <2>3. Searched(Q) /\ shop \in Q.instants
    BY <2>2 DEF Searched
  <2> QED
    BY <1>1, <2>1, <2>3, OneSearches DEF Find!Search
<1>2. ASSUME NEW r \in Searches, Find!SelectIds(r) PROVE SearchInv'
  <2>1. PICK k : k = searches[r]
    OBVIOUS
  <2>2. Searched(k) /\ k.pc = "select" /\ shop \in k.instants /\ shop \in Catalogues
    BY <1>2, <2>1 DEF SearchInv, Find!SelectIds, Find!At
  <2>3. PICK Q : Q = IF Find!Throws(k.query) THEN [k EXCEPT !.pc = "failed"]
                     ELSE [k EXCEPT !.pc = "load", !.snapshot = shop, !.ids = Find!PageOf(k.query, shop)]
    OBVIOUS
  <2>4. searches' = [searches EXCEPT ![r] = Q] /\ UNCHANGED shop
    BY <1>2, <2>1, <2>3 DEF Find!SelectIds, SearchInv
  <2>5. Searched(Q) /\ Q.pc # "select"
    BY <2>2, <2>3 DEF Searched
  <2> QED
    BY <2>4, <2>5, OneSearches
<1>3. ASSUME NEW r \in Searches, Find!LoadArticles(r) PROVE SearchInv'
  <2>1. PICK k : k = searches[r]
    OBVIOUS
  <2>2. Searched(k) /\ k.pc = "load"
    BY <1>3, <2>1 DEF SearchInv, Find!LoadArticles, Find!At
  <2>3. PICK Q : Q = [k EXCEPT !.pc = "done",
                              !.answer = [i \in DOMAIN k.ids |-> Row(k.snapshot, k.ids[i])]]
    OBVIOUS
  <2>4. searches' = [searches EXCEPT ![r] = Q] /\ UNCHANGED shop
    BY <1>3, <2>1, <2>3 DEF Find!LoadArticles, Find!Sees, Row, SearchInv
  <2>5. Searched(Q) /\ Q.pc # "select"
    BY <2>2, <2>3 DEF Searched
  <2> QED
    BY <2>4, <2>5, OneSearches
<1>4. ASSUME NEW a \in DOMAIN shop, Find!Edit(a) PROVE SearchInv'
  <2>1. shop' \in Catalogues
    BY <1>4, EditedCatalogue
  <2>2. /\ searches' = [r \in Searches |-> searches'[r]]
        /\ \A r \in Searches : searches'[r] =
             IF Find!At(r, "select") \/ Find!At(r, "load")
             THEN [searches[r] EXCEPT !.instants = @ \cup {shop'}] ELSE searches[r]
    BY <1>4 DEF Find!Edit
  <2>3. ASSUME NEW r \in Searches
        PROVE  /\ Searched(searches'[r])
               /\ searches'[r].pc = "select" => shop' \in searches'[r].instants
    <3>1. PICK k, Q, S : k = searches[r] /\ Q = searches'[r] /\ S = shop'
      OBVIOUS
    <3>2. Searched(k) /\ Q = IF k.pc \in {"select", "load"}
                             THEN [k EXCEPT !.instants = k.instants \cup {S}] ELSE k
      BY <2>2, <3>1 DEF SearchInv, Find!At
    <3>3. Searched(Q) /\ (Q.pc = "select" => S \in Q.instants)
      BY <3>2 DEF Searched
    <3> QED
      BY <3>1, <3>3
  <2> QED
    BY <2>1, <2>2, <2>3 DEF SearchInv, Find!At
<1>5. CASE UNCHANGED Find!vars
  BY <1>5 DEF Find!vars, SearchInv, Find!At
<1> QED
  BY <1>1, <1>2, <1>3, <1>4, <1>5 DEF Find!Next

LEMMA SearchInvariance == ASSUME Find!SearchAssumption PROVE Find!Spec => []SearchInv
<1>1. Find!Init => SearchInv
  BY InitSearch
<1>2. SearchInv /\ [Find!Next]_(Find!vars) => SearchInv'
  BY NextSearch
<1> QED
  BY <1>1, <1>2, PTL DEF Find!Spec

LEMMA DoneSearch ==
  ASSUME Find!SearchAssumption, SearchInv, NEW r \in Searches, Find!At(r, "done")
  PROVE  /\ searches[r].query \in Find!QueryRecords
         /\ searches[r].snapshot \in Catalogues \cap searches[r].instants
         /\ Find!IsAnswer(searches[r].query, searches[r].snapshot, searches[r].answer)
         /\ Find!Shown(r) = OnPage(searches[r].query, searches[r].snapshot)
<1>1. PICK k : k = searches[r]
  OBVIOUS
<1>2. /\ k.query \in Find!QueryRecords
      /\ k.snapshot \in Catalogues \cap k.instants
      /\ k.ids = Find!PageOf(k.query, k.snapshot)
      /\ k.answer = [i \in DOMAIN k.ids |-> Row(k.snapshot, k.ids[i])]
  BY <1>1 DEF SearchInv, Searched, Find!At, Find!SearchAssumption
<1>3. /\ Find!IsAnswer(k.query, k.snapshot, k.answer)
      /\ {k.answer[i].article : i \in DOMAIN k.answer} = OnPage(k.query, k.snapshot)
  BY <1>2, PageIsAnswer
<1> QED
  BY <1>1, <1>2, <1>3 DEF Find!Shown

LEMMA AnswerAlone ==
  ASSUME Find!SearchAssumption PROVE Find!Spec => []Find!AnswerIsOneInstant
<1>1. SearchInv => Find!AnswerIsOneInstant
  BY DoneSearch DEF Find!AnswerIsOneInstant
<1> QED
  BY <1>1, SearchInvariance, PTL

LEMMA PagesAlone ==
  ASSUME Find!SearchAssumption PROVE Find!Spec => []Find!PagesPartition
<1>1. SearchInv => Find!PagesPartition
  <2> SUFFICES ASSUME SearchInv, NEW r \in Searches, NEW s \in Searches,
                      Find!At(r, "done"), Find!At(s, "done"),
                      searches[r].snapshot = searches[s].snapshot,
                      searches[s].query = [searches[r].query EXCEPT !.page = searches[s].query.page]
               PROVE  /\ searches[r].query.page < searches[s].query.page =>
                            /\ Find!Shown(r) \cap Find!Shown(s) = {}
                            /\ Find!Shown(s) # {} => Cardinality(Find!Shown(r)) = searches[r].query.size
                      /\ searches[r].query.page = 1 /\ Find!Found(searches[r].query, searches[r].snapshot) # {}
                            => Find!Shown(r) # {}
    BY SameSizes DEF Find!PagesPartition
  <2>1. PICK q, p, S : q = searches[r].query /\ p = searches[s].query /\ S = searches[r].snapshot
    OBVIOUS
  <2>2. /\ q \in Find!QueryRecords /\ p \in Find!QueryRecords /\ S \in Catalogues
        /\ Find!Shown(r) = OnPage(q, S) /\ Find!Shown(s) = OnPage(p, S)
    BY <2>1, DoneSearch
  <2>3. p = [q EXCEPT !.page = p.page]
    BY <2>1
  <2>4. q.page < p.page => /\ OnPage(q, S) \cap OnPage(p, S) = {}
                           /\ OnPage(p, S) # {} => Cardinality(OnPage(q, S)) = q.size
    BY <2>2, <2>3, PagesApart
  <2>5. q.page = 1 /\ Find!Found(q, S) # {} => OnPage(q, S) # {}
    BY <2>2, FirstPage
  <2> QED
    BY <2>1, <2>2, <2>4, <2>5
<1> QED
  BY <1>1, SearchInvariance, PTL

-----------------------------------------------------------------------------
(* The escaped keyword.                                                    *)

Chunk(c, special) == IF c \in special THEN <<"\\", c>> ELSE <<c>>

(* f is what Replace defines by recursion, for the first m characters.     *)
Replaces(f, s, special, m) ==
    f = [n \in 0..m |-> IF n = 0 THEN <<>> ELSE f[n - 1] \o Chunk(s[n], special)]

LEMMA ReplacesExists ==
  ASSUME NEW s, NEW special, NEW N \in Nat
  PROVE  \E f : Replaces(f, s, special, N)
<1> DEFINE T == {m \in Nat : \E f : Replaces(f, s, special, m)}
<1>1. 0 \in T
  <2>1. PICK f : f = [n \in 0..0 |-> <<>>]
    OBVIOUS
  <2>2. Replaces(f, s, special, 0)
    BY <2>1 DEF Replaces
  <2> QED
    BY <2>2
<1>2. ASSUME NEW m \in Nat, m \in T PROVE m + 1 \in T
  <2>1. PICK f : Replaces(f, s, special, m)
    BY <1>2
  <2>2. PICK g : g = [n \in 0..(m + 1) |-> IF n = m + 1 THEN f[m] \o Chunk(s[m + 1], special) ELSE f[n]]
    OBVIOUS
  <2>3. DOMAIN g = 0..(m + 1) /\ g[m + 1] = f[m] \o Chunk(s[m + 1], special)
        /\ \A n \in 0..m : g[n] = f[n]
    BY <2>2
  <2>4. ASSUME NEW n \in 0..(m + 1)
        PROVE  g[n] = IF n = 0 THEN <<>> ELSE g[n - 1] \o Chunk(s[n], special)
    <3>1. CASE n = m + 1
      <4>1. n # 0 /\ n - 1 = m /\ g[m] = f[m]
        BY <2>3, <3>1
      <4> QED
        BY <2>3, <3>1, <4>1
    <3>2. CASE n # m + 1
      <4>1. n \in 0..m /\ (n # 0 => n - 1 \in 0..m)
        BY <3>2
      <4>2. f[n] = IF n = 0 THEN <<>> ELSE f[n - 1] \o Chunk(s[n], special)
        BY <2>1, <4>1 DEF Replaces
      <4> QED
        BY <2>3, <4>1, <4>2
    <3> QED
      BY <3>1, <3>2
  <2>5. g = [n \in 0..(m + 1) |-> g[n]]
    BY <2>2
  <2>6. Replaces(g, s, special, m + 1)
    BY <2>4, <2>5 DEF Replaces
  <2> QED
    BY <2>6
<1>3. N \in T
  <2> HIDE DEF T
  <2> QED
    BY <1>1, <1>2, Induction
<1> QED
  BY <1>3

(* Replace is the last value of that function.                             *)
LEMMA ReplaceIsLast ==
  ASSUME NEW s, Len(s) \in Nat, NEW special
  PROVE  \E f : Replaces(f, s, special, Len(s)) /\ Like!Replace(s, special) = f[Len(s)]
<1> DEFINE done == CHOOSE f : Replaces(f, s, special, Len(s))
<1>1. Replaces(done, s, special, Len(s))
  BY ReplacesExists
<1>2. Like!Replace(s, special) = done[Len(s)]
  BY DEF Like!Replace, Replaces, Chunk
<1> QED
  BY <1>1, <1>2

(* How long the escaped text is after n characters, and what it is there.  *)
LEMMA Escaped ==
  ASSUME NEW C, "\\" \in C, NEW s \in Seq(C), NEW special, NEW f, Replaces(f, s, special, Len(s))
  PROVE  /\ f[0] = <<>>
         /\ \A n \in 0..Len(s) : f[n] \in Seq(C)
         /\ \A n \in 1..Len(s) : f[n] = f[n - 1] \o Chunk(s[n], special)
         /\ \A n \in 1..Len(s) : Chunk(s[n], special) \in Seq(C)
<1> DEFINE T == {m \in Nat : m <= Len(s) => f[m] \in Seq(C)}
<1>1. Len(s) \in Nat /\ \A n \in 1..Len(s) : Chunk(s[n], special) \in Seq(C)
  <2>1. \A c \in C : <<"\\", c>> \in Seq(C) /\ <<c>> \in Seq(C)
    OBVIOUS
  <2>2. \A n \in 1..Len(s) : s[n] \in C
    OBVIOUS
  <2> QED
    BY <2>1, <2>2 DEF Chunk
<1>2. f[0] = <<>> /\ \A n \in 1..Len(s) : f[n] = f[n - 1] \o Chunk(s[n], special)
  <2>1. \A n \in 0..Len(s) : f[n] = IF n = 0 THEN <<>> ELSE f[n - 1] \o Chunk(s[n], special)
    BY DEF Replaces
  <2>2. 0 \in 0..Len(s) /\ \A n \in 1..Len(s) : n \in 0..Len(s) /\ n # 0
    BY <1>1
  <2> QED
    BY <2>1, <2>2
<1>3. 0 \in T
  <2>1. <<>> \in Seq(C)
    OBVIOUS
  <2> QED
    BY <1>2, <2>1
<1>4. ASSUME NEW m \in Nat, m \in T PROVE m + 1 \in T
  <2> SUFFICES ASSUME m + 1 <= Len(s) PROVE f[m + 1] \in Seq(C)
    OBVIOUS
  <2>1. f[m] \in Seq(C) /\ m + 1 \in 1..Len(s)
    BY <1>1, <1>4
  <2>2. f[m + 1] = f[m] \o Chunk(s[m + 1], special) /\ Chunk(s[m + 1], special) \in Seq(C)
    <3>1. (m + 1) - 1 = m
      OBVIOUS
    <3> QED
      BY <1>1, <1>2, <2>1, <3>1
  <2> QED
    BY <2>1, <2>2
<1>5. \A n \in 0..Len(s) : f[n] \in Seq(C)
  <2> HIDE DEF T
  <2>1. Nat \subseteq T
    BY <1>3, <1>4, Induction
  <2> QED
    BY <1>1, <2>1 DEF T
<1> QED
  BY <1>1, <1>2, <1>5

(* The escaped text begins with that of its first n characters.            *)
LEMMA Begins ==
  ASSUME NEW C, "\\" \in C, NEW s \in Seq(C), NEW special, NEW f, Replaces(f, s, special, Len(s)),
         NEW n \in 0..Len(s)
  PROVE  /\ Len(f[n]) <= Len(f[Len(s)])
         /\ \A k \in 1..Len(f[n]) : f[Len(s)][k] = f[n][k]
<1> DEFINE P(m) == Len(f[n]) <= Len(f[m]) /\ \A k \in 1..Len(f[n]) : f[m][k] = f[n][k]
           T == {d \in Nat : n + d <= Len(s) => P(n + d)}
<1>1. 0 \in T
  <2>1. f[n] \in Seq(C)
    BY Escaped
  <2> QED
    BY <2>1
<1>2. ASSUME NEW d \in Nat, d \in T PROVE d + 1 \in T
  <2> SUFFICES ASSUME n + (d + 1) <= Len(s) PROVE P(n + (d + 1))
    OBVIOUS
  <2>1. PICK m, c : m = n + d /\ c = Chunk(s[m + 1], special)
    OBVIOUS
  <2>2. m \in 0..Len(s) /\ m + 1 \in 1..Len(s) /\ n + (d + 1) = m + 1 /\ (m + 1) - 1 = m
    BY <2>1
  <2>3. P(m)
    BY <1>2, <2>1, <2>2
  <2>4. f[m + 1] = f[m] \o c
    <3>1. \A i \in 1..Len(s) : f[i] = f[i - 1] \o Chunk(s[i], special)
      BY Escaped
    <3>2. f[m + 1] = f[(m + 1) - 1] \o Chunk(s[m + 1], special)
      BY <2>2, <3>1
    <3> QED
      BY <2>1, <2>2, <3>2
  <2>5. f[m] \in Seq(C) /\ c \in Seq(C) /\ f[n] \in Seq(C)
    <3>1. /\ \A i \in 0..Len(s) : f[i] \in Seq(C)
          /\ \A i \in 1..Len(s) : Chunk(s[i], special) \in Seq(C)
      BY Escaped
    <3> QED
      BY <2>1, <2>2, <3>1
  <2>6. Len(f[m]) <= Len(f[m + 1]) /\ \A k \in 1..Len(f[m]) : f[m + 1][k] = f[m][k]
    BY <2>4, <2>5
  <2>7. P(m + 1)
    BY <2>3, <2>5, <2>6
  <2> QED
    BY <2>2, <2>7
<1>3. Len(s) - n \in T
  <2> HIDE DEF T
  <2>1. Nat \subseteq T
    BY <1>1, <1>2, Induction
  <2> QED
    BY <2>1
<1>4. n + (Len(s) - n) = Len(s)
  OBVIOUS
<1> QED
  BY <1>3, <1>4

(* The place of character n + 1 in the escaped text.                       *)
LEMMA EscapedAt ==
  ASSUME NEW C, "\\" \in C, NEW s \in Seq(C), NEW special, NEW f, Replaces(f, s, special, Len(s)),
         NEW n \in Nat, n < Len(s), NEW e, e = f[Len(s)], NEW j, j = Len(f[n])
  PROVE  /\ j \in Nat /\ e \in Seq(C)
         /\ s[n + 1] \in special => /\ e[j + 1] = "\\" /\ e[j + 2] = s[n + 1]
                                    /\ Len(f[n + 1]) = j + 2 /\ j + 2 <= Len(e)
         /\ s[n + 1] \notin special => /\ e[j + 1] = s[n + 1]
                                       /\ Len(f[n + 1]) = j + 1 /\ j + 1 <= Len(e)
<1>1. n \in 0..Len(s) /\ n + 1 \in 1..Len(s) /\ n + 1 \in 0..Len(s) /\ (n + 1) - 1 = n
  OBVIOUS
<1>2. f[n + 1] = f[n] \o Chunk(s[n + 1], special)
  <2>1. \A i \in 1..Len(s) : f[i] = f[i - 1] \o Chunk(s[i], special)
    BY Escaped
  <2>2. f[n + 1] = f[(n + 1) - 1] \o Chunk(s[n + 1], special)
    BY <1>1, <2>1
  <2> QED
    BY <1>1, <2>2
<1>3. f[n] \in Seq(C) /\ s[n + 1] \in C /\ e \in Seq(C)
  <2>1. \A i \in 0..Len(s) : f[i] \in Seq(C)
    BY Escaped
  <2>2. Len(s) \in 0..Len(s)
    BY <1>1
  <2> QED
    BY <1>1, <2>1, <2>2
<1>4. Len(f[n + 1]) <= Len(e) /\ \A k \in 1..Len(f[n + 1]) : e[k] = f[n + 1][k]
  BY <1>1, Begins
<1>5. CASE s[n + 1] \in special
  <2>1. f[n + 1] = f[n] \o <<"\\", s[n + 1]>>
    BY <1>2, <1>5 DEF Chunk
  <2>2. Len(f[n + 1]) = j + 2 /\ f[n + 1][j + 1] = "\\" /\ f[n + 1][j + 2] = s[n + 1]
    BY <1>3, <2>1
  <2>3. j \in Nat /\ j + 1 \in 1..Len(f[n + 1]) /\ j + 2 \in 1..Len(f[n + 1])
    BY <1>3, <2>2
  <2> QED
    BY <1>3, <1>4, <1>5, <2>2, <2>3
<1>6. CASE s[n + 1] \notin special
  <2>1. f[n + 1] = f[n] \o <<s[n + 1]>>
    BY <1>2, <1>6 DEF Chunk
  <2>2. Len(f[n + 1]) = j + 1 /\ f[n + 1][j + 1] = s[n + 1]
    BY <1>3, <2>1
  <2>3. j \in Nat /\ j + 1 \in 1..Len(f[n + 1])
    BY <1>3, <2>2
  <2>4. e[j + 1] = s[n + 1] /\ j + 1 <= Len(e)
    BY <1>4, <2>2, <2>3
  <2> QED
    BY <1>3, <1>6, <2>2, <2>3, <2>4
<1> QED
  BY <1>5, <1>6

-----------------------------------------------------------------------------
(* The matching.                                                           *)

(* What Ilike's function is at j, by its values f further on.              *)
Matches(t, p, f, j) ==
    IF j > Len(p) THEN {Len(t) + 1}
    ELSE LET next == f[j + 1] IN
         CASE p[j] = "%" -> {i \in 1..(Len(t) + 1) : \E k \in next : i <= k}
           [] p[j] = "_" -> {i \in 1..Len(t) : i + 1 \in next}
           [] p[j] = "\\" /\ j < Len(p) -> Like!Literal(t, p[j + 1], f[j + 2])
           [] OTHER -> Like!Literal(t, p[j], next)

LEMMA MatchesAhead ==
  ASSUME NEW t, NEW p, NEW f, NEW g, NEW j,
         j <= Len(p) => g[j + 1] = f[j + 1],
         j < Len(p) => g[j + 2] = f[j + 2], Len(p) \in Nat, j \in Nat
  PROVE  Matches(t, p, g, j) = Matches(t, p, f, j)
<1>1. CASE j > Len(p)
  BY <1>1 DEF Matches
<1>2. CASE j <= Len(p)
  BY <1>2 DEF Matches
<1> QED
  BY <1>1, <1>2

LEMMA MatchesExists ==
  ASSUME NEW t, NEW p, Len(p) \in Nat
  PROVE  \E f : f = [j \in 1..(Len(p) + 1) |-> Matches(t, p, f, j)]
<1> DEFINE From(m) == (Len(p) + 1 - m)..(Len(p) + 1)
           T == {m \in Nat : m <= Len(p) => \E f : f = [j \in From(m) |-> Matches(t, p, f, j)]}
<1>1. 0 \in T
  <2>1. PICK f : f = [j \in From(0) |-> {Len(t) + 1}]
    OBVIOUS
  <2>2. \A j \in From(0) : Matches(t, p, f, j) = {Len(t) + 1}
    <3>1. \A j \in From(0) : j > Len(p)
      OBVIOUS
    <3> HIDE DEF From
    <3> QED
      BY <3>1 DEF Matches
  <2>3. f = [j \in From(0) |-> Matches(t, p, f, j)]
    BY <2>1, <2>2
  <2> QED
    BY <2>3
<1>2. ASSUME NEW m \in Nat, m \in T PROVE m + 1 \in T
  <2> SUFFICES ASSUME m + 1 <= Len(p) PROVE \E g : g = [j \in From(m + 1) |-> Matches(t, p, g, j)]
    OBVIOUS
  <2>1. PICK f : f = [j \in From(m) |-> Matches(t, p, f, j)]
    BY <1>2
  <2>2. PICK k : k = Len(p) - m
    OBVIOUS
  <2>3. /\ k \in 1..Len(p)
        /\ From(m) = (k + 1)..(Len(p) + 1)
        /\ From(m + 1) = k..(Len(p) + 1)
    BY <2>2
  <2> HIDE DEF From
  <2>4. PICK g : g = [j \in From(m + 1) |-> IF j = k THEN Matches(t, p, f, k) ELSE f[j]]
    OBVIOUS
  <2>5. \A j \in (k + 1)..(Len(p) + 1) : g[j] = f[j]
    BY <2>3, <2>4
  <2>6. ASSUME NEW j \in From(m + 1) PROVE g[j] = Matches(t, p, g, j)
    <3>1. j \in Nat /\ k <= j /\ j <= Len(p) + 1
      BY <2>3
    <3>2. (j <= Len(p) => g[j + 1] = f[j + 1]) /\ (j < Len(p) => g[j + 2] = f[j + 2])
      BY <2>3, <2>5, <3>1
    <3>3. Matches(t, p, g, j) = Matches(t, p, f, j)
      BY <3>1, <3>2, MatchesAhead
    <3>4. CASE j = k
      BY <2>4, <3>3, <3>4
    <3>5. CASE j # k
      <4>1. j \in From(m) /\ g[j] = f[j]
        BY <2>3, <2>5, <3>1, <3>5
      <4> QED
        BY <2>1, <3>3, <4>1
    <3> QED
      BY <3>4, <3>5
  <2>7. g = [j \in From(m + 1) |-> g[j]]
    BY <2>4
  <2>8. g = [j \in From(m + 1) |-> Matches(t, p, g, j)]
    BY <2>6, <2>7
  <2> QED
    BY <2>8
<1>3. Len(p) \in T
  <2> HIDE DEF T
  <2> QED
    BY <1>1, <1>2, Induction
<1>4. From(Len(p)) = 1..(Len(p) + 1)
  OBVIOUS
<1>5. \E f : f = [j \in From(Len(p)) |-> Matches(t, p, f, j)]
  BY <1>3
<1> HIDE DEF From
<1> QED
  BY <1>4, <1>5

LEMMA IlikeIsFirst ==
  ASSUME NEW t, NEW p, Len(p) \in Nat
  PROVE  \E f : f = [j \in 1..(Len(p) + 1) |-> Matches(t, p, f, j)] /\ (Like!Ilike(t, p) <=> 1 \in f[1])
<1> DEFINE from == CHOOSE f : f = [j \in 1..(Len(p) + 1) |-> Matches(t, p, f, j)]
<1>1. from = [j \in 1..(Len(p) + 1) |-> Matches(t, p, from, j)]
  BY MatchesExists
<1>2. Like!Ilike(t, p) <=> 1 \in from[1]
  BY DEF Like!Ilike, Matches
<1> QED
  BY <1>1, <1>2

(* Where the text goes on with what follows the first n characters of w.   *)
Fits(t, w, n) ==
    {i \in 1..(Len(t) + 1) :
        /\ i + (Len(w) - n) <= Len(t) + 1
        /\ \A m \in 1..(Len(w) - n) : Like!Fold(t[i + m - 1]) = Like!Fold(w[n + m])}

LEMMA FitsStep ==
  ASSUME NEW t, Len(t) \in Nat, NEW w, Len(w) \in Nat, NEW n \in Nat, n < Len(w)
  PROVE  Like!Literal(t, w[n + 1], Fits(t, w, n + 1)) = Fits(t, w, n)
<1>1. ASSUME NEW i \in Like!Literal(t, w[n + 1], Fits(t, w, n + 1)) PROVE i \in Fits(t, w, n)
  <2>1. /\ i \in 1..Len(t) /\ Like!Fold(t[i]) = Like!Fold(w[n + 1])
        /\ (i + 1) + (Len(w) - (n + 1)) <= Len(t) + 1
        /\ \A m \in 1..(Len(w) - (n + 1)) : Like!Fold(t[(i + 1) + m - 1]) = Like!Fold(w[(n + 1) + m])
    BY DEF Like!Literal, Fits
  <2>2. ASSUME NEW m \in 1..(Len(w) - n) PROVE Like!Fold(t[i + m - 1]) = Like!Fold(w[n + m])
    <3>1. CASE m = 1
      <4>1. i + m - 1 = i /\ n + m = n + 1
        BY <2>1, <3>1
      <4> QED
        BY <2>1, <4>1
    <3>2. CASE m # 1
      <4>1. /\ m - 1 \in 1..(Len(w) - (n + 1))
            /\ (i + 1) + (m - 1) - 1 = i + m - 1 /\ (n + 1) + (m - 1) = n + m
        BY <2>1, <3>2
      <4>2. Like!Fold(t[(i + 1) + (m - 1) - 1]) = Like!Fold(w[(n + 1) + (m - 1)])
        BY <2>1, <4>1
      <4> QED
        BY <4>1, <4>2
    <3> QED
      BY <3>1, <3>2
  <2>3. i \in 1..(Len(t) + 1) /\ i + (Len(w) - n) <= Len(t) + 1
    BY <2>1
  <2> QED
    BY <2>2, <2>3 DEF Fits
<1>2. ASSUME NEW i \in Fits(t, w, n) PROVE i \in Like!Literal(t, w[n + 1], Fits(t, w, n + 1))
  <2>1. /\ i \in 1..(Len(t) + 1) /\ i + (Len(w) - n) <= Len(t) + 1
        /\ \A m \in 1..(Len(w) - n) : Like!Fold(t[i + m - 1]) = Like!Fold(w[n + m])
    BY DEF Fits
  <2>2. i \in 1..Len(t) /\ i + 1 \in 1..(Len(t) + 1) /\ (i + 1) + (Len(w) - (n + 1)) <= Len(t) + 1
    BY <2>1
  <2>3. Like!Fold(t[i]) = Like!Fold(w[n + 1])
    <3>1. 1 \in 1..(Len(w) - n) /\ i + 1 - 1 = i
      BY <2>2
    <3>2. Like!Fold(t[i + 1 - 1]) = Like!Fold(w[n + 1])
      BY <2>1, <3>1
    <3> QED
      BY <3>1, <3>2
  <2>4. ASSUME NEW m \in 1..(Len(w) - (n + 1))
        PROVE  Like!Fold(t[(i + 1) + m - 1]) = Like!Fold(w[(n + 1) + m])
    <3>1. /\ m + 1 \in 1..(Len(w) - n)
          /\ i + (m + 1) - 1 = (i + 1) + m - 1 /\ n + (m + 1) = (n + 1) + m
      BY <2>2
    <3>2. Like!Fold(t[i + (m + 1) - 1]) = Like!Fold(w[n + (m + 1)])
      BY <2>1, <3>1
    <3> QED
      BY <3>1, <3>2
  <2>5. i + 1 \in Fits(t, w, n + 1)
    BY <2>2, <2>4 DEF Fits
  <2> QED
    BY <2>2, <2>3, <2>5 DEF Like!Literal
<1> QED
  BY <1>1, <1>2

LEMMA FitsAll ==
  ASSUME NEW C, NEW t \in Seq(C), NEW w \in Seq(C)
  PROVE  /\ Fits(t, w, Len(w)) = 1..(Len(t) + 1)
         /\ (\E i \in Fits(t, w, 0) : 1 <= i) <=> Like!Appears(t, w)
<1>1. Fits(t, w, Len(w)) = 1..(Len(t) + 1)
  BY DEF Fits
<1>2. ASSUME NEW i \in Fits(t, w, 0) PROVE Like!Appears(t, w)
  <2>1. /\ i \in 1..(Len(t) + 1) /\ i + Len(w) <= Len(t) + 1
        /\ \A m \in 1..Len(w) : Like!Fold(t[i + m - 1]) = Like!Fold(w[m])
    BY DEF Fits
  <2>2. /\ i - 1 \in 0..Len(t) /\ (i - 1) + Len(w) <= Len(t)
        /\ \A m \in 1..Len(w) : i + m - 1 = (i - 1) + m
    BY <2>1
  <2>3. ASSUME NEW m \in DOMAIN w PROVE Like!Fold(t[(i - 1) + m]) = Like!Fold(w[m])
    <3>1. m \in 1..Len(w) /\ i + m - 1 = (i - 1) + m
      BY <2>2
    <3>2. Like!Fold(t[i + m - 1]) = Like!Fold(w[m])
      BY <2>1, <3>1
    <3> QED
      BY <3>1, <3>2
  <2> QED
    BY <2>2, <2>3 DEF Like!Appears
<1>3. ASSUME Like!Appears(t, w) PROVE \E i \in Fits(t, w, 0) : 1 <= i
  <2>1. PICK k \in 0..Len(t) : /\ k + Len(w) <= Len(t)
                              /\ \A m \in DOMAIN w : Like!Fold(t[k + m]) = Like!Fold(w[m])
    BY <1>3 DEF Like!Appears
  <2>2. /\ k + 1 \in 1..(Len(t) + 1) /\ (k + 1) + (Len(w) - 0) <= Len(t) + 1 /\ Len(w) - 0 = Len(w)
        /\ DOMAIN w = 1..Len(w) /\ \A m \in 1..Len(w) : (k + 1) + m - 1 = k + m /\ 0 + m = m
    BY <2>1
  <2>3. \A m \in 1..Len(w) : Like!Fold(t[(k + 1) + m - 1]) = Like!Fold(w[0 + m])
    BY <2>1, <2>2
  <2>4. k + 1 \in Fits(t, w, 0)
    BY <2>2, <2>3 DEF Fits
  <2> QED
    BY <2>2, <2>4
<1> QED
  BY <1>1, <1>2, <1>3

(* The pattern of the words w: w escaped, between two wildcards.           *)
THEOREM PatternFinds ==
  ASSUME NEW C, "\\" \in C, "%" \in C, NEW t \in Seq(C), NEW w \in Seq(C)
  PROVE  Like!Ilike(t, <<"%">> \o Like!escapeLikePattern(w) \o <<"%">>) <=> Like!Appears(t, w)
<1> DEFINE special == {"\\", "%", "_"}
<1>1. PICK d : /\ Replaces(d, w, special, Len(w))
               /\ Like!escapeLikePattern(w) = d[Len(w)]
  <2>1. Len(w) \in Nat
    OBVIOUS
  <2> QED
    BY <2>1, ReplaceIsLast DEF Like!escapeLikePattern
<1>2. PICK e : e = d[Len(w)]
  OBVIOUS
<1>3. /\ d[0] = <<>> /\ e \in Seq(C)
      /\ \A n \in 0..Len(w) : d[n] \in Seq(C)
  <2>1. Len(w) \in 0..Len(w)
    OBVIOUS
  <2>2. d[0] = <<>> /\ \A n \in 0..Len(w) : d[n] \in Seq(C)
    BY <1>1, Escaped
  <2> QED
    BY <1>2, <2>1, <2>2
<1>4. PICK p : p = <<"%">> \o e \o <<"%">>
  OBVIOUS
<1>5. /\ Len(e) \in Nat /\ Len(p) = Len(e) + 2 /\ p[1] = "%" /\ p[Len(e) + 2] = "%"
      /\ \A k \in 1..Len(e) : p[k + 1] = e[k]
  BY <1>3, <1>4
<1>6. PICK f : /\ f = [j \in 1..(Len(p) + 1) |-> Matches(t, p, f, j)]
               /\ Like!Ilike(t, p) <=> 1 \in f[1]
  BY <1>5, IlikeIsFirst
<1>7. \A j \in 1..(Len(p) + 1) : f[j] = Matches(t, p, f, j)
  BY <1>6
<1>8. Len(t) \in Nat /\ Len(w) \in Nat
  OBVIOUS
<1> HIDE DEF special
<1>9. f[Len(e) + 2] = 1..(Len(t) + 1)
  <2>1. f[Len(p) + 1] = {Len(t) + 1}
    <3>1. Len(p) + 1 \in 1..(Len(p) + 1) /\ Len(p) + 1 > Len(p)
      BY <1>5
    <3>2. f[Len(p) + 1] = Matches(t, p, f, Len(p) + 1)
      BY <1>7, <3>1
    <3> QED
      BY <3>1, <3>2 DEF Matches
  <2>2. Len(e) + 2 \in 1..(Len(p) + 1) /\ ~(Len(e) + 2 > Len(p)) /\ (Len(e) + 2) + 1 = Len(p) + 1
    BY <1>5
  <2>3. f[Len(e) + 2] = {i \in 1..(Len(t) + 1) : \E k \in f[(Len(e) + 2) + 1] : i <= k}
    BY <1>5, <1>7, <2>2 DEF Matches
  <2> QED
    BY <1>8, <2>1, <2>2, <2>3
<1>10. ASSUME NEW n \in Nat, n < Len(w), f[Len(d[n + 1]) + 2] = Fits(t, w, n + 1)
       PROVE  f[Len(d[n]) + 2] = Fits(t, w, n)
  <2>1. PICK j, c : j = Len(d[n]) /\ c = w[n + 1]
    OBVIOUS
  <2>2. /\ j \in Nat
        /\ c \in special => /\ e[j + 1] = "\\" /\ e[j + 2] = c
                            /\ Len(d[n + 1]) = j + 2 /\ j + 2 <= Len(e)
        /\ c \notin special => /\ e[j + 1] = c
                               /\ Len(d[n + 1]) = j + 1 /\ j + 1 <= Len(e)
    <3>1. /\ j \in Nat
          /\ w[n + 1] \in special => /\ e[j + 1] = "\\" /\ e[j + 2] = w[n + 1]
                                     /\ Len(d[n + 1]) = j + 2 /\ j + 2 <= Len(e)
          /\ w[n + 1] \notin special => /\ e[j + 1] = w[n + 1]
                                        /\ Len(d[n + 1]) = j + 1 /\ j + 1 <= Len(e)
      BY <1>1, <1>2, <1>10, <2>1, EscapedAt
    <3> QED
      BY <2>1, <3>1
  <2>3. j + 2 \in 1..(Len(p) + 1) /\ ~(j + 2 > Len(p)) /\ j + 2 < Len(p)
        /\ (j + 2) + 1 = j + 3 /\ (j + 2) + 2 = j + 4
    BY <1>5, <2>2
  <2>4. p[j + 2] = e[j + 1]
    <3>1. j + 1 \in 1..Len(e) /\ (j + 1) + 1 = j + 2
      BY <1>5, <2>2
    <3>2. p[(j + 1) + 1] = e[j + 1]
      BY <1>5, <3>1
    <3> QED
      BY <3>1, <3>2
  <2>5. f[j + 2] = Matches(t, p, f, j + 2)
    BY <1>7, <2>3
  <2>6. CASE c \in special
    <3>1. p[j + 2] = "\\" /\ p[j + 3] = c
      <4>1. j + 2 \in 1..Len(e) /\ (j + 2) + 1 = j + 3
        BY <1>5, <2>2, <2>6
      <4>2. p[(j + 2) + 1] = e[j + 2]
        BY <1>5, <4>1
      <4> QED
        BY <2>2, <2>4, <2>6, <4>1, <4>2
    <3>2. f[j + 2] = Like!Literal(t, c, f[j + 4])
      BY <2>3, <2>5, <3>1 DEF Matches
    <3>3. Len(d[n + 1]) + 2 = j + 4
      BY <2>2, <2>6
    <3>4. f[j + 2] = Like!Literal(t, c, Fits(t, w, n + 1))
      BY <1>10, <3>2, <3>3
    <3>5. Like!Literal(t, w[n + 1], Fits(t, w, n + 1)) = Fits(t, w, n)
      BY <1>8, <1>10, FitsStep
    <3> QED
      BY <2>1, <3>4, <3>5
  <2>7. CASE c \notin special
    <3>1. p[j + 2] = c /\ c # "\\" /\ c # "%" /\ c # "_"
      BY <2>2, <2>4, <2>7 DEF special
    <3>2. f[j + 2] = Like!Literal(t, c, f[j + 3])
      BY <2>3, <2>5, <3>1 DEF Matches
    <3>3. Len(d[n + 1]) + 2 = j + 3
      BY <2>2, <2>7
    <3>4. f[j + 2] = Like!Literal(t, c, Fits(t, w, n + 1))
      BY <1>10, <3>2, <3>3
    <3>5. Like!Literal(t, w[n + 1], Fits(t, w, n + 1)) = Fits(t, w, n)
      BY <1>8, <1>10, FitsStep
    <3> QED
      BY <2>1, <3>4, <3>5
  <2> QED
    BY <2>6, <2>7
<1>11. f[2] = Fits(t, w, 0)
  <2> DEFINE T == {m \in Nat : m <= Len(w) => f[Len(d[Len(w) - m]) + 2] = Fits(t, w, Len(w) - m)}
  <2>1. 0 \in T
    <3>1. Len(w) - 0 = Len(w)
      BY <1>8
    <3> QED
      BY <1>2, <1>8, <1>9, <3>1, FitsAll
  <2>2. ASSUME NEW m \in Nat, m \in T PROVE m + 1 \in T
    <3> SUFFICES ASSUME m + 1 <= Len(w)
                 PROVE  f[Len(d[Len(w) - (m + 1)]) + 2] = Fits(t, w, Len(w) - (m + 1))
      OBVIOUS
    <3>1. PICK n : n = Len(w) - (m + 1)
      OBVIOUS
    <3>2. n \in Nat /\ n < Len(w) /\ n + 1 = Len(w) - m /\ m <= Len(w)
      BY <1>8, <3>1
    <3>3. f[Len(d[n + 1]) + 2] = Fits(t, w, n + 1)
      BY <2>2, <3>2
    <3> QED
      BY <1>10, <3>1, <3>2, <3>3
  <2>3. Len(w) \in T
    <3> HIDE DEF T
    <3> QED
      BY <1>8, <2>1, <2>2, Induction
  <2>4. Len(w) - Len(w) = 0 /\ Len(w) <= Len(w) /\ Len(d[0]) + 2 = 2
    BY <1>3, <1>8
  <2> QED
    BY <2>3, <2>4
<1>12. f[1] = {i \in 1..(Len(t) + 1) : \E k \in f[1 + 1] : i <= k}
  <2>1. 1 \in 1..(Len(p) + 1) /\ ~(1 > Len(p))
    BY <1>5
  <2> QED
    BY <1>5, <1>7, <2>1 DEF Matches
<1>13. 1 \in f[1] <=> \E k \in Fits(t, w, 0) : 1 <= k
  <2>1. 1 + 1 = 2 /\ 1 \in 1..(Len(t) + 1)
    BY <1>8
  <2> QED
    BY <1>11, <1>12, <2>1
<1>14. 1 \in f[1] <=> Like!Appears(t, w)
  BY <1>13, FitsAll
<1> QED
  BY <1>1, <1>2, <1>4, <1>6, <1>14

-----------------------------------------------------------------------------
(* The trimmed keyword.                                                    *)

LEMMA LeastExists ==
  ASSUME NEW S, S \subseteq Nat, S # {}
  PROVE  \E x \in S : \A y \in S : x <= y
<1>1. PICK x \in S : \A y \in S : <<y, x>> \notin Below
  BY BelowIsWellFounded, WFMin
<1>2. ASSUME NEW y \in S, ~(x <= y) PROVE FALSE
  <2> DEFINE pair == <<y, x>>
  <2>1. pair \in Nat \X Nat /\ pair[1] = y /\ pair[2] = x /\ x \in Nat /\ y \in Nat
    OBVIOUS
  <2>2. pair[1] < pair[2]
    BY <1>2, <2>1
  <2>3. pair \in Below
    BY <2>1, <2>2 DEF Below
  <2> QED
    BY <1>1, <2>3
<1> QED
  BY <1>2

(* The distances to a bound N have a least one.                            *)
LEMMA GreatestExists ==
  ASSUME NEW N \in Nat, NEW S, S \subseteq 0..N, S # {}
  PROVE  \E x \in S : \A y \in S : x >= y
<1> DEFINE D == {n \in Nat : N - n \in S}
<1>1. PICK s : s \in S
  OBVIOUS
<1>2. s \in 0..N
  BY <1>1
<1>3. N - s \in Nat /\ N - (N - s) = s
  BY <1>2
<1>4. D \subseteq Nat /\ D # {}
  BY <1>1, <1>3
<1>5. PICK d \in D : \A e \in D : d <= e
  <2> HIDE DEF D
  <2> QED
    BY <1>4, LeastExists
<1>6. d \in Nat /\ N - d \in S
  BY <1>5
<1>7. ASSUME NEW y \in S PROVE N - d >= y
  <2>1. y \in 0..N /\ N - y \in Nat /\ N - (N - y) = y
    OBVIOUS
  <2>2. N - y \in D
    BY <2>1
  <2>3. d <= N - y
    BY <1>5, <2>2
  <2> QED
    BY <1>6, <2>1, <2>3
<1> QED
  BY <1>6, <1>7

(* What is left of a keyword without the blanks at its ends is a text of   *)
(* the same characters.                                                    *)
LEMMA TrimType ==
  ASSUME NEW C, NEW s \in Seq(C)
  PROVE  Like!Trim(s) \in Seq(C)
<1> DEFINE ink == {i \in DOMAIN s : s[i] # " "}
<1>1. CASE ink = {}
  <2>1. Like!Trim(s) = <<>>
    BY <1>1 DEF Like!Trim
  <2> QED
    BY <2>1
<1>2. CASE ink # {}
  <2>1. Len(s) \in Nat /\ DOMAIN s = 1..Len(s)
    OBVIOUS
  <2>2. ink \subseteq 1..Len(s) /\ ink \subseteq Nat /\ ink \subseteq 0..Len(s)
    <3>1. ink \subseteq 1..Len(s)
      BY <2>1
    <3> HIDE DEF ink
    <3>2. \A i \in 1..Len(s) : i \in Nat /\ i \in 0..Len(s)
      BY <2>1
    <3> QED
      BY <3>1, <3>2
  <2>3. Like!Min(ink) \in ink
    <3> HIDE DEF ink
    <3>1. \E x \in ink : \A y \in ink : x <= y
      BY <1>2, <2>2, LeastExists
    <3> QED
      BY <3>1 DEF Like!Min
  <2>4. Like!Max(ink) \in ink
    <3> HIDE DEF ink
    <3>1. \E x \in ink : \A y \in ink : x >= y
      BY <1>2, <2>1, <2>2, GreatestExists
    <3> QED
      BY <3>1 DEF Like!Max
  <2>5. Like!Min(ink) \in 1..Len(s) /\ Like!Max(ink) \in 1..Len(s)
    BY <2>2, <2>3, <2>4
  <2>6. SubSeq(s, Like!Min(ink), Like!Max(ink)) \in Seq(C)
    <3> HIDE DEF ink
    <3>1. PICK a, b : a = Like!Min(ink) /\ b = Like!Max(ink)
      OBVIOUS
    <3>2. a \in Int /\ b \in Int /\ \A i \in a..b : i \in 1..Len(s)
      BY <2>1, <2>5, <3>1
    <3>3. \A i \in a..b : s[i] \in C
      BY <2>1, <3>2
    <3>4. SubSeq(s, a, b) \in Seq(C)
      BY <2>1, <2>5, <3>1, <3>2, <3>3
    <3> QED
      BY <3>1, <3>4
  <2> QED
    BY <1>2, <2>6 DEF Like!Trim
<1> QED
  BY <1>1, <1>2

-----------------------------------------------------------------------------
(* The search.                                                             *)

LikeInv ==
    /\ text \in Seq(Characters) /\ keyword \in Seq(Characters)
    /\ answer \in {"none", "found", "missed"}
    /\ Like!FindsWhatWasTyped

LEMMA LikeBegins == ASSUME Like!Init PROVE LikeInv
<1>1. text \in Seq(Characters)
  BY DEF Like!Init, Like!BoundedSeq, Like!SeqOf
<1> QED
  BY <1>1 DEF Like!Init, LikeInv, Like!FindsWhatWasTyped

LEMMA LikeGoesOn ==
  ASSUME Like!LikeAssumption, LikeInv, [Like!Next]_(Like!vars) PROVE LikeInv'
<1>1. ASSUME NEW c \in Characters, Like!Type(c) PROVE LikeInv'
  BY <1>1 DEF Like!Type, LikeInv, Like!FindsWhatWasTyped
<1>2. CASE Like!Search
  <2>1. "\\" \in Characters /\ "%" \in Characters
    BY DEF Like!LikeAssumption
  <2>2. text \in Seq(Characters) /\ Like!Trim(keyword) \in Seq(Characters)
    BY TrimType DEF LikeInv
  <2>3. Like!Ilike(text, Like!Pattern(keyword)) <=> Like!Appears(text, Like!Trim(keyword))
    <3>1. PICK w : w = Like!Trim(keyword)
      OBVIOUS
    <3>2. Like!Ilike(text, <<"%">> \o Like!escapeLikePattern(w) \o <<"%">>) <=> Like!Appears(text, w)
      BY <2>1, <2>2, <3>1, PatternFinds
    <3> QED
      BY <3>1, <3>2 DEF Like!Pattern
  <2> QED
    BY <1>2, <2>3 DEF Like!Search, LikeInv, Like!FindsWhatWasTyped
<1>3. CASE UNCHANGED Like!vars
  BY <1>3 DEF Like!vars, LikeInv, Like!FindsWhatWasTyped
<1> QED
  BY <1>1, <1>2, <1>3 DEF Like!Next

LEMMA FindsAlone ==
  ASSUME Like!LikeAssumption PROVE Like!Spec => []Like!FindsWhatWasTyped
<1>1. LikeInv => Like!FindsWhatWasTyped
  BY DEF LikeInv
<1> QED
  BY <1>1, LikeBegins, LikeGoesOn, PTL DEF Like!Spec

-----------------------------------------------------------------------------
(* A step of another part is a stutter of this one.                       *)

LEMMA SearchPart == StoreSpec => Find!Spec
<1>1. StoreInit => Find!Init
  BY DEF StoreInit
<1>2. [StoreNext]_<<vars, tree, catalogue, pattern, post>> => [Find!Next]_(Find!vars)
  BY DEF StoreNext, PhotosMove, TreeMoves, SearchMoves, PatternMoves, MailMoves, catalogue, Find!vars
<1> QED
  BY <1>1, <1>2, PTL DEF StoreSpec, Find!Spec

LEMMA PatternPart == StoreSpec => Like!Spec
<1>1. StoreInit => Like!Init
  BY DEF StoreInit
<1>2. [StoreNext]_<<vars, tree, catalogue, pattern, post>> => [Like!Next]_(Like!vars)
  BY DEF StoreNext, PhotosMove, TreeMoves, SearchMoves, PatternMoves, MailMoves, pattern, Like!vars
<1> QED
  BY <1>1, <1>2, PTL DEF StoreSpec, Like!Spec

(* A search that races with edits answers with the page of one catalogue   *)
(* that was there while it ran: the transaction of searchArticles.         *)
THEOREM AnswerAlwaysIsOneInstant == StoreSpec => []AnswerIsOneInstant
<1>1. Find!Spec => []Find!AnswerIsOneInstant
  BY AnswerAlone, StorefrontAssumption
<1>2. Find!AnswerIsOneInstant => AnswerIsOneInstant
  BY DEF AnswerIsOneInstant
<1> QED
  BY <1>1, <1>2, SearchPart, PTL

(* Pages of one catalogue share no article and leave none out, for any     *)
(* number of articles, pages and sizes: ORDER BY, LIMIT and OFFSET of      *)
(* searchArticles.                                                         *)
THEOREM PagesAlwaysPartition == StoreSpec => []PagesPartition
<1>1. Find!Spec => []Find!PagesPartition
  BY PagesAlone, StorefrontAssumption
<1>2. Find!PagesPartition => PagesPartition
  BY DEF PagesPartition
<1> QED
  BY <1>1, <1>2, SearchPart, PTL

(* Whatever is typed and whatever the text is, the pattern that the        *)
(* service makes of the keyword finds the text exactly if the text         *)
(* contains the keyword without the blanks at its ends, so that no         *)
(* wildcard or escape character in a keyword acts as one.                  *)
THEOREM FindsWhatWasTypedAlways == StoreSpec => []FindsWhatWasTyped
<1>1. Like!Spec => []Like!FindsWhatWasTyped
  BY FindsAlone, StorefrontAssumption
<1>2. Like!FindsWhatWasTyped => FindsWhatWasTyped
  BY DEF FindsWhatWasTyped
<1> QED
  BY <1>1, <1>2, PatternPart, PTL
=============================================================================
