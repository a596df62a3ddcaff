---------------------------- MODULE ArticleSearch ----------------------------
(***************************************************************************)
(* The search of article.service.ts: one transaction at REPEATABLE READ    *)
(* that asks for the ids of a page and then loads the articles, while      *)
(* edits (module Catalog) commit in between.                               *)
(*                                                                         *)
(* Abstractions.  An article's `tags' are the (feature, value) pairs it    *)
(* has and the keywords that its texts contain (module LikePattern says    *)
(* which those are); a filter is the set of tags it accepts.  Names and    *)
(* prices are numbers.  An absent bound of the price is the extreme one.   *)
(***************************************************************************)
EXTENDS Naturals, FiniteSets, Sequences

CONSTANTS
    Stock,          \* the catalogue at the start
    Names, Categories, Tags, Prices, Stamps,    \* what articles may have
    Queries,        \* bodies the DTO accepts
    Requests,       \* the searches
    None,           \* an absent keyword
    Null,           \* a keyword that is null
    MaxEdits        \* BOUND: edits committed in a behaviour

VARIABLES
    shop,           \* article, article_price and article_feature, committed
    requests,       \* the searches, and their answers
    edits           \* edits committed

vars == <<shop, requests, edits>>

-----------------------------------------------------------------------------
PriceRows == [price : Prices, createdAt : Stamps]

ArticleRows == [name : Names, category : Categories, tags : SUBSET Tags, prices : Seq(PriceRows)]

QueryRecords ==
    [category : Categories, from : Nat, to : Nat, keyword : Tags \cup {None, Null},
     filters : SUBSET SUBSET Tags, byPrice : BOOLEAN, descending : BOOLEAN,
     page : Nat \ {0}, size : Nat \ {0}]

SearchAssumption ==
    /\ Queries \subseteq QueryRecords
    /\ Names \subseteq Nat /\ Prices \subseteq Nat /\ Stamps \subseteq Nat
    /\ IsFiniteSet(DOMAIN Stock) /\ DOMAIN Stock \subseteq Nat
    /\ Stock \in [DOMAIN Stock -> ArticleRows]
    /\ \A a \in DOMAIN Stock : Stock[a].prices # <<>>
    /\ MaxEdits \in Nat

(* `instants' is history: the catalogue as it was while the search ran.    *)
Idle == [pc |-> "idle", query |-> None, snapshot |-> None, ids |-> <<>>,
         answer |-> <<>>, instants |-> {}]

At(r, step) == requests[r].pc = step

-----------------------------------------------------------------------------
(* The statement.                                                          *)

Later(h, i, j) ==
    h[i].createdAt > h[j].createdAt \/ (h[i].createdAt = h[j].createdAt /\ i >= j)

(* article_current_price: DISTINCT ON (article_id), by created_at and id.  *)
CurrentPrice(S, a) ==
    LET h == S[a].prices
    IN h[CHOOSE i \in DOMAIN h : \A j \in DOMAIN h : Later(h, i, j)].price

Found(q, S) ==
    {a \in DOMAIN S :
        /\ S[a].category = q.category
        /\ CurrentPrice(S, a) >= q.from /\ CurrentPrice(S, a) <= q.to
        /\ q.keyword = None \/ q.keyword \in S[a].tags
        /\ \A F \in q.filters : F \cap S[a].tags # {}}

Key(q, S, a) == IF q.byPrice THEN CurrentPrice(S, a) ELSE S[a].name

(* Faulty form: no second column to sort by; the database may then order   *)
(* equals differently for each page.                                       *)
BeforeByKey(q, S, a, b) ==
    IF Key(q, S, a) = Key(q, S, b) THEN IF q.page = 1 THEN a < b ELSE a > b
    ELSE (Key(q, S, a) < Key(q, S, b)) # q.descending

(* ORDER BY the column in its direction, then article_id ASC.              *)
Before(q, S, a, b) ==
    IF Key(q, S, a) = Key(q, S, b) THEN a < b
    ELSE (Key(q, S, a) < Key(q, S, b)) # q.descending

Sorted(q, S) ==
    CHOOSE s \in [1..Cardinality(Found(q, S)) -> Found(q, S)] :
        \A i, j \in DOMAIN s : i < j => Before(q, S, s[i], s[j])

Offset(q) == (q.page - 1) * q.size

PageOf(q, S) ==
    LET all == Sorted(q, S)
        last == Offset(q) + q.size
    IN SubSeq(all, Offset(q) + 1, IF last < Len(all) THEN last ELSE Len(all))

-----------------------------------------------------------------------------
(* The search.                                                             *)

Search(r, q) ==
    /\ At(r, "idle")
    /\ requests' = [requests EXCEPT ![r] = [Idle EXCEPT !.pc = "select", !.query = q,
                                                        !.instants = {shop}]]
    /\ UNCHANGED <<shop, edits>>

(* null.trim() throws, and so does Prisma.join([]).                        *)
Throws(q) == q.keyword = Null \/ {} \in q.filters

(* The transaction's snapshot is that of its first statement.              *)
SelectIds(r) ==
    /\ At(r, "select")
    /\ LET q == requests[r].query IN
       requests' = [requests EXCEPT ![r] =
           IF Throws(q) THEN [@ EXCEPT !.pc = "failed"]
           ELSE [@ EXCEPT !.pc = "load", !.snapshot = shop, !.ids = PageOf(q, shop)]]
    /\ UNCHANGED <<shop, edits>>

(* Faulty form: the default isolation level.                               *)
SeesCommitted(r) == shop

Sees(r) == requests[r].snapshot

(* findMany in any order, put in the order of the ids by the sort; the     *)
(* price is the first of articlePrices by createdAt and id, both desc.     *)
LoadArticles(r) ==
    /\ At(r, "load")
    /\ LET S == Sees(r)
           Row(a) == [article |-> a, name |-> S[a].name, price |-> CurrentPrice(S, a)]
       IN requests' = [requests EXCEPT ![r].pc = "done",
                           ![r].answer = [i \in DOMAIN requests[r].ids |-> Row(requests[r].ids[i])]]
    /\ UNCHANGED <<shop, edits>>

(* An edit commits: of any columns, of the features, and of the price.     *)
Edit(a) ==
    /\ edits < MaxEdits
    /\ edits' = edits + 1
    /\ \E n \in Names, c \in Categories, T \in SUBSET Tags,
          new \in {<<>>} \cup {<<row>> : row \in {p \in PriceRows : p.price # CurrentPrice(shop, a)}} :
          shop' = [shop EXCEPT ![a] = [name |-> n, category |-> c, tags |-> T,
                                       prices |-> @.prices \o new]]
    /\ requests' = [r \in Requests |->
           IF At(r, "select") \/ At(r, "load")
           THEN [requests[r] EXCEPT !.instants = @ \cup {shop'}] ELSE requests[r]]

-----------------------------------------------------------------------------
Init ==
    /\ shop = Stock
    /\ requests = [r \in Requests |-> Idle]
    /\ edits = 0

Next ==
    \/ \E r \in Requests : \/ \E q \in Queries : Search(r, q)
                           \/ SelectIds(r) \/ LoadArticles(r)
    \/ \E a \in DOMAIN shop : Edit(a)

Spec == Init /\ [][Next]_vars

-----------------------------------------------------------------------------
(* Properties.                                                             *)

(* The answer S calls for, by counting instead of sorting.                 *)
Rank(q, S, a) == 1 + Cardinality({b \in Found(q, S) : Before(q, S, b, a)})

IsAnswer(q, S, answer) ==
    /\ \A i \in DOMAIN answer :
          LET a == answer[i].article IN
          /\ a \in Found(q, S) /\ Rank(q, S, a) = (q.page - 1) * q.size + i
          /\ answer[i].name = S[a].name /\ answer[i].price = CurrentPrice(S, a)
    /\ \A a \in Found(q, S) :
          Rank(q, S, a) - (q.page - 1) * q.size \in 1..q.size => \E i \in DOMAIN answer : answer[i].article = a

(* However edits race with a search, its answer is the page the catalogue  *)
(* called for at one instant while it ran: every price shown is within the *)
(* bounds and in the order asked for.                                      *)
AnswerIsOneInstant ==
    \A r \in Requests : At(r, "done") =>
        \E S \in requests[r].instants : IsAnswer(requests[r].query, S, requests[r].answer)

Shown(r) == {requests[r].answer[i].article : i \in DOMAIN requests[r].answer}

(* Two searches of one catalogue for different pages show no article       *)
(* twice, and leave none out: there is nothing after a page that is not    *)
(* full, and the first page is not empty if there is anything to find.     *)
PagesPartition ==
    \A r, s \in Requests :
        LET q == requests[r].query  p == requests[s].query IN
        (/\ At(r, "done") /\ At(s, "done") /\ requests[r].snapshot = requests[s].snapshot
         /\ p = [q EXCEPT !.page = p.page])
        => /\ q.page < p.page =>
                 /\ Shown(r) \cap Shown(s) = {}
                 /\ Shown(s) # {} => Cardinality(Shown(r)) = q.size
           /\ q.page = 1 /\ Found(q, requests[r].snapshot) # {} => Shown(r) # {}
=============================================================================
