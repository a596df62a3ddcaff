----------------------------- MODULE CatalogProofs -----------------------------
(***************************************************************************)
(* What Catalog guarantees for any articles, prices, features and requests *)
(* and any number of calls and orders; then that it implements a shelf     *)
(* where updates lock.                                                     *)
(***************************************************************************)
EXTENDS Catalog, SequenceTheorems, TLAPS

-----------------------------------------------------------------------------
(* The inductive invariant.                                                *)

(* What refers to an article refers to a committed one, nothing is stamped *)
(* later than now, and an article has a price from its commit on.          *)
Tables ==
    /\ \A i \in DOMAIN prices :
          prices[i].createdAt <= clock /\ (prices[i].committed => prices[i].article \in stock)
    /\ \A x \in features : x.article \in stock /\ x.call <= x.done /\ x.done <= calls
    /\ \A o \in DOMAIN orders : orders[o].article \in stock /\ orders[o].createdAt <= clock
    /\ \A a \in stock : \E i \in DOMAIN prices : Latest(History(a)) = {i}

(* What the locals of a handler mean.                                      *)
Sound(q) ==
    /\ q.pc = "idle" => q = Idle
    /\ q.pc # "idle" =>
          /\ q.op \in {"add", "edit"} /\ q.article \in Articles
          /\ q.call \in 1..calls /\ q.begun <= clock
          /\ ~q.replaces => q.features = {}
          /\ q.op = "add" => q.article \notin stock /\ q.pc \in {"createArticle", "commit"}
          /\ q.op = "edit" => /\ q.article \in stock /\ q.pc # "createArticle"
                              /\ locked => q.columns
    /\ q.pc \in {"createArticle", "readPrice", "insertPrice"} => q.price \in Prices
    /\ q.pc \in {"createArticle", "update", "readPrice", "insertPrice"} => q.row = 0
    /\ q.pc = "commit" /\ q.op = "add" => q.row # 0
    /\ q.row # 0 => /\ q.row \in DOMAIN prices
                    /\ prices[q.row].article = q.article
                    /\ q.begun <= prices[q.row].createdAt

(* A handler that replaces features has in its hands all those that were   *)
(* committed before its call.                                              *)
Clears(q) ==
    q.pc \in {"delete", "createFeatures", "commit"} /\ q.replaces =>
        \A y \in features : y.article = q.article =>
            \/ q.call <= y.done
            \/ y \in IF q.pc = "delete" THEN q.snapshot ELSE q.doomed

(* Beyond the update of the article, whose row is then held.               *)
Past(q) == q.pc \notin {"idle", "update", "createArticle"}

(* Its price differs from the current one, and is the last of its article. *)
Excludes(q) ==
    locked /\ Past(q) =>
        /\ q.pc = "insertPrice" => q.price \notin CurrentPrice(q.article)
        /\ q.row # 0 =>
              /\ q.price = prices[q.row].price
              /\ q.price \notin CurrentPrice(q.article)
              /\ \A i \in History(q.article) :
                    i < q.row /\ prices[i].createdAt <= prices[q.row].createdAt

Handlers == \A r \in Requests :
    Sound(requests[r]) /\ Clears(requests[r]) /\ Excludes(requests[r])

Adds(q) == q.pc # "idle" /\ q.op = "add"

(* Two handlers that are not both adding, or holding, one article.         *)
Together(p, q) ==
    p.article = q.article => ~(Adds(p) /\ Adds(q)) /\ (locked => ~(Past(p) /\ Past(q)))

Apart == \A r, s \in Requests : r # s => Together(requests[r], requests[s])

Inv ==
    /\ TypeOK
    /\ Tables
    /\ Handlers
    /\ Apart
    /\ EveryOrderHasPrice
    /\ ListsMixOnlyInOverlap
    /\ HistoryHasNoRepeats

-----------------------------------------------------------------------------
(* Prices: what an insert and a commit leave of the order of the rows.     *)

LEMMA PriceTypes ==
  ASSUME TypeOK, NEW i \in DOMAIN prices
  PROVE  /\ prices[i] \in PriceRows
         /\ i \in Nat \ {0} /\ i <= Len(prices)
         /\ prices[i].createdAt \in Nat /\ prices[i].price \in Prices
         /\ prices[i].article \in Articles
<1>1. prices \in Seq(PriceRows) /\ prices[i] \in PriceRows
  BY DEF TypeOK
<1> QED
  BY <1>1 DEF PriceRows

(* Rows that keep their stamps keep their order.                           *)
LEMMA OrderKept ==
  ASSUME NEW I \in SUBSET DOMAIN prices,
         \A i \in DOMAIN prices : prices'[i].createdAt = prices[i].createdAt
  PROVE  /\ Latest(I)' = Latest(I)
         /\ \A i, j \in DOMAIN prices : NotLater(i, j)' <=> NotLater(i, j)
<1>1. \A i, j \in DOMAIN prices : NotLater(i, j)' <=> NotLater(i, j)
  BY DEF NotLater
<1> QED
  BY <1>1 DEF Latest

(* One more row: there is a latest one still.                              *)
LEMMA OneMore ==
  ASSUME TypeOK, NEW I \in SUBSET DOMAIN prices, NEW k \in DOMAIN prices,
         I = {} \/ \E i \in DOMAIN prices : Latest(I) = {i}
  PROVE  \E i \in DOMAIN prices : Latest(I \cup {k}) = {i}
<1>1. \A i, j \in DOMAIN prices : NotLater(i, j) \/ NotLater(j, i)
  BY PriceTypes DEF NotLater
<1>2. \A i, j \in DOMAIN prices : NotLater(i, j) /\ NotLater(j, i) => i = j
  BY PriceTypes DEF NotLater
<1>3. \A i, j, l \in DOMAIN prices : NotLater(i, j) /\ NotLater(j, l) => NotLater(i, l)
  BY PriceTypes DEF NotLater
<1>4. CASE I = {}
  <2>1. Latest(I \cup {k}) = {k}
    BY <1>1, <1>4 DEF Latest
  <2> QED
    BY <2>1
<1>5. ASSUME NEW i \in DOMAIN prices, Latest(I) = {i}
      PROVE  \E j \in DOMAIN prices : Latest(I \cup {k}) = {j}
  <2>1. i \in I /\ \A j \in I : NotLater(j, i)
    BY <1>5 DEF Latest
  <2>2. CASE NotLater(k, i)
    <3>1. Latest(I \cup {k}) = {i}
      BY <1>2, <2>1, <2>2 DEF Latest
    <3> QED
      BY <3>1
  <2>3. CASE NotLater(i, k)
    <3>1. Latest(I \cup {k}) = {k}
      BY <1>1, <1>2, <1>3, <2>1, <2>3 DEF Latest
    <3> QED
      BY <3>1
  <2> QED
    BY <1>1, <2>2, <2>3
<1> QED
  BY <1>4, <1>5

(* An inserted row is seen by nobody before its commit.                    *)
LEMMA Inserted ==
  ASSUME TypeOK, NEW row \in PriceRows, ~row.committed, prices' = Append(prices, row)
  PROVE  /\ prices' \in Seq(PriceRows)
         /\ DOMAIN prices' = DOMAIN prices \cup {Len(prices) + 1}
         /\ \A i \in DOMAIN prices : prices'[i] = prices[i] /\ i # Len(prices) + 1
         /\ prices'[Len(prices) + 1] = row
         /\ \A a : History(a)' = History(a)
<1>1. /\ prices \in Seq(PriceRows) /\ Len(prices) \in Nat
      /\ DOMAIN prices = 1..Len(prices)
  BY DEF TypeOK
<1>2. /\ prices' \in Seq(PriceRows)
      /\ DOMAIN prices' = DOMAIN prices \cup {Len(prices) + 1}
      /\ \A i \in DOMAIN prices : prices'[i] = prices[i] /\ i # Len(prices) + 1
      /\ prices'[Len(prices) + 1] = row
  BY <1>1
<1>3. ASSUME NEW a PROVE History(a)' = History(a)
  BY <1>2 DEF History
<1> QED
  BY <1>2, <1>3

(* A commit adds one row to the history of its article.                    *)
LEMMA Committed ==
  ASSUME TypeOK, NEW k \in Nat,
         prices' = [i \in DOMAIN prices |-> [prices[i] EXCEPT !.committed = @ \/ i = k]]
  PROVE  /\ prices' \in Seq(PriceRows)
         /\ DOMAIN prices' = DOMAIN prices
         /\ \A i \in DOMAIN prices : /\ prices'[i].article = prices[i].article
                                     /\ prices'[i].price = prices[i].price
                                     /\ prices'[i].createdAt = prices[i].createdAt
                                     /\ prices'[i].committed => prices[i].committed \/ i = k
         /\ \A a : History(a)' =
               History(a) \cup {i \in DOMAIN prices : i = k /\ prices[i].article = a}
<1>1. prices \in Seq(PriceRows) /\ DOMAIN prices = 1..Len(prices) /\ Len(prices) \in Nat
  BY DEF TypeOK
<1>2. ASSUME NEW i \in DOMAIN prices
      PROVE  /\ prices'[i] \in PriceRows
             /\ prices'[i].article = prices[i].article
             /\ prices'[i].price = prices[i].price
             /\ prices'[i].createdAt = prices[i].createdAt
             /\ prices'[i].committed <=> (prices[i].committed \/ i = k)
  <2>1. prices[i] \in PriceRows
    BY <1>1
  <2>2. prices'[i] = [prices[i] EXCEPT !.committed = @ \/ i = k]
    OBVIOUS
  <2> QED
    BY <2>1, <2>2 DEF PriceRows
<1>3. DOMAIN prices' = DOMAIN prices
  OBVIOUS
<1>4. prices' \in Seq(PriceRows)
  <2>1. /\ prices' \in [1..Len(prices) -> PriceRows]
        /\ Len(prices) \in Nat
    BY <1>1, <1>2
  <2> QED
    BY <2>1, SeqDef, Zenon
<1>5. ASSUME NEW a
      PROVE  History(a)' = History(a) \cup {i \in DOMAIN prices : i = k /\ prices[i].article = a}
  BY <1>2, <1>3 DEF History
<1> QED
  BY <1>2, <1>3, <1>4, <1>5

-----------------------------------------------------------------------------
(* Handlers.                                                               *)

LEMMA IdleFacts ==
  /\ Idle \in RequestRecords
  /\ Idle.pc = "idle" /\ Idle.article = None /\ Idle.row = 0
  /\ Sound(Idle) /\ Clears(Idle) /\ Excludes(Idle)
  /\ Sound(Idle)' /\ Clears(Idle)' /\ Excludes(Idle)'
  /\ \A q : Together(Idle, q) /\ Together(Idle, q)'
<1>1. /\ 0 \in 0..MaxCalls /\ 0 \in 0..MaxClock
  BY CatalogAssumption
<1>2. Idle \in RequestRecords
  BY <1>1 DEF Idle, RequestRecords, Steps
<1>3. Idle.pc = "idle" /\ Idle.article = None /\ Idle.row = 0
  BY DEF Idle
<1> QED
  BY <1>2, <1>3 DEF Sound, Clears, Excludes, Past, Together, Adds

LEMMA RequestFacts ==
  ASSUME Inv, NEW r \in Requests
  PROVE  /\ requests[r] \in RequestRecords
         /\ Sound(requests[r]) /\ Clears(requests[r]) /\ Excludes(requests[r])
         /\ \A s \in Requests : r # s => Together(requests[r], requests[s])
  BY DEF Inv, TypeOK, Handlers, Apart

LEMMA InitInv == Init => Inv
<1> SUFFICES ASSUME Init PROVE Inv
  OBVIOUS
<1>1. /\ requests \in [Requests -> RequestRecords]
      /\ \A r \in Requests : requests[r] = Idle
  BY IdleFacts DEF Init
<1>2. prices = <<>> /\ orders = <<>> /\ DOMAIN prices = {} /\ DOMAIN orders = {}
  BY DEF Init
<1>3. TypeOK
  BY <1>1, <1>2, CatalogAssumption DEF Init, TypeOK
<1>4. Tables /\ EveryOrderHasPrice /\ ListsMixOnlyInOverlap
  BY <1>2 DEF Init, Tables, EveryOrderHasPrice, ListsMixOnlyInOverlap
<1>5. HistoryHasNoRepeats
  BY <1>2 DEF HistoryHasNoRepeats, History
<1>6. Handlers /\ Apart
  BY <1>1, IdleFacts DEF Handlers, Apart
<1> QED
  BY <1>3, <1>4, <1>5, <1>6 DEF Inv

(* A step of r changes its own record.                                     *)
LEMMA RecordStep ==
  ASSUME Inv, NEW r \in Requests, NEW Q \in RequestRecords,
         requests' = [requests EXCEPT ![r] = Q], locked' = locked,
         Sound(Q)', Clears(Q)', Excludes(Q)',
         \A s \in Requests \ {r} :
            Sound(requests[s])' /\ Clears(requests[s])' /\ Excludes(requests[s])',
         \A s \in Requests \ {r} : Together(Q, requests[s])
  PROVE  /\ requests' \in [Requests -> RequestRecords]
         /\ requests'[r] = Q
         /\ \A s \in Requests \ {r} : requests'[s] = requests[s]
         /\ Handlers' /\ Apart'
<1>1. /\ requests' \in [Requests -> RequestRecords]
      /\ requests'[r] = Q
      /\ \A s \in Requests \ {r} : requests'[s] = requests[s]
  BY DEF Inv, TypeOK
<1>2. Handlers'
  <2> SUFFICES ASSUME NEW s \in Requests
               PROVE  Sound(requests[s])' /\ Clears(requests[s])' /\ Excludes(requests[s])'
    BY DEF Handlers
  <2>1. CASE s = r
    BY <1>1, <2>1 DEF Sound, Clears, Excludes
  <2>2. CASE s # r
    BY <2>2
  <2> QED
    BY <2>1, <2>2
<1>3. Apart'
  <2> SUFFICES ASSUME NEW s \in Requests, NEW t \in Requests, s # t
               PROVE  Together(requests'[s], requests'[t])
    BY DEF Apart, Together
  <2>1. \A p, q : Together(p, q) => Together(q, p)
    BY DEF Together
  <2>2. Together(requests[s], requests[t])
    BY RequestFacts
  <2> QED
    BY <1>1, <2>1, <2>2
<1> QED
  BY <1>1, <1>2, <1>3

(* A step that changes nothing but the record of r.                        *)
LEMMA QuietStep ==
  ASSUME Inv, NEW r \in Requests, NEW Q \in RequestRecords,
         requests' = [requests EXCEPT ![r] = Q],
         UNCHANGED <<stock, prices, features, orders, clock, locked>>,
         calls' \in 0..MaxCalls, calls <= calls',
         Sound(Q)', Clears(Q), Excludes(Q),
         \A s \in Requests \ {r} : Together(Q, requests[s])
  PROVE  Inv'
<1>1. /\ requests' \in [Requests -> RequestRecords]
      /\ \A s \in Requests \ {r} : requests'[s] = requests[s]
  BY DEF Inv, TypeOK
<1>2. Clears(Q)' /\ Excludes(Q)'
  BY DEF Clears, Excludes, Past, CurrentPrice, Latest, History, NotLater
<1>3. ASSUME NEW s \in Requests \ {r}
      PROVE  Sound(requests[s])' /\ Clears(requests[s])' /\ Excludes(requests[s])'
  <2>1. /\ Sound(requests[s]) /\ Clears(requests[s]) /\ Excludes(requests[s])
        /\ requests'[s] = requests[s] /\ calls \in Nat
    BY <1>1, RequestFacts DEF Inv, TypeOK
  <2>2. Sound(requests[s])'
    BY <2>1 DEF Sound
  <2>3. Clears(requests[s])'
    BY <2>1 DEF Clears
  <2>4. Excludes(requests[s])'
    BY <2>1 DEF Excludes, Past, CurrentPrice, Latest, History, NotLater
  <2> QED
    BY <2>2, <2>3, <2>4
<1>4. Handlers' /\ Apart'
  BY <1>2, <1>3, RecordStep
<1>5. TypeOK'
  BY <1>1 DEF Inv, TypeOK
<1>6. Tables'
  <2>1. calls \in Nat /\ \A x \in features : x.done \in Nat
    BY DEF Inv, TypeOK, FeatureRows
  <2> QED
    BY <2>1 DEF Inv, Tables, Latest, History, NotLater
<1>7. EveryOrderHasPrice' /\ HistoryHasNoRepeats' /\ ListsMixOnlyInOverlap'
  BY DEF Inv, EveryOrderHasPrice, Shown, Latest, History, NotLater, HistoryHasNoRepeats,
         ListsMixOnlyInOverlap
<1> QED
  BY <1>4, <1>5, <1>6, <1>7 DEF Inv

-----------------------------------------------------------------------------
(* Calls.                                                                  *)

LEMMA BeginStep ==
  ASSUME Inv, NEW r \in Requests, NEW step \in {"createArticle", "update"},
         NEW q \in RequestRecords, Begin(r, step, q),
         q.article \in Articles, q.row = 0, ~q.replaces => q.features = {},
         \/ /\ step = "createArticle" /\ q.op = "add" /\ q.article \notin stock
            /\ q.price \in Prices
            /\ \A s \in Requests : requests[s].op = "add" => requests[s].article # q.article
         \/ step = "update" /\ q.op = "edit" /\ q.article \in stock /\ (locked => q.columns)
  PROVE  Inv'
<1>1. calls \in Nat /\ MaxCalls \in Nat /\ clock \in 0..MaxClock /\ clock \in Nat
  BY CatalogAssumption DEF Inv, TypeOK
<1>2. calls < MaxCalls /\ calls' = calls + 1 /\ step \in Steps
  BY DEF Begin, Steps
<1> PICK Q : Q = [q EXCEPT !.pc = step, !.call = calls + 1, !.begun = clock]
  OBVIOUS
<1>3. /\ Q \in RequestRecords
      /\ Q.pc = step /\ Q.call = calls + 1 /\ Q.begun = clock
      /\ Q.op = q.op /\ Q.article = q.article /\ Q.price = q.price
      /\ Q.replaces = q.replaces /\ Q.features = q.features /\ Q.columns = q.columns
      /\ Q.row = q.row
  <2>1. calls + 1 \in 0..MaxCalls
    BY <1>1, <1>2
  <2> QED
    BY <1>1, <1>2, <2>1 DEF RequestRecords
<1>4. /\ requests' = [requests EXCEPT ![r] = Q]
      /\ UNCHANGED <<stock, prices, features, orders, clock, locked>>
  BY DEF Begin
<1>5. Sound(Q)'
  BY <1>1, <1>2, <1>3, <1>4 DEF Sound
<1>6. Clears(Q) /\ Excludes(Q) /\ ~Past(Q)
  BY <1>3 DEF Clears, Excludes, Past
<1>7. \A s \in Requests \ {r} : Together(Q, requests[s])
  BY <1>3, <1>6 DEF Together, Adds
<1>8. calls' \in 0..MaxCalls /\ calls <= calls'
  BY <1>1, <1>2
<1> QED
  BY <1>3, <1>4, <1>5, <1>6, <1>7, <1>8, QuietStep

LEMMA CallStep ==
  ASSUME Inv, NEW r \in Requests, Call(r)
  PROVE  Inv'
<1>1. Idle \in RequestRecords /\ stock \subseteq Articles
  BY IdleFacts DEF Inv, TypeOK
<1>2. ASSUME NEW a \in Articles, NEW p \in Prices, NEW F \in FeatureSets, Add(r, a, p, F)
      PROVE  Inv'
  <2> PICK q : q = [Idle EXCEPT !.op = "add", !.article = a, !.price = p,
                                !.replaces = TRUE, !.features = F]
    OBVIOUS
  <2>1. /\ q \in RequestRecords /\ q.op = "add" /\ q.article = a /\ q.price = p
        /\ q.replaces /\ q.row = 0
    BY <1>1 DEF Idle, RequestRecords
  <2>2. /\ Begin(r, "createArticle", q) /\ a \notin stock
        /\ \A s \in Requests : requests[s].op = "add" => requests[s].article # a
    BY <1>2 DEF Add
  <2> QED
    BY <2>1, <2>2, BeginStep
<1>3. ASSUME NEW a \in stock, NEW b \in BOOLEAN, locked => b, NEW p \in Prices,
             EditPrice(r, a, p, b)
      PROVE  Inv'
  <2> PICK q : q = [Idle EXCEPT !.op = "edit", !.article = a, !.price = p, !.columns = b]
    OBVIOUS
  <2>1. /\ q \in RequestRecords /\ q.op = "edit" /\ q.article = a /\ q.columns = b
        /\ q.features = {} /\ q.row = 0
    BY <1>1 DEF Idle, RequestRecords
  <2>2. Begin(r, "update", q)
    BY <1>3 DEF EditPrice
  <2> QED
    BY <1>1, <1>3, <2>1, <2>2, BeginStep
<1>4. ASSUME NEW a \in stock, NEW b \in BOOLEAN, locked => b, NEW F \in FeatureSets,
             EditFeatures(r, a, F, b)
      PROVE  Inv'
  <2> PICK q : q = [Idle EXCEPT !.op = "edit", !.article = a, !.replaces = TRUE,
                                !.features = F, !.columns = b]
    OBVIOUS
  <2>1. /\ q \in RequestRecords /\ q.op = "edit" /\ q.article = a /\ q.columns = b
        /\ q.replaces /\ q.row = 0
    BY <1>1 DEF Idle, RequestRecords
  <2>2. Begin(r, "update", q)
    BY <1>4 DEF EditFeatures
  <2> QED
    BY <1>1, <1>4, <2>1, <2>2, BeginStep
<1>5. ASSUME NEW a \in stock, NEW b \in BOOLEAN, locked => b, NEW p \in Prices,
             NEW F \in FeatureSets, EditBoth(r, a, p, F, b)
      PROVE  Inv'
  <2> PICK q : q = [Idle EXCEPT !.op = "edit", !.article = a, !.price = p,
                                !.replaces = TRUE, !.features = F, !.columns = b]
    OBVIOUS
  <2>1. /\ q \in RequestRecords /\ q.op = "edit" /\ q.article = a /\ q.columns = b
        /\ q.replaces /\ q.row = 0
    BY <1>1 DEF Idle, RequestRecords
  <2>2. Begin(r, "update", q)
    BY <1>5 DEF EditBoth
  <2> QED
    BY <1>1, <1>5, <2>1, <2>2, BeginStep
<1> QED
  BY <1>2, <1>3, <1>4, <1>5 DEF Call

-----------------------------------------------------------------------------
(* Steps that write nothing yet.                                           *)

(* A handler that goes on, beyond the update already, with what it has.    *)
LEMMA GoStep ==
  ASSUME Inv, NEW r \in Requests, NEW Q \in RequestRecords,
         requests' = [requests EXCEPT ![r] = Q],
         UNCHANGED <<stock, prices, features, orders, clock, calls, locked>>,
         Sound(Q), Clears(Q), Excludes(Q),
         Q.op = requests[r].op, Q.article = requests[r].article,
         requests[r].pc # "idle", Past(requests[r])
  PROVE  Inv'
<1>1. calls' \in 0..MaxCalls /\ calls <= calls' /\ Sound(Q)'
  BY DEF Inv, TypeOK, Sound
<1>2. \A s \in Requests \ {r} : Together(Q, requests[s])
  BY RequestFacts DEF Together, Adds
<1> QED
  BY <1>1, <1>2, QuietStep

(* The answer of a handler that changed nothing: a roll-back.              *)
LEMMA ReplyStep ==
  ASSUME Inv, NEW r \in Requests, Reply(r),
         UNCHANGED <<stock, prices, features, orders, clock, calls, locked>>
  PROVE  Inv'
<1>1. calls' \in 0..MaxCalls /\ calls <= calls'
  BY DEF Inv, TypeOK
<1> QED
  BY <1>1, IdleFacts, QuietStep DEF Reply

LEMMA UpdateArticleStep ==
  ASSUME Inv, NEW r \in Requests, UpdateArticle(r)
  PROVE  Inv'
<1>1. /\ requests[r] \in RequestRecords /\ requests[r].pc = "update" /\ requests[r].op = "edit"
      /\ requests[r].row = 0 /\ Sound(requests[r])
  BY RequestFacts DEF UpdateArticle, At, Sound
<1> PICK pc : pc = AfterUpdate(r)
  OBVIOUS
<1>2. /\ pc \in {"readPrice", "snapshot", "commit"} /\ pc \in Steps
      /\ pc = "readPrice" => requests[r].price \in Prices
      /\ pc = "commit" => ~requests[r].replaces
  BY <1>1 DEF AfterUpdate, Steps, RequestRecords
<1> PICK Q : Q = [requests[r] EXCEPT !.pc = pc]
  OBVIOUS
<1>3. /\ Q \in RequestRecords /\ Q.pc = pc /\ Q.op = "edit"
      /\ Q.article = requests[r].article /\ Q.price = requests[r].price
      /\ Q.replaces = requests[r].replaces /\ Q.features = requests[r].features
      /\ Q.columns = requests[r].columns /\ Q.row = 0
      /\ Q.call = requests[r].call /\ Q.begun = requests[r].begun
  BY <1>1, <1>2 DEF RequestRecords
<1>4. /\ requests' = [requests EXCEPT ![r] = Q]
      /\ UNCHANGED <<stock, prices, features, orders, clock, calls, locked>>
  BY <1>1 DEF UpdateArticle, Go
<1>5. Sound(Q) /\ Clears(Q) /\ Excludes(Q)
  BY <1>1, <1>2, <1>3 DEF Sound, Clears, Excludes
<1>6. Sound(Q)'
  BY <1>4, <1>5 DEF Sound
<1>7. ASSUME NEW s \in Requests \ {r}
      PROVE  Together(Q, requests[s])
  <2>1. Sound(requests[s])
    BY RequestFacts
  <2>2. ASSUME locked, Past(requests[s]), requests[s].article = Q.article
        PROVE  FALSE
    <3>1. Q.columns /\ Q.article \in stock
      BY <1>1, <1>3, <2>2 DEF Sound
    <3>2. requests[s].columns /\ requests[s].pc \notin {"idle", "update"}
      BY <2>1, <2>2, <3>1 DEF Sound, Past
    <3> QED
      BY <1>3, <2>2, <3>1, <3>2 DEF UpdateArticle, RowHeld
  <2> QED
    BY <1>3, <2>2 DEF Together, Adds
<1>8. calls' \in 0..MaxCalls /\ calls <= calls'
  BY <1>4 DEF Inv, TypeOK
<1> QED
  BY <1>3, <1>4, <1>5, <1>6, <1>7, <1>8, QuietStep

LEMMA ReadPriceStep ==
  ASSUME Inv, NEW r \in Requests, ReadPrice(r)
  PROVE  Inv'
<1>1. /\ requests[r] \in RequestRecords /\ requests[r].pc = "readPrice"
      /\ requests[r].op = "edit" /\ requests[r].article \in stock
      /\ requests[r].row = 0 /\ requests[r].price \in Prices /\ Sound(requests[r])
  BY RequestFacts DEF ReadPrice, At, Sound
<1> PICK pc : pc = IF SamePrice(requests[r].article, requests[r].price)
                   THEN AfterPrice(r) ELSE "insertPrice"
  OBVIOUS
<1>2. /\ pc \in {"snapshot", "commit", "insertPrice"} /\ pc \in Steps
      /\ pc = "commit" => ~requests[r].replaces
      /\ pc = "insertPrice" => ~SamePrice(requests[r].article, requests[r].price)
  BY DEF AfterPrice, Steps
<1> PICK Q : Q = [requests[r] EXCEPT !.pc = pc]
  OBVIOUS
<1>3. /\ Q \in RequestRecords /\ Q.pc = pc /\ Q.op = "edit"
      /\ Q.article = requests[r].article /\ Q.price = requests[r].price
      /\ Q.replaces = requests[r].replaces /\ Q.features = requests[r].features
      /\ Q.columns = requests[r].columns /\ Q.row = 0
      /\ Q.call = requests[r].call /\ Q.begun = requests[r].begun
  BY <1>1, <1>2 DEF RequestRecords
<1>4. /\ requests' = [requests EXCEPT ![r] = Q]
      /\ UNCHANGED <<stock, prices, features, orders, clock, calls, locked>>
  BY <1>1 DEF ReadPrice, Go
<1>5. Sound(Q) /\ Clears(Q)
  BY <1>1, <1>2, <1>3 DEF Sound, Clears
<1>6. Excludes(Q)
  <2> SUFFICES ASSUME pc = "insertPrice"
               PROVE  requests[r].price \notin CurrentPrice(requests[r].article)
    BY <1>3 DEF Excludes
  <2>1. PICK i \in DOMAIN prices : Latest(History(requests[r].article)) = {i}
    BY <1>1 DEF Inv, Tables
  <2>2. CurrentPrice(requests[r].article) = {prices[i].price}
    BY <2>1 DEF CurrentPrice
  <2> QED
    BY <1>2, <2>2 DEF SamePrice
<1>7. Past(requests[r]) /\ requests[r].pc # "idle"
  BY <1>1 DEF Past
<1> QED
  BY <1>1, <1>3, <1>4, <1>5, <1>6, <1>7, GoStep

LEMMA SnapshotStep ==
  ASSUME Inv, NEW r \in Requests, SnapshotFeatures(r)
  PROVE  Inv'
<1>1. /\ requests[r] \in RequestRecords /\ requests[r].pc = "snapshot"
      /\ Sound(requests[r]) /\ Excludes(requests[r])
      /\ features \subseteq FeatureRows
  BY RequestFacts DEF SnapshotFeatures, At, Inv, TypeOK
<1> PICK S : S = ToDelete(requests[r].article)
  OBVIOUS
<1> PICK Q : Q = [requests[r] EXCEPT !.pc = "delete", !.snapshot = S]
  OBVIOUS
<1>2. /\ Q \in RequestRecords /\ Q.pc = "delete" /\ Q.op = requests[r].op
      /\ Q.article = requests[r].article /\ Q.price = requests[r].price
      /\ Q.replaces = requests[r].replaces /\ Q.features = requests[r].features
      /\ Q.columns = requests[r].columns /\ Q.row = requests[r].row
      /\ Q.call = requests[r].call /\ Q.begun = requests[r].begun /\ Q.snapshot = S
  <2>1. S \in SUBSET FeatureRows /\ "delete" \in Steps
    BY <1>1 DEF ToDelete, FeaturesOf, Steps
  <2> QED
    BY <1>1, <2>1 DEF RequestRecords
<1>3. /\ requests' = [requests EXCEPT ![r] = Q]
      /\ UNCHANGED <<stock, prices, features, orders, clock, calls, locked>>
  BY <1>1 DEF SnapshotFeatures
<1>4. Sound(Q)
  BY <1>1, <1>2 DEF Sound
<1>5. Clears(Q)
  BY <1>2 DEF Clears, ToDelete, FeaturesOf
<1>6. Past(requests[r]) /\ requests[r].pc # "idle" /\ Excludes(Q)
  BY <1>1, <1>2 DEF Past, Excludes
<1> QED
  BY <1>2, <1>3, <1>4, <1>5, <1>6, GoStep

LEMMA DeleteStep ==
  ASSUME Inv, NEW r \in Requests, DeleteFeatures(r)
  PROVE  Inv'
<1>1. /\ requests[r] \in RequestRecords /\ requests[r].pc = "delete"
      /\ Sound(requests[r]) /\ Excludes(requests[r]) /\ Clears(requests[r])
  BY RequestFacts DEF DeleteFeatures, At
<1> PICK D : D = requests[r].snapshot \cap features
  OBVIOUS
<1> PICK Q : Q = [requests[r] EXCEPT !.pc = "createFeatures", !.snapshot = {}, !.doomed = D]
  OBVIOUS
<1>2. /\ Q \in RequestRecords /\ Q.pc = "createFeatures" /\ Q.op = requests[r].op
      /\ Q.article = requests[r].article /\ Q.price = requests[r].price
      /\ Q.replaces = requests[r].replaces /\ Q.features = requests[r].features
      /\ Q.columns = requests[r].columns /\ Q.row = requests[r].row
      /\ Q.call = requests[r].call /\ Q.begun = requests[r].begun /\ Q.doomed = D
  <2>1. D \in SUBSET FeatureRows /\ "createFeatures" \in Steps
    BY <1>1 DEF RequestRecords, Steps
  <2> QED
    BY <1>1, <2>1 DEF RequestRecords
<1>3. /\ requests' = [requests EXCEPT ![r] = Q]
      /\ UNCHANGED <<stock, prices, features, orders, clock, calls, locked>>
  BY <1>1 DEF DeleteFeatures
<1>4. Sound(Q)
  BY <1>1, <1>2 DEF Sound
<1>5. Clears(Q)
  BY <1>1, <1>2 DEF Clears
<1>6. Past(requests[r]) /\ requests[r].pc # "idle" /\ Excludes(Q)
  BY <1>1, <1>2 DEF Past, Excludes
<1> QED
  BY <1>2, <1>3, <1>4, <1>5, <1>6, GoStep

LEMMA CreateFeaturesStep ==
  ASSUME Inv, NEW r \in Requests, CreateFeatures(r)
  PROVE  Inv'
<1>1. /\ requests[r] \in RequestRecords /\ requests[r].pc = "createFeatures"
      /\ Sound(requests[r]) /\ Excludes(requests[r]) /\ Clears(requests[r])
      /\ requests[r].op = "edit"
      /\ UNCHANGED <<stock, prices, features, orders, clock, calls, locked>>
  BY RequestFacts DEF CreateFeatures, At, Sound
<1>2. CASE Reply(r)
  BY <1>1, <1>2, ReplyStep
<1>3. CASE Go(r, "commit")
  <2> PICK Q : Q = [requests[r] EXCEPT !.pc = "commit"]
    OBVIOUS
  <2>1. /\ Q \in RequestRecords /\ Q.pc = "commit" /\ Q.op = requests[r].op
        /\ Q.article = requests[r].article /\ Q.price = requests[r].price
        /\ Q.replaces = requests[r].replaces /\ Q.features = requests[r].features
        /\ Q.columns = requests[r].columns /\ Q.row = requests[r].row
        /\ Q.call = requests[r].call /\ Q.begun = requests[r].begun
        /\ Q.doomed = requests[r].doomed /\ Q.snapshot = requests[r].snapshot
    BY <1>1 DEF RequestRecords, Steps
  <2>2. requests' = [requests EXCEPT ![r] = Q]
    BY <1>3 DEF Go
  <2>3. Sound(Q)
    BY <1>1, <2>1 DEF Sound
  <2>4. Clears(Q)
    BY <1>1, <2>1 DEF Clears
  <2>5. Past(requests[r]) /\ requests[r].pc # "idle" /\ Excludes(Q)
    BY <1>1, <2>1 DEF Past, Excludes
  <2> QED
    BY <1>1, <2>1, <2>2, <2>3, <2>4, <2>5, GoStep
<1> QED
  BY <1>2, <1>3 DEF CreateFeatures

-----------------------------------------------------------------------------
(* Inserts of prices.                                                      *)

(* What an insert leaves as it is.                                         *)
LEMMA InsertKeeps ==
  ASSUME TypeOK, NEW row \in PriceRows, ~row.committed, prices' = Append(prices, row),
         orders' = orders, locked' = locked
  PROVE  /\ \A a : CurrentPrice(a)' = CurrentPrice(a)
         /\ \A a : Latest(History(a))' = Latest(History(a))
         /\ \A o \in DOMAIN orders : Shown(o)' = Shown(o)
         /\ EveryOrderHasPrice => EveryOrderHasPrice'
         /\ HistoryHasNoRepeats => HistoryHasNoRepeats'
<1>1. /\ DOMAIN prices \subseteq DOMAIN prices'
      /\ \A i \in DOMAIN prices : prices'[i] = prices[i]
      /\ \A a : History(a)' = History(a)
  BY Inserted
<1>2. \A i \in DOMAIN prices : prices'[i].createdAt = prices[i].createdAt
  BY <1>1
<1>3. /\ \A I \in SUBSET DOMAIN prices : Latest(I)' = Latest(I)
      /\ \A i, j \in DOMAIN prices : NotLater(i, j)' <=> NotLater(i, j)
  BY <1>2, OrderKept
<1>4. \A a : History(a) \in SUBSET DOMAIN prices
  BY DEF History
<1>5. ASSUME NEW a PROVE Latest(History(a))' = Latest(History(a))
  BY <1>1, <1>3, <1>4 DEF Latest
<1>6. ASSUME NEW a PROVE CurrentPrice(a)' = CurrentPrice(a)
  <2>1. Latest(History(a)) \subseteq DOMAIN prices
    BY <1>4 DEF Latest
  <2> QED
    BY <1>1, <1>5, <2>1 DEF CurrentPrice
<1>7. ASSUME NEW o \in DOMAIN orders PROVE Shown(o)' = Shown(o)
  <2> PICK I : I = {j \in History(orders[o].article) : prices[j].createdAt <= orders[o].createdAt}
    OBVIOUS
  <2>1. I \in SUBSET DOMAIN prices /\ Shown(o) = Latest(I)
    BY <1>4 DEF Shown
  <2>2. I = {j \in History(orders[o].article)' : prices'[j].createdAt <= orders[o].createdAt}
    BY <1>1, <1>4
  <2>3. Shown(o)' = Latest(I)'
    BY <2>2 DEF Shown
  <2> QED
    BY <1>3, <2>1, <2>3
<1>8. EveryOrderHasPrice => EveryOrderHasPrice'
  BY <1>1, <1>7 DEF EveryOrderHasPrice
<1>9. ASSUME HistoryHasNoRepeats PROVE HistoryHasNoRepeats'
  <2> SUFFICES ASSUME locked, NEW a \in Articles, NEW i \in History(a),
                      NEW j \in Latest({k \in History(a) : k # i /\ NotLater(k, i)})'
               PROVE  prices'[j].price # prices'[i].price
    BY <1>1 DEF HistoryHasNoRepeats
  <2> PICK I : I = {k \in History(a) : k # i /\ NotLater(k, i)}
    OBVIOUS
  <2>1. I \in SUBSET DOMAIN prices /\ i \in DOMAIN prices
    BY <1>4
  <2>2. I = {k \in History(a)' : k # i /\ NotLater(k, i)'}
    BY <1>1, <1>3, <1>4
  <2>3. j \in Latest(I)
    BY <1>3, <2>1, <2>2 DEF Latest
  <2>4. j \in DOMAIN prices
    BY <2>1, <2>3 DEF Latest
  <2> QED
    BY <1>1, <1>9, <2>1, <2>3, <2>4 DEF HistoryHasNoRepeats
<1> QED
  BY <1>5, <1>6, <1>7, <1>8, <1>9

(* A handler inserts its price, whose row it keeps in mind.                *)
LEMMA InsertStep ==
  ASSUME Inv, NEW r \in Requests, NEW Q \in RequestRecords,
         requests' = [requests EXCEPT ![r] = Q], prices' = InsertedPrice(r),
         UNCHANGED <<stock, features, orders, clock, calls, locked>>,
         requests[r].pc \in {"createArticle", "insertPrice"},
         Q.pc \in {"commit", "snapshot"}, Q.row = Len(prices) + 1,
         Q.op = requests[r].op, Q.article = requests[r].article,
         Q.price = requests[r].price, Q.replaces = requests[r].replaces,
         Q.features = requests[r].features, Q.columns = requests[r].columns,
         Q.call = requests[r].call, Q.begun = requests[r].begun,
         Q.op = "add" => Q.pc = "commit", Clears(Q),
         locked => Q.price \notin CurrentPrice(Q.article),
         \A s \in Requests \ {r} : Together(Q, requests[s])
  PROVE  Inv'
<1>1. /\ Sound(requests[r]) /\ requests[r].price \in Prices /\ requests[r].article \in Articles
      /\ clock \in 0..MaxClock /\ clock \in Nat /\ requests[r].row = 0
      /\ TypeOK /\ Len(prices) \in Nat /\ DOMAIN prices = 1..Len(prices)
  <2>1. TypeOK /\ Sound(requests[r])
    BY RequestFacts DEF Inv
  <2> QED
    BY <2>1, CatalogAssumption DEF TypeOK, Sound
<1> PICK row : row = [article |-> Q.article, price |-> Q.price,
                      createdAt |-> clock, committed |-> FALSE]
  OBVIOUS
<1>2. /\ row \in PriceRows /\ ~row.committed /\ prices' = Append(prices, row)
      /\ row.article = Q.article /\ row.price = Q.price /\ row.createdAt = clock
  BY <1>1 DEF PriceRows, InsertedPrice
<1>3. /\ prices' \in Seq(PriceRows)
      /\ DOMAIN prices' = DOMAIN prices \cup {Len(prices) + 1}
      /\ \A i \in DOMAIN prices : prices'[i] = prices[i] /\ i # Len(prices) + 1
      /\ prices'[Len(prices) + 1] = row
      /\ \A a : History(a)' = History(a)
  BY <1>1, <1>2, Inserted
<1>4. /\ \A a : CurrentPrice(a)' = CurrentPrice(a)
      /\ \A a : Latest(History(a))' = Latest(History(a))
      /\ EveryOrderHasPrice' /\ HistoryHasNoRepeats'
  BY <1>1, <1>2, InsertKeeps DEF Inv
<1>5. \A a, i : i \in History(a) =>
          i \in 1..Len(prices) /\ prices[i].createdAt <= clock /\ prices'[i] = prices[i]
  BY <1>1, <1>3 DEF History, Inv, Tables
<1>6. Sound(Q)' /\ Clears(Q)' /\ Excludes(Q)'
  <2>1. Sound(Q)'
    BY <1>1, <1>2, <1>3 DEF Sound
  <2>2. Clears(Q)'
    BY DEF Clears
  <2>3. Excludes(Q)'
    <3>1. ASSUME NEW i \in History(Q.article)
          PROVE  i < Q.row /\ prices'[i].createdAt <= prices'[Q.row].createdAt
      BY <1>1, <1>2, <1>3, <1>5
    <3> QED
      BY <1>2, <1>3, <1>4, <3>1 DEF Excludes
  <2> QED
    BY <2>1, <2>2, <2>3
<1>7. ASSUME NEW s \in Requests \ {r}
      PROVE  Sound(requests[s])' /\ Clears(requests[s])' /\ Excludes(requests[s])'
  <2>1. /\ Sound(requests[s]) /\ Clears(requests[s]) /\ Excludes(requests[s])
        /\ requests'[s] = requests[s]
    BY RequestFacts DEF Inv, TypeOK
  <2>2. Sound(requests[s])'
    BY <1>3, <2>1 DEF Sound
  <2>3. Clears(requests[s])'
    BY <2>1 DEF Clears
  <2>4. Excludes(requests[s])'
    <3> PICK q : q = requests[s]
      OBVIOUS
    <3>1. q.row # 0 => q.row \in DOMAIN prices /\ prices'[q.row] = prices[q.row]
      BY <1>3, <2>1 DEF Sound
    <3>2. Excludes(q)'
      BY <1>3, <1>4, <1>5, <2>1, <3>1 DEF Excludes, Past
    <3> QED
      BY <2>1, <3>2 DEF Excludes, Past
  <2> QED
    BY <2>2, <2>3, <2>4
<1>8. requests' \in [Requests -> RequestRecords] /\ Handlers' /\ Apart'
  BY <1>6, <1>7, RecordStep
<1>9. TypeOK'
  BY <1>1, <1>3, <1>8 DEF TypeOK
<1>10. Tables'
  <2>1. \A i \in DOMAIN prices' : prices'[i].createdAt <= clock /\
            (prices'[i].committed => prices'[i].article \in stock)
    BY <1>1, <1>2, <1>3 DEF Inv, Tables
  <2>2. \A a \in stock : \E i \in DOMAIN prices' : Latest(History(a))' = {i}
    BY <1>3, <1>4 DEF Inv, Tables
  <2> QED
    BY <2>1, <2>2 DEF Inv, Tables
<1>11. ListsMixOnlyInOverlap'
  BY DEF Inv, ListsMixOnlyInOverlap
<1> QED
  BY <1>4, <1>8, <1>9, <1>10, <1>11 DEF Inv

LEMMA CreateArticleStep ==
  ASSUME Inv, NEW r \in Requests, CreateArticle(r)
  PROVE  Inv'
<1>1. /\ requests[r] \in RequestRecords /\ requests[r].pc = "createArticle"
      /\ requests[r].op = "add" /\ requests[r].article \notin stock
      /\ Len(prices) + 1 \in Nat
  BY RequestFacts DEF CreateArticle, At, Sound, Inv, TypeOK
<1> PICK k : k = Len(prices) + 1
  OBVIOUS
<1> PICK Q : Q = [requests[r] EXCEPT !.pc = "commit", !.row = k]
  OBVIOUS
<1>2. /\ Q \in RequestRecords /\ Q.pc = "commit" /\ Q.row = k
      /\ Q.op = requests[r].op /\ Q.article = requests[r].article
      /\ Q.price = requests[r].price /\ Q.replaces = requests[r].replaces
      /\ Q.features = requests[r].features /\ Q.columns = requests[r].columns
      /\ Q.call = requests[r].call /\ Q.begun = requests[r].begun
  <2>1. "commit" \in Steps /\ k \in Nat
    BY <1>1 DEF Steps
  <2> QED
    BY <1>1, <2>1 DEF RequestRecords
<1>3. /\ requests' = [requests EXCEPT ![r] = Q] /\ prices' = InsertedPrice(r)
      /\ UNCHANGED <<stock, features, orders, clock, calls, locked>>
  BY <1>1 DEF CreateArticle
<1>4. Clears(Q)
  BY <1>1, <1>2 DEF Clears, Inv, Tables
<1>5. CurrentPrice(Q.article) = {}
  <2>1. History(Q.article) = {}
    BY <1>1, <1>2 DEF History, Inv, Tables
  <2> QED
    BY <2>1 DEF CurrentPrice, Latest
<1>6. ASSUME NEW s \in Requests \ {r} PROVE Together(Q, requests[s])
  <2>1. Sound(requests[s]) /\ Together(requests[r], requests[s])
    BY RequestFacts
  <2> QED
    BY <1>1, <1>2, <2>1 DEF Together, Adds, Past, Sound
<1> QED
  BY <1>1, <1>2, <1>3, <1>4, <1>5, <1>6, InsertStep

LEMMA InsertPriceStep ==
  ASSUME Inv, NEW r \in Requests, InsertPrice(r)
  PROVE  Inv'
<1>1. /\ requests[r] \in RequestRecords /\ requests[r].pc = "insertPrice"
      /\ requests[r].op = "edit" /\ Len(prices) + 1 \in Nat
      /\ Excludes(requests[r])
  BY RequestFacts DEF InsertPrice, At, Sound, Inv, TypeOK
<1> PICK k : k = Len(prices) + 1
  OBVIOUS
<1> PICK pc : pc = AfterPrice(r)
  OBVIOUS
<1>2. /\ pc \in {"snapshot", "commit"} /\ pc \in Steps
      /\ pc = "commit" => ~requests[r].replaces
  BY DEF AfterPrice, Steps
<1> PICK Q : Q = [requests[r] EXCEPT !.pc = pc, !.row = k]
  OBVIOUS
<1>3. /\ Q \in RequestRecords /\ Q.pc = pc /\ Q.row = k
      /\ Q.op = requests[r].op /\ Q.article = requests[r].article
      /\ Q.price = requests[r].price /\ Q.replaces = requests[r].replaces
      /\ Q.features = requests[r].features /\ Q.columns = requests[r].columns
      /\ Q.call = requests[r].call /\ Q.begun = requests[r].begun
  BY <1>1, <1>2 DEF RequestRecords
<1>4. /\ requests' = [requests EXCEPT ![r] = Q] /\ prices' = InsertedPrice(r)
      /\ UNCHANGED <<stock, features, orders, clock, calls, locked>>
  BY <1>1 DEF InsertPrice
<1>5. Clears(Q)
  BY <1>2, <1>3 DEF Clears
<1>6. locked => Q.price \notin CurrentPrice(Q.article)
  BY <1>1, <1>3 DEF Excludes, Past
<1>7. \A s \in Requests \ {r} : Together(Q, requests[s])
  BY <1>1, <1>2, <1>3, RequestFacts DEF Together, Adds, Past
<1> QED
  BY <1>1, <1>2, <1>3, <1>4, <1>5, <1>6, <1>7, InsertStep

-----------------------------------------------------------------------------
(* Commits.                                                                *)

(* What a commit makes of the histories.                                   *)
LEMMA CommitFacts ==
  ASSUME Inv, NEW r \in Requests, Commit(r)
  PROVE  /\ requests[r] \in RequestRecords /\ requests[r].pc = "commit"
         /\ Past(requests[r]) /\ requests[r].row \in Nat /\ TypeOK
         /\ Sound(requests[r]) /\ Clears(requests[r]) /\ Excludes(requests[r])
         /\ prices' \in Seq(PriceRows) /\ DOMAIN prices' = DOMAIN prices
         /\ \A i \in DOMAIN prices : /\ prices'[i].article = prices[i].article
                                     /\ prices'[i].price = prices[i].price
                                     /\ prices'[i].createdAt = prices[i].createdAt
                                     /\ prices'[i].committed =>
                                           prices[i].committed \/ i = requests[r].row
         /\ \A a : History(a)' =
               IF a = requests[r].article /\ requests[r].row # 0
               THEN History(a) \cup {requests[r].row} ELSE History(a)
         /\ \A a : History(a) \in SUBSET DOMAIN prices
         /\ \A I \in SUBSET DOMAIN prices : Latest(I)' = Latest(I)
         /\ \A i, j \in DOMAIN prices : NotLater(i, j)' <=> NotLater(i, j)
         /\ requests[r].row # 0 =>
               requests[r].row \in DOMAIN prices /\ requests[r].row \in DOMAIN prices'
<1>1. /\ requests[r] \in RequestRecords /\ requests[r].pc = "commit"
      /\ Sound(requests[r]) /\ Clears(requests[r]) /\ Excludes(requests[r])
      /\ TypeOK
  BY RequestFacts DEF Commit, At, Inv
<1>2. requests[r].row \in Nat /\ Past(requests[r])
  BY <1>1 DEF RequestRecords, Past
<1> PICK k : k = requests[r].row
  OBVIOUS
<1>3. prices' = [i \in DOMAIN prices |-> [prices[i] EXCEPT !.committed = @ \/ i = k]]
  BY DEF Commit
<1>4. /\ prices' \in Seq(PriceRows) /\ DOMAIN prices' = DOMAIN prices
      /\ \A i \in DOMAIN prices : /\ prices'[i].article = prices[i].article
                                  /\ prices'[i].price = prices[i].price
                                  /\ prices'[i].createdAt = prices[i].createdAt
                                  /\ prices'[i].committed => prices[i].committed \/ i = k
      /\ \A a : History(a)' =
            History(a) \cup {i \in DOMAIN prices : i = k /\ prices[i].article = a}
  <2>1. k \in Nat
    BY <1>2
  <2> QED
    BY <1>1, <1>3, <2>1, Committed, Zenon
<1>5. k # 0 => k \in DOMAIN prices /\ prices[k].article = requests[r].article
  BY <1>1 DEF Sound
<1>6. 0 \notin DOMAIN prices
  BY <1>1, PriceTypes
<1>7. \A a : History(a)' =
          IF a = requests[r].article /\ k # 0 THEN History(a) \cup {k} ELSE History(a)
  BY <1>4, <1>5, <1>6
<1>8. \A a : History(a) \in SUBSET DOMAIN prices
  BY DEF History
<1>9. /\ \A I \in SUBSET DOMAIN prices : Latest(I)' = Latest(I)
      /\ \A i, j \in DOMAIN prices : NotLater(i, j)' <=> NotLater(i, j)
  BY <1>4, OrderKept
<1> QED
  BY <1>1, <1>2, <1>4, <1>5, <1>7, <1>8, <1>9

(* An article has a latest price, and an order its own, after a commit.    *)
LEMMA CommitPrices ==
  ASSUME Inv, NEW r \in Requests, Commit(r)
  PROVE  /\ \A b \in stock' : \E i \in DOMAIN prices' : Latest(History(b))' = {i}
         /\ EveryOrderHasPrice'
<1> PICK a, k : a = requests[r].article /\ k = requests[r].row
  OBVIOUS
<1>1. /\ DOMAIN prices' = DOMAIN prices /\ TypeOK
      /\ \A i \in DOMAIN prices : /\ prices'[i].article = prices[i].article
                                  /\ prices'[i].createdAt = prices[i].createdAt
      /\ \A b : History(b)' = IF b = a /\ k # 0 THEN History(b) \cup {k} ELSE History(b)
      /\ \A b : History(b) \in SUBSET DOMAIN prices
      /\ \A I \in SUBSET DOMAIN prices : Latest(I)' = Latest(I)
      /\ k # 0 => k \in DOMAIN prices
      /\ Sound(requests[r]) /\ requests[r].pc = "commit"
  BY CommitFacts
<1>2. ASSUME NEW b \in stock'
      PROVE  \E i \in DOMAIN prices' : Latest(History(b))' = {i}
  <2> PICK I : I = History(b)
    OBVIOUS
  <2> PICK J : J = IF b = a /\ k # 0 THEN I \cup {k} ELSE I
    OBVIOUS
  <2>1. J = History(b)' /\ J \in SUBSET DOMAIN prices /\ I \in SUBSET DOMAIN prices
    BY <1>1
  <2>2. Latest(History(b))' = Latest(J)
    BY <1>1, <2>1 DEF Latest
  <2>3. b \in stock => \E i \in DOMAIN prices : Latest(I) = {i}
    BY DEF Inv, Tables
  <2>4. b \notin stock => b = a /\ k # 0 /\ I = {}
    <3>1. b \notin stock => b = a
      BY DEF Commit
    <3>2. b \notin stock => k # 0
      BY <1>1, <3>1 DEF Sound
    <3>3. b \notin stock => I = {}
      BY DEF History, Inv, Tables
    <3> QED
      BY <3>1, <3>2, <3>3
  <2>5. \E i \in DOMAIN prices : Latest(J) = {i}
    <3>1. CASE b = a /\ k # 0
      <4>1. J = I \cup {k} /\ k \in DOMAIN prices
        BY <1>1, <3>1
      <4>2. I = {} \/ \E i \in DOMAIN prices : Latest(I) = {i}
        BY <2>3, <2>4
      <4> QED
        <5>1. \E i \in DOMAIN prices : Latest(I \cup {k}) = {i}
          BY <1>1, <2>1, <4>1, <4>2, OneMore
        <5> QED
          BY <4>1, <5>1
    <3>2. CASE ~(b = a /\ k # 0)
      BY <2>3, <2>4, <3>2
    <3> QED
      BY <3>1, <3>2
  <2> QED
    BY <1>1, <2>2, <2>5
<1>3. EveryOrderHasPrice'
  <2>1. orders' = orders
    BY DEF Commit
  <2> SUFFICES ASSUME NEW o \in DOMAIN orders
               PROVE  \E i \in DOMAIN prices' : Shown(o)' = {i}
    BY <2>1 DEF EveryOrderHasPrice
  <2> PICK b, t : b = orders[o].article /\ t = orders[o].createdAt
    OBVIOUS
  <2> PICK I : I = {j \in History(b) : prices[j].createdAt <= t}
    OBVIOUS
  <2> PICK J : J = {j \in History(b)' : prices'[j].createdAt <= t}
    OBVIOUS
  <2>2. Shown(o) = Latest(I) /\ Shown(o)' = Latest(J)'
    BY <2>1 DEF Shown
  <2>3. PICK i \in DOMAIN prices : Latest(I) = {i}
    BY <2>2 DEF Inv, EveryOrderHasPrice
  <2>4. I \in SUBSET DOMAIN prices
    BY <1>1
  <2>5. J = I \/ (J = I \cup {k} /\ k \in DOMAIN prices)
    BY <1>1
  <2>6. \E j \in DOMAIN prices : Latest(J) = {j}
    <3>1. CASE J = I
      BY <2>3, <3>1
    <3>2. CASE J = I \cup {k} /\ k \in DOMAIN prices
      <4>1. I = {} \/ \E j \in DOMAIN prices : Latest(I) = {j}
        BY <2>3
      <4>2. \E j \in DOMAIN prices : Latest(I \cup {k}) = {j}
        BY <1>1, <2>4, <3>2, <4>1, OneMore
      <4> QED
        BY <3>2, <4>2
    <3> QED
      BY <2>5, <3>1, <3>2
  <2>7. Latest(J)' = Latest(J)
    BY <1>1, <2>4, <2>5
  <2> QED
    BY <1>1, <2>2, <2>6, <2>7
<1> QED
  BY <1>2, <1>3

(* A row that is committed under the lock is the last of its article, and  *)
(* its price is not that of the one before.                                *)
LEMMA CommitChanges ==
  ASSUME Inv, NEW r \in Requests, Commit(r)
  PROVE  HistoryHasNoRepeats'
<1> PICK a, k : a = requests[r].article /\ k = requests[r].row
  OBVIOUS
<1>1. /\ DOMAIN prices' = DOMAIN prices /\ TypeOK
      /\ \A i \in DOMAIN prices : /\ prices'[i].price = prices[i].price
                                  /\ prices'[i].createdAt = prices[i].createdAt
      /\ \A b : History(b)' = IF b = a /\ k # 0 THEN History(b) \cup {k} ELSE History(b)
      /\ \A b : History(b) \in SUBSET DOMAIN prices
      /\ \A i, j \in DOMAIN prices : NotLater(i, j)' <=> NotLater(i, j)
      /\ k # 0 => k \in DOMAIN prices
      /\ Excludes(requests[r]) /\ Past(requests[r]) /\ locked' = locked
  BY CommitFacts DEF Commit
<1>2. \A i \in DOMAIN prices : prices[i].createdAt \in Nat /\ i \in Nat
  BY <1>1, PriceTypes
<1> SUFFICES ASSUME locked, NEW b \in Articles, NEW i \in History(b)',
                    NEW j \in Latest({m \in History(b) : m # i /\ NotLater(m, i)})'
             PROVE  prices'[j].price # prices'[i].price
  BY <1>1 DEF HistoryHasNoRepeats
<1> PICK J : J = {m \in History(b)' : m # i /\ NotLater(m, i)'}
  OBVIOUS
<1>3. /\ i \in DOMAIN prices /\ J \in SUBSET DOMAIN prices
      /\ j \in J /\ j \in DOMAIN prices
      /\ \A m \in J : NotLater(m, j)
  <2>1. i \in DOMAIN prices /\ J \in SUBSET DOMAIN prices
    BY <1>1
  <2>2. j \in J /\ \A m \in J : NotLater(m, j)'
    BY DEF Latest
  <2> QED
    BY <1>1, <2>1, <2>2
<1>4. ASSUME k # 0, b = a
      PROVE  \A m \in History(b) : m < k /\ prices[m].createdAt <= prices[k].createdAt
  BY <1>1, <1>4 DEF Excludes
<1>5. CASE i \in History(b)
  <2> PICK I : I = {m \in History(b) : m # i /\ NotLater(m, i)}
    OBVIOUS
  <2>1. k # 0 /\ b = a => ~NotLater(k, i)
    BY <1>1, <1>2, <1>3, <1>4, <1>5 DEF NotLater
  <2>2. J = I
    BY <1>1, <1>3, <2>1
  <2>3. j \in Latest(I)
    BY <1>3, <2>2 DEF Latest
  <2>4. prices[j].price # prices[i].price
    BY <1>5, <2>3 DEF Inv, HistoryHasNoRepeats
  <2> QED
    BY <1>1, <1>3, <2>4
<1>6. CASE i \notin History(b)
  <2>1. i = k /\ k # 0 /\ b = a
    BY <1>1, <1>6
  <2>2. \A m \in History(b) : NotLater(m, k)
    BY <1>1, <1>2, <1>4, <2>1 DEF NotLater
  <2>3. J = History(b)
    BY <1>1, <1>3, <1>6, <2>1, <2>2
  <2>4. j \in Latest(History(b))
    BY <1>3, <2>3 DEF Latest
  <2>5. prices[j].price \in CurrentPrice(b)
    BY <2>4 DEF CurrentPrice
  <2>6. prices[k].price \notin CurrentPrice(b)
    BY <1>1, <2>1 DEF Excludes
  <2> QED
    BY <1>1, <1>3, <2>1, <2>5, <2>6
<1> QED
  BY <1>5, <1>6

(* What was committed before r began is gone with its commit, or has one   *)
(* of its own article's calls that overlapped.                             *)
LEMMA CommitLists ==
  ASSUME Inv, NEW r \in Requests, Commit(r)
  PROVE  /\ features' \subseteq FeatureRows
         /\ \A x \in features' : x.article \in stock' /\ x.call <= x.done /\ x.done <= calls
         /\ \A x \in features' : x \in features \/ x.done = calls
         /\ ListsMixOnlyInOverlap'
<1> PICK q : q = requests[r]
  OBVIOUS
<1>1. /\ q \in RequestRecords /\ q.pc = "commit" /\ Sound(q) /\ Clears(q)
      /\ stock' = stock \cup {q.article}
      /\ features' = (features \ q.doomed) \cup NewFeatures(r)
  BY CommitFacts DEF Commit
<1>2. /\ q.article \in Articles /\ q.call \in 1..calls /\ calls \in 0..MaxCalls
      /\ calls \in Nat /\ q.features \subseteq UNION FeatureSets
      /\ features \subseteq FeatureRows
      /\ q.features # {} => q.replaces
  BY <1>1, CatalogAssumption DEF Sound, Inv, TypeOK, RequestRecords
<1>3. calls \in 1..MaxCalls /\ q.call \in 1..MaxCalls
  BY <1>2, CatalogAssumption
<1>4. ASSUME NEW x \in NewFeatures(r)
      PROVE  /\ x \in FeatureRows /\ x.article = q.article /\ x.call = q.call
             /\ x.done = calls /\ q.replaces
  BY <1>2, <1>3 DEF NewFeatures, FeatureRows
<1>5. ASSUME NEW x \in features
      PROVE  x.article \in stock /\ x.call <= x.done /\ x.done <= calls
             /\ x.call \in Nat /\ x.done \in Nat
  BY <1>2 DEF Inv, Tables, FeatureRows
<1>6. ASSUME NEW x \in features', NEW y \in features', x.article = y.article
      PROVE  y.call <= x.done
  <2>1. CASE x \in features /\ y \in features
    BY <1>6, <2>1 DEF Inv, ListsMixOnlyInOverlap
  <2>2. CASE x \in NewFeatures(r) /\ y \in features
    BY <1>2, <1>4, <1>5, <2>2
  <2>3. CASE x \in NewFeatures(r) /\ y \in NewFeatures(r)
    BY <1>2, <1>4, <2>3
  <2>4. CASE x \in features /\ x \notin q.doomed /\ y \in NewFeatures(r)
    <3>1. x.article = q.article /\ y.call = q.call /\ q.replaces
      BY <1>4, <1>6, <2>4
    <3> QED
      BY <1>1, <2>4, <3>1 DEF Clears
  <2> QED
    BY <1>1, <2>1, <2>2, <2>3, <2>4
<1>7. ListsMixOnlyInOverlap'
  BY <1>6 DEF ListsMixOnlyInOverlap
<1>8. features' \subseteq FeatureRows
  BY <1>1, <1>2, <1>4
<1>9. ASSUME NEW x \in features'
      PROVE  /\ x.article \in stock' /\ x.call <= x.done /\ x.done <= calls
             /\ x \in features \/ x.done = calls
  <2>1. CASE x \in features
    BY <1>1, <1>5, <2>1
  <2>2. CASE x \in NewFeatures(r)
    BY <1>1, <1>2, <1>4, <2>2
  <2> QED
    BY <1>1, <2>1, <2>2
<1> QED
  BY <1>7, <1>8, <1>9

LEMMA CommitStep ==
  ASSUME Inv, NEW r \in Requests, Commit(r)
  PROVE  Inv'
<1> PICK a, k : a = requests[r].article /\ k = requests[r].row
  OBVIOUS
<1>1. /\ requests' = [requests EXCEPT ![r] = Idle] /\ stock' = stock \cup {a}
      /\ UNCHANGED <<orders, clock, calls, locked>>
  BY DEF Commit, Reply
<1>2. /\ prices' \in Seq(PriceRows) /\ DOMAIN prices' = DOMAIN prices
      /\ \A i \in DOMAIN prices : /\ prices'[i].article = prices[i].article
                                  /\ prices'[i].price = prices[i].price
                                  /\ prices'[i].createdAt = prices[i].createdAt
                                  /\ prices'[i].committed => prices[i].committed \/ i = k
      /\ \A b : History(b)' = IF b = a /\ k # 0 THEN History(b) \cup {k} ELSE History(b)
      /\ \A b : History(b) \in SUBSET DOMAIN prices
      /\ \A I \in SUBSET DOMAIN prices : Latest(I)' = Latest(I)
      /\ requests[r].pc = "commit" /\ Past(requests[r]) /\ Sound(requests[r])
  BY CommitFacts
<1>3. /\ features' \subseteq FeatureRows
      /\ \A x \in features' : x.article \in stock' /\ x.call <= x.done /\ x.done <= calls
      /\ \A x \in features' : x \in features \/ x.done = calls
      /\ ListsMixOnlyInOverlap'
  BY CommitLists
<1>4. ASSUME NEW b, b # a \/ k = 0
      PROVE  CurrentPrice(b)' = CurrentPrice(b) /\ History(b)' = History(b)
  <2>1. History(b)' = History(b)
    BY <1>2, <1>4
  <2>2. Latest(History(b))' = Latest(History(b)) /\ Latest(History(b)) \subseteq DOMAIN prices
    BY <1>2, <2>1 DEF Latest
  <2> QED
    BY <1>2, <2>1, <2>2 DEF CurrentPrice
<1>5. ASSUME NEW s \in Requests \ {r}
      PROVE  Sound(requests[s])' /\ Clears(requests[s])' /\ Excludes(requests[s])'
  <2> PICK q : q = requests[s]
    OBVIOUS
  <2>1. /\ Sound(q) /\ Clears(q) /\ Excludes(q) /\ requests'[s] = q
        /\ Together(requests[r], q)
    BY <1>1, RequestFacts DEF Inv, TypeOK
  <2>2. q.pc # "idle" /\ q.op = "add" => q.article \notin stock'
    BY <1>1, <1>2, <2>1 DEF Sound, Together, Adds
  <2>3. Sound(q)'
    BY <1>1, <1>2, <2>1, <2>2 DEF Sound
  <2>4. Clears(q)'
    <3>1. q.pc # "idle" => q.call <= calls
      BY <2>1 DEF Sound
    <3> QED
      BY <1>3, <2>1, <3>1 DEF Clears
  <2>5. Excludes(q)'
    <3> SUFFICES ASSUME locked, Past(q)
                 PROVE  Excludes(q)'
      BY <1>1 DEF Excludes
    <3>1. q.article # a
      BY <1>2, <2>1 DEF Together
    <3>2. CurrentPrice(q.article)' = CurrentPrice(q.article)
      BY <1>4, <3>1
    <3>3. History(q.article)' = History(q.article)
      BY <1>4, <3>1
    <3>4. q.row # 0 => q.row \in DOMAIN prices
      BY <2>1 DEF Sound
    <3> QED
      BY <1>2, <2>1, <3>2, <3>3, <3>4 DEF Excludes
  <2> QED
    BY <2>1, <2>3, <2>4, <2>5 DEF Sound, Clears, Excludes
<1>6. requests' \in [Requests -> RequestRecords] /\ Handlers' /\ Apart'
  BY <1>1, <1>5, IdleFacts, RecordStep
<1>7. TypeOK'
  <2>1. a \in Articles
    BY <1>2 DEF Sound
  <2> QED
    BY <1>1, <1>2, <1>3, <1>6, <2>1 DEF Inv, TypeOK
<1>8. Tables'
  <2>1. \A i \in DOMAIN prices' : prices'[i].createdAt <= clock /\
            (prices'[i].committed => prices'[i].article \in stock')
    BY <1>1, <1>2 DEF Inv, Tables, Sound
  <2> QED
    BY <1>1, <1>3, <2>1, CommitPrices DEF Inv, Tables
<1> QED
  BY <1>3, <1>6, <1>7, <1>8, CommitPrices, CommitChanges DEF Inv

-----------------------------------------------------------------------------
(* Orders and time.                                                        *)

LEMMA PlaceOrderStep ==
  ASSUME Inv, NEW a \in stock, PlaceOrder(a)
  PROVE  Inv'
<1> PICK o : o = [article |-> a, createdAt |-> clock]
  OBVIOUS
<1>1. /\ orders \in Seq(Orders) /\ o \in Orders /\ o.article = a /\ o.createdAt = clock
      /\ UNCHANGED <<stock, prices, features, requests, clock, calls, locked>>
      /\ orders' = Append(orders, o)
  BY DEF PlaceOrder, Orders, Inv, TypeOK
<1>2. /\ orders' \in Seq(Orders)
      /\ DOMAIN orders' = DOMAIN orders \cup {Len(orders) + 1}
      /\ \A i \in DOMAIN orders : orders'[i] = orders[i]
      /\ orders'[Len(orders) + 1] = o
  BY <1>1
<1>3. TypeOK' /\ Tables'
  <2>1. TypeOK'
    BY <1>1, <1>2 DEF Inv, TypeOK
  <2>2. \A i \in DOMAIN orders' : orders'[i].article \in stock /\ orders'[i].createdAt <= clock
    <3>1. clock \in Nat
      BY CatalogAssumption DEF Inv, TypeOK
    <3> QED
      BY <1>1, <1>2, <3>1 DEF Inv, Tables
  <2>3. Tables'
    BY <1>1, <2>2 DEF Inv, Tables, Latest, History, NotLater
  <2> QED
    BY <2>1, <2>3
<1>4. Handlers' /\ Apart' /\ ListsMixOnlyInOverlap' /\ HistoryHasNoRepeats'
  BY <1>1 DEF Inv, Handlers, Apart, Sound, Clears, Excludes, Past, Together, Adds,
      CurrentPrice, Latest, History, NotLater, ListsMixOnlyInOverlap, HistoryHasNoRepeats
<1>5. EveryOrderHasPrice'
  <2> SUFFICES ASSUME NEW i \in DOMAIN orders'
               PROVE  \E j \in DOMAIN prices : Shown(i)' = {j}
    BY <1>1 DEF EveryOrderHasPrice
  <2>1. CASE i \in DOMAIN orders
    <3>1. Shown(i)' = Shown(i)
      BY <1>1, <1>2, <2>1 DEF Shown, Latest, History, NotLater
    <3> QED
      BY <2>1, <3>1 DEF Inv, EveryOrderHasPrice
  <2>2. CASE i = Len(orders) + 1
    <3>1. \A j \in History(a) : prices[j].createdAt <= clock
      BY DEF Inv, Tables, History
    <3>2. {j \in History(a) : prices[j].createdAt <= clock} = History(a)
      BY <3>1
    <3>3. Shown(i)' = Latest(History(a))
      BY <1>1, <1>2, <2>2, <3>2 DEF Shown, Latest, History, NotLater
    <3> QED
      BY <3>3 DEF Inv, Tables
  <2> QED
    BY <1>2, <2>1, <2>2
<1> QED
  BY <1>3, <1>4, <1>5 DEF Inv

LEMMA TickStep == Inv /\ Tick => Inv'
<1> SUFFICES ASSUME Inv, Tick PROVE Inv'
  OBVIOUS
<1>1. /\ clock \in Nat /\ clock' = clock + 1 /\ clock' \in 0..MaxClock
      /\ UNCHANGED <<stock, prices, features, orders, requests, calls, locked>>
  BY CatalogAssumption DEF Tick, Inv, TypeOK
<1>2. TypeOK'
  BY <1>1 DEF Inv, TypeOK
<1>3. Tables'
  <2>1. /\ \A i \in DOMAIN prices : prices[i].createdAt \in Nat
        /\ \A o \in DOMAIN orders : orders[o].createdAt \in Nat
    <3>1. TypeOK /\ orders \in Seq(Orders)
      BY DEF Inv, TypeOK
    <3>2. \A o \in DOMAIN orders : orders[o] \in Orders
      BY <3>1
    <3> QED
      BY <3>1, <3>2, PriceTypes, CatalogAssumption DEF Orders
  <2> QED
    BY <1>1, <2>1 DEF Inv, Tables, Latest, History, NotLater
<1>4. Handlers'
  <2> SUFFICES ASSUME NEW r \in Requests
               PROVE  Sound(requests[r])' /\ Clears(requests[r])' /\ Excludes(requests[r])'
    BY DEF Handlers
  <2>1. /\ Sound(requests[r]) /\ Clears(requests[r]) /\ Excludes(requests[r])
        /\ requests[r].begun \in Nat
    BY RequestFacts DEF RequestRecords
  <2>2. Sound(requests[r])'
    BY <1>1, <2>1 DEF Sound
  <2> QED
    BY <1>1, <2>1, <2>2 DEF Clears, Excludes, Past, CurrentPrice, Latest, History, NotLater
<1>5. Apart' /\ EveryOrderHasPrice' /\ ListsMixOnlyInOverlap' /\ HistoryHasNoRepeats'
  BY <1>1 DEF Inv, Apart, Past, Together, Adds, Latest, History, NotLater, Shown,
      EveryOrderHasPrice, ListsMixOnlyInOverlap, HistoryHasNoRepeats
<1> QED
  BY <1>2, <1>3, <1>4, <1>5 DEF Inv

-----------------------------------------------------------------------------
(* Theorems.                                                               *)

LEMMA NextInv == Inv /\ [Next]_vars => Inv'
<1> SUFFICES ASSUME Inv, [Next]_vars PROVE Inv'
  OBVIOUS
<1>1. ASSUME NEW r \in Requests, Call(r) PROVE Inv'
  BY <1>1, CallStep
<1>2. ASSUME NEW r \in Requests, Step(r) PROVE Inv'
  BY <1>2, CreateArticleStep, UpdateArticleStep, ReadPriceStep, InsertPriceStep, SnapshotStep,
     DeleteStep, CreateFeaturesStep, CommitStep DEF Step
<1>3. ASSUME NEW r \in Requests, Abort(r) PROVE Inv'
  BY <1>3, ReplyStep DEF Abort
<1>4. ASSUME NEW a \in stock, PlaceOrder(a) PROVE Inv'
  BY <1>4, PlaceOrderStep
<1>5. CASE Tick
  BY <1>5, TickStep
<1>6. CASE UNCHANGED vars
  <2>1. TypeOK' /\ Tables'
    BY <1>6 DEF vars, Inv, TypeOK, Tables, Latest, History, NotLater
  <2>2. Handlers'
    BY <1>6 DEF vars, Inv, Handlers, Sound, Clears, Excludes, Past, CurrentPrice, Latest,
        History, NotLater
  <2>3. Apart' /\ ListsMixOnlyInOverlap'
    BY <1>6 DEF vars, Inv, Apart, Together, Adds, Past, ListsMixOnlyInOverlap
  <2>4. EveryOrderHasPrice' /\ HistoryHasNoRepeats'
    BY <1>6 DEF vars, Inv, EveryOrderHasPrice, HistoryHasNoRepeats, Shown, Latest, History,
        NotLater
  <2> QED
    BY <2>1, <2>2, <2>3, <2>4 DEF Inv
<1> QED
  BY <1>1, <1>2, <1>3, <1>4, <1>5, <1>6 DEF Next

LEMMA InvAlways == Spec => []Inv
  BY InitInv, NextInv, PTL DEF Spec

(* The tables and the handlers of add and edit hold what their types say.  *)
THEOREM CatalogTypes == Spec => []TypeOK
<1>1. Inv => TypeOK
  BY DEF Inv
<1> QED
  BY <1>1, InvAlways, PTL

(* findOrderWithHistoricalPrices finds one price for every article that    *)
(* was ordered, whatever edits overlap, fail or share an instant.          *)
THEOREM OrdersArePriced == Spec => []EveryOrderHasPrice
<1>1. Inv => EveryOrderHasPrice
  BY DEF Inv
<1> QED
  BY <1>1, InvAlways, PTL

(* Lists of features that edit replaces stand side by side only if the     *)
(* calls that sent them overlapped.                                        *)
THEOREM ListsMixInOverlap == Spec => []ListsMixOnlyInOverlap
<1>1. Inv => ListsMixOnlyInOverlap
  BY DEF Inv
<1> QED
  BY <1>1, InvAlways, PTL

(* Where every edit locks its article, the price history that edit keeps   *)
(* records changes only.                                                   *)
THEOREM HistoryRecordsChanges == Spec => []HistoryHasNoRepeats
<1>1. Inv => HistoryHasNoRepeats
  BY DEF Inv
<1> QED
  BY <1>1, InvAlways, PTL

(* An order shows another price only through the commit of an edit of its  *)
(* article that had begun by the time the order was placed.                *)
LEMMA PriceStep ==
  ASSUME Inv, [Next]_vars, NEW o \in DOMAIN orders, Shown(o)' # Shown(o)
  PROVE  \E r \in Requests : /\ At(r, "commit")
                             /\ requests'[r].pc = "idle"
                             /\ requests[r].article = orders[o].article
                             /\ requests[r].begun <= orders[o].createdAt
<1>1. ASSUME prices' = prices, orders'[o] = orders[o] PROVE FALSE
  BY <1>1 DEF Shown, Latest, History, NotLater
<1>2. ASSUME NEW r \in Requests, Call(r) PROVE FALSE
  BY <1>1, <1>2 DEF Call, Add, EditPrice, EditFeatures, EditBoth, Begin
<1>3. ASSUME NEW r \in Requests, CreateArticle(r) \/ InsertPrice(r) PROVE FALSE
  <2>1. /\ TypeOK /\ requests[r].price \in Prices /\ requests[r].article \in Articles
        /\ clock \in 0..MaxClock
    BY <1>3, RequestFacts DEF Inv, TypeOK, Sound, CreateArticle, InsertPrice, At
  <2> PICK row : row = [article |-> requests[r].article, price |-> requests[r].price,
                        createdAt |-> clock, committed |-> FALSE]
    OBVIOUS
  <2>2. row \in PriceRows /\ ~row.committed
    BY <2>1 DEF PriceRows
  <2>3. prices' = Append(prices, row) /\ orders' = orders /\ locked' = locked
    BY <1>3 DEF CreateArticle, InsertPrice, InsertedPrice
  <2> QED
    BY <2>1, <2>2, <2>3, InsertKeeps
<1>4. ASSUME NEW r \in Requests,
             \/ UpdateArticle(r) \/ ReadPrice(r) \/ SnapshotFeatures(r) \/ DeleteFeatures(r)
             \/ CreateFeatures(r) \/ Abort(r)
      PROVE  FALSE
  BY <1>1, <1>4 DEF UpdateArticle, ReadPrice, SnapshotFeatures, DeleteFeatures,
                    CreateFeatures, Abort
<1>5. ASSUME NEW r \in Requests, Commit(r)
      PROVE  /\ At(r, "commit") /\ requests'[r].pc = "idle"
             /\ requests[r].article = orders[o].article
             /\ requests[r].begun <= orders[o].createdAt
  <2> PICK k : k = requests[r].row
    OBVIOUS
  <2>1. /\ orders' = orders /\ requests'[r] = Idle /\ At(r, "commit")
    BY <1>5 DEF Commit, Reply, Inv, TypeOK
  <2>2. /\ \A i \in DOMAIN prices : prices'[i].createdAt = prices[i].createdAt
        /\ \A b : History(b)' = IF b = requests[r].article /\ k # 0
                                THEN History(b) \cup {k} ELSE History(b)
        /\ \A b : History(b) \in SUBSET DOMAIN prices
        /\ \A I \in SUBSET DOMAIN prices : Latest(I)' = Latest(I)
        /\ Sound(requests[r]) /\ requests[r] \in RequestRecords /\ TypeOK
        /\ k # 0 => k \in DOMAIN prices
    BY <1>5, CommitFacts
  <2> PICK b, t : b = orders[o].article /\ t = orders[o].createdAt
    OBVIOUS
  <2> PICK I : I = {j \in History(b) : prices[j].createdAt <= t}
    OBVIOUS
  <2> PICK J : J = {j \in History(b)' : prices'[j].createdAt <= t}
    OBVIOUS
  <2>3. Shown(o) = Latest(I) /\ Shown(o)' = Latest(J)'
    BY <2>1 DEF Shown
  <2>4. I \in SUBSET DOMAIN prices
    BY <2>2
  <2>5. J # I
    BY <2>2, <2>3, <2>4
  <2>6. b = requests[r].article /\ k # 0 /\ prices[k].createdAt <= t
    BY <2>2, <2>5
  <2>7. requests[r].begun <= prices[k].createdAt
    BY <2>2, <2>6 DEF Sound
  <2>8. t \in Nat /\ prices[k].createdAt \in Nat /\ requests[r].begun \in Nat
    <3>1. orders[o] \in Orders
      BY <2>2 DEF TypeOK
    <3> QED
      BY <2>2, <2>6, <3>1, PriceTypes DEF Orders, RequestRecords
  <2> QED
    BY <2>1, <2>6, <2>7, <2>8, IdleFacts
<1>6. ASSUME NEW a \in stock, PlaceOrder(a) PROVE FALSE
  <2>1. orders \in Seq(Orders) /\ [article |-> a, createdAt |-> clock] \in Orders
    BY DEF Orders, Inv, TypeOK
  <2>2. prices' = prices /\ orders'[o] = orders[o]
    BY <1>6, <2>1 DEF PlaceOrder
  <2> QED
    BY <1>1, <2>2
<1>7. CASE Tick \/ UNCHANGED vars
  BY <1>1, <1>7 DEF Tick, vars
<1> QED
  BY <1>2, <1>3, <1>4, <1>5, <1>6, <1>7 DEF Next, Step

(* The price an order shows stands: only an edit that was in progress when *)
(* the order was placed can change it.                                     *)
THEOREM ShownPricesStand == Spec => OrderPriceStands
<1>1. Inv /\ [Next]_vars =>
        [\A o \in DOMAIN orders :
            Shown(o)' # Shown(o) =>
               \E r \in Requests : /\ At(r, "commit")
                                   /\ requests'[r].pc = "idle"
                                   /\ requests[r].article = orders[o].article
                                   /\ requests[r].begun <= orders[o].createdAt]_vars
  BY PriceStep
<1> QED
  BY <1>1, InvAlways, PTL DEF Spec, OrderPriceStands

-----------------------------------------------------------------------------
(***************************************************************************)
(* Where every edit changes a column of the article too, the transactions  *)
(* of Catalog implement the shelf of module Shelf.                         *)
(***************************************************************************)

(* What a handler is about to delete is of its own article; one that holds *)
(* the row is about to delete all there is.                                *)
Ready(q) ==
    /\ q.pc # "idle" /\ q.replaces => q.features \in FeatureSets
    /\ q.pc # "idle" /\ q.op = "add" => q.replaces /\ q.doomed = {}
    /\ q.pc \in {"snapshot", "delete", "createFeatures"} => q.replaces
    /\ ~q.replaces => q.doomed = {}
    /\ \A x \in q.snapshot \cup q.doomed : x.article = q.article
    /\ locked /\ q.pc = "delete" => q.snapshot = FeaturesOf(q.article)
    /\ locked /\ q.op = "edit" /\ q.replaces /\ q.pc \in {"createFeatures", "commit"} =>
          q.doomed = FeaturesOf(q.article)

AllReady == \A r \in Requests : Ready(requests[r])

-----------------------------------------------------------------------------
LEMMA IdleReady == Ready(Idle) /\ Ready(Idle)'
<1>1. /\ Idle.pc = "idle" /\ ~Idle.replaces /\ Idle.doomed = {} /\ Idle.snapshot = {}
  BY DEF Idle
<1> QED
  BY <1>1 DEF Ready

LEMMA InitReady == Init => AllReady
  BY IdleReady DEF Init, AllReady

(* A step of r that leaves the features alone.                             *)
LEMMA ReadyStep ==
  ASSUME Inv, AllReady, NEW r \in Requests, NEW Q,
         requests' = [requests EXCEPT ![r] = Q], Ready(Q),
         UNCHANGED <<features, locked>>
  PROVE  AllReady'
<1> SUFFICES ASSUME NEW s \in Requests PROVE Ready(requests[s])'
  BY DEF AllReady
<1>1. requests'[r] = Q /\ \A t \in Requests \ {r} : requests'[t] = requests[t]
  BY DEF Inv, TypeOK
<1> PICK q : q = requests'[s]
  OBVIOUS
<1>2. Ready(q)
  BY <1>1 DEF AllReady
<1> QED
  BY <1>2 DEF Ready, FeaturesOf

LEMMA ReplyReady ==
  ASSUME Inv, AllReady, NEW r \in Requests, Reply(r), UNCHANGED <<features, locked>>
  PROVE  AllReady'
  BY IdleReady, ReadyStep DEF Reply

(* A call brings the features of its request, and has deleted none.        *)
LEMMA BeginReady ==
  ASSUME Inv, AllReady, NEW r \in Requests, NEW step \in {"createArticle", "update"},
         NEW q \in RequestRecords, Begin(r, step, q),
         q.snapshot = {}, q.doomed = {},
         q.op = "add" => q.replaces, q.replaces => q.features \in FeatureSets
  PROVE  AllReady'
<1> PICK Q : Q = [q EXCEPT !.pc = step, !.call = calls + 1, !.begun = clock]
  OBVIOUS
<1>1. /\ Q.pc = step /\ Q.op = q.op /\ Q.replaces = q.replaces /\ Q.features = q.features
      /\ Q.snapshot = q.snapshot /\ Q.doomed = q.doomed /\ Q.article = q.article
  BY DEF RequestRecords
<1>2. Ready(Q)
  BY <1>1 DEF Ready
<1> QED
  BY <1>2, ReadyStep DEF Begin

LEMMA CallReady ==
  ASSUME Inv, AllReady, NEW r \in Requests, Call(r)
  PROVE  AllReady'
<1>1. Idle \in RequestRecords /\ stock \subseteq Articles
  BY IdleFacts DEF Inv, TypeOK
<1>2. ASSUME NEW a \in Articles, NEW p \in Prices, NEW F \in FeatureSets,
             Add(r, a, p, F)
      PROVE  AllReady'
  <2> PICK q : q = [Idle EXCEPT !.op = "add", !.article = a, !.price = p,
                                !.replaces = TRUE, !.features = F]
    OBVIOUS
  <2>1. /\ q \in RequestRecords /\ q.snapshot = {} /\ q.doomed = {} /\ q.op = "add"
        /\ q.replaces /\ q.features \in FeatureSets
    BY <1>1 DEF Idle, RequestRecords
  <2>2. Begin(r, "createArticle", q)
    BY <1>2 DEF Add
  <2> QED
    BY <2>1, <2>2, BeginReady
<1>3. ASSUME NEW a \in stock, NEW b \in BOOLEAN, NEW p \in Prices,
             EditPrice(r, a, p, b)
      PROVE  AllReady'
  <2> PICK q : q = [Idle EXCEPT !.op = "edit", !.article = a, !.price = p, !.columns = b]
    OBVIOUS
  <2>1. /\ q \in RequestRecords /\ q.snapshot = {} /\ q.doomed = {} /\ q.op = "edit"
        /\ ~q.replaces
    BY <1>1 DEF Idle, RequestRecords
  <2>2. Begin(r, "update", q)
    BY <1>3 DEF EditPrice
  <2> QED
    BY <2>1, <2>2, BeginReady
<1>4. ASSUME NEW a \in stock, NEW b \in BOOLEAN, NEW F \in FeatureSets,
             EditFeatures(r, a, F, b)
      PROVE  AllReady'
  <2> PICK q : q = [Idle EXCEPT !.op = "edit", !.article = a, !.replaces = TRUE,
                                !.features = F, !.columns = b]
    OBVIOUS
  <2>1. /\ q \in RequestRecords /\ q.snapshot = {} /\ q.doomed = {} /\ q.op = "edit"
        /\ q.replaces /\ q.features \in FeatureSets
    BY <1>1 DEF Idle, RequestRecords
  <2>2. Begin(r, "update", q)
    BY <1>4 DEF EditFeatures
  <2> QED
    BY <2>1, <2>2, BeginReady
<1>5. ASSUME NEW a \in stock, NEW b \in BOOLEAN, NEW p \in Prices, NEW F \in FeatureSets,
             EditBoth(r, a, p, F, b)
      PROVE  AllReady'
  <2> PICK q : q = [Idle EXCEPT !.op = "edit", !.article = a, !.price = p,
                                !.replaces = TRUE, !.features = F, !.columns = b]
    OBVIOUS
  <2>1. /\ q \in RequestRecords /\ q.snapshot = {} /\ q.doomed = {} /\ q.op = "edit"
        /\ q.replaces /\ q.features \in FeatureSets
    BY <1>1 DEF Idle, RequestRecords
  <2>2. Begin(r, "update", q)
    BY <1>5 DEF EditBoth
  <2> QED
    BY <2>1, <2>2, BeginReady
<1> QED
  BY <1>2, <1>3, <1>4, <1>5 DEF Call

(* Steps before the commit.  What a step keeps of its record is stated once.*)
Kept(Q, q) ==
    /\ Q.op = q.op /\ Q.article = q.article /\ Q.replaces = q.replaces
    /\ Q.features = q.features

LEMMA MoveReady ==
  ASSUME Inv, AllReady, NEW r \in Requests, NEW Q, requests' = [requests EXCEPT ![r] = Q],
         UNCHANGED <<features, locked>>,
         Kept(Q, requests[r]), Q.snapshot = requests[r].snapshot,
         Q.doomed = requests[r].doomed,
         requests[r].pc \in {"createArticle", "update", "readPrice", "insertPrice"},
         \/ Q.pc \in {"readPrice", "insertPrice"}
         \/ Q.pc = "snapshot" /\ Q.replaces
         \/ Q.pc = "commit" /\ ~Q.replaces
         \/ Q.pc = "commit" /\ Q.op = "add"
  PROVE  AllReady'
<1>1. Ready(requests[r])
  BY DEF AllReady
<1>2. Ready(Q)
  BY <1>1 DEF Ready, Kept
<1> QED
  BY <1>2, ReadyStep

LEMMA MovesReady ==
  ASSUME Inv, AllReady, NEW r \in Requests,
         CreateArticle(r) \/ UpdateArticle(r) \/ ReadPrice(r) \/ InsertPrice(r)
  PROVE  AllReady'
<1>1. /\ requests[r] \in RequestRecords /\ Sound(requests[r])
      /\ requests \in [Requests -> RequestRecords]
  BY RequestFacts DEF Inv, TypeOK
<1>2. requests[r].pc \in {"createArticle", "update", "readPrice", "insertPrice"}
      /\ UNCHANGED <<features, locked>>
  BY DEF CreateArticle, UpdateArticle, ReadPrice, InsertPrice, At
<1>3. PICK p, n :
         /\ \/ p \in {"readPrice", "insertPrice"}
            \/ p = "snapshot" /\ requests[r].replaces
            \/ p = "commit" /\ ~requests[r].replaces
            \/ p = "commit" /\ requests[r].op = "add"
         /\ \/ requests' = [requests EXCEPT ![r].pc = p]
            \/ requests' = [requests EXCEPT ![r].pc = p, ![r].row = n]
  <2>1. CASE CreateArticle(r)
    BY <1>1, <2>1 DEF CreateArticle, At, Sound
  <2>2. CASE UpdateArticle(r)
    BY <2>2 DEF UpdateArticle, Go, AfterUpdate
  <2>3. CASE ReadPrice(r)
    BY <2>3 DEF ReadPrice, Go, AfterPrice
  <2>4. CASE InsertPrice(r)
    BY <2>4 DEF InsertPrice, AfterPrice
  <2> QED
    BY <2>1, <2>2, <2>3, <2>4
<1>4. PICK Q : \/ requests' = [requests EXCEPT ![r].pc = p]
                  /\ Q = [requests[r] EXCEPT !.pc = p]
               \/ requests' = [requests EXCEPT ![r].pc = p, ![r].row = n]
                  /\ Q = [requests[r] EXCEPT !.pc = p, !.row = n]
  BY <1>3
<1>5. requests' = [requests EXCEPT ![r] = Q]
  BY <1>1, <1>4
<1>6. /\ Kept(Q, requests[r]) /\ Q.pc = p
      /\ Q.snapshot = requests[r].snapshot /\ Q.doomed = requests[r].doomed
  BY <1>1, <1>4 DEF Kept, RequestRecords
<1>7. Q.replaces = requests[r].replaces /\ Q.op = requests[r].op
  BY <1>6 DEF Kept
<1> QED
  BY <1>2, <1>3, <1>5, <1>6, <1>7, MoveReady

LEMMA FeatureStepsReady ==
  ASSUME Inv, AllReady, NEW r \in Requests,
         SnapshotFeatures(r) \/ DeleteFeatures(r) \/ CreateFeatures(r)
  PROVE  AllReady'
<1>1. /\ requests[r] \in RequestRecords /\ Sound(requests[r]) /\ Ready(requests[r])
      /\ requests \in [Requests -> RequestRecords]
  BY RequestFacts DEF Inv, TypeOK, AllReady
<1>2. CASE SnapshotFeatures(r)
  <2> PICK Q : Q = [requests[r] EXCEPT !.pc = "delete", !.snapshot = FeaturesOf(requests[r].article)]
    OBVIOUS
  <2>1. /\ Kept(Q, requests[r]) /\ Q.pc = "delete" /\ Q.doomed = requests[r].doomed
        /\ Q.snapshot = FeaturesOf(requests[r].article)
    BY <1>1 DEF Kept, RequestRecords
  <2>2. requests' = [requests EXCEPT ![r] = Q] /\ UNCHANGED <<features, locked>>
        /\ requests[r].pc = "snapshot"
    BY <1>1, <1>2 DEF SnapshotFeatures, ToDelete, At
  <2>3. Ready(Q)
    BY <1>1, <2>1, <2>2 DEF Ready, Kept, FeaturesOf
  <2> QED
    BY <2>2, <2>3, ReadyStep
<1>3. CASE DeleteFeatures(r)
  <2> PICK Q : Q = [requests[r] EXCEPT !.pc = "createFeatures", !.snapshot = {},
                                       !.doomed = requests[r].snapshot \cap features]
    OBVIOUS
  <2>1. /\ Kept(Q, requests[r]) /\ Q.pc = "createFeatures" /\ Q.snapshot = {}
        /\ Q.doomed = requests[r].snapshot \cap features
    BY <1>1 DEF Kept, RequestRecords
  <2>2. requests' = [requests EXCEPT ![r] = Q] /\ UNCHANGED <<features, locked>>
        /\ requests[r].pc = "delete"
    BY <1>1, <1>3 DEF DeleteFeatures, At
  <2>3. requests[r].op = "edit"
    BY <1>1, <2>2 DEF Sound
  <2>4. Ready(Q)
    BY <1>1, <2>1, <2>2, <2>3 DEF Ready, Kept, FeaturesOf
  <2> QED
    BY <2>2, <2>4, ReadyStep
<1>4. CASE CreateFeatures(r) /\ Go(r, "commit")
  <2> PICK Q : Q = [requests[r] EXCEPT !.pc = "commit"]
    OBVIOUS
  <2>1. /\ Kept(Q, requests[r]) /\ Q.pc = "commit" /\ Q.snapshot = requests[r].snapshot
        /\ Q.doomed = requests[r].doomed
    BY <1>1 DEF Kept, RequestRecords
  <2>2. requests' = [requests EXCEPT ![r] = Q] /\ UNCHANGED <<features, locked>>
        /\ requests[r].pc = "createFeatures"
    BY <1>1, <1>4 DEF CreateFeatures, Go, At
  <2>3. Ready(Q)
    BY <1>1, <2>1, <2>2 DEF Ready, Kept
  <2> QED
    BY <2>2, <2>3, ReadyStep
<1>5. CASE CreateFeatures(r) /\ Reply(r)
  BY <1>5, ReplyReady DEF CreateFeatures
<1> QED
  BY <1>2, <1>3, <1>4, <1>5 DEF CreateFeatures

(* A commit changes the features of its own article.                       *)
LEMMA CommitFeatures ==
  ASSUME Inv, AllReady, NEW r \in Requests, Commit(r)
  PROVE  \A a : /\ a # requests[r].article => FeaturesOf(a)' = FeaturesOf(a)
                /\ ~requests[r].replaces => FeaturesOf(a)' = FeaturesOf(a)
                /\ locked /\ requests[r].replaces /\ a = requests[r].article =>
                      FeaturesOf(a)' = NewFeatures(r)
<1>1. /\ Sound(requests[r]) /\ Ready(requests[r]) /\ requests[r].pc = "commit"
      /\ features' = (features \ requests[r].doomed) \cup NewFeatures(r)
  BY RequestFacts DEF AllReady, Commit, At
<1> PICK q : q = requests[r]
  OBVIOUS
<1>2. /\ \A x \in NewFeatures(r) : x.article = q.article
      /\ \A x \in q.doomed : x.article = q.article
      /\ ~q.replaces => NewFeatures(r) = {} /\ q.doomed = {}
  BY <1>1 DEF NewFeatures, Ready, Sound
<1>3. ASSUME NEW a, a # q.article PROVE FeaturesOf(a)' = FeaturesOf(a)
  BY <1>1, <1>2, <1>3 DEF FeaturesOf
<1>4. ~q.replaces => FeaturesOf(q.article)' = FeaturesOf(q.article)
  BY <1>1, <1>2 DEF FeaturesOf
<1>5. ASSUME locked, q.replaces PROVE FeaturesOf(q.article)' = NewFeatures(r)
  <2>1. CASE q.op = "add"
    <3>1. q.article \notin stock
      BY <1>1, <2>1 DEF Sound
    <3>2. FeaturesOf(q.article) = {}
      BY <3>1 DEF FeaturesOf, Inv, Tables
    <3> QED
      BY <1>1, <1>2, <3>2 DEF FeaturesOf
  <2>2. CASE q.op = "edit"
    <3>1. q.doomed = FeaturesOf(q.article)
      BY <1>1, <1>5, <2>2 DEF Ready
    <3> QED
      BY <1>1, <1>2, <3>1 DEF FeaturesOf
  <2> QED
    BY <1>1, <2>1, <2>2 DEF Sound
<1> QED
  BY <1>3, <1>4, <1>5

LEMMA CommitReady ==
  ASSUME Inv, AllReady, NEW r \in Requests, Commit(r)
  PROVE  AllReady'
<1>1. requests' = [requests EXCEPT ![r] = Idle] /\ locked' = locked
      /\ requests \in [Requests -> RequestRecords]
  BY DEF Commit, Reply, Inv, TypeOK
<1>2. /\ requests'[r] = Idle
      /\ \A s \in Requests \ {r} : requests'[s] = requests[s]
  BY <1>1
<1>3. ASSUME NEW s \in Requests \ {r} PROVE Ready(requests[s])'
  <2>1. Ready(requests[s]) /\ Sound(requests[s]) /\ Together(requests[r], requests[s])
    BY RequestFacts DEF AllReady
  <2>2. locked /\ requests[s].pc \in {"delete", "createFeatures", "commit"} =>
           requests[s].article # requests[r].article
    BY <2>1, CommitFacts DEF Together, Past
  <2>3. locked /\ requests[s].pc \in {"delete", "createFeatures", "commit"} =>
           FeaturesOf(requests[s].article)' = FeaturesOf(requests[s].article)
    <3>1. \A a : a # requests[r].article => FeaturesOf(a)' = FeaturesOf(a)
      BY CommitFeatures
    <3> PICK a : a = requests[s].article
      OBVIOUS
    <3>2. a # requests[r].article => FeaturesOf(a)' = FeaturesOf(a)
      BY <3>1
    <3>3. FeaturesOf(requests[s].article)' = FeaturesOf(a)'
      BY <1>2 DEF FeaturesOf
    <3> QED
      BY <2>2, <3>2, <3>3
  <2> QED
    BY <1>1, <1>2, <2>1, <2>3 DEF Ready
<1>4. Ready(requests[r])'
  BY <1>2, IdleReady DEF Ready
<1> QED
  BY <1>3, <1>4 DEF AllReady

LEMMA NextReady == Inv /\ AllReady /\ [Next]_vars => AllReady'
<1> SUFFICES ASSUME Inv, AllReady, [Next]_vars PROVE AllReady'
  OBVIOUS
<1>1. CASE UNCHANGED <<requests, features, locked>>
  BY <1>1 DEF AllReady, Ready, FeaturesOf
<1>2. ASSUME NEW r \in Requests, Call(r) PROVE AllReady'
  BY <1>2, CallReady
<1>3. ASSUME NEW r \in Requests, Step(r) PROVE AllReady'
  BY <1>3, MovesReady, FeatureStepsReady, CommitReady DEF Step
<1>4. ASSUME NEW r \in Requests, Abort(r) PROVE AllReady'
  BY <1>4, ReplyReady DEF Abort
<1>5. ASSUME NEW a \in stock, PlaceOrder(a) PROVE AllReady'
  BY <1>1, <1>5 DEF PlaceOrder
<1>6. CASE Tick
  BY <1>1, <1>6 DEF Tick
<1>7. CASE UNCHANGED vars
  BY <1>1, <1>7 DEF vars
<1> QED
  BY <1>2, <1>3, <1>4, <1>5, <1>6, <1>7 DEF Next

LEMMA ReadyAlways == Spec => [](Inv /\ AllReady)
<1>1. Inv /\ AllReady /\ [Next]_vars => Inv' /\ AllReady'
  BY NextInv, NextReady
<1> QED
  BY <1>1, InitInv, InitReady, PTL DEF Spec

-----------------------------------------------------------------------------
(* The shelf: what is committed of an article is its one latest price and  *)
(* its features.                                                           *)
Told(a) == {[feature |-> x.feature, call |-> x.call] : x \in FeaturesOf(a)}

OnSaleIs ==
    /\ ~locked => OnSale = [a \in Articles |-> None]
    /\ locked => \A a \in Articles :
          /\ a \notin stock => OnSale[a] = None
          /\ a \in stock => \E p \in Prices :
                /\ CurrentPrice(a) = {p}
                /\ OnSale[a] = [price |-> p, features |-> Told(a)]

LEMMA SaleOfStock == Inv => OnSaleIs
<1> SUFFICES ASSUME Inv PROVE OnSaleIs
  OBVIOUS
<1>1. ~locked => OnSale = [a \in Articles |-> None]
  BY DEF OnSale
<1>2. ASSUME locked, NEW a \in Articles, a \notin stock PROVE OnSale[a] = None
  <2>1. History(a) = {}
    BY <1>2 DEF History, Inv, Tables
  <2> QED
    BY <1>2, <2>1 DEF OnSale
<1>3. ASSUME locked, NEW a \in Articles, a \in stock
      PROVE  \E p \in Prices : /\ CurrentPrice(a) = {p}
                              /\ OnSale[a] = [price |-> p, features |-> Told(a)]
  <2>1. PICK i \in DOMAIN prices : Latest(History(a)) = {i}
    BY <1>3 DEF Inv, Tables
  <2>2. History(a) # {}
    BY <2>1 DEF Latest
  <2>3. (CHOOSE j \in Latest(History(a)) : TRUE) = i
    BY <2>1
  <2>4. CurrentPrice(a) = {prices[i].price} /\ prices[i].price \in Prices
    BY <2>1, PriceTypes DEF CurrentPrice, Inv
  <2>5. OnSale[a] = [price |-> prices[i].price, features |-> Told(a)]
    BY <1>3, <2>2, <2>3 DEF OnSale, Told
  <2> QED
    BY <2>4, <2>5
<1> QED
  BY <1>1, <1>2, <1>3 DEF OnSaleIs

LEMMA SaleOfStockNext == Inv' => OnSaleIs'
  BY SaleOfStock, PTL

(* Shelves that agree on every article are equal.                          *)
LEMMA ShelvesEqual ==
  ASSUME NEW F, F = [a \in Articles |-> F[a]], \A a \in Articles : OnSale'[a] = F[a]
  PROVE  OnSale' = F
<1>1. OnSale' = [a \in Articles |-> OnSale'[a]]
  BY DEF OnSale
<1> QED
  BY <1>1

LEMMA SaleIsFunction == OnSale = [a \in Articles |-> OnSale[a]]
  BY DEF OnSale

(* An article whose price and features stay, stays on sale as it is.       *)
LEMMA SaleKept ==
  ASSUME OnSaleIs, OnSaleIs', locked, locked' = locked, NEW a \in Articles,
         a \in stock' <=> a \in stock,
         CurrentPrice(a)' = CurrentPrice(a), FeaturesOf(a)' = FeaturesOf(a)
  PROVE  OnSale'[a] = OnSale[a]
<1>1. Told(a)' = Told(a)
  BY DEF Told
<1>2. CASE a \notin stock
  BY <1>2 DEF OnSaleIs
<1>3. CASE a \in stock
  <2>1. PICK p \in Prices : /\ CurrentPrice(a) = {p}
                            /\ OnSale[a] = [price |-> p, features |-> Told(a)]
    BY <1>3 DEF OnSaleIs
  <2>2. PICK q \in Prices : /\ CurrentPrice(a)' = {q}
                            /\ OnSale'[a] = [price |-> q, features |-> Told(a)']
    BY <1>3 DEF OnSaleIs
  <2>3. p = q
    BY <2>1, <2>2
  <2> QED
    BY <1>1, <2>1, <2>2, <2>3
<1> QED
  BY <1>2, <1>3

LEMMA QuietShelf ==
  ASSUME OnSaleIs, OnSaleIs', UNCHANGED <<stock, features, locked>>,
         \A a \in Articles : CurrentPrice(a)' = CurrentPrice(a)
  PROVE  UNCHANGED OnSale
<1>1. \A a : FeaturesOf(a)' = FeaturesOf(a)
  BY DEF FeaturesOf
<1>2. CASE locked
  <2>1. \A a \in Articles : OnSale'[a] = OnSale[a]
    BY <1>1, <1>2, SaleKept
  <2> QED
    BY <2>1, SaleIsFunction, ShelvesEqual
<1>3. CASE ~locked
  BY <1>3 DEF OnSaleIs
<1> QED
  BY <1>2, <1>3

(* A price row that is not committed yet is not on the shelf.              *)
LEMMA InsertShelf ==
  ASSUME Inv, NEW r \in Requests, CreateArticle(r) \/ InsertPrice(r)
  PROVE  \A a : CurrentPrice(a)' = CurrentPrice(a)
<1>1. /\ TypeOK /\ requests[r].price \in Prices /\ requests[r].article \in Articles
      /\ clock \in 0..MaxClock
  BY RequestFacts DEF Inv, TypeOK, Sound, CreateArticle, InsertPrice, At
<1> PICK row : row = [article |-> requests[r].article, price |-> requests[r].price,
                      createdAt |-> clock, committed |-> FALSE]
  OBVIOUS
<1>2. row \in PriceRows /\ ~row.committed /\ prices' = Append(prices, row)
  BY <1>1 DEF PriceRows, CreateArticle, InsertPrice, InsertedPrice
<1>3. orders' = orders /\ locked' = locked
  BY DEF CreateArticle, InsertPrice
<1> QED
  BY <1>1, <1>2, <1>3, InsertKeeps

(* A commit changes the price of its own article, if it has a new one.     *)
LEMMA CommitPriceOf ==
  ASSUME Inv, NEW r \in Requests, Commit(r), NEW a
  PROVE  /\ a # requests[r].article \/ requests[r].row = 0 => CurrentPrice(a)' = CurrentPrice(a)
         /\ locked /\ a = requests[r].article /\ requests[r].row # 0 =>
               CurrentPrice(a)' = {requests[r].price}
<1> PICK k : k = requests[r].row
  OBVIOUS
<1>1. /\ \A i \in DOMAIN prices : prices'[i].price = prices[i].price
      /\ History(a)' = IF a = requests[r].article /\ k # 0 THEN History(a) \cup {k} ELSE History(a)
      /\ History(a) \in SUBSET DOMAIN prices
      /\ \A I \in SUBSET DOMAIN prices : Latest(I)' = Latest(I)
      /\ k # 0 => k \in DOMAIN prices
      /\ Excludes(requests[r]) /\ Past(requests[r]) /\ TypeOK
  BY CommitFacts
<1> PICK J : J = History(a)'
  OBVIOUS
<1>2. J \in SUBSET DOMAIN prices
  BY <1>1
<1>3. Latest(History(a))' = Latest(J)
  BY <1>1, <1>2 DEF Latest
<1>4. CurrentPrice(a)' = {prices[i].price : i \in Latest(J)}
  <2>1. Latest(J) \subseteq DOMAIN prices
    BY <1>2 DEF Latest
  <2> QED
    BY <1>1, <1>3, <2>1 DEF CurrentPrice
<1>5. a # requests[r].article \/ k = 0 => CurrentPrice(a)' = CurrentPrice(a)
  BY <1>1, <1>4 DEF CurrentPrice
<1>6. ASSUME locked, a = requests[r].article, k # 0
      PROVE  CurrentPrice(a)' = {requests[r].price}
  <2>1. J = History(a) \cup {k} /\ k \in DOMAIN prices
    BY <1>1, <1>6
  <2>2. \A i \in History(a) : i < k /\ prices[i].createdAt <= prices[k].createdAt
    BY <1>1, <1>6 DEF Excludes
  <2>3. \A i \in J : NotLater(i, k) /\ (i # k => ~NotLater(k, i))
    BY <1>1, <1>2, <2>1, <2>2, PriceTypes DEF NotLater
  <2>4. Latest(J) = {k}
    BY <2>1, <2>3 DEF Latest
  <2>5. requests[r].price = prices[k].price
    BY <1>1, <1>6 DEF Excludes
  <2> QED
    BY <1>4, <2>4, <2>5
<1> QED
  BY <1>5, <1>6

(* What a commit writes of the features is what the call sent.             *)
LEMMA ToldSent ==
  ASSUME NEW r \in Requests, NEW a, FeaturesOf(a)' = NewFeatures(r)
  PROVE  Told(a)' = Shelf!Sent(requests[r].features, requests[r].call)
<1> PICK q, n : q = requests[r] /\ n = calls
  OBVIOUS
<1>1. Told(a)' = {[feature |-> x.feature, call |-> x.call] : x \in NewFeatures(r)}
  BY DEF Told
<1>2. NewFeatures(r) = {[article |-> q.article, feature |-> f, call |-> q.call, done |-> n] :
                           f \in q.features}
  BY DEF NewFeatures
<1>3. Shelf!Sent(q.features, q.call) = {[feature |-> f, call |-> q.call] : f \in q.features}
  BY DEF Shelf!Sent
<1>4. ASSUME NEW z
      PROVE  z \in {[feature |-> x.feature, call |-> x.call] : x \in NewFeatures(r)} <=>
                z \in {[feature |-> f, call |-> q.call] : f \in q.features}
  <2>1. ASSUME NEW f \in q.features, z = [feature |-> f, call |-> q.call]
        PROVE  \E x \in NewFeatures(r) : z = [feature |-> x.feature, call |-> x.call]
    <3> PICK x : x = [article |-> q.article, feature |-> f, call |-> q.call, done |-> n]
      OBVIOUS
    <3>1. x \in NewFeatures(r)
      BY <1>2
    <3>2. z = [feature |-> x.feature, call |-> x.call]
      BY <2>1
    <3> QED
      BY <3>1, <3>2
  <2>2. ASSUME NEW x \in NewFeatures(r), z = [feature |-> x.feature, call |-> x.call]
        PROVE  \E f \in q.features : z = [feature |-> f, call |-> q.call]
    <3>1. PICK f \in q.features :
             x = [article |-> q.article, feature |-> f, call |-> q.call, done |-> n]
      BY <1>2
    <3>2. x.feature = f /\ x.call = q.call
      BY <3>1
    <3> QED
      BY <2>2, <3>2
  <2> QED
    BY <2>1, <2>2
<1> QED
  BY <1>1, <1>3, <1>4

(* A shelf on which one article changed.                                   *)
LEMMA OneChanged ==
  ASSUME NEW a \in Articles, NEW v, OnSale'[a] = v,
         \A b \in Articles \ {a} : OnSale'[b] = OnSale[b]
  PROVE  OnSale' = [OnSale EXCEPT ![a] = v]
<1> PICK F : F = [OnSale EXCEPT ![a] = v]
  OBVIOUS
<1>1. OnSale = [b \in Articles |-> OnSale[b]]
  BY SaleIsFunction
<1>2. F = [b \in Articles |-> F[b]] /\ \A b \in Articles : OnSale'[b] = F[b]
  BY <1>1
<1> QED
  BY <1>2, ShelvesEqual

(* The commit is the step the customers see.                               *)
LEMMA CommitShelf ==
  ASSUME Inv, AllReady, OnSaleIs, OnSaleIs', locked, NEW r \in Requests, Commit(r)
  PROVE  Shelf!Next \/ UNCHANGED OnSale
<1> PICK q, a, k, F, p : /\ q = requests[r] /\ a = q.article /\ k = q.call
                         /\ F = q.features /\ p = q.price
  OBVIOUS
<1>1. /\ q \in RequestRecords /\ Sound(q) /\ Excludes(q) /\ Past(q) /\ q.pc = "commit"
      /\ Ready(q) /\ TypeOK
  BY CommitFacts DEF AllReady
<1>2. a \in Articles /\ k \in 1..MaxCalls
  BY <1>1, CatalogAssumption DEF Sound, TypeOK
<1>3. q.row # 0 => p \in Prices
  BY <1>1, PriceTypes DEF Sound, Excludes
<1>4. q.replaces => F \in FeatureSets
  BY <1>1 DEF Ready
<1>5. stock' = stock \cup {a} /\ locked'
  BY DEF Commit
<1>6. \A b \in Articles \ {a} : OnSale'[b] = OnSale[b]
  <2> SUFFICES ASSUME NEW b \in Articles \ {a} PROVE OnSale'[b] = OnSale[b]
    OBVIOUS
  <2>1. CurrentPrice(b)' = CurrentPrice(b)
    BY CommitPriceOf
  <2>2. FeaturesOf(b)' = FeaturesOf(b)
    BY CommitFeatures
  <2> QED
    BY <1>5, <2>1, <2>2, SaleKept
<1>7. PICK y \in Prices : /\ CurrentPrice(a)' = {y}
                          /\ OnSale'[a] = [price |-> y, features |-> Told(a)']
  BY <1>2, <1>5 DEF OnSaleIs
<1>8. a \in stock => \E x \in Prices : /\ CurrentPrice(a) = {x}
                                       /\ OnSale[a] = [price |-> x, features |-> Told(a)]
  BY <1>2 DEF OnSaleIs
<1>9. q.row # 0 => y = p
  BY <1>7, CommitPriceOf
<1>10. q.replaces => Told(a)' = Shelf!Sent(F, k)
  <2>1. q.replaces => FeaturesOf(a)' = NewFeatures(r)
    BY CommitFeatures
  <2> QED
    BY <2>1, ToldSent
<1>11. CASE q.op = "add"
  <2>1. a \notin stock /\ q.row # 0 /\ q.replaces
    BY <1>1, <1>11 DEF Sound, Ready
  <2>2. OnSale[a] = None
    BY <1>2, <2>1 DEF OnSaleIs
  <2>3. OnSale' = [OnSale EXCEPT ![a] = [price |-> p, features |-> Shelf!Sent(F, k)]]
    BY <1>2, <1>6, <1>7, <1>9, <1>10, <2>1, OneChanged
  <2>4. Shelf!Add(a, p, F, k)
    BY <2>2, <2>3 DEF Shelf!Add
  <2> QED
    BY <1>2, <1>3, <1>4, <2>1, <2>4 DEF Shelf!Next
<1>12. CASE q.op = "edit"
  <2>1. a \in stock
    BY <1>1, <1>12 DEF Sound
  <2>2. PICK x \in Prices : /\ CurrentPrice(a) = {x}
                            /\ OnSale[a] = [price |-> x, features |-> Told(a)]
    BY <1>8, <2>1
  <2>3. OnSale[a] # None
    <3>1. Told(a) \subseteq [feature : UNION FeatureSets, call : 1..MaxCalls]
      BY <1>1 DEF Told, FeaturesOf, TypeOK, FeatureRows
    <3>2. [price |-> x, features |-> Told(a)] # None
      BY <3>1, CatalogAssumption
    <3> QED
      BY <2>2, <3>2
  <2>4. q.row = 0 => y = x
    BY <1>7, <2>2, CommitPriceOf
  <2>5. ~q.replaces => Told(a)' = Told(a)
    BY CommitFeatures DEF Told
  <2>6. CASE q.row # 0 /\ q.replaces
    <3>1. OnSale' = [OnSale EXCEPT ![a] = [price |-> p, features |-> Shelf!Sent(F, k)]]
      BY <1>2, <1>6, <1>7, <1>9, <1>10, <2>6, OneChanged
    <3>2. Shelf!SetBoth(a, p, F, k)
      BY <2>3, <3>1 DEF Shelf!SetBoth
    <3> QED
      BY <1>2, <1>3, <1>4, <2>6, <3>2 DEF Shelf!Next
  <2>7. CASE q.row # 0 /\ ~q.replaces
    <3> PICK v : v = [OnSale[a] EXCEPT !.price = p]
      OBVIOUS
    <3>1. OnSale'[a] = v
      BY <1>7, <1>9, <2>2, <2>5, <2>7
    <3>2. OnSale' = [OnSale EXCEPT ![a] = v]
      BY <1>2, <1>6, <3>1, OneChanged
    <3>3. Shelf!SetPrice(a, p)
      BY <2>3, <3>2 DEF Shelf!SetPrice
    <3> QED
      BY <1>2, <1>3, <2>7, <3>3 DEF Shelf!Next
  <2>8. CASE q.row = 0 /\ q.replaces
    <3> PICK v, G : G = Shelf!Sent(F, k) /\ v = [OnSale[a] EXCEPT !.features = G]
      OBVIOUS
    <3>1. OnSale'[a] = v
      BY <1>7, <1>10, <2>2, <2>4, <2>8
    <3>2. OnSale' = [OnSale EXCEPT ![a] = v]
      BY <1>2, <1>6, <3>1, OneChanged
    <3>3. Shelf!SetFeatures(a, F, k)
      BY <2>3, <3>2 DEF Shelf!SetFeatures
    <3> QED
      BY <1>2, <1>4, <2>8, <3>3 DEF Shelf!Next
  <2>9. CASE q.row = 0 /\ ~q.replaces
    <3>1. OnSale'[a] = OnSale[a]
      BY <1>7, <2>2, <2>4, <2>5, <2>9
    <3>2. \A b \in Articles : OnSale'[b] = OnSale[b]
      BY <1>6, <3>1
    <3> QED
      BY <3>2, SaleIsFunction, ShelvesEqual
  <2> QED
    BY <2>6, <2>7, <2>8, <2>9
<1> QED
  BY <1>1, <1>11, <1>12 DEF Sound

(* Every step of the transactions is an edit of the shelf, or not seen.    *)
LEMMA NextShelf ==
  ASSUME Inv, AllReady, OnSaleIs, OnSaleIs', [Next]_vars
  PROVE  [Shelf!Next]_OnSale
<1>1. locked' = locked
  BY DEF Next, Call, Step, Add, EditPrice, EditFeatures, EditBoth, Begin, CreateArticle,
     UpdateArticle, ReadPrice, InsertPrice, SnapshotFeatures, DeleteFeatures, CreateFeatures,
     Commit, Abort, PlaceOrder, Tick, vars
<1>2. CASE ~locked
  BY <1>1, <1>2 DEF OnSaleIs
<1>3. CASE UNCHANGED <<stock, prices, features>>
  <2>1. \A a \in Articles : CurrentPrice(a)' = CurrentPrice(a)
    BY <1>3 DEF CurrentPrice, Latest, History, NotLater
  <2> QED
    BY <1>1, <1>3, <2>1, QuietShelf
<1>4. ASSUME NEW r \in Requests, CreateArticle(r) \/ InsertPrice(r)
      PROVE  UNCHANGED OnSale
  <2>1. UNCHANGED <<stock, features>>
    BY <1>4 DEF CreateArticle, InsertPrice
  <2>2. \A a \in Articles : CurrentPrice(a)' = CurrentPrice(a)
    BY <1>4, InsertShelf
  <2> QED
    BY <1>1, <2>1, <2>2, QuietShelf
<1>5. ASSUME locked, NEW r \in Requests, Commit(r) PROVE Shelf!Next \/ UNCHANGED OnSale
  BY <1>5, CommitShelf
<1>6. ASSUME NEW r \in Requests,
             \/ Call(r) \/ Abort(r) \/ UpdateArticle(r) \/ ReadPrice(r)
             \/ SnapshotFeatures(r) \/ DeleteFeatures(r) \/ CreateFeatures(r)
      PROVE  UNCHANGED <<stock, prices, features>>
  BY <1>6 DEF Call, Add, EditPrice, EditFeatures, EditBoth, Begin, Abort, UpdateArticle,
     ReadPrice, SnapshotFeatures, DeleteFeatures, CreateFeatures
<1>7. ASSUME (\E a \in stock : PlaceOrder(a)) \/ Tick \/ UNCHANGED vars
      PROVE  UNCHANGED <<stock, prices, features>>
  BY <1>7 DEF PlaceOrder, Tick, vars
<1> QED
  BY <1>2, <1>3, <1>4, <1>5, <1>6, <1>7 DEF Next, Step

LEMMA InitShelf == Init => Shelf!Init
<1> SUFFICES ASSUME Init PROVE Shelf!Init
  OBVIOUS
<1>1. \A a : History(a) = {}
  BY DEF Init, History
<1>2. OnSale = [a \in Articles |-> None]
  BY <1>1 DEF OnSale
<1> QED
  BY <1>2 DEF Shelf!Init

(* Where every edit changes a column of the article too, edits that        *)
(* overlap, wait, fail or are rolled back leave no mixture behind: price   *)
(* and features of an article are replaced together, as they were sent.    *)
THEOREM TransactionsImplementShelf == Spec => ImplementsShelf
<1>1. /\ Inv => OnSaleIs
      /\ Inv' => OnSaleIs'
  BY SaleOfStock, SaleOfStockNext
<1>2. Inv /\ Inv' /\ AllReady /\ [Next]_vars => [Shelf!Next]_OnSale
  BY <1>1, NextShelf
<1> QED
  BY <1>2, InitShelf, ReadyAlways, PTL DEF Spec, ImplementsShelf, Shelf!Spec

=============================================================================
