------------------------------- MODULE Catalog -------------------------------
(***************************************************************************)
(* Articles with their price history and features, and the prices that     *)
(* orders show: add and edit of article.service.ts, and the price          *)
(* findOrderWithHistoricalPrices picks.                                    *)
(*                                                                         *)
(* add and edit are transactions at READ COMMITTED: every statement sees   *)
(* what was committed when it began, nobody sees the rows of a transaction *)
(* before its commit.  An update of the article row, which Prisma sends    *)
(* only if a column of it is to change, keeps other edits out until then.  *)
(* Rows that were deleted, and features that were inserted, keep others    *)
(* waiting for the commit.                                                 *)
(*                                                                         *)
(* Abstractions.  A price row's id is its position, given when the row is  *)
(* inserted; a rolled back row leaves its id unused.  createdAt is `clock',*)
(* which passes by Tick; without a tick in between stamps are equal.  A    *)
(* feature's value is the call that sent it.  An order is of one article.  *)
(***************************************************************************)
EXTENDS Naturals, Sequences

CONSTANTS
    Articles,       \* ids of article rows
    Prices,         \* prices a request may carry
    FeatureSets,    \* sets of features a request may carry
    Requests,       \* slots for the requests in progress
    None,           \* absent value
    MaxCalls,       \* BOUND: calls begun in a behaviour
    MaxClock,       \* BOUND: instants told apart
    MaxOrders       \* BOUND: orders in a behaviour

ASSUME CatalogAssumption ==
    /\ None \notin Articles \cup Prices
    /\ None \notin [price : Prices,
                    features : SUBSET [feature : UNION FeatureSets, call : 1..MaxCalls]]
    /\ MaxCalls \in Nat /\ MaxClock \in Nat /\ MaxOrders \in Nat

VARIABLES
    stock,          \* articles committed
    prices,         \* article_price in the order of ids
    features,       \* article_feature
    orders,         \* order_log with the article of its cart
    requests,       \* handlers in progress
    clock,          \* now()
    calls,          \* calls begun
    locked          \* all along: every edit changes a column of the article too

vars == <<stock, prices, features, orders, requests, clock, calls, locked>>

-----------------------------------------------------------------------------
(* Rows and records.                                                       *)

PriceRows == [article : Articles, price : Prices, createdAt : 0..MaxClock,
              committed : BOOLEAN]

(* `done' is history: how many calls had begun at the commit.              *)
FeatureRows == [article : Articles, feature : UNION FeatureSets,
                call : 1..MaxCalls, done : 1..MaxCalls]

Orders == [article : Articles, createdAt : 0..MaxClock]

Steps == {"idle", "createArticle", "update", "readPrice", "insertPrice", "snapshot",
          "delete", "createFeatures", "commit"}

(* `columns' says that article columns are edited, `replaces' that the     *)
(* features are, `row' is the price row inserted, `snapshot' the feature   *)
(* rows deleteMany saw, `doomed' those it deleted.  `call' and `begun' are *)
(* the number of the call and when it began.                               *)
RequestRecords ==
    [op : {"add", "edit", None}, pc : Steps, article : Articles \cup {None},
     price : Prices \cup {None}, replaces : BOOLEAN, features : SUBSET UNION FeatureSets,
     columns : BOOLEAN, row : Nat, snapshot : SUBSET FeatureRows,
     doomed : SUBSET FeatureRows, call : 0..MaxCalls, begun : 0..MaxClock]

Idle == [op |-> None, pc |-> "idle", article |-> None, price |-> None,
         replaces |-> FALSE, features |-> {}, columns |-> FALSE, row |-> 0,
         snapshot |-> {}, doomed |-> {}, call |-> 0, begun |-> 0]

At(r, step) == requests[r].pc = step
Go(r, step) == requests' = [requests EXCEPT ![r].pc = step]
Reply(r) == requests' = [requests EXCEPT ![r] = Idle]

-----------------------------------------------------------------------------
(* Prices.                                                                 *)

(* orderBy: [{ createdAt: 'desc' }, { articlePriceId: 'desc' }]            *)
NotLater(i, j) ==
    \/ prices[i].createdAt < prices[j].createdAt
    \/ prices[i].createdAt = prices[j].createdAt /\ i <= j

History(a) == {i \in DOMAIN prices : prices[i].article = a /\ prices[i].committed}

(* take: 1, of the rows I.                                                 *)
Latest(I) == {i \in I : \A j \in I : NotLater(j, i)}

(* Faulty form: an order shows the price of today.                         *)
Today(o) == Latest(History(orders[o].article))

(* where: { createdAt: { lte: order.createdAt } }                          *)
Shown(o) ==
    Latest({i \in History(orders[o].article) : prices[i].createdAt <= orders[o].createdAt})

CurrentPrice(a) == {prices[i].price : i \in Latest(History(a))}

InsertedPrice(r) == Append(prices, [article |-> requests[r].article,
    price |-> requests[r].price, createdAt |-> clock, committed |-> FALSE])

-----------------------------------------------------------------------------
(* Calls.                                                                  *)

Begin(r, step, q) ==
    /\ At(r, "idle")
    /\ calls < MaxCalls
    /\ calls' = calls + 1
    /\ requests' = [requests EXCEPT ![r] =
           [q EXCEPT !.pc = step, !.call = calls + 1, !.begun = clock]]
    /\ UNCHANGED <<stock, prices, features, orders, clock, locked>>

Add(r, a, p, F) ==
    /\ a \notin stock
    /\ \A q \in Requests : requests[q].op = "add" => requests[q].article # a
    /\ Begin(r, "createArticle", [Idle EXCEPT !.op = "add", !.article = a, !.price = p,
                                              !.replaces = TRUE, !.features = F])

(* Each part of an edit is optional.                                       *)
EditPrice(r, a, p, b) ==
    Begin(r, "update", [Idle EXCEPT !.op = "edit", !.article = a, !.price = p, !.columns = b])

EditFeatures(r, a, F, b) ==
    Begin(r, "update", [Idle EXCEPT !.op = "edit", !.article = a, !.replaces = TRUE,
                                    !.features = F, !.columns = b])

EditBoth(r, a, p, F, b) ==
    Begin(r, "update", [Idle EXCEPT !.op = "edit", !.article = a, !.price = p,
                                    !.replaces = TRUE, !.features = F, !.columns = b])

-----------------------------------------------------------------------------
(* add: the rows of an article nobody sees yet, then the commit.           *)

CreateArticle(r) ==
    /\ At(r, "createArticle")
    /\ prices' = InsertedPrice(r)
    /\ requests' = [requests EXCEPT ![r].pc = "commit", ![r].row = Len(prices) + 1]
    /\ UNCHANGED <<stock, features, orders, clock, calls, locked>>

-----------------------------------------------------------------------------
(* edit.                                                                   *)

AfterUpdate(r) == IF requests[r].price # None THEN "readPrice"
                  ELSE IF requests[r].replaces THEN "snapshot" ELSE "commit"

AfterPrice(r) == IF requests[r].replaces THEN "snapshot" ELSE "commit"

(* A transaction that updated the article row has not committed yet.       *)
RowHeld(a) ==
    \E q \in Requests : /\ requests[q].article = a
                        /\ requests[q].columns
                        /\ requests[q].pc \notin {"idle", "update"}

(* Faulty form: an edit that sends no price leaves the article row alone.  *)
UpdateWithPrice(r) ==
    /\ At(r, "update")
    /\ requests[r].columns /\ requests[r].price # None => ~RowHeld(requests[r].article)
    /\ requests' = [requests EXCEPT ![r].pc = AfterUpdate(r),
                                    ![r].columns = @ /\ requests[r].price # None]
    /\ UNCHANGED <<stock, prices, features, orders, clock, calls, locked>>

UpdateArticle(r) ==
    /\ At(r, "update")
    /\ requests[r].columns => ~RowHeld(requests[r].article)
    /\ Go(r, AfterUpdate(r))
    /\ UNCHANGED <<stock, prices, features, orders, clock, calls, locked>>

(* Faulty form: the price is not compared.                                 *)
NeverTheSame(a, p) == FALSE

(* !currentPrice || currentPrice.price.equals(data.price)                  *)
SamePrice(a, p) == CurrentPrice(a) \subseteq {p}

ReadPrice(r) ==
    /\ At(r, "readPrice")
    /\ Go(r, IF SamePrice(requests[r].article, requests[r].price)
             THEN AfterPrice(r) ELSE "insertPrice")
    /\ UNCHANGED <<stock, prices, features, orders, clock, calls, locked>>

InsertPrice(r) ==
    /\ At(r, "insertPrice")
    /\ prices' = InsertedPrice(r)
    /\ requests' = [requests EXCEPT ![r].pc = AfterPrice(r), ![r].row = Len(prices) + 1]
    /\ UNCHANGED <<stock, features, orders, clock, calls, locked>>

FeaturesOf(a) == {x \in features : x.article = a}

(* Faulty form: the old features are kept.                                 *)
NoFeatures(a) == {}

ToDelete(a) == FeaturesOf(a)

(* deleteMany: the rows it sees ...                                        *)
SnapshotFeatures(r) ==
    /\ At(r, "snapshot")
    /\ requests' = [requests EXCEPT ![r].pc = "delete",
                                    ![r].snapshot = ToDelete(requests[r].article)]
    /\ UNCHANGED <<stock, prices, features, orders, clock, calls, locked>>

DoomedByOthers(r) == UNION {requests[q].doomed : q \in Requests \ {r}}

(* ... and those of them that others left, once they have committed.       *)
DeleteFeatures(r) ==
    /\ At(r, "delete")
    /\ requests[r].snapshot \cap DoomedByOthers(r) = {}
    /\ requests' = [requests EXCEPT ![r].pc = "createFeatures", ![r].snapshot = {},
                                    ![r].doomed = requests[r].snapshot \cap features]
    /\ UNCHANGED <<stock, prices, features, orders, clock, calls, locked>>

(* Another transaction inserted or deleted a feature that r is to insert.  *)
Waits(r) ==
    \/ \E q \in Requests \ {r} : /\ At(q, "commit")
                                 /\ requests[q].replaces
                                 /\ requests[q].article = requests[r].article
                                 /\ requests[q].features \cap requests[r].features # {}
    \/ \E x \in FeaturesOf(requests[r].article) \cap DoomedByOthers(r) :
          x.feature \in requests[r].features

(* createMany, against the unique index on article and feature.            *)
CreateFeatures(r) ==
    /\ At(r, "createFeatures")
    /\ ~Waits(r)
    /\ IF \E x \in FeaturesOf(requests[r].article) \ requests[r].doomed :
             x.feature \in requests[r].features
       THEN Reply(r)                                    \* -4001
       ELSE Go(r, "commit")
    /\ UNCHANGED <<stock, prices, features, orders, clock, calls, locked>>

-----------------------------------------------------------------------------
NewFeatures(r) ==
    {[article |-> requests[r].article, feature |-> f, call |-> requests[r].call,
      done |-> calls] : f \in requests[r].features}

(* Faulty form: the price does not make it into the transaction.           *)
CommitWithoutPrice(r) ==
    /\ At(r, "commit")
    /\ stock' = stock \cup {requests[r].article}
    /\ features' = (features \ requests[r].doomed) \cup NewFeatures(r)
    /\ Reply(r)
    /\ UNCHANGED <<prices, orders, clock, calls, locked>>

Commit(r) ==
    /\ At(r, "commit")
    /\ stock' = stock \cup {requests[r].article}
    /\ prices' = [i \in DOMAIN prices |->
                     [prices[i] EXCEPT !.committed = @ \/ i = requests[r].row]]
    /\ features' = (features \ requests[r].doomed) \cup NewFeatures(r)
    /\ Reply(r)
    /\ UNCHANGED <<orders, clock, calls, locked>>

(* The process or its connection fails, a statement is refused or waits    *)
(* too long: the transaction is rolled back.                               *)
Abort(r) ==
    /\ ~At(r, "idle")
    /\ Reply(r)
    /\ UNCHANGED <<stock, prices, features, orders, clock, calls, locked>>

(* orderLog.create of a cart with the article.                             *)
PlaceOrder(a) ==
    /\ Len(orders) < MaxOrders
    /\ orders' = Append(orders, [article |-> a, createdAt |-> clock])
    /\ UNCHANGED <<stock, prices, features, requests, clock, calls, locked>>

Tick ==
    /\ clock < MaxClock
    /\ clock' = clock + 1
    /\ UNCHANGED <<stock, prices, features, orders, requests, calls, locked>>

-----------------------------------------------------------------------------
Init ==
    /\ stock = {}
    /\ prices = <<>>
    /\ features = {}
    /\ orders = <<>>
    /\ requests = [r \in Requests |-> Idle]
    /\ clock = 0
    /\ calls = 0
    /\ locked \in BOOLEAN

Call(r) ==
    \/ \E a \in Articles, p \in Prices, F \in FeatureSets : Add(r, a, p, F)
    \/ \E a \in stock, b \in BOOLEAN :
          /\ locked => b
          /\ \/ \E p \in Prices : EditPrice(r, a, p, b)
             \/ \E F \in FeatureSets : EditFeatures(r, a, F, b)
             \/ \E p \in Prices, F \in FeatureSets : EditBoth(r, a, p, F, b)

Step(r) ==
    \/ CreateArticle(r) \/ UpdateArticle(r) \/ ReadPrice(r) \/ InsertPrice(r)
    \/ SnapshotFeatures(r) \/ DeleteFeatures(r) \/ CreateFeatures(r) \/ Commit(r)

Next ==
    \/ \E r \in Requests : Call(r)
    \/ \E r \in Requests : Step(r)
    \/ \E r \in Requests : Abort(r)
    \/ \E a \in stock : PlaceOrder(a)
    \/ Tick

Spec == Init /\ [][Next]_vars

-----------------------------------------------------------------------------
(* Properties.                                                             *)

(* Every table and every handler holds rows of its type.                   *)
TypeOK ==
    /\ stock \subseteq Articles
    /\ prices \in Seq(PriceRows)
    /\ features \subseteq FeatureRows
    /\ orders \in Seq(Orders)
    /\ requests \in [Requests -> RequestRecords]
    /\ clock \in 0..MaxClock
    /\ calls \in 0..MaxCalls
    /\ locked \in BOOLEAN

(* An order shows one price for its article, from the moment it is placed: *)
(* sendOrderConfirmationEmail takes articlePrices[0] for granted.          *)
EveryOrderHasPrice == \A o \in DOMAIN orders : \E i \in DOMAIN prices : Shown(o) = {i}

(* "HistoricalPrices": the price an order shows changes only by an edit    *)
(* that was in progress at the instant the order was placed.               *)
OrderPriceStands ==
    [][\A o \in DOMAIN orders :
          Shown(o)' # Shown(o) =>
             \E r \in Requests : /\ At(r, "commit")
                                 /\ requests'[r].pc = "idle"
                                 /\ requests[r].article = orders[o].article
                                 /\ requests[r].begun <= orders[o].createdAt]_vars

(* Features of different calls stand side by side only if the calls        *)
(* overlapped: an edit that begins later leaves nothing of an earlier list.*)
ListsMixOnlyInOverlap ==
    \A x, y \in features : x.article = y.article => y.call <= x.done

(* The history records changes only: no price repeats the one before, as   *)
(* long as every edit changes a column of the article too.                 *)
HistoryHasNoRepeats ==
    locked => \A a \in Articles : \A i \in History(a) :
        \A j \in Latest({k \in History(a) : k # i /\ NotLater(k, i)}) :
            prices[j].price # prices[i].price

(* Edits that change a column of the article too are atomic.  (Nothing is  *)
(* said of behaviours with other edits: their shelf counts as empty.)      *)
OnSale ==
    [a \in Articles |->
        IF ~locked \/ History(a) = {} THEN None
        ELSE [price |-> prices[CHOOSE i \in Latest(History(a)) : TRUE].price,
              features |-> {[feature |-> x.feature, call |-> x.call] : x \in FeaturesOf(a)}]]

Shelf == INSTANCE Shelf WITH shelf <- OnSale

ImplementsShelf == Shelf!Spec
=============================================================================
