------------------------------ MODULE CartOrder ------------------------------
(***************************************************************************)
(* The cart and order endpoints of the shop: cart.user.controller.ts over  *)
(* cart.service.ts and orderLog.service.ts.                                *)
(*                                                                         *)
(* An endpoint is a sequence of awaited database statements; Postgres runs *)
(* each statement atomically and the requests of one or several processes  *)
(* interleave between them.  A request is a record with a program counter  *)
(* `pc' and the values the handler read so far.                            *)
(*                                                                         *)
(* Abstractions.  A row's id is its position in its table (rows of these   *)
(* tables are never deleted).  A cart's cart_article rows are one function *)
(* from articles to quantities, 0 where there is no row (no statement      *)
(* writes a row of quantity 0).  Time is the number of calls begun: it     *)
(* tells apart what one client did before its next call, and no more.      *)
(***************************************************************************)
EXTENDS Naturals, Sequences

CONSTANTS
    Users,          \* rows of the user table that call the endpoints
    Articles,       \* rows of the article table
    Requests,       \* slots for the requests in progress
    Amounts,        \* quantities a request body may carry
    Statuses,       \* members of the OrderStatus enum
    Pending,        \* the enum's default, PENDING
    None,           \* absent value
    MaxQuantity,    \* largest value of the integer column cart_article.quantity
    MaxCalls,       \* BOUND: calls begun in a behaviour
    Serial          \* TRUE: a user never has two calls in progress

ASSUME CartAssumption ==
    /\ Amounts \subseteq 0..MaxQuantity
    /\ MaxQuantity \in Nat
    /\ MaxCalls \in Nat
    /\ Pending \in Statuses
    /\ None \notin Users
    /\ None \notin Articles
    /\ Serial \in BOOLEAN

VARIABLES
    carts,          \* cart with its cart_article rows
    orders,         \* order_log
    requests,       \* handlers in progress
    mailed,         \* confirmations the mail provider accepted, in order
    clock           \* calls begun

vars == <<carts, orders, requests, mailed, clock>>

-----------------------------------------------------------------------------
(* Rows and records.                                                       *)

Lines == [Articles -> 0..MaxQuantity]
NoLines == [a \in Articles |-> 0]

Carts == [userId : Users, createdAt : 0..MaxCalls, lines : Lines]
Orders == [cartId : Nat \ {0}, status : Statuses]
Mails == [orderId : Nat \ {0}, lines : Lines]

Ops == {"view", "add", "change", "order"}
Steps == {"findCart", "findOrder", "create", "upsert", "lookup", "delete",
          "update", "checkOrder", "checkCart", "insert", "details", "mail"}

(* `seen' is history: how many orders existed when the call began.  `since'*)
(* is when the call began, then when it noticed that a cart is missing.    *)
RequestRecords ==
    [op : Ops \cup {None}, pc : Steps \cup {"idle"}, userId : Users \cup {None},
     articleId : Articles \cup {None}, quantity : 0..MaxQuantity,
     cartId : Nat, since : 0..MaxCalls, seen : Nat,
     orderId : Nat, lines : Lines]

Idle == [op |-> None, pc |-> "idle", userId |-> None, articleId |-> None,
         quantity |-> 0, cartId |-> 0, since |-> 0, seen |-> 0,
         orderId |-> 0, lines |-> NoLines]

HasOrder(c) == \E i \in DOMAIN orders : orders[i].cartId = c

CartsOf(u) == {c \in DOMAIN carts : carts[c].userId = u}

(* Faulty form: orderBy createdAt ascending.                               *)
OldestCartsOf(u) ==
    {c \in CartsOf(u) : \A d \in CartsOf(u) : carts[c].createdAt <= carts[d].createdAt}

(* findFirst({where: {userId}, orderBy: {createdAt: 'desc'}, take: 1}):    *)
(* Postgres breaks ties of createdAt as it likes.                          *)
LatestCartsOf(u) ==
    {c \in CartsOf(u) : \A d \in CartsOf(u) : carts[d].createdAt <= carts[c].createdAt}

IsEmpty(lines) == \A a \in Articles : lines[a] = 0

(* What the handler does once it holds the user's cart.                    *)
FirstStep(op) ==
    CASE op = "view"   -> "idle"
      [] op = "add"    -> "upsert"
      [] op = "change" -> "lookup"
      [] op = "order"  -> "checkOrder"

-----------------------------------------------------------------------------
(* Control of a request.                                                   *)

Busy(u) == \E r \in Requests : requests[r].userId = u

At(r, step) == requests[r].pc = step

Go(r, step) == requests' = [requests EXCEPT ![r].pc = step]

Reply(r) == requests' = [requests EXCEPT ![r] = Idle]

(* `cart = ...; cart.cartId' of the controller: the request holds cart c.  *)
Resolve(r, c) ==
    IF FirstStep(requests[r].op) = "idle"
    THEN Reply(r)
    ELSE requests' = [requests EXCEPT ![r].pc = FirstStep(requests[r].op),
                                      ![r].cartId = c]

-----------------------------------------------------------------------------
(* A call arrives.  The DTOs let an add carry a quantity of at least 1 and *)
(* a change one of at least 0.                                             *)

Begin(r, u, op, a, q) ==
    /\ At(r, "idle")
    /\ clock < MaxCalls
    /\ Serial => ~Busy(u)
    /\ clock' = clock + 1
    /\ requests' = [requests EXCEPT ![r] =
           [op |-> op, pc |-> "findCart", userId |-> u, articleId |-> a,
            quantity |-> q, cartId |-> 0, since |-> clock + 1,
            seen |-> Len(orders), orderId |-> 0, lines |-> NoLines]]
    /\ UNCHANGED <<carts, orders, mailed>>

GetCurrentCart(r, u) == Begin(r, u, "view", None, 0)

AddToCart(r, u, a, q) == q >= 1 /\ Begin(r, u, "add", a, q)

ChangeQuantity(r, u, a, q) == Begin(r, u, "change", a, q)

MakeOrder(r, u) == Begin(r, u, "order", None, 0)

-----------------------------------------------------------------------------
(* getCurrentCartForUserId.                                                *)

(* getLastActiveCartByUserId reads the latest cart ...                     *)
FindCart(r) ==
    /\ At(r, "findCart")
    /\ \/ /\ CartsOf(requests[r].userId) = {}
          /\ requests' = [requests EXCEPT ![r].pc = "create", ![r].since = clock]
       \/ \E c \in LatestCartsOf(requests[r].userId) :
             requests' = [requests EXCEPT ![r].pc = "findOrder", ![r].cartId = c]
    /\ UNCHANGED <<carts, orders, mailed, clock>>

(* `check if cart has already been used'.  Faulty form: the check is left  *)
(* out.                                                                    *)
NeverUsed(c) == FALSE

AlreadyUsed(c) == HasOrder(c)

(* ... and, in a second statement, the order that cart may have.           *)
FindOrder(r) ==
    /\ At(r, "findOrder")
    /\ IF AlreadyUsed(requests[r].cartId)
       THEN requests' = [requests EXCEPT ![r].pc = "create", ![r].cartId = 0,
                                         ![r].since = clock]
       ELSE Resolve(r, requests[r].cartId)
    /\ UNCHANGED <<carts, orders, mailed, clock>>

(* createNewCartForUser: now() is taken somewhere before the row is seen.  *)
CreateCart(r) ==
    /\ At(r, "create")
    /\ \E t \in requests[r].since..clock :
          carts' = Append(carts, [userId |-> requests[r].userId,
                                  createdAt |-> t, lines |-> NoLines])
    /\ Resolve(r, Len(carts) + 1)
    /\ UNCHANGED <<orders, mailed, clock>>

-----------------------------------------------------------------------------
(* Writing the lines of a cart.                                            *)

SetLine(c, a, q) == carts' = [carts EXCEPT ![c].lines[a] = q]

(* The values the integer column accepts.  Faulty form: an unchecked one.  *)
FitsAlways(q) == TRUE

Fits(q) == q <= MaxQuantity

Added(r) ==
    carts[requests[r].cartId].lines[requests[r].articleId] + requests[r].quantity

(* addArticleToCart: INSERT ... ON CONFLICT DO UPDATE, one statement.  A   *)
(* sum that the column cannot hold fails and changes nothing.              *)
AddArticleToCart(r) ==
    /\ At(r, "upsert")
    /\ IF Fits(Added(r))
       THEN SetLine(requests[r].cartId, requests[r].articleId, Added(r))
       ELSE UNCHANGED carts
    /\ Reply(r)
    /\ UNCHANGED <<orders, mailed, clock>>

(* changeQuantity reads the row first, then deletes or updates it; a row   *)
(* gone in between makes the second statement fail.                        *)
LineExists(r) == carts[requests[r].cartId].lines[requests[r].articleId] # 0

LookupLine(r) ==
    /\ At(r, "lookup")
    /\ IF LineExists(r)
       THEN Go(r, IF requests[r].quantity = 0 THEN "delete" ELSE "update")
       ELSE Reply(r)
    /\ UNCHANGED <<carts, orders, mailed, clock>>

WriteLine(r) ==
    /\ At(r, "delete") \/ At(r, "update")
    /\ IF LineExists(r)
       THEN SetLine(requests[r].cartId, requests[r].articleId, requests[r].quantity)
       ELSE UNCHANGED carts
    /\ Reply(r)
    /\ UNCHANGED <<orders, mailed, clock>>

-----------------------------------------------------------------------------
(* orderLog.service.ts: add.                                               *)

CheckOrder(r) ==
    /\ At(r, "checkOrder")
    /\ IF HasOrder(requests[r].cartId)          \* -7001
       THEN Reply(r)
       ELSE Go(r, "checkCart")
    /\ UNCHANGED <<carts, orders, mailed, clock>>

(* Faulty form: the -7003 check is left out.                               *)
SkipCart(r) ==
    /\ At(r, "checkCart")
    /\ Go(r, "insert")
    /\ UNCHANGED <<carts, orders, mailed, clock>>

CheckCart(r) ==
    /\ At(r, "checkCart")
    /\ IF IsEmpty(carts[requests[r].cartId].lines)   \* -7003
       THEN Reply(r)
       ELSE Go(r, "insert")
    /\ UNCHANGED <<carts, orders, mailed, clock>>

(* The unique index on order_log.cart_id.  Faulty form: no such index.     *)
NeverTaken(c) == FALSE

Taken(c) == HasOrder(c)

(* Faulty form: a cart with an order gets that order back, an upsert.      *)
FindOrCreateOrder(r) ==
    /\ At(r, "insert")
    /\ \/ \E i \in DOMAIN orders :
             /\ orders[i].cartId = requests[r].cartId
             /\ requests' = [requests EXCEPT ![r].pc = "details", ![r].orderId = i]
             /\ UNCHANGED orders
       \/ /\ ~HasOrder(requests[r].cartId)
          /\ orders' = Append(orders, [cartId |-> requests[r].cartId, status |-> Pending])
          /\ requests' = [requests EXCEPT ![r].pc = "details",
                                          ![r].orderId = Len(orders) + 1]
    /\ UNCHANGED <<carts, mailed, clock>>

(* orderLog.create; the unique index refuses a second order of the cart.   *)
InsertOrder(r) ==
    /\ At(r, "insert")
    /\ IF Taken(requests[r].cartId)
       THEN Reply(r) /\ UNCHANGED orders
       ELSE /\ orders' = Append(orders, [cartId |-> requests[r].cartId, status |-> Pending])
            /\ requests' = [requests EXCEPT ![r].pc = "details",
                                            ![r].orderId = Len(orders) + 1]
    /\ UNCHANGED <<carts, mailed, clock>>

(* Faulty form: reads the newest order instead of the one it created.      *)
ReadNewest(r) ==
    /\ At(r, "details")
    /\ requests' = [requests EXCEPT ![r].pc = "mail",
           ![r].lines = carts[orders[Len(orders)].cartId].lines]
    /\ UNCHANGED <<carts, orders, mailed, clock>>

(* findOrderWithHistoricalPrices: the order is read back with its lines.   *)
ReadDetails(r) ==
    /\ At(r, "details")
    /\ requests' = [requests EXCEPT ![r].pc = "mail",
           ![r].lines = carts[orders[requests[r].orderId].cartId].lines]
    /\ UNCHANGED <<carts, orders, mailed, clock>>

(* sendOrderConfirmationEmail; a failure is logged and swallowed.          *)
SendMail(r) ==
    /\ At(r, "mail")
    /\ \/ mailed' = Append(mailed, [orderId |-> requests[r].orderId,
                                    lines |-> requests[r].lines])
       \/ UNCHANGED mailed
    /\ Reply(r)
    /\ UNCHANGED <<carts, orders, clock>>

(* The process stops, the connection is lost or a statement is refused (a  *)
(* foreign key, a timeout): the handler ends here.  There is no            *)
(* transaction around its statements, so nothing is undone.                *)
Abort(r) ==
    /\ ~At(r, "idle")
    /\ Reply(r)
    /\ UNCHANGED <<carts, orders, mailed, clock>>

(* cart.administrator.controller.ts: any status may replace any other.     *)
ChangeStatus(i, s) ==
    /\ orders' = [orders EXCEPT ![i].status = s]
    /\ UNCHANGED <<carts, requests, mailed, clock>>

-----------------------------------------------------------------------------
Init ==
    /\ carts = <<>>
    /\ orders = <<>>
    /\ requests = [r \in Requests |-> Idle]
    /\ mailed = <<>>
    /\ clock = 0

Call(r) ==
    \E u \in Users :
        \/ GetCurrentCart(r, u)
        \/ MakeOrder(r, u)
        \/ \E a \in Articles, q \in Amounts : AddToCart(r, u, a, q)
        \/ \E a \in Articles, q \in Amounts : ChangeQuantity(r, u, a, q)

Step(r) ==
    \/ FindCart(r)
    \/ FindOrder(r)
    \/ CreateCart(r)
    \/ AddArticleToCart(r)
    \/ LookupLine(r)
    \/ WriteLine(r)
    \/ CheckOrder(r)
    \/ CheckCart(r)
    \/ InsertOrder(r)
    \/ ReadDetails(r)
    \/ SendMail(r)

Next ==
    \/ \E r \in Requests : Call(r)
    \/ \E r \in Requests : Step(r)
    \/ \E r \in Requests : Abort(r)
    \/ \E i \in DOMAIN orders, s \in Statuses : ChangeStatus(i, s)

Spec == Init /\ [][Next]_vars

-----------------------------------------------------------------------------
(* Properties.                                                             *)

(* Every table and every handler holds rows of its type.                   *)
TypeOK ==
    /\ carts \in Seq(Carts)
    /\ orders \in Seq(Orders)
    /\ requests \in [Requests -> RequestRecords]
    /\ mailed \in Seq(Mails)
    /\ clock \in 0..MaxCalls

(* Two calls of makeOrder that both passed the -7001 check of add do not   *)
(* both order the cart.                                                    *)
OneOrderPerCart ==
    \A i, j \in DOMAIN orders : orders[i].cartId = orders[j].cartId => i = j

(* A customer is mailed at most one confirmation of an order, whichever of *)
(* the concurrent calls of makeOrder reach the mail provider.              *)
OneMailPerOrder ==
    \A i, j \in DOMAIN mailed : mailed[i].orderId = mailed[j].orderId => i = j

(* The goods of a placed order are changed only by the writing statement   *)
(* of a call of the same customer that resolved the cart before it was     *)
(* ordered and that began before the order was placed: no later addToCart  *)
(* or changeQuantity ever writes the ordered cart, whoever else is still   *)
(* in progress.                                                            *)
GoodsOf(i) == carts[orders[i].cartId].lines

(* The step is the one with which handler r writes the cart of order i.    *)
WritesOrdered(r, i) ==
    /\ requests[r].pc \in {"upsert", "update", "delete"}
    /\ requests[r].cartId = orders[i].cartId
    /\ requests'[r] # requests[r]

OrdersAreClosed ==
    [][\A i \in DOMAIN orders :
          GoodsOf(i)' # GoodsOf(i) =>
             \E r \in Requests :
                /\ WritesOrdered(r, i)
                /\ requests[r].userId = carts[orders[i].cartId].userId
                /\ requests[r].seen < i]_vars

(* An order has goods, as add's check -7003 "This cart is empty" says.     *)
(* Holds when a user's calls do not overlap.                               *)
OrderHasGoods == \A i \in DOMAIN orders : ~IsEmpty(GoodsOf(i))

(* The confirmation lists the goods that are delivered.  Holds when a      *)
(* user's calls do not overlap.                                            *)
MailTellsTheOrder ==
    \A i \in DOMAIN mailed : mailed[i].lines = GoodsOf(mailed[i].orderId)

(* A user has one cart to fill at a time, the one the endpoints find.      *)
(* Holds when a user's calls do not overlap.                               *)
OpenCartsOf(u) == {c \in CartsOf(u) : ~HasOrder(c)}

OneOpenCart ==
    \A u \in Users : \A c, d \in OpenCartsOf(u) : c = d

(* The shop a customer sees when a user's calls do not overlap.            *)
Basket ==
    [u \in Users |-> IF OpenCartsOf(u) = {} THEN NoLines
                     ELSE carts[CHOOSE c \in OpenCartsOf(u) : TRUE].lines]

Placed ==
    [i \in DOMAIN orders |-> [userId |-> carts[orders[i].cartId].userId,
                              lines |-> GoodsOf(i), status |-> orders[i].status]]

Shop == INSTANCE Shop WITH basket <- Basket, placed <- Placed

(* The endpoints implement the shop: what was added is what is ordered,    *)
(* and a placed order never changes but for its status.                    *)
ImplementsShop == Shop!Spec
=============================================================================
