--------------------------- MODULE CartOrderProofs ---------------------------
(***************************************************************************)
(* What CartOrder guarantees however many customers call, however often,   *)
(* and however their calls overlap; then what it guarantees when no        *)
(* customer has two calls in progress.                                     *)
(***************************************************************************)
EXTENDS CartOrder, SequenceTheorems, TLAPS

(* Steps at which a handler holds the cart it resolved, by what follows.   *)
LineSteps == {"upsert", "lookup", "delete", "update"}
BeforeOrder == {"checkOrder", "checkCart", "insert"}
AfterOrder == {"details", "mail"}
Holding == LineSteps \cup BeforeOrder

(* Foreign keys: order_log.cart_id names a cart, a mail names an order.    *)
References ==
    /\ \A i \in DOMAIN orders : orders[i].cartId \in DOMAIN carts
    /\ \A i \in DOMAIN mailed : mailed[i].orderId \in DOMAIN orders

(* What a handler keeps across its awaits.                                 *)
Handler(r) ==
    LET q == requests[r] IN
    /\ q.pc # "idle" =>
          /\ q.op \in Ops
          /\ q.userId \in Users
          /\ q.op \in {"add", "change"} => q.articleId \in Articles
    /\ q.pc \in LineSteps => q.op \in {"add", "change"}
    /\ q.pc \in Holding \cup {"findOrder"} =>
          /\ q.cartId \in DOMAIN carts
          /\ carts[q.cartId].userId = q.userId
    /\ q.since <= clock
    /\ q.pc \in AfterOrder => q.orderId \in DOMAIN orders

Handlers == \A r \in Requests : Handler(r)

(* A handler never holds a cart that was ordered before its call began.    *)
HoldsNoOldOrder ==
    \A r \in Requests :
        requests[r].pc \in Holding =>
           \A i \in DOMAIN orders :
              i <= requests[r].seen => orders[i].cartId # requests[r].cartId

SeenBound == \A r \in Requests : requests[r].seen <= Len(orders)

(* The handler that created an order is the only one that will mail it.    *)
OneMailer ==
    \A r \in Requests :
        requests[r].pc \in AfterOrder =>
           /\ \A i \in DOMAIN mailed : mailed[i].orderId # requests[r].orderId
           /\ \A s \in Requests :
                 s # r /\ requests[s].pc \in AfterOrder =>
                    requests[s].orderId # requests[r].orderId

Inv ==
    /\ TypeOK
    /\ References
    /\ Handlers
    /\ SeenBound
    /\ HoldsNoOldOrder
    /\ OneOrderPerCart
    /\ OneMailer
    /\ OneMailPerOrder

-----------------------------------------------------------------------------
(* What the steps never undo: carts keep their owner, orders their cart.   *)
CartsKept ==
    /\ DOMAIN carts \subseteq DOMAIN carts'
    /\ \A c \in DOMAIN carts : carts'[c].userId = carts[c].userId

OrdersKept ==
    /\ Len(orders) <= Len(orders')
    /\ \A i \in DOMAIN orders : orders'[i].cartId = orders[i].cartId

OnlyRequest(r) == \A s \in Requests \ {r} : requests'[s] = requests[s]

-----------------------------------------------------------------------------
(* The constant record and lines are of their types.                       *)
LEMMA IdleType == NoLines \in Lines /\ Idle \in RequestRecords
  BY CartAssumption DEF NoLines, Lines, Idle, RequestRecords

(* The initial state satisfies the inductive invariant.                    *)
LEMMA InitInv == Init => Inv
<1> SUFFICES ASSUME Init PROVE Inv
  OBVIOUS
<1>1. \A r \in Requests : requests[r] = Idle
  BY DEF Init
<1>2. orders = <<>> /\ mailed = <<>> /\ carts = <<>> /\ clock = 0
  BY DEF Init
<1>3. TypeOK
  <2>1. requests \in [Requests -> RequestRecords]
    BY IdleType DEF Init
  <2> QED
    BY <2>1, <1>2, CartAssumption DEF TypeOK
<1>4. Handlers
  BY <1>1, <1>2 DEF Handlers, Handler, Idle, Holding, LineSteps, BeforeOrder, AfterOrder
<1>5. SeenBound /\ HoldsNoOldOrder /\ OneMailer
  BY <1>1, <1>2 DEF SeenBound, HoldsNoOldOrder, OneMailer, Idle, Holding, LineSteps,
                    BeforeOrder, AfterOrder
<1>6. References /\ OneOrderPerCart /\ OneMailPerOrder
  BY <1>2 DEF References, OneOrderPerCart, OneMailPerOrder
<1> QED
  BY <1>3, <1>4, <1>5, <1>6 DEF Inv

-----------------------------------------------------------------------------
(* A step of handler r leaves what the others rely on alone.               *)
LEMMA HandlersFrame ==
  ASSUME Inv, TypeOK', NEW r \in Requests, OnlyRequest(r), CartsKept, OrdersKept,
         clock <= clock',
         Handler(r)',
         requests'[r].seen <= Len(orders'),
         requests'[r].pc \in Holding =>
            \A i \in DOMAIN orders' :
               i <= requests'[r].seen => orders'[i].cartId # requests'[r].cartId
  PROVE  Handlers' /\ SeenBound' /\ HoldsNoOldOrder'
<1>1. Len(orders) \in Nat /\ Len(orders') \in Nat /\ clock \in Nat /\ clock' \in Nat
  BY CartAssumption DEF Inv, TypeOK
<1>2. DOMAIN orders = 1..Len(orders) /\ DOMAIN orders' = 1..Len(orders')
  BY DEF Inv, TypeOK
<1>3. \A s \in Requests : requests[s].seen \in Nat /\ requests[s].since \in Nat
  <2>1. \A s \in Requests : requests[s] \in RequestRecords
    BY DEF Inv, TypeOK
  <2>2. 0..MaxCalls \subseteq Nat
    OBVIOUS
  <2> QED
    BY <2>1, <2>2 DEF RequestRecords
<1>4. ASSUME NEW s \in Requests \ {r} PROVE Handler(s)'
  <2>1. requests'[s] = requests[s] /\ Handler(s)
    BY DEF OnlyRequest, Inv, Handlers
  <2> QED
    BY <2>1, <1>1, <1>2, <1>3 DEF Handler, CartsKept, OrdersKept
<1>5. ASSUME NEW s \in Requests \ {r} PROVE requests'[s].seen <= Len(orders')
  BY <1>1, <1>3 DEF OnlyRequest, Inv, SeenBound, OrdersKept
<1>6. ASSUME NEW s \in Requests \ {r}, requests'[s].pc \in Holding,
             NEW i \in DOMAIN orders', i <= requests'[s].seen
      PROVE  orders'[i].cartId # requests'[s].cartId
  <2>1. requests'[s] = requests[s] /\ requests[s].seen <= Len(orders)
    BY DEF OnlyRequest, Inv, SeenBound
  <2>2. i \in DOMAIN orders
    BY <2>1, <1>1, <1>2, <1>3, <1>6
  <2> QED
    BY <2>1, <2>2, <1>6 DEF Inv, HoldsNoOldOrder, OrdersKept
<1> QED
  BY <1>4, <1>5, <1>6 DEF Handlers, SeenBound, HoldsNoOldOrder

(* A step that neither creates an order nor sends a mail.                  *)
LEMMA OrdersFrame ==
  ASSUME Inv, TypeOK', NEW r \in Requests, OnlyRequest(r), CartsKept, OrdersKept,
         DOMAIN orders' = DOMAIN orders, mailed' = mailed,
         requests'[r].pc \in AfterOrder =>
            /\ requests[r].pc \in AfterOrder
            /\ requests'[r].orderId = requests[r].orderId
  PROVE  References' /\ OneOrderPerCart' /\ OneMailer' /\ OneMailPerOrder'
<1>1. References' /\ OneOrderPerCart' /\ OneMailPerOrder'
  BY DEF Inv, References, OneOrderPerCart, OneMailPerOrder, CartsKept, OrdersKept
<1>2. OneMailer'
  BY DEF Inv, OneMailer, OnlyRequest
<1> QED
  BY <1>1, <1>2

(* A handler that ends keeps the invariant, whatever lines it wrote.       *)
LEMMA ReplyInv ==
  ASSUME Inv, NEW r \in Requests, Reply(r), carts' \in Seq(Carts), CartsKept,
         UNCHANGED <<orders, mailed, clock>>
  PROVE  Inv'
<1>1. requests'[r] = Idle /\ OnlyRequest(r) /\ TypeOK'
  BY IdleType DEF Inv, TypeOK, Reply, OnlyRequest
<1>2. OrdersKept /\ clock <= clock'
  BY CartAssumption DEF Inv, TypeOK, OrdersKept
<1>3. /\ requests'[r].pc = "idle"
      /\ requests'[r].seen = 0 /\ requests'[r].since = 0
  BY <1>1 DEF Idle
<1>4. 0 <= clock' /\ 0 <= Len(orders')
  BY DEF Inv, TypeOK
<1>5. Handler(r)'
  BY <1>3, <1>4 DEF Handler, Holding, LineSteps, BeforeOrder, AfterOrder
<1>6. Handlers' /\ SeenBound' /\ HoldsNoOldOrder'
  BY <1>1, <1>2, <1>3, <1>4, <1>5, HandlersFrame
  DEF Holding, LineSteps, BeforeOrder
<1>7. References' /\ OneOrderPerCart' /\ OneMailer' /\ OneMailPerOrder'
  BY <1>1, <1>2, <1>3, OrdersFrame DEF AfterOrder
<1> QED
  BY <1>1, <1>6, <1>7 DEF Inv

(* A handler that moves on, holding a cart it may hold.                    *)
LEMMA MoveInv ==
  ASSUME Inv, NEW r \in Requests, OnlyRequest(r), CartsKept, carts' \in Seq(Carts),
         UNCHANGED <<orders, mailed, clock>>,
         requests' \in [Requests -> RequestRecords],
         requests[r].pc # "idle",
         requests'[r].op = requests[r].op,
         requests'[r].userId = requests[r].userId,
         requests'[r].articleId = requests[r].articleId,
         requests'[r].seen = requests[r].seen,
         requests'[r].orderId = requests[r].orderId,
         requests'[r].since <= clock,
         requests'[r].pc \in LineSteps => requests[r].op \in {"add", "change"},
         requests'[r].pc \in Holding \cup {"findOrder"} =>
            /\ requests'[r].cartId \in DOMAIN carts'
            /\ carts'[requests'[r].cartId].userId = requests[r].userId,
         requests'[r].pc \in Holding =>
            \A i \in DOMAIN orders :
               i <= requests[r].seen => orders[i].cartId # requests'[r].cartId,
         requests'[r].pc \in AfterOrder => requests[r].pc \in AfterOrder
  PROVE  Inv'
<1>1. TypeOK' /\ OrdersKept /\ clock <= clock'
  BY CartAssumption DEF Inv, TypeOK, OrdersKept
<1>2. Handler(r) /\ requests[r].seen <= Len(orders)
  BY DEF Inv, Handlers, SeenBound
<1>3. Handler(r)'
  BY <1>1, <1>2 DEF Handler
<1>4. Handlers' /\ SeenBound' /\ HoldsNoOldOrder'
  BY <1>1, <1>2, <1>3, HandlersFrame
<1>5. References' /\ OneOrderPerCart' /\ OneMailer' /\ OneMailPerOrder'
  BY <1>1, OrdersFrame
<1> QED
  BY <1>1, <1>4, <1>5 DEF Inv

(* Carts that stay as they are, gain a line's value, or gain a cart.       *)
LEMMA SameCarts == UNCHANGED carts => CartsKept
  BY DEF CartsKept

LEMMA SetLineKeeps ==
  ASSUME TypeOK, NEW c \in DOMAIN carts, NEW a \in Articles,
         NEW q \in 0..MaxQuantity, SetLine(c, a, q)
  PROVE  /\ carts' \in Seq(Carts)
         /\ CartsKept
         /\ \A d \in DOMAIN carts \ {c} : carts'[d] = carts[d]
<1>1. carts \in Seq(Carts) /\ carts[c] \in Carts
  BY DEF TypeOK
<1>2. carts[c].lines \in Lines
  BY <1>1 DEF Carts
<1>3. [carts[c].lines EXCEPT ![a] = q] \in Lines
  BY <1>2 DEF Lines
<1> DEFINE C == [carts[c] EXCEPT !.lines = [carts[c].lines EXCEPT ![a] = q]]
<1>4. C \in Carts /\ C.userId = carts[c].userId
  BY <1>1, <1>3 DEF Carts
<1>5. carts' = [carts EXCEPT ![c] = C]
  BY DEF SetLine
<1> HIDE DEF C
<1>6. carts' \in Seq(Carts)
  BY <1>1, <1>4, <1>5, ExceptSeq
<1> QED
  BY <1>1, <1>4, <1>5, <1>6 DEF CartsKept

LEMMA BeginInv ==
  ASSUME Inv, NEW r \in Requests, NEW u \in Users, NEW op \in Ops,
         NEW a \in Articles \cup {None}, NEW q \in 0..MaxQuantity,
         op \in {"add", "change"} => a \in Articles,
         Begin(r, u, op, a, q)
  PROVE  Inv'
<1> DEFINE R == [op |-> op, pc |-> "findCart", userId |-> u, articleId |-> a,
                 quantity |-> q, cartId |-> 0, since |-> clock + 1,
                 seen |-> Len(orders), orderId |-> 0, lines |-> NoLines]
<1>1. R \in RequestRecords /\ clock' \in 0..MaxCalls /\ Len(orders) \in Nat
  BY IdleType, CartAssumption DEF Begin, Inv, TypeOK, RequestRecords, Steps
<1>2. requests'[r] = R /\ OnlyRequest(r) /\ requests' \in [Requests -> RequestRecords]
  BY <1>1 DEF Begin, Inv, TypeOK, OnlyRequest
<1>3. TypeOK' /\ OrdersKept /\ CartsKept /\ clock' = clock + 1 /\ clock \in Nat
  BY <1>1, <1>2 DEF Begin, Inv, TypeOK, OrdersKept, CartsKept
<1>4. requests'[r].pc = "findCart" /\ requests'[r].seen = Len(orders')
  BY <1>2 DEF Begin
<1>5. Handler(r)'
  BY <1>2, <1>3 DEF Handler, Holding, LineSteps, BeforeOrder, AfterOrder
<1>6. Handlers' /\ SeenBound' /\ HoldsNoOldOrder'
  BY <1>1, <1>2, <1>3, <1>4, <1>5, HandlersFrame DEF Begin, Holding, LineSteps, BeforeOrder
<1>7. References' /\ OneOrderPerCart' /\ OneMailer' /\ OneMailPerOrder'
  BY <1>2, <1>3, <1>4, OrdersFrame DEF Begin, AfterOrder
<1> QED
  BY <1>3, <1>6, <1>7 DEF Inv

(* A handler's record after it moves to step p with cart c.                *)
Moved(r, p, c, t) == [requests[r] EXCEPT !.pc = p, !.cartId = c, !.since = t]

LEMMA MovedFields ==
  ASSUME requests \in [Requests -> RequestRecords], NEW r \in Requests,
         NEW p \in Steps, NEW c \in Nat, NEW t \in 0..MaxCalls,
         requests' = [requests EXCEPT ![r] = Moved(r, p, c, t)]
  PROVE  /\ requests' \in [Requests -> RequestRecords]
         /\ OnlyRequest(r)
         /\ requests'[r].pc = p
         /\ requests'[r].cartId = c
         /\ requests'[r].since = t
         /\ requests'[r].op = requests[r].op
         /\ requests'[r].userId = requests[r].userId
         /\ requests'[r].articleId = requests[r].articleId
         /\ requests'[r].seen = requests[r].seen
         /\ requests'[r].orderId = requests[r].orderId
<1>1. requests[r] \in RequestRecords /\ requests'[r] = Moved(r, p, c, t)
  OBVIOUS
<1>2. Moved(r, p, c, t) \in RequestRecords
  BY <1>1 DEF Moved, RequestRecords
<1>3. requests' \in [Requests -> RequestRecords] /\ OnlyRequest(r)
  BY <1>2 DEF OnlyRequest
<1> QED
  BY <1>1, <1>3 DEF Moved, RequestRecords

(* What every handler relies on when it takes a step.                      *)
LEMMA InProgress ==
  ASSUME Inv, NEW r \in Requests, requests[r].pc # "idle"
  PROVE  /\ requests \in [Requests -> RequestRecords]
         /\ requests[r] \in RequestRecords
         /\ requests[r].cartId \in Nat
         /\ requests[r].since \in 0..MaxCalls
         /\ requests[r].since <= clock
         /\ clock \in 0..MaxCalls
         /\ clock \in Nat
         /\ carts \in Seq(Carts)
         /\ requests[r].op \in Ops
         /\ requests[r].userId \in Users
         /\ requests[r].op \in {"add", "change"} => requests[r].articleId \in Articles
<1>1. requests \in [Requests -> RequestRecords] /\ clock \in 0..MaxCalls
      /\ carts \in Seq(Carts) /\ Handler(r)
  BY DEF Inv, TypeOK, Handlers
<1>2. requests[r] \in RequestRecords
  BY <1>1
<1> QED
  BY <1>1, <1>2 DEF RequestRecords, Handler

LEMMA MovedInv ==
  ASSUME Inv, NEW r \in Requests, requests[r].pc # "idle",
         NEW p \in Steps \ AfterOrder, NEW c \in Nat, NEW t \in 0..MaxCalls, t <= clock,
         requests' = [requests EXCEPT ![r] = Moved(r, p, c, t)],
         carts' \in Seq(Carts), CartsKept, UNCHANGED <<orders, mailed, clock>>,
         p \in LineSteps => requests[r].op \in {"add", "change"},
         p \in Holding \cup {"findOrder"} =>
            c \in DOMAIN carts' /\ carts'[c].userId = requests[r].userId,
         p \in Holding =>
            \A i \in DOMAIN orders : i <= requests[r].seen => orders[i].cartId # c
  PROVE  Inv'
<1>1. /\ requests' \in [Requests -> RequestRecords]
      /\ OnlyRequest(r)
      /\ requests'[r].pc = p
      /\ requests'[r].cartId = c
      /\ requests'[r].since = t
      /\ requests'[r].op = requests[r].op
      /\ requests'[r].userId = requests[r].userId
      /\ requests'[r].articleId = requests[r].articleId
      /\ requests'[r].seen = requests[r].seen
      /\ requests'[r].orderId = requests[r].orderId
  BY InProgress, MovedFields
<1> QED
  BY <1>1, MoveInv

LEMMA FindCartInv ==
  ASSUME Inv, NEW r \in Requests, FindCart(r)
  PROVE  Inv'
<1> USE DEF FindCart, At
<1>1. requests[r].pc # "idle" /\ CartsKept
  BY SameCarts
<1>2. CASE requests' = [requests EXCEPT ![r].pc = "create", ![r].since = clock]
  <2>1. requests' = [requests EXCEPT ![r] = Moved(r, "create", requests[r].cartId, clock)]
    BY <1>1, <1>2, InProgress DEF Moved, RequestRecords
  <2>2. /\ carts' \in Seq(Carts) /\ requests[r].cartId \in Nat
        /\ clock \in 0..MaxCalls /\ clock <= clock
    BY <1>1, InProgress
  <2>3. "create" \in Steps \ AfterOrder /\ "create" \notin Holding \cup {"findOrder"}
        /\ "create" \notin LineSteps
    BY DEF Steps, Holding, LineSteps, BeforeOrder, AfterOrder
  <2> QED
    BY <1>1, <2>1, <2>2, <2>3, MovedInv
<1>3. ASSUME NEW c \in LatestCartsOf(requests[r].userId),
             requests' = [requests EXCEPT ![r].pc = "findOrder", ![r].cartId = c]
      PROVE  Inv'
  <2>1. c \in DOMAIN carts /\ carts[c].userId = requests[r].userId /\ c \in Nat
    BY <1>1, InProgress DEF LatestCartsOf, CartsOf
  <2>2. requests' = [requests EXCEPT ![r] = Moved(r, "findOrder", c, requests[r].since)]
    BY <1>1, <1>3, InProgress DEF Moved, RequestRecords
  <2> QED
    BY <1>1, <2>1, <2>2, InProgress, MovedInv
    DEF Steps, Holding, LineSteps, BeforeOrder, AfterOrder
<1> QED
  BY <1>2, <1>3

(* Resolving to a cart without an order keeps the invariant.               *)
LEMMA ResolveInv ==
  ASSUME Inv, NEW r \in Requests, requests[r].pc # "idle",
         carts' \in Seq(Carts), CartsKept, UNCHANGED <<orders, mailed, clock>>,
         NEW c \in DOMAIN carts', carts'[c].userId = requests[r].userId,
         \A i \in DOMAIN orders : orders[i].cartId # c,
         Resolve(r, c)
  PROVE  Inv'
<1> DEFINE p == FirstStep(requests[r].op)
<1>1. CASE p = "idle"
  BY <1>1, ReplyInv DEF Resolve
<1>2. CASE p # "idle"
  <2>1. /\ p \in Steps \cap Holding
        /\ p \in LineSteps => requests[r].op \in {"add", "change"}
        /\ p \notin AfterOrder
    BY <1>2, InProgress DEF Ops, FirstStep, Steps, Holding, LineSteps, BeforeOrder, AfterOrder
  <2>2. requests' = [requests EXCEPT ![r].pc = p, ![r].cartId = c]
    BY <1>2 DEF Resolve
  <2> HIDE DEF p
  <2>3. requests' = [requests EXCEPT ![r] = Moved(r, p, c, requests[r].since)] /\ c \in Nat
    <3>1. requests \in [Requests -> RequestRecords] /\ carts' \in Seq(Carts)
      BY InProgress
    <3>2. c \in Nat
      BY <3>1
    <3> QED
      BY <2>2, <3>1, <3>2 DEF Moved, RequestRecords
  <2> QED
    BY <2>1, <2>3, InProgress, MovedInv
<1> QED
  BY <1>1, <1>2

LEMMA FindOrderInv ==
  ASSUME Inv, NEW r \in Requests, FindOrder(r)
  PROVE  Inv'
<1> USE DEF FindOrder, At, AlreadyUsed
<1>1. /\ requests[r].pc # "idle"
      /\ CartsKept
      /\ requests[r].cartId \in DOMAIN carts
      /\ carts[requests[r].cartId].userId = requests[r].userId
  BY SameCarts DEF Inv, Handlers, Handler
<1>2. CASE HasOrder(requests[r].cartId)
  <2>1. requests' = [requests EXCEPT ![r] = Moved(r, "create", 0, clock)]
    BY <1>1, <1>2, InProgress DEF Moved, RequestRecords
  <2>2. /\ carts' \in Seq(Carts) /\ requests[r].cartId \in Nat
        /\ clock \in 0..MaxCalls /\ clock <= clock
    BY <1>1, InProgress
  <2>3. "create" \in Steps \ AfterOrder /\ "create" \notin Holding \cup {"findOrder"}
        /\ "create" \notin LineSteps
    BY DEF Steps, Holding, LineSteps, BeforeOrder, AfterOrder
  <2> QED
    BY <1>1, <2>1, <2>2, <2>3, MovedInv
<1>3. CASE ~HasOrder(requests[r].cartId)
  BY <1>1, <1>3, InProgress, ResolveInv DEF HasOrder
<1> QED
  BY <1>2, <1>3

LEMMA CreateCartInv ==
  ASSUME Inv, NEW r \in Requests, CreateCart(r)
  PROVE  Inv'
<1> USE DEF CreateCart, At
<1> DEFINE c == Len(carts) + 1
<1>1. requests[r].pc # "idle" /\ MaxCalls \in Nat
  BY CartAssumption
<1>2. PICK t \in requests[r].since..clock :
         carts' = Append(carts, [userId |-> requests[r].userId,
                                 createdAt |-> t, lines |-> NoLines])
  OBVIOUS
<1>3. [userId |-> requests[r].userId, createdAt |-> t, lines |-> NoLines] \in Carts
  BY <1>1, InProgress, IdleType DEF Carts
<1>4. /\ carts' \in Seq(Carts) /\ CartsKept
      /\ c \in DOMAIN carts' /\ carts'[c].userId = requests[r].userId
      /\ c \notin DOMAIN carts
  BY <1>1, <1>2, <1>3, InProgress DEF CartsKept
<1>5. \A i \in DOMAIN orders : orders[i].cartId # c
  BY <1>4 DEF Inv, References
<1> QED
  BY <1>1, <1>4, <1>5, ResolveInv

LEMMA AddArticleInv ==
  ASSUME Inv, NEW r \in Requests, AddArticleToCart(r)
  PROVE  Inv'
<1> USE DEF AddArticleToCart, At
<1> DEFINE c == requests[r].cartId
           a == requests[r].articleId
<1>1. c \in DOMAIN carts /\ a \in Articles /\ requests[r].quantity \in 0..MaxQuantity
  BY InProgress DEF Inv, Handlers, Handler, Holding, LineSteps, RequestRecords
<1>2. carts[c].lines[a] \in 0..MaxQuantity
  <2>1. carts[c] \in Carts
    BY <1>1, InProgress
  <2> QED
    BY <1>1, <2>1 DEF Carts, Lines
<1>3. carts' \in Seq(Carts) /\ CartsKept
  <2>1. CASE Fits(Added(r))
    <3>1. Added(r) \in 0..MaxQuantity /\ SetLine(c, a, Added(r))
      BY <1>1, <1>2, <2>1, CartAssumption DEF Added, Fits
    <3> QED
      BY <1>1, <3>1, SetLineKeeps DEF Inv
  <2>2. CASE ~Fits(Added(r))
    BY <2>2, SameCarts, InProgress
  <2> QED
    BY <2>1, <2>2
<1> QED
  BY <1>3, ReplyInv

LEMMA WriteLineInv ==
  ASSUME Inv, NEW r \in Requests, WriteLine(r)
  PROVE  Inv'
<1> USE DEF WriteLine, At
<1> DEFINE c == requests[r].cartId
           a == requests[r].articleId
<1>1. c \in DOMAIN carts /\ a \in Articles /\ requests[r].quantity \in 0..MaxQuantity
  BY InProgress DEF Inv, Handlers, Handler, Holding, LineSteps, RequestRecords
<1>2. carts' \in Seq(Carts) /\ CartsKept
  <2>1. CASE LineExists(r)
    BY <1>1, <2>1, SetLineKeeps DEF Inv
  <2>2. CASE ~LineExists(r)
    BY <2>2, SameCarts, InProgress
  <2> QED
    BY <2>1, <2>2
<1> QED
  BY <1>2, ReplyInv

(* A handler that keeps its cart while it goes from one check to the next. *)
LEMMA GoInv ==
  ASSUME Inv, NEW r \in Requests, NEW p \in Holding, Go(r, p),
         requests[r].pc \in Holding,
         p \in LineSteps => requests[r].pc \in LineSteps,
         UNCHANGED <<carts, orders, mailed, clock>>
  PROVE  Inv'
<1>1. requests[r].pc # "idle" /\ CartsKept /\ Handler(r)
  BY SameCarts DEF Holding, LineSteps, BeforeOrder, Inv, Handlers
<1>2. /\ requests[r].cartId \in Nat /\ requests[r].since \in 0..MaxCalls
      /\ requests[r].since <= clock /\ carts' \in Seq(Carts)
      /\ requests \in [Requests -> RequestRecords]
  BY <1>1, InProgress
<1>3. requests' = [requests EXCEPT ![r] = Moved(r, p, requests[r].cartId, requests[r].since)]
  BY <1>2 DEF Go, Moved, RequestRecords
<1>4. p \in Steps \ AfterOrder
  BY DEF Steps, Holding, LineSteps, BeforeOrder, AfterOrder
<1>5. /\ requests[r].cartId \in DOMAIN carts'
      /\ carts'[requests[r].cartId].userId = requests[r].userId
      /\ p \in LineSteps => requests[r].op \in {"add", "change"}
  BY <1>1 DEF Handler
<1>6. \A i \in DOMAIN orders : i <= requests[r].seen => orders[i].cartId # requests[r].cartId
  BY DEF Inv, HoldsNoOldOrder
<1> QED
  BY <1>1, <1>2, <1>3, <1>4, <1>5, <1>6, MovedInv

LEMMA ChecksInv ==
  ASSUME Inv, NEW r \in Requests, LookupLine(r) \/ CheckOrder(r) \/ CheckCart(r)
  PROVE  Inv'
<1>1. CASE LookupLine(r)
  BY <1>1, GoInv, ReplyInv, SameCarts
  DEF LookupLine, At, Holding, LineSteps, Inv, TypeOK
<1>2. CASE CheckOrder(r)
  BY <1>2, GoInv, ReplyInv, SameCarts
  DEF CheckOrder, At, Holding, LineSteps, BeforeOrder, Inv, TypeOK
<1>3. CASE CheckCart(r)
  BY <1>3, GoInv, ReplyInv, SameCarts
  DEF CheckCart, At, Holding, LineSteps, BeforeOrder, Inv, TypeOK
<1> QED
  BY <1>1, <1>2, <1>3

LEMMA AbortInv ==
  ASSUME Inv, NEW r \in Requests, Abort(r)
  PROVE  Inv'
  BY ReplyInv, SameCarts DEF Abort, Inv, TypeOK

LEMMA InsertOrderInv ==
  ASSUME Inv, NEW r \in Requests, InsertOrder(r)
  PROVE  Inv'
<1> USE DEF InsertOrder, At, Taken
<1>1. CASE HasOrder(requests[r].cartId)
  BY <1>1, ReplyInv, SameCarts DEF Inv, TypeOK
<1>2. CASE ~HasOrder(requests[r].cartId)
  <2> DEFINE o == [cartId |-> requests[r].cartId, status |-> Pending]
             n == Len(orders) + 1
             R == [requests[r] EXCEPT !.pc = "details", !.orderId = n]
  <2>1. /\ requests[r].cartId \in DOMAIN carts /\ requests[r].cartId \in Nat \ {0}
        /\ orders \in Seq(Orders) /\ Pending \in Statuses
        /\ requests \in [Requests -> RequestRecords] /\ requests[r] \in RequestRecords
        /\ carts \in Seq(Carts)
    BY InProgress, CartAssumption DEF Inv, TypeOK, Handlers, Handler, Holding, BeforeOrder
  <2>2. o \in Orders /\ n \in Nat
    BY <2>1 DEF Orders
  <2>3. orders' = Append(orders, o) /\ requests' = [requests EXCEPT ![r] = R]
    BY <1>2, <2>1 DEF RequestRecords
  <2>4. R \in RequestRecords
    BY <2>1, <2>2 DEF RequestRecords, Steps
  <2>5. /\ R.op = requests[r].op /\ R.userId = requests[r].userId
        /\ R.articleId = requests[r].articleId /\ R.since = requests[r].since
        /\ R.seen = requests[r].seen /\ R.orderId = n /\ R.pc = "details"
    BY <2>1 DEF RequestRecords
  <2> HIDE DEF o, R
  <2>6. requests'[r] = R /\ OnlyRequest(r) /\ requests' \in [Requests -> RequestRecords]
    BY <2>1, <2>3, <2>4 DEF OnlyRequest
  <2>7. /\ orders' \in Seq(Orders) /\ Len(orders') = n
        /\ \A i \in DOMAIN orders : orders'[i] = orders[i]
        /\ orders'[n] = o /\ DOMAIN orders' = DOMAIN orders \cup {n}
        /\ n \notin DOMAIN orders /\ n \in DOMAIN orders' /\ Len(orders) <= n
    BY <2>1, <2>2, <2>3
  <2>8. TypeOK' /\ OrdersKept /\ CartsKept
    BY <2>6, <2>7, SameCarts DEF Inv, TypeOK, OrdersKept
  <2>9. Handler(r) /\ requests[r].seen <= Len(orders)
        /\ requests[r].seen \in Nat /\ Len(orders) \in Nat /\ clock <= clock'
    BY <2>1, InProgress DEF Inv, Handlers, SeenBound, RequestRecords
  <2>10. Handler(r)'
    BY <2>5, <2>6, <2>7, <2>9
    DEF Handler, Holding, LineSteps, BeforeOrder, AfterOrder
  <2>11. requests'[r].seen <= Len(orders') /\ requests'[r].pc \notin Holding
    BY <2>5, <2>6, <2>7, <2>9 DEF Holding, LineSteps, BeforeOrder
  <2>12. Handlers' /\ SeenBound' /\ HoldsNoOldOrder'
    BY <2>6, <2>8, <2>9, <2>10, <2>11, HandlersFrame
  <2>13. o.cartId = requests[r].cartId
    BY DEF o
  <2>14. References'
    BY <2>1, <2>7, <2>13 DEF Inv, References
  <2>15. OneOrderPerCart'
    BY <1>2, <2>7, <2>13 DEF Inv, OneOrderPerCart, HasOrder
  <2>16. \A s \in Requests : requests[s].pc \in AfterOrder => requests[s].orderId # n
    BY <2>7 DEF Inv, Handlers, Handler
  <2>17. \A i \in DOMAIN mailed : mailed[i].orderId # n
    BY <2>7 DEF Inv, References
  <2>18. OneMailer'
    BY <2>5, <2>6, <2>16, <2>17 DEF Inv, OneMailer, OnlyRequest, AfterOrder
  <2> QED
    BY <2>8, <2>12, <2>14, <2>15, <2>18 DEF Inv, OneMailPerOrder
<1> QED
  BY <1>1, <1>2

LEMMA ReadDetailsInv ==
  ASSUME Inv, NEW r \in Requests, ReadDetails(r)
  PROVE  Inv'
<1> USE DEF ReadDetails, At
<1> DEFINE l == carts[orders[requests[r].orderId].cartId].lines
           R == [requests[r] EXCEPT !.pc = "mail", !.lines = l]
<1>1. /\ requests \in [Requests -> RequestRecords] /\ requests[r] \in RequestRecords
      /\ carts \in Seq(Carts) /\ requests[r].pc # "idle"
  BY InProgress
<1>2. requests[r].orderId \in DOMAIN orders
  BY DEF Inv, Handlers, Handler, AfterOrder
<1>3. carts[orders[requests[r].orderId].cartId] \in Carts
  BY <1>1, <1>2 DEF Inv, References
<1>4. l \in Lines
  BY <1>3 DEF Carts
<1> HIDE DEF l
<1>5. R \in RequestRecords /\ requests' = [requests EXCEPT ![r] = R]
  BY <1>1, <1>4 DEF RequestRecords, Steps, l
<1>6. /\ R.op = requests[r].op /\ R.userId = requests[r].userId
      /\ R.articleId = requests[r].articleId /\ R.since = requests[r].since
      /\ R.seen = requests[r].seen /\ R.orderId = requests[r].orderId /\ R.pc = "mail"
  BY <1>1 DEF RequestRecords
<1> HIDE DEF R
<1>7. requests'[r] = R /\ OnlyRequest(r) /\ requests' \in [Requests -> RequestRecords]
  BY <1>1, <1>5 DEF OnlyRequest
<1>8. requests[r].since <= clock /\ CartsKept /\ carts' \in Seq(Carts)
  BY <1>1, InProgress, SameCarts
<1>9. /\ "mail" \notin Holding \cup {"findOrder"} /\ "mail" \notin LineSteps
      /\ requests[r].pc \in AfterOrder
  BY DEF Holding, LineSteps, BeforeOrder, AfterOrder
<1> QED
  BY <1>1, <1>6, <1>7, <1>8, <1>9, MoveInv

LEMMA SendMailInv ==
  ASSUME Inv, NEW r \in Requests, SendMail(r)
  PROVE  Inv'
<1> USE DEF SendMail, At
<1> DEFINE m == [orderId |-> requests[r].orderId, lines |-> requests[r].lines]
<1>1. CASE UNCHANGED mailed
  BY <1>1, ReplyInv, SameCarts DEF Inv, TypeOK
<1>2. CASE mailed' = Append(mailed, m)
  <2>1. /\ requests[r] \in RequestRecords /\ requests[r].orderId \in DOMAIN orders
        /\ orders \in Seq(Orders) /\ mailed \in Seq(Mails)
    BY InProgress DEF Inv, TypeOK, Handlers, Handler, AfterOrder
  <2>2. m \in Mails
    BY <2>1 DEF RequestRecords, Mails
  <2>3. m.orderId = requests[r].orderId
    OBVIOUS
  <2> HIDE DEF m
  <2>4. /\ mailed' \in Seq(Mails) /\ DOMAIN mailed' = DOMAIN mailed \cup {Len(mailed) + 1}
        /\ \A i \in DOMAIN mailed : mailed'[i] = mailed[i]
        /\ mailed'[Len(mailed) + 1] = m
    BY <1>2, <2>1, <2>2
  <2>5. requests'[r] = Idle /\ OnlyRequest(r) /\ requests' \in [Requests -> RequestRecords]
    BY IdleType DEF Inv, TypeOK, Reply, OnlyRequest
  <2>6. requests'[r].pc = "idle" /\ requests'[r].seen = 0 /\ requests'[r].since = 0
    BY <2>5 DEF Idle
  <2>7. TypeOK' /\ CartsKept /\ OrdersKept /\ 0 <= clock' /\ clock <= clock'
        /\ 0 <= Len(orders')
    BY <2>4, <2>5, SameCarts, CartAssumption DEF Inv, TypeOK, OrdersKept
  <2>8. Handler(r)'
    BY <2>6, <2>7 DEF Handler, Holding, LineSteps, BeforeOrder, AfterOrder
  <2>9. Handlers' /\ SeenBound' /\ HoldsNoOldOrder'
    BY <2>5, <2>6, <2>7, <2>8, HandlersFrame DEF Holding, LineSteps, BeforeOrder
  <2>10. References' /\ OneOrderPerCart'
    BY <2>1, <2>3, <2>4 DEF Inv, References, OneOrderPerCart
  <2>11. /\ \A i \in DOMAIN mailed : mailed[i].orderId # requests[r].orderId
         /\ \A s \in Requests \ {r} : requests[s].pc \in AfterOrder =>
               requests[s].orderId # requests[r].orderId
    BY DEF Inv, OneMailer, AfterOrder
  <2>12. OneMailPerOrder'
    BY <2>3, <2>4, <2>11 DEF Inv, OneMailPerOrder
  <2>13. OneMailer'
    BY <2>3, <2>4, <2>5, <2>6, <2>11 DEF Inv, OneMailer, OnlyRequest, AfterOrder
  <2> QED
    BY <2>7, <2>9, <2>10, <2>12, <2>13 DEF Inv
<1> QED
  BY <1>1, <1>2

LEMMA ChangeStatusInv ==
  ASSUME Inv, NEW i \in DOMAIN orders, NEW s \in Statuses, ChangeStatus(i, s)
  PROVE  Inv'
<1> USE DEF ChangeStatus
<1> DEFINE o == [orders[i] EXCEPT !.status = s]
<1>1. orders \in Seq(Orders) /\ orders[i] \in Orders
  BY DEF Inv, TypeOK
<1>2. o \in Orders /\ o.cartId = orders[i].cartId /\ orders' = [orders EXCEPT ![i] = o]
  BY <1>1 DEF Orders
<1> HIDE DEF o
<1>3. orders' \in Seq(Orders)
  BY <1>1, <1>2, ExceptSeq
<1>4. /\ DOMAIN orders' = DOMAIN orders /\ Len(orders') = Len(orders)
      /\ \A j \in DOMAIN orders : orders'[j].cartId = orders[j].cartId
  BY <1>1, <1>2, <1>3
<1>5. TypeOK'
  BY <1>3 DEF Inv, TypeOK
<1>6. References' /\ Handlers' /\ SeenBound' /\ HoldsNoOldOrder'
  BY <1>4 DEF Inv, References, Handlers, Handler, SeenBound, HoldsNoOldOrder
<1>7. OneOrderPerCart' /\ OneMailer' /\ OneMailPerOrder'
  BY <1>4 DEF Inv, OneOrderPerCart, OneMailer, OneMailPerOrder
<1> QED
  BY <1>5, <1>6, <1>7 DEF Inv

-----------------------------------------------------------------------------
LEMMA StepInv ==
  ASSUME Inv, NEW r \in Requests, Step(r)
  PROVE  Inv'
  BY FindCartInv, FindOrderInv, CreateCartInv, AddArticleInv, WriteLineInv, ChecksInv,
     InsertOrderInv, ReadDetailsInv, SendMailInv DEF Step

LEMMA CallInv ==
  ASSUME Inv, NEW r \in Requests, Call(r)
  PROVE  Inv'
<1>1. 0 \in 0..MaxQuantity /\ Amounts \subseteq 0..MaxQuantity
      /\ {"view", "add", "change", "order"} = Ops
  BY CartAssumption DEF Ops
<1> QED
  BY <1>1, BeginInv
  DEF Call, GetCurrentCart, MakeOrder, AddToCart, ChangeQuantity

(* Every step of the system preserves the inductive invariant.             *)
LEMMA NextInv == Inv /\ [Next]_vars => Inv'
<1> SUFFICES ASSUME Inv, [Next]_vars PROVE Inv'
  OBVIOUS
<1>1. CASE UNCHANGED vars
  BY <1>1 DEF vars, Inv, TypeOK, References, Handlers, Handler, SeenBound,
              HoldsNoOldOrder, OneOrderPerCart, OneMailer, OneMailPerOrder
<1>2. CASE Next
  BY <1>2, CallInv, StepInv, AbortInv, ChangeStatusInv DEF Next
<1> QED
  BY <1>1, <1>2

(* The inductive invariant holds in every reachable state.                 *)
THEOREM Invariance == Spec => []Inv
  BY InitInv, NextInv, PTL DEF Spec

(* Rows and handlers keep their types, for any number of users, articles,  *)
(* calls and concurrent handlers.                                          *)
THEOREM TypeCorrect == Spec => []TypeOK
<1>1. Inv => TypeOK
  BY DEF Inv
<1> QED
  BY <1>1, Invariance, PTL

(* However the calls of makeOrder race, a cart is ordered once.            *)
THEOREM CartOrderedOnce == Spec => []OneOrderPerCart
<1>1. Inv => OneOrderPerCart
  BY DEF Inv
<1> QED
  BY <1>1, Invariance, PTL

(* However the calls of makeOrder race, an order is confirmed at most once.*)
THEOREM MailedOnce == Spec => []OneMailPerOrder
<1>1. Inv => OneMailPerOrder
  BY DEF Inv
<1> QED
  BY <1>1, Invariance, PTL

-----------------------------------------------------------------------------
(* The handler that writes a line of an ordered cart resolved that cart    *)
(* before it was ordered.                                                  *)
LEMMA WriterOverlaps ==
  ASSUME Inv, NEW r \in Requests, requests[r].pc \in LineSteps,
         NEW q \in 0..MaxQuantity,
         SetLine(requests[r].cartId, requests[r].articleId, q),
         UNCHANGED orders,
         NEW i \in DOMAIN orders, GoodsOf(i)' # GoodsOf(i)
  PROVE  /\ requests[r].cartId = orders[i].cartId
         /\ requests[r].userId = carts[orders[i].cartId].userId
         /\ requests[r].seen < i
<1> DEFINE c == requests[r].cartId
<1>1. /\ c \in DOMAIN carts /\ carts[c].userId = requests[r].userId
      /\ requests[r].articleId \in Articles /\ TypeOK
  BY DEF Inv, Handlers, Handler, Holding, LineSteps
<1>2. orders[i].cartId \in DOMAIN carts
  BY DEF Inv, References
<1>3. orders[i].cartId = c
  BY <1>1, <1>2, SetLineKeeps DEF GoodsOf
<1>4. ~(i <= requests[r].seen)
  BY <1>3 DEF Inv, HoldsNoOldOrder, Holding
<1>5. i \in Nat /\ requests[r].seen \in Nat
  BY DEF Inv, TypeOK, RequestRecords
<1> QED
  BY <1>1, <1>3, <1>4, <1>5

(* A line-writing handler that replies has taken a step of its own.        *)
LEMMA ReplyIsAStep ==
  ASSUME Inv, NEW r \in Requests, requests[r].pc \in LineSteps, Reply(r)
  PROVE  requests'[r] # requests[r]
<1>1. requests'[r] = Idle /\ requests[r].pc # "idle"
  BY DEF Reply, Inv, TypeOK, LineSteps
<1> QED
  BY <1>1 DEF Idle

(* A placed order's goods are only ever changed by a call of its customer  *)
(* that began before the order was placed, in the step with which that     *)
(* very call writes the lines of the cart it had resolved by then.         *)
THEOREM ClosedOrders == Spec => OrdersAreClosed
<1> DEFINE Closed ==
       \A i \in DOMAIN orders :
          GoodsOf(i)' # GoodsOf(i) =>
             \E r \in Requests :
                /\ WritesOrdered(r, i)
                /\ requests[r].userId = carts[orders[i].cartId].userId
                /\ requests[r].seen < i
<1>1. ASSUME Inv, Next, NEW i \in DOMAIN orders, GoodsOf(i)' # GoodsOf(i)
      PROVE  \E r \in Requests :
                /\ WritesOrdered(r, i)
                /\ requests[r].userId = carts[orders[i].cartId].userId
                /\ requests[r].seen < i
  <2>1. orders[i].cartId \in DOMAIN carts /\ orders \in Seq(Orders) /\ carts \in Seq(Carts)
    BY <1>1 DEF Inv, References, TypeOK
  <2>2. ASSUME NEW r \in Requests, AddArticleToCart(r)
        PROVE  /\ WritesOrdered(r, i)
               /\ requests[r].userId = carts[orders[i].cartId].userId
               /\ requests[r].seen < i
    <3> USE <2>2 DEF AddArticleToCart, At
    <3> DEFINE c == requests[r].cartId
               a == requests[r].articleId
    <3>1. c \in DOMAIN carts /\ a \in Articles /\ requests[r].quantity \in Nat
          /\ requests[r].pc \in LineSteps
      BY <1>1, InProgress DEF Inv, Handlers, Handler, Holding, LineSteps, RequestRecords
    <3>2. carts[c] \in Carts
      BY <2>1, <3>1
    <3>3. carts[c].lines[a] \in Nat
      BY <3>1, <3>2 DEF Carts, Lines
    <3>4. Fits(Added(r))
      BY <1>1 DEF GoodsOf
    <3>5. Added(r) \in 0..MaxQuantity /\ SetLine(c, a, Added(r)) /\ UNCHANGED orders
      BY <3>1, <3>3, <3>4, CartAssumption DEF Added, Fits
    <3> QED
      BY <1>1, <3>1, <3>5, WriterOverlaps, ReplyIsAStep DEF WritesOrdered, LineSteps
  <2>3. ASSUME NEW r \in Requests, WriteLine(r)
        PROVE  /\ WritesOrdered(r, i)
               /\ requests[r].userId = carts[orders[i].cartId].userId
               /\ requests[r].seen < i
    <3> USE <2>3 DEF WriteLine, At
    <3>1. LineExists(r)
      BY <1>1 DEF GoodsOf
    <3>2. requests[r].quantity \in 0..MaxQuantity /\ requests[r].pc \in LineSteps
      BY <1>1, InProgress DEF RequestRecords, LineSteps
    <3> QED
      BY <1>1, <3>1, <3>2, WriterOverlaps, ReplyIsAStep DEF WritesOrdered, LineSteps
  <2>4. ASSUME NEW r \in Requests, CreateCart(r) PROVE FALSE
    <3>1. PICK t \in requests[r].since..clock :
             carts' = Append(carts, [userId |-> requests[r].userId,
                                     createdAt |-> t, lines |-> NoLines])
      BY <2>4 DEF CreateCart
    <3>2. carts'[orders[i].cartId] = carts[orders[i].cartId] /\ orders' = orders
      BY <2>1, <2>4, <3>1 DEF CreateCart
    <3> QED
      BY <1>1, <3>2 DEF GoodsOf
  <2>5. ASSUME NEW r \in Requests, InsertOrder(r) PROVE FALSE
    <3>1. carts' = carts /\ orders'[i] = orders[i]
      BY <2>1, <2>5 DEF InsertOrder
    <3> QED
      BY <1>1, <3>1 DEF GoodsOf
  <2>6. ASSUME NEW j \in DOMAIN orders, NEW s \in Statuses, ChangeStatus(j, s) PROVE FALSE
    <3>1. carts' = carts /\ orders'[i].cartId = orders[i].cartId
      BY <2>1, <2>6 DEF ChangeStatus, Orders
    <3> QED
      BY <1>1, <3>1 DEF GoodsOf
  <2>7. ASSUME NEW r \in Requests,
               \/ Call(r) \/ Abort(r) \/ FindCart(r) \/ FindOrder(r) \/ LookupLine(r)
               \/ CheckOrder(r) \/ CheckCart(r) \/ ReadDetails(r) \/ SendMail(r)
        PROVE  FALSE
    <3>1. UNCHANGED <<carts, orders>>
      BY <2>7 DEF Call, GetCurrentCart, MakeOrder, AddToCart, ChangeQuantity, Begin, Abort,
                  FindCart, FindOrder, LookupLine, CheckOrder, CheckCart, ReadDetails, SendMail
    <3> QED
      BY <1>1, <3>1 DEF GoodsOf
  <2> QED
    BY <1>1, <2>2, <2>3, <2>4, <2>5, <2>6, <2>7 DEF Next, Step
<1>2. Inv /\ [Next]_vars => [Closed]_vars
  BY <1>1
<1>3. [][Closed]_vars <=> OrdersAreClosed
  BY DEF OrdersAreClosed
<1> QED
  BY <1>2, <1>3, Invariance, PTL DEF Spec

-----------------------------------------------------------------------------
(***************************************************************************)
(* One call at a time of each customer.  Then there is one cart to fill,   *)
(* orders have goods, confirmations tell them, and the endpoints implement *)
(* the shop of module Shop.                                                *)
(***************************************************************************)

(* The calls in progress are of different customers.                       *)
OneCallEach ==
    \A r, s \in Requests :
        r # s /\ requests[r].userId \in Users => requests[s].userId # requests[r].userId

(* A call makes at most one cart, after the call that made the last one:   *)
(* createdAt tells a customer's carts apart.                               *)
Dated ==
    /\ \A c \in DOMAIN carts : carts[c].createdAt <= clock
    /\ \A c, d \in DOMAIN carts :
          c # d /\ carts[c].userId = carts[d].userId => carts[c].createdAt # carts[d].createdAt

(* Of a customer's carts only the latest may lack an order.                *)
OldOnesOrdered ==
    \A c, d \in DOMAIN carts :
        carts[c].userId = carts[d].userId /\ carts[c].createdAt < carts[d].createdAt =>
            HasOrder(c)

(* What a handler read stays true until it acts on it.                     *)
StillTrue(r) ==
    LET q == requests[r]
        own == {c \in DOMAIN carts : carts[c].userId = q.userId}
    IN
    /\ q.pc # "idle" /\ q.op \in {"add", "change"} => q.quantity \in Amounts
    /\ q.pc \in {"findCart", "findOrder", "create"} =>
          \A c \in own : carts[c].createdAt < q.since
    /\ q.pc = "findOrder" => \A c \in own : carts[c].createdAt <= carts[q.cartId].createdAt
    /\ q.pc = "create" => \A c \in own : HasOrder(c)
    /\ q.pc \in Holding => ~HasOrder(q.cartId)
    /\ q.pc = "insert" => ~IsEmpty(carts[q.cartId].lines)
    /\ q.pc = "mail" => q.lines = GoodsOf(q.orderId)

SerialInv ==
    /\ OneCallEach
    /\ Dated
    /\ OldOnesOrdered
    /\ \A r \in Requests : StillTrue(r)
    /\ OrderHasGoods
    /\ MailTellsTheOrder

-----------------------------------------------------------------------------
(* The initial state satisfies the strengthening.                          *)
LEMMA InitSerial == Init => SerialInv
<1> SUFFICES ASSUME Init PROVE SerialInv
  OBVIOUS
<1>1. orders = <<>> /\ mailed = <<>> /\ carts = <<>>
  BY DEF Init
<1>2. \A r \in Requests : requests[r].pc = "idle" /\ requests[r].userId \notin Users
  BY CartAssumption DEF Init, Idle
<1>3. OneCallEach /\ Dated /\ OldOnesOrdered
  BY <1>1, <1>2 DEF OneCallEach, Dated, OldOnesOrdered
<1>4. \A r \in Requests : StillTrue(r)
  BY <1>2 DEF StillTrue, Holding, LineSteps, BeforeOrder
<1>5. OrderHasGoods /\ MailTellsTheOrder
  BY <1>1 DEF OrderHasGoods, MailTellsTheOrder
<1> QED
  BY <1>3, <1>4, <1>5 DEF SerialInv

(* What a step of customer u leaves alone: the carts of the others, what   *)
(* is ordered of theirs, and the goods of every order.                     *)
OthersKept(u) ==
    /\ \A c \in DOMAIN carts :
          /\ c \in DOMAIN carts'
          /\ carts'[c].userId = carts[c].userId
          /\ carts'[c].createdAt = carts[c].createdAt
    /\ \A c \in DOMAIN carts' :
          carts'[c].userId # u =>
             /\ c \in DOMAIN carts
             /\ carts'[c] = carts[c]
             /\ HasOrder(c)' <=> HasOrder(c)
    /\ \A i \in DOMAIN orders : i \in DOMAIN orders' /\ GoodsOf(i)' = GoodsOf(i)

(* Whatever customer u does, what the others read stays true.              *)
LEMMA OthersFrame ==
  ASSUME Inv, SerialInv, NEW u \in Users, OthersKept(u),
         NEW s \in Requests, requests'[s] = requests[s], requests[s].userId # u
  PROVE  StillTrue(s)'
<1>1. Handler(s) /\ StillTrue(s)
  BY DEF Inv, Handlers, SerialInv
<1>2. ASSUME requests[s].pc \in Holding \cup {"findOrder"}
      PROVE  LET c == requests[s].cartId IN
             /\ c \in DOMAIN carts /\ carts'[c] = carts[c]
             /\ HasOrder(c)' <=> HasOrder(c)
  BY <1>1, <1>2 DEF Handler, OthersKept
<1>3. ASSUME NEW c \in DOMAIN carts', carts'[c].userId = requests[s].userId
      PROVE  /\ c \in DOMAIN carts /\ carts[c].userId = requests[s].userId
             /\ carts'[c] = carts[c] /\ (HasOrder(c)' <=> HasOrder(c))
  BY <1>3 DEF OthersKept
<1>4. requests[s].pc = "mail" => GoodsOf(requests[s].orderId)' = GoodsOf(requests[s].orderId)
  BY <1>1 DEF Handler, AfterOrder, OthersKept
<1>5. requests[s].pc \in {"findCart", "findOrder", "create"} =>
         \A c \in DOMAIN carts' : carts'[c].userId = requests[s].userId =>
            carts'[c].createdAt < requests[s].since
  BY <1>1, <1>3 DEF StillTrue
<1>6. requests[s].pc = "findOrder" =>
         \A c \in DOMAIN carts' : carts'[c].userId = requests[s].userId =>
            carts'[c].createdAt <= carts'[requests[s].cartId].createdAt
  BY <1>1, <1>2, <1>3 DEF StillTrue
<1>7. requests[s].pc = "create" =>
         \A c \in DOMAIN carts' : carts'[c].userId = requests[s].userId => HasOrder(c)'
  BY <1>1, <1>3 DEF StillTrue
<1>8. requests[s].pc \in Holding => ~HasOrder(requests[s].cartId)'
  BY <1>1, <1>2 DEF StillTrue
<1>9. requests[s].pc = "insert" => ~IsEmpty(carts'[requests[s].cartId].lines)
  BY <1>1, <1>2 DEF StillTrue, Holding, BeforeOrder
<1>10. requests[s].pc = "mail" => requests[s].lines = GoodsOf(requests[s].orderId)'
  BY <1>1, <1>4 DEF StillTrue
<1>11. requests[s].pc # "idle" /\ requests[s].op \in {"add", "change"} =>
          requests[s].quantity \in Amounts
  BY <1>1 DEF StillTrue
<1> QED
  BY <1>5, <1>6, <1>7, <1>8, <1>9, <1>10, <1>11 DEF StillTrue

(* A step of the handler r of a call of u, the only one of u.              *)
LEMMA StepFrame ==
  ASSUME Inv, SerialInv, NEW r \in Requests, requests[r].pc # "idle",
         OnlyRequest(r), requests'[r].userId \in {requests[r].userId, None},
         OthersKept(requests[r].userId), StillTrue(r)'
  PROVE  OneCallEach' /\ \A s \in Requests : StillTrue(s)'
<1>1. requests[r].userId \in Users /\ None \notin Users
  BY InProgress, CartAssumption
<1>2. \A s \in Requests \ {r} :
         requests'[s] = requests[s] /\ requests[s].userId # requests[r].userId
  BY <1>1 DEF OnlyRequest, SerialInv, OneCallEach
<1>3. OneCallEach'
  BY <1>1, <1>2 DEF SerialInv, OneCallEach
<1>4. \A s \in Requests \ {r} : StillTrue(s)'
  BY <1>1, <1>2, OthersFrame
<1> QED
  BY <1>3, <1>4

(* A step that writes no table.                                            *)
LEMMA QuietKeeps ==
  ASSUME UNCHANGED <<carts, orders>>, NEW u
  PROVE  OthersKept(u)
  BY DEF OthersKept, HasOrder, GoodsOf

LEMMA QuietSerial ==
  ASSUME Inv, SerialInv, NEW r \in Requests, requests[r].pc # "idle",
         OnlyRequest(r), requests'[r].userId \in {requests[r].userId, None},
         UNCHANGED <<carts, orders, mailed, clock>>, StillTrue(r)'
  PROVE  SerialInv'
<1>1. OneCallEach' /\ \A s \in Requests : StillTrue(s)'
  BY QuietKeeps, StepFrame
<1>2. Dated' /\ OldOnesOrdered' /\ OrderHasGoods' /\ MailTellsTheOrder'
  BY DEF SerialInv, Dated, OldOnesOrdered, OrderHasGoods, MailTellsTheOrder, HasOrder,
         GoodsOf, IsEmpty
<1> QED
  BY <1>1, <1>2 DEF SerialInv

(* A handler that has answered promises nothing.                           *)
LEMMA Answered ==
  ASSUME Inv, NEW r \in Requests, Reply(r)
  PROVE  OnlyRequest(r) /\ requests'[r].userId = None /\ StillTrue(r)'
<1>1. requests' \in [Requests -> RequestRecords] /\ requests'[r] = Idle /\ OnlyRequest(r)
  BY IdleType DEF Inv, TypeOK, Reply, OnlyRequest
<1>2. requests'[r].pc = "idle" /\ requests'[r].userId = None
  BY <1>1 DEF Idle
<1> QED
  BY <1>1, <1>2 DEF StillTrue, Holding, LineSteps, BeforeOrder

LEMMA ReplySerial ==
  ASSUME Inv, SerialInv, NEW r \in Requests, requests[r].pc # "idle", Reply(r),
         UNCHANGED <<carts, orders, mailed, clock>>
  PROVE  SerialInv'
  BY Answered, QuietSerial

-----------------------------------------------------------------------------
(* A call begins, the only one of its customer.                            *)
LEMMA BeginSerial ==
  ASSUME Serial, Inv, SerialInv, NEW r \in Requests, NEW u \in Users, NEW op \in Ops,
         NEW a \in Articles \cup {None}, NEW q \in 0..MaxQuantity,
         op \in {"add", "change"} => q \in Amounts,
         Begin(r, u, op, a, q)
  PROVE  SerialInv'
<1> DEFINE R == [op |-> op, pc |-> "findCart", userId |-> u, articleId |-> a,
                 quantity |-> q, cartId |-> 0, since |-> clock + 1,
                 seen |-> Len(orders), orderId |-> 0, lines |-> NoLines]
<1>1. /\ requests'[r] = R /\ OnlyRequest(r)
      /\ clock' = clock + 1 /\ clock \in Nat
      /\ UNCHANGED <<carts, orders, mailed>>
      /\ \A s \in Requests : requests[s].userId # u
      /\ carts \in Seq(Carts)
  BY CartAssumption DEF Begin, Busy, Inv, TypeOK, OnlyRequest
<1>2. /\ requests'[r].pc = "findCart" /\ requests'[r].userId = u
      /\ requests'[r].op = op /\ requests'[r].quantity = q
      /\ requests'[r].since = clock + 1
  BY <1>1
<1> HIDE DEF R
<1>3. \A c \in DOMAIN carts : carts[c].createdAt \in Nat /\ carts[c].createdAt <= clock
  <2>1. \A c \in DOMAIN carts : carts[c] \in Carts
    BY <1>1
  <2> QED
    BY <2>1 DEF Carts, SerialInv, Dated
<1>4. StillTrue(r)'
  BY <1>1, <1>2, <1>3 DEF StillTrue, Holding, LineSteps, BeforeOrder
<1>5. \A s \in Requests \ {r} : StillTrue(s)'
  BY <1>1, QuietKeeps, OthersFrame DEF OnlyRequest
<1>6. OneCallEach'
  BY <1>1, <1>2 DEF OneCallEach, OnlyRequest, SerialInv
<1>7. Dated'
  BY <1>1, <1>3 DEF Dated, SerialInv
<1>8. OldOnesOrdered' /\ OrderHasGoods' /\ MailTellsTheOrder'
  BY <1>1 DEF SerialInv, OldOnesOrdered, OrderHasGoods, MailTellsTheOrder, HasOrder,
         GoodsOf, IsEmpty
<1> QED
  BY <1>4, <1>5, <1>6, <1>7, <1>8 DEF SerialInv

-----------------------------------------------------------------------------
(* The handlers' steps.                                                    *)

(* The fields a move keeps.                                                *)
LEMMA MovedKeeps ==
  ASSUME Inv, NEW r \in Requests, requests[r].pc # "idle",
         NEW p \in Steps, NEW c \in Nat, NEW t \in 0..MaxCalls,
         requests' = [requests EXCEPT ![r] = Moved(r, p, c, t)]
  PROVE  /\ OnlyRequest(r)
         /\ requests'[r].pc = p /\ requests'[r].cartId = c /\ requests'[r].since = t
         /\ requests'[r].op = requests[r].op
         /\ requests'[r].userId = requests[r].userId
         /\ requests'[r].quantity = requests[r].quantity
<1>1. requests \in [Requests -> RequestRecords]
  BY InProgress
<1>2. requests[r] \in RequestRecords /\ requests'[r] = Moved(r, p, c, t)
  BY <1>1
<1>3. OnlyRequest(r)
  BY <1>1 DEF OnlyRequest
<1>4. requests'[r].pc = p
  BY <1>2 DEF Moved, RequestRecords
<1>5. requests'[r].cartId = c
  BY <1>2 DEF Moved, RequestRecords
<1>6. requests'[r].since = t
  BY <1>2 DEF Moved, RequestRecords
<1>7. requests'[r].op = requests[r].op /\ requests'[r].userId = requests[r].userId
      /\ requests'[r].quantity = requests[r].quantity
  BY <1>2 DEF Moved, RequestRecords
<1> QED
  BY <1>3, <1>4, <1>5, <1>6, <1>7

(* Times and owners of the carts are of their types.                       *)
LEMMA CartTypes ==
  ASSUME Inv
  PROVE  /\ clock \in Nat
         /\ \A c \in DOMAIN carts :
               c \in Nat /\ carts[c].createdAt \in Nat /\ carts[c].lines \in Lines
<1>1. carts \in Seq(Carts) /\ clock \in Nat
  BY CartAssumption DEF Inv, TypeOK
<1>2. \A c \in DOMAIN carts : c \in Nat /\ carts[c] \in Carts
  BY <1>1
<1> QED
  BY <1>1, <1>2 DEF Carts

(* A handler that moves on and holds no cart yet.                          *)
LEMMA MovedSerial ==
  ASSUME Inv, SerialInv, NEW r \in Requests, requests[r].pc # "idle",
         NEW p \in {"findOrder", "create"} \cup Holding, NEW c \in Nat,
         NEW t \in 0..MaxCalls,
         requests' = [requests EXCEPT ![r] = Moved(r, p, c, t)],
         UNCHANGED <<carts, orders, mailed, clock>>,
         LET own == {d \in DOMAIN carts : carts[d].userId = requests[r].userId} IN
         /\ p \in {"findOrder", "create"} => \A d \in own : carts[d].createdAt < t
         /\ p = "findOrder" => \A d \in own : carts[d].createdAt <= carts[c].createdAt
         /\ p = "create" => \A d \in own : HasOrder(d)
         /\ p \in Holding => ~HasOrder(c)
         /\ p = "insert" => ~IsEmpty(carts[c].lines)
  PROVE  SerialInv'
<1>1. p \in Steps /\ p \notin {"idle", "findCart", "mail"}
  BY DEF Steps, Holding, LineSteps, BeforeOrder
<1>2. /\ OnlyRequest(r)
      /\ requests'[r].pc = p /\ requests'[r].cartId = c /\ requests'[r].since = t
      /\ requests'[r].op = requests[r].op
      /\ requests'[r].userId = requests[r].userId
      /\ requests'[r].quantity = requests[r].quantity
  BY <1>1, MovedKeeps
<1>3. HasOrder(c)' <=> HasOrder(c)
  BY DEF HasOrder
<1>4. \A d \in DOMAIN carts : HasOrder(d)' <=> HasOrder(d)
  BY DEF HasOrder
<1>5. requests[r].op \in {"add", "change"} => requests[r].quantity \in Amounts
  BY DEF SerialInv, StillTrue
<1>6. StillTrue(r)'
  BY <1>1, <1>2, <1>3, <1>4, <1>5 DEF StillTrue, IsEmpty
<1> QED
  BY <1>2, <1>6, QuietSerial

LEMMA FindCartSerial ==
  ASSUME Inv, SerialInv, NEW r \in Requests, FindCart(r)
  PROVE  SerialInv'
<1> USE DEF FindCart, At
<1> DEFINE q == requests[r]
<1>1. /\ q.pc # "idle" /\ q.pc = "findCart" /\ clock \in 0..MaxCalls
      /\ q.cartId \in Nat /\ q.since \in 0..MaxCalls
      /\ requests \in [Requests -> RequestRecords]
  BY InProgress
<1>2. "create" \notin Holding /\ "findOrder" \notin Holding
  BY DEF Holding, LineSteps, BeforeOrder
<1>3. CASE CartsOf(q.userId) = {}
           /\ requests' = [requests EXCEPT ![r].pc = "create", ![r].since = clock]
  <2>1. requests' = [requests EXCEPT ![r] = Moved(r, "create", q.cartId, clock)]
    BY <1>1, <1>3 DEF Moved, RequestRecords
  <2>2. {d \in DOMAIN carts : carts[d].userId = requests[r].userId} = {}
    BY <1>3 DEF CartsOf
  <2> QED
    BY <1>1, <1>2, <2>1, <2>2, MovedSerial
<1>4. ASSUME NEW c \in LatestCartsOf(q.userId),
             requests' = [requests EXCEPT ![r].pc = "findOrder", ![r].cartId = c]
      PROVE  SerialInv'
  <2>1. c \in DOMAIN carts /\ c \in Nat
    BY CartTypes DEF LatestCartsOf, CartsOf
  <2>2. requests' = [requests EXCEPT ![r] = Moved(r, "findOrder", c, q.since)]
    BY <1>1, <1>4 DEF Moved, RequestRecords
  <2>3. \A d \in DOMAIN carts : carts[d].userId = q.userId =>
           carts[d].createdAt < q.since /\ carts[d].createdAt <= carts[c].createdAt
    BY <1>1, <1>4 DEF LatestCartsOf, CartsOf, SerialInv, StillTrue
  <2> QED
    BY <1>1, <1>2, <2>1, <2>2, <2>3, MovedSerial
<1> QED
  BY <1>3, <1>4

(* A cart without an order may be resolved to, where no table changes.     *)
LEMMA ResolveSerial ==
  ASSUME Inv, SerialInv, NEW r \in Requests, requests[r].pc # "idle",
         UNCHANGED <<carts, orders, mailed, clock>>,
         NEW c \in Nat, ~HasOrder(c), Resolve(r, c)
  PROVE  SerialInv'
<1> DEFINE p == FirstStep(requests[r].op)
<1>1. CASE p = "idle"
  BY <1>1, ReplySerial DEF Resolve
<1>2. CASE p # "idle"
  <2>1. p \in Holding /\ p # "insert"
        /\ p \notin {"findOrder", "create"}
    BY <1>2, InProgress DEF Ops, FirstStep, Holding, LineSteps, BeforeOrder
  <2>2. requests' = [requests EXCEPT ![r].pc = p, ![r].cartId = c]
    BY <1>2 DEF Resolve
  <2> HIDE DEF p
  <2>3. requests' = [requests EXCEPT ![r] = Moved(r, p, c, requests[r].since)]
    BY <2>2, InProgress DEF Moved, RequestRecords
  <2> QED
    BY <2>1, <2>3, InProgress, MovedSerial
<1> QED
  BY <1>1, <1>2

LEMMA FindOrderSerial ==
  ASSUME Inv, SerialInv, NEW r \in Requests, FindOrder(r)
  PROVE  SerialInv'
<1> USE DEF FindOrder, At, AlreadyUsed
<1> DEFINE q == requests[r]
           k == q.cartId
<1>1. /\ q.pc # "idle" /\ clock \in 0..MaxCalls /\ q.since <= clock
      /\ q.cartId \in Nat /\ q.since \in 0..MaxCalls
      /\ requests \in [Requests -> RequestRecords]
  BY InProgress
<1>2. k \in DOMAIN carts /\ carts[k].userId = q.userId
  BY DEF Inv, Handlers, Handler
<1>3. CASE HasOrder(k)
  <2>1. requests' = [requests EXCEPT ![r] = Moved(r, "create", 0, clock)]
    BY <1>1, <1>3 DEF Moved, RequestRecords
  <2>2. ASSUME NEW d \in DOMAIN carts, carts[d].userId = q.userId
        PROVE  carts[d].createdAt < clock /\ HasOrder(d)
    <3>1. carts[d].createdAt < q.since /\ carts[d].createdAt <= carts[k].createdAt
      BY <2>2 DEF SerialInv, StillTrue
    <3>2. d # k => carts[d].createdAt # carts[k].createdAt
      BY <1>2, <2>2 DEF SerialInv, Dated
    <3>3. /\ carts[d].createdAt \in Nat /\ carts[k].createdAt \in Nat
          /\ q.since \in Nat /\ clock \in Nat
      BY <1>1, <1>2, CartTypes
    <3>4. d # k => carts[d].createdAt < carts[k].createdAt
      BY <3>1, <3>2, <3>3
    <3>5. HasOrder(d)
      BY <1>2, <1>3, <2>2, <3>4 DEF SerialInv, OldOnesOrdered
    <3> QED
      BY <1>1, <3>1, <3>3, <3>5
  <2>3. "create" \notin Holding
    BY DEF Holding, LineSteps, BeforeOrder
  <2> QED
    BY <1>1, <2>1, <2>2, <2>3, MovedSerial
<1>4. CASE ~HasOrder(k)
  BY <1>1, <1>4, ResolveSerial
<1> QED
  BY <1>3, <1>4

LEMMA ChecksSerial ==
  ASSUME Inv, SerialInv, NEW r \in Requests,
         LookupLine(r) \/ CheckOrder(r) \/ CheckCart(r)
  PROVE  SerialInv'
<1> DEFINE q == requests[r]
<1>1. ASSUME NEW p \in Holding, Go(r, p), q.pc \in Holding,
             UNCHANGED <<carts, orders, mailed, clock>>,
             p = "insert" => ~IsEmpty(carts[q.cartId].lines)
      PROVE  SerialInv'
  <2>1. q.pc # "idle" /\ ~HasOrder(q.cartId)
    BY <1>1 DEF Holding, LineSteps, BeforeOrder, SerialInv, StillTrue
  <2>2. requests' = [requests EXCEPT ![r] = Moved(r, p, q.cartId, q.since)]
    BY <1>1, <2>1, InProgress DEF Go, Moved, RequestRecords
  <2>3. p \notin {"findOrder", "create"}
    BY DEF Holding, LineSteps, BeforeOrder
  <2> QED
    BY <1>1, <2>1, <2>2, <2>3, InProgress, MovedSerial
<1>2. CASE LookupLine(r)
  BY <1>1, <1>2, ReplySerial DEF LookupLine, At, Holding, LineSteps
<1>3. CASE CheckOrder(r)
  BY <1>1, <1>3, ReplySerial DEF CheckOrder, At, Holding, BeforeOrder
<1>4. CASE CheckCart(r)
  BY <1>1, <1>4, ReplySerial DEF CheckCart, At, Holding, BeforeOrder
<1> QED
  BY <1>2, <1>3, <1>4

(* The new cart is the customer's latest, and the only one without order.  *)
LEMMA CreateCartSerial ==
  ASSUME Inv, SerialInv, NEW r \in Requests, CreateCart(r)
  PROVE  SerialInv'
<1> USE DEF CreateCart, At
<1>0. PICK n, u : n = Len(carts) + 1 /\ u = requests[r].userId
  OBVIOUS
<1>1. PICK t \in requests[r].since..clock :
         carts' = Append(carts, [userId |-> u, createdAt |-> t, lines |-> NoLines])
  BY <1>0
<1>2. /\ requests[r].pc # "idle" /\ carts \in Seq(Carts) /\ clock \in Nat
      /\ requests[r].since \in Nat /\ t \in Nat /\ requests[r].since <= t /\ t <= clock
      /\ requests \in [Requests -> RequestRecords]
      /\ u = requests[r].userId /\ Resolve(r, n)
  BY <1>0, InProgress
<1>3. /\ DOMAIN carts' = DOMAIN carts \cup {n} /\ n \notin DOMAIN carts /\ n \in Nat
      /\ \A c \in DOMAIN carts : carts'[c] = carts[c]
      /\ carts'[n].userId = u /\ carts'[n].createdAt = t
  BY <1>0, <1>1, <1>2
<1>4. \A i \in DOMAIN orders : orders[i].cartId # n /\ orders[i].cartId \in DOMAIN carts
  BY <1>3 DEF Inv, References
<1>5. \A c \in DOMAIN carts : HasOrder(c)' <=> HasOrder(c)
  BY <1>4 DEF HasOrder
<1>6. \A i \in DOMAIN orders : GoodsOf(i)' = GoodsOf(i)
  BY <1>3, <1>4 DEF GoodsOf
<1>7. OthersKept(u)
  BY <1>3, <1>5, <1>6 DEF OthersKept
<1>8. \A c \in DOMAIN carts : carts[c].userId = u =>
         carts[c].createdAt < t /\ HasOrder(c) /\ carts[c].createdAt \in Nat
  BY <1>2, CartTypes DEF SerialInv, StillTrue
<1>9. Dated'
  BY <1>2, <1>3, <1>8 DEF SerialInv, Dated
<1>10. OldOnesOrdered'
  <2> SUFFICES ASSUME NEW c \in DOMAIN carts', NEW d \in DOMAIN carts',
                      carts'[c].userId = carts'[d].userId,
                      carts'[c].createdAt < carts'[d].createdAt
               PROVE  HasOrder(c)'
    BY DEF OldOnesOrdered
  <2>1. CASE c = n
    BY <1>2, <1>3, <1>8, <2>1
  <2>2. CASE c # n /\ d = n
    BY <1>3, <1>5, <1>8, <2>2
  <2>3. CASE c # n /\ d # n
    BY <1>3, <1>5, <2>3 DEF SerialInv, OldOnesOrdered
  <2> QED
    BY <2>1, <2>2, <2>3
<1>11. OnlyRequest(r) /\ requests'[r].userId \in {u, None} /\ StillTrue(r)'
  <2> DEFINE p == FirstStep(requests[r].op)
  <2>1. CASE p = "idle"
    BY <1>2, <2>1, Answered DEF Resolve
  <2>2. CASE p # "idle"
    <3>1. p \in Holding /\ p \in Steps /\ p \notin {"findCart", "findOrder", "create", "insert", "mail"}
      BY <1>2, <2>2, InProgress DEF Ops, FirstStep, Steps, Holding, LineSteps, BeforeOrder
    <3>2. requests' = [requests EXCEPT ![r].pc = p, ![r].cartId = n]
      BY <1>2, <2>2 DEF Resolve
    <3> HIDE DEF p
    <3>3. requests' = [requests EXCEPT ![r] = Moved(r, p, n, requests[r].since)]
      BY <1>2, <3>2 DEF Moved, RequestRecords
    <3>4. /\ OnlyRequest(r) /\ requests'[r].pc = p /\ requests'[r].cartId = n
          /\ requests'[r].op = requests[r].op /\ requests'[r].userId = u
          /\ requests'[r].quantity = requests[r].quantity
      BY <1>2, <1>3, <3>1, <3>3, InProgress, MovedKeeps
    <3>5. requests[r].op \in {"add", "change"} => requests[r].quantity \in Amounts
      BY <1>2 DEF SerialInv, StillTrue
    <3> QED
      BY <1>4, <3>1, <3>4, <3>5 DEF StillTrue, HasOrder
  <2> QED
    BY <2>1, <2>2
<1>12. OneCallEach' /\ \A s \in Requests : StillTrue(s)'
  BY <1>2, <1>7, <1>11, StepFrame
<1>13. OrderHasGoods' /\ MailTellsTheOrder'
  BY <1>6 DEF SerialInv, OrderHasGoods, MailTellsTheOrder, IsEmpty, Inv, References
<1> QED
  BY <1>9, <1>10, <1>12, <1>13 DEF SerialInv

(* A handler writes a line of a cart that has no order, and ends.          *)
LEMMA WriteSerial ==
  ASSUME Inv, SerialInv, NEW r \in Requests, requests[r].pc \in LineSteps,
         NEW q \in 0..MaxQuantity,
         SetLine(requests[r].cartId, requests[r].articleId, q),
         Reply(r), UNCHANGED <<orders, mailed, clock>>
  PROVE  SerialInv'
<1> DEFINE c == requests[r].cartId
           u == requests[r].userId
<1>1. /\ c \in DOMAIN carts /\ carts[c].userId = u /\ ~HasOrder(c)
      /\ requests[r].pc # "idle" /\ carts \in Seq(Carts)
  BY InProgress DEF Inv, TypeOK, Handlers, Handler, SerialInv, StillTrue, Holding, LineSteps
<1>2. /\ DOMAIN carts' = DOMAIN carts
      /\ \A d \in DOMAIN carts : carts'[d].userId = carts[d].userId
                                /\ carts'[d].createdAt = carts[d].createdAt
      /\ \A d \in DOMAIN carts \ {c} : carts'[d] = carts[d]
  <2>1. carts[c] \in Carts
    BY <1>1
  <2> QED
    BY <1>1, <2>1 DEF SetLine, Carts
<1>3. \A i \in DOMAIN orders : orders[i].cartId # c /\ orders[i].cartId \in DOMAIN carts
  BY <1>1 DEF HasOrder, Inv, References
<1>4. \A i \in DOMAIN orders : GoodsOf(i)' = GoodsOf(i)
  BY <1>2, <1>3 DEF GoodsOf
<1>5. OthersKept(u)
  BY <1>1, <1>2, <1>4 DEF OthersKept, HasOrder
<1>6. OneCallEach' /\ \A s \in Requests : StillTrue(s)'
  BY <1>1, <1>5, Answered, StepFrame
<1>7. Dated' /\ OldOnesOrdered'
  BY <1>2 DEF SerialInv, Dated, OldOnesOrdered, HasOrder
<1>8. OrderHasGoods' /\ MailTellsTheOrder'
  BY <1>4 DEF SerialInv, OrderHasGoods, MailTellsTheOrder, IsEmpty, Inv, References
<1> QED
  BY <1>6, <1>7, <1>8 DEF SerialInv

(* What AddArticleToCart and WriteLine write.                              *)
LEMMA LineWritten ==
  ASSUME Inv, NEW r \in Requests, requests[r].pc \in LineSteps
  PROVE  /\ requests[r].pc # "idle"
         /\ requests[r].op \in {"add", "change"}
         /\ requests[r].userId \in Users
         /\ requests[r].cartId \in DOMAIN carts
         /\ carts[requests[r].cartId].userId = requests[r].userId
         /\ requests[r].articleId \in Articles
         /\ carts[requests[r].cartId].lines[requests[r].articleId] \in Nat
         /\ requests[r].quantity \in 0..MaxQuantity
         /\ Fits(Added(r)) => Added(r) \in 0..MaxQuantity
<1>1. requests[r].pc # "idle" /\ requests[r].pc \in Holding
  BY DEF LineSteps, Holding
<1>2. /\ requests[r].op \in {"add", "change"} /\ requests[r].articleId \in Articles
      /\ requests[r].cartId \in DOMAIN carts
      /\ carts[requests[r].cartId].userId = requests[r].userId
      /\ requests[r].userId \in Users
  BY <1>1 DEF Inv, Handlers, Handler
<1>3. requests[r].quantity \in 0..MaxQuantity /\ MaxQuantity \in Nat
  BY <1>1, InProgress, CartAssumption DEF RequestRecords
<1>4. carts[requests[r].cartId].lines \in Lines
  BY <1>2, CartTypes
<1>5. carts[requests[r].cartId].lines[requests[r].articleId] \in Nat
  BY <1>2, <1>4 DEF Lines
<1> QED
  BY <1>1, <1>2, <1>3, <1>5 DEF Added, Fits

LEMMA LinesSerial ==
  ASSUME Inv, SerialInv, NEW r \in Requests, AddArticleToCart(r) \/ WriteLine(r)
  PROVE  SerialInv'
<1>1. requests[r].pc \in LineSteps
  BY DEF AddArticleToCart, WriteLine, At, LineSteps
<1>2. CASE UNCHANGED carts
  BY <1>1, <1>2, LineWritten, ReplySerial DEF AddArticleToCart, WriteLine
<1>3. CASE ~UNCHANGED carts
  <2>1. \E q \in 0..MaxQuantity : SetLine(requests[r].cartId, requests[r].articleId, q)
    BY <1>1, <1>3, LineWritten DEF AddArticleToCart, WriteLine
  <2> QED
    BY <1>1, <2>1, WriteSerial DEF AddArticleToCart, WriteLine
<1> QED
  BY <1>2, <1>3

(* The cart that is ordered is the customer's latest, and has goods.       *)
LEMMA InsertOrderSerial ==
  ASSUME Inv, SerialInv, NEW r \in Requests, InsertOrder(r)
  PROVE  SerialInv'
<1> USE DEF InsertOrder, At, Taken
<1>0. PICK k, u, n : k = requests[r].cartId /\ u = requests[r].userId /\ n = Len(orders) + 1
  OBVIOUS
<1>1. /\ requests[r].pc # "idle" /\ ~HasOrder(k) /\ k \in DOMAIN carts
      /\ carts[k].userId = u /\ ~IsEmpty(carts[k].lines)
      /\ requests \in [Requests -> RequestRecords] /\ requests[r] \in RequestRecords
      /\ orders \in Seq(Orders) /\ u \in Users
  BY <1>0, InProgress
  DEF Inv, TypeOK, Handlers, Handler, SerialInv, StillTrue, Holding, BeforeOrder
<1>2. /\ orders' = Append(orders, [cartId |-> k, status |-> Pending])
      /\ requests' = [requests EXCEPT ![r].pc = "details", ![r].orderId = n]
      /\ UNCHANGED <<carts, mailed, clock>>
  BY <1>0, <1>1
<1>3. /\ DOMAIN orders' = DOMAIN orders \cup {n} /\ n \notin DOMAIN orders
      /\ \A i \in DOMAIN orders : orders'[i] = orders[i]
      /\ orders'[n].cartId = k
  BY <1>0, <1>1, <1>2
<1>4. /\ \A c \in DOMAIN carts : HasOrder(c) => HasOrder(c)'
      /\ \A c \in DOMAIN carts : c # k => (HasOrder(c)' <=> HasOrder(c))
  BY <1>3 DEF HasOrder
<1>5. \A i \in DOMAIN orders : GoodsOf(i)' = GoodsOf(i)
  BY <1>2, <1>3 DEF GoodsOf
<1>6. OthersKept(u)
  BY <1>1, <1>2, <1>3, <1>4, <1>5 DEF OthersKept
<1>7. OnlyRequest(r) /\ requests'[r].pc = "details" /\ requests'[r].userId = u
      /\ requests'[r].op = requests[r].op /\ requests'[r].quantity = requests[r].quantity
  <2>1. OnlyRequest(r)
    BY <1>1, <1>2 DEF OnlyRequest
  <2>2. requests'[r] = [requests[r] EXCEPT !.pc = "details", !.orderId = n]
    BY <1>1, <1>2
  <2> QED
    BY <1>0, <1>1, <2>1, <2>2 DEF RequestRecords
<1>8. StillTrue(r)'
  BY <1>1, <1>7 DEF SerialInv, StillTrue, Holding, LineSteps, BeforeOrder
<1>9. OneCallEach' /\ \A s \in Requests : StillTrue(s)'
  BY <1>0, <1>1, <1>6, <1>7, <1>8, StepFrame
<1>10. Dated' /\ OldOnesOrdered'
  BY <1>2, <1>4 DEF SerialInv, Dated, OldOnesOrdered
<1>11. OrderHasGoods'
  <2> SUFFICES ASSUME NEW i \in DOMAIN orders' PROVE ~IsEmpty(GoodsOf(i)')
    BY DEF OrderHasGoods, IsEmpty
  <2>1. CASE i = n
    BY <1>1, <1>2, <1>3, <2>1 DEF GoodsOf
  <2>2. CASE i \in DOMAIN orders
    BY <1>5, <2>2 DEF SerialInv, OrderHasGoods
  <2> QED
    BY <1>3, <2>1, <2>2
<1>12. MailTellsTheOrder'
  BY <1>2, <1>5 DEF SerialInv, MailTellsTheOrder, Inv, References
<1> QED
  BY <1>9, <1>10, <1>11, <1>12 DEF SerialInv

LEMMA ReadDetailsSerial ==
  ASSUME Inv, SerialInv, NEW r \in Requests, ReadDetails(r)
  PROVE  SerialInv'
<1> USE DEF ReadDetails, At
<1>1. /\ requests[r].pc # "idle" /\ requests[r].pc = "details"
      /\ requests \in [Requests -> RequestRecords] /\ requests[r] \in RequestRecords
  BY InProgress
<1>2. PICK R : R = [requests[r] EXCEPT !.pc = "mail", !.lines = GoodsOf(requests[r].orderId)]
  OBVIOUS
<1>3. /\ R.pc = "mail" /\ R.op = requests[r].op /\ R.quantity = requests[r].quantity
      /\ R.userId = requests[r].userId /\ R.orderId = requests[r].orderId
      /\ R.lines = GoodsOf(requests[r].orderId)
  BY <1>1, <1>2 DEF RequestRecords
<1>4. requests'[r] = R /\ OnlyRequest(r)
  BY <1>1, <1>2 DEF OnlyRequest, GoodsOf
<1>5. StillTrue(r)'
  BY <1>1, <1>3, <1>4
  DEF SerialInv, StillTrue, Holding, LineSteps, BeforeOrder, GoodsOf
<1> QED
  BY <1>1, <1>3, <1>4, <1>5, QuietSerial

(* The confirmation tells what was read, which is still what is ordered.   *)
LEMMA SendMailSerial ==
  ASSUME Inv, SerialInv, NEW r \in Requests, SendMail(r)
  PROVE  SerialInv'
<1> USE DEF SendMail, At
<1>1. requests[r].pc # "idle" /\ requests[r].pc = "mail" /\ mailed \in Seq(Mails)
      /\ requests[r].lines = GoodsOf(requests[r].orderId)
  BY DEF Inv, TypeOK, SerialInv, StillTrue
<1>2. OneCallEach' /\ \A s \in Requests : StillTrue(s)'
  BY <1>1, Answered, QuietKeeps, StepFrame
<1>3. MailTellsTheOrder'
  <2>1. CASE UNCHANGED mailed
    BY <2>1 DEF SerialInv, MailTellsTheOrder, GoodsOf
  <2>2. CASE mailed' = Append(mailed, [orderId |-> requests[r].orderId,
                                       lines |-> requests[r].lines])
    BY <1>1, <2>2 DEF SerialInv, MailTellsTheOrder, GoodsOf
  <2> QED
    BY <2>1, <2>2
<1>4. Dated' /\ OldOnesOrdered' /\ OrderHasGoods'
  BY DEF SerialInv, Dated, OldOnesOrdered, OrderHasGoods, HasOrder, GoodsOf, IsEmpty
<1> QED
  BY <1>2, <1>3, <1>4 DEF SerialInv

LEMMA ChangeStatusSerial ==
  ASSUME Inv, SerialInv, NEW i \in DOMAIN orders, NEW s \in Statuses, ChangeStatus(i, s)
  PROVE  SerialInv'
<1>1. orders \in Seq(Orders) /\ orders[i] \in Orders
  BY DEF Inv, TypeOK
<1>2. /\ DOMAIN orders' = DOMAIN orders
      /\ \A j \in DOMAIN orders : orders'[j].cartId = orders[j].cartId
      /\ UNCHANGED <<carts, requests, mailed, clock>>
  BY <1>1 DEF ChangeStatus, Orders
<1>3. /\ \A c : HasOrder(c)' <=> HasOrder(c)
      /\ \A j \in DOMAIN orders : GoodsOf(j)' = GoodsOf(j)
  BY <1>2 DEF HasOrder, GoodsOf
<1>4. OneCallEach' /\ Dated' /\ OldOnesOrdered'
  BY <1>2, <1>3 DEF SerialInv, OneCallEach, Dated, OldOnesOrdered
<1>5. OrderHasGoods' /\ MailTellsTheOrder'
  BY <1>2, <1>3 DEF SerialInv, OrderHasGoods, MailTellsTheOrder, IsEmpty, Inv, References
<1>6. ASSUME NEW r \in Requests PROVE StillTrue(r)'
  <2>1. StillTrue(r) /\ Handler(r)
    BY DEF SerialInv, Inv, Handlers
  <2>2. requests[r].pc = "mail" => GoodsOf(requests[r].orderId)' = GoodsOf(requests[r].orderId)
    BY <1>2, <1>3, <2>1 DEF Handler, AfterOrder
  <2>3. HasOrder(requests[r].cartId)' <=> HasOrder(requests[r].cartId)
    BY <1>2, <1>3 DEF HasOrder
  <2> QED
    BY <1>2, <1>3, <2>1, <2>2, <2>3 DEF StillTrue, IsEmpty
<1> QED
  BY <1>4, <1>5, <1>6 DEF SerialInv

-----------------------------------------------------------------------------
LEMMA CallSerial ==
  ASSUME Serial, Inv, SerialInv, NEW r \in Requests, Call(r)
  PROVE  SerialInv'
<1>1. 0 \in 0..MaxQuantity /\ Amounts \subseteq 0..MaxQuantity
      /\ {"view", "add", "change", "order"} = Ops
  BY CartAssumption DEF Ops
<1> QED
  BY <1>1, BeginSerial
  DEF Call, GetCurrentCart, MakeOrder, AddToCart, ChangeQuantity

LEMMA NextSerial ==
  ASSUME Serial
  PROVE  Inv /\ SerialInv /\ [Next]_vars => SerialInv'
<1> SUFFICES ASSUME Inv, SerialInv, [Next]_vars PROVE SerialInv'
  OBVIOUS
<1>1. CASE UNCHANGED vars
  <2>1. UNCHANGED <<carts, orders, requests, mailed, clock>>
    BY <1>1 DEF vars
  <2>2. OneCallEach' /\ Dated' /\ OldOnesOrdered' /\ OrderHasGoods' /\ MailTellsTheOrder'
    BY <2>1 DEF SerialInv, OneCallEach, Dated, OldOnesOrdered, OrderHasGoods,
                MailTellsTheOrder, HasOrder, GoodsOf, IsEmpty
  <2>3. \A r \in Requests : StillTrue(r)'
    BY <2>1 DEF SerialInv, StillTrue, HasOrder, GoodsOf, IsEmpty
  <2> QED
    BY <2>2, <2>3 DEF SerialInv
<1>2. ASSUME NEW r \in Requests, Call(r) PROVE SerialInv'
  BY <1>2, CallSerial
<1>3. ASSUME NEW r \in Requests, Step(r) PROVE SerialInv'
  BY <1>3, FindCartSerial, FindOrderSerial, CreateCartSerial, LinesSerial, ChecksSerial,
     InsertOrderSerial, ReadDetailsSerial, SendMailSerial DEF Step
<1>4. ASSUME NEW r \in Requests, Abort(r) PROVE SerialInv'
  BY <1>4, ReplySerial DEF Abort, At
<1>5. ASSUME NEW i \in DOMAIN orders, NEW s \in Statuses, ChangeStatus(i, s)
      PROVE  SerialInv'
  BY <1>5, ChangeStatusSerial
<1> QED
  BY <1>1, <1>2, <1>3, <1>4, <1>5 DEF Next

(* Where no customer has two calls in progress, what handlers read stays   *)
(* true until they act on it.                                              *)
THEOREM SerialInvariance ==
  ASSUME Serial
  PROVE  Spec => [](Inv /\ SerialInv)
<1>1. Inv /\ SerialInv /\ [Next]_vars => Inv' /\ SerialInv'
  BY NextInv, NextSerial
<1> QED
  BY <1>1, InitInv, InitSerial, PTL DEF Spec

(* Where no customer has two calls in progress, every order has goods.     *)
THEOREM OrdersHaveGoods ==
  ASSUME Serial
  PROVE  Spec => []OrderHasGoods
<1>1. SerialInv => OrderHasGoods
  BY DEF SerialInv
<1> QED
  BY <1>1, SerialInvariance, PTL

(* Where no customer has two calls in progress, a confirmation lists the   *)
(* goods of its order.                                                     *)
THEOREM MailsTellTheOrder ==
  ASSUME Serial
  PROVE  Spec => []MailTellsTheOrder
<1>1. SerialInv => MailTellsTheOrder
  BY DEF SerialInv
<1> QED
  BY <1>1, SerialInvariance, PTL

(* A customer's carts without an order: two would have different times,    *)
(* and the older one an order.                                             *)
LEMMA OpenIsLatest == Inv /\ SerialInv => OneOpenCart
<1> SUFFICES ASSUME Inv, SerialInv, NEW u \in Users,
                    NEW c \in OpenCartsOf(u), NEW d \in OpenCartsOf(u), c # d
             PROVE  FALSE
  BY DEF OneOpenCart
<1>1. /\ c \in DOMAIN carts /\ d \in DOMAIN carts /\ ~HasOrder(c) /\ ~HasOrder(d)
      /\ carts[c].userId = carts[d].userId
  BY DEF OpenCartsOf, CartsOf
<1>2. carts[c].createdAt \in Nat /\ carts[d].createdAt \in Nat
  BY <1>1, CartTypes
<1> QED
  BY <1>1, <1>2 DEF SerialInv, Dated, OldOnesOrdered

(* Where no customer has two calls in progress, there is one cart to fill. *)
THEOREM OneCartToFill ==
  ASSUME Serial
  PROVE  Spec => []OneOpenCart
  BY OpenIsLatest, SerialInvariance, PTL

-----------------------------------------------------------------------------
(* The shop.  A basket is the lines of the one open cart, if there is one. *)
BasketIs ==
    \A u \in Users :
        /\ \A c \in OpenCartsOf(u) : Basket[u] = carts[c].lines
        /\ OpenCartsOf(u) = {} => Basket[u] = NoLines

LEMMA BasketOfCart == Inv /\ SerialInv => BasketIs
<1> SUFFICES ASSUME Inv, SerialInv, NEW u \in Users
             PROVE  /\ \A c \in OpenCartsOf(u) : Basket[u] = carts[c].lines
                    /\ OpenCartsOf(u) = {} => Basket[u] = NoLines
  BY DEF BasketIs
<1>1. \A c, d \in OpenCartsOf(u) : c = d
  BY OpenIsLatest DEF OneOpenCart
<1>2. ASSUME NEW c \in OpenCartsOf(u)
      PROVE  Basket[u] = carts[c].lines
  <2>1. (CHOOSE d \in OpenCartsOf(u) : TRUE) \in OpenCartsOf(u)
    BY <1>2
  <2>2. (CHOOSE d \in OpenCartsOf(u) : TRUE) = c
    BY <1>1, <2>1
  <2> QED
    BY <2>2 DEF Basket
<1>3. OpenCartsOf(u) = {} => Basket[u] = NoLines
  BY DEF Basket
<1> QED
  BY <1>2, <1>3

LEMMA BasketOfCartNext == Inv' /\ SerialInv' => BasketIs'
  BY BasketOfCart, PTL

(* Whose open cart and its lines stay, his basket stays.                   *)
LEMMA SameBasket ==
  ASSUME BasketIs, BasketIs', NEW u \in Users, OpenCartsOf(u)' = OpenCartsOf(u),
         \A c \in OpenCartsOf(u) : carts'[c].lines = carts[c].lines
  PROVE  Basket'[u] = Basket[u]
<1>1. CASE OpenCartsOf(u) = {}
  BY <1>1 DEF BasketIs
<1>2. CASE OpenCartsOf(u) # {}
  <2>1. PICK c : c \in OpenCartsOf(u)
    BY <1>2
  <2>2. Basket[u] = carts[c].lines
    BY <2>1 DEF BasketIs
  <2>3. Basket'[u] = carts'[c].lines
    BY <2>1 DEF BasketIs
  <2> QED
    BY <2>1, <2>2, <2>3
<1> QED
  BY <1>1, <1>2

(* Baskets that agree for every customer are equal.                        *)
LEMMA BasketsEqual ==
  ASSUME NEW F, F = [u \in Users |-> F[u]], \A u \in Users : Basket'[u] = F[u]
  PROVE  Basket' = F
<1>1. Basket' = [u \in Users |-> Basket'[u]]
  BY DEF Basket
<1> QED
  BY <1>1

LEMMA BasketsKept ==
  ASSUME \A u \in Users : Basket'[u] = Basket[u]
  PROVE  Basket' = Basket
<1>1. Basket = [u \in Users |-> Basket[u]]
  BY DEF Basket
<1> QED
  BY <1>1, BasketsEqual

(* Orders placed stay as they are where their carts and goods do.          *)
LEMMA PlacedKept ==
  ASSUME Inv, UNCHANGED orders,
         \A i \in DOMAIN orders : GoodsOf(i)' = GoodsOf(i),
         \A c \in DOMAIN carts : carts'[c].userId = carts[c].userId
  PROVE  Placed' = Placed
<1>1. \A i \in DOMAIN orders : carts'[orders[i].cartId].userId = carts[orders[i].cartId].userId
  BY DEF Inv, References
<1> QED
  BY <1>1 DEF Placed

(* No statement that leaves the tables alone is seen by the shop.          *)
LEMMA QuietShop ==
  ASSUME Inv, BasketIs, BasketIs', UNCHANGED <<carts, orders>>
  PROVE  UNCHANGED <<Basket, Placed>>
<1>1. \A u \in Users : OpenCartsOf(u)' = OpenCartsOf(u)
  BY DEF OpenCartsOf, CartsOf, HasOrder
<1>2. Basket' = Basket
  BY <1>1, SameBasket, BasketsKept
<1>3. Placed' = Placed
  BY PlacedKept DEF GoodsOf
<1> QED
  BY <1>2, <1>3

(* A customer without open cart gets an empty one: not seen by the shop.   *)
LEMMA CreateCartShop ==
  ASSUME Inv, SerialInv, BasketIs, BasketIs', NEW r \in Requests, CreateCart(r)
  PROVE  UNCHANGED <<Basket, Placed>>
<1> USE DEF CreateCart, At
<1>0. PICK n, u : n = Len(carts) + 1 /\ u = requests[r].userId
  OBVIOUS
<1>1. PICK t : carts' = Append(carts, [userId |-> u, createdAt |-> t, lines |-> NoLines])
  BY <1>0
<1>2. carts \in Seq(Carts) /\ u \in Users
  BY <1>0, InProgress
<1>3. /\ DOMAIN carts' = DOMAIN carts \cup {n} /\ n \notin DOMAIN carts
      /\ \A c \in DOMAIN carts : carts'[c] = carts[c]
      /\ carts'[n].userId = u /\ carts'[n].lines = NoLines
  BY <1>0, <1>1, <1>2
<1>4. \A i \in DOMAIN orders : orders[i].cartId # n /\ orders[i].cartId \in DOMAIN carts
  BY <1>3 DEF Inv, References
<1>5. ASSUME NEW v \in Users, v # u PROVE Basket'[v] = Basket[v]
  <2>1. OpenCartsOf(v)' = OpenCartsOf(v)
    BY <1>3, <1>5 DEF OpenCartsOf, CartsOf, HasOrder
  <2>2. \A c \in OpenCartsOf(v) : carts'[c].lines = carts[c].lines
    BY <1>3 DEF OpenCartsOf, CartsOf
  <2> QED
    BY <2>1, <2>2, SameBasket
<1>6. Basket'[u] = Basket[u]
  <2>1. OpenCartsOf(u) = {}
    BY <1>0, <1>2 DEF OpenCartsOf, CartsOf, SerialInv, StillTrue
  <2>2. n \in OpenCartsOf(u)'
    BY <1>3, <1>4 DEF OpenCartsOf, CartsOf, HasOrder
  <2>3. Basket[u] = NoLines
    BY <1>2, <2>1 DEF BasketIs
  <2>4. Basket'[u] = carts'[n].lines
    BY <1>2, <2>2 DEF BasketIs
  <2> QED
    BY <1>3, <2>3, <2>4
<1>7. Basket' = Basket
  BY <1>5, <1>6, BasketsKept
<1>8. Placed' = Placed
  BY <1>3, <1>4, PlacedKept DEF GoodsOf
<1> QED
  BY <1>7, <1>8

(* A line that is written is a line of its customer's basket.              *)
LEMMA WriteShop ==
  ASSUME Inv, SerialInv, BasketIs, BasketIs',
         NEW r \in Requests, requests[r].pc \in LineSteps, NEW q \in 0..MaxQuantity,
         SetLine(requests[r].cartId, requests[r].articleId, q), UNCHANGED orders
  PROVE  /\ Basket[requests[r].userId] = carts[requests[r].cartId].lines
         /\ Basket' = [Basket EXCEPT ![requests[r].userId][requests[r].articleId] = q]
         /\ Placed' = Placed
<1>0. PICK c, u, a : c = requests[r].cartId /\ u = requests[r].userId
                     /\ a = requests[r].articleId
  OBVIOUS
<1>1. /\ c \in DOMAIN carts /\ carts[c].userId = u /\ ~HasOrder(c)
      /\ u \in Users /\ a \in Articles /\ carts \in Seq(Carts)
  BY <1>0, LineWritten DEF Inv, TypeOK, SerialInv, StillTrue, Holding
<1>2. /\ DOMAIN carts' = DOMAIN carts
      /\ \A d \in DOMAIN carts : carts'[d].userId = carts[d].userId
      /\ \A d \in DOMAIN carts \ {c} : carts'[d] = carts[d]
      /\ carts'[c].lines = [carts[c].lines EXCEPT ![a] = q]
  <2>1. carts[c] \in Carts
    BY <1>1
  <2> QED
    BY <1>0, <1>1, <2>1 DEF SetLine, Carts
<1>3. \A v \in Users : OpenCartsOf(v)' = OpenCartsOf(v)
  BY <1>2 DEF OpenCartsOf, CartsOf, HasOrder
<1>4. c \in OpenCartsOf(u)
  BY <1>1 DEF OpenCartsOf, CartsOf
<1>5. Basket[u] = carts[c].lines /\ Basket'[u] = carts'[c].lines
  BY <1>1, <1>3, <1>4 DEF BasketIs
<1>6. ASSUME NEW v \in Users, v # u PROVE Basket'[v] = Basket[v]
  <2>1. c \notin OpenCartsOf(v)
    BY <1>1, <1>6 DEF OpenCartsOf, CartsOf
  <2>2. \A d \in OpenCartsOf(v) : carts'[d].lines = carts[d].lines
    BY <1>2, <2>1 DEF OpenCartsOf, CartsOf
  <2> QED
    BY <1>3, <2>2, SameBasket
<1>7. PICK F : F = [Basket EXCEPT ![u] = [carts[c].lines EXCEPT ![a] = q]]
  OBVIOUS
<1>8. /\ F = [v \in Users |-> F[v]]
      /\ F[u] = [carts[c].lines EXCEPT ![a] = q]
      /\ \A v \in Users : v # u => F[v] = Basket[v]
  <2>1. Basket = [v \in Users |-> Basket[v]]
    BY DEF Basket
  <2> QED
    BY <1>1, <1>7, <2>1
<1>9. Basket' = F
  BY <1>2, <1>5, <1>6, <1>8, BasketsEqual
<1>10. \A i \in DOMAIN orders : GoodsOf(i)' = GoodsOf(i)
  BY <1>1, <1>2 DEF GoodsOf, HasOrder, Inv, References
<1>11. Placed' = Placed
  BY <1>2, <1>10, PlacedKept
<1> QED
  BY <1>0, <1>5, <1>7, <1>9, <1>11

(* addToCart puts an article into the basket, or the column refuses it.    *)
LEMMA AddShop ==
  ASSUME Inv, SerialInv, BasketIs, BasketIs', NEW r \in Requests, AddArticleToCart(r)
  PROVE  Shop!Next \/ UNCHANGED <<Basket, Placed>>
<1> USE DEF AddArticleToCart, At
<1>0. PICK c, u, a, q : /\ c = requests[r].cartId /\ u = requests[r].userId
                        /\ a = requests[r].articleId /\ q = requests[r].quantity
  OBVIOUS
<1>1. /\ requests[r].pc \in LineSteps /\ u \in Users /\ a \in Articles /\ q \in Amounts
      /\ q \in Nat /\ carts[c].lines[a] \in Nat
  BY <1>0, LineWritten, CartAssumption DEF SerialInv, StillTrue, LineSteps
<1>2. Added(r) = carts[c].lines[a] + q
  BY <1>0 DEF Added
<1>3. CASE ~Fits(Added(r))
  BY <1>3, QuietShop
<1>4. CASE Fits(Added(r))
  <2>1. Added(r) \in 0..MaxQuantity /\ Added(r) <= MaxQuantity
    BY <1>1, <1>4, LineWritten DEF Fits
  <2>2. /\ Basket[u] = carts[c].lines
        /\ Basket' = [Basket EXCEPT ![u][a] = Added(r)]
        /\ Placed' = Placed
    BY <1>0, <1>1, <1>4, <2>1, WriteShop
  <2>3. Shop!Put(u, a, q)
    <3>1. Basket[u][a] + q = Added(r)
      BY <1>2, <2>2
    <3>2. Basket' = [Basket EXCEPT ![u][a] = Basket[u][a] + q]
      BY <2>2, <3>1
    <3> QED
      BY <2>1, <2>2, <3>1, <3>2 DEF Shop!Put
  <2> QED
    BY <1>1, <2>3 DEF Shop!Next
<1> QED
  BY <1>3, <1>4

(* changeQuantity sets the quantity of an article in the basket.           *)
LEMMA WriteLineShop ==
  ASSUME Inv, SerialInv, BasketIs, BasketIs', NEW r \in Requests, WriteLine(r)
  PROVE  Shop!Next \/ UNCHANGED <<Basket, Placed>>
<1> USE DEF WriteLine, At
<1>0. PICK c, u, a, q : /\ c = requests[r].cartId /\ u = requests[r].userId
                        /\ a = requests[r].articleId /\ q = requests[r].quantity
  OBVIOUS
<1>1. /\ requests[r].pc \in LineSteps /\ u \in Users /\ a \in Articles /\ q \in Amounts
      /\ q \in 0..MaxQuantity
  BY <1>0, LineWritten DEF SerialInv, StillTrue, LineSteps
<1>2. CASE ~LineExists(r)
  BY <1>2, QuietShop
<1>3. CASE LineExists(r)
  <2>1. /\ Basket[u] = carts[c].lines
        /\ Basket' = [Basket EXCEPT ![u][a] = q]
        /\ Placed' = Placed
    BY <1>0, <1>1, <1>3, WriteShop
  <2>2. Basket[u][a] # 0
    BY <1>0, <1>3, <2>1 DEF LineExists
  <2>3. Shop!SetQuantity(u, a, q)
    BY <2>1, <2>2 DEF Shop!SetQuantity
  <2> QED
    BY <1>1, <2>3 DEF Shop!Next
<1> QED
  BY <1>2, <1>3

(* The orders placed are a sequence, as long as order_log.                 *)
PlacedOrders == [userId : Users, lines : Lines, status : Statuses]

PlacedIsSeq ==
    /\ Placed \in Seq(PlacedOrders)
    /\ Len(Placed) = Len(orders)
    /\ DOMAIN Placed = DOMAIN orders

LEMMA FunctionIsSeq ==
  ASSUME NEW S, NEW n \in Nat, NEW f \in [1..n -> S]
  PROVE  f \in Seq(S)
  BY SeqDef, Zenon

LEMMA PlacedSeq == Inv => PlacedIsSeq
<1> SUFFICES ASSUME Inv PROVE PlacedIsSeq
  OBVIOUS
<1>1. orders \in Seq(Orders) /\ carts \in Seq(Carts)
  BY DEF Inv, TypeOK
<1>2. DOMAIN orders = 1..Len(orders) /\ Len(orders) \in Nat
  BY <1>1
<1>3. ASSUME NEW i \in DOMAIN orders
      PROVE  [userId |-> carts[orders[i].cartId].userId, lines |-> GoodsOf(i),
              status |-> orders[i].status] \in PlacedOrders
  <2>1. carts[orders[i].cartId] \in Carts /\ orders[i] \in Orders
    BY <1>1 DEF Inv, References
  <2> QED
    BY <2>1 DEF Carts, Orders, GoodsOf, PlacedOrders
<1>4. Placed \in [1..Len(orders) -> PlacedOrders]
  BY <1>2, <1>3 DEF Placed
<1>5. Placed \in Seq(PlacedOrders)
  BY <1>2, <1>4, FunctionIsSeq
<1>6. DOMAIN Placed = DOMAIN orders
  BY <1>2, <1>4
<1>7. Len(Placed) = Len(orders)
  BY <1>2, <1>5, <1>6
<1> QED
  BY <1>5, <1>6, <1>7 DEF PlacedIsSeq

LEMMA PlacedSeqNext == Inv' => PlacedIsSeq'
  BY PlacedSeq, PTL

(* makeOrder turns the basket into an order and leaves an empty one.       *)
LEMMA InsertOrderShop ==
  ASSUME Inv, Inv', SerialInv, BasketIs, BasketIs', NEW r \in Requests, InsertOrder(r)
  PROVE  Shop!Next
<1> USE DEF InsertOrder, At, Taken
<1>0. PICK k, u, n : k = requests[r].cartId /\ u = requests[r].userId /\ n = Len(orders) + 1
  OBVIOUS
<1>1. /\ ~HasOrder(k) /\ k \in DOMAIN carts
      /\ carts[k].userId = u /\ ~IsEmpty(carts[k].lines)
      /\ orders \in Seq(Orders) /\ u \in Users
  BY <1>0, InProgress
  DEF Inv, TypeOK, Handlers, Handler, SerialInv, StillTrue, Holding, BeforeOrder
<1>2. orders' = Append(orders, [cartId |-> k, status |-> Pending]) /\ UNCHANGED carts
  BY <1>0, <1>1
<1>3. /\ DOMAIN orders' = DOMAIN orders \cup {n} /\ n \notin DOMAIN orders
      /\ \A i \in DOMAIN orders : orders'[i] = orders[i]
      /\ orders'[n] = [cartId |-> k, status |-> Pending]
      /\ Len(orders') = n /\ n \in Nat
  BY <1>0, <1>1, <1>2
<1>4. k \in OpenCartsOf(u)
  BY <1>1 DEF OpenCartsOf, CartsOf
<1>5. Basket[u] = carts[k].lines
  BY <1>1, <1>4 DEF BasketIs
<1>6. \A c \in OpenCartsOf(u) : c = k
  BY <1>1, <1>4, OpenIsLatest DEF OneOpenCart
<1>7. Basket'[u] = NoLines
  <2>1. OpenCartsOf(u)' = {}
    BY <1>2, <1>3, <1>6 DEF OpenCartsOf, CartsOf, HasOrder
  <2> QED
    BY <1>1, <2>1 DEF BasketIs
<1>8. ASSUME NEW v \in Users, v # u PROVE Basket'[v] = Basket[v]
  <2>1. OpenCartsOf(v)' = OpenCartsOf(v)
    BY <1>1, <1>2, <1>3, <1>8 DEF OpenCartsOf, CartsOf, HasOrder
  <2> QED
    BY <1>2, <2>1, SameBasket
<1>9. Basket' = [Basket EXCEPT ![u] = NoLines]
  <2>1. PICK F : F = [Basket EXCEPT ![u] = NoLines]
    OBVIOUS
  <2>2. /\ F = [v \in Users |-> F[v]] /\ F[u] = NoLines
        /\ \A v \in Users : v # u => F[v] = Basket[v]
    <3>1. Basket = [v \in Users |-> Basket[v]]
      BY DEF Basket
    <3> QED
      BY <1>1, <2>1, <3>1
  <2> QED
    BY <1>7, <1>8, <2>1, <2>2, BasketsEqual
<1>10. PICK o : o = [userId |-> u, lines |-> Basket[u], status |-> Pending]
  OBVIOUS
<1>11. Placed' = Append(Placed, o)
  <2>1. /\ Placed \in Seq(PlacedOrders) /\ Len(Placed) = Len(orders)
        /\ DOMAIN Placed = DOMAIN orders
        /\ Placed' \in Seq(PlacedOrders) /\ Len(Placed') = n
        /\ DOMAIN Placed' = DOMAIN orders'
    BY <1>3, PlacedSeq, PlacedSeqNext DEF PlacedIsSeq
  <2>2. Placed'[n] = o
    BY <1>1, <1>2, <1>3, <1>5, <1>10 DEF Placed, GoodsOf
  <2>3. \A i \in DOMAIN orders : Placed'[i] = Placed[i]
    BY <1>2, <1>3 DEF Placed, GoodsOf
  <2>4. o \in PlacedOrders
    BY <1>3, <2>1, <2>2
  <2>5. /\ Append(Placed, o) \in Seq(PlacedOrders)
        /\ Len(Append(Placed, o)) = n
        /\ Append(Placed, o)[n] = o
        /\ \A i \in DOMAIN orders : Append(Placed, o)[i] = Placed[i]
    BY <1>0, <2>1, <2>4
  <2> QED
    BY <1>3, <2>1, <2>2, <2>3, <2>5
<1>12. Basket[u] # NoLines
  BY <1>1, <1>5 DEF IsEmpty, NoLines
<1>13. Shop!Place(u)
  BY <1>9, <1>10, <1>11, <1>12 DEF Shop!Place, Shop!NoLines, NoLines
<1> QED
  BY <1>1, <1>13 DEF Shop!Next

(* The administrator's change of a status.                                 *)
LEMMA ChangeStatusShop ==
  ASSUME Inv, Inv', BasketIs, BasketIs', NEW i \in DOMAIN orders, NEW s \in Statuses,
         ChangeStatus(i, s)
  PROVE  Shop!Next
<1>1. orders \in Seq(Orders) /\ orders[i] \in Orders
  BY DEF Inv, TypeOK
<1>2. /\ DOMAIN orders' = DOMAIN orders
      /\ \A j \in DOMAIN orders : orders'[j].cartId = orders[j].cartId
      /\ \A j \in DOMAIN orders : j # i => orders'[j] = orders[j]
      /\ orders'[i].status = s
      /\ UNCHANGED carts
  BY <1>1 DEF ChangeStatus, Orders
<1>3. \A u \in Users : OpenCartsOf(u)' = OpenCartsOf(u)
  BY <1>2 DEF OpenCartsOf, CartsOf, HasOrder
<1>4. Basket' = Basket
  BY <1>2, <1>3, SameBasket, BasketsKept
<1>5. Placed' = [Placed EXCEPT ![i].status = s]
  <2>1. PICK P : P = [Placed EXCEPT ![i].status = s]
    OBVIOUS
  <2>2. /\ Placed = [j \in DOMAIN orders |-> Placed[j]]
        /\ Placed' = [j \in DOMAIN orders |-> Placed'[j]]
        /\ Placed[i] = [userId |-> carts[orders[i].cartId].userId,
                        lines |-> GoodsOf(i), status |-> orders[i].status]
    BY <1>2 DEF Placed
  <2>3. P[i] = [userId |-> carts[orders[i].cartId].userId,
                lines |-> GoodsOf(i), status |-> s]
    BY <2>1, <2>2
  <2>4. P = [j \in DOMAIN orders |-> P[j]] /\ \A j \in DOMAIN orders : j # i => P[j] = Placed[j]
    BY <2>1, <2>2
  <2>5. Placed'[i] = P[i]
    BY <1>2, <2>3 DEF Placed, GoodsOf
  <2>6. \A j \in DOMAIN orders : j # i => Placed'[j] = P[j]
    BY <1>2, <2>4 DEF Placed, GoodsOf
  <2> QED
    BY <2>1, <2>2, <2>4, <2>5, <2>6
<1>6. i \in DOMAIN Placed
  BY PlacedSeq DEF PlacedIsSeq
<1>7. Shop!SetStatus(i, s)
  BY <1>4, <1>5 DEF Shop!SetStatus
<1> QED
  BY <1>6, <1>7 DEF Shop!Next

(* Every step of the endpoints is a step of the shop, or not seen there.   *)
LEMMA NextShop ==
  ASSUME Inv, Inv', SerialInv, SerialInv', [Next]_vars
  PROVE  [Shop!Next]_<<Basket, Placed>>
<1>0. BasketIs /\ BasketIs'
  BY BasketOfCart, BasketOfCartNext
<1>1. CASE UNCHANGED <<carts, orders>>
  BY <1>0, <1>1, QuietShop
<1>2. ASSUME NEW r \in Requests, CreateCart(r) PROVE [Shop!Next]_<<Basket, Placed>>
  BY <1>0, <1>2, CreateCartShop
<1>3. ASSUME NEW r \in Requests, AddArticleToCart(r) PROVE [Shop!Next]_<<Basket, Placed>>
  BY <1>0, <1>3, AddShop
<1>4. ASSUME NEW r \in Requests, WriteLine(r) PROVE [Shop!Next]_<<Basket, Placed>>
  BY <1>0, <1>4, WriteLineShop
<1>5. ASSUME NEW r \in Requests, InsertOrder(r) PROVE [Shop!Next]_<<Basket, Placed>>
  BY <1>0, <1>5, InsertOrderShop
<1>6. ASSUME NEW i \in DOMAIN orders, NEW s \in Statuses, ChangeStatus(i, s)
      PROVE  [Shop!Next]_<<Basket, Placed>>
  BY <1>0, <1>6, ChangeStatusShop
<1>7. ASSUME NEW r \in Requests, Call(r) \/ Abort(r) PROVE UNCHANGED <<carts, orders>>
  BY <1>7 DEF Call, Abort, GetCurrentCart, AddToCart, ChangeQuantity, MakeOrder, Begin
<1>8. ASSUME NEW r \in Requests,
             \/ FindCart(r) \/ FindOrder(r) \/ LookupLine(r) \/ CheckOrder(r)
             \/ CheckCart(r) \/ ReadDetails(r) \/ SendMail(r)
      PROVE  UNCHANGED <<carts, orders>>
  BY <1>8 DEF FindCart, FindOrder, LookupLine, CheckOrder, CheckCart, ReadDetails, SendMail
<1>9. CASE UNCHANGED vars
  BY <1>1, <1>9 DEF vars
<1> QED
  BY <1>1, <1>2, <1>3, <1>4, <1>5, <1>6, <1>7, <1>8, <1>9 DEF Next, Step

LEMMA InitShop == Init => Shop!Init
<1> SUFFICES ASSUME Init PROVE Shop!Init
  OBVIOUS
<1>1. carts = <<>> /\ orders = <<>>
  BY DEF Init
<1>2. \A u \in Users : OpenCartsOf(u) = {}
  BY <1>1 DEF OpenCartsOf, CartsOf
<1>3. Basket = [u \in Users |-> NoLines]
  BY <1>2 DEF Basket
<1>4. Placed = <<>>
  BY <1>1 DEF Placed
<1> QED
  BY <1>3, <1>4 DEF Shop!Init, Shop!NoLines, NoLines

(* Where no customer has two calls in progress, the endpoints, with all    *)
(* their statements, aborts and swallowed mails, implement the shop: what  *)
(* was put into the basket is what is ordered.                             *)
THEOREM EndpointsImplementShop ==
  ASSUME Serial
  PROVE  Spec => ImplementsShop
<1>1. Inv /\ Inv' /\ SerialInv /\ SerialInv' /\ [Next]_vars
         => [Shop!Next]_<<Basket, Placed>>
  BY NextShop
<1> QED
  BY <1>1, InitShop, SerialInvariance, PTL DEF Spec, ImplementsShop, Shop!Spec

=============================================================================
