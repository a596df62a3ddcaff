-------------------------------- MODULE Shop --------------------------------
(***************************************************************************)
(* What the cart and order endpoints promise a customer who makes one call *)
(* at a time: a basket to fill, and orders that keep what was in it.       *)
(***************************************************************************)
EXTENDS Naturals, Sequences

CONSTANTS Users, Articles, Amounts, Statuses, Pending, MaxQuantity

VARIABLES
    basket,     \* what each user has put aside
    placed      \* orders, oldest first

NoLines == [a \in Articles |-> 0]

Init == basket = [u \in Users |-> NoLines] /\ placed = <<>>

Put(u, a, q) ==
    /\ basket[u][a] + q <= MaxQuantity
    /\ basket' = [basket EXCEPT ![u][a] = @ + q]
    /\ UNCHANGED placed

SetQuantity(u, a, q) ==
    /\ basket[u][a] # 0
    /\ basket' = [basket EXCEPT ![u][a] = q]
    /\ UNCHANGED placed

Place(u) ==
    /\ basket[u] # NoLines
    /\ placed' = Append(placed, [userId |-> u, lines |-> basket[u], status |-> Pending])
    /\ basket' = [basket EXCEPT ![u] = NoLines]

SetStatus(i, s) ==
    /\ placed' = [placed EXCEPT ![i].status = s]
    /\ UNCHANGED basket

Next ==
    \/ \E u \in Users, a \in Articles, q \in Amounts : Put(u, a, q)
    \/ \E u \in Users, a \in Articles, q \in Amounts : SetQuantity(u, a, q)
    \/ \E u \in Users : Place(u)
    \/ \E i \in DOMAIN placed, s \in Statuses : SetStatus(i, s)

Spec == Init /\ [][Next]_<<basket, placed>>
=============================================================================
