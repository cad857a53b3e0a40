---------------------------- MODULE ReferenceBook ----------------------------
(***************************************************************************)
(* What a limit order book reconstructed from an order-based feed is: the  *)
(* resting orders by reference number, and on each side the total of the   *)
(* orders that rest at each price.  The totals are recomputed from the     *)
(* orders after every step; there is no pool, no index, and no increment.  *)
(***************************************************************************)
EXTENDS Integers, FiniteSets, FiniteSetsExt

CONSTANTS Ref, Price, MaxShares

VARIABLES orders,        \* the resting orders: Ref -> [side, price, shares]
          bids, asks     \* the totals of the two sides: price -> quantity

vars == <<orders, bids, asks>>

Resting(side, p) ==
    {r \in DOMAIN orders : orders[r].side = side /\ orders[r].price = p}

Prices(side) ==
    {orders[r].price : r \in {s \in DOMAIN orders : orders[s].side = side}}

\* The totals of one side of the book.
Totals(side) ==
    LET shares == [r \in DOMAIN orders |-> orders[r].shares]
    IN  [p \in Prices(side) |-> SumFunctionOnSet(shares, Resting(side, p))]

Quoted == bids = Totals("B") /\ asks = Totals("S")

Without(ref) == [r \in DOMAIN orders \ {ref} |-> orders[r]]

With(others, ref, o) ==
    [r \in DOMAIN others \cup {ref} |-> IF r = ref THEN o ELSE others[r]]

Order(s, p, n) == [side |-> s, price |-> p, shares |-> n]

Init == orders = [r \in {} |-> 0] /\ Quoted

Add(ref, side, price, n) ==
    /\ ref \notin DOMAIN orders
    /\ orders' = With(orders, ref, Order(side, price, n))

Reduce(ref, n) ==
    /\ ref \in DOMAIN orders
    /\ orders' = IF n < orders[ref].shares
                   THEN [orders EXCEPT ![ref].shares = @ - n]
                   ELSE Without(ref)

Remove(ref) ==
    /\ ref \in DOMAIN orders
    /\ orders' = Without(ref)

Replace(ref, new, price, n) ==
    /\ ref \in DOMAIN orders
    /\ new \in DOMAIN orders => new = ref
    /\ orders' = With(Without(ref), new, Order(orders[ref].side, price, n))

Next ==
    /\ \E ref \in Ref, n \in 1 .. MaxShares :
        \/ \E s \in {"B", "S"}, p \in Price : Add(ref, s, p, n)
        \/ Reduce(ref, n)
        \/ Remove(ref)
        \/ \E new \in Ref, p \in Price : Replace(ref, new, p, n)
    /\ Quoted'

Spec == Init /\ [][Next]_vars
=============================================================================
