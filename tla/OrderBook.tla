------------------------------ MODULE OrderBook ------------------------------
(***************************************************************************)
(* BasicOrderBook<MapLevels> (include/book/order_book.hpp) over its        *)
(* ObjectPool (include/core/object_pool.hpp): the order_ref -> handle      *)
(* index, the pool of orders with its LIFO free list, and the price levels *)
(* of the two sides, which every operation keeps up to date incrementally. *)
(*                                                                         *)
(* A book is a record, and each operation of the class an operator from a  *)
(* book and the arguments to the book it leaves, so that other modules can *)
(* hold books of their own.                                                *)
(***************************************************************************)
EXTENDS LevelMap, FiniteSetsExt

CONSTANTS
    Ref,          \* order reference numbers
    Price,        \* prices, integers
    MaxShares,    \* bound on the shares of one message
    MaxSlots      \* bound on the size of the pool

ASSUME PriceAssumption == Price \subseteq Int
ASSUME MaxSharesAssumption == MaxShares \in Nat /\ MaxShares < QtyMod
ASSUME MaxSlotsAssumption == MaxSlots \in Nat

Side == {"B", "S"}
AnySide == Side \cup {"?"}          \* the decoder passes any byte on
Shares == 0 .. MaxShares

Order == [side : AnySide, price : Price, shares : Shares]

-----------------------------------------------------------------------------
(* ObjectPool<Order>: slots and the free list; handle h of the code   *)
(* is number h + 1 here.                                                    *)

NewBook == [bids |-> EmptyLevels, asks |-> EmptyLevels,
            slots |-> <<>>, free |-> <<>>, index |-> [r \in {} |-> 0]]

\* The handle alloc() returns: the last one freed, or a new slot.
AllocHandle(b) ==
    IF b.free # <<>> THEN b.free[Len(b.free)] ELSE Len(b.slots) + 1

\* Mutant: alloc() reads back() and forgets pop_back().
AllocKeepsFree(b, o) ==
    IF b.free # <<>>
      THEN [b EXCEPT !.slots[AllocHandle(b)] = o]
      ELSE [b EXCEPT !.slots = Append(@, o)]

\* alloc() followed by the assignment of the order to its slot.
Alloc(b, o) ==
    IF b.free # <<>>
      THEN [b EXCEPT !.slots[AllocHandle(b)] = o,
                     !.free = SubSeq(@, 1, Len(@) - 1)]
      ELSE [b EXCEPT !.slots = Append(@, o)]

Free(b, h) == [b EXCEPT !.free = Append(@, h)]

-----------------------------------------------------------------------------
(* The operations of the book. *)

Knows(b, ref) == ref \in DOMAIN b.index
OrderOf(b, ref) == b.slots[b.index[ref]]

\* Anything that is not a buy goes to the asks.
inc_level(b, side, price, q) ==
    IF side = "B" THEN [b EXCEPT !.bids = Inc(@, price, q)]
                  ELSE [b EXCEPT !.asks = Inc(@, price, q)]

dec_level(b, side, price, q) ==
    IF side = "B" THEN [b EXCEPT !.bids = Dec(@, price, q)]
                  ELSE [b EXCEPT !.asks = Dec(@, price, q)]

\* index_[ref] = h: an entry that is already there is overwritten.
SetIndex(b, ref, h) ==
    [b EXCEPT !.index = [r \in DOMAIN @ \cup {ref} |-> IF r = ref THEN h ELSE @[r]]]

\* orders_.free(it->second); index_.erase(it).
Erase(b, ref) ==
    LET freed == Free(b, b.index[ref])
    IN  [freed EXCEPT !.index = [r \in DOMAIN @ \ {ref} |-> @[r]]]

add(b, ref, side, price, shares) ==
    IF shares = 0 THEN b
    ELSE LET o == [side |-> side, price |-> price, shares |-> shares]
         IN  inc_level(SetIndex(Alloc(b, o), ref, AllocHandle(b)),
                       side, price, shares)

\* Mutant: takes the requested quantity off the level, not what the order had.
reduce_unclamped(b, ref, qty) ==
    IF ~Knows(b, ref) THEN b
    ELSE LET o == OrderOf(b, ref)
             d == IF qty < o.shares THEN qty ELSE o.shares
             left == dec_level([b EXCEPT !.slots[b.index[ref]].shares = @ - d],
                               o.side, o.price, qty)
         IN  IF o.shares = d THEN Erase(left, ref) ELSE left

\* Mutant: an order that is fully consumed stays in the index.
reduce_keeps_empty(b, ref, qty) ==
    IF ~Knows(b, ref) THEN b
    ELSE LET o == OrderOf(b, ref)
             d == IF qty < o.shares THEN qty ELSE o.shares
             left == dec_level([b EXCEPT !.slots[b.index[ref]].shares = @ - d],
                               o.side, o.price, d)
         IN  IF o.shares = d THEN Free(left, left.index[ref]) ELSE left

reduce(b, ref, qty) ==
    IF ~Knows(b, ref) THEN b
    ELSE LET o == OrderOf(b, ref)
             d == IF qty < o.shares THEN qty ELSE o.shares
             left == dec_level([b EXCEPT !.slots[b.index[ref]].shares = @ - d],
                               o.side, o.price, d)
         IN  IF o.shares = d THEN Erase(left, ref) ELSE left

remove(b, ref) ==
    IF ~Knows(b, ref) THEN b
    ELSE LET o == OrderOf(b, ref)
         IN  Erase(dec_level(b, o.side, o.price, o.shares), ref)

\* Mutant: an unknown original is replaced all the same, by a side-less order.
replace_unknown(b, orig, new, shares, price) ==
    IF ~Knows(b, orig) THEN add(b, new, "?", price, shares)
    ELSE add(remove(b, orig), new, OrderOf(b, orig).side, price, shares)

replace(b, orig, new, shares, price) ==
    IF ~Knows(b, orig) THEN b
    ELSE add(remove(b, orig), new, OrderOf(b, orig).side, price, shares)

\* The messages of a decoded stream, by the operation apply() makes of them.
Message ==
    [type : {"add"}, ref : Ref, side : AnySide, price : Price, shares : Shares]
    \cup [type : {"reduce"}, ref : Ref, shares : Shares]
    \cup [type : {"remove"}, ref : Ref]
    \cup [type : {"replace"}, ref : Ref, new : Ref, shares : Shares, price : Price]
    \cup [type : {"other"}]

apply(b, m) ==
    CASE m.type = "add"     -> add(b, m.ref, m.side, m.price, m.shares)
      [] m.type = "reduce"  -> reduce(b, m.ref, m.shares)
      [] m.type = "remove"  -> remove(b, m.ref)
      [] m.type = "replace" -> replace(b, m.ref, m.new, m.shares, m.price)
      [] OTHER              -> b

-----------------------------------------------------------------------------
(* One book and the feed that drives it. *)

VARIABLE book

Init == book = NewBook

Add(m) == m.type = "add" /\ book' = apply(book, m)
Reduce(m) == m.type = "reduce" /\ book' = apply(book, m)
Remove(m) == m.type = "remove" /\ book' = apply(book, m)
Replace(m) == m.type = "replace" /\ book' = apply(book, m)
Ignore(m) == m.type = "other" /\ book' = apply(book, m)

Apply(m) == Add(m) \/ Reduce(m) \/ Remove(m) \/ Replace(m) \/ Ignore(m)

LevelsOf(side) == IF side = "B" THEN book.bids ELSE book.asks

\* The shares that replacing order r takes off price p.
TakenOff(b, r, p) == IF OrderOf(b, r).price = p THEN OrderOf(b, r).shares ELSE 0

\* What an exchange feed promises: an order reference number is not given to a
\* second order while the first one rests, a side is B or S, and the total of a
\* level fits in 32 bits.
Conforms(m) ==
    /\ m.type = "add" =>
        /\ ~Knows(book, m.ref)
        /\ m.side \in Side
        /\ At(LevelsOf(m.side), m.price) + m.shares < QtyMod
    /\ m.type = "replace" /\ Knows(book, m.ref) =>
        /\ ~Knows(book, m.new) \/ m.new = m.ref
        /\ At(LevelsOf(OrderOf(book, m.ref).side), m.price) + m.shares
                < QtyMod + TakenOff(book, m.ref, m.price)

\* A conforming feed, and any sequence of messages the decoder may produce.
Next == \E m \in Message : Conforms(m) /\ Apply(m)
AnyNext == \E m \in Message : Apply(m) /\ Len(book'.slots) <= MaxSlots

Spec == Init /\ [][Next]_book
AnySpec == Init /\ [][AnyNext]_book

-----------------------------------------------------------------------------
(* Properties *)

Handle == 1 .. Len(book.slots)
InUse == {book.index[r] : r \in DOMAIN book.index}

\* Every part of the book has its type.
TypeOK ==
    /\ DOMAIN book.bids \subseteq Price /\ DOMAIN book.asks \subseteq Price
    /\ \A p \in DOMAIN book.bids : book.bids[p] \in 0 .. QtyMod - 1
    /\ \A p \in DOMAIN book.asks : book.asks[p] \in 0 .. QtyMod - 1
    /\ book.slots \in Seq(Order)
    /\ book.free \in Seq(Handle)
    /\ DOMAIN book.index \subseteq Ref /\ InUse \subseteq Handle

\* Whatever messages arrive, no two references share a pool slot, no slot in
\* use is on the free list, and no slot is on it twice: alloc() never hands out
\* an order that is still referenced, and index_ never dangles.
NoAliasing ==
    /\ \A r, s \in DOMAIN book.index : book.index[r] = book.index[s] => r = s
    /\ \A i \in 1 .. Len(book.free) : book.free[i] \notin InUse
    /\ \A i, j \in 1 .. Len(book.free) : book.free[i] = book.free[j] => i = j

\* With a conforming feed no slot leaks: live() is order_count().
NoLeak == Len(book.slots) - Len(book.free) = Cardinality(DOMAIN book.index)

\* The orders of one side, and their total per price in Qty arithmetic.
OnSide(side) == {r \in DOMAIN book.index : OrderOf(book, r).side = side}

Rebuilt(side) ==
    LET shares == [r \in DOMAIN book.index |-> OrderOf(book, r).shares]
    IN  [p \in {OrderOf(book, r).price : r \in OnSide(side)} |->
            SumFunctionOnSet(shares, {r \in OnSide(side) : OrderOf(book, r).price = p})
                % QtyMod]

Agrees(rebuilt, levels) ==
    /\ Cardinality(DOMAIN rebuilt) = Cardinality(DOMAIN levels)
    /\ \A p \in DOMAIN rebuilt : At(levels, p) = rebuilt[p]

\* invariant_ok() itself: with a conforming feed the incrementally maintained
\* totals are the ones recomputed from the orders, and no resting order is
\* empty or without a side.
invariant_ok ==
    /\ \A r \in DOMAIN book.index :
        OrderOf(book, r).shares # 0 /\ OrderOf(book, r).side \in Side
    /\ Agrees(Rebuilt("B"), book.bids)
    /\ Agrees(Rebuilt("S"), book.asks)

\* The book implements the reference book: the pool and the index are invisible,
\* a message changes the orders it names and no other, and the levels are always
\* the totals of the resting orders.
Reference == INSTANCE ReferenceBook WITH
                 orders <- [r \in DOMAIN book.index |-> OrderOf(book, r)],
                 bids <- book.bids, asks <- book.asks

ImplementsReference == Reference!Spec
=============================================================================
