------------------------------ MODULE LevelMap ------------------------------
(***************************************************************************)
(* MapLevels (include/core/flat_levels.hpp): the price levels of one side  *)
(* of a book as a std::map from price to total quantity.  A level store is *)
(* a function whose domain is the set of prices that have a level.         *)
(* Quantities are unsigned 32-bit integers in the code: QtyMod is 2^32.    *)
(***************************************************************************)
EXTENDS Integers, FiniteSets, Sequences

CONSTANT QtyMod

ASSUME QtyModAssumption == QtyMod \in Nat /\ QtyMod > 0

EmptyLevels == [p \in {} |-> 0]

At(levels, p) == IF p \in DOMAIN levels THEN levels[p] ELSE 0

Inc(levels, p, q) ==
    [x \in DOMAIN levels \cup {p} |->
        IF x = p THEN (At(levels, p) + q) % QtyMod ELSE levels[x]]

\* Mutant: a level that has become empty stays in the map.
DecKeepsEmpty(levels, p, q) ==
    [x \in DOMAIN levels |-> IF x = p THEN (levels[p] - q) % QtyMod ELSE levels[x]]

\* A level that becomes empty is erased; a missing level is left alone.
Dec(levels, p, q) ==
    LET left == (At(levels, p) - q) % QtyMod
    IN  IF p \in DOMAIN levels /\ left = 0
          THEN [x \in DOMAIN levels \ {p} |-> levels[x]]
          ELSE [x \in DOMAIN levels |-> IF x = p THEN left ELSE levels[x]]

\* std::greater orders the bids, std::less the asks: the better price is first.
Better(side, p, r) == IF side = "B" THEN p > r ELSE p < r

\* The first of a non-empty set of prices in Compare order: m_.begin().
First(side, prices) == CHOOSE p \in prices : \A r \in prices : ~Better(side, r, p)

\* What best() returns when there is no level.
NoLevel == <<>>

Best(side, levels) ==
    IF DOMAIN levels = {} THEN NoLevel
    ELSE LET p == First(side, DOMAIN levels) IN <<p, levels[p]>>

Size(levels) == Cardinality(DOMAIN levels)

\* The i-th price in Compare order has i - 1 better ones.
Ith(side, prices, i) ==
    CHOOSE p \in prices : Cardinality({r \in prices : Better(side, r, p)}) = i - 1

Top(side, levels, n) ==
    LET len == IF Size(levels) < n THEN Size(levels) ELSE n
        price(i) == Ith(side, DOMAIN levels, i)
    IN  [i \in 1..len |-> <<price(i), levels[price(i)]>>]
=============================================================================
