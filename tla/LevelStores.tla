---------------------------- MODULE LevelStores -----------------------------
(***************************************************************************)
(* The three level stores a BasicOrderBook can be built on, MapLevels (m), *)
(* FlatLevels (v) and WindowedLevels (w), given the same calls.  They are  *)
(* meant to be interchangeable: README.md calls them parity-tested,        *)
(* "map == flat == windowed".                                              *)
(***************************************************************************)
EXTENDS FlatLevels, WindowedLevels

CONSTANTS Prices,     \* the prices of the calls
          MaxQty      \* bound: the largest quantity of a call

ASSUME StoresAssumption ==
    Prices \subseteq Nat /\ IsFiniteSet(Prices) /\ MaxQty \in Nat /\ MaxQty < QtyMod

VARIABLES side, m, v, w

vars == <<side, m, v, w>>

Init == /\ side \in {"B", "S"}
        /\ m = EmptyLevels
        /\ v = <<>>
        /\ w = NewWindowed

inc(p, q) == /\ m' = Inc(m, p, q)
             /\ v' = FlatInc(side, v, p, q)
             /\ w' = WindowedInc(side, w, p, q)
             /\ UNCHANGED side

dec(p, q) == /\ m' = Dec(m, p, q)
             /\ v' = FlatDec(side, v, p, q)
             /\ w' = WindowedDec(side, w, p, q)
             /\ UNCHANGED side

\* add drops an order of 0 shares, so an insertion has some.
Inserted == 1 .. MaxQty

\* What the feed promises, and the code relies on: no insertion brings a total to
\* exactly 2^32.  It would wrap to 0, which WindowedLevels takes for an empty slot
\* and the other two keep as a level.  Totals may wrap past 0.
Regular(p, q) == (At(m, p) + q) % QtyMod # 0

Next == \/ \E p \in Prices, q \in Inserted : Regular(p, q) /\ inc(p, q)
        \/ \E p \in Prices, q \in 0 .. MaxQty : dec(p, q)

Spec == Init /\ [][Next]_vars

-----------------------------------------------------------------------------
\* at() of the three stores agrees at every price, and so does size(): no level
\* is lost, doubled or left behind by a spill, a re-centring or an erased slot.
SameLevels ==
    /\ \A p \in Prices : FlatAt(side, v, p) = At(m, p) /\ WindowedAt(w, p) = At(m, p)
    /\ Len(v) = Size(m) /\ WindowedSize(w) = Size(m)

\* best() of the three stores agrees: the sorted vector's front and the tracked
\* best_idx_ are the map's first level.
SameBest == FlatBest(v) = Best(side, m) /\ WindowedBest(side, w) = Best(side, m)

\* top(n) of the three stores agrees for every n: WindowedLevels' merge of window
\* and overflow comes out in Compare order and stops at the right place.
SameTop ==
    \A n \in 0 .. Cardinality(Prices) + 1 :
        FlatTop(v, n) = Top(side, m, n) /\ WindowedTop(side, w, n) = Top(side, m, n)

\* best_idx_ is the best filled slot, which is why the full scan of rescan_best
\* is a safety net that "shouldn't trigger"; count_ counts the filled slots; and
\* a price is never both in the window and in the overflow.
WindowSound ==
    /\ w.count = Cardinality(Filled(w))
    /\ w.count > 0 => w.best_idx = First(side, Filled(w))
    /\ \A p \in DOMAIN w.overflow : ~in_window(w, p) /\ w.overflow[p] # 0
=============================================================================
