--------------------------- MODULE WindowedLevels ---------------------------
(***************************************************************************)
(* WindowedLevels (include/core/windowed_levels.hpp): the price levels of  *)
(* one side of a book as an array of kWindow consecutive ticks around the  *)
(* inside, and a std::map for the levels outside that window.  A store is  *)
(* a record w of the class's data members; w.slots is empty until the      *)
(* first insertion.  Prices are non-negative (the decoder reads 32 bits).  *)
(***************************************************************************)
EXTENDS LevelMap, FiniteSetsExt

CONSTANT KWindow

ASSUME KWindowAssumption == KWindow \in Nat /\ KWindow > 0

NewWindowed == [slots |-> <<>>, overflow |-> EmptyLevels, base |-> 0,
                best_idx |-> 0, count |-> 0, has_base |-> FALSE]

in_window(w, p) == w.has_base /\ p >= w.base /\ p - w.base < KWindow

window_best_price(w) == w.base + w.best_idx

\* The indices of the slots that are not 0.
Filled(w) == {i \in DOMAIN w.slots : w.slots[i] # 0}

\* The overflow's best level is better than the window's, or the only one.
OverflowIsInside(side, w) ==
    /\ DOMAIN w.overflow # {}
    /\ \/ w.count = 0
       \/ Better(side, First(side, DOMAIN w.overflow), window_best_price(w))

best_price(side, w) ==
    IF OverflowIsInside(side, w) THEN First(side, DOMAIN w.overflow)
    ELSE window_best_price(w)

\* Mutant: best_idx_ only follows the first level of an empty window.
place_keeps_best(side, w, p, q) ==
    LET idx == p - w.base
    IN  [w EXCEPT !.slots[idx] = (@ + q) % QtyMod,
                  !.best_idx   = IF w.count = 0 THEN idx ELSE @,
                  !.count      = IF w.slots[idx] = 0 THEN @ + 1 ELSE @]

place_in_window(side, w, p, q) ==
    LET idx       == p - w.base
        was_empty == w.slots[idx] = 0
        new_best  == w.count = 0 \/ Better(side, p, window_best_price(w))
    IN  [w EXCEPT !.slots[idx] = (@ + q) % QtyMod,
                  !.best_idx   = IF was_empty /\ new_best THEN idx ELSE @,
                  !.count      = IF was_empty THEN @ + 1 ELSE @]

\* The slots next_window_idx can reach from i: the filled ones on the worse side.
Worse(side, w, i) == {j \in Filled(w) : Better(side, i, j)}

\* Mutant: the walk goes to the far end of the window.
next_window_idx_last(side, w, i) == CHOOSE j \in Worse(side, w, i) :
                                        \A k \in Worse(side, w, i) : ~Better(side, j, k)

next_window_idx(side, w, i) == First(side, Worse(side, w, i))

\* The index rescan_best leaves: the next filled slot on the worse side, or
\* else the result of the full scan, its safety net.
rescan_best(side, w) ==
    IF w.count = 0 THEN 0
    ELSE IF Worse(side, w, w.best_idx) # {} THEN next_window_idx(side, w, w.best_idx)
    ELSE IF Filled(w) # {} THEN First(side, Filled(w))
    ELSE w.best_idx

\* Every level, of the window and of the overflow, by price.
AllLevels(w) ==
    LET inside == {w.base + i : i \in Filled(w)}
    IN  [p \in inside \cup DOMAIN w.overflow |->
            IF p \in inside THEN w.slots[p - w.base] ELSE w.overflow[p]]

\* Mutant: the overflow is cleared and not re-bucketed.
recenter_drops_overflow(side, w, center) ==
    LET base  == IF center < KWindow \div 2 THEN 0 ELSE center - KWindow \div 2
        all   == AllLevels(w)
        kept  == {p \in DOMAIN all : p >= base /\ p - base < KWindow}
    IN  [slots    |-> [i \in 0 .. KWindow - 1 |-> At(all, base + i)],
         overflow |-> EmptyLevels,
         base     |-> base,
         best_idx |-> IF kept = {} THEN 0 ELSE First(side, kept) - base,
         count    |-> Cardinality(kept),
         has_base |-> TRUE]

\* Re-base the window on center and re-bucket every level.
recenter_to(side, w, center) ==
    LET base  == IF center < KWindow \div 2 THEN 0 ELSE center - KWindow \div 2
        all   == AllLevels(w)
        kept  == {p \in DOMAIN all : p >= base /\ p - base < KWindow}
    IN  [slots    |-> [i \in 0 .. KWindow - 1 |-> At(all, base + i)],
         overflow |-> [p \in DOMAIN all \ kept |-> all[p]],
         base     |-> base,
         best_idx |-> IF kept = {} THEN 0 ELSE First(side, kept) - base,
         count    |-> Cardinality(kept),
         has_base |-> TRUE]

\* A new inside outside the window, or the very first level.
NeedsRecenter(side, w, p) ==
    \/ ~w.has_base
    \/ /\ ~in_window(w, p)
       /\ \/ w.count = 0 /\ DOMAIN w.overflow = {}
          \/ Better(side, p, best_price(side, w))

WindowedInc(side, w, p, q) ==
    IF q = 0 THEN w
    ELSE IF NeedsRecenter(side, w, p)
      THEN place_in_window(side, recenter_to(side, w, p), p, q)
    ELSE IF in_window(w, p) THEN place_in_window(side, w, p, q)
    ELSE [w EXCEPT !.overflow = Inc(@, p, q)]

\* Mutant: best_idx_ is left at the slot that became 0.
ClearSlotNoRescan(side, w, idx) == [w EXCEPT !.slots[idx] = 0, !.count = @ - 1]

\* A slot that becomes 0 leaves the window; the inside is then looked for again.
ClearSlot(side, w, idx) ==
    LET cleared == [w EXCEPT !.slots[idx] = 0, !.count = @ - 1]
    IN  [cleared EXCEPT !.best_idx =
            IF idx = @ THEN rescan_best(side, cleared) ELSE @]

WindowedDec(side, w, p, q) ==
    LET idx  == p - w.base
        left == (w.slots[idx] - q) % QtyMod
    IN  IF ~in_window(w, p) THEN [w EXCEPT !.overflow = Dec(@, p, q)]
        ELSE IF w.slots[idx] = 0 THEN w
        ELSE IF left = 0 THEN ClearSlot(side, w, idx)
        ELSE [w EXCEPT !.slots[idx] = left]

WindowedAt(w, p) == IF in_window(w, p) THEN w.slots[p - w.base] ELSE At(w.overflow, p)

WindowedSize(w) == w.count + Size(w.overflow)

WindowedBest(side, w) ==
    IF WindowedSize(w) = 0 THEN NoLevel
    ELSE IF OverflowIsInside(side, w) THEN Best(side, w.overflow)
    ELSE <<window_best_price(w), w.slots[w.best_idx]>>

\* top's merge: the state of its loop after k iterations.  of is the part of the
\* overflow not yet emitted, wi the window's cursor.
TakeWindow(side, w, s) ==
    s.w_valid /\ (s.of = {} \/ ~Better(side, First(side, s.of), w.base + s.wi))

MergeStep(side, w, s) ==
    IF TakeWindow(side, w, s)
      THEN LET more == Worse(side, w, s.wi) # {}
           IN  [s EXCEPT !.out     = Append(@, <<w.base + s.wi, w.slots[s.wi]>>),
                         !.w_valid = more,
                         !.wi      = IF more THEN next_window_idx(side, w, @) ELSE @]
    ELSE IF s.of # {}
      THEN LET p == First(side, s.of)
           IN  [s EXCEPT !.out = Append(@, <<p, w.overflow[p]>>), !.of = @ \ {p}]
    ELSE s

WindowedTop(side, w, n) ==
    LET merge[k \in 0 .. n] ==
            IF k = 0 THEN [out |-> <<>>, wi |-> w.best_idx, w_valid |-> w.count > 0,
                           of |-> DOMAIN w.overflow]
            ELSE MergeStep(side, w, merge[k - 1])
    IN  merge[n].out
=============================================================================
