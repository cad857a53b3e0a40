----------------------------- MODULE FlatLevels -----------------------------
(***************************************************************************)
(* FlatLevels (include/core/flat_levels.hpp): the price levels of one side *)
(* of a book as a std::vector of <<price, quantity>> pairs, kept in Compare *)
(* order so that the best level is at the front.                           *)
(***************************************************************************)
EXTENDS LevelMap, SequencesExt

\* std::lower_bound: the first position whose price is not better than p.
Find(side, v, p) ==
    CHOOSE i \in 1 .. Len(v) + 1 :
        /\ i <= Len(v) => ~Better(side, v[i][1], p)
        /\ \A j \in 1 .. i - 1 : Better(side, v[j][1], p)

Holds(v, i, p) == i <= Len(v) /\ v[i][1] = p

FlatInc(side, v, p, q) ==
    LET i == Find(side, v, p)
    IN  IF Holds(v, i, p) THEN [v EXCEPT ![i] = <<p, (@[2] + q) % QtyMod>>]
        ELSE InsertAt(v, i, <<p, q>>)

FlatDec(side, v, p, q) ==
    LET i    == Find(side, v, p)
        left == (v[i][2] - q) % QtyMod
    IN  IF ~Holds(v, i, p) THEN v
        ELSE IF left = 0 THEN RemoveAt(v, i)
        ELSE [v EXCEPT ![i] = <<p, left>>]

FlatAt(side, v, p) ==
    LET i == Find(side, v, p) IN IF Holds(v, i, p) THEN v[i][2] ELSE 0

FlatBest(v) == IF v = <<>> THEN NoLevel ELSE v[1]

FlatTop(v, n) == SubSeq(v, 1, IF Len(v) < n THEN Len(v) ELSE n)
=============================================================================
