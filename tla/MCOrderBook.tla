---------------------------- MODULE MCOrderBook -----------------------------
(* Bounds for OrderBook.  The book only compares order references for
   equality, so they are interchangeable. *)
EXTENDS OrderBook, TLC

Symmetry == Permutations(Ref)
=============================================================================
