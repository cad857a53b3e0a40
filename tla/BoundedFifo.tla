----------------------------- MODULE BoundedFifo -----------------------------
(***************************************************************************)
(* What a single-producer single-consumer ring promises: a FIFO queue of   *)
(* at most Cap items, of which Put appends one and Get delivers the oldest *)
(* one.  got is everything delivered so far.                               *)
(***************************************************************************)
EXTENDS Naturals, Sequences

CONSTANTS Item, Cap

VARIABLES q, got

vars == <<q, got>>

Init == q = <<>> /\ got = <<>>

Put(x) ==
    /\ Len(q) < Cap
    /\ q' = Append(q, x)
    /\ UNCHANGED got

Get ==
    /\ q # <<>>
    /\ got' = Append(got, Head(q))
    /\ q' = Tail(q)

Next == Get \/ \E x \in Item : Put(x)

Spec == Init /\ [][Next]_vars
=============================================================================
