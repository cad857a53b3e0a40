----------------------------- MODULE MCSpscRing -----------------------------
(* Bounds for SpscRing: two slots, 2-bit counters that wrap, and a third
   thread that only calls size_approx. *)
EXTENDS SpscRing

MCSides == {Producer, Consumer}
MCThreads == MCSides \cup {"observer"}

\* push and pop never look at an item, so pushing distinct ones is the most
\* demanding input: the n-th item is n.
Numbered ==
    /\ item # NoItem => item = Len(pushed) + 1
    /\ \A i \in 1 .. Len(pushed) : pushed[i] = i
=============================================================================
