------------------------------- MODULE AcqRel -------------------------------
(***************************************************************************)
(* The fragment of the C++ memory model that the lock-free code of the     *)
(* repository relies on: std::atomic objects with one writer each, stored  *)
(* with memory_order_release or memory_order_relaxed and loaded with       *)
(* memory_order_acquire or memory_order_relaxed, and the happens-before    *)
(* relation these operations induce.                                       *)
(*                                                                         *)
(* Every atomic object l has a modification order: its initial value is    *)
(* number 0, the n-th store to it is number n, and mem[l] is the sequence  *)
(* of the views its stores published.  A view says, for every location,    *)
(* how many of its operations happen before a point of the program.  A     *)
(* load may return any store that is not older than what the thread        *)
(* already knows of (coherence), so a load may be stale; an acquire load   *)
(* of a release store joins the view the store published into the view of  *)
(* the loading thread (synchronizes-with), a relaxed one does not.         *)
(*                                                                         *)
(* A location need not be an atomic object: the plain accesses of one      *)
(* thread to one array are counted by a location of their own, so that     *)
(* "the n-th plain write happens before this point" is view[t][l] >= n.    *)
(***************************************************************************)
EXTENDS Naturals, Sequences

CONSTANTS
    Thread,      \* the threads of the program
    Location     \* the atomic objects and the counted plain accesses

VARIABLES
    mem,         \* mem[l]: the views published by the stores to l, in order
    view         \* view[t]: what happens before the current point of t

View == [Location -> Nat]

ZeroView == [l \in Location |-> 0]

Join(v, w) == [l \in Location |-> IF v[l] >= w[l] THEN v[l] ELSE w[l]]

\* The number of the most recent store to l in its modification order.
Latest(l) == Len(mem[l])

\* The stores a load of l by t may return: none that coherence rules out.
Visible(t, l) == view[t][l] .. Latest(l)

\* The view published by store number i of l; the initialisation publishes none.
Published(l, i) == IF i = 0 THEN ZeroView ELSE mem[l][i]

\* The view of t after it loaded store number i of l.
AfterLoad(t, l, i, order) ==
    LET seen == [view[t] EXCEPT ![l] = i]
    IN  IF order = "acquire" THEN Join(seen, Published(l, i)) ELSE seen

\* The next store of t to l: t itself always knows of it; others learn what t
\* knew only if the store is a release.
Store(t, l, order) ==
    LET own == [view[t] EXCEPT ![l] = Latest(l) + 1]
    IN  /\ view' = [view EXCEPT ![t] = own]
        /\ mem' = [mem EXCEPT ![l] = Append(@, IF order = "release"
                                                 THEN own ELSE ZeroView)]

\* A plain access of t, counted by location l.
Access(t, l) == view' = [view EXCEPT ![t][l] = @ + 1]

MemTypeOK ==
    /\ mem \in [Location -> Seq(View)]
    /\ view \in [Thread -> View]

MemInit ==
    /\ mem = [l \in Location |-> <<>>]
    /\ view = [t \in Thread |-> ZeroView]
=============================================================================
