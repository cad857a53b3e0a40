------------------------------- MODULE Replay -------------------------------
(***************************************************************************)
(* replay_single_threaded (include/feed/pipeline.hpp): the reference path. *)
(* Every message of the framed stream is applied to the book on the        *)
(* calling thread, in stream order, and then the call returns.             *)
(***************************************************************************)
EXTENDS Naturals, Sequences

CONSTANT Input       \* the decoded messages of the stream, in order

VARIABLES applied,   \* the messages applied to the book so far
          returned   \* whether the call has returned

vars == <<applied, returned>>

Init == applied = <<>> /\ returned = FALSE

Apply ==
    /\ Len(applied) < Len(Input)
    /\ applied' = Append(applied, Input[Len(applied) + 1])
    /\ UNCHANGED returned

Return ==
    /\ ~returned
    /\ applied = Input
    /\ returned' = TRUE
    /\ UNCHANGED applied

Next == Apply \/ Return

Spec == Init /\ [][Next]_vars /\ WF_vars(Next)
=============================================================================
