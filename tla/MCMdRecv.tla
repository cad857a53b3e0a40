------------------------------ MODULE MCMdRecv ------------------------------
(* Bounds for MdRecv: ten messages with references that are
   never reused, as ITCH promises for a trading day. *)
EXTENDS MdRecv

MCScript == <<
    [type |-> "add", ref |-> 1, side |-> "B", price |-> 10, shares |-> 2],
    [type |-> "add", ref |-> 2, side |-> "S", price |-> 11, shares |-> 1],
    [type |-> "reduce", ref |-> 1, shares |-> 1],
    [type |-> "replace", ref |-> 1, new |-> 3, shares |-> 2, price |-> 11],
    [type |-> "other"],
    [type |-> "remove", ref |-> 3],
    [type |-> "add", ref |-> 4, side |-> "S", price |-> 10, shares |-> 2],
    [type |-> "remove", ref |-> 2],
    [type |-> "reduce", ref |-> 4, shares |-> 1],
    [type |-> "replace", ref |-> 4, new |-> 5, shares |-> 1, price |-> 11] >>

\* The third datagram loses two of its three blocks, and none is cut.
MCFits == <<3, 3, 1, 1>>
MCFitsAll == <<3, 3, 3, 1>>

ASSUME MCScriptAssumption == ConformingScript
=============================================================================
