----------------------------- MODULE MCPipeline -----------------------------
(* Bounds for Pipeline: five messages through two slots and 2-bit counters. *)
EXTENDS Pipeline

CONSTANTS a, b

MCThread == {Producer, Consumer}
MCItem == {a, b}
MCInput == <<a, b, b, a, b>>
=============================================================================
