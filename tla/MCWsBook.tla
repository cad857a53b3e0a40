------------------------------ MODULE MCWsBook ------------------------------
(* Bounds for WsBook: a stream of make_synthetic_multi, two directory messages and
   three orders, and snapshots whose lengths need the 16-bit and the 64-bit field. *)
EXTENDS WsBook

MCData == [i \in 1 .. 5 |-> [locate |-> IF i \in {2, 4} THEN 2 ELSE 1,
                             kind   |-> IF i <= 2 THEN "directory" ELSE "order"]]
MCPayloadLen == <<126, 65536>>
=============================================================================
