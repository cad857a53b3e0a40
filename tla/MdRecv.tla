------------------------------- MODULE MdRecv -------------------------------
(***************************************************************************)
(* The receiver of apps/mdrecv.cpp end to end: MoldSession calls back into *)
(* the order book of the (single) symbol for every message it decodes.     *)
(* Script gives the messages of the session by sequence number; a lost     *)
(* datagram leaves holes in what the book is told, and the book must cope. *)
(***************************************************************************)
EXTENDS MoldUdp64, Sequences, Functions

CONSTANTS Ref, Price, MaxShares, MaxSlots, QtyMod, Script

VARIABLE book

B == INSTANCE OrderBook

ASSUME BookAssumption ==
    /\ Price \subseteq Int /\ MaxSlots \in Nat
    /\ QtyMod \in Nat /\ MaxShares \in Nat /\ MaxShares < QtyMod
ASSUME ScriptAssumption ==
    Len(Script) = NumMsg /\ \A s \in 1 .. NumMsg : Script[s] \in B!Message

\* Message s of the session, as the loop of on_packet treats it.
Take(b, s) == IF s \in Undecodable THEN b ELSE B!apply(b, Script[s])

\* The sink of on_packet: book.apply(m) for one message of the datagram after the other.
ApplyAll(k) ==
    LET after[i \in 0 .. BlocksOf(k)] ==
            IF i = 0 THEN book ELSE Take(after[i - 1], SeqOf(k) + i - 1)
    IN  after[BlocksOf(k)]

RecvInit == Init /\ book = B!NewBook

RecvDatagram(k) ==
    /\ Receive(k)
    /\ book' = IF k = EndOfSession THEN book ELSE ApplyAll(k)

RecvNext ==
    \/ Send /\ UNCHANGED book
    \/ \E k \in Packet : RecvDatagram(k)
    \/ IdleTimeout /\ UNCHANGED book

recvVars == <<moldVars, book>>

RecvSpec == RecvInit /\ [][RecvNext]_recvVars

-----------------------------------------------------------------------------
(* What the messages of a session promise. *)

Introduces(m) ==
    IF m.type = "add" THEN {m.ref} ELSE IF m.type = "replace" THEN {m.new} ELSE {}

Brings(m) == IF m.type \in {"add", "replace"} THEN m.shares ELSE 0

\* No reference number is given out twice, orders have a side, and all the shares of
\* the session together fit in a Qty: a level whose deletes are lost only grows.
ConformingScript ==
    /\ \A s \in 1 .. NumMsg : Script[s].type = "add" => Script[s].side \in B!Side
    /\ \A s, t \in 1 .. NumMsg :
          s # t => Introduces(Script[s]) \cap Introduces(Script[t]) = {}
    /\ SumFunctionOnSet([s \in 1 .. NumMsg |-> Brings(Script[s])], 1 .. NumMsg) < QtyMod

-----------------------------------------------------------------------------
(* Properties *)

\* Whatever is lost or comes late, the book that mdrecv reports is internally
\* consistent: a message about an order whose add was lost is ignored, never half
\* applied.
BookConsistent == B!invariant_ok

\* If no gap is reported and nothing came late or twice, the book is the one a
\* lossless replay builds from the first message received on: a session joined late
\* lacks what was sent before, and nothing else.
NoGapMeansSameBook ==
    started /\ inorder /\ gaps = 0 =>
        LET exact[n \in first - 1 .. NumMsg] ==
                IF n = first - 1 THEN B!NewBook ELSE Take(exact[n - 1], n)
        IN  book = exact[expected - 1]
=============================================================================
