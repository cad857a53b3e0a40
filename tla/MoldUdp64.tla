----------------------------- MODULE MoldUdp64 -----------------------------
(***************************************************************************)
(* The MoldUDP64 transport (include/feed/moldudp64.hpp): a framed stream   *)
(* of NumMsg messages is cut into datagrams of up to PerPacket messages    *)
(* (packetize_mold), a UDP network loses, reorders and, if Copies > 1,     *)
(* duplicates them, and the receive loop of apps/mdrecv.cpp hands what     *)
(* arrives to MoldSession::on_packet until the end of the session or an    *)
(* idle timeout.                                                           *)
(*                                                                         *)
(* A message is its sequence number.  Datagram number EndOfSession is the  *)
(* one whose count is kMoldEndOfSession.                                   *)
(***************************************************************************)
EXTENDS Integers, FiniteSets

CONSTANTS
    NumMsg,          \* messages of the session
    PerPacket,       \* msgs_per_packet
    Fits,            \* Fits[k]: blocks of datagram k that fit the receive buffer
    Undecodable,     \* sequence numbers of the messages decode() rejects
    Copies           \* bound on the copies the network makes of a datagram

ASSUME StreamAssumption ==
    /\ NumMsg \in Nat /\ PerPacket \in Nat \ {0}
    /\ Undecodable \subseteq 1 .. NumMsg
ASSUME NetAssumption == Copies \in Nat \ {0}

Min2(a, b) == IF a < b THEN a ELSE b

-----------------------------------------------------------------------------
(* packetize_mold: datagram number k of the stream. *)

EndOfSession == (NumMsg + PerPacket - 1) \div PerPacket + 1
Packet == 1 .. EndOfSession

SeqOf(k) == (k - 1) * PerPacket + 1

CountOf(k) == Min2(PerPacket, NumMsg - (k - 1) * PerPacket)

ASSUME FitsAssumption == Fits \in [1 .. EndOfSession - 1 -> Nat]

\* The blocks recv() and the bounds checks of on_packet let through: a datagram
\* that is longer than the buffer loses as many as do not fit, possibly all.  One
\* without a block has the effect of a count of 0, a heartbeat.
BlocksOf(k) == Min2(CountOf(k), Fits[k])

\* Their sequence numbers.
Blocks(k) == SeqOf(k) .. SeqOf(k) + BlocksOf(k) - 1

VARIABLES
    sent,        \* number of datagrams sent so far
    net,         \* net[k]: copies of datagram k in flight
    expected, gaps, packets, messages, started, ended,     \* MoldSession
    first,       \* history: the first sequence number received, 0 if none
    arrived,     \* history: the sequence numbers that reached the session
    inorder,     \* history: whether no datagram came late or a second time
    receiving    \* whether mdrecv is still in its loop

session == <<expected, gaps, packets, messages, started, ended,
             first, arrived, inorder>>
moldVars == <<sent, net, session, receiving>>

-----------------------------------------------------------------------------
(* The network.  A datagram too short for its header is dropped before it   *)
(* changes anything: it is one of the lost.                                  *)

Send ==
    /\ sent < EndOfSession
    /\ sent' = sent + 1
    /\ \E n \in 0 .. Copies : net' = [net EXCEPT ![sent + 1] = n]
    /\ UNCHANGED <<session, receiving>>

InFlight == {k \in Packet : net[k] > 0}

-----------------------------------------------------------------------------
(* MoldSession::on_packet, for a datagram that carries messages.            *)

\* The messages of datagram k that reach sink().
Delivered(k) == Blocks(k) \ Undecodable

\* Mutant: counts one gap per jump, not the messages jumped over.
MissedJumps(seq) == IF started /\ seq > expected THEN 1 ELSE 0

Missed(seq) == IF started /\ seq > expected THEN seq - expected ELSE 0

\* Mutant: advances by the header's count, cut or not.
NextExpectedCount(k) == SeqOf(k) + CountOf(k)

NextExpected(k) == SeqOf(k) + BlocksOf(k)

OnMessages(k) ==
    /\ packets' = packets + 1
    /\ gaps' = gaps + Missed(SeqOf(k))
    /\ started' = TRUE
    /\ messages' = messages + Cardinality(Delivered(k))
    /\ expected' = NextExpected(k)
    /\ first' = IF started THEN first ELSE SeqOf(k)
    /\ arrived' = arrived \cup Blocks(k)
    /\ inorder' = IF started /\ SeqOf(k) < expected THEN FALSE ELSE inorder
    /\ UNCHANGED <<ended, receiving>>

\* The end of the session, which also ends the loop of mdrecv.
OnEnd ==
    /\ packets' = packets + 1
    /\ ended' = TRUE
    /\ receiving' = FALSE
    /\ UNCHANGED <<expected, gaps, messages, started, first, arrived, inorder>>

Receive(k) ==
    /\ receiving
    /\ k \in InFlight
    /\ net' = [net EXCEPT ![k] = @ - 1]
    /\ IF k = EndOfSession THEN OnEnd ELSE OnMessages(k)
    /\ UNCHANGED sent

\* rx.recv() times out: nothing arrived for the idle time.
IdleTimeout ==
    /\ receiving
    /\ receiving' = FALSE
    /\ UNCHANGED <<sent, net, session>>

-----------------------------------------------------------------------------

MoldInit ==
    /\ sent = 0
    /\ net = [k \in Packet |-> 0]
    /\ expected = 0 /\ gaps = 0 /\ packets = 0 /\ messages = 0
    /\ started = FALSE /\ ended = FALSE
    /\ first = 0 /\ arrived = {} /\ inorder = TRUE
    /\ receiving = TRUE

Init == MoldInit

Next == Send \/ (\E k \in Packet : Receive(k)) \/ IdleTimeout

Spec == Init /\ [][Next]_moldVars

-----------------------------------------------------------------------------
(* Properties *)

\* While what arrives is in order and not doubled, gaps_ is exact: it is the
\* number of messages, from the first datagram received to the last one, that
\* did not arrive, those cut off a truncated datagram included.
GapsExact ==
    started /\ inorder => gaps = Cardinality((first .. expected - 1) \ arrived)

=============================================================================
