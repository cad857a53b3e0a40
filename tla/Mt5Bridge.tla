----------------------------- MODULE Mt5Bridge ------------------------------
(***************************************************************************)
(* The MetaTrader 5 bridge: the Expert Advisor mt5/ITCHBridge.mq5 (the EA), *)
(* a single-threaded client driven by tick and timer events, and the       *)
(* server mt5d with run_bridge (include/mt5/server.hpp) and                *)
(* ExampleStrategy, joined by TCP connections that carry lines.            *)
(*                                                                         *)
(* A line is a message; those towards the EA travel as two fragments, the  *)
(* second with the line's end, since RecvLine may find only a part of a    *)
(* line.  A tick is its mid price.  An order is named by the connection    *)
(* it was sent on and its id.                                              *)
(***************************************************************************)
EXTENDS Integers, Sequences, FiniteSets

CONSTANTS Mids,        \* mid prices of the ticks
          Step,        \* the strategy's step_
          MaxIdle,     \* max_idle_intervals
          MaxConns,    \* bound: connections the EA opens
          MaxTicks,    \* bound: ticks the EA streams
          MaxBeats     \* bound: heartbeats the EA sends

ASSUME BridgeAssumption ==
    /\ Mids \subseteq Int
    /\ Step \in Nat \ {0} /\ MaxIdle \in Nat \ {0}
    /\ MaxConns \in Nat /\ MaxTicks \in Nat /\ MaxBeats \in Nat

VARIABLES
    conns,   \* the TCP connections, in the order the EA opened them
    ea,      \* the EA: its state, socket, receive buffer and counters
    srv,     \* mt5d: the connection it serves and run_bridge's locals
    fills    \* history: the orders the EA executed, and on which connection

vars == <<conns, ea, srv, fills>>

Msg(kind)      == [kind |-> kind]
Tick(mid)      == [kind |-> "tick", mid |-> mid]
Order(c, id)   == [kind |-> "order", conn |-> c, id |-> id]
Ack(id)        == [kind |-> "ack", id |-> id]

Fragment(part, m) == [part |-> part, msg |-> m]
-----------------------------------------------------------------------------
(* TCP, as the two programs use it. *)

\* rst: a reset is on its way to the server ("sent") or has arrived there.
NewConn == [up |-> <<>>, down |-> <<>>, eaOpen |-> TRUE, srvOpen |-> TRUE, rst |-> "none"]

SendUp(c, ms) == IF c.srvOpen THEN [c EXCEPT !.up = @ \o ms] ELSE c

\* A send towards an EA that has closed succeeds and is answered by a reset.
SendDown(c, m) ==
    IF c.eaOpen THEN [c EXCEPT !.down = @ \o <<Fragment("head", m), Fragment("tail", m)>>]
    ELSE [c EXCEPT !.rst = IF @ = "none" THEN "sent" ELSE @]

\* Closing a socket with unread data resets the connection.
EaClose(c) == [c EXCEPT !.eaOpen = FALSE,
                        !.rst = IF c.down # <<>> /\ c.srvOpen /\ @ = "none" THEN "sent" ELSE @,
                        !.down = <<>>]

SrvCloses(c) == {[c EXCEPT !.srvOpen = FALSE, !.up = <<>>, !.down = d] :
                     d \in IF c.up = <<>> THEN {c.down} ELSE {c.down, <<>>}}

ResetArrives ==
    \E c \in DOMAIN conns :
        /\ conns[c].rst = "sent"
        /\ conns' = [conns EXCEPT ![c].rst = "arrived"]
        /\ UNCHANGED <<ea, srv, fills>>
-----------------------------------------------------------------------------
(* The EA. *)

Here == conns[ea.sock]

\* SocketIsConnected may lag behind a close by the server, never the reverse.
MaySeeLink == ea.sock # 0

MaySeeNoLink == ea.sock # 0 => ~Here.srvOpen

\* The old socket closed, if there was one.
AfterClose == IF ea.sock = 0 THEN conns ELSE [conns EXCEPT ![ea.sock] = EaClose(@)]

\* Mutant: Connect keeps what RecvLine had buffered.
AfterConnectKeepsBuffer == [ea EXCEPT !.sock = Len(conns) + 1]

AfterConnect == [ea EXCEPT !.sock = Len(conns) + 1, !.rxbuf = <<>>]

\* Connect(): hello and subscribe are sent on the new connection.
ConnectOK(extra) ==
    /\ Len(conns) < MaxConns
    /\ srv.state # "killed"
    /\ conns' = Append(AfterClose,
                       SendUp(NewConn, <<Msg("hello"), Msg("subscribe")>> \o extra))

ConnectFails == /\ conns' = AfterClose
                /\ ea' = [ea EXCEPT !.sock = 0, !.rxbuf = <<>>, !.state = "idle"]

OnInit ==
    /\ ea.state = "init"
    /\ \/ ConnectOK(<<>>) /\ ea' = [AfterConnect EXCEPT !.state = "idle"]
       \/ ConnectFails
    /\ UNCHANGED <<srv, fills>>

\* OnTick: stream the tick, then drain the replies that are there.
OnTick ==
    /\ ea.state = "idle" /\ MaySeeLink /\ ea.ticks < MaxTicks
    /\ \E mid \in Mids :
        conns' = [conns EXCEPT ![ea.sock] = SendUp(@, <<Tick(mid)>>)]
    /\ ea' = [ea EXCEPT !.state = "tick", !.ticks = @ + 1]
    /\ UNCHANGED <<srv, fills>>

\* The heartbeat is due when TimeCurrent() has advanced far enough.
Heartbeats == IF ea.beats < MaxBeats THEN {<<>>, <<Msg("heartbeat")>>} ELSE {<<>>}

ToTimer(e, hb) == [e EXCEPT !.state = "timer", !.beats = @ + Len(hb)]

OnTimer ==
    /\ ea.state = "idle"
    /\ \/ /\ MaySeeLink
          /\ \E hb \in Heartbeats :
                /\ conns' = [conns EXCEPT ![ea.sock] = SendUp(@, hb)]
                /\ ea' = ToTimer(ea, hb)
       \/ /\ MaySeeNoLink
          /\ \/ \E hb \in Heartbeats :
                   ConnectOK(hb) /\ ea' = ToTimer(AfterConnect, hb)
             \/ ConnectFails
    /\ UNCHANGED <<srv, fills>>

\* Where the first complete line of the buffer ends: the empty set if there is none.
LineEnd(buf) == {i \in DOMAIN buf : /\ buf[i].part = "tail"
                                    /\ \A j \in 1 .. i - 1 : buf[j].part # "tail"}

\* StringFind looks for "t":"order" anywhere in the line.
OrdersIn(line) == {f.msg : f \in {line[i] : i \in {j \in DOMAIN line :
                       line[j].part = "head" /\ line[j].msg.kind = "order"}}}

\* Mutant: the timer reads the pending replies and only counts them.
ActsInTimerNever == ea.state = "tick"

\* Both OnTick and OnTimer act on an order.
Acts == ea.state \in {"tick", "timer"}

\* One call of RecvLine by either drain loop, which takes what has arrived.
RecvLine ==
    /\ ea.state \in {"tick", "timer"}
    /\ \E n \in 0 .. Len(Here.down) :
        LET buf  == ea.rxbuf \o SubSeq(Here.down, 1, n)
            rest == SubSeq(Here.down, n + 1, Len(Here.down))
        IN  \/ /\ LineEnd(buf) = {}
               /\ ea' = [ea EXCEPT !.rxbuf = buf, !.state = "idle"]
               /\ conns' = [conns EXCEPT ![ea.sock].down = rest]
               /\ UNCHANGED fills
            \/ \E e \in LineEnd(buf) :
                 LET orders == OrdersIn(SubSeq(buf, 1, e))
                 IN  /\ ea' = [ea EXCEPT !.rxbuf = SubSeq(buf, e + 1, Len(buf))]
                     /\ \/ /\ Acts
                           /\ \E o \in orders :
                                /\ conns' = [conns EXCEPT ![ea.sock] =
                                               SendUp([@ EXCEPT !.down = rest], <<Ack(o.id)>>)]
                                /\ fills' = Append(fills, [order |-> o, on |-> ea.sock])
                        \/ /\ orders = {} \/ ~Acts
                           /\ conns' = [conns EXCEPT ![ea.sock].down = rest]
                           /\ UNCHANGED fills
    /\ UNCHANGED srv

OnDeinit ==
    /\ ea.state = "idle"
    /\ ea' = [ea EXCEPT !.state = "done", !.sock = 0]
    /\ conns' = IF ea.sock = 0 THEN conns
                ELSE [conns EXCEPT ![ea.sock] = EaClose(SendUp(@, <<Msg("bye")>>))]
    /\ UNCHANGED <<srv, fills>>

\* The terminal dies: its host with it, and then nothing more is sent, or only
\* the process, and then the operating system closes its socket.
Dies ==
    /\ ea.state \in {"idle", "tick", "timer"}
    /\ ea' = [ea EXCEPT !.state = "dead"]
    /\ conns' \in {conns, AfterClose}
    /\ UNCHANGED <<srv, fills>>
-----------------------------------------------------------------------------
(* mt5d. *)

NewSession(c) == [state |-> "serving", conn |-> c, last |-> c, next_id |-> 1, idle |-> 0,
                  primed |-> FALSE, prev_mid |-> 0,
                  ticks |-> 0, orders |-> 0, acks |-> 0]

\* Mutant: one strategy object serves every client.
SessionSharedStrategy(c) == [NewSession(c) EXCEPT !.primed = srv.primed,
                                                  !.prev_mid = srv.prev_mid]

\* A new client gets a new strategy, new statistics and ids from 1.
Session(c) == NewSession(c)

Accept ==
    /\ srv.state = "accept" /\ srv.last < Len(conns)
    /\ srv' = Session(srv.last + 1)
    /\ UNCHANGED <<conns, ea, fills>>

Serving == srv.state = "serving"

Peer == conns[srv.conn]

\* run_bridge returns and the connection's LineSocket is destroyed.
EndSession(s, cs) ==
    /\ srv' = [s EXCEPT !.state = "accept", !.conn = 0]
    /\ \E c \in SrvCloses(cs[srv.conn]) : conns' = [cs EXCEPT ![srv.conn] = c]

\* One line consumed: the connection without it, and the idle counter reset.
Taken == [Peer EXCEPT !.up = Tail(@)]

Awake == [srv EXCEPT !.idle = 0]

NextLine(kind) == Serving /\ Peer.up # <<>> /\ Head(Peer.up).kind = kind

\* send_line: after a reset it returns false, which run_bridge ignores, or its
\* send() raises SIGPIPE, which ends the process.
Reply(s, m) ==
    \/ /\ Peer.rst # "arrived"
       /\ srv' = s
       /\ conns' = [conns EXCEPT ![srv.conn] = SendDown(Taken, m)]
    \/ /\ Peer.rst = "arrived"
       /\ srv' = s
       /\ conns' = [conns EXCEPT ![srv.conn] = Taken]
    \/ /\ Peer.rst = "arrived"
       /\ srv' = [s EXCEPT !.state = "killed", !.conn = 0]
       /\ conns' = [c \in DOMAIN conns |-> [conns[c] EXCEPT !.srvOpen = FALSE, !.up = <<>>]]

OnHello == NextLine("hello") /\ Reply(Awake, Msg("hello")) /\ UNCHANGED <<ea, fills>>

\* ExampleStrategy::on_tick fires on a move of at least Step since the last tick.
Fires(mid) == srv.primed /\ (mid - srv.prev_mid >= Step \/ srv.prev_mid - mid >= Step)

\* Mutant: the id of an order is not advanced.
NextIdStuck(id) == id

NextId(id) == id + 1

OnTickLine ==
    /\ NextLine("tick")
    /\ LET mid == Head(Peer.up).mid
           s   == [Awake EXCEPT !.ticks = @ + 1, !.primed = TRUE, !.prev_mid = mid]
       IN  \/ /\ Fires(mid)
              /\ Reply([s EXCEPT !.orders = @ + 1, !.next_id = NextId(@)],
                       Order(srv.conn, srv.next_id))
           \/ /\ ~Fires(mid)
              /\ Reply(s, Msg("nop"))
    /\ UNCHANGED <<ea, fills>>

OnAck == /\ NextLine("ack")
         /\ srv' = [Awake EXCEPT !.acks = @ + 1]
         /\ conns' = [conns EXCEPT ![srv.conn] = Taken]
         /\ UNCHANGED <<ea, fills>>

\* subscribe and heartbeat only keep the session alive.
OnOther == /\ NextLine("subscribe") \/ NextLine("heartbeat")
           /\ srv' = Awake
           /\ conns' = [conns EXCEPT ![srv.conn] = Taken]
           /\ UNCHANGED <<ea, fills>>

OnBye == /\ NextLine("bye")
         /\ EndSession(Awake, [conns EXCEPT ![srv.conn] = Taken])
         /\ UNCHANGED <<ea, fills>>

\* recv() returns 0 or an error: the peer is gone.
OnEof == /\ Serving /\ Peer.up = <<>> /\ (~Peer.eaOpen \/ Peer.rst = "arrived")
         /\ EndSession(srv, conns)
         /\ UNCHANGED <<ea, fills>>

\* Mutant: a timeout does not count as an idle interval.
IdleAfterNoCount(idle) == idle

IdleAfter(idle) == idle + 1

\* SO_RCVTIMEO fires with nothing to read.
OnTimeout ==
    /\ Serving /\ Peer.up = <<>> /\ Peer.eaOpen /\ Peer.rst # "arrived"
    /\ LET idle == IdleAfter(srv.idle)
       IN  \/ idle >= MaxIdle /\ EndSession([srv EXCEPT !.idle = idle], conns)
           \/ idle < MaxIdle /\ srv' = [srv EXCEPT !.idle = idle] /\ UNCHANGED conns
    /\ UNCHANGED <<ea, fills>>
-----------------------------------------------------------------------------
Init ==
    /\ conns = <<>>
    /\ ea = [state |-> "init", sock |-> 0, rxbuf |-> <<>>, ticks |-> 0, beats |-> 0]
    /\ srv = [NewSession(0) EXCEPT !.state = "accept"]
    /\ fills = <<>>

EaNext == OnInit \/ OnTick \/ OnTimer \/ RecvLine \/ OnDeinit \/ Dies

SrvNext == Accept \/ OnHello \/ OnTickLine \/ OnAck \/ OnOther \/ OnBye \/ OnEof \/ OnTimeout

Next == EaNext \/ SrvNext \/ ResetArrives

\* mt5d is a thread that is never blocked for good: its recv has a timeout.
Spec == Init /\ [][Next]_vars /\ WF_vars(SrvNext)
-----------------------------------------------------------------------------
\* The EA executes an order only on the connection it was sent on: a part of a
\* line left in g_rxbuf when the link drops is never completed by a line of the
\* next session (Connect empties the buffer).
NoGhostOrders == \A i \in DOMAIN fills : fills[i].order.conn = fills[i].on

\* No order is executed twice: within a session every order has an id of its own
\* and every reply is read once, by OnTick or by OnTimer.
ExecutedOnce == \A i, j \in DOMAIN fills : fills[i].order = fills[j].order => i = j

CountKind(s, kind) == Cardinality({i \in DOMAIN s : s[i].kind = kind})

OrdersUnread(buf) ==
    Cardinality({i \in DOMAIN buf : buf[i].part = "tail" /\ buf[i].msg.kind = "order"})

\* While the two are connected, every order the server counted is acknowledged, or on
\* its way to the EA, or its ack is on its way back: none is lost between the two
\* drain loops, and run_bridge counts no ack for which there was no order.
OrdersAccounted ==
    Serving /\ srv.conn = ea.sock /\ Peer.eaOpen =>
        srv.orders = srv.acks + CountKind(Peer.up, "ack")
                     + OrdersUnread(Peer.down) + OrdersUnread(ea.rxbuf)

\* The first tick of a session never trades: the strategy compares ticks of one
\* session only, so a price move across a reconnection is not acted upon.
FirstTickNeverTrades == srv.orders > 0 => srv.orders < srv.ticks

\* "so a dead EA can't pin the session forever": once the EA is dead, the server
\* works off what it sent and returns to accept for good.
DeadPeerReclaimed == (ea.state = "dead") ~> [](srv.conn = 0)

\* "if it was an order, the EA sends an ack, which the server reads before the
\* next tick": the server never takes a tick while an order is unacknowledged.
AckBeforeNextTick ==
    [][OnTickLine => srv.orders = srv.acks]_vars

\* "Each accepted client is served to completion (until it sends bye or
\* disconnects), then mt5d waits for the next one": no client ends the server.
ServerSurvives == srv.state # "killed"
=============================================================================
