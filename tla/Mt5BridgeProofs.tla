--------------------------- MODULE Mt5BridgeProofs --------------------------
(***************************************************************************)
(* Four guarantees of the MetaTrader bridge for any number of connections, *)
(* ticks and heartbeats, any price step and any way the connections drop:  *)
(* the EA executes no order left over from an earlier connection, it       *)
(* executes none twice, a session's first tick never trades, and while the *)
(* two are connected every order of the session is accounted for.          *)
(***************************************************************************)
EXTENDS Mt5Bridge, FiniteSetTheorems, FunctionTheorems, TLAPS

\* What the server sends on connection c.
MsgOn(c) == {Msg("hello"), Msg("nop")} \cup {Order(c, id) : id \in Nat}
FragOn(c) == {Fragment(p, m) : p \in {"head", "tail"}, m \in MsgOn(c)}

ConnFields == {"up", "down", "eaOpen", "srvOpen", "rst"}
ConnOK(c, r) == DOMAIN r = ConnFields /\ r.down \in Seq(FragOn(c))

\* Every connection carries only its own session's orders.
ConnsOK(cs) ==
    /\ \E S : cs \in Seq(S)
    /\ \A c \in DOMAIN cs : ConnOK(c, cs[c])

EaFields == {"state", "sock", "rxbuf", "ticks", "beats"}

\* g_rxbuf holds only what came on the EA's present connection.
EaInv ==
    /\ DOMAIN ea = EaFields
    /\ ea.sock = 0 \/ ea.sock \in DOMAIN conns
    /\ ea.state \in {"tick", "timer"} => ea.sock # 0
    /\ ea.state # "done" => ea.rxbuf \in Seq(FragOn(ea.sock))

SrvFields == {"state", "conn", "last", "next_id", "idle", "primed", "prev_mid",
              "ticks", "orders", "acks"}

SrvInv ==
    /\ DOMAIN srv = SrvFields
    /\ srv.last \in Nat /\ srv.next_id \in Nat
    /\ srv.state = "serving" => srv.conn \in DOMAIN conns

FillsInv ==
    /\ \E S : fills \in Seq(S)
    /\ NoGhostOrders

LinkInv == ConnsOK(conns) /\ EaInv /\ SrvInv /\ FillsInv

-----------------------------------------------------------------------------
(* Sequences. *)

LEMMA AppendSeq ==
    ASSUME NEW s, \E S : s \in Seq(S), NEW e
    PROVE  /\ \E S : Append(s, e) \in Seq(S)
           /\ DOMAIN Append(s, e) = 1 .. Len(s) + 1 /\ DOMAIN s = 1 .. Len(s) /\ Len(s) \in Nat
           /\ Append(s, e)[Len(s) + 1] = e
           /\ \A i \in DOMAIN s : Append(s, e)[i] = s[i]
<1>1. PICK S : s \in Seq(S)
    OBVIOUS
<1>2. s \in Seq(S \cup {e}) /\ e \in S \cup {e}
    BY <1>1
<1>3. Append(s, e) \in Seq(S \cup {e})
    BY <1>2
<1> QED BY <1>2, <1>3

LEMMA ExceptSeq ==
    ASSUME NEW s, \E S : s \in Seq(S), NEW i \in DOMAIN s, NEW e
    PROVE  /\ \E S : [s EXCEPT ![i] = e] \in Seq(S)
           /\ DOMAIN [s EXCEPT ![i] = e] = DOMAIN s
           /\ [s EXCEPT ![i] = e][i] = e
           /\ \A j \in DOMAIN s : j # i => [s EXCEPT ![i] = e][j] = s[j]
<1>1. PICK S : s \in Seq(S)
    OBVIOUS
<1>2. s \in Seq(S \cup {e}) /\ e \in S \cup {e}
    BY <1>1
<1>3. [s EXCEPT ![i] = e] \in Seq(S \cup {e})
    BY <1>2
<1> QED BY <1>3

LEMMA SameLength ==
    ASSUME NEW a \in Nat, NEW b \in Nat, 1 .. a = 1 .. b
    PROVE  a = b
<1>1. a > b => a \in 1 .. a
    OBVIOUS
<1>2. b > a => b \in 1 .. b
    OBVIOUS
<1> QED BY <1>1, <1>2

-----------------------------------------------------------------------------
(* What may happen to one connection. *)

LEMMA NewConnOK == ASSUME NEW c PROVE ConnOK(c, NewConn)
    BY DEF ConnOK, ConnFields, NewConn

LEMMA SendUpOK ==
    ASSUME NEW c, NEW r, ConnOK(c, r), NEW ms
    PROVE  ConnOK(c, SendUp(r, ms))
    BY DEF ConnOK, ConnFields, SendUp

LEMMA SendDownOK ==
    ASSUME NEW c, NEW r, ConnOK(c, r), NEW m \in MsgOn(c)
    PROVE  ConnOK(c, SendDown(r, m))
<1>1. Fragment("head", m) \in FragOn(c) /\ Fragment("tail", m) \in FragOn(c)
    BY DEF FragOn
<1>2. <<Fragment("head", m), Fragment("tail", m)>> \in Seq(FragOn(c))
    BY <1>1
<1>3. r.down \o <<Fragment("head", m), Fragment("tail", m)>> \in Seq(FragOn(c))
    BY <1>2 DEF ConnOK
<1> QED BY <1>3 DEF ConnOK, ConnFields, SendDown

LEMMA EaCloseOK ==
    ASSUME NEW c, NEW r, ConnOK(c, r)
    PROVE  ConnOK(c, EaClose(r))
<1>1. <<>> \in Seq(FragOn(c))
    OBVIOUS
<1> QED BY <1>1 DEF ConnOK, ConnFields, EaClose

LEMMA SrvClosesOK ==
    ASSUME NEW c, NEW r, ConnOK(c, r), NEW x \in SrvCloses(r)
    PROVE  ConnOK(c, x)
<1>1. <<>> \in Seq(FragOn(c))
    OBVIOUS
<1> QED BY <1>1 DEF ConnOK, ConnFields, SrvCloses

LEMMA DownOK ==
    ASSUME NEW c, NEW r, ConnOK(c, r), NEW d \in Seq(FragOn(c))
    PROVE  ConnOK(c, [r EXCEPT !.down = d])
    BY DEF ConnOK, ConnFields

LEMMA UpOK ==
    ASSUME NEW c, NEW r, ConnOK(c, r), NEW u
    PROVE  ConnOK(c, [r EXCEPT !.up = u])
    BY DEF ConnOK, ConnFields

\* One connection replaced.
LEMMA OneConn ==
    ASSUME NEW cs, ConnsOK(cs), NEW c \in DOMAIN cs, NEW r, ConnOK(c, r)
    PROVE  ConnsOK([cs EXCEPT ![c] = r]) /\ DOMAIN [cs EXCEPT ![c] = r] = DOMAIN cs
<1> DEFINE new == [cs EXCEPT ![c] = r]
<1>1. /\ \E S : new \in Seq(S)
      /\ DOMAIN new = DOMAIN cs /\ new[c] = r
      /\ \A j \in DOMAIN cs : j # c => new[j] = cs[j]
    BY ExceptSeq DEF ConnsOK
<1> HIDE DEF new
<1>2. \A j \in DOMAIN new : ConnOK(j, new[j])
    BY <1>1 DEF ConnsOK
<1>3. ConnsOK(new) /\ DOMAIN new = DOMAIN cs
    BY <1>1, <1>2 DEF ConnsOK
<1> QED BY <1>3 DEF new

\* One connection opened.
LEMMA AddConn ==
    ASSUME NEW cs, ConnsOK(cs), NEW r, ConnOK(Len(cs) + 1, r)
    PROVE  /\ ConnsOK(Append(cs, r))
           /\ DOMAIN cs \subseteq DOMAIN Append(cs, r)
           /\ Len(cs) + 1 \in DOMAIN Append(cs, r)
           /\ Len(cs) + 1 # 0
<1> DEFINE new == Append(cs, r)
<1>1. /\ \E S : new \in Seq(S)
      /\ DOMAIN new = 1 .. Len(cs) + 1 /\ DOMAIN cs = 1 .. Len(cs) /\ Len(cs) \in Nat
      /\ new[Len(cs) + 1] = r
      /\ \A j \in DOMAIN cs : new[j] = cs[j]
    BY AppendSeq, ZenonT(60) DEF ConnsOK
<1> HIDE DEF new
<1>2. ASSUME NEW j \in DOMAIN new PROVE ConnOK(j, new[j])
  <2>1. CASE j \in DOMAIN cs
      BY <1>1, <2>1 DEF ConnsOK
  <2>2. CASE j = Len(cs) + 1
      BY <1>1, <2>2
  <2>3. j \in DOMAIN cs \/ j = Len(cs) + 1
      BY <1>1
  <2> QED BY <2>1, <2>2, <2>3
<1>3. ConnsOK(new)
    BY <1>1, <1>2 DEF ConnsOK
<1>4. DOMAIN cs \subseteq DOMAIN new /\ Len(cs) + 1 \in DOMAIN new /\ Len(cs) + 1 # 0
    BY <1>1
<1> QED BY <1>3, <1>4 DEF new

LEMMA ClosedOK ==
    ASSUME LinkInv
    PROVE  ConnsOK(AfterClose) /\ DOMAIN AfterClose = DOMAIN conns /\ Len(AfterClose) = Len(conns)
<1>1. CASE ea.sock = 0
    BY <1>1 DEF LinkInv, AfterClose
<1>2. CASE ea.sock # 0
  <2>1. ea.sock \in DOMAIN conns
      BY <1>2 DEF LinkInv, EaInv
  <2>2. ConnOK(ea.sock, EaClose(conns[ea.sock]))
      BY <2>1, EaCloseOK DEF LinkInv, ConnsOK
  <2>3. AfterClose = [conns EXCEPT ![ea.sock] = EaClose(conns[ea.sock])]
      BY <1>2 DEF AfterClose
  <2>4. ConnsOK(AfterClose) /\ DOMAIN AfterClose = DOMAIN conns
      BY <2>1, <2>2, <2>3, OneConn DEF LinkInv
  <2>5. DOMAIN AfterClose = 1 .. Len(AfterClose) /\ Len(AfterClose) \in Nat
        /\ DOMAIN conns = 1 .. Len(conns) /\ Len(conns) \in Nat
      BY <2>4, AppendSeq DEF ConnsOK, LinkInv
  <2> QED BY <2>4, <2>5, SameLength
<1> QED BY <1>1, <1>2

-----------------------------------------------------------------------------
(* The EA's actions. *)

LEMMA SrvStays ==
    ASSUME SrvInv, srv' = srv, DOMAIN conns \subseteq DOMAIN conns'
    PROVE  SrvInv'
    BY DEF SrvInv

LEMMA FillsStay ==
    ASSUME FillsInv, fills' = fills
    PROVE  FillsInv'
    BY DEF FillsInv, NoGhostOrders

LEMMA ConnectKeeps ==
    ASSUME LinkInv, NEW extra, ConnectOK(extra),
           DOMAIN ea' = EaFields, ea'.sock = Len(conns) + 1, ea'.rxbuf = <<>>,
           UNCHANGED <<srv, fills>>
    PROVE  LinkInv'
<1> DEFINE r == SendUp(NewConn, <<Msg("hello"), Msg("subscribe")>> \o extra)
<1>1. ConnsOK(AfterClose) /\ DOMAIN AfterClose = DOMAIN conns /\ Len(AfterClose) = Len(conns)
    BY ClosedOK
<1>2. ConnOK(Len(AfterClose) + 1, r)
    BY NewConnOK, SendUpOK
<1>3. conns' = Append(AfterClose, r)
    BY DEF ConnectOK
<1> HIDE DEF r
<1>4. /\ ConnsOK(conns') /\ DOMAIN conns \subseteq DOMAIN conns'
      /\ Len(conns) + 1 \in DOMAIN conns' /\ Len(conns) + 1 # 0
    BY <1>1, <1>2, <1>3, AddConn
<1>5. EaInv'
  <2>1. <<>> \in Seq(FragOn(ea'.sock))
      OBVIOUS
  <2> QED BY <1>4, <2>1 DEF EaInv
<1>6. SrvInv'
    BY <1>4, SrvStays DEF LinkInv
<1>7. FillsInv'
    BY FillsStay DEF LinkInv
<1> QED BY <1>4, <1>5, <1>6, <1>7 DEF LinkInv

LEMMA ConnectFailsKeeps ==
    ASSUME LinkInv, ConnectFails, UNCHANGED <<srv, fills>>
    PROVE  LinkInv'
<1>1. ConnsOK(conns') /\ DOMAIN conns' = DOMAIN conns
    BY ClosedOK DEF ConnectFails
<1>2. DOMAIN ea' = EaFields /\ ea'.sock = 0 /\ ea'.rxbuf = <<>> /\ ea'.state = "idle"
    BY DEF ConnectFails, LinkInv, EaInv, EaFields
<1>3. EaInv'
  <2>1. <<>> \in Seq(FragOn(ea'.sock))
      OBVIOUS
  <2> QED BY <1>2, <2>1 DEF EaInv
<1>4. SrvInv'
    BY <1>1, SrvStays DEF LinkInv
<1>5. FillsInv'
    BY FillsStay DEF LinkInv
<1> QED BY <1>1, <1>3, <1>4, <1>5 DEF LinkInv

\* The EA's own connection changes and its buffer does not.
LEMMA EaKeeps ==
    ASSUME LinkInv, NEW r, ea.sock # 0, ConnOK(ea.sock, r),
           conns' = [conns EXCEPT ![ea.sock] = r],
           DOMAIN ea' = EaFields,
           (ea'.sock = ea.sock /\ ea.state # "done") \/ (ea'.sock = 0 /\ ea'.state = "done"),
           ea'.rxbuf = ea.rxbuf,
           UNCHANGED <<srv, fills>>
    PROVE  LinkInv'
<1>1. ea.sock \in DOMAIN conns
    BY DEF LinkInv, EaInv
<1>2. ConnsOK(conns') /\ DOMAIN conns' = DOMAIN conns
    BY <1>1, OneConn DEF LinkInv
<1>3. EaInv'
    BY <1>1, <1>2 DEF LinkInv, EaInv
<1>4. SrvInv'
    BY <1>2, SrvStays DEF LinkInv
<1>5. FillsInv'
    BY FillsStay DEF LinkInv
<1> QED BY <1>2, <1>3, <1>4, <1>5 DEF LinkInv

LEMMA SockConnOK ==
    ASSUME LinkInv, ea.sock # 0
    PROVE  ea.sock \in DOMAIN conns /\ ConnOK(ea.sock, conns[ea.sock])
    BY DEF LinkInv, EaInv, ConnsOK

LEMMA OnInitKeeps == ASSUME LinkInv, OnInit PROVE LinkInv'
<1>1. CASE ConnectOK(<<>>) /\ ea' = [AfterConnect EXCEPT !.state = "idle"]
  <2>1. DOMAIN ea' = EaFields /\ ea'.sock = Len(conns) + 1 /\ ea'.rxbuf = <<>>
      BY <1>1 DEF AfterConnect, LinkInv, EaInv, EaFields
  <2> QED BY <1>1, <2>1, ConnectKeeps DEF OnInit
<1>2. CASE ConnectFails
    BY <1>2, ConnectFailsKeeps DEF OnInit
<1> QED BY <1>1, <1>2 DEF OnInit

LEMMA OnTickKeeps == ASSUME LinkInv, OnTick PROVE LinkInv'
<1>1. PICK mid \in Mids : conns' = [conns EXCEPT ![ea.sock] = SendUp(conns[ea.sock], <<Tick(mid)>>)]
    BY DEF OnTick
<1>2. ea.sock # 0 /\ ea.state = "idle" /\ UNCHANGED <<srv, fills>>
    BY DEF OnTick, MaySeeLink
<1>3. ConnOK(ea.sock, SendUp(conns[ea.sock], <<Tick(mid)>>))
    BY <1>2, SockConnOK, SendUpOK
<1>4. DOMAIN ea' = EaFields /\ ea'.sock = ea.sock /\ ea'.rxbuf = ea.rxbuf
    BY DEF OnTick, LinkInv, EaInv, EaFields
<1>5. (ea'.sock = ea.sock /\ ea.state # "done") \/ (ea'.sock = 0 /\ ea'.state = "done")
    BY <1>2, <1>4
<1> DEFINE r == SendUp(conns[ea.sock], <<Tick(mid)>>)
<1>6. ConnOK(ea.sock, r) /\ conns' = [conns EXCEPT ![ea.sock] = r]
    BY <1>1, <1>3
<1> HIDE DEF r
<1> QED BY <1>2, <1>4, <1>5, <1>6, EaKeeps

LEMMA OnTimerKeeps == ASSUME LinkInv, OnTimer PROVE LinkInv'
<1>0. ea.state = "idle" /\ UNCHANGED <<srv, fills>> /\ DOMAIN ea = EaFields
    BY DEF OnTimer, LinkInv, EaInv
<1>1. CASE MaySeeLink /\ \E hb \in Heartbeats :
                /\ conns' = [conns EXCEPT ![ea.sock] = SendUp(@, hb)]
                /\ ea' = ToTimer(ea, hb)
  <2>1. PICK hb \in Heartbeats :
            conns' = [conns EXCEPT ![ea.sock] = SendUp(conns[ea.sock], hb)] /\ ea' = ToTimer(ea, hb)
      BY <1>1
  <2>2. DOMAIN ea' = EaFields /\ ea'.sock = ea.sock /\ ea'.rxbuf = ea.rxbuf
      BY <1>0, <2>1 DEF ToTimer, EaFields
  <2>3. ea.sock # 0
      BY <1>1 DEF MaySeeLink
  <2>4. ConnOK(ea.sock, SendUp(conns[ea.sock], hb))
      BY <2>3, SockConnOK, SendUpOK
  <2>5. (ea'.sock = ea.sock /\ ea.state # "done") \/ (ea'.sock = 0 /\ ea'.state = "done")
      BY <1>0, <2>2
  <2> DEFINE r == SendUp(conns[ea.sock], hb)
  <2>6. ConnOK(ea.sock, r) /\ conns' = [conns EXCEPT ![ea.sock] = r]
      BY <2>1, <2>4
  <2> HIDE DEF r
  <2> QED BY <1>0, <2>2, <2>3, <2>5, <2>6, EaKeeps
<1>2. CASE \E hb \in Heartbeats : ConnectOK(hb) /\ ea' = ToTimer(AfterConnect, hb)
  <2>1. PICK hb \in Heartbeats : ConnectOK(hb) /\ ea' = ToTimer(AfterConnect, hb)
      BY <1>2
  <2>2. DOMAIN ea' = EaFields /\ ea'.sock = Len(conns) + 1 /\ ea'.rxbuf = <<>>
      BY <1>0, <2>1 DEF AfterConnect, ToTimer, EaFields
  <2> QED BY <1>0, <2>1, <2>2, ConnectKeeps
<1>3. CASE ConnectFails
    BY <1>0, <1>3, ConnectFailsKeeps
<1> QED BY <1>1, <1>2, <1>3 DEF OnTimer

LEMMA OnDeinitKeeps == ASSUME LinkInv, OnDeinit PROVE LinkInv'
<1>0. /\ ea.state = "idle" /\ UNCHANGED <<srv, fills>>
      /\ DOMAIN ea' = EaFields /\ ea'.sock = 0 /\ ea'.state = "done" /\ ea'.rxbuf = ea.rxbuf
    BY DEF OnDeinit, LinkInv, EaInv, EaFields
<1>1. CASE ea.sock = 0
  <2>1. conns' = conns
      BY <1>1 DEF OnDeinit
  <2>2. EaInv'
      BY <1>0 DEF EaInv
  <2> QED BY <1>0, <2>1, <2>2, SrvStays, FillsStay DEF LinkInv
<1>2. CASE ea.sock # 0
  <2>1. conns' = [conns EXCEPT ![ea.sock] = EaClose(SendUp(conns[ea.sock], <<Msg("bye")>>))]
      BY <1>2 DEF OnDeinit
  <2>2. ConnOK(ea.sock, EaClose(SendUp(conns[ea.sock], <<Msg("bye")>>)))
      BY <1>2, SockConnOK, SendUpOK, EaCloseOK
  <2> QED BY <1>0, <1>2, <2>1, <2>2, EaKeeps
<1> QED BY <1>1, <1>2

LEMMA DiesKeeps == ASSUME LinkInv, Dies PROVE LinkInv'
<1>0. /\ ea.state # "done" /\ UNCHANGED <<srv, fills>>
      /\ DOMAIN ea' = EaFields /\ ea'.sock = ea.sock /\ ea'.state = "dead" /\ ea'.rxbuf = ea.rxbuf
    BY DEF Dies, LinkInv, EaInv, EaFields
<1>1. ConnsOK(conns') /\ DOMAIN conns' = DOMAIN conns
    BY ClosedOK DEF Dies, LinkInv
<1>2. EaInv'
    BY <1>0, <1>1 DEF LinkInv, EaInv
<1> QED BY <1>0, <1>1, <1>2, SrvStays, FillsStay DEF LinkInv

\* An order in a line that came on connection c was sent on it.
LEMMA OrdersInOwn ==
    ASSUME NEW c, NEW buf \in Seq(FragOn(c)), NEW e \in DOMAIN buf,
           NEW o \in OrdersIn(SubSeq(buf, 1, e))
    PROVE  o.conn = c
<1> DEFINE line == SubSeq(buf, 1, e)
<1>1. line \in Seq(FragOn(c))
    OBVIOUS
<1> HIDE DEF line
<1>2. PICK i \in DOMAIN line : line[i].msg.kind = "order" /\ o = line[i].msg
    BY DEF OrdersIn, line
<1>3. line[i] \in FragOn(c)
    BY <1>1
<1>4. PICK p \in {"head", "tail"}, m \in MsgOn(c) : line[i] = Fragment(p, m)
    BY <1>3 DEF FragOn
<1>5. o = m /\ m.kind = "order"
    BY <1>2, <1>4 DEF Fragment
<1>6. m # Msg("hello") /\ m # Msg("nop")
    BY <1>5 DEF Msg
<1>7. PICK id \in Nat : m = Order(c, id)
    BY <1>6 DEF MsgOn
<1> QED BY <1>5, <1>7 DEF Order

\* A line taken off the EA's buffer.
LEMMA EaReads ==
    ASSUME LinkInv, ea.sock # 0, ea.state # "done", NEW d \in Seq(FragOn(ea.sock)), NEW r,
           r = [conns[ea.sock] EXCEPT !.down = d] \/ \E ms : r = SendUp([conns[ea.sock] EXCEPT !.down = d], ms),
           conns' = [conns EXCEPT ![ea.sock] = r],
           DOMAIN ea' = EaFields, ea'.sock = ea.sock, ea'.rxbuf \in Seq(FragOn(ea.sock)),
           UNCHANGED srv
    PROVE  ConnsOK(conns') /\ EaInv' /\ SrvInv'
<1>1. ea.sock \in DOMAIN conns /\ ConnOK(ea.sock, conns[ea.sock])
    BY SockConnOK
<1>2. ConnOK(ea.sock, [conns[ea.sock] EXCEPT !.down = d])
    BY <1>1, DownOK
<1>3. ConnOK(ea.sock, r)
    BY <1>2, SendUpOK
<1>4. ConnsOK(conns') /\ DOMAIN conns' = DOMAIN conns
    BY <1>1, <1>3, OneConn DEF LinkInv
<1>5. EaInv'
    BY <1>1, <1>4 DEF EaInv
<1>6. SrvInv'
    BY <1>4, SrvStays DEF LinkInv
<1> QED BY <1>4, <1>5, <1>6

LEMMA FillAdded ==
    ASSUME FillsInv, NEW o, NEW c, o.conn = c, fills' = Append(fills, [order |-> o, on |-> c])
    PROVE  FillsInv'
<1> DEFINE x == [order |-> o, on |-> c]
<1>1. x.order.conn = x.on
    OBVIOUS
<1>2. fills' = Append(fills, x)
    OBVIOUS
<1> HIDE DEF x
<1>3. /\ \E S : fills' \in Seq(S)
      /\ DOMAIN fills' = 1 .. Len(fills) + 1 /\ DOMAIN fills = 1 .. Len(fills) /\ Len(fills) \in Nat
      /\ fills'[Len(fills) + 1] = x
      /\ \A i \in DOMAIN fills : fills'[i] = fills[i]
  <2>1. \E S : fills \in Seq(S)
      BY DEF FillsInv
  <2>2. /\ \E S : Append(fills, x) \in Seq(S)
        /\ DOMAIN Append(fills, x) = 1 .. Len(fills) + 1 /\ DOMAIN fills = 1 .. Len(fills)
        /\ Len(fills) \in Nat
        /\ Append(fills, x)[Len(fills) + 1] = x
        /\ \A i \in DOMAIN fills : Append(fills, x)[i] = fills[i]
      BY <2>1, AppendSeq, ZenonT(60)
  <2> QED BY <1>2, <2>2
<1>4. ASSUME NEW i \in DOMAIN fills' PROVE fills'[i].order.conn = fills'[i].on
  <2>1. i \in DOMAIN fills \/ i = Len(fills) + 1
      BY <1>3
  <2>2. CASE i \in DOMAIN fills
      BY <1>3, <2>2 DEF FillsInv, NoGhostOrders
  <2>3. CASE i = Len(fills) + 1
      BY <1>1, <1>3, <2>3
  <2> QED BY <2>1, <2>2, <2>3
<1> QED BY <1>3, <1>4 DEF FillsInv, NoGhostOrders

LEMMA RecvLineKeeps == ASSUME LinkInv, RecvLine PROVE LinkInv'
<1>0. ea.state # "done" /\ ea.sock # 0 /\ UNCHANGED srv /\ DOMAIN ea = EaFields
      /\ ea.rxbuf \in Seq(FragOn(ea.sock))
    BY DEF RecvLine, LinkInv, EaInv
<1>1. ConnOK(ea.sock, Here)
    BY <1>0, SockConnOK DEF Here
<1>2. Here.down \in Seq(FragOn(ea.sock))
    BY <1>1 DEF ConnOK
<1> DEFINE buf(n)  == ea.rxbuf \o SubSeq(Here.down, 1, n)
           rest(n) == SubSeq(Here.down, n + 1, Len(Here.down))
<1>3. PICK n \in 0 .. Len(Here.down) :
        \/ /\ LineEnd(buf(n)) = {}
           /\ ea' = [ea EXCEPT !.rxbuf = buf(n), !.state = "idle"]
           /\ conns' = [conns EXCEPT ![ea.sock].down = rest(n)]
           /\ UNCHANGED fills
        \/ \E e \in LineEnd(buf(n)) :
             LET orders == OrdersIn(SubSeq(buf(n), 1, e))
             IN  /\ ea' = [ea EXCEPT !.rxbuf = SubSeq(buf(n), e + 1, Len(buf(n)))]
                 /\ \/ /\ Acts
                       /\ \E o \in orders :
                            /\ conns' = [conns EXCEPT ![ea.sock] =
                                           SendUp([@ EXCEPT !.down = rest(n)], <<Ack(o.id)>>)]
                            /\ fills' = Append(fills, [order |-> o, on |-> ea.sock])
                    \/ /\ orders = {} \/ ~Acts
                       /\ conns' = [conns EXCEPT ![ea.sock].down = rest(n)]
                       /\ UNCHANGED fills
    BY DEF RecvLine
<1>4. SubSeq(Here.down, 1, n) \in Seq(FragOn(ea.sock)) /\ rest(n) \in Seq(FragOn(ea.sock))
    BY <1>2
<1>5. buf(n) \in Seq(FragOn(ea.sock))
    BY <1>0, <1>4
<1> HIDE DEF buf, rest
<1>6. ASSUME conns' = [conns EXCEPT ![ea.sock].down = rest(n)]
      PROVE  conns' = [conns EXCEPT ![ea.sock] = [conns[ea.sock] EXCEPT !.down = rest(n)]]
    BY <1>6
<1>7. CASE /\ ea' = [ea EXCEPT !.rxbuf = buf(n), !.state = "idle"]
           /\ conns' = [conns EXCEPT ![ea.sock].down = rest(n)]
           /\ UNCHANGED fills
  <2>1. DOMAIN ea' = EaFields /\ ea'.sock = ea.sock /\ ea'.rxbuf \in Seq(FragOn(ea.sock))
      BY <1>0, <1>5, <1>7 DEF EaFields
  <2>2. ConnsOK(conns') /\ EaInv' /\ SrvInv'
      BY <1>0, <1>4, <1>6, <1>7, <2>1, EaReads
  <2> QED BY <1>7, <2>2, FillsStay DEF LinkInv
<1>8. ASSUME NEW e \in LineEnd(buf(n)),
             ea' = [ea EXCEPT !.rxbuf = SubSeq(buf(n), e + 1, Len(buf(n)))],
             \/ \E o \in OrdersIn(SubSeq(buf(n), 1, e)) :
                  /\ conns' = [conns EXCEPT ![ea.sock] =
                                 SendUp([@ EXCEPT !.down = rest(n)], <<Ack(o.id)>>)]
                  /\ fills' = Append(fills, [order |-> o, on |-> ea.sock])
             \/ /\ conns' = [conns EXCEPT ![ea.sock].down = rest(n)]
                /\ UNCHANGED fills
      PROVE  LinkInv'
  <2>1. e \in DOMAIN buf(n)
      BY <1>8 DEF LineEnd
  <2>2. SubSeq(buf(n), e + 1, Len(buf(n))) \in Seq(FragOn(ea.sock))
      BY <1>5, <2>1
  <2>3. DOMAIN ea' = EaFields /\ ea'.sock = ea.sock /\ ea'.rxbuf \in Seq(FragOn(ea.sock))
      BY <1>0, <1>8, <2>2 DEF EaFields
  <2>4. CASE /\ conns' = [conns EXCEPT ![ea.sock].down = rest(n)]
             /\ UNCHANGED fills
    <3>1. ConnsOK(conns') /\ EaInv' /\ SrvInv'
        BY <1>0, <1>4, <1>6, <2>3, <2>4, EaReads
    <3> QED BY <2>4, <3>1, FillsStay DEF LinkInv
  <2>5. ASSUME NEW o \in OrdersIn(SubSeq(buf(n), 1, e)),
               conns' = [conns EXCEPT ![ea.sock] =
                           SendUp([conns[ea.sock] EXCEPT !.down = rest(n)], <<Ack(o.id)>>)],
               fills' = Append(fills, [order |-> o, on |-> ea.sock])
        PROVE  LinkInv'
    <3> DEFINE r == SendUp([conns[ea.sock] EXCEPT !.down = rest(n)], <<Ack(o.id)>>)
    <3>1. conns' = [conns EXCEPT ![ea.sock] = r]
          /\ \E ms : r = SendUp([conns[ea.sock] EXCEPT !.down = rest(n)], ms)
        BY <2>5
    <3> HIDE DEF r
    <3>2. ConnsOK(conns') /\ EaInv' /\ SrvInv'
        BY <1>0, <1>4, <2>3, <3>1, EaReads
    <3>3. o.conn = ea.sock
        BY <1>5, <2>1, OrdersInOwn
    <3>4. FillsInv'
        BY <2>5, <3>3, FillAdded DEF LinkInv
    <3> QED BY <3>2, <3>4 DEF LinkInv
  <2> QED BY <1>8, <2>4, <2>5
<1> QED BY <1>3, <1>7, <1>8

-----------------------------------------------------------------------------
(* The server's actions. *)

LEMMA PeerOK ==
    ASSUME LinkInv, Serving
    PROVE  srv.conn \in DOMAIN conns /\ ConnOK(srv.conn, Peer)
    BY DEF LinkInv, SrvInv, Serving, ConnsOK, Peer

\* The EA and the history of fills are left alone.
LEMMA ServerKeeps ==
    ASSUME LinkInv, ConnsOK(conns'), DOMAIN conns' = DOMAIN conns,
           DOMAIN srv' = SrvFields, srv'.last \in Nat, srv'.next_id \in Nat,
           srv'.state = "serving" => srv'.conn \in DOMAIN conns,
           UNCHANGED <<ea, fills>>
    PROVE  LinkInv'
<1>1. EaInv'
    BY DEF LinkInv, EaInv
<1>2. SrvInv'
    BY DEF SrvInv
<1>3. FillsInv'
    BY FillsStay DEF LinkInv
<1> QED BY <1>1, <1>2, <1>3 DEF LinkInv

LEMMA AcceptKeeps == ASSUME LinkInv, Accept PROVE LinkInv'
<1>1. srv.last \in Nat /\ srv.last < Len(conns)
    BY DEF Accept, LinkInv, SrvInv
<1>2. DOMAIN conns = 1 .. Len(conns) /\ Len(conns) \in Nat
    BY AppendSeq DEF LinkInv, ConnsOK
<1>3. srv.last + 1 \in DOMAIN conns /\ srv.last + 1 \in Nat
    BY <1>1, <1>2
<1>4. srv' = NewSession(srv.last + 1) /\ UNCHANGED <<conns, ea, fills>>
    BY DEF Accept, Session
<1>5. DOMAIN srv' = SrvFields /\ srv'.last = srv.last + 1 /\ srv'.next_id = 1
      /\ srv'.conn = srv.last + 1
    BY <1>4 DEF NewSession, SrvFields
<1>6. ConnsOK(conns') /\ DOMAIN conns' = DOMAIN conns
    BY <1>4 DEF LinkInv
<1> QED BY <1>3, <1>4, <1>5, <1>6, ServerKeeps

\* What an action of a serving mt5d may make of its own state.
SrvNew(s) ==
    /\ DOMAIN s = SrvFields /\ s.last = srv.last /\ s.next_id \in Nat /\ s.conn = srv.conn

LEMMA PeerKeeps ==
    ASSUME LinkInv, Serving, NEW r, ConnOK(srv.conn, r),
           conns' = [conns EXCEPT ![srv.conn] = r], SrvNew(srv'), UNCHANGED <<ea, fills>>
    PROVE  LinkInv'
<1>1. srv.conn \in DOMAIN conns
    BY PeerOK
<1>2. ConnsOK(conns') /\ DOMAIN conns' = DOMAIN conns
    BY <1>1, OneConn DEF LinkInv
<1>3. /\ DOMAIN srv' = SrvFields /\ srv'.last \in Nat /\ srv'.next_id \in Nat
      /\ srv'.conn = srv.conn
    BY DEF SrvNew, LinkInv, SrvInv
<1> QED BY <1>1, <1>2, <1>3, ServerKeeps

LEMMA ReplyKeeps ==
    ASSUME LinkInv, Serving, NEW s, SrvNew(s), NEW m \in MsgOn(srv.conn), Reply(s, m),
           UNCHANGED <<ea, fills>>
    PROVE  LinkInv'
<1>1. srv.conn \in DOMAIN conns /\ ConnOK(srv.conn, Peer)
    BY PeerOK
<1>2. ConnOK(srv.conn, Taken)
    BY <1>1, UpOK DEF Taken
<1>3. ConnOK(srv.conn, SendDown(Taken, m))
    BY <1>2, SendDownOK
<1>4. CASE srv' = s /\ conns' = [conns EXCEPT ![srv.conn] = SendDown(Taken, m)]
    BY <1>3, <1>4, PeerKeeps
<1>5. CASE srv' = s /\ conns' = [conns EXCEPT ![srv.conn] = Taken]
    BY <1>2, <1>5, PeerKeeps
<1>6. CASE /\ srv' = [s EXCEPT !.state = "killed", !.conn = 0]
           /\ conns' = [c \in DOMAIN conns |-> [conns[c] EXCEPT !.srvOpen = FALSE, !.up = <<>>]]
  <2>1. PICK S : conns \in Seq(S)
      BY DEF LinkInv, ConnsOK
  <2>2. DOMAIN conns = 1 .. Len(conns) /\ Len(conns) \in Nat
      BY <2>1
  <2> DEFINE T == {conns'[c] : c \in DOMAIN conns}
  <2>3. conns' \in [1 .. Len(conns) -> T]
      BY <1>6, <2>2
  <2>4. conns' \in Seq(T)
      BY <2>2, <2>3
  <2>5. DOMAIN conns' = DOMAIN conns
      BY <1>6
  <2>6. ASSUME NEW c \in DOMAIN conns PROVE ConnOK(c, conns'[c])
    <3>1. ConnOK(c, conns[c])
        BY DEF LinkInv, ConnsOK
    <3>2. conns'[c] = [conns[c] EXCEPT !.srvOpen = FALSE, !.up = <<>>]
        BY <1>6
    <3> QED BY <3>1, <3>2 DEF ConnOK, ConnFields
  <2>7. ConnsOK(conns')
      BY <2>4, <2>5, <2>6 DEF ConnsOK
  <2>8. /\ DOMAIN srv' = SrvFields /\ srv'.last \in Nat /\ srv'.next_id \in Nat
        /\ srv'.state = "killed"
      BY <1>6 DEF SrvNew, SrvFields, LinkInv, SrvInv
  <2> QED BY <2>5, <2>7, <2>8, ServerKeeps
<1> QED BY <1>4, <1>5, <1>6 DEF Reply

LEMMA AwakeNew ==
    ASSUME LinkInv
    PROVE  SrvNew(srv) /\ SrvNew(Awake)
    BY DEF LinkInv, SrvInv, SrvNew, SrvFields, Awake

LEMMA OnHelloKeeps == ASSUME LinkInv, OnHello PROVE LinkInv'
<1>1. Serving /\ Reply(Awake, Msg("hello")) /\ UNCHANGED <<ea, fills>>
    BY DEF OnHello, NextLine
<1>2. Msg("hello") \in MsgOn(srv.conn)
    BY DEF MsgOn
<1> QED BY <1>1, <1>2, AwakeNew, ReplyKeeps

LEMMA OnTickLineKeeps == ASSUME LinkInv, OnTickLine PROVE LinkInv'
<1> DEFINE mid == Head(Peer.up).mid
           s == [Awake EXCEPT !.ticks = @ + 1, !.primed = TRUE, !.prev_mid = mid]
           t == [s EXCEPT !.orders = @ + 1, !.next_id = NextId(@)]
<1>1. Serving /\ UNCHANGED <<ea, fills>>
      /\ (Reply(t, Order(srv.conn, srv.next_id)) \/ Reply(s, Msg("nop")))
    BY DEF OnTickLine, NextLine
<1>2. DOMAIN srv = SrvFields /\ srv.next_id \in Nat /\ srv.last \in Nat
    BY DEF LinkInv, SrvInv
<1>3. SrvNew(s)
    BY <1>2 DEF SrvNew, SrvFields, Awake
<1>4. SrvNew(t)
    BY <1>2 DEF SrvNew, SrvFields, Awake, NextId
<1>5. Order(srv.conn, srv.next_id) \in MsgOn(srv.conn) /\ Msg("nop") \in MsgOn(srv.conn)
    BY <1>2 DEF MsgOn
<1> HIDE DEF s, t
<1> QED BY <1>1, <1>3, <1>4, <1>5, ReplyKeeps

LEMMA OnAckKeeps == ASSUME LinkInv, OnAck PROVE LinkInv'
<1>1. /\ Serving /\ UNCHANGED <<ea, fills>> /\ srv' = [Awake EXCEPT !.acks = @ + 1]
      /\ conns' = [conns EXCEPT ![srv.conn] = Taken]
    BY DEF OnAck, NextLine
<1>2. SrvNew(srv')
    BY <1>1 DEF LinkInv, SrvInv, SrvNew, SrvFields, Awake
<1>3. ConnOK(srv.conn, Taken)
    BY <1>1, PeerOK, UpOK DEF Taken
<1> QED BY <1>1, <1>2, <1>3, PeerKeeps

LEMMA OnOtherKeeps == ASSUME LinkInv, OnOther PROVE LinkInv'
<1>1. /\ Serving /\ UNCHANGED <<ea, fills>> /\ srv' = Awake
      /\ conns' = [conns EXCEPT ![srv.conn] = Taken]
    BY DEF OnOther, NextLine
<1>2. SrvNew(srv')
    BY <1>1, AwakeNew
<1>3. ConnOK(srv.conn, Taken)
    BY <1>1, PeerOK, UpOK DEF Taken
<1> QED BY <1>1, <1>2, <1>3, PeerKeeps

LEMMA EndSessionKeeps ==
    ASSUME LinkInv, Serving, NEW s, SrvNew(s), NEW cs, ConnsOK(cs), DOMAIN cs = DOMAIN conns,
           EndSession(s, cs), UNCHANGED <<ea, fills>>
    PROVE  LinkInv'
<1>1. PICK x \in SrvCloses(cs[srv.conn]) : conns' = [cs EXCEPT ![srv.conn] = x]
    BY DEF EndSession
<1>2. srv.conn \in DOMAIN cs
    BY PeerOK
<1>3. ConnOK(srv.conn, x)
    BY <1>2, SrvClosesOK DEF ConnsOK
<1>4. ConnsOK(conns') /\ DOMAIN conns' = DOMAIN conns
    BY <1>1, <1>2, <1>3, OneConn
<1>5. /\ DOMAIN srv' = SrvFields /\ srv'.last \in Nat /\ srv'.next_id \in Nat
      /\ srv'.state = "accept"
    BY DEF EndSession, SrvNew, SrvFields, LinkInv, SrvInv
<1> QED BY <1>4, <1>5, ServerKeeps

LEMMA OnByeKeeps == ASSUME LinkInv, OnBye PROVE LinkInv'
<1> DEFINE cs == [conns EXCEPT ![srv.conn] = Taken]
<1>1. Serving /\ UNCHANGED <<ea, fills>> /\ EndSession(Awake, cs)
    BY DEF OnBye, NextLine
<1>2. ConnOK(srv.conn, Taken)
    BY <1>1, PeerOK, UpOK DEF Taken
<1>3. ConnsOK(cs) /\ DOMAIN cs = DOMAIN conns
    BY <1>1, <1>2, PeerOK, OneConn DEF LinkInv
<1> HIDE DEF cs
<1> QED BY <1>1, <1>3, AwakeNew, EndSessionKeeps

LEMMA OnEofKeeps == ASSUME LinkInv, OnEof PROVE LinkInv'
<1>1. Serving /\ UNCHANGED <<ea, fills>> /\ EndSession(srv, conns)
    BY DEF OnEof
<1>2. ConnsOK(conns)
    BY DEF LinkInv
<1> QED BY <1>1, <1>2, AwakeNew, EndSessionKeeps

LEMMA OnTimeoutKeeps == ASSUME LinkInv, OnTimeout PROVE LinkInv'
<1> DEFINE s == [srv EXCEPT !.idle = IdleAfter(srv.idle)]
<1>1. Serving /\ UNCHANGED <<ea, fills>>
      /\ (EndSession(s, conns) \/ (srv' = s /\ UNCHANGED conns))
    BY DEF OnTimeout
<1>2. SrvNew(s)
    BY DEF LinkInv, SrvInv, SrvNew, SrvFields
<1> HIDE DEF s
<1>3. ConnsOK(conns)
    BY DEF LinkInv
<1>4. CASE EndSession(s, conns)
    BY <1>1, <1>2, <1>3, <1>4, EndSessionKeeps
<1>5. CASE srv' = s /\ UNCHANGED conns
  <2>1. ConnsOK(conns') /\ DOMAIN conns' = DOMAIN conns
      BY <1>3, <1>5
  <2>2. srv.conn \in DOMAIN conns
      BY <1>1, PeerOK
  <2>3. /\ DOMAIN srv' = SrvFields /\ srv'.last \in Nat /\ srv'.next_id \in Nat
        /\ srv'.conn = srv.conn
      BY <1>2, <1>5 DEF SrvNew, LinkInv, SrvInv
  <2> QED BY <1>1, <2>1, <2>2, <2>3, ServerKeeps
<1> QED BY <1>1, <1>4, <1>5

LEMMA ResetKeeps == ASSUME LinkInv, ResetArrives PROVE LinkInv'
<1>1. PICK c \in DOMAIN conns :
        conns' = [conns EXCEPT ![c] = [conns[c] EXCEPT !.rst = "arrived"]]
    BY DEF ResetArrives
<1>2. ConnOK(c, [conns[c] EXCEPT !.rst = "arrived"])
    BY DEF LinkInv, ConnsOK, ConnOK, ConnFields
<1>3. ConnsOK(conns') /\ DOMAIN conns' = DOMAIN conns
    BY <1>1, <1>2, OneConn DEF LinkInv
<1>4. UNCHANGED <<ea, srv, fills>>
    BY DEF ResetArrives
<1>5. /\ DOMAIN srv' = SrvFields /\ srv'.last \in Nat /\ srv'.next_id \in Nat
      /\ (srv'.state = "serving" => srv'.conn \in DOMAIN conns)
    BY <1>4 DEF LinkInv, SrvInv
<1> QED BY <1>3, <1>4, <1>5, ServerKeeps
-----------------------------------------------------------------------------
LEMMA LinkInit == Init => LinkInv
<1> SUFFICES ASSUME Init PROVE LinkInv
    OBVIOUS
<1>1. conns = <<>> /\ fills = <<>>
    BY DEF Init
<1>2. <<>> \in Seq({}) /\ DOMAIN <<>> = {}
    OBVIOUS
<1>3. ConnsOK(conns) /\ FillsInv
    BY <1>1, <1>2 DEF ConnsOK, FillsInv, NoGhostOrders
<1>4. EaInv
  <2>1. <<>> \in Seq(FragOn(ea.sock))
      OBVIOUS
  <2> QED BY <2>1 DEF Init, EaInv, EaFields
<1>5. SrvInv
    BY DEF Init, SrvInv, SrvFields, NewSession
<1> QED BY <1>3, <1>4, <1>5 DEF LinkInv

LEMMA LinkNext == LinkInv /\ [Next]_vars => LinkInv'
<1> SUFFICES ASSUME LinkInv, [Next]_vars PROVE LinkInv'
    OBVIOUS
<1>1. CASE EaNext
    BY <1>1, OnInitKeeps, OnTickKeeps, OnTimerKeeps, RecvLineKeeps, OnDeinitKeeps, DiesKeeps
       DEF EaNext
<1>2. CASE SrvNext
    BY <1>2, AcceptKeeps, OnHelloKeeps, OnTickLineKeeps, OnAckKeeps, OnOtherKeeps, OnByeKeeps,
       OnEofKeeps, OnTimeoutKeeps
       DEF SrvNext
<1>3. CASE UNCHANGED vars
    BY <1>3 DEF vars, LinkInv, EaInv, SrvInv, FillsInv, NoGhostOrders
<1> QED BY <1>1, <1>2, <1>3, ResetKeeps DEF Next

\* Whatever is left in g_rxbuf when the link drops, the EA executes an order only on the
\* connection the server sent it on.
THEOREM NoStaleOrderExecuted == Spec => []NoGhostOrders
<1>1. Spec => []LinkInv
    BY LinkInit, LinkNext, PTL DEF Spec
<1>2. LinkInv => NoGhostOrders
    BY DEF LinkInv, FillsInv
<1> QED BY <1>1, <1>2, PTL
-----------------------------------------------------------------------------
(* ExampleStrategy's first tick. *)

\* A primed strategy has seen a tick, and one tick more than it has traded on.
CountInv ==
    /\ DOMAIN srv = SrvFields
    /\ srv.ticks \in Nat /\ srv.orders \in Nat
    /\ srv.primed => srv.ticks >= 1
    /\ FirstTickNeverTrades

SameCounts(s) ==
    /\ DOMAIN s = SrvFields
    /\ s.ticks = srv.ticks /\ s.orders = srv.orders /\ s.primed = srv.primed

LEMMA SameCountsKeeps == ASSUME CountInv, SameCounts(srv') PROVE CountInv'
    BY DEF CountInv, SameCounts, FirstTickNeverTrades

LEMMA AcceptCounts == ASSUME CountInv, Accept PROVE CountInv'
<1>1. srv' = NewSession(srv.last + 1)
    BY DEF Accept, Session
<1>2. /\ DOMAIN srv' = SrvFields /\ srv'.ticks = 0 /\ srv'.orders = 0 /\ ~srv'.primed
    BY <1>1 DEF NewSession, SrvFields
<1> QED BY <1>2 DEF CountInv, FirstTickNeverTrades

\* Reply replaces srv by s but for its state and connection.
LEMMA ReplyCounts ==
    ASSUME NEW s, DOMAIN s = SrvFields, NEW m, Reply(s, m)
    PROVE  /\ DOMAIN srv' = SrvFields
           /\ srv'.ticks = s.ticks /\ srv'.orders = s.orders /\ srv'.primed = s.primed
    BY DEF Reply, SrvFields

LEMMA TickCounts == ASSUME CountInv, OnTickLine PROVE CountInv'
<1> DEFINE mid == Head(Peer.up).mid
           s == [Awake EXCEPT !.ticks = @ + 1, !.primed = TRUE, !.prev_mid = mid]
           t == [s EXCEPT !.orders = @ + 1, !.next_id = NextId(@)]
<1>1. \/ srv.primed /\ Reply(t, Order(srv.conn, srv.next_id))
      \/ Reply(s, Msg("nop"))
    BY DEF OnTickLine, Fires
<1>2. DOMAIN srv = SrvFields /\ srv.ticks \in Nat /\ srv.orders \in Nat
    BY DEF CountInv
<1>3. /\ DOMAIN s = SrvFields /\ s.ticks = srv.ticks + 1 /\ s.orders = srv.orders
    BY <1>2 DEF SrvFields, Awake
<1>4. /\ DOMAIN t = SrvFields /\ t.ticks = srv.ticks + 1 /\ t.orders = srv.orders + 1
    BY <1>2 DEF SrvFields, Awake
<1> HIDE DEF s, t
<1>5. CASE srv.primed /\ Reply(t, Order(srv.conn, srv.next_id))
  <2>1. DOMAIN srv' = SrvFields /\ srv'.ticks = srv.ticks + 1 /\ srv'.orders = srv.orders + 1
      BY <1>4, <1>5, ReplyCounts
  <2>2. srv.ticks >= 1
      BY <1>5 DEF CountInv
  <2>3. srv.orders > 0 => srv.orders < srv.ticks
      BY DEF CountInv, FirstTickNeverTrades
  <2>4. srv'.ticks \in Nat /\ srv'.orders \in Nat /\ srv'.ticks >= 1 /\ srv'.orders < srv'.ticks
      BY <1>2, <2>1, <2>2, <2>3
  <2> QED BY <2>1, <2>4 DEF CountInv, FirstTickNeverTrades
<1>6. CASE Reply(s, Msg("nop"))
  <2>1. DOMAIN srv' = SrvFields /\ srv'.ticks = srv.ticks + 1 /\ srv'.orders = srv.orders
      BY <1>3, <1>6, ReplyCounts
  <2>2. srv.orders > 0 => srv.orders < srv.ticks
      BY DEF CountInv, FirstTickNeverTrades
  <2>3. /\ srv'.ticks \in Nat /\ srv'.orders \in Nat /\ srv'.ticks >= 1
        /\ (srv'.orders > 0 => srv'.orders < srv'.ticks)
      BY <1>2, <2>1, <2>2
  <2> QED BY <2>1, <2>3 DEF CountInv, FirstTickNeverTrades
<1> QED BY <1>1, <1>5, <1>6

LEMMA CountNext == CountInv /\ [Next]_vars => CountInv'
<1> SUFFICES ASSUME CountInv, [Next]_vars PROVE CountInv'
    OBVIOUS
<1>0. DOMAIN srv = SrvFields
    BY DEF CountInv
<1>1. CASE EaNext \/ ResetArrives \/ UNCHANGED vars
  <2>1. srv' = srv
      BY <1>1 DEF EaNext, OnInit, OnTick, OnTimer, RecvLine, OnDeinit, Dies, ResetArrives, vars
  <2> QED BY <1>0, <2>1, SameCountsKeeps DEF SameCounts
<1>2. CASE OnHello
  <2>1. DOMAIN Awake = SrvFields /\ Awake.ticks = srv.ticks /\ Awake.orders = srv.orders
        /\ Awake.primed = srv.primed
      BY <1>0 DEF Awake, SrvFields
  <2>2. SameCounts(srv')
      BY <1>2, <2>1, ReplyCounts DEF OnHello, SameCounts
  <2> QED BY <2>2, SameCountsKeeps
<1>3. CASE OnAck \/ OnOther
  <2>1. SameCounts(srv')
      BY <1>0, <1>3 DEF OnAck, OnOther, Awake, SameCounts, SrvFields
  <2> QED BY <2>1, SameCountsKeeps
<1>4. CASE OnBye \/ OnEof \/ OnTimeout
  <2>1. SameCounts(srv')
      BY <1>0, <1>4 DEF OnBye, OnEof, OnTimeout, EndSession, Awake, SameCounts, SrvFields
  <2> QED BY <2>1, SameCountsKeeps
<1> QED BY <1>1, <1>2, <1>3, <1>4, AcceptCounts, TickCounts DEF Next, SrvNext

\* A price move across a reconnection is never traded: each session's strategy starts
\* unprimed, so the first tick of a session cannot be an order's.
THEOREM NoTradeOnFirstTick == Spec => []FirstTickNeverTrades
<1>1. Init => CountInv
    BY DEF Init, CountInv, NewSession, SrvFields, FirstTickNeverTrades
<1>2. Spec => []CountInv
    BY <1>1, CountNext, PTL DEF Spec
<1>3. CountInv => FirstTickNeverTrades
    BY DEF CountInv
<1> QED BY <1>2, <1>3, PTL
-----------------------------------------------------------------------------
(* No order is executed twice. *)

\* The positions of s where an order starts.
Heads(s) == {i \in DOMAIN s : s[i].part = "head" /\ s[i].msg.kind = "order"}

\* The orders of s come in the order of their ids, after those executed on c.
Rising(s) == \A i, j \in Heads(s) : i < j => s[i].msg.id < s[j].msg.id
After(s, F, c) == \A k \in DOMAIN F, i \in Heads(s) : F[k].on = c => F[k].order.id < s[i].msg.id

\* No id from n on has been used on connection c.
Unused(s, F, c, n) ==
    /\ \A i \in Heads(s) : s[i].msg.id < n
    /\ \A k \in DOMAIN F : F[k].on = c => F[k].order.id < n

\* What the EA has yet to read.
Waiting == ea.rxbuf \o conns[ea.sock].down

WaitingInv ==
    /\ Rising(Waiting)
    /\ After(Waiting, fills, ea.sock)
    /\ Serving /\ srv.conn = ea.sock => Unused(Waiting, fills, ea.sock, srv.next_id)
    /\ ea.sock > srv.last => Unused(Waiting, fills, ea.sock, 1)

FillsOnce(F) ==
    /\ \A k \in DOMAIN F : F[k].order.id \in Nat
    /\ \A k, l \in DOMAIN F : k < l /\ F[k].on = F[l].on => F[k].order.id < F[l].order.id

OnceInv ==
    /\ LinkInv
    /\ srv.last = 0 \/ srv.last \in DOMAIN conns
    /\ Serving => srv.conn = srv.last
    /\ FillsOnce(fills)
    /\ \A k \in DOMAIN fills : fills[k].on \in DOMAIN conns
    /\ ea.sock # 0 /\ ea.state # "done" => WaitingInv

\* t is a part of s.
Within(t, s) ==
    \E a \in Nat : /\ Len(t) + a <= Len(s)
                   /\ \A i \in DOMAIN t : t[i] = s[i + a]

LEMMA HeadId ==
    ASSUME NEW c, NEW s \in Seq(FragOn(c)), NEW i \in Heads(s)
    PROVE  s[i].msg.id \in Nat
<1>1. i \in DOMAIN s /\ s[i].msg.kind = "order" /\ s[i] \in FragOn(c)
    BY DEF Heads
<1>2. PICK p \in {"head", "tail"}, m \in MsgOn(c) : s[i] = Fragment(p, m)
    BY <1>1 DEF FragOn
<1>3. s[i].msg = m /\ m.kind = "order"
    BY <1>1, <1>2 DEF Fragment
<1>4. m # Msg("hello") /\ m # Msg("nop")
    BY <1>3 DEF Msg
<1>5. PICK id \in Nat : m = Order(c, id)
    BY <1>4 DEF MsgOn
<1> QED BY <1>3, <1>5 DEF Order

\* A part of what waits keeps the order.
LEMMA PartKeeps ==
    ASSUME NEW c, NEW s \in Seq(FragOn(c)), NEW t \in Seq(FragOn(c)), Within(t, s), NEW F
    PROVE  /\ Rising(s) => Rising(t)
           /\ After(s, F, c) => After(t, F, c)
           /\ \A n : Unused(s, F, c, n) => Unused(t, F, c, n)
<1>1. PICK a \in Nat : /\ Len(t) + a <= Len(s)
                       /\ \A i \in DOMAIN t : t[i] = s[i + a]
    BY DEF Within
<1>2. ASSUME NEW i \in Heads(t) PROVE i \in Int /\ i + a \in Heads(s) /\ t[i] = s[i + a]
  <2>1. i \in 1 .. Len(t) /\ i + a \in DOMAIN s /\ t[i] = s[i + a]
      BY <1>1 DEF Heads
  <2> QED BY <2>1 DEF Heads
<1>3. ASSUME Rising(s) PROVE Rising(t)
  <2>1. ASSUME NEW i \in Heads(t), NEW j \in Heads(t), i < j PROVE t[i].msg.id < t[j].msg.id
    <3>1. i + a \in Heads(s) /\ j + a \in Heads(s) /\ i + a < j + a
        BY <1>2, <2>1
    <3> QED BY <1>2, <1>3, <3>1 DEF Rising
  <2> QED BY <2>1 DEF Rising
<1>4. ASSUME After(s, F, c) PROVE After(t, F, c)
    BY <1>2, <1>4 DEF After
<1>5. ASSUME NEW n, Unused(s, F, c, n) PROVE Unused(t, F, c, n)
    BY <1>2, <1>5 DEF Unused
<1> QED BY <1>3, <1>4, <1>5

IsBoth(t, s, u) == t = s \o u

\* A message put behind what waits: if it is an order, then of number n.
LEMMA OrderAdded ==
    ASSUME NEW c, NEW s \in Seq(FragOn(c)), NEW n \in Nat, NEW F, FillsOnce(F),
           Rising(s), After(s, F, c), Unused(s, F, c, n),
           NEW n2 \in Nat, n <= n2,
           NEW h, NEW l, h.part = "head", l.part = "tail",
           h.msg.kind = "order" => h.msg.id = n /\ n < n2,
           NEW t, IsBoth(t, s, <<h, l>>), h \in FragOn(c), l \in FragOn(c)
    PROVE  Rising(t) /\ After(t, F, c) /\ Unused(t, F, c, n2)
<1>1. /\ Len(s) \in Nat /\ DOMAIN s = 1 .. Len(s) /\ DOMAIN t = 1 .. Len(s) + 2
      /\ \A i \in 1 .. Len(s) : t[i] = s[i]
      /\ t[Len(s) + 1] = h /\ t[Len(s) + 2] = l
    BY DEF IsBoth
<1>2. ASSUME NEW i \in Heads(t)
      PROVE  \/ i \in Heads(s) /\ t[i] = s[i] /\ i \in 1 .. Len(s) /\ s[i].msg.id \in Nat
             \/ i = Len(s) + 1 /\ t[i].msg.id = n /\ n < n2
  <2>1. i \in 1 .. Len(s) \/ i = Len(s) + 1 \/ i = Len(s) + 2
      BY <1>1 DEF Heads
  <2>2. CASE i \in 1 .. Len(s)
    <3>1. i \in Heads(s) /\ t[i] = s[i]
        BY <1>1, <2>2 DEF Heads
    <3> QED BY <2>2, <3>1, HeadId
  <2>3. CASE i = Len(s) + 1
      BY <1>1, <2>3 DEF Heads
  <2>4. CASE i = Len(s) + 2
      BY <1>1, <2>4 DEF Heads
  <2> QED BY <2>1, <2>2, <2>3, <2>4
<1>3. Rising(t)
  <2>1. ASSUME NEW i \in Heads(t), NEW j \in Heads(t), i < j PROVE t[i].msg.id < t[j].msg.id
    <3>1. i # Len(s) + 1 \/ j # Len(s) + 1
        BY <1>1, <2>1
    <3>2. CASE i \in Heads(s) /\ t[i] = s[i] /\ j \in Heads(s) /\ t[j] = s[j]
        BY <2>1, <3>2 DEF Rising
    <3>3. CASE i \in Heads(s) /\ t[i] = s[i] /\ j = Len(s) + 1 /\ t[j].msg.id = n
        BY <3>3 DEF Unused
    <3>4. CASE i = Len(s) + 1 /\ j \in 1 .. Len(s)
        BY <1>1, <2>1, <3>4
    <3> QED BY <1>2, <3>1, <3>2, <3>3, <3>4
  <2> QED BY <2>1 DEF Rising
<1>4. After(t, F, c)
  <2>1. ASSUME NEW k \in DOMAIN F, NEW i \in Heads(t), F[k].on = c
        PROVE  F[k].order.id < t[i].msg.id
      BY <1>2, <2>1 DEF After, Unused
  <2> QED BY <2>1 DEF After
<1>5. Unused(t, F, c, n2)
  <2>1. ASSUME NEW i \in Heads(t) PROVE t[i].msg.id < n2
    <3>1. CASE i \in Heads(s) /\ t[i] = s[i] /\ s[i].msg.id \in Nat
      <4>1. t[i].msg.id < n /\ t[i].msg.id \in Nat
          BY <3>1 DEF Unused
      <4> QED BY <4>1
    <3>2. CASE t[i].msg.id = n /\ n < n2
        BY <3>2
    <3> QED BY <1>2, <3>1, <3>2
  <2>2. ASSUME NEW k \in DOMAIN F, F[k].on = c PROVE F[k].order.id < n2
    <3>1. F[k].order.id \in Nat /\ F[k].order.id < n
        BY <2>2 DEF Unused, FillsOnce
    <3> QED BY <3>1
  <2> QED BY <2>1, <2>2 DEF Unused
<1> QED BY <1>3, <1>4, <1>5

IsRest(t, s, e) == e \in Nat /\ Len(t) + e <= Len(s) /\ \A i \in DOMAIN t : t[i] = s[i + e]
IsFill(G, F, m, c) == G = Append(F, [order |-> m, on |-> c])

\* An order executed, and everything up to it taken off what waits.
LEMMA FillOnce ==
    ASSUME NEW c, NEW s \in Seq(FragOn(c)), NEW t \in Seq(FragOn(c)), NEW F, \E S : F \in Seq(S),
           FillsOnce(F), Rising(s), After(s, F, c),
           NEW e, IsRest(t, s, e), NEW h \in Heads(s), h <= e,
           NEW G, IsFill(G, F, s[h].msg, c)
    PROVE  /\ FillsOnce(G) /\ Rising(t) /\ After(t, G, c)
           /\ \A n : Unused(s, F, c, n) => Unused(t, G, c, n)
<1> DEFINE x == [order |-> s[h].msg, on |-> c]
           m == s[h].msg
<1>0. e \in Nat /\ Len(t) + e <= Len(s) /\ \A i \in DOMAIN t : t[i] = s[i + e]
    BY DEF IsRest
<1>1. x.order = m /\ x.on = c /\ G = Append(F, x)
    BY DEF IsFill
<1>2. m.id \in Nat
    BY HeadId
<1> HIDE DEF x
<1>3. /\ DOMAIN Append(F, x) = 1 .. Len(F) + 1 /\ DOMAIN F = 1 .. Len(F) /\ Len(F) \in Nat
      /\ Append(F, x)[Len(F) + 1] = x
      /\ \A i \in DOMAIN F : Append(F, x)[i] = F[i]
    BY AppendSeq
<1>4. /\ DOMAIN G = 1 .. Len(F) + 1 /\ DOMAIN F = 1 .. Len(F) /\ Len(F) \in Nat
      /\ G[Len(F) + 1] = x
      /\ \A i \in DOMAIN F : G[i] = F[i]
    BY <1>1, <1>3
<1> HIDE DEF m
<1>5. \A k \in DOMAIN F : F[k].on = c => F[k].order.id < m.id
    BY DEF After, m
<1>6. ASSUME NEW k \in DOMAIN G PROVE k \in DOMAIN F \/ k = Len(F) + 1
    BY <1>4
<1>7. FillsOnce(G)
  <2>1. ASSUME NEW k \in DOMAIN G PROVE G[k].order.id \in Nat
      BY <1>1, <1>2, <1>4, <1>6 DEF FillsOnce
  <2>2. ASSUME NEW k \in DOMAIN G, NEW l \in DOMAIN G, k < l, G[k].on = G[l].on
        PROVE  G[k].order.id < G[l].order.id
    <3>1. k \in DOMAIN F
        BY <1>4, <2>2
    <3>2. CASE l \in DOMAIN F
        BY <1>4, <2>2, <3>1, <3>2 DEF FillsOnce
    <3>3. CASE l = Len(F) + 1
      <4>1. G[l] = x /\ G[k] = F[k]
          BY <1>4, <3>1, <3>3
      <4>2. F[k].on = c
          BY <1>1, <2>2, <4>1
      <4> QED BY <1>1, <1>5, <3>1, <4>1, <4>2
    <3> QED BY <1>6, <3>2, <3>3
  <2> QED BY <2>1, <2>2 DEF FillsOnce
<1>8. Within(t, s)
    BY <1>0 DEF Within
<1>9. Rising(t) /\ After(t, F, c)
    BY <1>8, PartKeeps
<1>10. ASSUME NEW i \in Heads(t) PROVE m.id < t[i].msg.id
  <2>1. i \in 1 .. Len(t) /\ i + e \in DOMAIN s /\ t[i] = s[i + e]
      BY <1>0 DEF Heads
  <2>2. i + e \in Heads(s)
      BY <2>1 DEF Heads
  <2>3. h \in 1 .. Len(s) /\ h < i + e
      BY <1>0, <2>1 DEF Heads
  <2> QED BY <2>1, <2>2, <2>3 DEF Rising, m
<1>11. After(t, G, c)
  <2>1. ASSUME NEW k \in DOMAIN G, NEW i \in Heads(t), G[k].on = c
        PROVE  G[k].order.id < t[i].msg.id
    <3>1. CASE k \in DOMAIN F
        BY <1>4, <1>9, <2>1, <3>1 DEF After
    <3>2. CASE k = Len(F) + 1
        BY <1>1, <1>4, <1>10, <3>2
    <3> QED BY <1>6, <3>1, <3>2
  <2> QED BY <2>1 DEF After
<1>12. ASSUME NEW n, Unused(s, F, c, n) PROVE Unused(t, G, c, n)
  <2>1. Unused(t, F, c, n)
      BY <1>8, <1>12, PartKeeps
  <2>2. m.id < n
      BY <1>12 DEF Unused, m
  <2>3. ASSUME NEW k \in DOMAIN G, G[k].on = c PROVE G[k].order.id < n
    <3>1. CASE k \in DOMAIN F
        BY <1>4, <2>1, <2>3, <3>1 DEF Unused
    <3>2. CASE k = Len(F) + 1
        BY <1>1, <1>4, <2>2, <3>2
    <3> QED BY <1>6, <3>1, <3>2
  <2> QED BY <2>1, <2>3 DEF Unused
<1> QED BY <1>7, <1>9, <1>11, <1>12

LEMMA UnusedMore ==
    ASSUME NEW c, NEW s \in Seq(FragOn(c)), NEW F, FillsOnce(F),
           NEW n \in Nat, NEW m \in Nat, n <= m, Unused(s, F, c, n)
    PROVE  Unused(s, F, c, m)
<1>1. ASSUME NEW i \in Heads(s) PROVE s[i].msg.id < m
  <2>1. s[i].msg.id \in Nat /\ s[i].msg.id < n
      BY HeadId DEF Unused
  <2> QED BY <2>1
<1>2. ASSUME NEW k \in DOMAIN F, F[k].on = c PROVE F[k].order.id < m
  <2>1. F[k].order.id \in Nat /\ F[k].order.id < n
      BY <1>2 DEF Unused, FillsOnce
  <2> QED BY <2>1
<1> QED BY <1>1, <1>2 DEF Unused

LEMMA WaitingType ==
    ASSUME LinkInv, ea.sock # 0, ea.state # "done"
    PROVE  Waiting \in Seq(FragOn(ea.sock))
<1>1. ea.rxbuf \in Seq(FragOn(ea.sock)) /\ conns[ea.sock].down \in Seq(FragOn(ea.sock))
    BY SockConnOK DEF LinkInv, EaInv, ConnOK
<1> QED BY <1>1 DEF Waiting

LEMMA WaitingTypeNext ==
    ASSUME LinkInv', ea'.sock # 0, ea'.state # "done"
    PROVE  Waiting' \in Seq(FragOn(ea'.sock))
<1>1. ea'.rxbuf \in Seq(FragOn(ea'.sock)) /\ conns'[ea'.sock].down \in Seq(FragOn(ea'.sock))
    BY DEF LinkInv, EaInv, ConnsOK, ConnOK
<1> QED BY <1>1 DEF Waiting

\* Steps on the same connection after which no more waits than before.
LEMMA NoMoreWaits ==
    ASSUME OnceInv, LinkInv', DOMAIN conns \subseteq DOMAIN conns',
           ea'.sock = ea.sock, ea'.state # "done" => ea.state # "done", fills' = fills,
           srv'.last = srv.last, srv'.next_id >= srv.next_id,
           Serving' => Serving /\ srv'.conn = srv.conn,
           ea.sock # 0 /\ ea.state # "done" => Within(Waiting', Waiting)
    PROVE  OnceInv'
<1>1. /\ srv'.last = 0 \/ srv'.last \in DOMAIN conns'
      /\ Serving' => srv'.conn = srv'.last
      /\ FillsOnce(fills')
      /\ \A k \in DOMAIN fills' : fills'[k].on \in DOMAIN conns'
    BY DEF OnceInv
<1>2. ASSUME ea'.sock # 0, ea'.state # "done" PROVE WaitingInv'
  <2>1. Waiting \in Seq(FragOn(ea.sock)) /\ Waiting' \in Seq(FragOn(ea.sock))
    <3>1. ea.sock # 0 /\ ea.state # "done" /\ LinkInv
        BY <1>2 DEF OnceInv
    <3> QED BY <1>2, <3>1, WaitingType, WaitingTypeNext
  <2>2. WaitingInv /\ Within(Waiting', Waiting)
      BY <1>2 DEF OnceInv
  <2>3. srv.next_id \in Nat /\ srv'.next_id \in Nat /\ FillsOnce(fills)
      BY DEF OnceInv, LinkInv, SrvInv
  <2>4. Rising(Waiting') /\ After(Waiting', fills, ea.sock)
      BY <2>1, <2>2, PartKeeps DEF WaitingInv
  <2>5. ASSUME Serving', srv'.conn = ea'.sock
        PROVE  Unused(Waiting', fills, ea.sock, srv'.next_id)
    <3>1. Unused(Waiting, fills, ea.sock, srv.next_id)
        BY <2>2, <2>5 DEF WaitingInv
    <3>2. Unused(Waiting', fills, ea.sock, srv.next_id)
        BY <2>1, <2>2, <3>1, PartKeeps
    <3> QED BY <2>1, <2>3, <3>2, UnusedMore
  <2>6. ASSUME ea'.sock > srv'.last PROVE Unused(Waiting', fills, ea.sock, 1)
    <3>1. Unused(Waiting, fills, ea.sock, 1)
        BY <2>2, <2>6 DEF WaitingInv
    <3> QED BY <2>1, <2>2, <3>1, PartKeeps
  <2> QED BY <2>4, <2>5, <2>6 DEF WaitingInv
<1> QED BY <1>1, <1>2 DEF OnceInv

LEMMA PrefixWithin ==
    ASSUME NEW T, NEW s \in Seq(T), NEW u \in Seq(T)
    PROVE  Within(s, s \o u)
<1>1. Len(s) + 0 <= Len(s \o u) /\ \A i \in DOMAIN s : s[i] = (s \o u)[i + 0]
    OBVIOUS
<1> QED BY <1>1 DEF Within

\* Waiting after a step that leaves the buffer alone and at most empties the link.
LEMMA SameOrEmptied ==
    ASSUME LinkInv, ea.sock # 0, ea.state # "done", ea'.sock = ea.sock, ea'.rxbuf = ea.rxbuf,
           \/ conns'[ea.sock].down = conns[ea.sock].down
           \/ conns'[ea.sock].down = <<>>
    PROVE  Within(Waiting', Waiting)
<1>1. ea.rxbuf \in Seq(FragOn(ea.sock)) /\ conns[ea.sock].down \in Seq(FragOn(ea.sock))
    BY SockConnOK DEF LinkInv, EaInv, ConnOK
<1>2. CASE conns'[ea.sock].down = conns[ea.sock].down
  <2>1. Waiting' = Waiting /\ Waiting \in Seq(FragOn(ea.sock))
      BY <1>1, <1>2 DEF Waiting
  <2>2. 0 \in Nat /\ Len(Waiting) + 0 <= Len(Waiting) /\ \A i \in DOMAIN Waiting : Waiting[i] = Waiting[i + 0]
      BY <2>1
  <2> QED BY <2>1, <2>2 DEF Within
<1>3. CASE conns'[ea.sock].down = <<>>
  <2>1. Waiting' = ea.rxbuf
      BY <1>1, <1>3 DEF Waiting
  <2> QED BY <1>1, <2>1, PrefixWithin DEF Waiting
<1> QED BY <1>2, <1>3

\* The EA without a connection.
LEMMA Detached ==
    ASSUME OnceInv, LinkInv', DOMAIN conns \subseteq DOMAIN conns',
           ea'.sock = 0 \/ ea'.state = "done", UNCHANGED <<srv, fills>>
    PROVE  OnceInv'
<1>1. Serving' => Serving
    BY DEF Serving
<1> QED BY <1>1 DEF OnceInv

\* The EA on a new connection: nothing waits there, nothing was executed there.
LEMMA Reconnected ==
    ASSUME OnceInv, LinkInv', DOMAIN conns \subseteq DOMAIN conns',
           ea'.sock = Len(conns) + 1, ea'.rxbuf = <<>>, conns'[ea'.sock].down = <<>>,
           UNCHANGED <<srv, fills>>
    PROVE  OnceInv'
<1>1. DOMAIN conns = 1 .. Len(conns) /\ Len(conns) \in Nat
    BY AppendSeq DEF OnceInv, LinkInv, ConnsOK
<1>2. ea'.sock \notin DOMAIN conns
    BY <1>1
<1>3. Waiting' = <<>>
    BY DEF Waiting
<1>4. Heads(Waiting') = {}
    BY <1>3 DEF Heads
<1>5. \A k \in DOMAIN fills : fills[k].on # ea'.sock
    BY <1>2 DEF OnceInv
<1>6. WaitingInv'
  <2>1. Rising(Waiting') /\ After(Waiting', fills, ea'.sock)
      BY <1>4 DEF Rising, After
  <2>2. \A n : Unused(Waiting', fills, ea'.sock, n)
      BY <1>4, <1>5 DEF Unused
  <2> QED BY <2>1, <2>2 DEF WaitingInv
<1>7. Serving' => Serving
    BY DEF Serving
<1> QED BY <1>6, <1>7 DEF OnceInv
-----------------------------------------------------------------------------
(* The EA's actions keep OnceInv. *)

LEMMA ConnectShape ==
    ASSUME LinkInv, NEW extra, ConnectOK(extra)
    PROVE  DOMAIN conns \subseteq DOMAIN conns' /\ conns'[Len(conns) + 1].down = <<>>
<1> DEFINE r == SendUp(NewConn, <<Msg("hello"), Msg("subscribe")>> \o extra)
<1>1. ConnsOK(AfterClose) /\ DOMAIN AfterClose = DOMAIN conns /\ Len(AfterClose) = Len(conns)
    BY ClosedOK
<1>2. r.down = <<>>
    BY DEF SendUp, NewConn
<1>3. conns' = Append(AfterClose, r)
    BY DEF ConnectOK
<1> HIDE DEF r
<1>4. \E S : AfterClose \in Seq(S)
    BY <1>1 DEF ConnsOK
<1>5. /\ DOMAIN Append(AfterClose, r) = 1 .. Len(AfterClose) + 1
      /\ DOMAIN AfterClose = 1 .. Len(AfterClose) /\ Len(AfterClose) \in Nat
      /\ Append(AfterClose, r)[Len(AfterClose) + 1] = r
    BY <1>4, AppendSeq
<1> QED BY <1>1, <1>2, <1>3, <1>5

LEMMA LinkKept == ASSUME OnceInv, Next PROVE LinkInv /\ LinkInv'
    BY LinkNext DEF OnceInv

LEMMA ClosedDomain ==
    ASSUME LinkInv
    PROVE  /\ DOMAIN AfterClose = DOMAIN conns
           /\ ea.sock # 0 => AfterClose[ea.sock].down = <<>>
<1>1. DOMAIN AfterClose = DOMAIN conns
    BY ClosedOK
<1>2. ASSUME ea.sock # 0 PROVE AfterClose[ea.sock].down = <<>>
  <2>1. ea.sock \in DOMAIN conns /\ DOMAIN conns[ea.sock] = ConnFields
      BY <1>2, SockConnOK DEF ConnOK
  <2>2. EaClose(conns[ea.sock]).down = <<>>
      BY <2>1 DEF EaClose, ConnFields
  <2> QED BY <1>2, <2>1, <2>2 DEF AfterClose
<1> QED BY <1>1, <1>2

LEMMA ConnectOnce ==
    ASSUME OnceInv, Next, NEW extra, ConnectOK(extra),
           ea'.sock = Len(conns) + 1, ea'.rxbuf = <<>>, UNCHANGED <<srv, fills>>
    PROVE  OnceInv'
    BY LinkKept, ConnectShape, Reconnected

LEMMA ConnectFailsOnce ==
    ASSUME OnceInv, Next, ConnectFails, UNCHANGED <<srv, fills>>
    PROVE  OnceInv'
<1>1. LinkInv /\ LinkInv' /\ DOMAIN ea = EaFields
    BY LinkKept DEF LinkInv, EaInv
<1>2. ea'.sock = 0 /\ conns' = AfterClose
    BY <1>1 DEF ConnectFails, EaFields
<1>3. DOMAIN conns' = DOMAIN conns
    BY <1>1, <1>2, ClosedDomain
<1> QED BY <1>1, <1>2, <1>3, Detached

\* The EA's connection changes, but not what waits there.
LEMMA EaSameOnce ==
    ASSUME OnceInv, Next, ea.state # "done", ea.sock # 0,
           ea'.sock = ea.sock, ea'.rxbuf = ea.rxbuf, DOMAIN conns' = DOMAIN conns,
           conns'[ea.sock].down = conns[ea.sock].down \/ conns'[ea.sock].down = <<>>,
           UNCHANGED <<srv, fills>>
    PROVE  OnceInv'
<1>1. LinkInv /\ LinkInv'
    BY LinkKept
<1>2. Within(Waiting', Waiting)
    BY <1>1, SameOrEmptied
<1>3. srv.next_id \in Nat
    BY <1>1 DEF LinkInv, SrvInv
<1>4. srv'.last = srv.last /\ srv'.next_id >= srv.next_id
    BY <1>3
<1>5. Serving' => Serving /\ srv'.conn = srv.conn
    BY DEF Serving
<1> QED BY <1>1, <1>2, <1>4, <1>5, NoMoreWaits

LEMMA SentUp ==
    ASSUME LinkInv, ea.sock # 0, NEW ms, conns' = [conns EXCEPT ![ea.sock] = SendUp(conns[ea.sock], ms)]
    PROVE  DOMAIN conns' = DOMAIN conns /\ conns'[ea.sock].down = conns[ea.sock].down
<1>1. ea.sock \in DOMAIN conns /\ DOMAIN conns[ea.sock] = ConnFields
    BY SockConnOK DEF ConnOK
<1>2. SendUp(conns[ea.sock], ms).down = conns[ea.sock].down
    BY <1>1 DEF SendUp, ConnFields
<1> QED BY <1>1, <1>2

LEMMA OnInitOnce == ASSUME OnceInv, OnInit PROVE OnceInv'
<1>0. Next /\ UNCHANGED <<srv, fills>> /\ DOMAIN ea = EaFields
    BY DEF Next, EaNext, OnInit, OnceInv, LinkInv, EaInv
<1>1. CASE ConnectOK(<<>>) /\ ea' = [AfterConnect EXCEPT !.state = "idle"]
  <2>1. ea'.sock = Len(conns) + 1 /\ ea'.rxbuf = <<>>
      BY <1>0, <1>1 DEF AfterConnect, EaFields
  <2> QED BY <1>0, <1>1, <2>1, ConnectOnce
<1>2. CASE ConnectFails
    BY <1>0, <1>2, ConnectFailsOnce
<1> QED BY <1>1, <1>2 DEF OnInit

LEMMA OnTickOnce == ASSUME OnceInv, OnTick PROVE OnceInv'
<1>0. /\ Next /\ UNCHANGED <<srv, fills>> /\ DOMAIN ea = EaFields /\ LinkInv
      /\ ea.state # "done" /\ ea.sock # 0
    BY DEF Next, EaNext, OnTick, MaySeeLink, OnceInv, LinkInv, EaInv
<1>1. PICK mid \in Mids : conns' = [conns EXCEPT ![ea.sock] = SendUp(conns[ea.sock], <<Tick(mid)>>)]
    BY DEF OnTick
<1>2. DOMAIN conns' = DOMAIN conns /\ conns'[ea.sock].down = conns[ea.sock].down
    BY <1>0, <1>1, SentUp
<1>3. ea'.sock = ea.sock /\ ea'.rxbuf = ea.rxbuf
    BY <1>0 DEF OnTick, EaFields
<1> QED BY <1>0, <1>2, <1>3, EaSameOnce

LEMMA OnTimerOnce == ASSUME OnceInv, OnTimer PROVE OnceInv'
<1>0. /\ Next /\ UNCHANGED <<srv, fills>> /\ DOMAIN ea = EaFields /\ LinkInv
      /\ ea.state # "done"
    BY DEF Next, EaNext, OnTimer, OnceInv, LinkInv, EaInv
<1>1. CASE MaySeeLink /\ \E hb \in Heartbeats :
                /\ conns' = [conns EXCEPT ![ea.sock] = SendUp(@, hb)]
                /\ ea' = ToTimer(ea, hb)
  <2>1. PICK hb \in Heartbeats :
            conns' = [conns EXCEPT ![ea.sock] = SendUp(conns[ea.sock], hb)] /\ ea' = ToTimer(ea, hb)
      BY <1>1
  <2>2. ea'.sock = ea.sock /\ ea'.rxbuf = ea.rxbuf
      BY <1>0, <2>1 DEF ToTimer, EaFields
  <2>3. ea.sock # 0
      BY <1>1 DEF MaySeeLink
  <2>4. DOMAIN conns' = DOMAIN conns /\ conns'[ea.sock].down = conns[ea.sock].down
      BY <1>0, <2>1, <2>3, SentUp
  <2> QED BY <1>0, <2>2, <2>3, <2>4, EaSameOnce
<1>2. CASE \E hb \in Heartbeats : ConnectOK(hb) /\ ea' = ToTimer(AfterConnect, hb)
  <2>1. PICK hb \in Heartbeats : ConnectOK(hb) /\ ea' = ToTimer(AfterConnect, hb)
      BY <1>2
  <2>2. ea'.sock = Len(conns) + 1 /\ ea'.rxbuf = <<>>
      BY <1>0, <2>1 DEF AfterConnect, ToTimer, EaFields
  <2> QED BY <1>0, <2>1, <2>2, ConnectOnce
<1>3. CASE ConnectFails
    BY <1>0, <1>3, ConnectFailsOnce
<1> QED BY <1>1, <1>2, <1>3 DEF OnTimer

LEMMA OnDeinitOnce == ASSUME OnceInv, OnDeinit PROVE OnceInv'
<1>0. Next /\ UNCHANGED <<srv, fills>> /\ DOMAIN ea = EaFields
    BY DEF Next, EaNext, OnDeinit, OnceInv, LinkInv, EaInv
<1>1. LinkInv /\ LinkInv'
    BY <1>0, LinkKept
<1>2. ea'.state = "done"
    BY <1>0 DEF OnDeinit, EaFields
<1>3. DOMAIN conns' = DOMAIN conns
    BY DEF OnDeinit
<1> QED BY <1>0, <1>1, <1>2, <1>3, Detached

LEMMA DiesOnce == ASSUME OnceInv, Dies PROVE OnceInv'
<1>0. /\ Next /\ UNCHANGED <<srv, fills>> /\ DOMAIN ea = EaFields /\ LinkInv
      /\ ea.state # "done"
    BY DEF Next, EaNext, Dies, OnceInv, LinkInv, EaInv
<1>1. ea'.sock = ea.sock /\ ea'.rxbuf = ea.rxbuf
    BY <1>0 DEF Dies, EaFields
<1>2. DOMAIN conns' = DOMAIN conns
    BY <1>0, ClosedDomain DEF Dies
<1>3. CASE ea.sock = 0
  <2>1. LinkInv'
      BY <1>0, LinkKept
  <2> QED BY <1>0, <1>1, <1>2, <1>3, <2>1, Detached
<1>4. CASE ea.sock # 0
  <2>1. conns'[ea.sock].down = conns[ea.sock].down \/ conns'[ea.sock].down = <<>>
      BY <1>0, <1>4, ClosedDomain DEF Dies
  <2> QED BY <1>0, <1>1, <1>2, <1>4, <2>1, EaSameOnce
<1> QED BY <1>3, <1>4

IsCut(dn, n, got, rest) ==
    n \in 0 .. Len(dn) /\ got = SubSeq(dn, 1, n) /\ rest = SubSeq(dn, n + 1, Len(dn))

IsTail(u, buf, e) ==
    e \in 0 .. Len(buf) /\ Len(u) = Len(buf) - e /\ \A i \in DOMAIN u : u[i] = buf[i + e]

LEMMA BothParts ==
    ASSUME NEW T, NEW a \in Seq(T), NEW b \in Seq(T), NEW c, IsBoth(c, a, b)
    PROVE  /\ c \in Seq(T) /\ Len(c) = Len(a) + Len(b)
           /\ \A i \in 1 .. Len(a) : c[i] = a[i]
           /\ \A i \in 1 .. Len(c) : i > Len(a) => c[i] = b[i - Len(a)]
<1>1. c = a \o b
    BY DEF IsBoth
<1>2. /\ a \o b \in Seq(T) /\ Len(a \o b) = Len(a) + Len(b)
      /\ \A i \in 1 .. Len(a) : (a \o b)[i] = a[i]
    OBVIOUS
<1>3. ASSUME NEW i \in 1 .. Len(a \o b), i > Len(a) PROVE (a \o b)[i] = b[i - Len(a)]
    BY <1>3
<1> QED BY <1>1, <1>2, <1>3

LEMMA CutParts ==
    ASSUME NEW T, NEW dn \in Seq(T), NEW n, NEW got, NEW rest, IsCut(dn, n, got, rest)
    PROVE  /\ n \in 0 .. Len(dn)
           /\ got \in Seq(T) /\ Len(got) = n /\ \A i \in 1 .. n : got[i] = dn[i]
           /\ rest \in Seq(T) /\ Len(rest) = Len(dn) - n
           /\ \A i \in 1 .. Len(rest) : rest[i] = dn[i + n]
<1>1. n \in 0 .. Len(dn) /\ got = SubSeq(dn, 1, n) /\ rest = SubSeq(dn, n + 1, Len(dn))
    BY DEF IsCut
<1>2. got \in Seq(T) /\ Len(got) = n /\ \A i \in 1 .. n : got[i] = dn[i]
    BY <1>1
<1>3. rest \in Seq(T) /\ Len(rest) = Len(dn) - n
    BY <1>1
<1>4. ASSUME NEW i \in 1 .. Len(rest) PROVE rest[i] = dn[i + n]
    BY <1>1, <1>3
<1> QED BY <1>1, <1>2, <1>3, <1>4

\* RecvLine moves n fragments to the buffer and takes its first e.
LEMMA Reading ==
    ASSUME NEW T, NEW rx \in Seq(T), NEW dn \in Seq(T), NEW n, NEW got, NEW rest,
           IsCut(dn, n, got, rest), NEW buf, IsBoth(buf, rx, got), NEW e,
           NEW u \in Seq(T), IsTail(u, buf, e),
           NEW t, IsBoth(t, u, rest), NEW s, IsBoth(s, rx, dn)
    PROVE  /\ \A i \in DOMAIN buf : i \in DOMAIN s /\ buf[i] = s[i]
           /\ Len(t) + e = Len(s) /\ Len(t) + e <= Len(s)
           /\ \A i \in DOMAIN t : t[i] = s[i + e]
<1>1. /\ n \in 0 .. Len(dn)
      /\ got \in Seq(T) /\ Len(got) = n /\ \A i \in 1 .. n : got[i] = dn[i]
      /\ rest \in Seq(T) /\ Len(rest) = Len(dn) - n
      /\ \A i \in 1 .. Len(rest) : rest[i] = dn[i + n]
    BY CutParts
<1>2. /\ buf \in Seq(T) /\ Len(buf) = Len(rx) + Len(got)
      /\ \A i \in 1 .. Len(rx) : buf[i] = rx[i]
      /\ \A i \in 1 .. Len(buf) : i > Len(rx) => buf[i] = got[i - Len(rx)]
    BY <1>1, BothParts, SMTT(30)
<1>3. /\ s \in Seq(T) /\ Len(s) = Len(rx) + Len(dn)
      /\ \A i \in 1 .. Len(rx) : s[i] = rx[i]
      /\ \A i \in 1 .. Len(s) : i > Len(rx) => s[i] = dn[i - Len(rx)]
    BY BothParts
<1>4. /\ t \in Seq(T) /\ Len(t) = Len(u) + Len(rest)
      /\ \A i \in 1 .. Len(u) : t[i] = u[i]
      /\ \A i \in 1 .. Len(t) : i > Len(u) => t[i] = rest[i - Len(u)]
  <2>1. rest \in Seq(T)
      BY <1>1
  <2> QED BY <2>1, BothParts
<1>8. e \in 0 .. Len(buf) /\ Len(u) = Len(buf) - e /\ \A i \in DOMAIN u : u[i] = buf[i + e]
    BY DEF IsTail
<1>9. /\ Len(rx) \in Nat /\ Len(dn) \in Nat /\ Len(u) \in Nat /\ DOMAIN u = 1 .. Len(u)
      /\ DOMAIN s = 1 .. Len(s) /\ DOMAIN t = 1 .. Len(t) /\ DOMAIN buf = 1 .. Len(buf)
    BY <1>2, <1>3, <1>4
<1>5. ASSUME NEW i \in 1 .. Len(buf) PROVE i \in 1 .. Len(s) /\ buf[i] = s[i]
  <2>1. i \in 1 .. Len(s)
      BY <1>1, <1>2, <1>3, <1>9
  <2>2. CASE i <= Len(rx)
    <3>1. i \in 1 .. Len(rx)
        BY <1>9, <2>2
    <3> QED BY <1>2, <1>3, <2>1, <3>1
  <2>3. CASE i > Len(rx)
    <3>1. i - Len(rx) \in 1 .. n
        BY <1>1, <1>2, <1>9, <2>3
    <3>2. buf[i] = got[i - Len(rx)] /\ s[i] = dn[i - Len(rx)]
        BY <1>2, <1>3, <2>1, <2>3
    <3> QED BY <1>1, <2>1, <3>1, <3>2
  <2> QED BY <1>9, <2>1, <2>2, <2>3
<1>6. Len(t) + e = Len(s)
    BY <1>1, <1>2, <1>3, <1>4, <1>8, <1>9
<1>7. ASSUME NEW i \in 1 .. Len(t) PROVE t[i] = s[i + e]
  <2>1. CASE i <= Len(u)
    <3>1. i \in 1 .. Len(u) /\ i + e \in 1 .. Len(buf)
        BY <1>8, <1>9, <2>1
    <3>2. t[i] = u[i] /\ u[i] = buf[i + e]
        BY <1>4, <1>8, <1>9, <3>1
    <3> QED BY <1>5, <3>1, <3>2
  <2>2. CASE i > Len(u)
    <3>1. i - Len(u) \in 1 .. Len(rest) /\ i + e \in 1 .. Len(s) /\ i + e > Len(rx)
          /\ (i + e) - Len(rx) = (i - Len(u)) + n
      <4>1. /\ Len(rest) = Len(dn) - n /\ Len(u) = (Len(rx) + n) - e
            /\ Len(t) = Len(u) + Len(rest) /\ Len(s) = Len(rx) + Len(dn)
            /\ n \in Int /\ e \in Int /\ e >= 0 /\ n >= 0
          BY <1>1, <1>2, <1>3, <1>4, <1>8, <1>9
      <4>2. i \in Int /\ i >= 1 /\ i <= Len(t) /\ i > Len(u)
          BY <1>4, <2>2
      <4> QED BY <1>9, <4>1, <4>2
    <3>2. t[i] = rest[i - Len(u)]
        BY <1>4, <2>2
    <3>3. rest[i - Len(u)] = dn[(i - Len(u)) + n]
        BY <1>1, <3>1
    <3>4. s[i + e] = dn[(i + e) - Len(rx)]
        BY <1>3, <3>1
    <3> QED BY <3>1, <3>2, <3>3, <3>4
  <2> QED BY <1>9, <2>1, <2>2
<1>10. Len(t) + e <= Len(s)
    BY <1>3, <1>6, <1>9
<1> QED BY <1>5, <1>6, <1>7, <1>9, <1>10

LEMMA ReadWithin ==
    ASSUME LinkInv, ea.sock # 0, ea.state # "done", ea'.sock = ea.sock,
           NEW n, NEW got, NEW rest, IsCut(conns[ea.sock].down, n, got, rest),
           NEW buf, IsBoth(buf, ea.rxbuf, got), NEW e, IsTail(ea'.rxbuf, buf, e),
           ea'.rxbuf \in Seq(FragOn(ea.sock)), conns'[ea.sock].down = rest
    PROVE  /\ \A i \in DOMAIN buf : i \in DOMAIN Waiting /\ buf[i] = Waiting[i]
           /\ Len(Waiting') + e = Len(Waiting) /\ Len(Waiting') + e <= Len(Waiting)
           /\ \A i \in DOMAIN Waiting' : Waiting'[i] = Waiting[i + e]
<1>1. ea.rxbuf \in Seq(FragOn(ea.sock)) /\ conns[ea.sock].down \in Seq(FragOn(ea.sock))
    BY SockConnOK DEF LinkInv, EaInv, ConnOK
<1>2. IsBoth(Waiting, ea.rxbuf, conns[ea.sock].down) /\ IsBoth(Waiting', ea'.rxbuf, rest)
    BY DEF Waiting, IsBoth
<1> QED BY <1>1, <1>2, Reading

LEMMA RecvLineOnce == ASSUME OnceInv, RecvLine PROVE OnceInv'
<1>0. /\ Next /\ UNCHANGED srv /\ DOMAIN ea = EaFields /\ LinkInv
      /\ ea.state # "done" /\ ea.sock # 0 /\ ea.rxbuf \in Seq(FragOn(ea.sock))
    BY DEF Next, EaNext, RecvLine, OnceInv, LinkInv, EaInv
<1>1. LinkInv'
    BY <1>0, LinkKept
<1>2. /\ ea.sock \in DOMAIN conns /\ DOMAIN conns[ea.sock] = ConnFields
      /\ conns[ea.sock].down \in Seq(FragOn(ea.sock)) /\ Here = conns[ea.sock]
    BY <1>0, SockConnOK DEF ConnOK, Here
<1> DEFINE got(n)  == SubSeq(Here.down, 1, n)
           buf(n)  == ea.rxbuf \o got(n)
           rest(n) == SubSeq(Here.down, n + 1, Len(Here.down))
<1>3. PICK n \in 0 .. Len(Here.down) :
        \/ /\ ea' = [ea EXCEPT !.rxbuf = buf(n), !.state = "idle"]
           /\ conns' = [conns EXCEPT ![ea.sock].down = rest(n)]
           /\ UNCHANGED fills
        \/ \E e \in LineEnd(buf(n)) :
              /\ ea' = [ea EXCEPT !.rxbuf = SubSeq(buf(n), e + 1, Len(buf(n)))]
              /\ \/ \E o \in OrdersIn(SubSeq(buf(n), 1, e)) :
                       /\ conns' = [conns EXCEPT ![ea.sock] =
                                      SendUp([@ EXCEPT !.down = rest(n)], <<Ack(o.id)>>)]
                       /\ fills' = Append(fills, [order |-> o, on |-> ea.sock])
                 \/ /\ conns' = [conns EXCEPT ![ea.sock].down = rest(n)]
                    /\ UNCHANGED fills
    BY DEF RecvLine
<1>4. IsCut(conns[ea.sock].down, n, got(n), rest(n)) /\ IsBoth(buf(n), ea.rxbuf, got(n))
    BY <1>2 DEF IsCut, IsBoth
<1> HIDE DEF got, buf, rest
<1>5. got(n) \in Seq(FragOn(ea.sock))
    BY <1>2, <1>4, CutParts
<1>6. buf(n) \in Seq(FragOn(ea.sock))
    BY <1>0, <1>4, <1>5, BothParts
<1>7. srv.next_id \in Nat /\ srv'.next_id >= srv.next_id /\ srv'.last = srv.last
      /\ (Serving' => Serving /\ srv'.conn = srv.conn)
    BY <1>0 DEF LinkInv, SrvInv, Serving
\* Nothing executed.
<1>8. ASSUME NEW e, IsTail(ea'.rxbuf, buf(n), e), e \in Nat, ea'.rxbuf \in Seq(FragOn(ea.sock)),
             ea'.sock = ea.sock,
             conns' = [conns EXCEPT ![ea.sock].down = rest(n)], UNCHANGED fills
      PROVE  OnceInv'
  <2>1. DOMAIN conns' = DOMAIN conns /\ conns'[ea.sock].down = rest(n)
      BY <1>2, <1>8 DEF ConnFields
  <2>2. Len(Waiting') + e <= Len(Waiting) /\ \A i \in DOMAIN Waiting' : Waiting'[i] = Waiting[i + e]
      BY <1>0, <1>4, <1>8, <2>1, ReadWithin
  <2>3. Within(Waiting', Waiting)
      BY <1>8, <2>2 DEF Within
  <2> QED BY <1>0, <1>1, <1>7, <1>8, <2>1, <2>3, NoMoreWaits
<1>9. CASE /\ ea' = [ea EXCEPT !.rxbuf = buf(n), !.state = "idle"]
           /\ conns' = [conns EXCEPT ![ea.sock].down = rest(n)]
           /\ UNCHANGED fills
  <2>1. ea'.rxbuf = buf(n) /\ ea'.sock = ea.sock
      BY <1>0, <1>9 DEF EaFields
  <2>2. IsTail(buf(n), buf(n), 0)
      BY <1>6 DEF IsTail
  <2> QED BY <1>6, <1>8, <1>9, <2>1, <2>2
<1>10. ASSUME NEW e \in LineEnd(buf(n)),
              ea' = [ea EXCEPT !.rxbuf = SubSeq(buf(n), e + 1, Len(buf(n)))]
       PROVE  /\ e \in DOMAIN buf(n) /\ e \in Nat
              /\ ea'.sock = ea.sock /\ ea'.rxbuf \in Seq(FragOn(ea.sock))
              /\ IsTail(ea'.rxbuf, buf(n), e)
  <2>1. e \in DOMAIN buf(n)
      BY <1>10 DEF LineEnd
  <2>2. ea'.rxbuf = SubSeq(buf(n), e + 1, Len(buf(n))) /\ ea'.sock = ea.sock
      BY <1>0, <1>10 DEF EaFields
  <2>3. e \in 1 .. Len(buf(n)) /\ Len(buf(n)) \in Nat
      BY <1>6, <2>1
  <2>4. IsCut(buf(n), e, SubSeq(buf(n), 1, e), ea'.rxbuf)
      BY <2>2, <2>3 DEF IsCut
  <2>5. /\ ea'.rxbuf \in Seq(FragOn(ea.sock)) /\ Len(ea'.rxbuf) = Len(buf(n)) - e
        /\ \A i \in 1 .. Len(ea'.rxbuf) : ea'.rxbuf[i] = buf(n)[i + e]
      BY <1>6, <2>4, CutParts
  <2>6. IsTail(ea'.rxbuf, buf(n), e)
      BY <2>3, <2>5, SMTT(30) DEF IsTail
  <2> QED BY <2>1, <2>2, <2>3, <2>5, <2>6
\* An order executed.
<1>11. ASSUME NEW e \in LineEnd(buf(n)),
              ea' = [ea EXCEPT !.rxbuf = SubSeq(buf(n), e + 1, Len(buf(n)))],
              NEW o \in OrdersIn(SubSeq(buf(n), 1, e)),
              conns' = [conns EXCEPT ![ea.sock] =
                          SendUp([conns[ea.sock] EXCEPT !.down = rest(n)], <<Ack(o.id)>>)],
              fills' = Append(fills, [order |-> o, on |-> ea.sock])
       PROVE  OnceInv'
  <2>1. /\ e \in DOMAIN buf(n) /\ e \in Nat
        /\ ea'.sock = ea.sock /\ ea'.rxbuf \in Seq(FragOn(ea.sock))
        /\ IsTail(ea'.rxbuf, buf(n), e)
      BY <1>10, <1>11
  <2>2. SendUp([conns[ea.sock] EXCEPT !.down = rest(n)], <<Ack(o.id)>>).down = rest(n)
      BY <1>2 DEF SendUp, ConnFields
  <2>3. DOMAIN conns' = DOMAIN conns /\ conns'[ea.sock].down = rest(n)
      BY <1>2, <1>11, <2>2
  <2>4. /\ \A i \in DOMAIN buf(n) : i \in DOMAIN Waiting /\ buf(n)[i] = Waiting[i]
        /\ Len(Waiting') + e <= Len(Waiting)
        /\ \A i \in DOMAIN Waiting' : Waiting'[i] = Waiting[i + e]
      BY <1>0, <1>4, <2>1, <2>3, ReadWithin
  <2>5. PICK h \in 1 .. e : buf(n)[h].part = "head" /\ buf(n)[h].msg.kind = "order"
                            /\ o = buf(n)[h].msg
    <3> DEFINE line == SubSeq(buf(n), 1, e)
    <3>1. DOMAIN line = 1 .. e /\ \A i \in 1 .. e : line[i] = buf(n)[i]
        BY <1>6, <2>1
    <3> HIDE DEF line
    <3>2. PICK i \in DOMAIN line : line[i].part = "head" /\ line[i].msg.kind = "order"
                                   /\ o = line[i].msg
        BY <1>11 DEF OrdersIn, line
    <3> QED BY <3>1, <3>2
  <2>6. h \in DOMAIN buf(n) /\ h <= e
      BY <1>6, <2>1
  <2>7. h \in Heads(Waiting) /\ o = Waiting[h].msg
      BY <2>4, <2>5, <2>6 DEF Heads
  <2>8. /\ Waiting \in Seq(FragOn(ea.sock)) /\ Waiting' \in Seq(FragOn(ea.sock))
        /\ WaitingInv /\ FillsOnce(fills) /\ \E S : fills \in Seq(S)
    <3>1. ea'.state # "done"
        BY <1>0, <1>11 DEF EaFields
    <3>2. ea'.sock # 0
        BY <1>0, <2>1
    <3>3. Waiting \in Seq(FragOn(ea.sock)) /\ Waiting' \in Seq(FragOn(ea'.sock))
        BY <1>0, <1>1, <3>1, <3>2, WaitingType, WaitingTypeNext
    <3>4. WaitingInv /\ FillsOnce(fills) /\ \E S : fills \in Seq(S)
        BY <1>0 DEF OnceInv, LinkInv, FillsInv
    <3> QED BY <2>1, <3>3, <3>4
  <2>9. /\ FillsOnce(fills') /\ Rising(Waiting') /\ After(Waiting', fills', ea.sock)
        /\ \A k : Unused(Waiting, fills, ea.sock, k) => Unused(Waiting', fills', ea.sock, k)
    <3>1. Rising(Waiting) /\ After(Waiting, fills, ea.sock)
        BY <2>8 DEF WaitingInv
    <3>2. IsFill(fills', fills, Waiting[h].msg, ea.sock)
        BY <1>11, <2>7 DEF IsFill
    <3>3. IsRest(Waiting', Waiting, e)
        BY <2>1, <2>4 DEF IsRest
    <3> QED BY <2>6, <2>7, <2>8, <3>1, <3>2, <3>3, FillOnce
  <2>10. WaitingInv'
      BY <1>0, <1>7, <2>1, <2>8, <2>9 DEF WaitingInv
  <2>11. \A k \in DOMAIN fills' : fills'[k].on \in DOMAIN conns'
    <3> DEFINE x == [order |-> o, on |-> ea.sock]
    <3>1. x.on = ea.sock /\ fills' = Append(fills, x)
        BY <1>11
    <3> HIDE DEF x
    <3>2. /\ DOMAIN Append(fills, x) = 1 .. Len(fills) + 1 /\ DOMAIN fills = 1 .. Len(fills)
          /\ Len(fills) \in Nat /\ Append(fills, x)[Len(fills) + 1] = x
          /\ \A i \in DOMAIN fills : Append(fills, x)[i] = fills[i]
        BY <2>8, AppendSeq
    <3>3. \A k \in DOMAIN fills : fills[k].on \in DOMAIN conns
        BY DEF OnceInv
    <3>4. ASSUME NEW k \in DOMAIN fills' PROVE k \in DOMAIN fills \/ k = Len(fills) + 1
        BY <3>1, <3>2
    <3> QED BY <1>2, <2>3, <3>1, <3>2, <3>3, <3>4
  <2>12. (srv'.last = 0 \/ srv'.last \in DOMAIN conns') /\ (Serving' => srv'.conn = srv'.last)
      BY <1>7, <2>3 DEF OnceInv
  <2> QED BY <1>1, <2>9, <2>10, <2>11, <2>12 DEF OnceInv
<1>12. ASSUME NEW e \in LineEnd(buf(n)),
              ea' = [ea EXCEPT !.rxbuf = SubSeq(buf(n), e + 1, Len(buf(n)))],
              conns' = [conns EXCEPT ![ea.sock].down = rest(n)], UNCHANGED fills
       PROVE  OnceInv'
  <2>1. /\ e \in Nat /\ ea'.sock = ea.sock /\ ea'.rxbuf \in Seq(FragOn(ea.sock))
        /\ IsTail(ea'.rxbuf, buf(n), e)
      BY <1>10, <1>12
  <2> QED BY <1>8, <1>12, <2>1
<1> QED BY <1>3, <1>9, <1>11, <1>12
-----------------------------------------------------------------------------
(* The server's actions keep OnceInv. *)

LEMMA ServerOnce ==
    ASSUME OnceInv, Next, UNCHANGED <<ea, fills>>, DOMAIN conns' = DOMAIN conns,
           srv'.last = srv.last, srv'.next_id >= srv.next_id,
           Serving' => Serving /\ srv'.conn = srv.conn,
           ea.sock # 0 => \/ conns'[ea.sock].down = conns[ea.sock].down
                          \/ conns'[ea.sock].down = <<>>
    PROVE  OnceInv'
<1>1. LinkInv /\ LinkInv'
    BY LinkKept
<1>2. ASSUME ea.sock # 0, ea.state # "done" PROVE Within(Waiting', Waiting)
    BY <1>1, <1>2, SameOrEmptied
<1> QED BY <1>1, <1>2, NoMoreWaits

\* The server's connection changes: the EA's own, or another.
LEMMA PeerOnce ==
    ASSUME OnceInv, Next, Serving, UNCHANGED <<ea, fills>>,
           NEW cs, DOMAIN cs = DOMAIN conns, \A c \in DOMAIN conns : cs[c].down = conns[c].down,
           NEW r, r.down = conns[srv.conn].down \/ r.down = <<>>,
           conns' = [cs EXCEPT ![srv.conn] = r],
           srv'.last = srv.last, srv'.next_id >= srv.next_id,
           Serving' => srv'.conn = srv.conn
    PROVE  OnceInv'
<1>1. LinkInv /\ LinkInv'
    BY LinkKept
<1>2. srv.conn \in DOMAIN conns
    BY <1>1, PeerOK
<1>3. DOMAIN conns' = DOMAIN conns
    OBVIOUS
<1>4. ASSUME ea.sock # 0
      PROVE  \/ conns'[ea.sock].down = conns[ea.sock].down
             \/ conns'[ea.sock].down = <<>>
  <2>1. ea.sock \in DOMAIN conns
      BY <1>1, <1>4 DEF LinkInv, EaInv
  <2>2. CASE ea.sock = srv.conn
      BY <1>2, <2>2
  <2>3. CASE ea.sock # srv.conn
      BY <2>1, <2>3
  <2> QED BY <2>2, <2>3
<1> QED BY <1>3, <1>4, ServerOnce

LEMMA TakenDown ==
    ASSUME LinkInv, Serving
    PROVE  DOMAIN Taken = ConnFields /\ Taken.down = conns[srv.conn].down
           /\ Taken.eaOpen = Peer.eaOpen /\ Taken.rst = Peer.rst
<1>1. DOMAIN conns[srv.conn] = ConnFields
    BY PeerOK DEF ConnOK, Peer
<1> QED BY <1>1 DEF Taken, Peer, ConnFields

\* A session's answer: an order of the next number, or a message without one.
Answer(s, m) ==
    /\ DOMAIN s = SrvFields /\ s.state = "serving" /\ s.conn = srv.conn /\ s.last = srv.last
    /\ s.next_id \in Nat /\ srv.next_id <= s.next_id
    /\ m.kind = "order" => m.id = srv.next_id /\ srv.next_id < s.next_id
    /\ m \in MsgOn(srv.conn)

LEMMA SentToEa ==
    ASSUME OnceInv, Next, Serving, NEW s, NEW m, Answer(s, m), UNCHANGED <<ea, fills>>,
           srv' = s, conns' = [conns EXCEPT ![srv.conn] = SendDown(Taken, m)],
           srv.conn = ea.sock, ea.state # "done", ea.sock # 0, Taken.eaOpen
    PROVE  OnceInv'
<1>1. LinkInv /\ LinkInv'
    BY LinkKept
<1>2. srv.conn \in DOMAIN conns
    BY <1>1, PeerOK
<1> DEFINE h == Fragment("head", m)
           l == Fragment("tail", m)
<1>3. SendDown(Taken, m).down = conns[srv.conn].down \o <<h, l>>
    BY <1>1, TakenDown DEF SendDown, ConnFields
<1>4. /\ h.part = "head" /\ l.part = "tail" /\ h.msg = m
      /\ h \in FragOn(ea.sock) /\ l \in FragOn(ea.sock)
    BY DEF Fragment, FragOn, Answer
<1> HIDE DEF h, l
<1>5. DOMAIN conns' = DOMAIN conns /\ conns'[ea.sock].down = conns[ea.sock].down \o <<h, l>>
    BY <1>2, <1>3
<1>6. /\ ea.rxbuf \in Seq(FragOn(ea.sock)) /\ conns[ea.sock].down \in Seq(FragOn(ea.sock))
      /\ <<h, l>> \in Seq(FragOn(ea.sock))
    BY <1>1, <1>4, SockConnOK DEF LinkInv, EaInv, ConnOK
<1>7. IsBoth(Waiting', Waiting, <<h, l>>)
  <2> DEFINE a == ea.rxbuf
             b == conns[ea.sock].down
             u == <<h, l>>
  <2>1. Waiting' = a \o (b \o u) /\ Waiting = a \o b
      BY <1>5 DEF Waiting
  <2>2. a \in Seq(FragOn(ea.sock)) /\ b \in Seq(FragOn(ea.sock)) /\ u \in Seq(FragOn(ea.sock))
      BY <1>6
  <2> HIDE DEF a, b, u
  <2>3. a \o (b \o u) = (a \o b) \o u
      BY <2>2
  <2>4. Waiting' = Waiting \o u
      BY <2>1, <2>3
  <2> QED BY <2>4 DEF IsBoth, u
<1>8. /\ Waiting \in Seq(FragOn(ea.sock)) /\ WaitingInv /\ FillsOnce(fills)
      /\ srv.next_id \in Nat
    BY <1>1, WaitingType DEF OnceInv, LinkInv, SrvInv
<1>9. Rising(Waiting) /\ After(Waiting, fills, ea.sock)
      /\ Unused(Waiting, fills, ea.sock, srv.next_id)
    BY <1>8 DEF WaitingInv
<1>10. s.next_id \in Nat /\ srv.next_id <= s.next_id
       /\ (h.msg.kind = "order" => h.msg.id = srv.next_id /\ srv.next_id < s.next_id)
    BY <1>4 DEF Answer
<1>11. Rising(Waiting') /\ After(Waiting', fills, ea.sock)
       /\ Unused(Waiting', fills, ea.sock, s.next_id)
    BY <1>4, <1>7, <1>8, <1>9, <1>10, OrderAdded
<1>12. srv.conn = srv.last /\ srv.last \in Nat
    BY <1>1 DEF OnceInv, LinkInv, SrvInv
<1>13. ~(ea'.sock > srv'.last) /\ srv'.last = srv.last /\ srv'.conn = srv.conn
    BY <1>12 DEF Answer
<1>14. WaitingInv'
    BY <1>11, <1>13 DEF WaitingInv
<1>15. /\ FillsOnce(fills') /\ \A k \in DOMAIN fills' : fills'[k].on \in DOMAIN conns'
       /\ srv'.last \in DOMAIN conns' /\ srv'.conn = srv'.last
    BY <1>2, <1>5, <1>12, <1>13 DEF OnceInv
<1> QED BY <1>1, <1>14, <1>15 DEF OnceInv

LEMMA ReplyOnce ==
    ASSUME OnceInv, Next, Serving, NEW s, NEW m, Answer(s, m), Reply(s, m), UNCHANGED <<ea, fills>>
    PROVE  OnceInv'
<1>1. LinkInv
    BY DEF OnceInv
<1>2. /\ DOMAIN s = SrvFields /\ s.conn = srv.conn /\ s.last = srv.last
      /\ s.next_id \in Nat /\ s.next_id >= srv.next_id /\ srv.next_id \in Nat
    BY <1>1 DEF Answer, LinkInv, SrvInv
<1>3. CASE srv' = s /\ conns' = [conns EXCEPT ![srv.conn] = SendDown(Taken, m)]
  <2>1. CASE srv.conn = ea.sock /\ ea.state # "done" /\ ea.sock # 0 /\ Taken.eaOpen
      BY <1>3, <2>1, SentToEa
  <2>2. CASE srv.conn = ea.sock /\ ~Taken.eaOpen
    <3>1. SendDown(Taken, m).down = conns[srv.conn].down
        BY <1>1, <2>2, TakenDown DEF SendDown, ConnFields
    <3> DEFINE r == SendDown(Taken, m)
    <3>2. r.down = conns[srv.conn].down /\ conns' = [conns EXCEPT ![srv.conn] = r]
        BY <1>3, <3>1
    <3> HIDE DEF r
    <3> QED BY <1>2, <1>3, <3>2, PeerOnce
  <2>3. CASE srv.conn # ea.sock \/ ea.state = "done" \/ ea.sock = 0
    <3>1. DOMAIN conns' = DOMAIN conns
        BY <1>3
    <3>2. ASSUME ea.sock # 0, ea.state # "done" PROVE Within(Waiting', Waiting)
      <4>1. conns'[ea.sock].down = conns[ea.sock].down
          BY <1>1, <1>3, <2>3, <3>2, SockConnOK
      <4> QED BY <1>1, <3>2, <4>1, SameOrEmptied
    <3>3. LinkInv' /\ (Serving' => Serving /\ srv'.conn = srv.conn)
        BY <1>2, <1>3, LinkKept
    <3> QED BY <1>2, <1>3, <3>1, <3>2, <3>3, NoMoreWaits
  <2> QED BY <2>1, <2>2, <2>3
<1>4. CASE srv' = s /\ conns' = [conns EXCEPT ![srv.conn] = Taken]
  <2>1. Taken.down = conns[srv.conn].down
      BY <1>1, TakenDown
  <2> QED BY <1>2, <1>4, <2>1, PeerOnce
<1>5. CASE /\ srv' = [s EXCEPT !.state = "killed", !.conn = 0]
           /\ conns' = [c \in DOMAIN conns |-> [conns[c] EXCEPT !.srvOpen = FALSE, !.up = <<>>]]
  <2>1. srv'.last = srv.last /\ srv'.next_id >= srv.next_id /\ ~Serving'
      BY <1>2, <1>5 DEF SrvFields, Serving
  <2>2. DOMAIN conns' = DOMAIN conns
      BY <1>5
  <2>3. ASSUME ea.sock # 0 PROVE conns'[ea.sock].down = conns[ea.sock].down
    <3>1. ea.sock \in DOMAIN conns /\ DOMAIN conns[ea.sock] = ConnFields
        BY <1>1, <2>3, SockConnOK DEF ConnOK
    <3> QED BY <1>5, <3>1 DEF ConnFields
  <2> QED BY <2>1, <2>2, <2>3, ServerOnce
<1> QED BY <1>3, <1>4, <1>5 DEF Reply

LEMMA AcceptOnce == ASSUME OnceInv, Accept PROVE OnceInv'
<1>0. Next /\ UNCHANGED <<conns, ea, fills>> /\ srv.last < Len(conns)
    BY DEF Accept, Next, SrvNext
<1>1. LinkInv /\ LinkInv'
    BY <1>0, LinkKept
<1>2. srv' = NewSession(srv.last + 1)
    BY DEF Accept, Session
<1>3. srv'.last = srv.last + 1 /\ srv'.conn = srv.last + 1 /\ srv'.next_id = 1
    BY <1>2 DEF NewSession
<1>4. srv.last \in Nat /\ DOMAIN conns = 1 .. Len(conns) /\ Len(conns) \in Nat
    BY <1>1, AppendSeq DEF LinkInv, SrvInv, ConnsOK
<1>5. srv'.last \in DOMAIN conns'
    BY <1>0, <1>3, <1>4
<1>6. ASSUME ea'.sock # 0, ea'.state # "done" PROVE WaitingInv'
  <2>1. WaitingInv /\ Waiting' = Waiting
      BY <1>0, <1>6 DEF OnceInv, Waiting
  <2>2. ea.sock \in DOMAIN conns
      BY <1>0, <1>1, <1>6 DEF LinkInv, EaInv
  <2>3. Rising(Waiting') /\ After(Waiting', fills', ea'.sock)
      BY <1>0, <2>1 DEF WaitingInv
  <2>4. ASSUME srv'.conn = ea'.sock \/ ea'.sock > srv'.last
        PROVE  Unused(Waiting', fills', ea'.sock, 1)
    <3>1. ea.sock > srv.last
        BY <1>0, <1>3, <1>4, <2>2, <2>4
    <3> QED BY <1>0, <2>1, <3>1 DEF WaitingInv
  <2> QED BY <1>3, <2>3, <2>4 DEF WaitingInv
<1>7. FillsOnce(fills') /\ \A k \in DOMAIN fills' : fills'[k].on \in DOMAIN conns'
    BY <1>0 DEF OnceInv
<1> QED BY <1>1, <1>3, <1>5, <1>6, <1>7 DEF OnceInv

LEMMA OnHelloOnce == ASSUME OnceInv, OnHello PROVE OnceInv'
<1>1. Next /\ Serving /\ Reply(Awake, Msg("hello")) /\ UNCHANGED <<ea, fills>>
    BY DEF OnHello, NextLine, Next, SrvNext
<1>2. DOMAIN srv = SrvFields /\ srv.next_id \in Nat
    BY DEF OnceInv, LinkInv, SrvInv
<1>3. Answer(Awake, Msg("hello"))
    BY <1>1, <1>2 DEF Answer, Awake, SrvFields, Msg, MsgOn, Serving
<1> QED BY <1>1, <1>3, ReplyOnce

LEMMA OnTickLineOnce == ASSUME OnceInv, OnTickLine PROVE OnceInv'
<1> DEFINE mid == Head(Peer.up).mid
           s == [Awake EXCEPT !.ticks = @ + 1, !.primed = TRUE, !.prev_mid = mid]
           t == [s EXCEPT !.orders = @ + 1, !.next_id = NextId(@)]
<1>1. /\ Next /\ Serving /\ UNCHANGED <<ea, fills>>
      /\ (Reply(t, Order(srv.conn, srv.next_id)) \/ Reply(s, Msg("nop")))
    BY DEF OnTickLine, NextLine, Next, SrvNext
<1>2. DOMAIN srv = SrvFields /\ srv.next_id \in Nat
    BY DEF OnceInv, LinkInv, SrvInv
<1>3. DOMAIN s = SrvFields /\ s.state = srv.state /\ s.conn = srv.conn /\ s.last = srv.last
      /\ s.next_id = srv.next_id
    BY <1>2 DEF SrvFields, Awake
<1>4. DOMAIN t = SrvFields /\ t.state = srv.state /\ t.conn = srv.conn /\ t.last = srv.last
      /\ t.next_id = srv.next_id + 1
    BY <1>2 DEF SrvFields, Awake, NextId
<1> HIDE DEF s, t
<1>5. Answer(s, Msg("nop"))
    BY <1>1, <1>2, <1>3 DEF Answer, Msg, MsgOn, Serving
<1>6. Answer(t, Order(srv.conn, srv.next_id))
  <2>1. Order(srv.conn, srv.next_id) \in MsgOn(srv.conn)
      BY <1>2 DEF MsgOn
  <2>2. Order(srv.conn, srv.next_id).id = srv.next_id
      BY DEF Order
  <2> QED BY <1>1, <1>2, <1>4, <2>1, <2>2 DEF Answer, Serving
<1> QED BY <1>1, <1>5, <1>6, ReplyOnce

LEMMA ConsumedOnce == ASSUME OnceInv, OnAck \/ OnOther PROVE OnceInv'
<1>1. /\ Next /\ Serving /\ UNCHANGED <<ea, fills>>
      /\ conns' = [conns EXCEPT ![srv.conn] = Taken]
    BY DEF OnAck, OnOther, NextLine, Next, SrvNext
<1>2. LinkInv /\ DOMAIN srv = SrvFields /\ srv.next_id \in Nat
    BY DEF OnceInv, LinkInv, SrvInv
<1>3. srv'.last = srv.last /\ srv'.next_id = srv.next_id /\ srv'.conn = srv.conn
    BY <1>2 DEF OnAck, OnOther, Awake, SrvFields
<1>4. Taken.down = conns[srv.conn].down
    BY <1>1, <1>2, TakenDown
<1>5. srv'.next_id >= srv.next_id
    BY <1>2, <1>3
<1> QED BY <1>1, <1>3, <1>4, <1>5, PeerOnce

LEMMA EndedOnce ==
    ASSUME OnceInv, Next, Serving, UNCHANGED <<ea, fills>>,
           NEW s, DOMAIN s = SrvFields, s.last = srv.last, s.next_id = srv.next_id,
           NEW cs, DOMAIN cs = DOMAIN conns, \A c \in DOMAIN conns : cs[c].down = conns[c].down,
           DOMAIN cs[srv.conn] = ConnFields, EndSession(s, cs)
    PROVE  OnceInv'
<1>1. LinkInv /\ srv.next_id \in Nat /\ srv.conn \in DOMAIN conns
    BY PeerOK DEF OnceInv, LinkInv, SrvInv
<1>2. PICK x \in SrvCloses(cs[srv.conn]) : conns' = [cs EXCEPT ![srv.conn] = x]
    BY DEF EndSession
<1>3. x.down = cs[srv.conn].down \/ x.down = <<>>
    BY <1>2 DEF SrvCloses, ConnFields
<1>4. x.down = conns[srv.conn].down \/ x.down = <<>>
    BY <1>1, <1>3
<1>5. srv'.last = srv.last /\ srv'.next_id >= srv.next_id /\ ~Serving'
    BY <1>1 DEF EndSession, SrvFields, Serving
<1> QED BY <1>2, <1>4, <1>5, PeerOnce

LEMMA OnByeOnce == ASSUME OnceInv, OnBye PROVE OnceInv'
<1> DEFINE cs == [conns EXCEPT ![srv.conn] = Taken]
<1>1. Next /\ Serving /\ UNCHANGED <<ea, fills>> /\ EndSession(Awake, cs)
    BY DEF OnBye, NextLine, Next, SrvNext
<1>2. LinkInv /\ DOMAIN srv = SrvFields
    BY DEF OnceInv, LinkInv, SrvInv
<1>3. DOMAIN Awake = SrvFields /\ Awake.last = srv.last /\ Awake.next_id = srv.next_id
    BY <1>2 DEF Awake, SrvFields
<1>4. srv.conn \in DOMAIN conns /\ Taken.down = conns[srv.conn].down /\ DOMAIN Taken = ConnFields
    BY <1>1, <1>2, PeerOK, TakenDown
<1>5. DOMAIN cs = DOMAIN conns /\ DOMAIN cs[srv.conn] = ConnFields
      /\ \A c \in DOMAIN conns : cs[c].down = conns[c].down
    BY <1>4
<1> HIDE DEF cs
<1> QED BY <1>1, <1>3, <1>5, EndedOnce

LEMMA OnEofOnce == ASSUME OnceInv, OnEof PROVE OnceInv'
<1>1. Next /\ Serving /\ UNCHANGED <<ea, fills>> /\ EndSession(srv, conns)
    BY DEF OnEof, Next, SrvNext
<1>2. LinkInv /\ DOMAIN srv = SrvFields
    BY DEF OnceInv, LinkInv, SrvInv
<1>3. DOMAIN conns[srv.conn] = ConnFields
    BY <1>1, <1>2, PeerOK DEF ConnOK, Peer
<1> QED BY <1>1, <1>2, <1>3, EndedOnce

LEMMA OnTimeoutOnce == ASSUME OnceInv, OnTimeout PROVE OnceInv'
<1> DEFINE s == [srv EXCEPT !.idle = IdleAfter(srv.idle)]
<1>1. /\ Next /\ Serving /\ UNCHANGED <<ea, fills>>
      /\ (EndSession(s, conns) \/ (srv' = s /\ UNCHANGED conns))
    BY DEF OnTimeout, Next, SrvNext
<1>2. LinkInv /\ DOMAIN srv = SrvFields /\ srv.next_id \in Nat
    BY DEF OnceInv, LinkInv, SrvInv
<1>3. DOMAIN s = SrvFields /\ s.last = srv.last /\ s.next_id = srv.next_id /\ s.conn = srv.conn
    BY <1>2 DEF SrvFields
<1> HIDE DEF s
<1>4. CASE EndSession(s, conns)
  <2>1. DOMAIN conns[srv.conn] = ConnFields
      BY <1>1, <1>2, PeerOK DEF ConnOK, Peer
  <2> QED BY <1>1, <1>3, <1>4, <2>1, EndedOnce
<1>5. CASE srv' = s /\ UNCHANGED conns
  <2>1. srv'.last = srv.last /\ srv'.next_id >= srv.next_id /\ srv'.conn = srv.conn
      BY <1>2, <1>3, <1>5
  <2> QED BY <1>1, <1>5, <2>1, ServerOnce
<1> QED BY <1>1, <1>4, <1>5

LEMMA ResetOnce == ASSUME OnceInv, ResetArrives PROVE OnceInv'
<1>1. Next /\ UNCHANGED <<ea, srv, fills>> /\ LinkInv
    BY DEF ResetArrives, Next, OnceInv
<1>2. PICK c \in DOMAIN conns :
        conns' = [conns EXCEPT ![c] = [conns[c] EXCEPT !.rst = "arrived"]]
    BY DEF ResetArrives
<1>3. DOMAIN conns' = DOMAIN conns
    BY <1>2
<1>4. DOMAIN conns[c] = ConnFields
    BY <1>1 DEF LinkInv, ConnsOK, ConnOK
<1>5. [conns[c] EXCEPT !.rst = "arrived"].down = conns[c].down
    BY <1>4 DEF ConnFields
<1>6. ASSUME ea.sock # 0 PROVE conns'[ea.sock].down = conns[ea.sock].down
  <2>1. ea.sock \in DOMAIN conns
      BY <1>1, <1>6 DEF LinkInv, EaInv
  <2> QED BY <1>2, <1>5, <2>1
<1>7. srv'.last = srv.last /\ srv'.next_id >= srv.next_id
    BY <1>1 DEF LinkInv, SrvInv
<1>8. Serving' => Serving /\ srv'.conn = srv.conn
    BY <1>1 DEF Serving
<1> QED BY <1>1, <1>3, <1>6, <1>7, <1>8, ServerOnce
-----------------------------------------------------------------------------
LEMMA OnceInit == Init => OnceInv
<1> SUFFICES ASSUME Init PROVE OnceInv
    OBVIOUS
<1>1. LinkInv
    BY LinkInit
<1>2. ea.sock = 0 /\ DOMAIN fills = {}
    BY DEF Init
<1>3. srv.last = 0 /\ srv.state = "accept"
    BY DEF Init, NewSession
<1> QED BY <1>1, <1>2, <1>3 DEF OnceInv, FillsOnce, Serving

LEMMA OnceNext == OnceInv /\ [Next]_vars => OnceInv'
<1> SUFFICES ASSUME OnceInv, [Next]_vars PROVE OnceInv'
    OBVIOUS
<1>1. CASE EaNext
    BY <1>1, OnInitOnce, OnTickOnce, OnTimerOnce, RecvLineOnce, OnDeinitOnce, DiesOnce DEF EaNext
<1>2. CASE SrvNext
    BY <1>2, AcceptOnce, OnHelloOnce, OnTickLineOnce, ConsumedOnce, OnByeOnce, OnEofOnce,
       OnTimeoutOnce
       DEF SrvNext
<1>3. CASE UNCHANGED vars
  <2>1. LinkInv'
      BY <1>3, LinkNext DEF OnceInv
  <2>2. ea' = ea /\ srv' = srv /\ conns' = conns /\ fills' = fills
      BY <1>3 DEF vars
  <2> QED BY <2>1, <2>2 DEF OnceInv, WaitingInv, Waiting, Serving
<1> QED BY <1>1, <1>2, <1>3, ResetOnce DEF Next

\* Orders executed on one connection have rising ids, and an order names its connection.
LEMMA OnceImplies == OnceInv => ExecutedOnce
<1> SUFFICES ASSUME OnceInv, NEW i \in DOMAIN fills, NEW j \in DOMAIN fills,
                    fills[i].order = fills[j].order
             PROVE  i = j
    BY DEF ExecutedOnce
<1>1. fills[i].on = fills[j].on
    BY DEF OnceInv, LinkInv, FillsInv, NoGhostOrders
<1>2. i \in Int /\ j \in Int
  <2>1. DOMAIN fills = 1 .. Len(fills) /\ Len(fills) \in Nat
      BY AppendSeq DEF OnceInv, LinkInv, FillsInv
  <2> QED BY <2>1
<1>3. fills[i].order.id \in Nat /\ fills[i].order.id = fills[j].order.id
    BY DEF OnceInv, FillsOnce
<1>4. ~(fills[i].order.id < fills[j].order.id) /\ ~(fills[j].order.id < fills[i].order.id)
    BY <1>3
<1>5. ~(i < j) /\ ~(j < i)
    BY <1>1, <1>4 DEF OnceInv, FillsOnce
<1> QED BY <1>2, <1>5

\* No order is executed twice, however its line is cut, whichever handler reads it and
\* however often the EA reconnects.
THEOREM NeverExecutedTwice == Spec => []ExecutedOnce
<1>1. Spec => []OnceInv
    BY OnceInit, OnceNext, PTL DEF Spec
<1> QED BY <1>1, OnceImplies, PTL

-----------------------------------------------------------------------------
(* Counting. *)

LEMMA ConcatIs ==
    ASSUME NEW T, NEW s \in Seq(T), NEW u \in Seq(T)
    PROVE  /\ Len(s) \in Nat /\ DOMAIN s = 1 .. Len(s) /\ Len(u) \in Nat /\ DOMAIN u = 1 .. Len(u)
           /\ DOMAIN (s \o u) = 1 .. Len(s) + Len(u)
           /\ \A i \in 1 .. Len(s) : (s \o u)[i] = s[i]
           /\ \A j \in 1 .. Len(u) : (s \o u)[Len(s) + j] = u[j]
    OBVIOUS

\* The indices from 1 to n + k are those up to n and the k after them.
LEMMA SplitIndex ==
    ASSUME NEW n \in Nat, NEW k \in Nat
    PROVE  /\ \A i \in 1 .. n + k : i \in 1 .. n \/ \E j \in 1 .. k : i = n + j
           /\ \A i \in 1 .. n : i \in 1 .. n + k
           /\ \A j \in 1 .. k : n + j \in 1 .. n + k
<1>1. ASSUME NEW i \in 1 .. n + k, i \notin 1 .. n PROVE \E j \in 1 .. k : i = n + j
  <2>1. i - n \in 1 .. k /\ i = n + (i - n)
      BY <1>1
  <2> QED BY <2>1
<1> QED BY <1>1

\* X and Y are the hits of two sequences of n and k items, Z those of both together.
Hits(n, k, X, Y, Z) ==
    /\ X \subseteq 1 .. n /\ Y \subseteq 1 .. k /\ Z \subseteq 1 .. n + k
    /\ \A i \in 1 .. n : i \in Z <=> i \in X
    /\ \A j \in 1 .. k : n + j \in Z <=> j \in Y

LEMMA HitsAdd ==
    ASSUME NEW n \in Nat, NEW k \in Nat, NEW X, NEW Y, NEW Z, Hits(n, k, X, Y, Z)
    PROVE  /\ Cardinality(X) \in Nat /\ Cardinality(Y) \in Nat
           /\ Cardinality(Z) = Cardinality(X) + Cardinality(Y)
<1>0. /\ X \subseteq 1 .. n /\ Y \subseteq 1 .. k /\ Z \subseteq 1 .. n + k
      /\ \A i \in 1 .. n : i \in Z <=> i \in X
      /\ \A j \in 1 .. k : n + j \in Z <=> j \in Y
    BY DEF Hits
<1> DEFINE S == {n + j : j \in Y}
           f == [j \in Y |-> n + j]
<1>1. IsFiniteSet(1 .. n) /\ IsFiniteSet(1 .. k)
    BY FS_Interval
<1>2. IsFiniteSet(X) /\ IsFiniteSet(Y)
    BY <1>0, <1>1, FS_Subset
<1>3. f \in Bijection(Y, S)
  <2>1. f \in [Y -> S]
      OBVIOUS
  <2>2. \A i, j \in Y : f[i] = f[j] => i = j
    <3>1. \A i, j \in Y : n + i = n + j => i = j
        BY <1>0
    <3> QED BY <3>1
  <2>3. \A z \in S : \E j \in Y : f[j] = z
      OBVIOUS
  <2> HIDE DEF f, S
  <2> QED BY <2>1, <2>2, <2>3 DEF Bijection, Injection, IsInjective, Surjection
<1>4. IsFiniteSet(S) /\ Cardinality(S) = Cardinality(Y)
  <2>1. ExistsBijection(Y, S)
      BY <1>3 DEF ExistsBijection
  <2> HIDE DEF S
  <2> QED BY <1>2, <2>1, FS_Bijection
<1>5. X \cap S = {}
    BY <1>0
<1>6. Cardinality(X \cup S) = Cardinality(X) + Cardinality(S) - Cardinality(X \cap S)
  <2> HIDE DEF S
  <2> QED BY <1>2, <1>4, FS_Union
<1>7. Cardinality(X) \in Nat /\ Cardinality(Y) \in Nat /\ Cardinality(X \cap S) = 0
    BY <1>2, <1>5, FS_CardinalityType, FS_EmptySet
<1> HIDE DEF S
<1>8. Z = X \cup S
  <2>1. ASSUME NEW i \in Z PROVE i \in X \cup S
    <3>1. i \in 1 .. n \/ \E j \in 1 .. k : i = n + j
        BY <1>0, SplitIndex
    <3> QED BY <1>0, <3>1 DEF S
  <2>2. ASSUME NEW i \in X \cup S PROVE i \in Z
      BY <1>0 DEF S
  <2> QED BY <2>1, <2>2
<1>9. PICK a \in Nat, b \in Nat : a = Cardinality(X) /\ b = Cardinality(Y)
    BY <1>7
<1>10. Cardinality(Z) = a + b - 0
    BY <1>4, <1>6, <1>7, <1>8, <1>9
<1> QED BY <1>9, <1>10

LEMMA CountKindConcat ==
    ASSUME NEW T, NEW s \in Seq(T), NEW u \in Seq(T), NEW k
    PROVE  /\ CountKind(s, k) \in Nat /\ CountKind(u, k) \in Nat
           /\ CountKind(s \o u, k) = CountKind(s, k) + CountKind(u, k)
<1> DEFINE X == {i \in DOMAIN s : s[i].kind = k}
           Y == {i \in DOMAIN u : u[i].kind = k}
<1>1. PICK v : v = s \o u
    OBVIOUS
<1>2. /\ Len(s) \in Nat /\ DOMAIN s = 1 .. Len(s) /\ Len(u) \in Nat /\ DOMAIN u = 1 .. Len(u)
      /\ DOMAIN v = 1 .. Len(s) + Len(u)
      /\ \A i \in 1 .. Len(s) : v[i] = s[i]
      /\ \A j \in 1 .. Len(u) : v[Len(s) + j] = u[j]
    BY <1>1, ConcatIs
<1>3. X \subseteq 1 .. Len(s) /\ Y \subseteq 1 .. Len(u)
    BY <1>2
<1>4. PICK W : W = {i \in DOMAIN v : v[i].kind = k}
    OBVIOUS
<1>6. /\ W \subseteq 1 .. Len(s) + Len(u)
      /\ \A i \in 1 .. Len(s) : i \in W <=> i \in X
      /\ \A j \in 1 .. Len(u) : Len(s) + j \in W <=> j \in Y
    BY <1>2, <1>4, SplitIndex
<1>8. Hits(Len(s), Len(u), X, Y, W)
    BY <1>3, <1>6 DEF Hits
<1>5. CountKind(s, k) = Cardinality(X) /\ CountKind(u, k) = Cardinality(Y)
      /\ CountKind(v, k) = Cardinality({i \in DOMAIN v : v[i].kind = k})
    BY DEF CountKind
<1> HIDE DEF X, Y
<1>7. /\ Cardinality(X) \in Nat /\ Cardinality(Y) \in Nat
      /\ Cardinality(W) = Cardinality(X) + Cardinality(Y)
    BY <1>2, <1>8, HitsAdd
<1> QED BY <1>1, <1>4, <1>5, <1>7

LEMMA UnreadConcat ==
    ASSUME NEW T, NEW s \in Seq(T), NEW u \in Seq(T)
    PROVE  /\ OrdersUnread(s) \in Nat /\ OrdersUnread(u) \in Nat
           /\ OrdersUnread(s \o u) = OrdersUnread(s) + OrdersUnread(u)
<1> DEFINE X == {i \in DOMAIN s : s[i].part = "tail" /\ s[i].msg.kind = "order"}
           Y == {i \in DOMAIN u : u[i].part = "tail" /\ u[i].msg.kind = "order"}
<1>1. PICK v : v = s \o u
    OBVIOUS
<1>2. /\ Len(s) \in Nat /\ DOMAIN s = 1 .. Len(s) /\ Len(u) \in Nat /\ DOMAIN u = 1 .. Len(u)
      /\ DOMAIN v = 1 .. Len(s) + Len(u)
      /\ \A i \in 1 .. Len(s) : v[i] = s[i]
      /\ \A j \in 1 .. Len(u) : v[Len(s) + j] = u[j]
    BY <1>1, ConcatIs
<1>3. X \subseteq 1 .. Len(s) /\ Y \subseteq 1 .. Len(u)
    BY <1>2
<1>4. PICK W : W = {i \in DOMAIN v : v[i].part = "tail" /\ v[i].msg.kind = "order"}
    OBVIOUS
<1>6. /\ W \subseteq 1 .. Len(s) + Len(u)
      /\ \A i \in 1 .. Len(s) : i \in W <=> i \in X
      /\ \A j \in 1 .. Len(u) : Len(s) + j \in W <=> j \in Y
    BY <1>2, <1>4, SplitIndex
<1>8. Hits(Len(s), Len(u), X, Y, W)
    BY <1>3, <1>6 DEF Hits
<1>5. OrdersUnread(s) = Cardinality(X) /\ OrdersUnread(u) = Cardinality(Y)
      /\ OrdersUnread(v) = Cardinality({i \in DOMAIN v : v[i].part = "tail" /\ v[i].msg.kind = "order"})
    BY DEF OrdersUnread
<1> HIDE DEF X, Y
<1>7. /\ Cardinality(X) \in Nat /\ Cardinality(Y) \in Nat
      /\ Cardinality(W) = Cardinality(X) + Cardinality(Y)
    BY <1>2, <1>8, HitsAdd
<1> QED BY <1>1, <1>4, <1>5, <1>7

LEMMA CountEmpty == (\A k : CountKind(<<>>, k) = 0) /\ OrdersUnread(<<>>) = 0
    BY FS_EmptySet DEF CountKind, OrdersUnread

LEMMA CountOne ==
    ASSUME NEW m, NEW k
    PROVE  CountKind(<<m>>, k) = IF m.kind = k THEN 1 ELSE 0
<1>1. DOMAIN <<m>> = {1} /\ <<m>>[1] = m
    OBVIOUS
<1>2. CASE m.kind = k
  <2>1. {i \in DOMAIN <<m>> : <<m>>[i].kind = k} = {1}
      BY <1>1, <1>2
  <2> QED BY <1>2, <2>1, FS_Singleton DEF CountKind
<1>3. CASE m.kind # k
  <2>1. {i \in DOMAIN <<m>> : <<m>>[i].kind = k} = {}
      BY <1>1, <1>3
  <2> QED BY <1>3, <2>1, FS_EmptySet DEF CountKind
<1> QED BY <1>2, <1>3

\* One line, as its two fragments.
LEMMA UnreadLine ==
    ASSUME NEW h, NEW l, h.part = "head", l.part = "tail"
    PROVE  OrdersUnread(<<h, l>>) = IF l.msg.kind = "order" THEN 1 ELSE 0
<1>1. PICK v : v = <<h, l>>
    OBVIOUS
<1>2. DOMAIN v = {1, 2} /\ v[1] = h /\ v[2] = l /\ 2 # 1
    BY <1>1
<1>3. CASE l.msg.kind = "order"
  <2>1. {i \in DOMAIN v : v[i].part = "tail" /\ v[i].msg.kind = "order"} = {2}
      BY <1>2, <1>3
  <2>2. OrdersUnread(v) = Cardinality({2})
      BY <2>1 DEF OrdersUnread
  <2>3. Cardinality({2}) = 1
      BY FS_Singleton
  <2> QED BY <1>1, <1>3, <2>2, <2>3
<1>4. CASE l.msg.kind # "order"
  <2>1. {i \in DOMAIN v : v[i].part = "tail" /\ v[i].msg.kind = "order"} = {}
      BY <1>2, <1>4
  <2> QED BY <1>1, <1>4, <2>1, FS_EmptySet DEF OrdersUnread
<1> QED BY <1>3, <1>4
-----------------------------------------------------------------------------
(* Every order is accounted for. *)

IsSeq(s) == \E T : s \in Seq(T)

\* What waits for the EA is made of whole lines, each as its two fragments.
Paired(s) ==
    \E k \in Nat : /\ Len(s) = 2 * k
                   /\ \A j \in 1 .. k : /\ s[2 * j - 1].part = "head" /\ s[2 * j].part = "tail"
                                        /\ s[2 * j].msg = s[2 * j - 1].msg

\* A connection no session has served yet carries no order and no ack.
Fresh(r, W, S) ==
    W = <<>> /\ CountKind(r.up, "ack") = 0 /\ (S.state # "killed" => r.srvOpen)

\* The session's orders are acknowledged, or on the way to the EA, or their ack is.
Balance(r, W, S) ==
    /\ r.srvOpen /\ Paired(W)
    /\ S.orders = S.acks + CountKind(r.up, "ack") + OrdersUnread(W)

\* Connection c, in state r, on which W waits for the EA and mt5d is in state S.
LinkAcct(c, r, W, S) ==
    r.eaOpen => /\ IsSeq(r.up) /\ r.rst = "none"
                /\ c > S.last => Fresh(r, W, S)
                /\ S.state = "serving" /\ S.conn = c => Balance(r, W, S)

AcctInv ==
    /\ OnceInv
    /\ ea.state = "done" => ea.sock = 0
    /\ srv.orders \in Nat /\ srv.acks \in Nat
    /\ ea.sock # 0 => LinkAcct(ea.sock, conns[ea.sock], Waiting, srv)

LEMMA SentCounts ==
    ASSUME NEW s, NEW u, IsSeq(s), IsSeq(u)
    PROVE  /\ IsSeq(s \o u)
           /\ CountKind(s, "ack") \in Nat /\ CountKind(u, "ack") \in Nat
           /\ CountKind(s \o u, "ack") = CountKind(s, "ack") + CountKind(u, "ack")
<1>1. PICK A : s \in Seq(A)
    BY DEF IsSeq
<1>2. PICK B : u \in Seq(B)
    BY DEF IsSeq
<1>3. PICK T : T = A \cup B
    OBVIOUS
<1>4. s \in Seq(T) /\ u \in Seq(T)
    BY <1>1, <1>2, <1>3
<1>5. s \o u \in Seq(T)
    BY <1>4
<1>6. /\ CountKind(s, "ack") \in Nat /\ CountKind(u, "ack") \in Nat
      /\ CountKind(s \o u, "ack") = CountKind(s, "ack") + CountKind(u, "ack")
    BY <1>4, CountKindConcat
<1> QED BY <1>5, <1>6 DEF IsSeq

LEMMA OneCounts ==
    ASSUME NEW m
    PROVE  IsSeq(<<m>>) /\ CountKind(<<m>>, "ack") = IF m.kind = "ack" THEN 1 ELSE 0
<1>1. <<m>> \in Seq({m})
    OBVIOUS
<1> QED BY <1>1, CountOne DEF IsSeq

LEMMA EmptyCounts == IsSeq(<<>>) /\ CountKind(<<>>, "ack") = 0
<1>1. <<>> \in Seq({})
    OBVIOUS
<1> QED BY <1>1, CountEmpty DEF IsSeq

\* run_bridge takes the first line that came up.
LEMMA TakenCounts ==
    ASSUME NEW s, IsSeq(s), s # <<>>
    PROVE  /\ IsSeq(Tail(s)) /\ CountKind(Tail(s), "ack") \in Nat
           /\ CountKind(s, "ack") = (IF Head(s).kind = "ack" THEN 1 ELSE 0) + CountKind(Tail(s), "ack")
<1>1. PICK T : s \in Seq(T)
    BY DEF IsSeq
<1>2. PICK t : t = Tail(s)
    OBVIOUS
<1>3. PICK h : h = Head(s)
    OBVIOUS
<1>4. t \in Seq(T) /\ IsSeq(t)
    BY <1>1, <1>2 DEF IsSeq
<1>5. s = <<h>> \o t
    BY <1>1, <1>2, <1>3
<1>6. IsSeq(<<h>>) /\ CountKind(<<h>>, "ack") = IF h.kind = "ack" THEN 1 ELSE 0
    BY OneCounts
<1>7. CountKind(s, "ack") = CountKind(<<h>>, "ack") + CountKind(t, "ack") /\ CountKind(t, "ack") \in Nat
    BY <1>4, <1>5, <1>6, SentCounts
<1> QED BY <1>2, <1>3, <1>4, <1>6, <1>7

LEMMA PairedEmpty == Paired(<<>>)
<1>1. 0 \in Nat /\ Len(<<>>) = 2 * 0 /\ 1 .. 0 = {}
    OBVIOUS
<1> QED BY <1>1 DEF Paired

\* A line sent to the EA.
LEMMA LineAdded ==
    ASSUME NEW T, NEW W \in Seq(T), Paired(W), NEW h \in T, NEW l \in T,
           h.part = "head", l.part = "tail", l.msg = h.msg, NEW V, IsBoth(V, W, <<h, l>>)
    PROVE  /\ Paired(V) /\ OrdersUnread(W) \in Nat
           /\ OrdersUnread(V) = OrdersUnread(W) + IF h.msg.kind = "order" THEN 1 ELSE 0
<1>1. PICK k \in Nat : /\ Len(W) = 2 * k
                       /\ \A j \in 1 .. k : /\ W[2 * j - 1].part = "head" /\ W[2 * j].part = "tail"
                                            /\ W[2 * j].msg = W[2 * j - 1].msg
    BY DEF Paired
<1>2. PICK u : u = <<h, l>>
    OBVIOUS
<1>3. u \in Seq(T) /\ Len(u) = 2 /\ u[1] = h /\ u[2] = l
    BY <1>2
<1>4. V = W \o u
    BY <1>2 DEF IsBoth
<1>5. OrdersUnread(u) = IF h.msg.kind = "order" THEN 1 ELSE 0
    BY <1>2, UnreadLine
<1>6. OrdersUnread(W) \in Nat /\ OrdersUnread(V) = OrdersUnread(W) + OrdersUnread(u)
    BY <1>3, <1>4, UnreadConcat
<1>7. /\ Len(V) = 2 * k + 2
      /\ \A i \in 1 .. 2 * k : V[i] = W[i]
      /\ V[2 * k + 1] = h /\ V[2 * k + 2] = l
  <2>1. IsBoth(V, W, u)
      BY <1>4 DEF IsBoth
  <2>2. /\ Len(V) = Len(W) + Len(u) /\ \A i \in 1 .. Len(W) : V[i] = W[i]
        /\ \A i \in 1 .. Len(V) : i > Len(W) => V[i] = u[i - Len(W)]
    <3>1. u \in Seq(T)
        BY <1>3
    <3> QED BY <2>1, <3>1, BothParts
  <2>3. /\ 2 * k + 1 \in 1 .. Len(V) /\ 2 * k + 1 > Len(W) /\ (2 * k + 1) - Len(W) = 1
        /\ 2 * k + 2 \in 1 .. Len(V) /\ 2 * k + 2 > Len(W) /\ (2 * k + 2) - Len(W) = 2
    <3>1. Len(W) = 2 * k /\ Len(V) = 2 * k + 2
        BY <1>1, <1>3, <2>2
    <3>2. PICK n \in Nat : n = 2 * k
        OBVIOUS
    <3>3. /\ n + 1 \in 1 .. n + 2 /\ n + 1 > n /\ (n + 1) - n = 1
          /\ n + 2 \in 1 .. n + 2 /\ n + 2 > n /\ (n + 2) - n = 2
        BY <3>2
    <3> QED BY <3>1, <3>2, <3>3
  <2>4. V[2 * k + 1] = u[1] /\ V[2 * k + 2] = u[2]
      BY <2>2, <2>3
  <2> QED BY <1>1, <1>3, <2>2, <2>4
<1>8. ASSUME NEW j \in 1 .. k + 1
      PROVE  /\ V[2 * j - 1].part = "head" /\ V[2 * j].part = "tail"
             /\ V[2 * j].msg = V[2 * j - 1].msg
  <2>1. CASE j = k + 1
    <3>1. 2 * j - 1 = 2 * k + 1 /\ 2 * j = 2 * k + 2
        BY <2>1
    <3> QED BY <1>7, <3>1
  <2>2. CASE j # k + 1
    <3>1. j \in 1 .. k /\ 2 * j - 1 \in 1 .. 2 * k /\ 2 * j \in 1 .. 2 * k
        BY <2>2
    <3> QED BY <1>1, <1>7, <3>1
  <2> QED BY <2>1, <2>2
<1>9. k + 1 \in Nat /\ Len(V) = 2 * (k + 1)
    BY <1>7
<1>10. Paired(V)
    BY <1>8, <1>9 DEF Paired
<1> QED BY <1>5, <1>6, <1>10

\* The first line taken off what waits.
LEMMA LineTaken ==
    ASSUME NEW T, NEW W \in Seq(T), Paired(W), NEW V \in Seq(T), IsRest(V, W, 2),
           Len(V) + 2 = Len(W)
    PROVE  /\ Paired(V) /\ OrdersUnread(V) \in Nat
           /\ OrdersUnread(W) = (IF W[1].msg.kind = "order" THEN 1 ELSE 0) + OrdersUnread(V)
<1>1. PICK k \in Nat : /\ Len(W) = 2 * k
                       /\ \A j \in 1 .. k : /\ W[2 * j - 1].part = "head" /\ W[2 * j].part = "tail"
                                            /\ W[2 * j].msg = W[2 * j - 1].msg
    BY DEF Paired
<1>2. Len(V) \in Nat /\ DOMAIN V = 1 .. Len(V) /\ \A i \in 1 .. Len(V) : V[i] = W[i + 2]
    BY DEF IsRest
<1>3. k >= 1 /\ Len(V) = 2 * (k - 1) /\ k - 1 \in Nat
  <2>1. PICK v \in Nat : v = Len(V)
      BY <1>2
  <2>2. v + 2 = 2 * k
      BY <1>1, <2>1
  <2>3. k >= 1 /\ v = 2 * (k - 1) /\ k - 1 \in Nat
      BY <2>2
  <2> QED BY <2>1, <2>3
<1>4. ASSUME NEW j \in 1 .. k - 1
      PROVE  /\ V[2 * j - 1].part = "head" /\ V[2 * j].part = "tail"
             /\ V[2 * j].msg = V[2 * j - 1].msg
  <2>1. /\ 2 * j - 1 \in 1 .. Len(V) /\ 2 * j \in 1 .. Len(V) /\ j + 1 \in 1 .. k
        /\ (2 * j - 1) + 2 = 2 * (j + 1) - 1 /\ 2 * j + 2 = 2 * (j + 1)
      BY <1>3
  <2>2. V[2 * j - 1] = W[2 * (j + 1) - 1] /\ V[2 * j] = W[2 * (j + 1)]
      BY <1>2, <2>1
  <2> QED BY <1>1, <2>1, <2>2
<1>5. Paired(V)
    BY <1>3, <1>4 DEF Paired
<1>6. W[1].part = "head" /\ W[2].part = "tail" /\ W[2].msg = W[1].msg
  <2>1. 1 \in 1 .. k /\ 2 * 1 - 1 = 1 /\ 2 * 1 = 2
      BY <1>3
  <2> QED BY <1>1, <2>1
<1>7. PICK u : u = <<W[1], W[2]>>
    OBVIOUS
<1>8. u \in Seq(T)
  <2>1. W[1] \in T /\ W[2] \in T
      BY <1>1, <1>3
  <2> QED BY <1>7, <2>1
<1>9. OrdersUnread(u) = IF W[1].msg.kind = "order" THEN 1 ELSE 0
    BY <1>6, <1>7, UnreadLine
<1>10. W = u \o V
  <2>1. Len(u) = 2 /\ u[1] = W[1] /\ u[2] = W[2]
      BY <1>7
  <2>2. PICK X : X = u \o V
      OBVIOUS
  <2>3. /\ X \in Seq(T) /\ Len(X) = Len(u) + Len(V)
        /\ \A i \in 1 .. Len(u) : X[i] = u[i]
        /\ \A i \in 1 .. Len(X) : i > Len(u) => X[i] = V[i - Len(u)]
    <3>1. IsBoth(X, u, V)
        BY <2>2 DEF IsBoth
    <3> QED BY <1>8, <3>1, BothParts
  <2>6. Len(X) = Len(W)
      BY <1>2, <2>1, <2>3
  <2>4. ASSUME NEW i \in 1 .. Len(W) PROVE X[i] = W[i]
    <3>1. CASE i <= 2
      <4>1. i \in 1 .. Len(u) /\ (i = 1 \/ i = 2)
          BY <2>1, <3>1
      <4> QED BY <2>1, <2>3, <4>1
    <3>2. CASE i > 2
      <4>1. i - 2 \in 1 .. Len(V) /\ (i - 2) + 2 = i
          BY <1>1, <1>3, <3>2
      <4>2. X[i] = V[i - 2]
          BY <2>1, <2>3, <2>6, <3>2
      <4> QED BY <1>2, <4>1, <4>2
    <3> QED BY <3>1, <3>2
  <2>5. X = W
      BY <2>3, <2>4, <2>6
  <2> QED BY <2>2, <2>5
<1>11. /\ OrdersUnread(V) \in Nat /\ OrdersUnread(W) = OrdersUnread(u) + OrdersUnread(V)
    BY <1>8, <1>10, UnreadConcat
<1> QED BY <1>5, <1>9, <1>11

\* The first complete line ends with the second fragment.
LEMMA FirstLine ==
    ASSUME NEW T, NEW W \in Seq(T), Paired(W), NEW buf \in Seq(T),
           \A i \in DOMAIN buf : i \in DOMAIN W /\ buf[i] = W[i], NEW e \in LineEnd(buf)
    PROVE  /\ e = 2 /\ 1 \in DOMAIN buf /\ 2 \in DOMAIN buf /\ buf[1] = W[1]
           /\ W[1].part = "head" /\ W[2].part = "tail"
<1>1. PICK k \in Nat : /\ Len(W) = 2 * k
                       /\ \A j \in 1 .. k : W[2 * j - 1].part = "head" /\ W[2 * j].part = "tail"
    BY DEF Paired
<1>2. e \in DOMAIN buf /\ buf[e].part = "tail" /\ \A j \in 1 .. e - 1 : buf[j].part # "tail"
    BY DEF LineEnd
<1>3. e \in 1 .. Len(buf) /\ DOMAIN buf = 1 .. Len(buf) /\ Len(buf) \in Nat
    BY <1>2
<1>4. e \in 1 .. 2 * k /\ W[e].part = "tail"
    BY <1>1, <1>2
<1>5. k >= 1
    BY <1>4
<1>6. W[1].part = "head" /\ W[2].part = "tail"
  <2>1. 1 \in 1 .. k /\ 2 * 1 - 1 = 1 /\ 2 * 1 = 2
      BY <1>5
  <2> QED BY <1>1, <2>1
<1>7. e # 1
    BY <1>4, <1>6
<1>8. ~(e > 2)
  <2>1. ASSUME e > 2 PROVE FALSE
    <3>1. 2 \in 1 .. e - 1 /\ 2 \in DOMAIN buf
        BY <1>3, <2>1
    <3> QED BY <1>2, <1>6, <3>1
  <2> QED BY <2>1
<1>9. e = 2
    BY <1>3, <1>7, <1>8
<1>10. 1 \in DOMAIN buf /\ 2 \in DOMAIN buf
    BY <1>3, <1>9
<1> QED BY <1>6, <1>9, <1>10
-----------------------------------------------------------------------------
(* The EA's actions keep the accounts. *)

LEMMA AcctStep ==
    ASSUME AcctInv, Next, ea'.state = "done" => ea'.sock = 0,
           srv'.orders \in Nat, srv'.acks \in Nat,
           ea'.sock # 0 => LinkAcct(ea'.sock, conns'[ea'.sock], Waiting', srv')
    PROVE  AcctInv'
<1>1. OnceInv'
    BY OnceNext DEF AcctInv
<1> QED BY <1>1 DEF AcctInv

LEMMA EaStep ==
    ASSUME AcctInv, Next, srv' = srv, ea'.state = "done" => ea'.sock = 0,
           ea'.sock # 0 => LinkAcct(ea'.sock, conns'[ea'.sock], Waiting', srv)
    PROVE  AcctInv'
<1>1. srv'.orders \in Nat /\ srv'.acks \in Nat
    BY DEF AcctInv
<1> QED BY <1>1, AcctStep

LEMMA NoAckSent ==
    ASSUME NEW c, NEW r, DOMAIN r = ConnFields, NEW W, NEW S, LinkAcct(c, r, W, S),
           NEW ms, IsSeq(ms), CountKind(ms, "ack") = 0
    PROVE  LinkAcct(c, SendUp(r, ms), W, S)
<1>1. CASE ~r.srvOpen \/ ~r.eaOpen
    BY <1>1 DEF SendUp, LinkAcct, ConnFields
<1>2. CASE r.srvOpen /\ r.eaOpen
  <2>1. PICK u : u = r.up \o ms
      OBVIOUS
  <2>2. IsSeq(r.up)
      BY <1>2 DEF LinkAcct
  <2>3. IsSeq(u) /\ CountKind(u, "ack") = CountKind(r.up, "ack")
    <3>1. IsSeq(u) /\ CountKind(r.up, "ack") \in Nat
          /\ CountKind(u, "ack") = CountKind(r.up, "ack") + CountKind(ms, "ack")
        BY <2>1, <2>2, SentCounts
    <3> QED BY <3>1
  <2>4. PICK q : q = SendUp(r, ms)
      OBVIOUS
  <2>5. q.up = u /\ q.eaOpen = r.eaOpen /\ q.srvOpen = r.srvOpen /\ q.rst = r.rst
      BY <1>2, <2>1, <2>4 DEF SendUp, ConnFields
  <2>6. LinkAcct(c, q, W, S)
      BY <1>2, <2>3, <2>5 DEF LinkAcct, Fresh, Balance
  <2> QED BY <2>4, <2>6
<1> QED BY <1>1, <1>2

LEMMA SockFields ==
    ASSUME AcctInv, ea.sock # 0
    PROVE  /\ LinkInv /\ ea.sock \in DOMAIN conns /\ DOMAIN conns[ea.sock] = ConnFields
           /\ ea.state # "done" /\ Waiting \in Seq(FragOn(ea.sock))
           /\ LinkAcct(ea.sock, conns[ea.sock], Waiting, srv)
<1>1. LinkInv /\ ea.state # "done" /\ LinkAcct(ea.sock, conns[ea.sock], Waiting, srv)
    BY DEF AcctInv, OnceInv
<1> QED BY <1>1, SockConnOK, WaitingType DEF ConnOK

LEMMA SentAcct ==
    ASSUME AcctInv, Next, ea.sock # 0, NEW ms, IsSeq(ms), CountKind(ms, "ack") = 0,
           conns' = [conns EXCEPT ![ea.sock] = SendUp(conns[ea.sock], ms)],
           ea'.sock = ea.sock, ea'.rxbuf = ea.rxbuf, ea'.state # "done", srv' = srv
    PROVE  AcctInv'
<1>1. /\ LinkInv /\ ea.sock \in DOMAIN conns /\ DOMAIN conns[ea.sock] = ConnFields
      /\ LinkAcct(ea.sock, conns[ea.sock], Waiting, srv)
    BY SockFields
<1>2. conns'[ea.sock].down = conns[ea.sock].down
    BY <1>1, SentUp
<1>3. Waiting' = Waiting
    BY <1>2 DEF Waiting
<1>4. conns'[ea.sock] = SendUp(conns[ea.sock], ms)
    BY <1>1
<1>5. LinkAcct(ea.sock, SendUp(conns[ea.sock], ms), Waiting, srv)
    BY <1>1, NoAckSent
<1> QED BY <1>3, <1>4, <1>5, EaStep

LEMMA HeartbeatCounts ==
    ASSUME NEW hb \in Heartbeats
    PROVE  IsSeq(hb) /\ CountKind(hb, "ack") = 0
<1>1. hb = <<>> \/ hb = <<Msg("heartbeat")>>
    BY DEF Heartbeats
<1>2. Msg("heartbeat").kind # "ack"
    BY DEF Msg
<1> QED BY <1>1, <1>2, OneCounts, EmptyCounts

LEMMA ConnectAcct ==
    ASSUME AcctInv, Next, NEW extra, IsSeq(extra), CountKind(extra, "ack") = 0,
           ConnectOK(extra), ea'.sock = Len(conns) + 1, ea'.rxbuf = <<>>, ea'.state # "done",
           srv' = srv
    PROVE  AcctInv'
<1>1. LinkInv /\ OnceInv
    BY DEF AcctInv, OnceInv
<1> DEFINE hs == <<Msg("hello"), Msg("subscribe")>>
           ms == hs \o extra
           r == SendUp(NewConn, ms)
<1>2. IsSeq(hs) /\ CountKind(hs, "ack") = 0
  <2>1. hs = <<Msg("hello")>> \o <<Msg("subscribe")>>
      OBVIOUS
  <2>2. Msg("hello").kind # "ack" /\ Msg("subscribe").kind # "ack"
      BY DEF Msg
  <2>3. /\ IsSeq(<<Msg("hello")>>) /\ CountKind(<<Msg("hello")>>, "ack") = 0
        /\ IsSeq(<<Msg("subscribe")>>) /\ CountKind(<<Msg("subscribe")>>, "ack") = 0
      BY <2>2, OneCounts
  <2>4. PICK a : a = <<Msg("hello")>>
      OBVIOUS
  <2>5. PICK b : b = <<Msg("subscribe")>>
      OBVIOUS
  <2> HIDE DEF hs
  <2>6. hs = a \o b /\ IsSeq(a) /\ IsSeq(b) /\ CountKind(a, "ack") = 0 /\ CountKind(b, "ack") = 0
      BY <2>1, <2>3, <2>4, <2>5
  <2> QED BY <2>6, SentCounts
<1> HIDE DEF hs
<1>3. IsSeq(ms) /\ CountKind(ms, "ack") = 0
    BY <1>2, SentCounts
<1>4. conns'[Len(conns) + 1] = r
  <2>1. ConnsOK(AfterClose) /\ Len(AfterClose) = Len(conns)
      BY <1>1, ClosedOK
  <2>2. conns' = Append(AfterClose, r)
      BY DEF ConnectOK, hs
  <2> HIDE DEF r
  <2>3. \E S : AfterClose \in Seq(S)
      BY <2>1 DEF ConnsOK
  <2>4. Append(AfterClose, r)[Len(AfterClose) + 1] = r
      BY <2>3, AppendSeq
  <2> QED BY <2>1, <2>2, <2>4
<1>5. conns'[Len(conns) + 1].down = <<>>
    BY <1>1, ConnectShape
<1>6. Waiting' = <<>>
    BY <1>5 DEF Waiting
<1>7. LinkAcct(Len(conns) + 1, NewConn, <<>>, srv)
  <2>1. /\ NewConn.up = <<>> /\ NewConn.srvOpen = TRUE /\ NewConn.rst = "none"
      BY DEF NewConn
  <2>2. srv.last = 0 \/ srv.last \in DOMAIN conns
      BY <1>1 DEF OnceInv
  <2>3. DOMAIN conns = 1 .. Len(conns) /\ Len(conns) \in Nat
      BY <1>1, AppendSeq DEF LinkInv, ConnsOK
  <2>4. srv.last # Len(conns) + 1
      BY <2>2, <2>3
  <2>5. ~(srv.state = "serving" /\ srv.conn = Len(conns) + 1)
      BY <1>1, <2>4 DEF OnceInv, Serving
  <2>6. IsSeq(NewConn.up) /\ CountKind(NewConn.up, "ack") = 0
      BY <2>1, EmptyCounts
  <2> QED BY <2>1, <2>5, <2>6 DEF LinkAcct, Fresh
<1>8. DOMAIN NewConn = ConnFields
    BY DEF NewConn, ConnFields
<1> HIDE DEF ms
<1>9. LinkAcct(Len(conns) + 1, r, <<>>, srv)
    BY <1>3, <1>7, <1>8, NoAckSent
<1> HIDE DEF r
<1>10. LinkAcct(ea'.sock, conns'[ea'.sock], Waiting', srv)
    BY <1>4, <1>6, <1>9
<1> QED BY <1>10, EaStep

LEMMA ConnectFailsAcct == ASSUME AcctInv, Next, ConnectFails, srv' = srv PROVE AcctInv'
<1>1. DOMAIN ea = EaFields
    BY DEF AcctInv, OnceInv, LinkInv, EaInv
<1>2. ea'.sock = 0
    BY <1>1 DEF ConnectFails, EaFields
<1> QED BY <1>2, EaStep

LEMMA OnInitAcct == ASSUME AcctInv, OnInit PROVE AcctInv'
<1>0. Next /\ srv' = srv /\ DOMAIN ea = EaFields
    BY DEF Next, EaNext, OnInit, AcctInv, OnceInv, LinkInv, EaInv
<1>1. CASE ConnectOK(<<>>) /\ ea' = [AfterConnect EXCEPT !.state = "idle"]
  <2>1. ea'.sock = Len(conns) + 1 /\ ea'.rxbuf = <<>> /\ ea'.state # "done"
      BY <1>0, <1>1 DEF AfterConnect, EaFields
  <2> QED BY <1>0, <1>1, <2>1, EmptyCounts, ConnectAcct
<1>2. CASE ConnectFails
    BY <1>0, <1>2, ConnectFailsAcct
<1> QED BY <1>1, <1>2 DEF OnInit

LEMMA OnTickAcct == ASSUME AcctInv, OnTick PROVE AcctInv'
<1>0. Next /\ srv' = srv /\ DOMAIN ea = EaFields /\ ea.sock # 0
    BY DEF Next, EaNext, OnTick, MaySeeLink, AcctInv, OnceInv, LinkInv, EaInv
<1>1. PICK mid \in Mids : conns' = [conns EXCEPT ![ea.sock] = SendUp(conns[ea.sock], <<Tick(mid)>>)]
    BY DEF OnTick
<1>2. ea'.sock = ea.sock /\ ea'.rxbuf = ea.rxbuf /\ ea'.state # "done"
    BY <1>0 DEF OnTick, EaFields
<1>3. PICK ms : ms = <<Tick(mid)>>
    OBVIOUS
<1>4. Tick(mid).kind # "ack"
    BY DEF Tick
<1>5. IsSeq(ms) /\ CountKind(ms, "ack") = 0
    BY <1>3, <1>4, OneCounts
<1>6. conns' = [conns EXCEPT ![ea.sock] = SendUp(conns[ea.sock], ms)]
    BY <1>1, <1>3
<1> QED BY <1>0, <1>2, <1>5, <1>6, SentAcct

LEMMA OnTimerAcct == ASSUME AcctInv, OnTimer PROVE AcctInv'
<1>0. Next /\ srv' = srv /\ DOMAIN ea = EaFields
    BY DEF Next, EaNext, OnTimer, AcctInv, OnceInv, LinkInv, EaInv
<1>1. CASE MaySeeLink /\ \E hb \in Heartbeats :
                /\ conns' = [conns EXCEPT ![ea.sock] = SendUp(@, hb)]
                /\ ea' = ToTimer(ea, hb)
  <2>1. PICK hb \in Heartbeats :
            conns' = [conns EXCEPT ![ea.sock] = SendUp(conns[ea.sock], hb)] /\ ea' = ToTimer(ea, hb)
      BY <1>1
  <2>2. ea'.sock = ea.sock /\ ea'.rxbuf = ea.rxbuf /\ ea'.state # "done"
      BY <1>0, <2>1 DEF ToTimer, EaFields
  <2>3. ea.sock # 0
      BY <1>1 DEF MaySeeLink
  <2>4. IsSeq(hb) /\ CountKind(hb, "ack") = 0
      BY HeartbeatCounts
  <2> QED BY <1>0, <2>1, <2>2, <2>3, <2>4, SentAcct
<1>2. CASE \E hb \in Heartbeats : ConnectOK(hb) /\ ea' = ToTimer(AfterConnect, hb)
  <2>1. PICK hb \in Heartbeats : ConnectOK(hb) /\ ea' = ToTimer(AfterConnect, hb)
      BY <1>2
  <2>2. ea'.sock = Len(conns) + 1 /\ ea'.rxbuf = <<>> /\ ea'.state # "done"
      BY <1>0, <2>1 DEF AfterConnect, ToTimer, EaFields
  <2>3. IsSeq(hb) /\ CountKind(hb, "ack") = 0
      BY HeartbeatCounts
  <2> QED BY <1>0, <2>1, <2>2, <2>3, ConnectAcct
<1>3. CASE ConnectFails
    BY <1>0, <1>3, ConnectFailsAcct
<1> QED BY <1>1, <1>2, <1>3 DEF OnTimer

LEMMA OnDeinitAcct == ASSUME AcctInv, OnDeinit PROVE AcctInv'
<1>0. Next /\ srv' = srv /\ DOMAIN ea = EaFields
    BY DEF Next, EaNext, OnDeinit, AcctInv, OnceInv, LinkInv, EaInv
<1>1. ea'.sock = 0
    BY <1>0 DEF OnDeinit, EaFields
<1> QED BY <1>0, <1>1, EaStep

LEMMA DiesAcct == ASSUME AcctInv, Dies PROVE AcctInv'
<1>0. Next /\ srv' = srv /\ DOMAIN ea = EaFields
    BY DEF Next, EaNext, Dies, AcctInv, OnceInv, LinkInv, EaInv
<1>1. ea'.sock = ea.sock /\ ea'.rxbuf = ea.rxbuf /\ ea'.state # "done"
    BY <1>0 DEF Dies, EaFields
<1>2. ASSUME ea.sock # 0 PROVE LinkAcct(ea.sock, conns'[ea.sock], Waiting', srv)
  <2>1. /\ ea.sock \in DOMAIN conns /\ DOMAIN conns[ea.sock] = ConnFields
        /\ LinkAcct(ea.sock, conns[ea.sock], Waiting, srv)
      BY <1>2, SockFields
  <2>2. CASE conns' = conns
    <3>1. Waiting' = Waiting
        BY <1>1, <2>2 DEF Waiting
    <3> QED BY <2>1, <2>2, <3>1
  <2>3. CASE conns' = AfterClose
    <3>1. conns'[ea.sock] = EaClose(conns[ea.sock])
        BY <1>2, <2>1, <2>3 DEF AfterClose
    <3>2. EaClose(conns[ea.sock]).eaOpen = FALSE
        BY <2>1 DEF EaClose, ConnFields
    <3> QED BY <3>1, <3>2 DEF LinkAcct
  <2> QED BY <2>2, <2>3 DEF Dies
<1> QED BY <1>0, <1>1, <1>2, EaStep

\* Nothing waits on a connection that no session has served: no line is complete there.
LEMMA NoLineOnFresh ==
    ASSUME NEW buf, NEW e \in LineEnd(buf), NEW W, \A i \in DOMAIN buf : i \in DOMAIN W
    PROVE  W # <<>>
<1>1. e \in DOMAIN W
    BY DEF LineEnd
<1>2. DOMAIN <<>> = {}
    OBVIOUS
<1> QED BY <1>1, <1>2

\* The buffer agrees with what waits.
Agrees(buf, W) == \A i \in DOMAIN buf : i \in DOMAIN W /\ buf[i] = W[i]

\* The connection after a line was read off W: an order is acknowledged.
Reads(q, r, d, W) ==
    \/ /\ Paired(W) => W[1].msg.kind = "order"
       /\ \E id : q = SendUp([r EXCEPT !.down = d], <<Ack(id)>>)
    \/ /\ Paired(W) => W[1].msg.kind # "order"
       /\ q = [r EXCEPT !.down = d]

LEMMA LineAcct ==
    ASSUME NEW c, NEW r, DOMAIN r = ConnFields, NEW S, S.orders \in Nat, S.acks \in Nat,
           NEW T, NEW W \in Seq(T), NEW V \in Seq(T),
           LinkAcct(c, r, W, S), NEW buf \in Seq(T),
           Agrees(buf, W), NEW e \in LineEnd(buf),
           IsRest(V, W, e), Len(V) + e = Len(W), NEW d, NEW q, Reads(q, r, d, W)
    PROVE  LinkAcct(c, q, V, S)
<1>0. /\ \A i \in DOMAIN buf : i \in DOMAIN W /\ buf[i] = W[i]
      /\ \/ /\ Paired(W) => W[1].msg.kind = "order"
            /\ \E id : q = SendUp([r EXCEPT !.down = d], <<Ack(id)>>)
         \/ /\ Paired(W) => W[1].msg.kind # "order"
            /\ q = [r EXCEPT !.down = d]
    BY DEF Agrees, Reads
<1>1. q.eaOpen = r.eaOpen /\ q.rst = r.rst /\ q.srvOpen = r.srvOpen
    BY <1>0 DEF ConnFields, SendUp
<1>2. CASE ~r.eaOpen
    BY <1>1, <1>2 DEF LinkAcct
<1>3. CASE r.eaOpen
  <2>1. IsSeq(r.up) /\ r.rst = "none"
      BY <1>3 DEF LinkAcct
  <2>2. W # <<>>
      BY <1>0, NoLineOnFresh
  <2>3. ~(c > S.last)
      BY <1>3, <2>2 DEF LinkAcct, Fresh
  <2>4. IsSeq(q.up)
    <3>1. ASSUME NEW id, q = SendUp([r EXCEPT !.down = d], <<Ack(id)>>) PROVE IsSeq(q.up)
      <4>1. q.up = r.up \o <<Ack(id)>> \/ q.up = r.up
          BY <3>1 DEF SendUp, ConnFields
      <4>2. PICK a : a = <<Ack(id)>>
          OBVIOUS
      <4>3. IsSeq(a)
          BY <4>2, OneCounts
      <4>4. IsSeq(r.up \o a)
          BY <2>1, <4>3, SentCounts
      <4> QED BY <2>1, <4>1, <4>2, <4>4
    <3>2. ASSUME q = [r EXCEPT !.down = d] PROVE IsSeq(q.up)
      <4>1. q.up = r.up
          BY <3>2 DEF ConnFields
      <4> QED BY <2>1, <4>1
    <3> QED BY <1>0, <3>1, <3>2
  <2>5. ASSUME S.state = "serving", S.conn = c PROVE Balance(q, V, S)
    <3>1. /\ r.srvOpen /\ Paired(W)
          /\ S.orders = S.acks + CountKind(r.up, "ack") + OrdersUnread(W)
        BY <1>3, <2>5 DEF LinkAcct, Balance
    <3>2. e = 2
        BY <1>0, <3>1, FirstLine
    <3>3. IsRest(V, W, 2) /\ Len(V) + 2 = Len(W)
        BY <3>2
    <3>4. /\ Paired(V) /\ OrdersUnread(V) \in Nat
          /\ OrdersUnread(W) = (IF W[1].msg.kind = "order" THEN 1 ELSE 0) + OrdersUnread(V)
        BY <3>1, <3>3, LineTaken
    <3>5. CountKind(r.up, "ack") \in Nat
        BY <2>1, SentCounts
    <3>6. CASE /\ W[1].msg.kind = "order"
               /\ \E id : q = SendUp([r EXCEPT !.down = d], <<Ack(id)>>)
      <4>1. PICK id : q = SendUp([r EXCEPT !.down = d], <<Ack(id)>>)
          BY <3>6
      <4>2. PICK a : a = <<Ack(id)>>
          OBVIOUS
      <4>3. q.up = r.up \o a
          BY <3>1, <4>1, <4>2 DEF SendUp, ConnFields
      <4>4. Ack(id).kind = "ack"
          BY DEF Ack
      <4>5. IsSeq(a) /\ CountKind(a, "ack") = 1
          BY <4>2, <4>4, OneCounts
      <4>6. CountKind(r.up \o a, "ack") = CountKind(r.up, "ack") + CountKind(a, "ack")
          BY <2>1, <4>5, SentCounts
      <4>7. PICK x \in Nat, v \in Nat : x = CountKind(r.up, "ack") /\ v = OrdersUnread(V)
          BY <3>4, <3>5
      <4>8. CountKind(q.up, "ack") = x + 1 /\ OrdersUnread(W) = 1 + v /\ S.orders = S.acks + x + OrdersUnread(W)
          BY <3>1, <3>4, <3>6, <4>3, <4>5, <4>6, <4>7
      <4>9. S.orders = S.acks + CountKind(q.up, "ack") + v
        <5>1. PICK k \in Nat : k = S.acks
            OBVIOUS
        <5>2. k + x + (1 + v) = k + (x + 1) + v
            OBVIOUS
        <5> QED BY <4>8, <5>1, <5>2
      <4>10. S.orders = S.acks + CountKind(q.up, "ack") + OrdersUnread(V)
          BY <4>7, <4>9
      <4> QED BY <1>1, <3>1, <3>4, <4>10 DEF Balance
    <3>7. CASE W[1].msg.kind # "order" /\ q = [r EXCEPT !.down = d]
      <4>1. q.up = r.up
          BY <3>7 DEF ConnFields
      <4>2. OrdersUnread(W) = OrdersUnread(V)
          BY <3>4, <3>7
      <4> QED BY <1>1, <3>1, <3>4, <4>1, <4>2 DEF Balance
    <3> QED BY <1>0, <3>1, <3>6, <3>7
  <2> QED BY <1>1, <2>1, <2>3, <2>4, <2>5 DEF LinkAcct
<1> QED BY <1>2, <1>3

LEMMA RecvLineAcct == ASSUME AcctInv, RecvLine PROVE AcctInv'
<1>0. /\ Next /\ srv' = srv /\ DOMAIN ea = EaFields /\ LinkInv
      /\ ea.state # "done" /\ ea.sock # 0 /\ ea.rxbuf \in Seq(FragOn(ea.sock)) /\ Acts
    BY DEF Next, EaNext, RecvLine, AcctInv, OnceInv, LinkInv, EaInv, Acts
<1>1. LinkInv'
    BY <1>0, LinkKept DEF AcctInv
<1>2. /\ ea.sock \in DOMAIN conns /\ DOMAIN conns[ea.sock] = ConnFields
      /\ conns[ea.sock].down \in Seq(FragOn(ea.sock)) /\ Here = conns[ea.sock]
    BY <1>0, SockConnOK DEF ConnOK, Here
<1>3. LinkAcct(ea.sock, conns[ea.sock], Waiting, srv) /\ Waiting \in Seq(FragOn(ea.sock))
    BY <1>0, SockFields
<1> DEFINE got(n)  == SubSeq(Here.down, 1, n)
           buf(n)  == ea.rxbuf \o got(n)
           rest(n) == SubSeq(Here.down, n + 1, Len(Here.down))
<1>4. PICK n \in 0 .. Len(Here.down) :
        \/ /\ ea' = [ea EXCEPT !.rxbuf = buf(n), !.state = "idle"]
           /\ conns' = [conns EXCEPT ![ea.sock].down = rest(n)]
        \/ \E e \in LineEnd(buf(n)) :
              /\ ea' = [ea EXCEPT !.rxbuf = SubSeq(buf(n), e + 1, Len(buf(n)))]
              /\ \/ \E o \in OrdersIn(SubSeq(buf(n), 1, e)) :
                       conns' = [conns EXCEPT ![ea.sock] =
                                      SendUp([@ EXCEPT !.down = rest(n)], <<Ack(o.id)>>)]
                 \/ /\ OrdersIn(SubSeq(buf(n), 1, e)) = {}
                    /\ conns' = [conns EXCEPT ![ea.sock].down = rest(n)]
    BY <1>0 DEF RecvLine
<1>5. IsCut(conns[ea.sock].down, n, got(n), rest(n)) /\ IsBoth(buf(n), ea.rxbuf, got(n))
    BY <1>2 DEF IsCut, IsBoth
<1> HIDE DEF got, buf, rest
<1>6. got(n) \in Seq(FragOn(ea.sock))
    BY <1>2, <1>5, CutParts
<1>7. buf(n) \in Seq(FragOn(ea.sock))
    BY <1>0, <1>5, <1>6, BothParts
\* No line yet: the same waits, more of it in the buffer.
<1>8. CASE /\ ea' = [ea EXCEPT !.rxbuf = buf(n), !.state = "idle"]
           /\ conns' = [conns EXCEPT ![ea.sock].down = rest(n)]
  <2>1. ea'.rxbuf = buf(n) /\ ea'.sock = ea.sock /\ ea'.state # "done"
      BY <1>0, <1>8 DEF EaFields
  <2>2. IsTail(buf(n), buf(n), 0)
      BY <1>7 DEF IsTail
  <2>3. conns'[ea.sock] = [conns[ea.sock] EXCEPT !.down = rest(n)]
      BY <1>2, <1>8
  <2>4. conns'[ea.sock].down = rest(n)
      BY <1>2, <2>3 DEF ConnFields
  <2>5. ea'.rxbuf \in Seq(FragOn(ea.sock)) /\ IsTail(ea'.rxbuf, buf(n), 0)
      BY <1>7, <2>1, <2>2
  <2>6. Len(Waiting') + 0 = Len(Waiting) /\ \A i \in DOMAIN Waiting' : Waiting'[i] = Waiting[i + 0]
      BY <1>0, <1>5, <2>1, <2>4, <2>5, ReadWithin
  <2>7. Waiting' \in Seq(FragOn(ea.sock))
      BY <1>0, <1>1, <2>1, WaitingTypeNext
  <2>8. Waiting' = Waiting
      BY <1>3, <2>6, <2>7
  <2>9. PICK q : q = conns'[ea.sock]
      OBVIOUS
  <2>10. /\ q.up = conns[ea.sock].up /\ q.eaOpen = conns[ea.sock].eaOpen
         /\ q.srvOpen = conns[ea.sock].srvOpen /\ q.rst = conns[ea.sock].rst
      BY <1>2, <2>3, <2>9 DEF ConnFields
  <2>11. LinkAcct(ea.sock, q, Waiting, srv)
      BY <1>3, <2>10 DEF LinkAcct, Fresh, Balance
  <2>12. LinkAcct(ea'.sock, conns'[ea'.sock], Waiting', srv)
      BY <2>1, <2>8, <2>9, <2>11
  <2> QED BY <1>0, <2>1, <2>12, EaStep
\* A line read.
<1>9. ASSUME NEW e \in LineEnd(buf(n)),
             ea' = [ea EXCEPT !.rxbuf = SubSeq(buf(n), e + 1, Len(buf(n)))],
             NEW q, conns' = [conns EXCEPT ![ea.sock] = q], q.down = rest(n),
             \/ \E o \in OrdersIn(SubSeq(buf(n), 1, e)) :
                   q = SendUp([conns[ea.sock] EXCEPT !.down = rest(n)], <<Ack(o.id)>>)
             \/ /\ OrdersIn(SubSeq(buf(n), 1, e)) = {}
                /\ q = [conns[ea.sock] EXCEPT !.down = rest(n)]
      PROVE  AcctInv'
  <2>1. e \in 1 .. Len(buf(n)) /\ Len(buf(n)) \in Nat /\ e \in Nat
      BY <1>7 DEF LineEnd
  <2>2. ea'.rxbuf = SubSeq(buf(n), e + 1, Len(buf(n))) /\ ea'.sock = ea.sock /\ ea'.state # "done"
      BY <1>0, <1>9 DEF EaFields
  <2>3. IsCut(buf(n), e, SubSeq(buf(n), 1, e), ea'.rxbuf)
      BY <2>1, <2>2 DEF IsCut
  <2>4. /\ ea'.rxbuf \in Seq(FragOn(ea.sock)) /\ Len(ea'.rxbuf) = Len(buf(n)) - e
        /\ \A i \in 1 .. Len(ea'.rxbuf) : ea'.rxbuf[i] = buf(n)[i + e]
      BY <1>7, <2>3, CutParts
  <2>5. IsTail(ea'.rxbuf, buf(n), e)
    <3>1. e \in 0 .. Len(buf(n))
        BY <2>1
    <3>2. DOMAIN ea'.rxbuf = 1 .. Len(ea'.rxbuf)
        BY <2>4
    <3> QED BY <2>4, <3>1, <3>2 DEF IsTail
  <2>6. conns'[ea.sock] = q /\ conns'[ea.sock].down = rest(n)
      BY <1>2, <1>9
  <2>7. /\ \A i \in DOMAIN buf(n) : i \in DOMAIN Waiting /\ buf(n)[i] = Waiting[i]
        /\ Len(Waiting') + e = Len(Waiting) /\ Len(Waiting') + e <= Len(Waiting)
        /\ \A i \in DOMAIN Waiting' : Waiting'[i] = Waiting[i + e]
      BY <1>0, <1>5, <2>2, <2>4, <2>5, <2>6, ReadWithin
  <2>8. IsRest(Waiting', Waiting, e)
      BY <2>1, <2>7 DEF IsRest
  <2>9. Waiting' \in Seq(FragOn(ea.sock))
      BY <1>0, <1>1, <2>2, WaitingTypeNext
  <2> DEFINE line == SubSeq(buf(n), 1, e)
  <2>10. DOMAIN line = 1 .. e /\ \A i \in 1 .. e : line[i] = buf(n)[i]
      BY <1>7, <2>1
  <2>11. OrdersIn(line) = OrdersIn(SubSeq(buf(n), 1, e))
      OBVIOUS
  <2> HIDE DEF line
  <2>12. ASSUME Paired(Waiting)
         PROVE  OrdersIn(line) # {} <=> Waiting[1].msg.kind = "order"
    <3>1. /\ e = 2 /\ 1 \in DOMAIN buf(n) /\ 2 \in DOMAIN buf(n) /\ buf(n)[1] = Waiting[1]
          /\ Waiting[1].part = "head" /\ Waiting[2].part = "tail"
        BY <1>3, <1>7, <1>9, <2>7, <2>12, FirstLine
    <3>2. /\ DOMAIN line = {1, 2} /\ line[1] = Waiting[1] /\ line[2].part = "tail"
        BY <2>7, <2>10, <3>1
    <3>3. ASSUME NEW o \in OrdersIn(line) PROVE Waiting[1].msg.kind = "order"
      <4>1. PICK i \in DOMAIN line : line[i].part = "head" /\ line[i].msg.kind = "order"
          BY DEF OrdersIn
      <4>2. i = 1
          BY <3>2, <4>1
      <4> QED BY <3>2, <4>1, <4>2
    <3>4. ASSUME Waiting[1].msg.kind = "order" PROVE OrdersIn(line) # {}
      <4>1. 1 \in DOMAIN line /\ line[1].part = "head" /\ line[1].msg.kind = "order"
          BY <3>1, <3>2, <3>4
      <4>2. line[1].msg \in OrdersIn(line)
          BY <4>1 DEF OrdersIn
      <4> QED BY <4>2
    <3> QED BY <3>3, <3>4
  <2>13. \/ /\ Paired(Waiting) => Waiting[1].msg.kind = "order"
            /\ \E id : q = SendUp([conns[ea.sock] EXCEPT !.down = rest(n)], <<Ack(id)>>)
         \/ /\ Paired(Waiting) => Waiting[1].msg.kind # "order"
            /\ q = [conns[ea.sock] EXCEPT !.down = rest(n)]
      BY <1>9, <2>11, <2>12
  <2>14. srv.orders \in Nat /\ srv.acks \in Nat
      BY DEF AcctInv
  <2>15. LinkAcct(ea.sock, q, Waiting', srv)
    <3>1. Reads(q, conns[ea.sock], rest(n), Waiting)
        BY <2>13 DEF Reads
    <3>2. Agrees(buf(n), Waiting) /\ Len(Waiting') + e = Len(Waiting)
        BY <2>7 DEF Agrees
    <3> QED BY <1>2, <1>3, <1>7, <1>9, <2>8, <2>9, <2>14, <3>1, <3>2, LineAcct
  <2>16. LinkAcct(ea'.sock, conns'[ea'.sock], Waiting', srv)
      BY <2>2, <2>6, <2>15
  <2> QED BY <1>0, <2>2, <2>16, EaStep
<1>10. ASSUME NEW e \in LineEnd(buf(n)),
              ea' = [ea EXCEPT !.rxbuf = SubSeq(buf(n), e + 1, Len(buf(n)))],
              NEW o \in OrdersIn(SubSeq(buf(n), 1, e)),
              conns' = [conns EXCEPT ![ea.sock] =
                          SendUp([conns[ea.sock] EXCEPT !.down = rest(n)], <<Ack(o.id)>>)]
       PROVE  AcctInv'
  <2>1. PICK q : q = SendUp([conns[ea.sock] EXCEPT !.down = rest(n)], <<Ack(o.id)>>)
      OBVIOUS
  <2>2. q.down = rest(n)
      BY <1>2, <2>1 DEF SendUp, ConnFields
  <2>3. conns' = [conns EXCEPT ![ea.sock] = q]
      BY <1>10, <2>1
  <2> QED BY <1>9, <1>10, <2>1, <2>2, <2>3
<1>11. ASSUME NEW e \in LineEnd(buf(n)),
              ea' = [ea EXCEPT !.rxbuf = SubSeq(buf(n), e + 1, Len(buf(n)))],
              OrdersIn(SubSeq(buf(n), 1, e)) = {},
              conns' = [conns EXCEPT ![ea.sock].down = rest(n)]
       PROVE  AcctInv'
  <2>1. PICK q : q = [conns[ea.sock] EXCEPT !.down = rest(n)]
      OBVIOUS
  <2>2. q.down = rest(n)
      BY <1>2, <2>1 DEF ConnFields
  <2>3. conns' = [conns EXCEPT ![ea.sock] = q]
      BY <1>11, <2>1
  <2> QED BY <1>9, <1>11, <2>1, <2>2, <2>3
<1> QED BY <1>4, <1>8, <1>10, <1>11
-----------------------------------------------------------------------------
(* The server's actions keep the accounts. *)

LEMMA AcceptAcct == ASSUME AcctInv, Accept PROVE AcctInv'
<1>0. Next /\ UNCHANGED <<conns, ea>> /\ srv.state = "accept" /\ srv' = NewSession(srv.last + 1)
    BY DEF Accept, Session, Next, SrvNext
<1>1. /\ srv'.last = srv.last + 1 /\ srv'.conn = srv.last + 1 /\ srv'.state = "serving"
      /\ srv'.orders = 0 /\ srv'.acks = 0
    BY <1>0 DEF NewSession
<1>2. srv.last \in Nat
    BY DEF AcctInv, OnceInv, LinkInv, SrvInv
<1>3. ASSUME ea.sock # 0 PROVE LinkAcct(ea.sock, conns[ea.sock], Waiting, srv')
  <2>1. LinkAcct(ea.sock, conns[ea.sock], Waiting, srv) /\ ea.sock \in DOMAIN conns /\ LinkInv
      BY <1>3, SockFields
  <2>2. DOMAIN conns = 1 .. Len(conns)
      BY <2>1, AppendSeq DEF LinkInv, ConnsOK
  <2>3. PICK r : r = conns[ea.sock]
      OBVIOUS
  <2>4. CASE ea.sock > srv.last /\ r.eaOpen
    <3>1. IsSeq(r.up) /\ r.rst = "none" /\ Waiting = <<>> /\ CountKind(r.up, "ack") = 0 /\ r.srvOpen
        BY <1>0, <2>1, <2>3, <2>4 DEF LinkAcct, Fresh
    <3>2. Fresh(r, Waiting, srv')
        BY <3>1 DEF Fresh
    <3>3. Paired(Waiting) /\ OrdersUnread(Waiting) = 0
        BY <3>1, PairedEmpty, CountEmpty
    <3>4. Balance(r, Waiting, srv')
        BY <1>1, <3>1, <3>3 DEF Balance
    <3> QED BY <2>3, <3>1, <3>2, <3>4 DEF LinkAcct
  <2>5. CASE ~(ea.sock > srv.last) /\ r.eaOpen
    <3>1. ~(ea.sock > srv'.last) /\ srv'.conn # ea.sock
        BY <1>1, <1>2, <2>1, <2>2, <2>5
    <3>2. IsSeq(r.up) /\ r.rst = "none"
        BY <2>1, <2>3, <2>5 DEF LinkAcct
    <3> QED BY <2>3, <3>1, <3>2 DEF LinkAcct
  <2>6. CASE ~r.eaOpen
      BY <2>3, <2>6 DEF LinkAcct
  <2> QED BY <2>4, <2>5, <2>6
<1>4. Waiting' = Waiting
    BY <1>0 DEF Waiting
<1>5. ea'.sock # 0 => LinkAcct(ea'.sock, conns'[ea'.sock], Waiting', srv')
    BY <1>0, <1>3, <1>4
<1>6. ea'.state = "done" => ea'.sock = 0
    BY <1>0 DEF AcctInv
<1>7. srv'.orders \in Nat /\ srv'.acks \in Nat
    BY <1>1
<1> QED BY <1>0, <1>5, <1>6, <1>7, AcctStep

\* What a serving mt5d makes of its state without leaving the session or the counts.
Goes(s) ==
    /\ s.last = srv.last /\ s.state \in {"serving", "accept"}
    /\ s.state = "serving" => s.conn = srv.conn

\* The EA is on another connection than the session's.
LEMMA Elsewhere ==
    ASSUME AcctInv, Serving, ea.sock # 0, ea.sock # srv.conn, Goes(srv'),
           ea' = ea, conns'[ea.sock] = conns[ea.sock]
    PROVE  LinkAcct(ea'.sock, conns'[ea'.sock], Waiting', srv')
<1>1. LinkAcct(ea.sock, conns[ea.sock], Waiting, srv)
    BY SockFields
<1>2. Waiting' = Waiting
    BY DEF Waiting
<1>3. srv'.last = srv.last /\ srv.state # "killed" /\ ~(srv'.state = "serving" /\ srv'.conn = ea.sock)
    BY DEF Goes, Serving
<1>4. PICK r : r = conns[ea.sock]
    OBVIOUS
<1>5. LinkAcct(ea.sock, r, Waiting, srv')
    BY <1>1, <1>3, <1>4 DEF LinkAcct, Fresh
<1> QED BY <1>2, <1>4, <1>5

\* An action of the session that replaces its connection by q.
LEMMA SessionStep ==
    ASSUME AcctInv, Next, Serving, Goes(srv'), srv'.orders \in Nat, srv'.acks \in Nat,
           ea' = ea, NEW cs, DOMAIN cs = DOMAIN conns,
           \A c \in DOMAIN conns : c # srv.conn => cs[c] = conns[c],
           NEW q, conns' = [cs EXCEPT ![srv.conn] = q],
           ea.sock # 0 /\ ea.sock = srv.conn => LinkAcct(ea.sock, q, ea.rxbuf \o q.down, srv')
    PROVE  AcctInv'
<1>1. LinkInv
    BY DEF AcctInv, OnceInv
<1>2. srv.conn \in DOMAIN conns
    BY <1>1, PeerOK
<1>3. ASSUME ea.sock # 0 PROVE LinkAcct(ea'.sock, conns'[ea'.sock], Waiting', srv')
  <2>1. CASE ea.sock = srv.conn
    <3>1. conns'[ea.sock] = q
        BY <1>2, <2>1
    <3>2. Waiting' = ea.rxbuf \o q.down
        BY <3>1 DEF Waiting
    <3> QED BY <1>3, <2>1, <3>1, <3>2
  <2>2. CASE ea.sock # srv.conn
    <3>1. ea.sock \in DOMAIN conns
        BY <1>1, <1>3, SockConnOK
    <3>2. conns'[ea.sock] = conns[ea.sock]
        BY <2>2, <3>1
    <3> QED BY <1>3, <2>2, <3>2, Elsewhere
  <2> QED BY <2>1, <2>2
<1>4. ea'.state = "done" => ea'.sock = 0
    BY DEF AcctInv
<1> QED BY <1>3, <1>4, AcctStep

\* The session's own accounts, when the EA is its peer.
LEMMA PeerAcct ==
    ASSUME AcctInv, Serving, ea.sock # 0, ea.sock = srv.conn
    PROVE  /\ LinkInv /\ ea.state # "done" /\ DOMAIN Peer = ConnFields /\ ~(ea.sock > srv.last)
           /\ LinkAcct(ea.sock, Peer, Waiting, srv) /\ Waiting = ea.rxbuf \o Peer.down
           /\ Waiting \in Seq(FragOn(ea.sock))
           /\ Peer.eaOpen => IsSeq(Peer.up) /\ Peer.rst = "none" /\ Balance(Peer, Waiting, srv)
<1>1. /\ LinkInv /\ ea.state # "done" /\ DOMAIN conns[ea.sock] = ConnFields
      /\ LinkAcct(ea.sock, conns[ea.sock], Waiting, srv) /\ Waiting \in Seq(FragOn(ea.sock))
    BY SockFields
<1>2. Peer = conns[ea.sock]
    BY DEF Peer
<1>3. srv.conn = srv.last /\ srv.last \in Nat
    BY DEF AcctInv, OnceInv, LinkInv, SrvInv
<1>4. PICK r : r = conns[ea.sock]
    OBVIOUS
<1>5. r.eaOpen => IsSeq(r.up) /\ r.rst = "none" /\ Balance(r, Waiting, srv)
    BY <1>1, <1>4 DEF LinkAcct, Serving
<1>6. Waiting = ea.rxbuf \o Peer.down
    BY <1>2 DEF Waiting
<1>7. ~(ea.sock > srv.last)
    BY <1>3
<1> QED BY <1>1, <1>2, <1>4, <1>5, <1>6, <1>7

\* The session's connection without its first line.
LEMMA LineConsumed ==
    ASSUME AcctInv, Serving, ea.sock # 0, ea.sock = srv.conn, Peer.eaOpen, Peer.up # <<>>
    PROVE  /\ DOMAIN Taken = ConnFields /\ Taken.down = Peer.down
           /\ Taken.eaOpen /\ Taken.srvOpen /\ Taken.rst = "none"
           /\ IsSeq(Taken.up) /\ CountKind(Taken.up, "ack") \in Nat
           /\ CountKind(Peer.up, "ack")
                = (IF Head(Peer.up).kind = "ack" THEN 1 ELSE 0) + CountKind(Taken.up, "ack")
<1>1. /\ DOMAIN Peer = ConnFields /\ IsSeq(Peer.up) /\ Peer.rst = "none"
      /\ Balance(Peer, Waiting, srv)
    BY PeerAcct
<1>2. Peer.srvOpen
    BY <1>1 DEF Balance
<1>3. /\ DOMAIN Taken = ConnFields /\ Taken.down = Peer.down /\ Taken.up = Tail(Peer.up)
      /\ Taken.eaOpen = Peer.eaOpen /\ Taken.srvOpen = Peer.srvOpen /\ Taken.rst = Peer.rst
    BY <1>1 DEF Taken, ConnFields
<1>4. PICK u : u = Peer.up
    OBVIOUS
<1>5. /\ IsSeq(Tail(u)) /\ CountKind(Tail(u), "ack") \in Nat
      /\ CountKind(u, "ack") = (IF Head(u).kind = "ack" THEN 1 ELSE 0) + CountKind(Tail(u), "ack")
    BY <1>1, <1>4, TakenCounts
<1> QED BY <1>1, <1>2, <1>3, <1>4, <1>5

LEMMA ConsumedAcct == ASSUME AcctInv, OnAck \/ OnOther PROVE AcctInv'
<1>1. /\ Next /\ Serving /\ ea' = ea /\ conns' = [conns EXCEPT ![srv.conn] = Taken]
      /\ Peer.up # <<>>
      /\ \/ Head(Peer.up).kind = "ack" /\ srv' = [Awake EXCEPT !.acks = @ + 1]
         \/ Head(Peer.up).kind # "ack" /\ srv' = Awake
    BY DEF OnAck, OnOther, NextLine, Next, SrvNext
<1>2. /\ LinkInv /\ DOMAIN srv = SrvFields /\ srv.orders \in Nat /\ srv.acks \in Nat
      /\ srv.state = "serving"
    BY <1>1 DEF AcctInv, OnceInv, LinkInv, SrvInv, Serving
<1>3. PICK one \in {0, 1} : one = IF Head(Peer.up).kind = "ack" THEN 1 ELSE 0
    OBVIOUS
<1>4. /\ srv'.orders = srv.orders /\ srv'.acks = srv.acks + one
      /\ srv'.last = srv.last /\ srv'.state = "serving" /\ srv'.conn = srv.conn
  <2>1. CASE Head(Peer.up).kind = "ack"
    <3>1. srv' = [Awake EXCEPT !.acks = @ + 1] /\ one = 1
        BY <1>1, <1>3, <2>1
    <3> QED BY <1>2, <3>1 DEF Awake, SrvFields
  <2>2. CASE Head(Peer.up).kind # "ack"
    <3>1. srv' = Awake /\ one = 0
        BY <1>1, <1>3, <2>2
    <3>2. srv.acks + 0 = srv.acks
        BY <1>2
    <3> QED BY <1>2, <3>1, <3>2 DEF Awake, SrvFields
  <2> QED BY <2>1, <2>2
<1>5. Goes(srv') /\ srv'.orders \in Nat /\ srv'.acks \in Nat
    BY <1>2, <1>4 DEF Goes
<1>6. ASSUME ea.sock # 0, ea.sock = srv.conn
      PROVE  LinkAcct(ea.sock, Taken, ea.rxbuf \o Taken.down, srv')
  <2>1. /\ ~(ea.sock > srv'.last) /\ Waiting = ea.rxbuf \o Peer.down
        /\ (Peer.eaOpen => Balance(Peer, Waiting, srv)) /\ Waiting \in Seq(FragOn(ea.sock))
      BY <1>1, <1>4, <1>6, PeerAcct
  <2>2. CASE ~Peer.eaOpen
    <3>1. ~Taken.eaOpen
        BY <1>1, <1>2, <2>2, TakenDown
    <3> QED BY <3>1 DEF LinkAcct
  <2>3. CASE Peer.eaOpen
    <3>1. /\ Taken.down = Peer.down
          /\ Taken.eaOpen /\ Taken.srvOpen /\ Taken.rst = "none"
          /\ IsSeq(Taken.up) /\ CountKind(Taken.up, "ack") \in Nat
          /\ CountKind(Peer.up, "ack") = one + CountKind(Taken.up, "ack")
        BY <1>1, <1>3, <1>6, <2>3, LineConsumed
    <3>2. /\ Paired(Waiting)
          /\ srv.orders = srv.acks + CountKind(Peer.up, "ack") + OrdersUnread(Waiting)
        BY <2>1, <2>3 DEF Balance
    <3>3. OrdersUnread(Waiting) \in Nat
        BY <2>1, UnreadConcat
    <3>4. PICK a \in Nat, x \in Nat, w \in Nat :
              a = srv.acks /\ x = CountKind(Taken.up, "ack") /\ w = OrdersUnread(Waiting)
        BY <1>2, <3>1, <3>3
    <3>5. srv.orders = a + (one + x) + w
        BY <3>1, <3>2, <3>4
    <3>6. srv.orders = (a + one) + x + w
        BY <3>5
    <3>7. srv'.orders = srv'.acks + CountKind(Taken.up, "ack") + OrdersUnread(Waiting)
        BY <1>4, <3>4, <3>6
    <3>8. Balance(Taken, Waiting, srv')
        BY <3>1, <3>2, <3>7 DEF Balance
    <3>9. Waiting = ea.rxbuf \o Taken.down
        BY <2>1, <3>1
    <3>10. LinkAcct(ea.sock, Taken, Waiting, srv')
        BY <2>1, <3>1, <3>8 DEF LinkAcct
    <3> QED BY <3>9, <3>10
  <2> QED BY <2>2, <2>3
<1>7. PICK q : q = Taken
    OBVIOUS
<1> QED BY <1>1, <1>5, <1>6, <1>7, SessionStep

\* The answer to a line, with the count of orders it brings.
Answers(s, m) ==
    /\ m \in MsgOn(srv.conn) /\ s.last = srv.last /\ s.state = "serving" /\ s.conn = srv.conn
    /\ DOMAIN s = SrvFields /\ s.acks = srv.acks
    /\ s.orders = srv.orders + IF m.kind = "order" THEN 1 ELSE 0

LEMMA SentAccounted ==
    ASSUME AcctInv, Serving, ea.sock # 0, ea.sock = srv.conn, Peer.eaOpen, Peer.up # <<>>,
           Head(Peer.up).kind # "ack", NEW s, NEW m, Answers(s, m),
           NEW q, q = SendDown(Taken, m)
    PROVE  LinkAcct(ea.sock, q, ea.rxbuf \o q.down, s)
<1>1. /\ LinkInv /\ ea.state # "done" /\ ~(ea.sock > srv.last) /\ Waiting = ea.rxbuf \o Peer.down
      /\ Balance(Peer, Waiting, srv) /\ Waiting \in Seq(FragOn(ea.sock))
    BY PeerAcct
<1>2. /\ DOMAIN Taken = ConnFields /\ Taken.down = Peer.down
      /\ Taken.eaOpen /\ Taken.srvOpen /\ Taken.rst = "none"
      /\ IsSeq(Taken.up) /\ CountKind(Taken.up, "ack") \in Nat
      /\ CountKind(Peer.up, "ack") = 0 + CountKind(Taken.up, "ack")
    BY LineConsumed
<1>3. PICK h : h = Fragment("head", m)
    OBVIOUS
<1>4. PICK l : l = Fragment("tail", m)
    OBVIOUS
<1>5. /\ q.down = Taken.down \o <<h, l>> /\ q.up = Taken.up /\ q.eaOpen = Taken.eaOpen
      /\ q.srvOpen = Taken.srvOpen /\ q.rst = Taken.rst
    BY <1>2, <1>3, <1>4 DEF SendDown, ConnFields
<1>6. /\ h.part = "head" /\ l.part = "tail" /\ h.msg = m /\ l.msg = h.msg
      /\ h \in FragOn(ea.sock) /\ l \in FragOn(ea.sock)
    BY <1>3, <1>4 DEF Fragment, FragOn, Answers
<1>7. PICK V : V = ea.rxbuf \o q.down
    OBVIOUS
<1>8. IsBoth(V, Waiting, <<h, l>>)
  <2>1. ea.rxbuf \in Seq(FragOn(ea.sock)) /\ Peer.down \in Seq(FragOn(ea.sock))
      BY <1>1, SockConnOK DEF LinkInv, EaInv, ConnOK, Peer
  <2>2. PICK u : u = <<h, l>>
      OBVIOUS
  <2>3. u \in Seq(FragOn(ea.sock))
      BY <1>6, <2>2
  <2>4. PICK a : a = ea.rxbuf
      OBVIOUS
  <2>5. PICK b : b = Peer.down
      OBVIOUS
  <2>6. a \o (b \o u) = (a \o b) \o u
    <3>1. a \in Seq(FragOn(ea.sock)) /\ b \in Seq(FragOn(ea.sock))
        BY <2>1, <2>4, <2>5
    <3> QED BY <2>3, <3>1
  <2>7. V = a \o (b \o u) /\ Waiting = a \o b
      BY <1>1, <1>2, <1>5, <1>7, <2>2, <2>4, <2>5
  <2>8. V = Waiting \o u
      BY <2>6, <2>7
  <2> QED BY <2>2, <2>8 DEF IsBoth
<1>9. /\ Paired(Waiting)
      /\ srv.orders = srv.acks + CountKind(Peer.up, "ack") + OrdersUnread(Waiting)
    BY <1>1 DEF Balance
<1>10. /\ Paired(V) /\ OrdersUnread(Waiting) \in Nat
       /\ OrdersUnread(V) = OrdersUnread(Waiting) + IF h.msg.kind = "order" THEN 1 ELSE 0
    BY <1>1, <1>6, <1>8, <1>9, LineAdded
<1>11. PICK one \in {0, 1} : one = IF m.kind = "order" THEN 1 ELSE 0
    OBVIOUS
<1>12. s.last = srv.last /\ s.acks = srv.acks /\ s.orders = srv.orders + one
    BY <1>11 DEF Answers
<1>13. PICK a \in Nat, x \in Nat, w \in Nat :
          a = srv.acks /\ x = CountKind(Taken.up, "ack") /\ w = OrdersUnread(Waiting)
    BY <1>2, <1>10 DEF AcctInv
<1>14. srv.orders = a + (0 + x) + w /\ OrdersUnread(V) = w + one
    BY <1>2, <1>6, <1>9, <1>10, <1>11, <1>13
<1>15. (a + (0 + x) + w) + one = a + x + (w + one)
    BY <1>13
<1>16. s.orders = s.acks + CountKind(q.up, "ack") + OrdersUnread(V)
    BY <1>5, <1>12, <1>13, <1>14, <1>15
<1>17. Balance(q, V, s)
    BY <1>2, <1>5, <1>10, <1>16 DEF Balance
<1>18. LinkAcct(ea.sock, q, V, s)
    BY <1>1, <1>2, <1>5, <1>12, <1>17 DEF LinkAcct
<1> QED BY <1>7, <1>18

LEMMA ReplyAcct ==
    ASSUME AcctInv, Next, Serving, ea' = ea, Peer.up # <<>>, Head(Peer.up).kind # "ack",
           NEW s, NEW m, Answers(s, m), Reply(s, m)
    PROVE  AcctInv'
<1>1. LinkInv /\ srv.conn \in DOMAIN conns /\ DOMAIN Taken = ConnFields
      /\ Taken.eaOpen = Peer.eaOpen /\ Taken.rst = Peer.rst
  <2>1. LinkInv
      BY DEF AcctInv, OnceInv
  <2> QED BY <2>1, PeerOK, TakenDown
<1>2. s.orders \in Nat /\ s.acks \in Nat
  <2>1. srv.orders \in Nat /\ srv.acks \in Nat
      BY DEF AcctInv
  <2>2. s.acks = srv.acks /\ (s.orders = srv.orders + 1 \/ s.orders = srv.orders + 0)
      BY DEF Answers
  <2> QED BY <2>1, <2>2
<1>3. ASSUME srv' = s PROVE Goes(srv') /\ srv'.orders \in Nat /\ srv'.acks \in Nat
    BY <1>2, <1>3 DEF Goes, Answers
\* Nothing is left to account for once the EA has closed.
<1>4. CASE srv' = s /\ conns' = [conns EXCEPT ![srv.conn] = SendDown(Taken, m)]
  <2>1. PICK q : q = SendDown(Taken, m)
      OBVIOUS
  <2>2. ASSUME ea.sock # 0, ea.sock = srv.conn
        PROVE  LinkAcct(ea.sock, q, ea.rxbuf \o q.down, srv')
    <3>1. CASE Peer.eaOpen
        BY <1>4, <2>1, <2>2, <3>1, SentAccounted
    <3>2. CASE ~Peer.eaOpen
      <4>1. ~q.eaOpen
          BY <1>1, <2>1, <3>2 DEF SendDown, ConnFields
      <4> QED BY <4>1 DEF LinkAcct
    <3> QED BY <3>1, <3>2
  <2>3. conns' = [conns EXCEPT ![srv.conn] = q]
      BY <1>4, <2>1
  <2> QED BY <1>3, <1>4, <2>2, <2>3, SessionStep
\* A reset has arrived only where the EA has closed.
<1>5. ASSUME Peer.rst = "arrived", ea.sock # 0, ea.sock = srv.conn PROVE ~Peer.eaOpen
  <2>1. Peer.eaOpen => Peer.rst = "none"
      BY <1>5, PeerAcct
  <2> QED BY <1>5, <2>1
<1>6. CASE Peer.rst = "arrived" /\ srv' = s /\ conns' = [conns EXCEPT ![srv.conn] = Taken]
  <2>1. PICK q : q = Taken
      OBVIOUS
  <2>2. ASSUME ea.sock # 0, ea.sock = srv.conn
        PROVE  LinkAcct(ea.sock, q, ea.rxbuf \o q.down, srv')
    <3>1. ~q.eaOpen
        BY <1>1, <1>5, <1>6, <2>1, <2>2
    <3> QED BY <3>1 DEF LinkAcct
  <2>3. conns' = [conns EXCEPT ![srv.conn] = q]
      BY <1>6, <2>1
  <2> QED BY <1>3, <1>6, <2>2, <2>3, SessionStep
<1>7. CASE /\ Peer.rst = "arrived" /\ srv' = [s EXCEPT !.state = "killed", !.conn = 0]
           /\ conns' = [c \in DOMAIN conns |-> [conns[c] EXCEPT !.srvOpen = FALSE, !.up = <<>>]]
  <2>1. /\ srv'.orders = s.orders /\ srv'.acks = s.acks /\ srv'.last = srv.last
        /\ srv'.state = "killed"
      BY <1>7 DEF Answers, SrvFields
  <2>2. ASSUME ea.sock # 0 PROVE LinkAcct(ea'.sock, conns'[ea'.sock], Waiting', srv')
    <3>1. /\ ea.sock \in DOMAIN conns /\ DOMAIN conns[ea.sock] = ConnFields
          /\ LinkAcct(ea.sock, conns[ea.sock], Waiting, srv)
        BY <2>2, SockFields
    <3>2. PICK r : r = conns[ea.sock]
        OBVIOUS
    <3>3. PICK q : q = conns'[ea.sock]
        OBVIOUS
    <3>4. q = [r EXCEPT !.srvOpen = FALSE, !.up = <<>>]
        BY <1>7, <3>1, <3>2, <3>3
    <3>5. q.up = <<>> /\ q.eaOpen = r.eaOpen /\ q.rst = r.rst /\ q.down = r.down
        BY <3>1, <3>2, <3>4 DEF ConnFields
    <3>6. IsSeq(q.up) /\ CountKind(q.up, "ack") = 0
        BY <3>5, EmptyCounts
    <3>7. LinkAcct(ea.sock, q, Waiting, srv')
        BY <2>1, <3>1, <3>2, <3>5, <3>6 DEF LinkAcct, Fresh
    <3>8. Waiting' = Waiting
        BY <3>2, <3>3, <3>5 DEF Waiting
    <3> QED BY <3>3, <3>7, <3>8
  <2>3. ea'.state = "done" => ea'.sock = 0
      BY DEF AcctInv
  <2>4. srv'.orders \in Nat /\ srv'.acks \in Nat
      BY <1>2, <2>1
  <2> QED BY <2>2, <2>3, <2>4, AcctStep
<1> QED BY <1>4, <1>6, <1>7 DEF Reply

LEMMA OnHelloAcct == ASSUME AcctInv, OnHello PROVE AcctInv'
<1>1. /\ Next /\ Serving /\ Reply(Awake, Msg("hello")) /\ ea' = ea
      /\ Peer.up # <<>> /\ Head(Peer.up).kind # "ack"
    BY DEF OnHello, NextLine, Next, SrvNext
<1>2. DOMAIN srv = SrvFields /\ srv.orders \in Nat
    BY DEF AcctInv, OnceInv, LinkInv, SrvInv
<1>3. Answers(Awake, Msg("hello"))
    BY <1>1, <1>2 DEF Answers, Awake, SrvFields, Msg, MsgOn, Serving
<1> QED BY <1>1, <1>3, ReplyAcct

LEMMA OnTickLineAcct == ASSUME AcctInv, OnTickLine PROVE AcctInv'
<1> DEFINE mid == Head(Peer.up).mid
           s == [Awake EXCEPT !.ticks = @ + 1, !.primed = TRUE, !.prev_mid = mid]
           t == [s EXCEPT !.orders = @ + 1, !.next_id = NextId(@)]
<1>1. /\ Next /\ Serving /\ ea' = ea /\ Peer.up # <<>> /\ Head(Peer.up).kind # "ack"
      /\ (Reply(t, Order(srv.conn, srv.next_id)) \/ Reply(s, Msg("nop")))
    BY DEF OnTickLine, NextLine, Next, SrvNext
<1>2. DOMAIN srv = SrvFields /\ srv.next_id \in Nat /\ srv.orders \in Nat
    BY DEF AcctInv, OnceInv, LinkInv, SrvInv
<1>3. /\ DOMAIN s = SrvFields /\ s.state = srv.state /\ s.conn = srv.conn /\ s.last = srv.last
      /\ s.orders = srv.orders /\ s.acks = srv.acks
    BY <1>2 DEF SrvFields, Awake
<1>4. /\ DOMAIN t = SrvFields /\ t.state = srv.state /\ t.conn = srv.conn /\ t.last = srv.last
      /\ t.orders = srv.orders + 1 /\ t.acks = srv.acks
    BY <1>2 DEF SrvFields, Awake, NextId
<1> HIDE DEF s, t
<1>5. Answers(s, Msg("nop"))
  <2>1. Msg("nop") \in MsgOn(srv.conn) /\ Msg("nop").kind # "order"
      BY DEF Msg, MsgOn
  <2> QED BY <1>1, <1>2, <1>3, <2>1 DEF Answers, Serving
<1>6. Answers(t, Order(srv.conn, srv.next_id))
  <2>1. Order(srv.conn, srv.next_id) \in MsgOn(srv.conn)
      BY <1>2 DEF MsgOn
  <2>2. Order(srv.conn, srv.next_id).kind = "order"
      BY DEF Order
  <2> QED BY <1>1, <1>4, <2>1, <2>2 DEF Answers, Serving
<1> QED BY <1>1, <1>5, <1>6, ReplyAcct

LEMMA EndedAcct ==
    ASSUME AcctInv, Next, Serving, ea' = ea, NEW s, DOMAIN s = SrvFields, s.last = srv.last,
           s.orders = srv.orders, s.acks = srv.acks,
           NEW cs, DOMAIN cs = DOMAIN conns,
           \A c \in DOMAIN conns : c # srv.conn => cs[c] = conns[c],
           NEW r, r = cs[srv.conn], DOMAIN r = ConnFields, r.eaOpen = Peer.eaOpen, r.rst = Peer.rst,
           EndSession(s, cs)
    PROVE  AcctInv'
<1>1. PICK q \in SrvCloses(r) : conns' = [cs EXCEPT ![srv.conn] = q]
    BY DEF EndSession
<1>2. q.up = <<>> /\ q.eaOpen = r.eaOpen /\ q.rst = r.rst
    BY <1>1 DEF SrvCloses, ConnFields
<1>3. /\ srv'.last = srv.last /\ srv'.state = "accept"
      /\ srv'.orders = srv.orders /\ srv'.acks = srv.acks
    BY DEF EndSession, SrvFields
<1>4. Goes(srv') /\ srv'.orders \in Nat /\ srv'.acks \in Nat
    BY <1>3 DEF Goes, AcctInv
<1>5. ASSUME ea.sock # 0, ea.sock = srv.conn
      PROVE  LinkAcct(ea.sock, q, ea.rxbuf \o q.down, srv')
  <2>1. ~(ea.sock > srv'.last) /\ (Peer.eaOpen => Peer.rst = "none")
      BY <1>3, <1>5, PeerAcct
  <2>2. IsSeq(q.up)
      BY <1>2, EmptyCounts
  <2> QED BY <1>2, <1>3, <2>1, <2>2 DEF LinkAcct
<1> QED BY <1>1, <1>4, <1>5, SessionStep

LEMMA OnByeAcct == ASSUME AcctInv, OnBye PROVE AcctInv'
<1> DEFINE cs == [conns EXCEPT ![srv.conn] = Taken]
<1>1. Next /\ Serving /\ ea' = ea /\ EndSession(Awake, cs)
    BY DEF OnBye, NextLine, Next, SrvNext
<1>2. LinkInv /\ DOMAIN srv = SrvFields
    BY DEF AcctInv, OnceInv, LinkInv, SrvInv
<1>3. /\ DOMAIN Awake = SrvFields /\ Awake.last = srv.last
      /\ Awake.orders = srv.orders /\ Awake.acks = srv.acks
    BY <1>2 DEF Awake, SrvFields
<1>4. /\ srv.conn \in DOMAIN conns /\ DOMAIN Taken = ConnFields
      /\ Taken.eaOpen = Peer.eaOpen /\ Taken.rst = Peer.rst
    BY <1>1, <1>2, PeerOK, TakenDown
<1>5. /\ DOMAIN cs = DOMAIN conns /\ cs[srv.conn] = Taken
      /\ \A c \in DOMAIN conns : c # srv.conn => cs[c] = conns[c]
    BY <1>4
<1> HIDE DEF cs
<1>6. PICK r : r = cs[srv.conn]
    OBVIOUS
<1>7. DOMAIN r = ConnFields /\ r.eaOpen = Peer.eaOpen /\ r.rst = Peer.rst
    BY <1>4, <1>5, <1>6
<1>8. PICK s : s = Awake
    OBVIOUS
<1>9. /\ DOMAIN s = SrvFields /\ s.last = srv.last
      /\ s.orders = srv.orders /\ s.acks = srv.acks /\ EndSession(s, cs)
    BY <1>1, <1>3, <1>8
<1> QED BY <1>1, <1>5, <1>6, <1>7, <1>9, EndedAcct

LEMMA OnEofAcct == ASSUME AcctInv, OnEof PROVE AcctInv'
<1>1. Next /\ Serving /\ ea' = ea /\ EndSession(srv, conns)
    BY DEF OnEof, Next, SrvNext
<1>2. LinkInv /\ DOMAIN srv = SrvFields
    BY DEF AcctInv, OnceInv, LinkInv, SrvInv
<1>3. DOMAIN Peer = ConnFields /\ Peer = conns[srv.conn]
    BY <1>1, <1>2, PeerOK DEF ConnOK, Peer
<1> QED BY <1>1, <1>2, <1>3, EndedAcct

LEMMA OnTimeoutAcct == ASSUME AcctInv, OnTimeout PROVE AcctInv'
<1>1. PICK s : s = [srv EXCEPT !.idle = IdleAfter(srv.idle)]
    OBVIOUS
<1>2. /\ Next /\ Serving /\ ea' = ea
      /\ (EndSession(s, conns) \/ (srv' = s /\ UNCHANGED conns))
    BY <1>1 DEF OnTimeout, Next, SrvNext
<1>3. LinkInv /\ DOMAIN srv = SrvFields
    BY DEF AcctInv, OnceInv, LinkInv, SrvInv
<1>4. /\ DOMAIN s = SrvFields /\ s.last = srv.last /\ s.orders = srv.orders /\ s.acks = srv.acks
      /\ s.state = srv.state /\ s.conn = srv.conn
    BY <1>1, <1>3 DEF SrvFields
<1>5. CASE EndSession(s, conns)
  <2>1. DOMAIN Peer = ConnFields /\ Peer = conns[srv.conn]
      BY <1>2, <1>3, PeerOK DEF ConnOK, Peer
  <2> QED BY <1>2, <1>4, <1>5, <2>1, EndedAcct
<1>6. CASE srv' = s /\ UNCHANGED conns
  <2>1. Waiting' = Waiting
      BY <1>2, <1>6 DEF Waiting
  <2>2. ASSUME ea.sock # 0 PROVE LinkAcct(ea'.sock, conns'[ea'.sock], Waiting', srv')
    <3>1. PICK r : r = conns[ea.sock]
        OBVIOUS
    <3>2. LinkAcct(ea.sock, r, Waiting, srv)
        BY <2>2, <3>1, SockFields
    <3>3. LinkAcct(ea.sock, r, Waiting, s)
        BY <1>4, <3>2 DEF LinkAcct, Fresh, Balance
    <3> QED BY <1>2, <1>6, <2>1, <3>1, <3>3
  <2>3. /\ ea'.state = "done" => ea'.sock = 0
        /\ srv'.orders \in Nat /\ srv'.acks \in Nat
      BY <1>2, <1>4, <1>6 DEF AcctInv
  <2> QED BY <1>2, <2>2, <2>3, AcctStep
<1> QED BY <1>2, <1>5, <1>6

LEMMA ResetAcct == ASSUME AcctInv, ResetArrives PROVE AcctInv'
<1>1. Next /\ ea' = ea /\ srv' = srv
    BY DEF ResetArrives, Next
<1>2. PICK c \in DOMAIN conns :
        /\ conns[c].rst = "sent"
        /\ conns' = [conns EXCEPT ![c] = [conns[c] EXCEPT !.rst = "arrived"]]
    BY DEF ResetArrives
<1>3. ASSUME ea.sock # 0 PROVE LinkAcct(ea'.sock, conns'[ea'.sock], Waiting', srv)
  <2>1. /\ ea.sock \in DOMAIN conns /\ DOMAIN conns[ea.sock] = ConnFields
        /\ LinkAcct(ea.sock, conns[ea.sock], Waiting, srv)
      BY <1>3, SockFields
  <2>2. CASE c # ea.sock
    <3>1. conns'[ea.sock] = conns[ea.sock]
        BY <1>2, <2>1, <2>2
    <3>2. Waiting' = Waiting
        BY <1>1, <3>1 DEF Waiting
    <3> QED BY <1>1, <2>1, <3>1, <3>2
  <2>3. CASE c = ea.sock
    <3>1. ~conns[ea.sock].eaOpen
        BY <1>2, <2>1, <2>3 DEF LinkAcct
    <3>2. conns'[ea.sock] = [conns[ea.sock] EXCEPT !.rst = "arrived"]
        BY <1>2, <2>1, <2>3
    <3>3. ~conns'[ea.sock].eaOpen
        BY <2>1, <3>1, <3>2 DEF ConnFields
    <3> QED BY <1>1, <3>3 DEF LinkAcct
  <2> QED BY <2>2, <2>3
<1>4. ea'.state = "done" => ea'.sock = 0
    BY <1>1 DEF AcctInv
<1> QED BY <1>1, <1>3, <1>4, EaStep
-----------------------------------------------------------------------------
LEMMA AcctInit == Init => AcctInv
<1> SUFFICES ASSUME Init PROVE AcctInv
    OBVIOUS
<1>1. OnceInv
    BY OnceInit
<1>2. ea.sock = 0
    BY DEF Init
<1>3. srv.orders = 0 /\ srv.acks = 0
    BY DEF Init, NewSession
<1> QED BY <1>1, <1>2, <1>3 DEF AcctInv

LEMMA AcctNext == AcctInv /\ [Next]_vars => AcctInv'
<1> SUFFICES ASSUME AcctInv, [Next]_vars PROVE AcctInv'
    OBVIOUS
<1>1. CASE EaNext
    BY <1>1, OnInitAcct, OnTickAcct, OnTimerAcct, RecvLineAcct, OnDeinitAcct, DiesAcct DEF EaNext
<1>2. CASE SrvNext
    BY <1>2, AcceptAcct, OnHelloAcct, OnTickLineAcct, ConsumedAcct, OnByeAcct, OnEofAcct,
       OnTimeoutAcct
       DEF SrvNext
<1>3. CASE UNCHANGED vars
  <2>1. OnceInv'
      BY <1>3, OnceNext DEF AcctInv
  <2>2. ea' = ea /\ srv' = srv /\ conns' = conns
      BY <1>3 DEF vars
  <2>3. Waiting' = Waiting
      BY <2>2 DEF Waiting
  <2> QED BY <2>1, <2>2, <2>3 DEF AcctInv
<1> QED BY <1>1, <1>2, <1>3, ResetAcct DEF Next

LEMMA AcctImplies == AcctInv => OrdersAccounted
<1> SUFFICES ASSUME AcctInv, Serving, srv.conn = ea.sock, Peer.eaOpen
             PROVE  srv.orders = srv.acks + CountKind(Peer.up, "ack")
                                 + OrdersUnread(Peer.down) + OrdersUnread(ea.rxbuf)
    BY DEF OrdersAccounted
<1>1. ea.sock # 0
  <2>1. LinkInv /\ srv.conn \in DOMAIN conns
      BY PeerOK DEF AcctInv, OnceInv
  <2>2. DOMAIN conns = 1 .. Len(conns)
      BY <2>1, AppendSeq DEF LinkInv, ConnsOK
  <2> QED BY <2>1, <2>2
<1>2. /\ LinkInv /\ ea.state # "done" /\ Waiting = ea.rxbuf \o Peer.down
      /\ IsSeq(Peer.up) /\ Balance(Peer, Waiting, srv)
    BY <1>1, PeerAcct
<1>3. srv.orders = srv.acks + CountKind(Peer.up, "ack") + OrdersUnread(Waiting)
    BY <1>2 DEF Balance
<1>4. ea.rxbuf \in Seq(FragOn(ea.sock)) /\ Peer.down \in Seq(FragOn(ea.sock))
    BY <1>1, <1>2, SockConnOK DEF LinkInv, EaInv, ConnOK, Peer
<1>5. /\ OrdersUnread(ea.rxbuf) \in Nat /\ OrdersUnread(Peer.down) \in Nat
      /\ OrdersUnread(ea.rxbuf \o Peer.down) = OrdersUnread(ea.rxbuf) + OrdersUnread(Peer.down)
    BY <1>4, UnreadConcat
<1>6. CountKind(Peer.up, "ack") \in Nat /\ srv.acks \in Nat
    BY <1>2, SentCounts DEF AcctInv
<1>7. PICK a \in Nat, x \in Nat, b \in Nat, d \in Nat :
        /\ a = srv.acks /\ x = CountKind(Peer.up, "ack")
        /\ b = OrdersUnread(ea.rxbuf) /\ d = OrdersUnread(Peer.down)
    BY <1>5, <1>6
<1>8. srv.orders = a + x + (b + d)
    BY <1>2, <1>3, <1>5, <1>7
<1>9. srv.orders = a + x + d + b
    BY <1>8
<1> QED BY <1>7, <1>9

\* While the two are connected, no order is lost and none is counted twice: each is
\* acknowledged, on its way to the EA, or its ack is on its way back.
THEOREM EveryOrderAccounted == Spec => []OrdersAccounted
<1>1. Spec => []AcctInv
    BY AcctInit, AcctNext, PTL DEF Spec
<1> QED BY <1>1, AcctImplies, PTL
=============================================================================
