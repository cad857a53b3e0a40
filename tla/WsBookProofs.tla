---------------------------- MODULE WsBookProofs ----------------------------
(***************************************************************************)
(* Proofs about the WebSocket server for any number of viewers, any stream *)
(* and any request: nobody is upgraded on another one's key, every viewer  *)
(* reads the replay, and none is harmed by what another one does.          *)
(*                                                                         *)
(* For the last two, SeenInv says of each viewer what is in its buffer and *)
(* on the network, taken together: the rest of the response and then the   *)
(* frames it has not read, up to the last one its session has sent; and    *)
(* where the key it has sent is.                                           *)
(***************************************************************************)
EXTENDS WsBook, FiniteSetTheorems, NaturalsInduction, WellFoundedInduction, TLAPS

\* The fields of a connection, of a viewer and of the server.
SockDom == {"up", "down", "clOpen", "svOpen", "rst"}
ClientDom == {"at", "lines", "key", "buf", "frames"}
ServerDom == {"at", "conn", "key", "fed", "applied", "sent"}

\* A connection and its viewer k: only one that has left is reset, and nothing is
\* sent to one that has sent no key.
SockOk(s, k) ==
    /\ DOMAIN s = SockDom /\ s.up \in Seq({"key", "other", "blank"})
    /\ s.clOpen \in BOOLEAN /\ s.rst \in {"none", "sent", "arrived"}
    /\ s.rst # "none" \/ ~s.clOpen => k.at = "left"
    /\ \A i \in 1 .. Len(s.up) : s.up[i] = "key" => k.key
    /\ s.down # <<>> => k.key

ClientOk(k) ==
    /\ DOMAIN k = ClientDom /\ k.key \in BOOLEAN
    /\ k.buf # <<>> \/ k.at = "viewing" => k.key

ConnInv ==
    /\ sock = [c \in Viewer |-> sock[c]] /\ cl = [c \in Viewer |-> cl[c]]
    /\ queue \in Seq(Viewer)
    /\ \A c \in Viewer : SockOk(sock[c], cl[c]) /\ ClientOk(cl[c])

\* The key the server has seen is the one of the viewer it talks to.
ServerInv ==
    /\ DOMAIN sv = ServerDom /\ sv.key \in BOOLEAN
    /\ sv.at \in {"request", "stream"} => sv.conn \in Viewer
    /\ sv.at = "accept" => sv.conn = 0
    /\ sv.at = "request" /\ sv.key => cl[sv.conn].key
    /\ sv.at = "stream" => cl[sv.conn].key

\* Whom the server served when it ended.
EndInv ==
    sv.at = "dead" /\ sv.conn # 0 =>
        sv.conn \in Viewer /\ cl[sv.conn].at = "left" /\ cl[sv.conn].key

WsInv == ConnInv /\ ServerInv /\ EndInv
-----------------------------------------------------------------------------
LEMMA WsInit == Init => WsInv
<1> SUFFICES ASSUME Init PROVE WsInv
    OBVIOUS
<1>1. SockOk(NewSock, [at |-> "away", lines |-> 0, key |-> FALSE, buf |-> <<>>, frames |-> <<>>])
    BY DEF SockOk, SockDom, NewSock
<1>2. ClientOk([at |-> "away", lines |-> 0, key |-> FALSE, buf |-> <<>>, frames |-> <<>>])
    BY DEF ClientOk, ClientDom
<1>3. ConnInv
    BY <1>1, <1>2 DEF Init, ConnInv
<1>4. ServerInv /\ EndInv
    BY DEF Init, ServerInv, ServerDom, Idle, EndInv
<1> QED BY <1>3, <1>4 DEF WsInv

\* A viewer's step on its own connection: it forgets no key and does not come back.
LEMMA ViewerStep ==
    ASSUME WsInv, NEW c \in Viewer, NEW s, NEW k,
           sock' = [sock EXCEPT ![c] = s], cl' = [cl EXCEPT ![c] = k],
           queue' \in Seq(Viewer), sv' = sv,
           SockOk(s, k), ClientOk(k), cl[c].key => k.key,
           cl[c].at = "left" => k.at = "left"
    PROVE  WsInv'
<1>1. /\ DOMAIN sock = Viewer /\ DOMAIN cl = Viewer
      /\ sock'[c] = s /\ cl'[c] = k
      /\ \A d \in Viewer : d # c => sock'[d] = sock[d] /\ cl'[d] = cl[d]
    BY DEF WsInv, ConnInv
<1>2. ConnInv'
    BY <1>1 DEF WsInv, ConnInv
<1>3. ServerInv'
    BY <1>1 DEF WsInv, ServerInv
<1>4. EndInv'
    BY <1>1 DEF WsInv, EndInv
<1> QED BY <1>2, <1>3, <1>4 DEF WsInv

\* The server's step on the connection it serves.
LEMMA ServerStep ==
    ASSUME WsInv, sv.conn \in Viewer, NEW s,
           sock' = [sock EXCEPT ![sv.conn] = s], cl' = cl, queue' = queue,
           SockOk(s, cl[sv.conn]), ServerInv', sv.at # "dead", sv'.at # "dead"
    PROVE  WsInv'
<1>1. /\ DOMAIN sock = Viewer /\ sock'[sv.conn] = s
      /\ \A d \in Viewer : d # sv.conn => sock'[d] = sock[d]
    BY DEF WsInv, ConnInv
<1>2. ConnInv'
    BY <1>1 DEF WsInv, ConnInv
<1>3. EndInv'
    BY DEF EndInv
<1> QED BY <1>2, <1>3 DEF WsInv

\* What the server is after it has closed a connection, and when it has ended.
LEMMA IdleOk ==
    /\ DOMAIN Idle = ServerDom /\ Idle.key = FALSE /\ Idle.at = "accept" /\ Idle.conn = 0
    /\ \A n, d : d = [Idle EXCEPT !.at = "dead", !.conn = n] =>
                    DOMAIN d = ServerDom /\ d.at = "dead" /\ d.conn = n /\ d.key = FALSE
<1>1. DOMAIN Idle = ServerDom /\ Idle.key = FALSE /\ Idle.at = "accept" /\ Idle.conn = 0
    BY DEF Idle, ServerDom
<1>2. ASSUME NEW n, NEW d, d = [Idle EXCEPT !.at = "dead", !.conn = n]
      PROVE  DOMAIN d = ServerDom /\ d.at = "dead" /\ d.conn = n /\ d.key = FALSE
    BY <1>1, <1>2 DEF ServerDom
<1> QED BY <1>1, <1>2, Zenon

LEMMA EndsIs ==
    ASSUME Ends
    PROVE  DOMAIN sv' = ServerDom /\ sv'.at = "dead" /\ sv'.conn = sv.conn /\ sv'.key = FALSE
    BY IdleOk DEF Ends

\* The process ends: over nobody, or over a viewer that has left after it sent its key.
LEMMA EndsKeeps ==
    ASSUME WsInv, Ends, UNCHANGED <<queue, cl>>,
           sv.conn # 0 => sv.conn \in Viewer /\ cl[sv.conn].at = "left" /\ cl[sv.conn].key
    PROVE  WsInv'
<1>1. ASSUME NEW c \in Viewer PROVE SockOk(sock'[c], cl[c])
  <2>1. SockOk(sock[c], cl[c]) /\ DOMAIN sock[c] = SockDom
      BY DEF WsInv, ConnInv, SockOk
  <2>2. sock'[c] = [sock[c] EXCEPT !.svOpen = FALSE, !.up = <<>>]
      BY DEF Ends
  <2>3. /\ DOMAIN sock'[c] = SockDom /\ sock'[c].up = <<>> /\ sock'[c].down = sock[c].down
        /\ sock'[c].clOpen = sock[c].clOpen /\ sock'[c].rst = sock[c].rst
      BY <2>1, <2>2 DEF SockDom
  <2> QED BY <2>1, <2>3 DEF SockOk
<1>2. ConnInv'
  <2>1. sock' = [c \in Viewer |-> sock'[c]]
      BY DEF Ends
  <2> QED BY <1>1, <2>1 DEF WsInv, ConnInv
<1>3. DOMAIN sv' = ServerDom /\ sv'.at = "dead" /\ sv'.conn = sv.conn /\ sv'.key = FALSE
    BY EndsIs
<1>4. ServerInv' /\ EndInv'
    BY <1>3 DEF ServerInv, EndInv
<1> QED BY <1>2, <1>4 DEF WsInv

LEMMA CloseKeeps ==
    ASSUME WsInv, sv.conn \in Viewer, sv.at # "dead", NEW s, SockOk(s, cl[sv.conn]),
           NextViewer(s), UNCHANGED <<queue, cl>>
    PROVE  WsInv'
<1>1. PICK closed \in SvCloses(s) : sock' = [sock EXCEPT ![sv.conn] = closed]
    BY DEF NextViewer
<1>2. PICK d : /\ closed = [s EXCEPT !.svOpen = FALSE, !.up = <<>>, !.down = d]
               /\ d = s.down \/ d = <<>>
    BY DEF SvCloses
<1>3. DOMAIN s = SockDom
    BY DEF SockOk
<1>4. /\ DOMAIN closed = SockDom /\ closed.up = <<>> /\ closed.down = d
      /\ closed.clOpen = s.clOpen /\ closed.rst = s.rst
    BY <1>2, <1>3 DEF SockDom
<1>5. SockOk(closed, cl[sv.conn])
    BY <1>2, <1>4 DEF SockOk
<1>6. ServerInv' /\ sv'.at # "dead"
    BY IdleOk DEF NextViewer, ServerInv
<1> QED BY <1>1, <1>4, <1>5, <1>6, ServerStep

LEMMA SendKeeps ==
    ASSUME WsInv, sv.conn \in Viewer, sv.at # "dead", cl[sv.conn].key,
           NEW s, SockOk(s, cl[sv.conn]), s.rst = sock[sv.conn].rst,
           NEW tokens, NEW ok, DOMAIN ok = ServerDom, ok.key \in BOOLEAN,
           ok.at = "stream", ok.conn = sv.conn,
           Send(s, tokens, ok), UNCHANGED <<queue, cl>>
    PROVE  WsInv'
<1>1. CASE s.rst = "arrived" /\ NextViewer(s)
    BY <1>1, CloseKeeps
<1>2. CASE /\ s.rst # "arrived" /\ sv' = ok
           /\ sock' = [sock EXCEPT ![sv.conn] = SendDown(s, tokens)]
  <2> DEFINE t == SendDown(s, tokens)
  <2>1. DOMAIN s = SockDom
      BY DEF SockOk
  <2>2. DOMAIN t = SockDom /\ t.up = s.up /\ t.clOpen = s.clOpen
        /\ (s.clOpen => t.rst = s.rst)
        /\ (~s.clOpen => t.rst \in {"sent", s.rst})
      BY <2>1 DEF SendDown, SockDom
  <2> HIDE DEF t
  <2>3. SockOk(t, cl[sv.conn])
      BY <2>2 DEF SockOk
  <2>4. ServerInv' /\ sv'.at # "dead"
      BY <1>2 DEF ServerInv
  <2>5. sock' = [sock EXCEPT ![sv.conn] = t]
      BY <1>2 DEF t
  <2> QED BY <1>2, <2>3, <2>4, <2>5, ServerStep
<1>3. CASE s.rst = "arrived" /\ Ends
  <2>1. cl[sv.conn].at = "left"
      BY <1>3 DEF SockOk
  <2> QED BY <1>3, <2>1, EndsKeeps
<1> QED BY <1>1, <1>2, <1>3 DEF Send
-----------------------------------------------------------------------------
(* The viewers and the network. *)

LEMMA ConnectKeeps == ASSUME WsInv, NEW c \in Viewer, Connect(c) PROVE WsInv'
<1>1. SockOk(sock[c], cl[c]) /\ ClientOk(cl[c]) /\ DOMAIN cl[c] = ClientDom
      /\ DOMAIN sock = Viewer /\ queue \in Seq(Viewer)
    BY DEF WsInv, ConnInv, ClientOk
<1> DEFINE k == [cl[c] EXCEPT !.at = "asking"]
<1>2. /\ cl' = [cl EXCEPT ![c] = k] /\ sock' = sock /\ queue' = Append(queue, c) /\ sv' = sv
      /\ cl[c].at = "away"
    BY DEF Connect
<1>3. DOMAIN k = ClientDom /\ k.at = "asking" /\ k.key = cl[c].key /\ k.buf = cl[c].buf
    BY <1>1 DEF ClientDom
<1> HIDE DEF k
<1>4. ClientOk(k) /\ SockOk(sock[c], k)
    BY <1>1, <1>2, <1>3 DEF ClientOk, SockOk
<1>5. queue' \in Seq(Viewer)
    BY <1>1, <1>2
<1>6. sock' = [sock EXCEPT ![c] = sock[c]]
  <2>1. sock = [d \in Viewer |-> sock[d]]
      BY DEF WsInv, ConnInv
  <2> QED BY <1>2, <2>1
<1> QED BY <1>2, <1>3, <1>4, <1>5, <1>6, ViewerStep

LEMMA AskKeeps == ASSUME WsInv, NEW c \in Viewer, Ask(c) PROVE WsInv'
<1>1. PICK l \in {"key", "other", "blank"} :
        /\ sock' = [sock EXCEPT ![c].up = IF sock[c].svOpen THEN Append(@, l) ELSE @]
        /\ cl' = [cl EXCEPT ![c] = [cl[c] EXCEPT !.lines = @ + 1,
                                                 !.key = IF l = "key" THEN TRUE ELSE @,
                                                 !.at = IF l = "blank" THEN "opening" ELSE @]]
    BY DEF Ask
<1>2. SockOk(sock[c], cl[c]) /\ ClientOk(cl[c]) /\ queue \in Seq(Viewer)
      /\ DOMAIN sock[c] = SockDom /\ DOMAIN cl[c] = ClientDom
      /\ cl[c].at = "asking" /\ UNCHANGED <<queue, sv>>
    BY DEF WsInv, ConnInv, ClientOk, SockOk, Ask
<1> DEFINE s == [sock[c] EXCEPT !.up = IF sock[c].svOpen THEN Append(sock[c].up, l)
                                                         ELSE sock[c].up]
           k == [cl[c] EXCEPT !.lines = cl[c].lines + 1,
                              !.key = IF l = "key" THEN TRUE ELSE cl[c].key,
                              !.at = IF l = "blank" THEN "opening" ELSE cl[c].at]
<1>3. /\ cl' = [cl EXCEPT ![c] = k] /\ DOMAIN k = ClientDom /\ k.buf = cl[c].buf
      /\ k.key = (IF l = "key" THEN TRUE ELSE cl[c].key)
      /\ k.at \in {"opening", "asking"}
  <2>1. cl' = [cl EXCEPT ![c] = k]
      BY <1>1
  <2>2. DOMAIN k = ClientDom /\ k.buf = cl[c].buf
      BY <1>2 DEF ClientDom
  <2>3. k.key = (IF l = "key" THEN TRUE ELSE cl[c].key)
      BY <1>2 DEF ClientDom
  <2>4. k.at = IF l = "blank" THEN "opening" ELSE cl[c].at
      BY <1>2 DEF ClientDom
  <2> QED BY <1>2, <2>1, <2>2, <2>3, <2>4
<1>4. /\ sock' = [sock EXCEPT ![c] = s] /\ DOMAIN s = SockDom
      /\ s.up \in {sock[c].up, Append(sock[c].up, l)} /\ s.down = sock[c].down
      /\ s.clOpen = sock[c].clOpen /\ s.rst = sock[c].rst
    BY <1>1, <1>2 DEF SockDom
<1> HIDE DEF s, k
<1>5. ClientOk(k)
    BY <1>2, <1>3 DEF ClientOk
<1>6. SockOk(s, k)
  <2>1. sock[c].rst = "none" /\ sock[c].clOpen
      BY <1>1, <1>2 DEF SockOk
  <2>2. \A i \in 1 .. Len(sock[c].up) : sock[c].up[i] = "key" => cl[c].key
      BY <1>2 DEF SockOk
  <2>3. sock[c].up \in Seq({"key", "other", "blank"})
      BY <1>2 DEF SockOk
  <2>4. s.up \in Seq({"key", "other", "blank"})
        /\ \A i \in 1 .. Len(s.up) : s.up[i] = "key" => k.key
    <3>1. CASE s.up = sock[c].up
        BY <1>3, <2>2, <2>3, <3>1
    <3>2. CASE s.up = Append(sock[c].up, l)
      <4>1. /\ Len(s.up) = Len(sock[c].up) + 1 /\ s.up[Len(sock[c].up) + 1] = l
            /\ \A i \in 1 .. Len(sock[c].up) : s.up[i] = sock[c].up[i]
            /\ s.up \in Seq({"key", "other", "blank"})
          BY <2>3, <3>2
      <4> QED BY <1>3, <2>2, <2>3, <4>1, SMTT(30)
    <3> QED BY <1>4, <3>1, <3>2
  <2> QED BY <1>2, <1>3, <1>4, <2>1, <2>4 DEF SockOk
<1> QED BY <1>1, <1>2, <1>3, <1>4, <1>5, <1>6, ViewerStep

\* A viewer reads only what was sent to it, so it has sent a key.
LEMMA ReadsKeep ==
    ASSUME WsInv, NEW c \in Viewer, ViewerReads(c)
    PROVE  WsInv'
<1>1. SockOk(sock[c], cl[c]) /\ ClientOk(cl[c]) /\ queue \in Seq(Viewer)
      /\ DOMAIN sock[c] = SockDom /\ DOMAIN cl[c] = ClientDom /\ DOMAIN sock = Viewer
    BY DEF WsInv, ConnInv, ClientOk, SockOk
<1>2. CASE ClientEof(c)
  <2> DEFINE k == [cl[c] EXCEPT !.at = IF cl[c].at = "viewing" THEN "over" ELSE "refused"]
  <2>1. cl' = [cl EXCEPT ![c] = k] /\ UNCHANGED <<queue, sock, sv>>
        /\ cl[c].at \in {"opening", "viewing"}
      BY <1>2 DEF ClientEof
  <2>2. /\ DOMAIN k = ClientDom /\ k.key = cl[c].key /\ k.buf = cl[c].buf
        /\ k.at \in {"over", "refused"}
      BY <1>1 DEF ClientDom
  <2> HIDE DEF k
  <2>3. ClientOk(k) /\ SockOk(sock[c], k)
      BY <1>1, <2>1, <2>2 DEF ClientOk, SockOk
  <2>4. sock' = [sock EXCEPT ![c] = sock[c]]
    <3>1. sock = [d \in Viewer |-> sock[d]]
        BY DEF WsInv, ConnInv
    <3> QED BY <2>1, <3>1
  <2> QED BY <1>1, <2>1, <2>2, <2>3, <2>4, ViewerStep
<1>3. ASSUME NEW down, NEW k, DOMAIN k = ClientDom, k.key = cl[c].key, cl[c].key,
             k.at # "left", cl[c].at # "left",
             sock' = [sock EXCEPT ![c] = [sock[c] EXCEPT !.down = down]],
             cl' = [cl EXCEPT ![c] = k], UNCHANGED <<queue, sv>>
      PROVE  WsInv'
  <2> DEFINE s == [sock[c] EXCEPT !.down = down]
  <2>1. /\ DOMAIN s = SockDom /\ s.up = sock[c].up /\ s.clOpen = sock[c].clOpen
        /\ s.rst = sock[c].rst /\ sock' = [sock EXCEPT ![c] = s]
      BY <1>1, <1>3 DEF SockDom
  <2> HIDE DEF s
  <2>2. ClientOk(k) /\ SockOk(s, k)
      BY <1>1, <1>3, <2>1 DEF ClientOk, SockOk
  <2> QED BY <1>1, <1>3, <2>1, <2>2, ViewerStep
<1>4. CASE ClientLine(c)
  <2>1. PICK n \in 0 .. Len(sock[c].down) :
        LET buf == cl[c].buf \o SubSeq(sock[c].down, 1, n)
        IN  /\ buf # <<>>
            /\ cl' = [cl EXCEPT ![c].buf = Tail(buf),
                                ![c].at = IF Head(buf).v = "blank" THEN "viewing" ELSE @]
            /\ sock' = [sock EXCEPT ![c].down = SubSeq(@, n + 1, Len(@))]
      BY <1>4 DEF ClientLine
  <2> DEFINE buf == cl[c].buf \o SubSeq(sock[c].down, 1, n)
             at == IF Head(buf).v = "blank" THEN "viewing" ELSE cl[c].at
  <2>2. cl[c].at = "opening" /\ UNCHANGED <<queue, sv>>
      BY <1>4 DEF ClientLine
  <2>3. cl[c].key
    <3>1. SUFFICES ASSUME ~cl[c].key PROVE FALSE
        OBVIOUS
    <3>2. cl[c].buf = <<>> /\ sock[c].down = <<>>
        BY <1>1, <3>1 DEF ClientOk, SockOk
    <3>3. n = 0
        BY <3>2
    <3>4. cl[c].buf \o SubSeq(sock[c].down, 1, n) = <<>>
        BY <3>2, <3>3
    <3> QED BY <2>1, <3>4
  <2> DEFINE k == [cl[c] EXCEPT !.buf = Tail(buf), !.at = at]
  <2>4. cl' = [cl EXCEPT ![c] = k] /\ DOMAIN k = ClientDom /\ k.key = cl[c].key /\ k.at = at
    <3>1. cl' = [cl EXCEPT ![c] = k]
        BY <2>1
    <3> QED BY <1>1, <3>1 DEF ClientDom
  <2>5. sock' = [sock EXCEPT ![c] = [sock[c] EXCEPT !.down =
                    SubSeq(sock[c].down, n + 1, Len(sock[c].down))]]
      BY <2>1
  <2>6. at # "left" /\ cl[c].at # "left"
      BY <2>2
  <2> QED BY <1>3, <2>2, <2>3, <2>4, <2>5, <2>6
<1>5. CASE read_frame(c)
  <2>1. PICK down, buf, frames :
          /\ sock' = [sock EXCEPT ![c] = [sock[c] EXCEPT !.down = down]]
          /\ cl' = [cl EXCEPT ![c] = [cl[c] EXCEPT !.frames = frames, !.buf = buf]]
      BY <1>5 DEF read_frame
  <2>2. cl[c].at = "viewing" /\ UNCHANGED <<queue, sv>>
      BY <1>5 DEF read_frame
  <2>3. cl[c].key
      BY <1>1, <2>2 DEF ClientOk
  <2> DEFINE k == [cl[c] EXCEPT !.frames = frames, !.buf = buf]
  <2>4. /\ cl' = [cl EXCEPT ![c] = k] /\ DOMAIN k = ClientDom /\ k.key = cl[c].key
        /\ k.at = cl[c].at
      BY <1>1, <2>1 DEF ClientDom
  <2> QED BY <1>3, <2>1, <2>2, <2>3, <2>4
<1> QED BY <1>2, <1>4, <1>5 DEF ViewerReads

LEMMA LeaveKeeps == ASSUME WsInv, NEW c \in Viewer, Leave(c) PROVE WsInv'
<1>1. SockOk(sock[c], cl[c]) /\ ClientOk(cl[c]) /\ queue \in Seq(Viewer)
      /\ DOMAIN sock[c] = SockDom /\ DOMAIN cl[c] = ClientDom
      /\ cl[c].at \in {"asking", "opening", "viewing"} /\ UNCHANGED <<queue, sv>>
    BY DEF WsInv, ConnInv, ClientOk, SockOk, Leave
<1>0. PICK abort \in BOOLEAN :
        sock' = [sock EXCEPT ![c] =
                    [sock[c] EXCEPT !.clOpen = FALSE, !.down = <<>>,
                                    !.rst = IF (abort \/ sock[c].down # <<>>) /\ sock[c].svOpen
                                              THEN "sent" ELSE @]]
    BY DEF Leave
<1> DEFINE rst == IF (abort \/ sock[c].down # <<>>) /\ sock[c].svOpen THEN "sent"
                  ELSE sock[c].rst
           s == [sock[c] EXCEPT !.clOpen = FALSE, !.down = <<>>, !.rst = rst]
           k == [cl[c] EXCEPT !.at = "left"]
<1>2. sock' = [sock EXCEPT ![c] = s] /\ cl' = [cl EXCEPT ![c] = k]
    BY <1>0 DEF Leave
<1>3. sock[c].rst = "none" /\ rst \in {"none", "sent"}
    BY <1>1 DEF SockOk
<1> HIDE DEF rst
<1>4. DOMAIN s = SockDom /\ s.up = sock[c].up /\ s.down = <<>> /\ s.rst = rst
    BY <1>1 DEF SockDom
<1>5. s.clOpen = FALSE
    BY <1>1 DEF SockDom
<1>6. DOMAIN k = ClientDom /\ k.at = "left" /\ k.key = cl[c].key /\ k.buf = cl[c].buf
    BY <1>1 DEF ClientDom
<1> HIDE DEF s, k
<1>7. ClientOk(k) /\ SockOk(s, k)
    BY <1>1, <1>3, <1>4, <1>5, <1>6 DEF ClientOk, SockOk
<1> QED BY <1>1, <1>2, <1>3, <1>6, <1>7, ViewerStep

LEMMA ResetArrivesKeeps == WsInv /\ ResetArrives => WsInv'
<1> SUFFICES ASSUME WsInv, ResetArrives PROVE WsInv'
    OBVIOUS
<1>1. PICK c \in Viewer : /\ sock[c].rst = "sent"
                          /\ sock' = [sock EXCEPT ![c].rst = "arrived"]
    BY DEF ResetArrives
<1>2. SockOk(sock[c], cl[c]) /\ ClientOk(cl[c]) /\ queue \in Seq(Viewer)
      /\ DOMAIN sock[c] = SockDom /\ UNCHANGED <<queue, cl, sv>>
    BY DEF WsInv, ConnInv, SockOk, ResetArrives
<1> DEFINE s == [sock[c] EXCEPT !.rst = "arrived"]
<1>3. sock' = [sock EXCEPT ![c] = s]
    BY <1>1
<1>4. /\ DOMAIN s = SockDom /\ s.up = sock[c].up /\ s.down = sock[c].down
      /\ s.clOpen = sock[c].clOpen /\ s.rst = "arrived"
    BY <1>2 DEF SockDom
<1> HIDE DEF s
<1>5. SockOk(s, cl[c])
    BY <1>1, <1>2, <1>4 DEF SockOk
<1>6. cl' = [cl EXCEPT ![c] = cl[c]]
  <2>1. cl = [d \in Viewer |-> cl[d]]
      BY DEF WsInv, ConnInv
  <2> QED BY <1>2, <2>1
<1> QED BY <1>2, <1>3, <1>4, <1>5, <1>6, ViewerStep
-----------------------------------------------------------------------------
(* The server. *)

LEMMA AcceptKeeps == WsInv /\ Accept => WsInv'
<1> SUFFICES ASSUME WsInv, Accept PROVE WsInv'
    OBVIOUS
<1>1. /\ queue \in Seq(Viewer) /\ queue # <<>> /\ queue' = Tail(queue)
      /\ sv' = [Idle EXCEPT !.at = "request", !.conn = Head(queue)]
      /\ UNCHANGED <<sock, cl>> /\ sv.at = "accept"
    BY DEF Accept, WsInv, ConnInv
<1>2. Head(queue) \in Viewer /\ queue' \in Seq(Viewer)
    BY <1>1
<1>3. DOMAIN sv' = ServerDom /\ sv'.at = "request" /\ sv'.conn = Head(queue)
    BY <1>1 DEF Idle, ServerDom
<1>4. sv'.key = FALSE
    BY <1>1 DEF Idle
<1>5. ServerInv'
    BY <1>2, <1>3, <1>4 DEF ServerInv
<1>6. ConnInv'
    BY <1>1, <1>2 DEF WsInv, ConnInv
<1>7. EndInv'
    BY <1>3 DEF EndInv
<1> QED BY <1>5, <1>6, <1>7 DEF WsInv

LEMMA AcceptThrowsKeeps == WsInv /\ AcceptThrows => WsInv'
<1> SUFFICES ASSUME WsInv, AcceptThrows PROVE WsInv'
    OBVIOUS
<1>1. sv.conn = 0 /\ Ends /\ UNCHANGED <<queue, cl>>
    BY DEF AcceptThrows, WsInv, ServerInv
<1> QED BY <1>1, EndsKeeps

LEMMA ReadHeaderKeeps == WsInv /\ ReadHeader => WsInv'
<1> SUFFICES ASSUME WsInv, ReadHeader PROVE WsInv'
    OBVIOUS
<1> DEFINE c == sv.conn
           up == sock[c].up
           rest == [sock[c] EXCEPT !.up = Tail(up)]
<1>1. /\ sv.at = "request" /\ c \in Viewer /\ up # <<>> /\ UNCHANGED <<queue, cl>>
      /\ DOMAIN sv = ServerDom /\ sv.key \in BOOLEAN /\ (sv.key => cl[c].key)
    BY DEF ReadHeader, Here, WsInv, ServerInv
<1>2. /\ SockOk(sock[c], cl[c]) /\ DOMAIN sock[c] = SockDom
      /\ up \in Seq({"key", "other", "blank"})
      /\ \A i \in 1 .. Len(up) : up[i] = "key" => cl[c].key
    BY <1>1 DEF WsInv, ConnInv, SockOk
<1>3. \/ /\ sv' = [sv EXCEPT !.key = IF Head(up) = "key" THEN TRUE ELSE @]
         /\ sock' = [sock EXCEPT ![c] = rest]
      \/ /\ sv.key
         /\ Send(rest, <<Line("101"), Line("accept"), Line("blank")>>, Streaming)
      \/ NextViewer(rest)
    BY DEF ReadHeader, Here, AcceptsKey
<1>4. /\ DOMAIN rest = SockDom /\ rest.up = Tail(up) /\ rest.down = sock[c].down
      /\ rest.clOpen = sock[c].clOpen /\ rest.rst = sock[c].rst
    BY <1>2 DEF SockDom
<1> HIDE DEF rest
<1>5. SockOk(rest, cl[c])
  <2>1. /\ Tail(up) \in Seq({"key", "other", "blank"}) /\ Len(Tail(up)) = Len(up) - 1
        /\ \A i \in 1 .. Len(Tail(up)) : Tail(up)[i] = up[i + 1] /\ i + 1 \in 1 .. Len(up)
      BY <1>1, <1>2
  <2>2. \A i \in 1 .. Len(Tail(up)) : Tail(up)[i] = "key" => cl[c].key
      BY <1>2, <2>1
  <2> QED BY <1>2, <1>4, <2>1, <2>2 DEF SockOk
<1>6. CASE /\ sv' = [sv EXCEPT !.key = IF Head(up) = "key" THEN TRUE ELSE @]
           /\ sock' = [sock EXCEPT ![c] = rest]
  <2>1. DOMAIN sv' = ServerDom /\ sv'.at = "request" /\ sv'.conn = c
      BY <1>1, <1>6 DEF ServerDom
  <2>2. sv'.key = IF Head(up) = "key" THEN TRUE ELSE sv.key
      BY <1>1, <1>6 DEF ServerDom
  <2>3. Head(up) = "key" => cl[c].key
      BY <1>1, <1>2
  <2>4. sv'.key \in BOOLEAN /\ (sv'.key => cl[c].key)
      BY <1>1, <2>2, <2>3
  <2>5. ServerInv'
      BY <1>1, <2>1, <2>4 DEF ServerInv
  <2> QED BY <1>1, <1>4, <1>5, <1>6, <2>1, <2>5, ServerStep
<1>7. CASE sv.key /\ Send(rest, <<Line("101"), Line("accept"), Line("blank")>>, Streaming)
  <2> DEFINE tokens == <<Line("101"), Line("accept"), Line("blank")>>
  <2>1. /\ DOMAIN Streaming = ServerDom /\ Streaming.at = "stream" /\ Streaming.conn = c
        /\ Streaming.key \in BOOLEAN
      BY <1>1 DEF Streaming, ServerDom
  <2>2. Send(rest, tokens, Streaming)
      BY <1>7
  <2> HIDE DEF tokens
  <2> QED BY <1>1, <1>4, <1>5, <1>7, <2>1, <2>2, SendKeeps
<1>8. CASE NextViewer(rest)
    BY <1>1, <1>4, <1>5, <1>8, CloseKeeps
<1> QED BY <1>3, <1>6, <1>7, <1>8

LEMMA CloseHereKeeps == WsInv /\ (HeaderEof \/ StreamEnd) => WsInv'
<1> SUFFICES ASSUME WsInv, HeaderEof \/ StreamEnd PROVE WsInv'
    OBVIOUS
<1>1. /\ sv.at \in {"request", "stream"} /\ NextViewer(sock[sv.conn]) /\ UNCHANGED <<queue, cl>>
    BY DEF HeaderEof, StreamEnd, AfterEof, Here
<1>2. sv.conn \in Viewer
    BY <1>1 DEF WsInv, ServerInv
<1>3. SockOk(sock[sv.conn], cl[sv.conn])
    BY <1>2 DEF WsInv, ConnInv
<1> QED BY <1>1, <1>2, <1>3, CloseKeeps

LEMMA StreamRecordKeeps == WsInv /\ StreamRecord => WsInv'
<1> SUFFICES ASSUME WsInv, StreamRecord PROVE WsInv'
    OBVIOUS
<1>1. /\ sv.at = "stream" /\ sv.conn \in Viewer /\ cl[sv.conn].key /\ UNCHANGED <<queue, cl>>
      /\ DOMAIN sv = ServerDom /\ sv.key \in BOOLEAN
    BY DEF StreamRecord, WsInv, ServerInv
<1>2. SockOk(sock[sv.conn], cl[sv.conn])
    BY <1>1 DEF WsInv, ConnInv
<1>3. PICK fed, tokens :
        LET new == [sv EXCEPT !.fed = fed, !.applied = @ + 1]
        IN  \/ Send(sock[sv.conn], tokens, [new EXCEPT !.sent = @ + 1])
            \/ sv' = new /\ UNCHANGED sock
    BY DEF StreamRecord, Here
<1> DEFINE new == [sv EXCEPT !.fed = fed, !.applied = @ + 1]
           ok == [new EXCEPT !.sent = @ + 1]
<1>4. /\ DOMAIN new = ServerDom /\ new.at = "stream" /\ new.conn = sv.conn
      /\ new.key = sv.key
    BY <1>1 DEF ServerDom
<1>5. /\ DOMAIN ok = ServerDom /\ ok.at = "stream" /\ ok.conn = sv.conn
      /\ ok.key = sv.key
    BY <1>4 DEF ServerDom
<1>6. Send(sock[sv.conn], tokens, ok) \/ (sv' = new /\ UNCHANGED sock)
    BY <1>3
<1> HIDE DEF ok, new
<1>7. CASE Send(sock[sv.conn], tokens, ok)
    BY <1>1, <1>2, <1>5, <1>7, SendKeeps
<1>8. CASE sv' = new /\ UNCHANGED sock
  <2>1. ServerInv'
      BY <1>1, <1>4, <1>8 DEF ServerInv
  <2>2. ConnInv' /\ EndInv'
      BY <1>1, <1>4, <1>8 DEF WsInv, ConnInv, EndInv
  <2> QED BY <2>1, <2>2 DEF WsInv
<1> QED BY <1>6, <1>7, <1>8

LEMMA WsNext == WsInv /\ [Next]_vars => WsInv'
<1> SUFFICES ASSUME WsInv, [Next]_vars PROVE WsInv'
    OBVIOUS
<1>1. CASE UNCHANGED vars
    BY <1>1 DEF vars, WsInv, ConnInv, ServerInv, EndInv
<1>2. CASE Server \/ AcceptThrows \/ ResetArrives
    BY <1>2, AcceptKeeps, AcceptThrowsKeeps, ReadHeaderKeeps, CloseHereKeeps, StreamRecordKeeps,
       ResetArrivesKeeps
    DEF Server
<1>3. ASSUME NEW c \in Viewer, Connect(c) \/ Ask(c) \/ ViewerReads(c) \/ Leave(c)
      PROVE  WsInv'
    BY <1>3, ConnectKeeps, AskKeeps, ReadsKeep, LeaveKeeps
<1> QED BY <1>1, <1>2, <1>3 DEF Next
-----------------------------------------------------------------------------
\* The inductive invariant: the server's idea of a connection, its key included, is
\* true of the viewer at its other end, and nothing is sent to one without a key.
THEOREM WsInvariant == Spec => []WsInv
    BY WsInit, WsNext, PTL DEF Spec

\* handshake() upgrades a connection only on a key that came over it, whatever the
\* viewers send and in whatever order they come.
THEOREM UpgradedOnOwnKey == Spec => []UpgradeFirst
<1>1. WsInv => UpgradeFirst
    BY DEF WsInv, ConnInv, ClientOk, UpgradeFirst
<1> QED BY <1>1, WsInvariant, PTL
-----------------------------------------------------------------------------
(* The replay: what a session has fed its books with and has sent. *)

LEMMA LeastNat ==
    ASSUME NEW T, T \subseteq Nat, T # {}
    PROVE  \E x \in T : \A y \in T : x <= y
<1>1. IsWellFoundedOn(OpToRel(<, Nat), Nat)
    BY NatLessThanWellFounded
<1>2. PICK x \in T : \A y \in T : ~ (<<y, x>> \in OpToRel(<, Nat))
    BY <1>1, WFMin
<1>3. \A y \in T : ~ (y < x)
    BY <1>2 DEF OpToRel
<1> QED BY <1>3

\* One record more.
More(fed, k) == IF Data[k].kind = "undecodable" THEN fed ELSE Append(fed, Data[k])

Feeds(n, f) == f = [k \in 0 .. n |-> IF k = 0 THEN <<>> ELSE More(f[k - 1], k)]

LEMMA FeedsExist == ASSUME NEW n \in Nat PROVE \E f : Feeds(n, f)
<1> DEFINE T == {j \in Nat : ~\E f : Feeds(j, f)}
<1> SUFFICES ASSUME T # {} PROVE FALSE
    OBVIOUS
<1>1. PICK j \in T : \A y \in T : j <= y
    BY LeastNat
<1>2. j # 0
  <2>1. Feeds(0, [i \in 0 .. 0 |-> <<>>])
      BY DEF Feeds
  <2> QED BY <1>1, <2>1
<1>3. PICK f : Feeds(j - 1, f)
    BY <1>1, <1>2
<1> DEFINE g == [i \in 0 .. j |-> IF i = j THEN More(f[j - 1], j) ELSE f[i]]
<1>4. ASSUME NEW i \in 0 .. j PROVE g[i] = IF i = 0 THEN <<>> ELSE More(g[i - 1], i)
  <2>0. j \in Nat /\ j # 0
      BY <1>1, <1>2
  <2>1. CASE i = j
    <3>1. g[i] = More(f[j - 1], i) /\ i # 0
        BY <2>0, <2>1
    <3>2. g[i - 1] = f[j - 1]
        BY <2>0, <2>1
    <3> QED BY <3>1, <3>2
  <2>2. CASE i # j
    <3>1. i \in 0 .. j - 1 /\ g[i] = f[i] /\ (i # 0 => g[i - 1] = f[i - 1])
        BY <2>0, <2>2
    <3>2. f[i] = IF i = 0 THEN <<>> ELSE More(f[i - 1], i)
        BY <1>3, <3>1 DEF Feeds
    <3> HIDE DEF g
    <3> QED BY <3>1, <3>2
  <2> QED BY <2>1, <2>2
<1>5. g = [i \in 0 .. j |-> g[i]]
    OBVIOUS
<1> HIDE DEF g
<1>6. Feeds(j, g)
    BY <1>4, <1>5 DEF Feeds
<1> QED BY <1>1, <1>6

LEMMA FedStep ==
    /\ Fed[0] = <<>>
    /\ \A k \in 0 .. Len(Data) - 1 : Fed[k + 1] = More(Fed[k], k + 1)
<1>0. Len(Data) \in Nat
    BY WsAssumption
<1> DEFINE g == CHOOSE f : Feeds(Len(Data), f)
<1>1. Fed = g
    BY DEF Fed, Feeds, More
<1>2. Feeds(Len(Data), g)
    BY <1>0, FeedsExist
<1> HIDE DEF g
<1>3. Feeds(Len(Data), Fed)
    BY <1>1, <1>2
<1>4. ASSUME NEW k \in 0 .. Len(Data) PROVE Fed[k] = IF k = 0 THEN <<>> ELSE More(Fed[k - 1], k)
    BY <1>3 DEF Feeds
<1>5. Fed[0] = <<>>
    BY <1>0, <1>4
<1>6. ASSUME NEW k \in 0 .. Len(Data) - 1 PROVE Fed[k + 1] = More(Fed[k], k + 1)
  <2>1. k + 1 \in 0 .. Len(Data) /\ k + 1 # 0 /\ (k + 1) - 1 = k
      BY <1>0
  <2> QED BY <1>4, <2>1
<1> QED BY <1>5, <1>6

\* The snapshots due behind the first k records.
Count(k) == Cardinality({d \in Due : d <= k})

LEMMA DueFinite == IsFiniteSet(Due) /\ Due \subseteq 1 .. Len(Data) /\ Cardinality(Due) \in Nat
<1>1. Due \subseteq 1 .. Len(Data) /\ Len(Data) \in Nat
    BY WsAssumption DEF Due
<1>2. IsFiniteSet(1 .. Len(Data))
    BY <1>1, FS_Interval
<1> QED BY <1>1, <1>2, FS_Subset, FS_CardinalityType

LEMMA CountFacts ==
    /\ Count(0) = 0 /\ Count(Len(Data)) = Cardinality(Due)
    /\ \A k \in Nat : Count(k) \in Nat /\ Count(k) <= Cardinality(Due)
    /\ \A k \in Nat : Count(k + 1) = IF k + 1 \in Due THEN Count(k) + 1 ELSE Count(k)
<1> DEFINE S(k) == {d \in Due : d <= k}
<1>0. Len(Data) \in Nat /\ \A d \in Due : d \in Nat /\ d >= 1 /\ d <= Len(Data)
    BY DueFinite, WsAssumption
<1>1. \A k : IsFiniteSet(S(k)) /\ Cardinality(S(k)) \in Nat /\ Cardinality(S(k)) <= Cardinality(Due)
  <2>1. \A k : S(k) \subseteq Due
      OBVIOUS
  <2> HIDE DEF S
  <2> QED BY <2>1, DueFinite, FS_Subset, FS_CardinalityType
<1>2. S(0) = {} /\ S(Len(Data)) = Due
    BY <1>0
<1>3. ASSUME NEW k \in Nat PROVE S(k + 1) = IF k + 1 \in Due THEN S(k) \cup {k + 1} ELSE S(k)
    BY <1>0
<1>4. \A k \in Nat : k + 1 \notin S(k)
    OBVIOUS
<1>5. \A k : Count(k) = Cardinality(S(k))
    BY DEF Count
<1> HIDE DEF S
<1>6. ASSUME NEW k \in Nat PROVE Count(k + 1) = IF k + 1 \in Due THEN Count(k) + 1 ELSE Count(k)
  <2>1. CASE k + 1 \in Due
    <3>1. Cardinality(S(k) \cup {k + 1}) = Cardinality(S(k)) + 1
        BY <1>1, <1>4, FS_AddElement
    <3> QED BY <1>3, <1>5, <2>1, <3>1
  <2>2. CASE k + 1 \notin Due
      BY <1>3, <1>5, <2>2
  <2> QED BY <2>1, <2>2
<1> QED BY <1>1, <1>2, <1>5, <1>6, FS_EmptySet

LEMMA NthIs == ASSUME NEW k \in Due PROVE Nth(Count(k)) = k
<1>0. \A d \in Due : d \in Nat
    BY DueFinite
<1>1. ASSUME NEW i \in Due, NEW j \in Due, i < j PROVE Count(i) # Count(j)
  <2> DEFINE S(n) == {d \in Due : d <= n}
  <2>1. S(i) \subseteq S(j) /\ j \in S(j) /\ j \notin S(i) /\ S(j) \subseteq Due
      BY <1>0, <1>1
  <2>2. Count(i) = Cardinality(S(i)) /\ Count(j) = Cardinality(S(j))
      BY DEF Count
  <2> HIDE DEF S
  <2>3. IsFiniteSet(S(j))
      BY <2>1, DueFinite, FS_Subset
  <2>4. IsFiniteSet(S(i)) /\ (Cardinality(S(i)) = Cardinality(S(j)) => S(i) = S(j))
      BY <2>1, <2>3, FS_Subset
  <2> QED BY <2>1, <2>2, <2>4
<1>2. \A i \in Due : Count(i) = Count(k) => i = k
    BY <1>0, <1>1
<1> DEFINE P(i) == Cardinality({d \in Due : d <= i}) = Count(k)
<1>3. Nth(Count(k)) = CHOOSE i \in Due : P(i)
    BY DEF Nth
<1>4. P(k) /\ \A i \in Due : P(i) => i = k
    BY <1>2 DEF Count
<1> HIDE DEF P
<1> QED BY <1>3, <1>4
-----------------------------------------------------------------------------
(* The snapshots, in the order of their records. *)

LEMMA SnapshotsAre ==
    /\ Len(Snapshots) \in Nat /\ DOMAIN Snapshots = 1 .. Len(Snapshots)
    /\ Len(Snapshots) = IF Cardinality(Due) < Target THEN Cardinality(Due) ELSE Target
    /\ \A i \in 1 .. Len(Snapshots) : Snapshots[i] = snapshot(Fed[Nth(i)], i - 1)
    /\ \A i \in 1 .. Len(Snapshots) : Snapshots[i].len \in Nat
<1> DEFINE n == IF Cardinality(Due) < Target THEN Cardinality(Due) ELSE Target
           f(i) == snapshot(Fed[Nth(i)], i - 1)
<1>1. n \in Nat /\ n <= Target /\ Target \in Nat
    BY DueFinite, WsAssumption
<1>2. Snapshots = [i \in 1 .. n |-> f(i)]
    BY DEF Snapshots
<1>3. ASSUME NEW i \in 1 .. n PROVE f(i).len \in Nat
  <2>1. f(i).len = PayloadLen[(i - 1) + 1]
      BY DEF snapshot
  <2>2. (i - 1) + 1 = i /\ i \in 1 .. Target
      BY <1>1
  <2> QED BY <2>1, <2>2, WsAssumption
<1> HIDE DEF n, f
<1>4. PICK S : \A i \in 1 .. n : f(i) \in S
  <2> WITNESS {f(i) : i \in 1 .. n}
  <2> QED OBVIOUS
<1>5. Snapshots \in Seq(S) /\ Len(Snapshots) = n
    BY <1>1, <1>2, <1>4
<1>6. \A i \in 1 .. n : Snapshots[i] = f(i)
    BY <1>2
<1> QED BY <1>1, <1>2, <1>3, <1>5, <1>6 DEF n, f

LEMMA SnapshotAt ==
    ASSUME NEW k \in Due, Count(k) \in 1 .. Len(Snapshots)
    PROVE  Snapshots[Count(k)] = snapshot(Fed[k], Count(k) - 1)
    BY SnapshotsAre, NthIs
-----------------------------------------------------------------------------
(* Frames: what read_frame makes of the length that frame_text has written. *)

LEMMA LengthIs ==
    ASSUME NEW n \in Nat
    PROVE  /\ LengthBytes(n) \in Seq(Nat)
           /\ Len(LengthBytes(n)) = 1 + ExtBytes(LengthBytes(n)[1])
           /\ Len(LengthBytes(n)) \in {1, 3, 9}
<1>1. CASE n < 126
  <2>1. LengthBytes(n) = <<n>>
      BY <1>1 DEF LengthBytes
  <2>2. n % 128 = n
      BY <1>1
  <2> QED BY <1>1, <2>1, <2>2 DEF ExtBytes
<1>2. CASE n >= 126 /\ n <= 65535
  <2>1. LengthBytes(n) = <<126, n \div 256, n % 256>>
      BY <1>2 DEF LengthBytes
  <2>2. n \div 256 \in Nat /\ n % 256 \in Nat /\ 126 % 128 = 126
      OBVIOUS
  <2>3. ExtBytes(126) = 2
      BY <2>2 DEF ExtBytes
  <2> QED BY <2>1, <2>2, <2>3
<1>3. CASE n > 65535
  <2> DEFINE a == n \div 65536  b == (n \div 256) % 256  d == n % 256
  <2>1. LengthBytes(n) = <<127, 0, 0, 0, 0, 0, a, b, d>>
      BY <1>3 DEF LengthBytes
  <2>2. a \in Nat /\ b \in Nat /\ d \in Nat /\ 127 % 128 = 127
      OBVIOUS
  <2>3. ExtBytes(127) = 8
      BY <2>2 DEF ExtBytes
  <2> HIDE DEF a, b, d
  <2> QED BY <2>1, <2>2, <2>3
<1> QED BY <1>1, <1>2, <1>3

\* The length is the big-endian number in the bytes behind the first two.
Folds(T, e, f) == f = [i \in 0 .. e |-> IF i = 0 THEN 0 ELSE f[i - 1] * 256 + T[2 + i].v]

LEMMA ReadLenIs ==
    ASSUME NEW n \in Nat, NEW T,
           \A i \in 1 .. Len(LengthBytes(n)) : T[i + 1].v = LengthBytes(n)[i]
    PROVE  ReadLen(T) = n /\ ExtBytes(T[2].v) = Len(LengthBytes(n)) - 1
<1> DEFINE R(e) == CHOOSE f : Folds(T, e, f)
           ext == ExtBytes(T[2].v)
<1>0. ReadLen(T) = IF ext = 0 THEN T[2].v % 128 ELSE R(ext)[ext]
    BY DEF ReadLen, Folds
<1>r. \A e : (\E f : Folds(T, e, f)) => Folds(T, e, R(e))
    OBVIOUS
<1> HIDE DEF R
<1>1. CASE n < 126
  <2>1. LengthBytes(n) = <<n>>
      BY <1>1 DEF LengthBytes
  <2>a. n % 128 = n
      BY <1>1
  <2>b. Len(<<n>>) = 1 /\ <<n>>[1] = n
      OBVIOUS
  <2>2. n % 128 = n /\ Len(<<n>>) = 1 /\ <<n>>[1] = n
      BY <2>a, <2>b
  <2>3. T[2].v = n
      BY <2>1, <2>2
  <2>4. ExtBytes(n) = 0
      BY <1>1, <2>2 DEF ExtBytes
  <2> QED BY <1>0, <2>1, <2>2, <2>3, <2>4
<1>2. CASE n >= 126 /\ n <= 65535
  <2> DEFINE a == n \div 256  b == n % 256  s == <<126, a, b>>
  <2>1. LengthBytes(n) = s
      BY <1>2 DEF LengthBytes
  <2>2. a \in Nat /\ b \in Nat /\ a * 256 + b = n /\ 126 % 128 = 126
      OBVIOUS
  <2> HIDE DEF a, b
  <2>3. Len(s) = 3 /\ s[1] = 126 /\ s[2] = a /\ s[3] = b
      OBVIOUS
  <2>4. T[2].v = 126 /\ T[3].v = a /\ T[4].v = b
    <3> HIDE DEF s
    <3> QED BY <2>1, <2>3
  <2>5. ExtBytes(126) = 2
      BY <2>2 DEF ExtBytes
  <2> DEFINE g == [i \in 0 .. 2 |-> IF i = 0 THEN 0 ELSE IF i = 1 THEN a ELSE n]
  <2>6. Folds(T, 2, g)
    <3>1. ASSUME NEW i \in 0 .. 2 PROVE g[i] = IF i = 0 THEN 0 ELSE g[i - 1] * 256 + T[2 + i].v
      <4>1. CASE i = 0
          BY <4>1
      <4>2. CASE i = 1
          BY <2>2, <2>4, <4>2
      <4>3. CASE i = 2
          BY <2>2, <2>4, <4>3
      <4> QED BY <4>1, <4>2, <4>3
    <3>2. g = [i \in 0 .. 2 |-> g[i]]
        OBVIOUS
    <3> HIDE DEF g
    <3> QED BY <3>1, <3>2 DEF Folds
  <2> HIDE DEF g
  <2> DEFINE f == R(2)
  <2>7. Folds(T, 2, f)
      BY <1>r, <2>6
  <2>8. ReadLen(T) = f[2]
      BY <1>0, <2>4, <2>5
  <2> HIDE DEF f
  <2>9. f[0] = 0 /\ f[1] = f[0] * 256 + T[3].v /\ f[2] = f[1] * 256 + T[4].v
      BY <2>7 DEF Folds
  <2> QED BY <2>1, <2>2, <2>3, <2>4, <2>5, <2>8, <2>9
<1>3. CASE n > 65535
  <2> DEFINE a == n \div 65536  b == (n \div 256) % 256  d == n % 256
             s == <<127, 0, 0, 0, 0, 0, a, b, d>>
  <2>1. LengthBytes(n) = s
      BY <1>3 DEF LengthBytes
  <2>2. a \in Nat /\ b \in Nat /\ d \in Nat /\ (a * 256 + b) * 256 + d = n /\ 127 % 128 = 127
      OBVIOUS
  <2>c. PICK m \in Nat : m = a * 256 + b /\ m * 256 + d = n
      BY <2>2
  <2> HIDE DEF a, b, d
  <2>3. /\ Len(s) = 9 /\ s[1] = 127 /\ s[2] = 0 /\ s[3] = 0 /\ s[4] = 0 /\ s[5] = 0 /\ s[6] = 0
        /\ s[7] = a /\ s[8] = b /\ s[9] = d
      OBVIOUS
  <2>4. /\ T[2].v = 127 /\ T[3].v = 0 /\ T[4].v = 0 /\ T[5].v = 0 /\ T[6].v = 0 /\ T[7].v = 0
        /\ T[8].v = a /\ T[9].v = b /\ T[10].v = d
    <3> HIDE DEF s
    <3> QED BY <2>1, <2>3
  <2>5. ExtBytes(127) = 8
      BY <2>2 DEF ExtBytes
  <2> DEFINE g == [i \in 0 .. 8 |-> IF i <= 5 THEN 0 ELSE IF i = 6 THEN a
                                    ELSE IF i = 7 THEN m ELSE n]
  <2>6. Folds(T, 8, g)
    <3>1. ASSUME NEW i \in 0 .. 8 PROVE g[i] = IF i = 0 THEN 0 ELSE g[i - 1] * 256 + T[2 + i].v
      <4>1. CASE i = 0
          BY <4>1
      <4>2. CASE i \in 1 .. 5
        <5>1. T[2 + i].v = 0
            BY <2>4, <4>2
        <5>2. g[i] = 0 /\ g[i - 1] = 0
            BY <4>2
        <5> QED BY <4>2, <5>1, <5>2
      <4>3. CASE i = 6
        <5>1. g[6] = a /\ g[5] = 0
            OBVIOUS
        <5> HIDE DEF g
        <5> QED BY <2>2, <2>4, <4>3, <5>1
      <4>4. CASE i = 7
        <5>1. g[7] = m /\ g[6] = a /\ i - 1 = 6 /\ 2 + i = 9
            BY <4>4
        <5> HIDE DEF g
        <5> QED BY <2>c, <2>4, <4>4, <5>1
      <4>5. CASE i = 8
        <5>1. g[8] = n /\ g[7] = m /\ i - 1 = 7 /\ 2 + i = 10
            BY <4>5
        <5> HIDE DEF g
        <5> QED BY <2>c, <2>4, <4>5, <5>1
      <4> QED BY <4>1, <4>2, <4>3, <4>4, <4>5
    <3>2. g = [i \in 0 .. 8 |-> g[i]]
        OBVIOUS
    <3> HIDE DEF g
    <3> QED BY <3>1, <3>2 DEF Folds
  <2> HIDE DEF g
  <2> DEFINE f == R(8)
  <2>7. Folds(T, 8, f)
      BY <1>r, <2>6
  <2>8. ReadLen(T) = f[8]
      BY <1>0, <2>4, <2>5
  <2> HIDE DEF f
  <2>9. \A i \in 0 .. 8 : f[i] = IF i = 0 THEN 0 ELSE f[i - 1] * 256 + T[2 + i].v
      BY <2>7 DEF Folds
  <2>10. f[0] = 0 /\ f[1] = f[0] * 256 + T[3].v /\ f[2] = f[1] * 256 + T[4].v
         /\ f[3] = f[2] * 256 + T[5].v /\ f[4] = f[3] * 256 + T[6].v
      BY <2>9
  <2>11. f[5] = f[4] * 256 + T[7].v /\ f[6] = f[5] * 256 + T[8].v
         /\ f[7] = f[6] * 256 + T[9].v /\ f[8] = f[7] * 256 + T[10].v
      BY <2>9
  <2>12. f[5] = 0 /\ f[6] = a
      BY <2>2, <2>4, <2>10, <2>11
  <2>13. f[7] = m
      BY <2>c, <2>4, <2>11, <2>12
  <2>14. f[8] = n
      BY <2>c, <2>4, <2>11, <2>13
  <2> QED BY <2>1, <2>3, <2>4, <2>5, <2>8, <2>14
<1> QED BY <1>1, <1>2, <1>3

Frame(i) == frame_text(Snapshots[i])

Response == <<Line("101"), Line("accept"), Line("blank")>>

\* Every token a session can carry.
Wire == {Response[i] : i \in 1 .. 3} \cup {Byte(n) : n \in Nat}
        \cup {Payload(Snapshots[i]) : i \in 1 .. Len(Snapshots)}

LEMMA ConcatIs ==
    ASSUME NEW S, NEW A \in Seq(S), NEW B \in Seq(S)
    PROVE  /\ A \o B \in Seq(S) /\ Len(A \o B) = Len(A) + Len(B)
           /\ Len(A) \in Nat /\ Len(B) \in Nat
           /\ \A j \in 1 .. Len(A) : (A \o B)[j] = A[j]
           /\ \A j \in 1 .. Len(B) : (A \o B)[Len(A) + j] = B[j]
    OBVIOUS

LEMMA FrameIs ==
    ASSUME NEW i \in 1 .. Len(Snapshots)
    PROVE  LET b == LengthBytes(Snapshots[i].len)
               F == Frame(i)
           IN  /\ F \in Seq(Wire) /\ b \in Seq(Nat) /\ Len(F) = 2 + Len(b) /\ Len(b) \in {1, 3, 9}
               /\ F[Len(F)] = Payload(Snapshots[i])
               /\ \A j \in 1 .. Len(b) : F[j + 1].v = b[j]
<1> DEFINE n == Snapshots[i].len
           b == LengthBytes(n)
           hd == <<129>> \o b
           B == Bytes(hd)
           P == <<Payload(Snapshots[i])>>
<1>1. n \in Nat
    BY SnapshotsAre
<1>2. b \in Seq(Nat) /\ Len(b) \in {1, 3, 9}
    BY <1>1, LengthIs
<1>3. Frame(i) = B \o P
    BY DEF Frame, frame_text
<1> HIDE DEF b
<1>4. hd \in Seq(Nat) /\ Len(hd) = 1 + Len(b) /\ \A j \in 1 .. Len(b) : hd[j + 1] = b[j]
    BY <1>2
<1> HIDE DEF hd
<1>5. DOMAIN hd = 1 .. Len(hd) /\ Len(hd) \in Nat
    BY <1>4
<1>6. B = [j \in 1 .. Len(hd) |-> Byte(hd[j])]
    BY <1>5 DEF Bytes
<1>7. \A j \in 1 .. Len(hd) : Byte(hd[j]) \in Wire
    BY <1>4 DEF Wire
<1> HIDE DEF B
<1>8. B \in Seq(Wire) /\ Len(B) = Len(hd) /\ \A j \in 1 .. Len(hd) : B[j] = Byte(hd[j])
    BY <1>5, <1>6, <1>7
<1>9. P \in Seq(Wire) /\ Len(P) = 1 /\ P[1] = Payload(Snapshots[i])
  <2>1. Payload(Snapshots[i]) \in Wire
      BY DEF Wire
  <2> HIDE DEF Wire
  <2> QED BY <2>1
<1> HIDE DEF P
<1>10. /\ B \o P \in Seq(Wire) /\ Len(B \o P) = Len(B) + 1 /\ (B \o P)[Len(B) + 1] = P[1]
       /\ \A j \in 1 .. Len(B) : (B \o P)[j] = B[j]
  <2>1. B \in Seq(Wire) /\ P \in Seq(Wire)
      BY <1>8, <1>9
  <2>2. /\ B \o P \in Seq(Wire) /\ Len(B \o P) = Len(B) + Len(P)
        /\ \A j \in 1 .. Len(B) : (B \o P)[j] = B[j]
        /\ \A j \in 1 .. Len(P) : (B \o P)[Len(B) + j] = P[j]
      BY <2>1, ConcatIs
  <2>3. 1 \in 1 .. Len(P) /\ Len(P) = 1
      BY <1>9
  <2> QED BY <2>2, <2>3
<1>11. Len(B \o P) = 2 + Len(b)
    BY <1>2, <1>4, <1>8, <1>10
<1>12. (B \o P)[Len(B \o P)] = Payload(Snapshots[i])
    BY <1>9, <1>10
<1>13. ASSUME NEW j \in 1 .. Len(b) PROVE (B \o P)[j + 1].v = b[j]
  <2>1. j + 1 \in 1 .. Len(hd) /\ j + 1 \in 1 .. Len(B)
      BY <1>2, <1>4, <1>8
  <2>2. (B \o P)[j + 1] = Byte(hd[j + 1])
      BY <1>8, <1>10, <2>1
  <2>3. Byte(hd[j + 1]).v = hd[j + 1]
      BY DEF Byte
  <2> QED BY <1>4, <2>2, <2>3
<1> QED BY <1>2, <1>3, <1>10, <1>11, <1>12, <1>13 DEF b

\* read_frame, on a buffer that begins with a frame.
LEMMA FrameRead ==
    ASSUME NEW i \in 1 .. Len(Snapshots), NEW T,
           \A p \in 1 .. Len(Frame(i)) : T[p] = Frame(i)[p]
    PROVE  /\ 2 + ExtBytes(T[2].v) + 1 = Len(Frame(i)) /\ ReadLen(T) = Snapshots[i].len
           /\ T[Len(Frame(i))] = Payload(Snapshots[i])
<1>1. PICK b \in Seq(Nat) : b = LengthBytes(Snapshots[i].len)
    BY FrameIs
<1>2. PICK F \in Seq(Wire) : F = Frame(i)
    BY FrameIs
<1>3. /\ Len(F) = 2 + Len(b) /\ Len(b) \in {1, 3, 9} /\ F[Len(F)] = Payload(Snapshots[i])
      /\ \A j \in 1 .. Len(b) : F[j + 1].v = b[j]
    BY <1>1, <1>2, FrameIs
<1>4. \A j \in 1 .. Len(b) : T[j + 1].v = b[j]
  <2>1. \A j \in 1 .. Len(b) : j + 1 \in 1 .. Len(F)
      BY <1>3
  <2> QED BY <1>2, <1>3, <2>1
<1>5. Snapshots[i].len \in Nat
    BY SnapshotsAre
<1>6. ReadLen(T) = Snapshots[i].len /\ ExtBytes(T[2].v) = Len(b) - 1
    BY <1>1, <1>4, <1>5, ReadLenIs
<1>7. Len(F) \in 1 .. Len(F)
    BY <1>3
<1>8. 2 + (Len(b) - 1) + 1 = Len(F)
    BY <1>3
<1> QED BY <1>2, <1>3, <1>6, <1>7, <1>8
-----------------------------------------------------------------------------
(* What is under way to a viewer.  T holds the last h lines of the response  *)
(* and then the frames f + 1 .. s, each behind the end off[i] of the one     *)
(* before it.                                                                *)

Carries(T, h, f, s, off) ==
    /\ T \in Seq(Wire) /\ h \in 0 .. 3 /\ f \in Nat /\ s \in Nat /\ f <= s /\ s <= Len(Snapshots)
    /\ \A i \in f .. s : off[i] \in Nat
    /\ off[f] = h /\ off[s] = Len(T)
    /\ \A p \in 1 .. h : T[p] = Response[3 - h + p]
    /\ \A i, j \in f .. s : i <= j => off[i] <= off[j]
    /\ \A i \in f + 1 .. s : /\ off[i] = off[i - 1] + Len(Frame(i))
                             /\ \A p \in 1 .. Len(Frame(i)) : T[off[i - 1] + p] = Frame(i)[p]

LEMMA CarriesStart == \E off : Carries(Response, 3, 0, 0, off)
<1> DEFINE off == [i \in 0 .. 0 |-> 3]
<1>1. Response \in Seq(Wire) /\ Len(Response) = 3
  <2>1. Response[1] \in Wire /\ Response[2] \in Wire /\ Response[3] \in Wire
      BY DEF Wire
  <2>2. PICK a \in Wire, b \in Wire, d \in Wire : a = Line("101") /\ b = Line("accept") /\ d = Line("blank")
      BY <2>1 DEF Response
  <2>3. Response = <<a, b, d>>
      BY <2>2 DEF Response
  <2> QED BY <2>3
<1>2. \A p \in 1 .. 3 : 3 - 3 + p = p
    OBVIOUS
<1>3. \A i \in 0 .. 0 : i = 0
    OBVIOUS
<1>4. Len(Snapshots) \in Nat
    BY SnapshotsAre
<1>5. off[0] = 3
    OBVIOUS
<1> HIDE DEF off
<1>6. \A i \in 0 + 1 .. 0 : FALSE
    OBVIOUS
<1>7. Carries(Response, 3, 0, 0, off)
    BY <1>1, <1>2, <1>3, <1>4, <1>5, <1>6 DEF Carries
<1> QED BY <1>7

LEMMA CarriesSend ==
    ASSUME NEW T, NEW h, NEW f, NEW s, NEW off, Carries(T, h, f, s, off), s < Len(Snapshots)
    PROVE  \E new : Carries(T \o Frame(s + 1), h, f, s + 1, new)
<1>0. /\ s + 1 \in 1 .. Len(Snapshots) /\ h \in 0 .. 3 /\ f \in Nat /\ s \in Nat /\ f <= s
      /\ Len(Snapshots) \in Nat
    BY SnapshotsAre DEF Carries
<1>1. PICK F \in Seq(Wire) : F = Frame(s + 1)
    BY <1>0, FrameIs
<1>2. /\ T \in Seq(Wire) /\ off[f] = h /\ off[s] = Len(T)
      /\ \A i \in f .. s : off[i] \in Nat
      /\ \A p \in 1 .. h : T[p] = Response[3 - h + p]
      /\ \A i, j \in f .. s : i <= j => off[i] <= off[j]
    BY DEF Carries
<1> DEFINE U == T \o F
           new == [i \in f .. s + 1 |-> IF i = s + 1 THEN Len(T) + Len(F) ELSE off[i]]
<1>3. /\ U \in Seq(Wire) /\ Len(U) = Len(T) + Len(F) /\ Len(T) \in Nat /\ Len(F) \in Nat
      /\ \A p \in 1 .. Len(T) : U[p] = T[p]
      /\ \A p \in 1 .. Len(F) : U[Len(T) + p] = F[p]
    BY <1>1, <1>2, ConcatIs
<1>4. /\ new[s + 1] = Len(T) + Len(F)
      /\ \A i \in f .. s : new[i] = off[i] /\ i # s + 1 /\ i \in f .. s + 1
      /\ \A i \in f .. s + 1 : i = s + 1 \/ i \in f .. s
    BY <1>0
<1> HIDE DEF U, new
<1>5. \A i \in f .. s : off[i] <= Len(T)
    BY <1>0, <1>2
<1>6. \A i \in f .. s + 1 : new[i] \in Nat
    BY <1>2, <1>3, <1>4
<1>7. new[f] = h /\ new[s + 1] = Len(U)
    BY <1>0, <1>2, <1>3, <1>4
<1>8. ASSUME NEW p \in 1 .. h PROVE U[p] = Response[3 - h + p]
  <2>1. h <= Len(T)
      BY <1>0, <1>2, <1>5
  <2>2. p \in 1 .. Len(T)
      BY <1>0, <1>3, <2>1
  <2> QED BY <1>2, <1>3, <2>2
<1>9. ASSUME NEW i \in f .. s + 1, NEW j \in f .. s + 1, i <= j PROVE new[i] <= new[j]
  <2>1. CASE i \in f .. s /\ j \in f .. s
      BY <1>2, <1>4, <1>9, <2>1
  <2>2. CASE j = s + 1 /\ i \in f .. s
      BY <1>2, <1>3, <1>4, <1>5, <2>2
  <2>3. CASE i = s + 1
    <3>1. j = s + 1
        BY <1>0, <1>9, <2>3
    <3> QED BY <1>6, <2>3, <3>1
  <2> QED BY <1>4, <2>1, <2>2, <2>3
<1>10. ASSUME NEW i \in f + 1 .. s + 1
       PROVE  /\ new[i] = new[i - 1] + Len(Frame(i))
              /\ \A p \in 1 .. Len(Frame(i)) : U[new[i - 1] + p] = Frame(i)[p]
  <2>1. CASE i = s + 1
    <3>1. i - 1 = s /\ new[s] = Len(T)
        BY <1>0, <1>2, <1>4, <2>1
    <3> QED BY <1>1, <1>3, <1>4, <2>1, <3>1, ZenonT(60)
  <2>2. CASE i # s + 1
    <3>1. i \in f + 1 .. s /\ i - 1 \in f .. s /\ i \in f .. s
        BY <1>0, <2>2
    <3>2. /\ off[i] = off[i - 1] + Len(Frame(i))
          /\ \A p \in 1 .. Len(Frame(i)) : T[off[i - 1] + p] = Frame(i)[p]
        BY <3>1 DEF Carries
    <3>3. i \in 1 .. Len(Snapshots)
        BY <1>0, <3>1
    <3>4. Len(Frame(i)) \in Nat
      <4>1. PICK E \in Seq(Wire) : E = Frame(i)
          BY <3>3, FrameIs
      <4> QED BY <4>1
    <3>5. new[i] = off[i] /\ new[i - 1] = off[i - 1]
        BY <1>4, <3>1
    <3>6. ASSUME NEW p \in 1 .. Len(Frame(i)) PROVE U[off[i - 1] + p] = Frame(i)[p]
      <4>1. off[i - 1] \in Nat /\ off[i] <= Len(T)
          BY <1>2, <1>5, <3>1
      <4>2. off[i - 1] + p \in 1 .. Len(T)
          BY <1>3, <3>2, <3>4, <4>1
      <4> QED BY <1>3, <3>2, <4>2
    <3> QED BY <3>2, <3>5, <3>6
  <2> QED BY <2>1, <2>2
<1>11. s + 1 \in Nat /\ f <= s + 1 /\ s + 1 <= Len(Snapshots)
    BY <1>0
<1>12. Carries(U, h, f, s + 1, new)
    BY <1>0, <1>3, <1>6, <1>7, <1>8, <1>9, <1>10, <1>11 DEF Carries
<1> QED BY <1>1, <1>12 DEF U

\* U is T without its first d tokens.
Drops(T, d, U) ==
    /\ U \in Seq(Wire) /\ Len(U) = Len(T) - d
    /\ \A p \in 1 .. Len(U) : U[p] = T[d + p]

LEMMA FrameLen ==
    ASSUME NEW i \in 1 .. Len(Snapshots) PROVE Len(Frame(i)) \in {3, 5, 11}
<1>1. PICK b \in Seq(Nat) : Len(Frame(i)) = 2 + Len(b) /\ Len(b) \in {1, 3, 9}
    BY FrameIs
<1>2. PICK n \in {1, 3, 9} : n = Len(b)
    BY <1>1
<1>3. Len(Frame(i)) = 2 + n
    BY <1>1, <1>2
<1>4. 2 + n \in {3, 5, 11}
    OBVIOUS
<1> QED BY <1>3, <1>4

\* A place behind a, in what is left without the first d.
LEMMA Shifted ==
    ASSUME NEW a \in Nat, NEW n \in Nat, NEW d \in Nat, NEW len \in Nat, NEW p \in 1 .. n,
           d <= a, a + n <= len
    PROVE  (a - d) + p \in 1 .. len - d /\ d + ((a - d) + p) = a + p
    OBVIOUS

LEMMA CarriesFacts ==
    ASSUME NEW T, NEW h, NEW f, NEW s, NEW off, Carries(T, h, f, s, off)
    PROVE  /\ T \in Seq(Wire) /\ Len(T) \in Nat /\ h \in 0 .. 3 /\ f \in Nat /\ s \in Nat /\ f <= s
           /\ s <= Len(Snapshots) /\ Len(Snapshots) \in Nat
           /\ off[f] = h /\ off[s] = Len(T) /\ h <= Len(T)
           /\ \A i \in f .. s : off[i] \in Nat /\ off[i] <= Len(T) /\ h <= off[i]
           /\ \A i \in f + 1 .. s : i \in 1 .. Len(Snapshots) /\ Len(Frame(i)) \in Nat
                                    /\ Len(Frame(i)) >= 3
           /\ Len(T) = 0 => h = 0 /\ f = s
           /\ h = 0 /\ f = s => Len(T) = 0
<1>1. /\ T \in Seq(Wire) /\ Len(T) \in Nat /\ h \in 0 .. 3 /\ f \in Nat /\ s \in Nat /\ f <= s
      /\ s <= Len(Snapshots) /\ Len(Snapshots) \in Nat
      /\ off[f] = h /\ off[s] = Len(T)
    BY SnapshotsAre DEF Carries
<1>2. f \in f .. s /\ s \in f .. s
    BY <1>1
<1>3. \A i \in f .. s : f <= i /\ i <= s
    BY <1>1
<1>4. ASSUME NEW i \in f .. s PROVE off[i] \in Nat /\ off[i] <= Len(T) /\ h <= off[i]
    BY <1>1, <1>2, <1>3 DEF Carries
<1>5. ASSUME NEW i \in f + 1 .. s
      PROVE  i \in 1 .. Len(Snapshots) /\ Len(Frame(i)) \in Nat /\ Len(Frame(i)) >= 3
  <2>1. i \in 1 .. Len(Snapshots)
      BY <1>1
  <2>2. Len(Frame(i)) \in {3, 5, 11}
      BY <2>1, FrameLen
  <2>3. PICK m \in {3, 5, 11} : m = Len(Frame(i))
      BY <2>2
  <2> QED BY <2>1, <2>3
<1>6. h <= Len(T)
    BY <1>1, <1>2, <1>4
<1>7. ASSUME Len(T) = 0 PROVE h = 0 /\ f = s
  <2>1. h = 0
      BY <1>1, <1>6, <1>7
  <2>2. SUFFICES ASSUME f # s PROVE FALSE
      BY <2>1
  <2>3. f + 1 \in f + 1 .. s /\ f + 1 \in f .. s /\ (f + 1) - 1 = f
      BY <1>1, <2>2
  <2>4. off[f + 1] = off[f] + Len(Frame(f + 1))
      BY <2>3 DEF Carries
  <2> QED BY <1>1, <1>4, <1>5, <1>7, <2>1, <2>3, <2>4
<1> QED BY <1>1, <1>4, <1>5, <1>6, <1>7

LEMMA CarriesLine ==
    ASSUME NEW T, NEW h, NEW f, NEW s, NEW off, Carries(T, h, f, s, off), h > 0,
           NEW U, Drops(T, 1, U)
    PROVE  T[1] = Response[4 - h] /\ \E new : Carries(U, h - 1, f, s, new)
<1> DEFINE new == [i \in f .. s |-> off[i] - 1]
<1>1. /\ T \in Seq(Wire) /\ Len(T) \in Nat /\ h \in 0 .. 3 /\ f \in Nat /\ s \in Nat /\ f <= s
      /\ s <= Len(Snapshots) /\ Len(Snapshots) \in Nat
      /\ off[f] = h /\ off[s] = Len(T) /\ h <= Len(T)
      /\ \A i \in f .. s : off[i] \in Nat /\ off[i] <= Len(T) /\ h <= off[i]
      /\ \A i \in f + 1 .. s : Len(Frame(i)) \in Nat
    BY CarriesFacts
<1>2. U \in Seq(Wire) /\ Len(U) = Len(T) - 1 /\ \A p \in 1 .. Len(U) : U[p] = T[1 + p]
    BY DEF Drops
<1>3. \A i \in f .. s : new[i] = off[i] - 1
    OBVIOUS
<1> HIDE DEF new
<1>4. \A p \in 1 .. h : T[p] = Response[3 - h + p]
    BY DEF Carries
<1>5. T[1] = Response[4 - h]
  <2>1. 1 \in 1 .. h /\ 3 - h + 1 = 4 - h
      BY <1>1
  <2> QED BY <1>4, <2>1
<1>6. ASSUME NEW p \in 1 .. h - 1 PROVE U[p] = Response[3 - (h - 1) + p]
  <2>1. 1 + p \in 1 .. h /\ p \in 1 .. Len(U) /\ 3 - h + (1 + p) = 3 - (h - 1) + p
      BY <1>1, <1>2
  <2> QED BY <1>2, <1>4, <2>1
<1>7. \A i \in f .. s : new[i] \in Nat
    BY <1>1, <1>3
<1>8. f \in f .. s /\ s \in f .. s
    BY <1>1
<1>9. new[f] = h - 1 /\ new[s] = Len(U) /\ h - 1 \in 0 .. 3
    BY <1>1, <1>2, <1>3, <1>8
<1>10. ASSUME NEW i \in f .. s, NEW j \in f .. s, i <= j PROVE new[i] <= new[j]
  <2>1. off[i] <= off[j]
      BY <1>10 DEF Carries
  <2> QED BY <1>1, <1>3, <2>1
<1>11. ASSUME NEW i \in f + 1 .. s
       PROVE  /\ new[i] = new[i - 1] + Len(Frame(i))
              /\ \A p \in 1 .. Len(Frame(i)) : U[new[i - 1] + p] = Frame(i)[p]
  <2>1. i \in f .. s /\ i - 1 \in f .. s
      BY <1>1
  <2>2. /\ off[i] = off[i - 1] + Len(Frame(i))
        /\ \A p \in 1 .. Len(Frame(i)) : T[off[i - 1] + p] = Frame(i)[p]
      BY DEF Carries
  <2>3. new[i] = off[i] - 1 /\ new[i - 1] = off[i - 1] - 1 /\ off[i - 1] \in Nat /\ off[i - 1] >= 1
        /\ off[i] <= Len(T) /\ Len(Frame(i)) \in Nat /\ off[i] \in Nat
      BY <1>1, <1>3, <2>1
  <2>4. new[i] = new[i - 1] + Len(Frame(i))
      BY <2>2, <2>3
  <2>5. ASSUME NEW p \in 1 .. Len(Frame(i)) PROVE U[new[i - 1] + p] = Frame(i)[p]
    <3>0. Len(U) = Len(T) - 1 /\ Len(T) \in Nat /\ off[i] = off[i - 1] + Len(Frame(i))
        BY <1>1, <1>2, <2>2
    <3>1. new[i - 1] + p \in 1 .. Len(U) /\ 1 + (new[i - 1] + p) = off[i - 1] + p
      <4>1. off[i - 1] + Len(Frame(i)) <= Len(T) /\ 1 <= off[i - 1]
          BY <2>3, <3>0
      <4>2. (off[i - 1] - 1) + p \in 1 .. Len(T) - 1 /\ 1 + ((off[i - 1] - 1) + p) = off[i - 1] + p
        <5>1. PICK x \in Nat, n \in Nat, len \in Nat :
                x = off[i - 1] /\ n = Len(Frame(i)) /\ len = Len(T)
            BY <2>3, <3>0
        <5>2. p \in 1 .. n /\ 1 <= x /\ x + n <= len /\ 1 \in Nat
            BY <4>1, <5>1
        <5>3. (x - 1) + p \in 1 .. len - 1 /\ 1 + ((x - 1) + p) = x + p
            BY <5>2, Shifted
        <5> QED BY <5>1, <5>3
      <4> QED BY <2>3, <3>0, <4>2
    <3>2. U[new[i - 1] + p] = T[1 + (new[i - 1] + p)]
        BY <1>2, <3>1
    <3> QED BY <2>2, <3>1, <3>2
  <2> QED BY <2>4, <2>5
<1>12. Carries(U, h - 1, f, s, new)
    BY <1>1, <1>2, <1>6, <1>7, <1>9, <1>10, <1>11 DEF Carries
<1> QED BY <1>5, <1>12

LEMMA CarriesFrame ==
    ASSUME NEW T, NEW f, NEW s, NEW off, Carries(T, 0, f, s, off), f < s,
           NEW U, Drops(T, Len(Frame(f + 1)), U)
    PROVE  \E new : Carries(U, 0, f + 1, s, new)
<1> DEFINE d == Len(Frame(f + 1))
           new == [i \in f + 1 .. s |-> off[i] - d]
<1>1. /\ T \in Seq(Wire) /\ Len(T) \in Nat /\ f \in Nat /\ s \in Nat
      /\ s <= Len(Snapshots) /\ Len(Snapshots) \in Nat
      /\ off[f] = 0 /\ off[s] = Len(T)
      /\ \A i \in f .. s : off[i] \in Nat /\ off[i] <= Len(T)
      /\ \A i \in f + 1 .. s : Len(Frame(i)) \in Nat
    BY CarriesFacts
<1>2. U \in Seq(Wire) /\ Len(U) = Len(T) - d /\ \A p \in 1 .. Len(U) : U[p] = T[d + p]
    BY DEF Drops
<1>3. f + 1 \in f + 1 .. s /\ f + 1 \in f .. s /\ s \in f + 1 .. s /\ (f + 1) - 1 = f
      /\ \A i \in f + 1 .. s : i \in f .. s /\ f + 1 <= i
    BY <1>1
<1>4. off[f + 1] = off[f] + d
    BY <1>3 DEF Carries
<1>5. d \in Nat
    BY <1>1, <1>3
<1>6. \A i \in f + 1 .. s : new[i] = off[i] - d
    OBVIOUS
<1> HIDE DEF d, new
<1>7. off[f + 1] = d
    BY <1>1, <1>4, <1>5
<1>8. \A i, j \in f .. s : i <= j => off[i] <= off[j]
    BY DEF Carries
<1>9. \A i \in f + 1 .. s : d <= off[i]
    BY <1>3, <1>7, <1>8
<1>10. \A i \in f + 1 .. s : new[i] \in Nat
    BY <1>1, <1>3, <1>5, <1>6, <1>9
<1>11. new[f + 1] = 0 /\ new[s] = Len(U)
  <2>1. new[f + 1] = off[f + 1] - d /\ new[s] = off[s] - d
      BY <1>3, <1>6
  <2> QED BY <1>1, <1>2, <1>5, <1>7, <2>1
<1>12. ASSUME NEW i \in f + 1 .. s, NEW j \in f + 1 .. s, i <= j PROVE new[i] <= new[j]
  <2>1. off[i] <= off[j] /\ off[i] \in Nat /\ off[j] \in Nat
      BY <1>1, <1>3, <1>8, <1>12
  <2> QED BY <1>5, <1>6, <2>1
<1>13. ASSUME NEW i \in (f + 1) + 1 .. s
       PROVE  /\ new[i] = new[i - 1] + Len(Frame(i))
              /\ \A p \in 1 .. Len(Frame(i)) : U[new[i - 1] + p] = Frame(i)[p]
  <2>1. i \in f + 1 .. s /\ i - 1 \in f + 1 .. s
      BY <1>1
  <2>2. /\ off[i] = off[i - 1] + Len(Frame(i))
        /\ \A p \in 1 .. Len(Frame(i)) : T[off[i - 1] + p] = Frame(i)[p]
      BY <2>1 DEF Carries
  <2>3. new[i] = off[i] - d /\ new[i - 1] = off[i - 1] - d /\ off[i - 1] \in Nat /\ off[i - 1] >= d
        /\ off[i] <= Len(T) /\ Len(Frame(i)) \in Nat /\ off[i] \in Nat
      BY <1>1, <1>3, <1>6, <1>9, <2>1
  <2>4. new[i] = new[i - 1] + Len(Frame(i))
      BY <1>5, <2>2, <2>3
  <2>5. ASSUME NEW p \in 1 .. Len(Frame(i)) PROVE U[new[i - 1] + p] = Frame(i)[p]
    <3>0. Len(U) = Len(T) - d /\ Len(T) \in Nat /\ off[i] = off[i - 1] + Len(Frame(i))
        BY <1>1, <1>2, <2>2
    <3>1. new[i - 1] + p \in 1 .. Len(U) /\ d + (new[i - 1] + p) = off[i - 1] + p
      <4>1. off[i - 1] + Len(Frame(i)) <= Len(T) /\ d <= off[i - 1]
          BY <1>5, <2>3, <3>0
      <4>0. off[i - 1] \in Nat /\ Len(Frame(i)) \in Nat /\ Len(T) \in Nat
          BY <2>3, <3>0
      <4>2. (off[i - 1] - d) + p \in 1 .. Len(T) - d /\ d + ((off[i - 1] - d) + p) = off[i - 1] + p
          BY <1>5, <4>0, <4>1, Shifted, SMTT(30)
      <4> QED BY <2>3, <3>0, <4>2
    <3>2. U[new[i - 1] + p] = T[d + (new[i - 1] + p)]
        BY <1>2, <3>1
    <3> QED BY <2>2, <3>1, <3>2
  <2> QED BY <2>4, <2>5
<1>14. \A p \in 1 .. 0 : U[p] = Response[3 - 0 + p]
    OBVIOUS
<1>15. Carries(U, 0, f + 1, s, new)
  <2>1. f + 1 \in Nat /\ f + 1 <= s /\ 0 \in 0 .. 3
      BY <1>1
  <2> QED BY <1>1, <1>2, <1>10, <1>11, <1>12, <1>13, <1>14, <2>1 DEF Carries
<1> QED BY <1>15

\* The frame at the head of what a viewer reads is the next one.
LEMMA CarriesHead ==
    ASSUME NEW T, NEW f, NEW s, NEW off, Carries(T, 0, f, s, off), Len(T) > 0
    PROVE  /\ f < s /\ f + 1 \in 1 .. Len(Snapshots) /\ Len(Frame(f + 1)) \in 3 .. Len(T)
           /\ 2 + ExtBytes(T[2].v) + 1 = Len(Frame(f + 1)) /\ ReadLen(T) = Snapshots[f + 1].len
           /\ T[Len(Frame(f + 1))] = Payload(Snapshots[f + 1])
<1>1. /\ Len(T) \in Nat /\ f \in Nat /\ s \in Nat /\ f < s /\ off[f] = 0
      /\ \A i \in f .. s : off[i] \in Nat /\ off[i] <= Len(T)
      /\ \A i \in f + 1 .. s : i \in 1 .. Len(Snapshots) /\ Len(Frame(i)) \in Nat
                               /\ Len(Frame(i)) >= 3
    BY CarriesFacts
<1>2. f + 1 \in f + 1 .. s /\ f + 1 \in f .. s /\ (f + 1) - 1 = f
    BY <1>1
<1>3. off[f + 1] = off[f] + Len(Frame(f + 1))
      /\ \A p \in 1 .. Len(Frame(f + 1)) : T[off[f] + p] = Frame(f + 1)[p]
    BY <1>2 DEF Carries
<1>4. f + 1 \in 1 .. Len(Snapshots) /\ Len(Frame(f + 1)) \in 3 .. Len(T)
    BY <1>1, <1>2, <1>3
<1>5. \A p \in 1 .. Len(Frame(f + 1)) : T[p] = Frame(f + 1)[p]
    BY <1>1, <1>3
<1> QED BY <1>1, <1>4, <1>5, FrameRead
-----------------------------------------------------------------------------
(* The viewer's buffer and the network are one sequence, wherever it is cut. *)

LEMMA SubSeqIs ==
    ASSUME NEW S, NEW D \in Seq(S), NEW a \in Nat, NEW b \in Nat, a >= 1, b <= Len(D), a <= b + 1
    PROVE  /\ SubSeq(D, a, b) \in Seq(S) /\ Len(SubSeq(D, a, b)) = b - a + 1
           /\ \A i \in 1 .. b - a + 1 : SubSeq(D, a, b)[i] = D[a + i - 1]
<1>1. Len(D) \in Nat
    OBVIOUS
<1> QED BY <1>1

\* recv_line: n tokens of the network are appended, and one is taken off.
LEMMA DropLine ==
    ASSUME NEW B \in Seq(Wire), NEW D \in Seq(Wire), NEW n \in 0 .. Len(D),
           B \o SubSeq(D, 1, n) # <<>>
    PROVE  LET X == B \o SubSeq(D, 1, n)
               Y == SubSeq(D, n + 1, Len(D))
           IN  /\ Tail(X) \in Seq(Wire) /\ Y \in Seq(Wire) /\ Head(X) = (B \o D)[1]
               /\ Drops(B \o D, 1, Tail(X) \o Y)
<1> DEFINE X1 == SubSeq(D, 1, n)
           X == B \o X1
           Y == SubSeq(D, n + 1, Len(D))
<1>0. Len(B) \in Nat /\ Len(D) \in Nat /\ n \in Nat /\ n <= Len(D)
    OBVIOUS
<1>1. X1 \in Seq(Wire) /\ Len(X1) = n /\ \A i \in 1 .. n : X1[i] = D[i]
  <2>1. n - 1 + 1 = n /\ \A i \in 1 .. n : 1 + i - 1 = i
      BY <1>0
  <2>2. /\ SubSeq(D, 1, n) \in Seq(Wire) /\ Len(SubSeq(D, 1, n)) = n - 1 + 1
        /\ \A i \in 1 .. n - 1 + 1 : SubSeq(D, 1, n)[i] = D[1 + i - 1]
      BY <1>0, SubSeqIs
  <2> QED BY <2>1, <2>2
<1>2. Y \in Seq(Wire) /\ Len(Y) = Len(D) - n /\ \A i \in 1 .. Len(D) - n : Y[i] = D[n + i]
  <2>1. Len(D) - (n + 1) + 1 = Len(D) - n /\ \A i \in 1 .. Len(D) - n : (n + 1) + i - 1 = n + i
      BY <1>0
  <2>2. /\ Y \in Seq(Wire) /\ Len(Y) = Len(D) - (n + 1) + 1
        /\ \A i \in 1 .. Len(D) - (n + 1) + 1 : Y[i] = D[(n + 1) + i - 1]
    <3>1. n + 1 \in Nat /\ n + 1 >= 1 /\ Len(D) <= Len(D) /\ n + 1 <= Len(D) + 1
        BY <1>0
    <3> QED BY <1>0, <3>1, SubSeqIs
  <2> HIDE DEF Y
  <2> QED BY <2>1, <2>2
<1> HIDE DEF X1, Y
<1>3. /\ X \in Seq(Wire) /\ Len(X) = Len(B) + n
      /\ \A i \in 1 .. Len(B) : X[i] = B[i]
      /\ \A i \in 1 .. n : X[Len(B) + i] = D[i]
  <2>1. X1 \in Seq(Wire)
      BY <1>1
  <2>2. /\ X \in Seq(Wire) /\ Len(X) = Len(B) + Len(X1)
        /\ \A i \in 1 .. Len(B) : X[i] = B[i]
        /\ \A i \in 1 .. Len(X1) : X[Len(B) + i] = X1[i]
      BY <2>1, ConcatIs
  <2> QED BY <1>1, <2>2
<1>4. /\ B \o D \in Seq(Wire) /\ Len(B \o D) = Len(B) + Len(D)
      /\ \A i \in 1 .. Len(B) : (B \o D)[i] = B[i]
      /\ \A i \in 1 .. Len(D) : (B \o D)[Len(B) + i] = D[i]
    BY ConcatIs
<1>5. X # <<>>
    BY DEF X1
<1> DEFINE T == B \o D
<1> HIDE DEF X, T
<1>6. Len(X) >= 1 /\ Len(X) \in Nat /\ Len(T) = Len(B) + Len(D) /\ Len(X) <= Len(T)
    BY <1>0, <1>3, <1>4, <1>5 DEF T
<1>7. ASSUME NEW i \in 1 .. Len(X) PROVE X[i] = T[i]
  <2>1. CASE i <= Len(B)
      BY <1>0, <1>3, <1>4, <2>1 DEF T
  <2>2. CASE i > Len(B)
    <3>1. PICK j \in 1 .. n : i = Len(B) + j
      <4>1. i - Len(B) \in 1 .. n /\ i = Len(B) + (i - Len(B))
          BY <1>0, <1>3, <2>2
      <4> QED BY <4>1
    <3>2. j \in 1 .. Len(D)
        BY <1>0
    <3> QED BY <1>3, <1>4, <3>1, <3>2 DEF T
  <2> QED BY <1>0, <2>1, <2>2
<1>8. ASSUME NEW i \in 1 .. Len(D) - n PROVE Y[i] = T[Len(X) + i]
  <2>1. n + i \in 1 .. Len(D) /\ Len(B) + (n + i) = Len(X) + i
      BY <1>0, <1>3
  <2>2. T[Len(B) + (n + i)] = D[n + i]
      BY <1>4, <2>1 DEF T
  <2> QED BY <1>2, <2>1, <2>2
<1>9. /\ Tail(X) \in Seq(Wire) /\ Len(Tail(X)) = Len(X) - 1
      /\ \A i \in 1 .. Len(X) - 1 : Tail(X)[i] = X[i + 1]
      /\ Head(X) = X[1]
    BY <1>3, <1>5
<1> DEFINE Z == Tail(X)
           U == Z \o Y
<1> HIDE DEF Z
<1>10. Z \in Seq(Wire) /\ Len(Z) = Len(X) - 1 /\ \A i \in 1 .. Len(X) - 1 : Z[i] = X[i + 1]
    BY <1>9 DEF Z
<1>11. /\ U \in Seq(Wire) /\ Len(U) = Len(Z) + Len(Y)
       /\ \A i \in 1 .. Len(Z) : U[i] = Z[i]
       /\ \A i \in 1 .. Len(Y) : U[Len(Z) + i] = Y[i]
  <2>1. Z \in Seq(Wire) /\ Y \in Seq(Wire)
      BY <1>2, <1>10
  <2> QED BY <2>1, ConcatIs
<1> HIDE DEF U
<1>12. Len(U) = Len(T) - 1 /\ Len(Y) = Len(D) - n /\ Len(X) = Len(B) + n
    BY <1>0, <1>2, <1>3, <1>6, <1>10, <1>11
<1>13. ASSUME NEW i \in 1 .. Len(U) PROVE U[i] = T[1 + i]
  <2>1. CASE i <= Len(X) - 1
    <3>1. i \in 1 .. Len(X) - 1 /\ i \in 1 .. Len(Z) /\ i + 1 \in 1 .. Len(X) /\ 1 + i = i + 1
        BY <1>6, <1>10, <2>1
    <3> QED BY <1>7, <1>10, <1>11, <3>1
  <2>2. CASE i > Len(X) - 1
    <3>1. PICK j \in 1 .. Len(D) - n : i = Len(Z) + j
      <4>1. i - Len(Z) \in 1 .. Len(D) - n /\ i = Len(Z) + (i - Len(Z))
          BY <1>0, <1>6, <1>10, <1>12, <2>2
      <4> QED BY <4>1
    <3>2. 1 + i = Len(X) + j
        BY <1>6, <1>10, <3>1
    <3> QED BY <1>8, <1>11, <1>12, <3>1, <3>2
  <2> QED BY <1>6, <2>1, <2>2
<1>14. Drops(T, 1, U)
    BY <1>11, <1>12, <1>13 DEF Drops
<1>15. Head(X) = T[1]
    BY <1>6, <1>7, <1>9
<1> QED BY <1>2, <1>9, <1>14, <1>15 DEF T, X, X1, Y, Z, U

\* recv_exact: n tokens are taken from the buffer first, then from the network.
LEMMA DropFrame ==
    ASSUME NEW B \in Seq(Wire), NEW D \in Seq(Wire), NEW n \in 1 .. Len(B \o D)
    PROVE  LET X == SubSeq(B, n + 1, Len(B))
               Y == SubSeq(D, IF n > Len(B) THEN n - Len(B) + 1 ELSE 1, Len(D))
           IN  X \in Seq(Wire) /\ Y \in Seq(Wire) /\ Drops(B \o D, n, X \o Y)
<1> DEFINE a == IF n > Len(B) THEN n - Len(B) + 1 ELSE 1
           X == SubSeq(B, n + 1, Len(B))
           Y == SubSeq(D, a, Len(D))
           T == B \o D
           U == X \o Y
<1>1. /\ T \in Seq(Wire) /\ Len(T) = Len(B) + Len(D) /\ Len(B) \in Nat /\ Len(D) \in Nat
      /\ \A i \in 1 .. Len(B) : T[i] = B[i]
      /\ \A i \in 1 .. Len(D) : T[Len(B) + i] = D[i]
    BY ConcatIs
<1> HIDE DEF T
<1>2. n \in Nat /\ n >= 1 /\ n <= Len(B) + Len(D)
    BY <1>1 DEF T
<1>3. a \in Nat /\ a >= 1 /\ a <= Len(D) + 1
    BY <1>1, <1>2
<1>4. /\ Y \in Seq(Wire) /\ Len(Y) = Len(D) - a + 1
      /\ \A i \in 1 .. Len(D) - a + 1 : Y[i] = D[a + i - 1]
  <2> HIDE DEF a
  <2>1. Len(D) <= Len(D)
      BY <1>1
  <2> QED BY <1>1, <1>3, <2>1, SubSeqIs
<1>5. CASE n > Len(B)
  <2>1. X = <<>>
      BY <1>1, <1>2, <1>5
  <2>2. a = n - Len(B) + 1
      BY <1>5
  <2> HIDE DEF a, X, Y
  <2>3. U = Y /\ X \in Seq(Wire)
      BY <1>4, <2>1
  <2> HIDE DEF U
  <2>4. Len(U) = Len(T) - n
      BY <1>1, <1>2, <1>4, <2>2, <2>3
  <2>5. ASSUME NEW i \in 1 .. Len(U) PROVE U[i] = T[n + i]
    <3>1. i \in 1 .. Len(D) - a + 1
        BY <1>4, <2>3
    <3>2. a + i - 1 \in 1 .. Len(D) /\ Len(B) + (a + i - 1) = n + i
        BY <1>1, <1>2, <1>3, <2>2, <3>1
    <3>3. U[i] = D[a + i - 1]
        BY <1>4, <2>3, <3>1
    <3>4. T[Len(B) + (a + i - 1)] = D[a + i - 1]
        BY <1>1, <3>2
    <3> QED BY <3>2, <3>3, <3>4
  <2>6. Drops(T, n, U)
      BY <1>4, <2>3, <2>4, <2>5 DEF Drops
  <2> QED BY <1>4, <2>3, <2>6 DEF T, U, X, Y, a
<1>6. CASE n <= Len(B)
  <2>1. X \in Seq(Wire) /\ Len(X) = Len(B) - n /\ \A i \in 1 .. Len(B) - n : X[i] = B[n + i]
    <3>1. n + 1 \in Nat /\ n + 1 >= 1 /\ Len(B) <= Len(B) /\ n + 1 <= Len(B) + 1
        BY <1>1, <1>2, <1>6
    <3>2. /\ X \in Seq(Wire) /\ Len(X) = Len(B) - (n + 1) + 1
          /\ \A i \in 1 .. Len(B) - (n + 1) + 1 : X[i] = B[(n + 1) + i - 1]
        BY <1>1, <3>1, SubSeqIs
    <3>3. Len(B) - (n + 1) + 1 = Len(B) - n /\ \A i \in 1 .. Len(B) - n : (n + 1) + i - 1 = n + i
        BY <1>1, <1>2
    <3> HIDE DEF X
    <3> QED BY <3>2, <3>3
  <2>2. a = 1
      BY <1>1, <1>2, <1>6
  <2> HIDE DEF a, X, Y
  <2>3. Len(Y) = Len(D) /\ \A i \in 1 .. Len(D) : Y[i] = D[i]
    <3>1. Len(D) - 1 + 1 = Len(D) /\ \A i \in 1 .. Len(D) : 1 + i - 1 = i
        BY <1>1
    <3> QED BY <1>4, <2>2, <3>1
  <2>4. /\ U \in Seq(Wire) /\ Len(U) = Len(X) + Len(Y)
        /\ \A i \in 1 .. Len(X) : U[i] = X[i]
        /\ \A i \in 1 .. Len(Y) : U[Len(X) + i] = Y[i]
    <3>1. X \in Seq(Wire) /\ Y \in Seq(Wire)
        BY <1>4, <2>1
    <3> QED BY <3>1, ConcatIs
  <2> HIDE DEF U
  <2>5. Len(U) = Len(T) - n
      BY <1>1, <1>2, <2>1, <2>3, <2>4
  <2>6. ASSUME NEW i \in 1 .. Len(U) PROVE U[i] = T[n + i]
    <3>1. CASE i <= Len(X)
      <4>1. i \in 1 .. Len(X) /\ i \in 1 .. Len(B) - n /\ n + i \in 1 .. Len(B)
          BY <1>1, <1>2, <2>1, <3>1
      <4> QED BY <1>1, <2>1, <2>4, <4>1
    <3>2. CASE i > Len(X)
      <4>1. PICK j \in 1 .. Len(D) : i = Len(X) + j
        <5>1. i - Len(X) \in 1 .. Len(D) /\ i = Len(X) + (i - Len(X))
            BY <1>1, <1>2, <2>1, <2>3, <2>4, <3>2
        <5> QED BY <5>1
      <4>2. n + i = Len(B) + j
          BY <1>1, <1>2, <2>1, <4>1
      <4> QED BY <1>1, <2>3, <2>4, <4>1, <4>2
    <3> QED BY <1>1, <1>2, <2>1, <3>1, <3>2
  <2>7. Drops(T, n, U)
      BY <2>4, <2>5, <2>6 DEF Drops
  <2> QED BY <1>4, <2>1, <2>7 DEF T, U, X, Y, a
<1> QED BY <1>1, <1>2, <1>5, <1>6

LEMMA ConcatAssoc ==
    ASSUME NEW S, NEW A \in Seq(S), NEW B \in Seq(S), NEW C \in Seq(S)
    PROVE  A \o (B \o C) = (A \o B) \o C
    OBVIOUS
-----------------------------------------------------------------------------
(* What a viewer has read, and what it is still owed. *)

Streams(v, c) == v.at = "stream" /\ v.conn = c

\* Connection s and viewer k together: nothing has been sent yet; or sent frames of
\* the replay have been, those read left out.
Fresh(s, k) == k.buf = <<>> /\ s.down = <<>> /\ k.frames = <<>>

Owed(s, k, sent) ==
    \E h, off : /\ Carries(k.buf \o s.down, h, Len(k.frames), sent, off)
                /\ k.at = "viewing" <=> h = 0

FrameOf(i) == [len |-> Snapshots[i].len, token |-> Payload(Snapshots[i])]

FramesOk(k) ==
    /\ k.frames \in Seq({FrameOf(i) : i \in 1 .. Len(Snapshots)})
    /\ Len(k.frames) <= Len(Snapshots)
    /\ \A i \in 1 .. Len(k.frames) : k.frames[i] = FrameOf(i)

\* What is under way is right for where the viewer is.
OnItsWay(c, s, k, v) ==
    k.at \in {"opening", "viewing"} =>
        \/ Streams(v, c) /\ Owed(s, k, v.sent)
        \/ /\ ~Streams(v, c) /\ k.at = "opening" /\ Fresh(s, k)
           /\ s.svOpen \/ ~k.key \/ v.at = "dead"
        \/ ~Streams(v, c) /\ ~s.svOpen /\ Owed(s, k, Len(Snapshots))

\* The key a viewer has sent is still on its way, or the server has taken it from
\* this viewer's request: nobody who sent one is turned away.
KeyKept(c, s, k, v) ==
    /\ k.at = "away" => ~k.key
    /\ k.key /\ v.at # "dead" =>
        /\ k.at # "refused"
        /\ k.at \in {"asking", "opening"} /\ s.svOpen /\ ~Streams(v, c) =>
              \/ \E i \in 1 .. Len(s.up) : s.up[i] = "key"
              \/ v.at = "request" /\ v.conn = c /\ v.key

Seen(c, s, k, v) ==
    /\ k.buf \in Seq(Wire) /\ s.down \in Seq(Wire) /\ FramesOk(k)
    /\ k.at = "over" => Len(k.frames) = Len(Snapshots)
    /\ k.at \in {"away", "asking"} => Fresh(s, k) /\ \A i \in 1 .. Len(s.up) : s.up[i] # "blank"
    /\ \A i \in 1 .. Len(s.up) - 1 : s.up[i] # "blank"
    /\ OnItsWay(c, s, k, v)
    /\ s.svOpen => k.at \notin {"refused", "over"}
    /\ k.at \in {"away", "asking"} /\ v.at # "dead" => s.svOpen
    /\ KeyKept(c, s, k, v)

\* The locals of stream().
ProgressInv ==
    /\ sv.at = "request" => sv.fed = <<>> /\ sv.applied = 0 /\ sv.sent = 0
    /\ sv.at = "stream" => /\ sv.applied \in 0 .. Len(Data) /\ sv.fed = Fed[sv.applied]
                           /\ sv.sent = Count(sv.applied) /\ sv.sent <= Target

\* Each connection is accepted once.
Serving == sv.at \in {"request", "stream"}

TurnInv ==
    /\ Serving => sock[sv.conn].svOpen /\ cl[sv.conn].at # "away"
    /\ sv.at = "stream" => sock[sv.conn].up = <<>> /\ cl[sv.conn].at # "asking"
    /\ sv.at # "dead" => \A i \in 1 .. Len(queue) :
                            /\ sock[queue[i]].svOpen /\ cl[queue[i]].at # "away"
                            /\ Serving => queue[i] # sv.conn
                            /\ \A j \in 1 .. Len(queue) : queue[j] = queue[i] => j = i

SeenInv == (\A c \in Viewer : Seen(c, sock[c], cl[c], sv)) /\ ProgressInv /\ TurnInv

LEMMA SeenInit == Init => SeenInv
<1> SUFFICES ASSUME Init PROVE SeenInv
    OBVIOUS
<1> DEFINE k == [at |-> "away", lines |-> 0, key |-> FALSE, buf |-> <<>>, frames |-> <<>>]
<1>1. sv.at = "accept" /\ queue = <<>> /\ \A c \in Viewer : sock[c] = NewSock /\ cl[c] = k
    BY DEF Init, Idle
<1>2. /\ k.at = "away" /\ k.key = FALSE /\ k.buf = <<>> /\ k.frames = <<>>
      /\ NewSock.up = <<>> /\ NewSock.down = <<>> /\ NewSock.svOpen = TRUE
    BY DEF NewSock
<1> HIDE DEF k
<1>3. \A S : <<>> \in Seq(S)
    OBVIOUS
<1>4. Len(<<>>) = 0 /\ Len(Snapshots) \in Nat
    BY SnapshotsAre
<1>5. FramesOk(k)
    BY <1>2, <1>3, <1>4 DEF FramesOk
<1>6. ASSUME NEW c PROVE Seen(c, NewSock, k, sv)
    BY <1>1, <1>2, <1>3, <1>4, <1>5 DEF Seen, OnItsWay, Fresh, KeyKept
<1>7. ProgressInv /\ TurnInv
    BY <1>1 DEF ProgressInv, TurnInv, Serving
<1> QED BY <1>1, <1>6, <1>7 DEF SeenInv

\* A viewer's step on its own connection.
LEMMA ViewerSees ==
    ASSUME WsInv, SeenInv, NEW c \in Viewer, NEW s, NEW k,
           sock' = [sock EXCEPT ![c] = s], cl' = [cl EXCEPT ![c] = k], sv' = sv,
           Seen(c, s, k, sv), s.svOpen = sock[c].svOpen, k.at # "away",
           k.at = "asking" => cl[c].at \in {"away", "asking"},
           s.up = sock[c].up \/ cl[c].at = "asking",
           \/ queue' = queue
           \/ queue' = Append(queue, c) /\ cl[c].at = "away" /\ sv.at # "dead"
    PROVE  SeenInv'
<1>1. /\ DOMAIN sock = Viewer /\ DOMAIN cl = Viewer /\ queue \in Seq(Viewer)
      /\ (Serving => sv.conn \in Viewer)
    BY DEF WsInv, ConnInv, ServerInv, Serving
<1>2. /\ sock'[c] = s /\ cl'[c] = k
      /\ \A d \in Viewer : d # c => sock'[d] = sock[d] /\ cl'[d] = cl[d]
    BY <1>1
<1>3. \A d \in Viewer : Seen(d, sock'[d], cl'[d], sv')
  <2>1. \A d \in Viewer : Seen(d, sock[d], cl[d], sv)
      BY DEF SeenInv
  <2> QED BY <1>2, <2>1
<1>4. ProgressInv'
    BY DEF SeenInv, ProgressInv
<1>5. \A d \in Viewer : /\ sock'[d].svOpen = sock[d].svOpen
                        /\ cl[d].at # "away" => cl'[d].at # "away"
                        /\ cl[d].at \notin {"away", "asking"} =>
                             cl'[d].at # "asking" /\ sock'[d].up = sock[d].up
    BY <1>2
<1>6. TurnInv'
  <2>1. Serving' => sock'[sv.conn].svOpen /\ cl'[sv.conn].at # "away"
      BY <1>1, <1>5 DEF SeenInv, TurnInv, Serving
  <2>2. sv.at = "stream" => sock'[sv.conn].up = <<>> /\ cl'[sv.conn].at # "asking"
    <3>1. sv.at = "stream" => sock[sv.conn].up = <<>> /\ cl[sv.conn].at \notin {"away", "asking"}
          /\ sv.conn \in Viewer
        BY <1>1 DEF SeenInv, TurnInv, Serving
    <3> QED BY <1>5, <3>1
  <2>3. ASSUME sv.at # "dead", NEW i \in 1 .. Len(queue')
        PROVE  /\ sock'[queue'[i]].svOpen /\ cl'[queue'[i]].at # "away"
               /\ Serving => queue'[i] # sv.conn
               /\ \A j \in 1 .. Len(queue') : queue'[j] = queue'[i] => j = i
    <3>1. \A n \in 1 .. Len(queue) :
            /\ sock[queue[n]].svOpen /\ cl[queue[n]].at # "away" /\ queue[n] \in Viewer
            /\ Serving => queue[n] # sv.conn
            /\ \A j \in 1 .. Len(queue) : queue[j] = queue[n] => j = n
        BY <1>1, <2>3 DEF SeenInv, TurnInv
    <3>2. CASE queue' = queue
        BY <1>5, <3>1, <3>2
    <3>3. CASE queue' = Append(queue, c) /\ cl[c].at = "away"
      <4>1. /\ Len(queue') = Len(queue) + 1 /\ Len(queue) \in Nat /\ queue'[Len(queue) + 1] = c
            /\ \A n \in 1 .. Len(queue) : queue'[n] = queue[n]
          BY <1>1, <3>3
      <4>2. \A n \in 1 .. Len(queue) : queue[n] # c
          BY <3>1, <3>3
      <4>3. Serving => sv.conn # c
          BY <3>3 DEF SeenInv, TurnInv
      <4>4. sock[c].svOpen
          BY <2>3, <3>3 DEF SeenInv, Seen
      <4>5. \A n \in 1 .. Len(queue') : n \in 1 .. Len(queue) \/ n = Len(queue) + 1
          BY <4>1
      <4>6. CASE i = Len(queue) + 1
        <5>1. queue'[i] = c /\ sock'[c].svOpen /\ cl'[c].at # "away"
            BY <1>2, <1>5, <4>1, <4>4, <4>6
        <5>2. \A j \in 1 .. Len(queue') : queue'[j] = c => j = i
            BY <4>1, <4>2, <4>5, <4>6
        <5> QED BY <4>3, <5>1, <5>2
      <4>7. CASE i \in 1 .. Len(queue)
        <5>1. queue'[i] = queue[i] /\ queue[i] \in Viewer /\ queue[i] # c
            BY <3>1, <4>1, <4>2, <4>7
        <5>2. \A j \in 1 .. Len(queue') : queue'[j] = queue[i] => j = i
            BY <3>1, <4>1, <4>5, <4>7, <5>1
        <5> QED BY <1>2, <3>1, <4>7, <5>1, <5>2
      <4> QED BY <4>5, <4>6, <4>7
    <3> QED BY <3>2, <3>3
  <2> QED BY <2>1, <2>2, <2>3 DEF TurnInv, Serving
<1> QED BY <1>3, <1>4, <1>6 DEF SeenInv

\* The server's step on the connection it serves.
LEMMA ServerSees ==
    ASSUME WsInv, SeenInv, Serving, NEW s,
           sock' = [sock EXCEPT ![sv.conn] = s], UNCHANGED <<queue, cl>>,
           Seen(sv.conn, s, cl[sv.conn], sv'), sv'.at # "dead", ProgressInv',
           Serving' => sv'.conn = sv.conn /\ s.svOpen,
           sv'.at = "stream" => s.up = <<>> /\ cl[sv.conn].at # "asking"
    PROVE  SeenInv'
<1> DEFINE c == sv.conn
<1>1. DOMAIN sock = Viewer /\ queue \in Seq(Viewer) /\ c \in Viewer
    BY DEF WsInv, ConnInv, ServerInv, Serving
<1>2. sock'[c] = s /\ \A d \in Viewer : d # c => sock'[d] = sock[d]
    BY <1>1
<1>3. sv.at # "dead"
    BY DEF Serving
<1>4. ASSUME NEW d \in Viewer PROVE Seen(d, sock'[d], cl'[d], sv')
  <2>1. CASE d = c
      BY <1>2, <2>1
  <2>2. CASE d # c
    <3>1. Seen(d, sock[d], cl[d], sv)
        BY DEF SeenInv
    <3>2. ~Streams(sv, d) /\ ~Streams(sv', d) /\ ~(sv.at = "request" /\ sv.conn = d)
        BY <2>2 DEF Streams, Serving
    <3>3. KeyKept(d, sock[d], cl[d], sv')
        BY <1>3, <3>1, <3>2 DEF Seen, KeyKept
    <3> QED BY <1>2, <1>3, <2>2, <3>1, <3>2, <3>3 DEF Seen, OnItsWay
  <2> QED BY <2>1, <2>2
<1>5. TurnInv'
  <2>1. Serving' => sock'[sv'.conn].svOpen /\ cl'[sv'.conn].at # "away"
      BY <1>2 DEF SeenInv, TurnInv
  <2>2. sv'.at = "stream" => sock'[sv'.conn].up = <<>> /\ cl'[sv'.conn].at # "asking"
      BY <1>2 DEF Serving
  <2>3. ASSUME NEW i \in 1 .. Len(queue)
        PROVE  /\ sock'[queue[i]].svOpen /\ cl'[queue[i]].at # "away"
               /\ Serving' => queue[i] # sv'.conn
               /\ \A j \in 1 .. Len(queue) : queue[j] = queue[i] => j = i
    <3>1. /\ sock[queue[i]].svOpen /\ cl[queue[i]].at # "away" /\ queue[i] # c
          /\ \A j \in 1 .. Len(queue) : queue[j] = queue[i] => j = i
        BY <1>3 DEF SeenInv, TurnInv
    <3>2. queue[i] \in Viewer
        BY <1>1
    <3> QED BY <1>2, <3>1, <3>2
  <2> QED BY <2>1, <2>2, <2>3 DEF TurnInv, Serving
<1> QED BY <1>4, <1>5 DEF SeenInv
-----------------------------------------------------------------------------
(* The viewers' steps. *)

LEMMA Fields ==
    ASSUME WsInv, SeenInv, NEW c \in Viewer
    PROVE  /\ DOMAIN sock[c] = SockDom /\ DOMAIN cl[c] = ClientDom
           /\ sock[c].up \in Seq({"key", "other", "blank"})
           /\ Seen(c, sock[c], cl[c], sv) /\ FramesOk(cl[c])
           /\ cl[c].buf \in Seq(Wire) /\ sock[c].down \in Seq(Wire) /\ cl[c].key \in BOOLEAN
           /\ sock[c].rst # "none" \/ ~sock[c].clOpen => cl[c].at = "left"
           /\ sock = [d \in Viewer |-> sock[d]] /\ cl = [d \in Viewer |-> cl[d]]
    BY DEF WsInv, ConnInv, SockOk, ClientOk, SeenInv, Seen

LEMMA CarriesNothing ==
    ASSUME NEW T, NEW h, NEW f, NEW s, NEW off, Carries(T, h, f, s, off), Len(T) = 0
    PROVE  h = 0 /\ f = s
    BY CarriesFacts

LEMMA ConnectSees == ASSUME WsInv, SeenInv, NEW c \in Viewer, Connect(c) PROVE SeenInv'
<1> DEFINE k == [cl[c] EXCEPT !.at = "asking"]
<1>1. /\ cl' = [cl EXCEPT ![c] = k] /\ sock' = sock /\ queue' = Append(queue, c) /\ sv' = sv
      /\ cl[c].at = "away" /\ sv.at # "dead"
    BY DEF Connect
<1>2. k.at = "asking" /\ k.key = cl[c].key /\ k.buf = cl[c].buf /\ k.frames = cl[c].frames
    BY Fields DEF ClientDom
<1> HIDE DEF k
<1>3. Seen(c, sock[c], k, sv)
  <2>1. Seen(c, sock[c], cl[c], sv)
      BY Fields
  <2> QED BY <1>1, <1>2, <2>1 DEF Seen, OnItsWay, Fresh, FramesOk, KeyKept
<1>4. sock' = [sock EXCEPT ![c] = sock[c]]
    BY <1>1, Fields
<1> QED BY <1>1, <1>2, <1>3, <1>4, ViewerSees

LEMMA AskSees == ASSUME WsInv, SeenInv, NEW c \in Viewer, Ask(c) PROVE SeenInv'
<1>1. PICK l \in {"key", "other", "blank"} :
        /\ sock' = [sock EXCEPT ![c].up = IF sock[c].svOpen THEN Append(@, l) ELSE @]
        /\ cl' = [cl EXCEPT ![c] = [cl[c] EXCEPT !.lines = @ + 1,
                                                 !.key = IF l = "key" THEN TRUE ELSE @,
                                                 !.at = IF l = "blank" THEN "opening" ELSE @]]
    BY DEF Ask
<1>2. cl[c].at = "asking" /\ UNCHANGED <<queue, sv>>
    BY DEF Ask
<1> DEFINE up == sock[c].up
           s == [sock[c] EXCEPT !.up = IF sock[c].svOpen THEN Append(up, l) ELSE up]
           k == [cl[c] EXCEPT !.lines = cl[c].lines + 1,
                              !.key = IF l = "key" THEN TRUE ELSE cl[c].key,
                              !.at = IF l = "blank" THEN "opening" ELSE cl[c].at]
<1>3. sock' = [sock EXCEPT ![c] = s] /\ cl' = [cl EXCEPT ![c] = k]
    BY <1>1
<1>4. /\ s.down = sock[c].down /\ s.svOpen = sock[c].svOpen
      /\ s.up = IF sock[c].svOpen THEN Append(up, l) ELSE up
    BY Fields DEF SockDom
<1>5. /\ k.buf = cl[c].buf /\ k.frames = cl[c].frames
      /\ k.key = IF l = "key" THEN TRUE ELSE cl[c].key
    BY Fields DEF ClientDom
<1>6. k.at = IF l = "blank" THEN "opening" ELSE "asking"
    BY <1>2, Fields DEF ClientDom
<1> HIDE DEF s, k
<1>7. Seen(c, s, k, sv)
  <2>1. Seen(c, sock[c], cl[c], sv) /\ up \in Seq({"key", "other", "blank"})
      BY Fields
  <2>2. Fresh(s, k) /\ FramesOk(k) /\ k.buf \in Seq(Wire) /\ s.down \in Seq(Wire)
      BY <1>2, <1>4, <1>5, <2>1 DEF Seen, Fresh, FramesOk
  <2>3. \A i \in 1 .. Len(up) : up[i] # "blank"
      BY <1>2, <2>1 DEF Seen
  <2>4. /\ \A i \in 1 .. Len(s.up) - 1 : s.up[i] # "blank"
        /\ l # "blank" => \A i \in 1 .. Len(s.up) : s.up[i] # "blank"
    <3>1. CASE s.up = up
      <4>1. \A i \in 1 .. Len(up) - 1 : i \in 1 .. Len(up)
          BY <2>1
      <4> QED BY <2>3, <3>1, <4>1
    <3>2. CASE s.up = Append(up, l)
      <4>1. /\ Len(s.up) = Len(up) + 1 /\ s.up[Len(up) + 1] = l /\ Len(up) \in Nat
            /\ \A i \in 1 .. Len(up) : s.up[i] = up[i]
          BY <2>1, <3>2
      <4>2. /\ \A i \in 1 .. Len(s.up) - 1 : i \in 1 .. Len(up)
            /\ \A i \in 1 .. Len(s.up) : i \in 1 .. Len(up) \/ i = Len(up) + 1
          BY <4>1
      <4> QED BY <2>3, <4>1, <4>2
    <3> QED BY <1>4, <3>1, <3>2
  <2>5. ~Streams(sv, c)
      BY <1>2 DEF SeenInv, TurnInv, Streams
  <2>6. sv.at # "dead" => s.svOpen /\ s.up = Append(up, l)
      BY <1>2, <1>4, <2>1 DEF Seen
  <2>7. KeyKept(c, s, k, sv)
    <3>1. SUFFICES ASSUME k.key, sv.at # "dead"
                   PROVE  \/ \E i \in 1 .. Len(s.up) : s.up[i] = "key"
                          \/ sv.at = "request" /\ sv.conn = c /\ sv.key
        BY <1>6 DEF KeyKept
    <3>2. /\ Len(s.up) = Len(up) + 1 /\ s.up[Len(up) + 1] = l /\ Len(up) \in Nat
          /\ \A i \in 1 .. Len(up) : s.up[i] = up[i] /\ i \in 1 .. Len(s.up)
          /\ Len(up) + 1 \in 1 .. Len(s.up)
        BY <2>1, <2>6, <3>1
    <3>3. CASE l = "key"
        BY <3>2, <3>3
    <3>4. CASE l # "key"
      <4>1. cl[c].key
          BY <1>5, <3>1, <3>4
      <4>2. \/ \E i \in 1 .. Len(up) : up[i] = "key"
            \/ sv.at = "request" /\ sv.conn = c /\ sv.key
          BY <1>2, <1>4, <2>1, <2>5, <2>6, <3>1, <4>1 DEF Seen, KeyKept
      <4> QED BY <3>2, <4>2
    <3> QED BY <3>3, <3>4
  <2>8. k.at = "asking" /\ sv.at # "dead" => s.svOpen
      BY <2>6
  <2>9. s.svOpen \/ ~k.key \/ sv.at = "dead"
      BY <2>6
  <2> QED BY <1>6, <2>2, <2>4, <2>5, <2>7, <2>8, <2>9 DEF Seen, OnItsWay
<1>8. s.up = sock[c].up \/ cl[c].at = "asking"
    BY <1>2
<1>9. k.at # "away" /\ (k.at = "asking" => cl[c].at \in {"away", "asking"})
    BY <1>2, <1>6
<1> QED BY <1>2, <1>3, <1>4, <1>7, <1>8, <1>9, ViewerSees

LEMMA LeaveSees == ASSUME WsInv, SeenInv, NEW c \in Viewer, Leave(c) PROVE SeenInv'
<1>0. PICK abort \in BOOLEAN :
        sock' = [sock EXCEPT ![c] =
                    [sock[c] EXCEPT !.clOpen = FALSE, !.down = <<>>,
                                    !.rst = IF (abort \/ sock[c].down # <<>>) /\ sock[c].svOpen
                                              THEN "sent" ELSE @]]
    BY DEF Leave
<1> DEFINE s == [sock[c] EXCEPT !.clOpen = FALSE, !.down = <<>>,
                                !.rst = IF (abort \/ sock[c].down # <<>>) /\ sock[c].svOpen
                                          THEN "sent" ELSE sock[c].rst]
           k == [cl[c] EXCEPT !.at = "left"]
<1>1. sock' = [sock EXCEPT ![c] = s] /\ cl' = [cl EXCEPT ![c] = k] /\ UNCHANGED <<queue, sv>>
    BY <1>0 DEF Leave
<1>2. k.at = "left" /\ k.buf = cl[c].buf /\ k.frames = cl[c].frames
    BY Fields DEF ClientDom
<1>3. s.down = <<>> /\ s.up = sock[c].up
    BY Fields DEF SockDom
<1>4. s.svOpen = sock[c].svOpen
    BY Fields DEF SockDom
<1> HIDE DEF s, k
<1>5. Seen(c, s, k, sv)
  <2>1. Seen(c, sock[c], cl[c], sv)
      BY Fields
  <2>2. s.down \in Seq(Wire)
      BY <1>3
  <2>3. KeyKept(c, s, k, sv)
      BY <1>2 DEF KeyKept
  <2> QED BY <1>2, <1>3, <2>1, <2>2, <2>3 DEF Seen, OnItsWay, FramesOk
<1> QED BY <1>1, <1>2, <1>3, <1>4, <1>5, ViewerSees

LEMMA ResetSees == WsInv /\ SeenInv /\ ResetArrives => SeenInv'
<1> SUFFICES ASSUME WsInv, SeenInv, ResetArrives PROVE SeenInv'
    OBVIOUS
<1>1. PICK c \in Viewer : /\ sock[c].rst = "sent"
                          /\ sock' = [sock EXCEPT ![c].rst = "arrived"]
    BY DEF ResetArrives
<1>2. UNCHANGED <<queue, cl, sv>>
    BY DEF ResetArrives
<1> DEFINE s == [sock[c] EXCEPT !.rst = "arrived"]
<1>3. sock' = [sock EXCEPT ![c] = s]
    BY <1>1
<1>4. s.up = sock[c].up /\ s.down = sock[c].down /\ s.svOpen = sock[c].svOpen
    BY Fields DEF SockDom
<1> HIDE DEF s
<1>5. Seen(c, s, cl[c], sv)
  <2>1. Seen(c, sock[c], cl[c], sv)
      BY Fields
  <2>2. KeyKept(c, s, cl[c], sv)
      BY <1>4, <2>1 DEF Seen, KeyKept
  <2> QED BY <1>4, <2>1, <2>2 DEF Seen, OnItsWay, Owed, Fresh
<1>6. cl' = [cl EXCEPT ![c] = cl[c]]
    BY <1>2, Fields
<1>7. cl[c].at = "left"
    BY <1>1, Fields
<1> QED BY <1>2, <1>3, <1>4, <1>5, <1>6, <1>7, ViewerSees

\* The server has closed and the viewer has read all there was: if it was viewing,
\* that is the whole replay, and if it was not it has sent no key.
LEMMA EofSees == ASSUME WsInv, SeenInv, NEW c \in Viewer, ClientEof(c) PROVE SeenInv'
<1> DEFINE k == [cl[c] EXCEPT !.at = IF cl[c].at = "viewing" THEN "over" ELSE "refused"]
<1>1. /\ cl' = [cl EXCEPT ![c] = k] /\ UNCHANGED <<queue, sock, sv>>
      /\ cl[c].at \in {"opening", "viewing"} /\ ~sock[c].svOpen
      /\ cl[c].buf \o sock[c].down = <<>>
    BY DEF ClientEof, Buffered
<1>2. /\ k.buf = cl[c].buf /\ k.frames = cl[c].frames /\ k.key = cl[c].key
      /\ k.at = IF cl[c].at = "viewing" THEN "over" ELSE "refused"
    BY Fields DEF ClientDom
<1> HIDE DEF k
<1>3. Seen(c, sock[c], cl[c], sv)
    BY Fields
<1>4. ~Streams(sv, c)
    BY <1>1 DEF SeenInv, TurnInv, Streams, Serving
<1>5. ASSUME cl[c].at = "viewing" PROVE Len(cl[c].frames) = Len(Snapshots)
  <2>1. Owed(sock[c], cl[c], Len(Snapshots))
      BY <1>3, <1>4, <1>5 DEF Seen, OnItsWay
  <2>2. PICK h, off : Carries(cl[c].buf \o sock[c].down, h, Len(cl[c].frames), Len(Snapshots), off)
      BY <2>1 DEF Owed
  <2>3. Len(cl[c].buf \o sock[c].down) = 0
      BY <1>1
  <2> QED BY <2>2, <2>3, CarriesNothing
<1>6. Seen(c, sock[c], k, sv)
  <2>1. k.at \in {"over", "refused"} /\ (k.at = "over" => cl[c].at = "viewing")
      BY <1>2
  <2>2. ASSUME cl[c].at = "opening" PROVE ~Owed(sock[c], cl[c], Len(Snapshots))
    <3>1. SUFFICES ASSUME NEW h, NEW off,
                          Carries(cl[c].buf \o sock[c].down, h, Len(cl[c].frames),
                                  Len(Snapshots), off)
                   PROVE  h = 0
        BY <2>2 DEF Owed
    <3>2. Len(cl[c].buf \o sock[c].down) = 0
        BY <1>1
    <3> QED BY <3>1, <3>2, CarriesNothing
  <2>3. cl[c].at = "opening" => ~cl[c].key \/ sv.at = "dead"
      BY <1>1, <1>3, <1>4, <2>2 DEF Seen, OnItsWay
  <2>4. KeyKept(c, sock[c], k, sv)
      BY <1>1, <1>2, <2>1, <2>3 DEF KeyKept
  <2> QED BY <1>1, <1>2, <1>3, <1>5, <2>1, <2>4 DEF Seen, OnItsWay, FramesOk
<1>7. sock' = [sock EXCEPT ![c] = sock[c]]
    BY <1>1, Fields
<1>8. k.at \notin {"away", "asking"}
    BY <1>2
<1> QED BY <1>1, <1>6, <1>7, <1>8, ViewerSees

LEMMA ResponseLines ==
    ASSUME NEW h \in 1 .. 3 PROVE Response[4 - h].v = "blank" <=> h = 1
<1>1. Response[1].v = "101" /\ Response[2].v = "accept" /\ Response[3].v = "blank"
    BY DEF Response, Line
<1>2. h = 1 \/ h = 2 \/ h = 3
    OBVIOUS
<1> QED BY <1>1, <1>2

\* A line is a line of the response: the frames behind it stay where they are.
LEMMA LineSees == ASSUME WsInv, SeenInv, NEW c \in Viewer, ClientLine(c) PROVE SeenInv'
<1> DEFINE B == cl[c].buf
           D == sock[c].down
           X(n) == B \o SubSeq(D, 1, n)
           Y(n) == SubSeq(D, n + 1, Len(D))
<1>1. PICK n \in 0 .. Len(D) :
        /\ X(n) # <<>>
        /\ cl' = [cl EXCEPT ![c].buf = Tail(X(n)),
                            ![c].at = IF Head(X(n)).v = "blank" THEN "viewing" ELSE @]
        /\ sock' = [sock EXCEPT ![c].down = SubSeq(@, n + 1, Len(@))]
    BY DEF ClientLine
<1>2. cl[c].at = "opening" /\ UNCHANGED <<queue, sv>>
    BY DEF ClientLine
<1>3. B \in Seq(Wire) /\ D \in Seq(Wire)
    BY Fields
<1>4. /\ Tail(X(n)) \in Seq(Wire) /\ Y(n) \in Seq(Wire) /\ Head(X(n)) = (B \o D)[1]
      /\ Drops(B \o D, 1, Tail(X(n)) \o Y(n))
    BY <1>1, <1>3, DropLine
<1> DEFINE at == IF Head(X(n)).v = "blank" THEN "viewing" ELSE cl[c].at
           s == [sock[c] EXCEPT !.down = Y(n)]
           k == [cl[c] EXCEPT !.buf = Tail(X(n)), !.at = at]
<1>5. sock' = [sock EXCEPT ![c] = s] /\ cl' = [cl EXCEPT ![c] = k]
    BY <1>1
<1>6. s.down = Y(n) /\ s.up = sock[c].up /\ s.svOpen = sock[c].svOpen
    BY Fields DEF SockDom
<1>7. k.buf = Tail(X(n)) /\ k.at = at /\ k.frames = cl[c].frames /\ k.key = cl[c].key
    BY Fields DEF ClientDom
<1>8. PICK T, U, Z : T = B \o D /\ U = Tail(X(n)) /\ Z = Y(n)
    OBVIOUS
<1>9. /\ U \in Seq(Wire) /\ Z \in Seq(Wire) /\ Drops(T, 1, U \o Z)
      /\ s.down = Z /\ k.buf = U
      /\ k.at = (IF T[1].v = "blank" THEN "viewing" ELSE "opening")
    BY <1>2, <1>4, <1>6, <1>7, <1>8
<1> HIDE DEF s, k, at, X, Y
<1>10. Seen(c, sock[c], cl[c], sv)
    BY Fields
<1>11. ASSUME NEW m, Owed(sock[c], cl[c], m) PROVE Owed(s, k, m)
  <2>1. PICK h, off : Carries(T, h, Len(cl[c].frames), m, off) /\ h # 0
      BY <1>2, <1>8, <1>11 DEF Owed
  <2>2. h \in 1 .. 3
    <3>1. h \in 0 .. 3
        BY <2>1, CarriesFacts
    <3> QED BY <2>1, <3>1
  <2>3. h > 0
      BY <2>2
  <2>4. T[1] = Response[4 - h] /\ \E new : Carries(U \o Z, h - 1, Len(cl[c].frames), m, new)
      BY <1>9, <2>1, <2>3, CarriesLine
  <2>5. k.at = "viewing" <=> h - 1 = 0
    <3>1. T[1].v = "blank" <=> h = 1
        BY <2>2, <2>4, ResponseLines
    <3>2. h = 1 <=> h - 1 = 0
        BY <2>2
    <3> QED BY <1>9, <3>1, <3>2
  <2> QED BY <1>7, <1>9, <2>4, <2>5 DEF Owed
<1>12. ~Fresh(sock[c], cl[c])
  <2>1. SUFFICES ASSUME B = <<>>, D = <<>> PROVE FALSE
      BY DEF Fresh
  <2>2. n = 0
      BY <1>1, <2>1
  <2>3. B \o SubSeq(D, 1, 0) = <<>>
      BY <2>1
  <2> QED BY <1>1, <2>2, <2>3 DEF X
<1>13. OnItsWay(c, s, k, sv)
    BY <1>2, <1>6, <1>10, <1>11, <1>12 DEF Seen, OnItsWay
<1>14. k.at \in {"opening", "viewing"}
    BY <1>9
<1>15. KeyKept(c, s, k, sv)
    BY <1>2, <1>6, <1>7, <1>10, <1>14 DEF Seen, KeyKept
<1>16. Seen(c, s, k, sv)
    BY <1>2, <1>6, <1>7, <1>9, <1>10, <1>13, <1>14, <1>15 DEF Seen, FramesOk
<1> QED BY <1>2, <1>5, <1>6, <1>14, <1>16, ViewerSees

\* A frame is the next snapshot of the replay, with its length.
LEMMA FrameSees == ASSUME WsInv, SeenInv, NEW c \in Viewer, read_frame(c) PROVE SeenInv'
<1> DEFINE B == cl[c].buf
           D == sock[c].down
           T == B \o D
           n == 2 + ExtBytes(T[2].v) + 1
           X == SubSeq(B, n + 1, Len(B))
           Y == SubSeq(D, IF n > Len(B) THEN n - Len(B) + 1 ELSE 1, Len(D))
           r == [len |-> ReadLen(T), token |-> T[n]]
           s == [sock[c] EXCEPT !.down = Y]
           k == [cl[c] EXCEPT !.frames = Append(cl[c].frames, r), !.buf = X]
<1>1. /\ cl[c].at = "viewing" /\ FrameReady(T) /\ UNCHANGED <<queue, sv>>
      /\ sock' = [sock EXCEPT ![c] = s] /\ cl' = [cl EXCEPT ![c] = k]
    BY DEF read_frame, ExactSource, Buffered
<1>2. s.down = Y /\ s.up = sock[c].up /\ s.svOpen = sock[c].svOpen
    BY Fields DEF SockDom
<1>3. k.buf = X /\ k.at = "viewing" /\ k.frames = Append(cl[c].frames, r)
    BY <1>1, Fields DEF ClientDom
<1>4. B \in Seq(Wire) /\ D \in Seq(Wire) /\ T \in Seq(Wire)
  <2>1. B \in Seq(Wire) /\ D \in Seq(Wire)
      BY Fields
  <2> QED BY <2>1, ConcatIs
<1>5. Len(T) > 0
  <2>1. FrameReady(T) /\ T \in Seq(Wire)
      BY <1>1, <1>4
  <2> HIDE DEF T
  <2>2. Len(T) >= 2 /\ Len(T) \in Nat
      BY <2>1 DEF FrameReady
  <2> QED BY <2>2
<1>6. Seen(c, sock[c], cl[c], sv)
    BY Fields
<1> DEFINE f == Len(cl[c].frames)
<1> HIDE DEF s, k, T, n, X, Y, r
<1>7. ASSUME NEW m, Owed(sock[c], cl[c], m)
      PROVE  /\ f + 1 \in 1 .. Len(Snapshots) /\ r = FrameOf(f + 1)
             /\ X \in Seq(Wire) /\ Y \in Seq(Wire)
             /\ \E new : Carries(X \o Y, 0, f + 1, m, new)
  <2>1. PICK off : Carries(T, 0, f, m, off)
      BY <1>1, <1>7 DEF Owed, T
  <2> HIDE DEF f
  <2>2. /\ f < m /\ f + 1 \in 1 .. Len(Snapshots) /\ Len(Frame(f + 1)) \in 3 .. Len(T)
        /\ n = Len(Frame(f + 1)) /\ ReadLen(T) = Snapshots[f + 1].len
        /\ T[n] = Payload(Snapshots[f + 1])
      BY <1>5, <2>1, CarriesHead DEF n
  <2>3. n \in 1 .. Len(T)
    <3>1. Len(T) \in Nat
        BY <1>4
    <3> QED BY <2>2, <3>1
  <2>4. X \in Seq(Wire) /\ Y \in Seq(Wire) /\ Drops(T, n, X \o Y)
      BY <1>4, <2>3, DropFrame DEF T, X, Y
  <2>5. \E new : Carries(X \o Y, 0, f + 1, m, new)
      BY <2>1, <2>2, <2>4, CarriesFrame
  <2>6. r = FrameOf(f + 1)
      BY <2>2 DEF r, FrameOf
  <2> QED BY <2>2, <2>4, <2>5, <2>6
<1>8. PICK m : Owed(sock[c], cl[c], m) /\ (IF Streams(sv, c) THEN m = sv.sent
                                            ELSE ~sock[c].svOpen /\ m = Len(Snapshots))
    BY <1>1, <1>6 DEF Seen, OnItsWay
<1>9. /\ f + 1 \in 1 .. Len(Snapshots) /\ r = FrameOf(f + 1)
      /\ X \in Seq(Wire) /\ Y \in Seq(Wire)
      /\ \E new : Carries(X \o Y, 0, f + 1, m, new)
    BY <1>7, <1>8
<1>10. FramesOk(k) /\ Len(k.frames) = f + 1
  <2> DEFINE S == {FrameOf(i) : i \in 1 .. Len(Snapshots)}
             G == cl[c].frames
  <2>1. G \in Seq(S) /\ r \in S /\ \A i \in 1 .. Len(G) : G[i] = FrameOf(i)
      BY <1>6, <1>9 DEF Seen, FramesOk
  <2>2. k.frames = Append(G, r)
      BY <1>3
  <2> HIDE DEF S
  <2>3. /\ k.frames \in Seq(S) /\ Len(k.frames) = Len(G) + 1 /\ Len(G) \in Nat
        /\ k.frames[Len(G) + 1] = r /\ \A i \in 1 .. Len(G) : k.frames[i] = G[i]
      BY <2>1, <2>2
  <2>4. Len(k.frames) <= Len(Snapshots)
      BY <1>9, <2>3, SnapshotsAre
  <2>5. \A i \in 1 .. Len(k.frames) : i \in 1 .. Len(G) \/ i = Len(G) + 1
      BY <2>3
  <2>6. \A i \in 1 .. Len(k.frames) : k.frames[i] = FrameOf(i)
      BY <1>9, <2>1, <2>3, <2>5
  <2> QED BY <2>3, <2>4, <2>6 DEF FramesOk, S
<1>11. Owed(s, k, m)
    BY <1>2, <1>3, <1>9, <1>10 DEF Owed
<1>12. OnItsWay(c, s, k, sv)
    BY <1>2, <1>8, <1>11 DEF OnItsWay
<1>13. Seen(c, s, k, sv)
  <2>1. KeyKept(c, s, k, sv)
      BY <1>3 DEF KeyKept
  <2> QED BY <1>2, <1>3, <1>6, <1>9, <1>10, <1>12, <2>1 DEF Seen
<1> QED BY <1>1, <1>2, <1>3, <1>13, ViewerSees
-----------------------------------------------------------------------------
(* The server's steps. *)

LEMMA AcceptSees == WsInv /\ SeenInv /\ Accept => SeenInv'
<1> SUFFICES ASSUME WsInv, SeenInv, Accept PROVE SeenInv'
    OBVIOUS
<1> DEFINE c == Head(queue)
<1>1. /\ sv.at = "accept" /\ queue # <<>> /\ queue \in Seq(Viewer) /\ queue' = Tail(queue)
      /\ sv' = [Idle EXCEPT !.at = "request", !.conn = c] /\ UNCHANGED <<sock, cl>>
    BY DEF Accept, WsInv, ConnInv
<1>2. /\ sv'.at = "request" /\ sv'.conn = c /\ sv'.fed = <<>> /\ sv'.applied = 0
      /\ sv'.sent = 0
    BY <1>1 DEF Idle
<1>3. /\ Len(queue) \in Nat /\ Len(queue) >= 1 /\ c = queue[1] /\ Len(queue') = Len(queue) - 1
      /\ \A i \in 1 .. Len(queue) - 1 : queue'[i] = queue[i + 1]
    BY <1>1
<1>4. \A i \in 1 .. Len(queue) :
        /\ sock[queue[i]].svOpen /\ cl[queue[i]].at # "away"
        /\ \A j \in 1 .. Len(queue) : queue[j] = queue[i] => j = i
    BY <1>1 DEF SeenInv, TurnInv
<1>5. ASSUME NEW d \in Viewer PROVE Seen(d, sock'[d], cl'[d], sv')
  <2>1. Seen(d, sock[d], cl[d], sv) /\ ~Streams(sv, d) /\ ~Streams(sv', d)
      BY <1>1, <1>2 DEF SeenInv, Streams
  <2>2. KeyKept(d, sock[d], cl[d], sv')
      BY <1>1, <2>1 DEF Seen, KeyKept
  <2> QED BY <1>1, <1>2, <2>1, <2>2 DEF Seen, OnItsWay
<1>6. ProgressInv'
    BY <1>2 DEF ProgressInv
<1>7. TurnInv'
  <2>1. sock[c].svOpen /\ cl[c].at # "away"
    <3>1. 1 \in 1 .. Len(queue)
        BY <1>3
    <3> QED BY <1>3, <1>4, <3>1
  <2>2. ASSUME NEW i \in 1 .. Len(queue')
        PROVE  /\ sock[queue'[i]].svOpen /\ cl[queue'[i]].at # "away" /\ queue'[i] # c
               /\ \A j \in 1 .. Len(queue') : queue'[j] = queue'[i] => j = i
    <3>1. i + 1 \in 1 .. Len(queue) /\ 1 \in 1 .. Len(queue) /\ i + 1 # 1 /\ i \in 1 .. Len(queue) - 1
        BY <1>3
    <3>2. queue'[i] = queue[i + 1] /\ queue[i + 1] # queue[1]
        BY <1>3, <1>4, <3>1
    <3>3. ASSUME NEW j \in 1 .. Len(queue'), queue'[j] = queue'[i] PROVE j = i
      <4>1. j + 1 \in 1 .. Len(queue) /\ j \in 1 .. Len(queue) - 1 /\ j \in Nat /\ i \in Nat
          BY <1>3
      <4>2. queue[j + 1] = queue[i + 1]
          BY <1>3, <3>2, <3>3, <4>1
      <4>3. j + 1 = i + 1
          BY <1>4, <3>1, <4>1, <4>2
      <4> QED BY <4>1, <4>3
    <3> QED BY <1>3, <1>4, <3>1, <3>2, <3>3
  <2> QED BY <1>1, <1>2, <2>1, <2>2 DEF TurnInv, Serving
<1> QED BY <1>5, <1>6, <1>7 DEF SeenInv

\* The process ends while it sends to nobody, or to a viewer that has left: what it
\* has sent to the others can still be read.
LEMMA EndsSees ==
    ASSUME WsInv, SeenInv, Ends, UNCHANGED <<queue, cl>>,
           \A c \in Viewer : Streams(sv, c) => cl[c].at = "left"
    PROVE  SeenInv'
<1>1. sv'.at = "dead"
    BY EndsIs
<1>2. ASSUME NEW d \in Viewer PROVE Seen(d, sock'[d], cl'[d], sv')
  <2>1. Seen(d, sock[d], cl[d], sv) /\ DOMAIN sock[d] = SockDom
      BY Fields
  <2>2. sock'[d] = [sock[d] EXCEPT !.svOpen = FALSE, !.up = <<>>]
      BY DEF Ends
  <2>3. sock'[d].up = <<>> /\ sock'[d].down = sock[d].down /\ sock'[d].svOpen = FALSE
      BY <2>1, <2>2 DEF SockDom
  <2>4. ~Streams(sv', d)
      BY <1>1 DEF Streams
  <2>5. OnItsWay(d, sock'[d], cl[d], sv')
    <3>1. Owed(sock'[d], cl[d], Len(Snapshots)) <=> Owed(sock[d], cl[d], Len(Snapshots))
        BY <2>3 DEF Owed
    <3>2. Fresh(sock'[d], cl[d]) <=> Fresh(sock[d], cl[d])
        BY <2>3 DEF Fresh
    <3>3. Streams(sv, d) => cl[d].at = "left"
        OBVIOUS
    <3> QED BY <1>1, <2>1, <2>3, <2>4, <3>1, <3>2, <3>3 DEF Seen, OnItsWay
  <2>6. KeyKept(d, sock'[d], cl[d], sv')
      BY <1>1, <2>1 DEF Seen, KeyKept
  <2>7. (\A i \in 1 .. Len(<<>>) : FALSE) /\ (\A i \in 1 .. Len(<<>>) - 1 : FALSE)
      OBVIOUS
  <2> QED BY <1>1, <2>1, <2>3, <2>5, <2>6, <2>7 DEF Seen, Fresh
<1>3. ProgressInv' /\ TurnInv'
    BY <1>1 DEF ProgressInv, TurnInv, Serving
<1> QED BY <1>2, <1>3 DEF SeenInv

LEMMA AcceptThrowsSees == WsInv /\ SeenInv /\ AcceptThrows => SeenInv'
    BY EndsSees DEF AcceptThrows, Streams

\* A close leaves what is under way alone, when the viewer has sent nothing behind
\* its request; nothing is under way only for one that has sent no key.
LEMMA CloseSees ==
    ASSUME WsInv, SeenInv, Serving, UNCHANGED <<queue, cl>>, NEW s, NextViewer(s),
           DOMAIN s = SockDom, s.down = sock[sv.conn].down, cl[sv.conn].at # "asking",
           cl[sv.conn].at \in {"opening", "viewing"} =>
               \/ cl[sv.conn].at = "opening" /\ Fresh(s, cl[sv.conn]) /\ ~cl[sv.conn].key
               \/ s.up = <<>> /\ Owed(s, cl[sv.conn], Len(Snapshots))
    PROVE  SeenInv'
<1> DEFINE c == sv.conn
<1>0. c \in Viewer
    BY DEF WsInv, ServerInv, Serving
<1>1. PICK closed \in SvCloses(s) : sock' = [sock EXCEPT ![c] = closed]
    BY DEF NextViewer
<1>2. PICK d : /\ closed = [s EXCEPT !.svOpen = FALSE, !.up = <<>>, !.down = d]
               /\ d = s.down \/ (d = <<>> /\ s.up # <<>>)
    BY DEF SvCloses
<1>3. closed.up = <<>> /\ closed.down = d /\ closed.svOpen = FALSE
    BY <1>2 DEF SockDom
<1>4. sv' = Idle /\ sv'.at = "accept"
    BY IdleOk DEF NextViewer
<1>5. Seen(c, sock[c], cl[c], sv) /\ sock[c].svOpen /\ cl[c].at # "away"
    BY <1>0 DEF SeenInv, TurnInv
<1>6. d \in Seq(Wire)
  <2>1. sock[c].down \in Seq(Wire)
      BY <1>5 DEF Seen
  <2>2. <<>> \in Seq(Wire)
      OBVIOUS
  <2> QED BY <1>2, <2>1, <2>2
<1>7. Fresh(s, cl[c]) => Fresh(closed, cl[c])
    BY <1>2, <1>3 DEF Fresh
<1>8. s.up = <<>> /\ Owed(s, cl[c], Len(Snapshots)) => Owed(closed, cl[c], Len(Snapshots))
    BY <1>2, <1>3 DEF Owed
<1>9. OnItsWay(c, closed, cl[c], sv')
    BY <1>3, <1>4, <1>7, <1>8 DEF OnItsWay, Streams
<1>10. cl[c].at \in {"away", "asking"} => Fresh(closed, cl[c])
  <2>1. cl[c].at \in {"away", "asking"} => Fresh(sock[c], cl[c])
      BY <1>5 DEF Seen
  <2> QED BY <1>7, <2>1 DEF Fresh
<1>11. \A i \in 1 .. Len(<<>>) : FALSE
    OBVIOUS
<1>12. \A i \in 1 .. Len(<<>>) - 1 : FALSE
    OBVIOUS
<1>13. Seen(c, closed, cl[c], sv')
  <2>1. KeyKept(c, closed, cl[c], sv')
      BY <1>3, <1>5 DEF Seen, KeyKept
  <2> QED BY <1>3, <1>5, <1>6, <1>9, <1>10, <1>11, <1>12, <2>1 DEF Seen
<1>14. ProgressInv' /\ ~Serving'
    BY <1>4 DEF ProgressInv, Serving
<1> QED BY <1>1, <1>4, <1>13, <1>14, ServerSees DEF Serving

\* A send that succeeds appends to what is under way, unless the viewer has left.
LEMMA SendSees ==
    ASSUME WsInv, SeenInv, Serving, UNCHANGED <<queue, cl>>, NEW s, NEW tokens, NEW ok,
           Send(s, tokens, ok), DOMAIN s = SockDom, s.up = <<>>, s.down = sock[sv.conn].down,
           s.svOpen = sock[sv.conn].svOpen, s.rst = sock[sv.conn].rst,
           s.clOpen = sock[sv.conn].clOpen, tokens \in Seq(Wire),
           ok.at = "stream", ok.conn = sv.conn, sv' = ok => ProgressInv',
           cl[sv.conn].at # "asking",
           cl[sv.conn].at \in {"opening", "viewing"} =>
               \A t : t.down = sock[sv.conn].down \o tokens => Owed(t, cl[sv.conn], ok.sent)
    PROVE  SeenInv'
<1> DEFINE c == sv.conn
<1>0. c \in Viewer
    BY DEF WsInv, ServerInv, Serving
<1>1. /\ Seen(c, sock[c], cl[c], sv) /\ sock[c].svOpen /\ cl[c].at # "away"
      /\ s.rst # "none" \/ ~s.clOpen => cl[c].at = "left"
    BY <1>0, Fields DEF SeenInv, TurnInv
<1>2. CASE /\ s.rst # "arrived" /\ sv' = ok
           /\ sock' = [sock EXCEPT ![c] = SendDown(s, tokens)]
  <2> DEFINE t == SendDown(s, tokens)
  <2>1. t.up = <<>> /\ t.svOpen = s.svOpen
      BY DEF SendDown, SockDom
  <2>2. IF s.clOpen THEN t.down = sock[c].down \o tokens ELSE t.down = sock[c].down
      BY DEF SendDown, SockDom
  <2> HIDE DEF t
  <2>3. sock[c].down \in Seq(Wire)
      BY <1>1 DEF Seen
  <2>4. t.down \in Seq(Wire)
      BY <2>2, <2>3, ConcatIs
  <2>5. OnItsWay(c, t, cl[c], ok)
      BY <1>1, <2>2 DEF OnItsWay, Streams
  <2>6. \A i \in 1 .. Len(<<>>) - 1 : FALSE
      OBVIOUS
  <2>7. Seen(c, t, cl[c], ok)
    <3>1. KeyKept(c, t, cl[c], ok)
        BY <1>1 DEF Seen, KeyKept, Streams
    <3> QED BY <1>1, <2>1, <2>4, <2>5, <2>6, <3>1 DEF Seen
  <2>8. sock' = [sock EXCEPT ![c] = t]
      BY <1>2 DEF t
  <2>9. sv'.at # "dead" /\ sv'.conn = c /\ t.svOpen
      BY <1>1, <1>2, <2>1
  <2> QED BY <1>2, <2>1, <2>7, <2>8, <2>9, ServerSees DEF Serving
<1>3. CASE s.rst = "arrived" /\ NextViewer(s)
  <2>1. cl[c].at = "left"
      BY <1>1, <1>3
  <2> QED BY <1>3, <2>1, CloseSees
<1>4. CASE s.rst = "arrived" /\ Ends
  <2>1. \A d \in Viewer : Streams(sv, d) => cl[d].at = "left"
      BY <1>1, <1>4 DEF Streams
  <2> QED BY <1>4, <2>1, EndsSees
<1> QED BY <1>2, <1>3, <1>4 DEF Send

LEMMA ReadHeaderSees == WsInv /\ SeenInv /\ ReadHeader => SeenInv'
<1> SUFFICES ASSUME WsInv, SeenInv, ReadHeader PROVE SeenInv'
    OBVIOUS
<1> DEFINE c == sv.conn
           up == sock[c].up
           rest == [sock[c] EXCEPT !.up = Tail(up)]
<1>1. /\ sv.at = "request" /\ c \in Viewer /\ up # <<>> /\ UNCHANGED <<queue, cl>>
      /\ DOMAIN sv = ServerDom /\ Serving
    BY DEF ReadHeader, Here, WsInv, ServerInv, Serving
<1>2. /\ Seen(c, sock[c], cl[c], sv) /\ DOMAIN sock[c] = SockDom /\ sock[c].svOpen
      /\ up \in Seq({"key", "other", "blank"}) /\ cl[c].at # "away" /\ ~Streams(sv, c)
    BY <1>1, Fields DEF SeenInv, TurnInv, Streams
<1>3. \/ /\ Head(up) # "blank"
         /\ sv' = [sv EXCEPT !.key = IF Head(up) = "key" THEN TRUE ELSE @]
         /\ sock' = [sock EXCEPT ![c] = rest]
      \/ Head(up) = "blank" /\ Send(rest, Response, Streaming)
      \/ Head(up) = "blank" /\ ~sv.key /\ NextViewer(rest)
    BY DEF ReadHeader, Here, Response, AcceptsKey
<1>4. /\ DOMAIN rest = SockDom /\ rest.up = Tail(up) /\ rest.down = sock[c].down
      /\ rest.clOpen = sock[c].clOpen /\ rest.rst = sock[c].rst /\ rest.svOpen = sock[c].svOpen
    BY <1>2 DEF SockDom
<1> HIDE DEF rest
<1>5. /\ Len(up) \in Nat /\ Len(up) >= 1 /\ Head(up) = up[1] /\ Len(Tail(up)) = Len(up) - 1
      /\ \A i \in 1 .. Len(up) - 1 : Tail(up)[i] = up[i + 1]
    BY <1>1, <1>2
<1>6. cl[c].at \in {"opening", "viewing"} => cl[c].at = "opening" /\ Fresh(sock[c], cl[c])
    BY <1>2 DEF Seen, OnItsWay
<1>7. CASE /\ sv' = [sv EXCEPT !.key = IF Head(up) = "key" THEN TRUE ELSE @]
           /\ sock' = [sock EXCEPT ![c] = rest]
  <2>1. /\ sv'.at = "request" /\ sv'.conn = c /\ sv'.fed = sv.fed /\ sv'.applied = sv.applied
        /\ sv'.sent = sv.sent
      BY <1>1, <1>7 DEF ServerDom
  <2>2. ProgressInv'
      BY <1>1, <2>1 DEF SeenInv, ProgressInv
  <2>3. \A i \in 1 .. Len(rest.up) - 1 : rest.up[i] # "blank"
    <3>1. \A i \in 1 .. Len(up) - 1 : up[i] # "blank"
        BY <1>2 DEF Seen
    <3>2. ASSUME NEW i \in 1 .. Len(rest.up) - 1 PROVE rest.up[i] # "blank"
      <4>1. i \in 1 .. Len(up) - 1 /\ i + 1 \in 1 .. Len(up) - 1
          BY <1>4, <1>5
      <4> QED BY <1>4, <1>5, <3>1, <4>1
    <3> QED BY <3>2
  <2>4. cl[c].at = "asking" => \A i \in 1 .. Len(rest.up) : rest.up[i] # "blank"
    <3>1. ASSUME cl[c].at = "asking", NEW i \in 1 .. Len(rest.up) PROVE rest.up[i] # "blank"
      <4>1. \A j \in 1 .. Len(up) : up[j] # "blank"
          BY <1>2, <3>1 DEF Seen
      <4>2. i \in 1 .. Len(up) - 1 /\ i + 1 \in 1 .. Len(up)
          BY <1>4, <1>5
      <4> QED BY <1>4, <1>5, <4>1, <4>2
    <3> QED BY <3>1
  <2>5. OnItsWay(c, rest, cl[c], sv')
      BY <1>2, <1>4, <1>6, <2>1 DEF OnItsWay, Streams, Fresh
  <2>6. KeyKept(c, rest, cl[c], sv')
    <3>1. sv'.key = IF Head(up) = "key" THEN TRUE ELSE sv.key
        BY <1>1, <1>7 DEF ServerDom
    <3>2. ASSUME cl[c].key, cl[c].at \in {"asking", "opening"}
          PROVE  (\E i \in 1 .. Len(rest.up) : rest.up[i] = "key") \/ sv'.key
      <4>1. (\E i \in 1 .. Len(up) : up[i] = "key") \/ sv.key
          BY <1>1, <1>2, <3>2 DEF Seen, KeyKept
      <4>2. CASE sv.key
          BY <3>1, <4>2
      <4>3. ASSUME NEW i \in 1 .. Len(up), up[i] = "key"
            PROVE  (\E n \in 1 .. Len(rest.up) : rest.up[n] = "key") \/ sv'.key
        <5>1. CASE i = 1
            BY <1>5, <3>1, <4>3, <5>1
        <5>2. CASE i # 1
          <6>1. i - 1 \in 1 .. Len(up) - 1 /\ (i - 1) + 1 = i
              BY <1>5, <5>2
          <6>2. i - 1 \in 1 .. Len(rest.up) /\ rest.up[i - 1] = up[i]
              BY <1>4, <1>5, <6>1
          <6> QED BY <4>3, <6>2
        <5> QED BY <5>1, <5>2
      <4> QED BY <4>1, <4>2, <4>3
    <3> QED BY <1>1, <1>2, <2>1, <3>2 DEF Seen, KeyKept
  <2>7. Seen(c, rest, cl[c], sv')
      BY <1>1, <1>2, <1>4, <2>1, <2>3, <2>4, <2>5, <2>6 DEF Seen, Fresh
  <2> QED BY <1>1, <1>2, <1>4, <1>7, <2>1, <2>2, <2>7, ServerSees
<1>8. Fresh(sock[c], cl[c]) => Fresh(rest, cl[c])
    BY <1>4 DEF Fresh
<1>9. ASSUME Head(up) = "blank" PROVE Len(up) = 1 /\ cl[c].at # "asking"
  <2>1. Len(up) = 1
    <3>1. SUFFICES ASSUME Len(up) # 1 PROVE FALSE
        OBVIOUS
    <3>2. 1 \in 1 .. Len(up) - 1
      <4>1. PICK m \in Nat : m = Len(up) /\ m >= 1 /\ m # 1
          BY <1>5, <3>1
      <4>2. \A n \in Nat : n >= 1 /\ n # 1 => 1 \in 1 .. n - 1
          OBVIOUS
      <4> QED BY <4>1, <4>2
    <3> QED BY <1>2, <1>5, <1>9, <3>2 DEF Seen
  <2>2. 1 \in 1 .. Len(up)
      BY <1>5
  <2> QED BY <1>2, <1>5, <1>9, <2>1, <2>2 DEF Seen
<1>10. CASE Head(up) = "blank" /\ ~sv.key /\ NextViewer(rest)
  <2>1. Len(up) = 1 /\ cl[c].at # "asking"
      BY <1>9, <1>10
  <2>2. cl[c].at = "opening" => ~cl[c].key
    <3>1. \A i \in 1 .. Len(up) : up[i] # "key"
        BY <1>5, <1>10, <2>1
    <3> QED BY <1>1, <1>2, <1>10, <3>1 DEF Seen, KeyKept
  <2> QED BY <1>1, <1>4, <1>6, <1>8, <1>10, <2>1, <2>2, CloseSees
<1>11. CASE Head(up) = "blank" /\ Send(rest, Response, Streaming)
  <2>1. Len(up) = 1
      BY <1>9, <1>11
  <2>2. rest.up = <<>>
    <3>1. Tail(up) \in Seq({"key", "other", "blank"}) /\ Len(Tail(up)) = 0
        BY <1>1, <1>2, <1>5, <2>1
    <3>2. \A t \in Seq({"key", "other", "blank"}) : Len(t) = 0 => t = <<>>
        OBVIOUS
    <3> QED BY <1>4, <3>1, <3>2
  <2>3. cl[c].at # "asking"
      BY <1>9, <1>11
  <2>4. /\ Streaming.at = "stream" /\ Streaming.conn = c /\ Streaming.fed = sv.fed
        /\ Streaming.applied = sv.applied /\ Streaming.sent = sv.sent
      BY <1>1 DEF Streaming, ServerDom
  <2>5. sv.fed = <<>> /\ sv.applied = 0 /\ sv.sent = 0
      BY <1>1 DEF SeenInv, ProgressInv
  <2> DEFINE ok == Streaming
  <2> HIDE DEF ok
  <2>6. ok.at = "stream" /\ ok.conn = c /\ ok.fed = <<>> /\ ok.applied = 0 /\ ok.sent = 0
      BY <2>4, <2>5 DEF ok
  <2>7. sv' = ok => ProgressInv'
    <3>1. 0 \in 0 .. Len(Data) /\ 0 <= Target
        BY WsAssumption
    <3> QED BY <2>6, <3>1, FedStep, CountFacts DEF ProgressInv
  <2>8. PICK off : Carries(Response, 3, 0, 0, off)
      BY CarriesStart
  <2>9. Response \in Seq(Wire)
      BY <2>8, CarriesFacts
  <2>10. ASSUME cl[c].at \in {"opening", "viewing"}, NEW t, t.down = sock[c].down \o Response
         PROVE  Owed(t, cl[c], ok.sent)
    <3>1. cl[c].at = "opening" /\ cl[c].buf = <<>> /\ sock[c].down = <<>> /\ cl[c].frames = <<>>
        BY <1>6, <2>10 DEF Fresh
    <3>2. cl[c].buf \o t.down = Response
        BY <2>9, <2>10, <3>1
    <3>3. Len(cl[c].frames) = 0
        BY <3>1
    <3>4. (cl[c].at = "viewing") = FALSE /\ (3 = 0) = FALSE
        BY <3>1
    <3>5. Carries(cl[c].buf \o t.down, 3, Len(cl[c].frames), ok.sent, off)
        BY <2>6, <2>8, <3>2, <3>3
    <3> QED BY <3>4, <3>5 DEF Owed
  <2>11. Send(rest, Response, ok)
      BY <1>11 DEF ok
  <2> QED BY <1>1, <1>4, <2>2, <2>3, <2>6, <2>7, <2>9, <2>10, <2>11, SendSees
<1> QED BY <1>3, <1>7, <1>10, <1>11

\* A session that comes to its end has sent every snapshot.
LEMMA AllSent == ASSUME ProgressInv, sv.at = "stream", ~MoreToStream PROVE sv.sent = Len(Snapshots)
<1>1. /\ sv.applied \in 0 .. Len(Data) /\ sv.sent = Count(sv.applied) /\ sv.sent <= Target
      /\ ~(sv.applied < Len(Data) /\ sv.sent < Target) /\ Target \in Nat /\ Len(Data) \in Nat
    BY WsAssumption DEF ProgressInv, MoreToStream
<1>2. Count(sv.applied) \in Nat /\ Count(sv.applied) <= Cardinality(Due) /\ Cardinality(Due) \in Nat
  <2>1. sv.applied \in Nat
      BY <1>1
  <2> QED BY <2>1, CountFacts, DueFinite
<1>3. CASE sv.applied = Len(Data)
  <2>1. sv.sent = Cardinality(Due)
      BY <1>1, <1>3, CountFacts
  <2> QED BY <1>1, <1>2, <2>1, SnapshotsAre
<1>4. CASE sv.sent = Target
    BY <1>1, <1>2, <1>4, SnapshotsAre
<1>5. sv.applied = Len(Data) \/ sv.sent = Target
    BY <1>1, <1>2
<1> QED BY <1>3, <1>4, <1>5

LEMMA EndSees == WsInv /\ SeenInv /\ (HeaderEof \/ StreamEnd) => SeenInv'
<1> SUFFICES ASSUME WsInv, SeenInv, HeaderEof \/ StreamEnd PROVE SeenInv'
    OBVIOUS
<1> DEFINE c == sv.conn
<1>1. sv.at \in {"request", "stream"} /\ NextViewer(sock[c]) /\ UNCHANGED <<queue, cl>> /\ Serving
    BY DEF HeaderEof, StreamEnd, AfterEof, Here, Serving
<1>2. c \in Viewer
    BY <1>1 DEF WsInv, ServerInv
<1>3. /\ Seen(c, sock[c], cl[c], sv) /\ DOMAIN sock[c] = SockDom
      /\ sock[c].rst # "none" \/ ~sock[c].clOpen => cl[c].at = "left"
    BY <1>2, Fields
<1>4. CASE HeaderEof
  <2>1. cl[c].at = "left"
      BY <1>3, <1>4 DEF HeaderEof, Here
  <2> QED BY <1>1, <1>3, <2>1, CloseSees
<1>5. CASE StreamEnd
  <2>1. sv.at = "stream" /\ ~MoreToStream /\ Streams(sv, c)
      BY <1>5 DEF StreamEnd, Streams
  <2>2. sv.sent = Len(Snapshots)
      BY <2>1, AllSent DEF SeenInv
  <2>3. sock[c].up = <<>> /\ cl[c].at # "asking"
      BY <2>1 DEF SeenInv, TurnInv
  <2>4. cl[c].at \in {"opening", "viewing"} => Owed(sock[c], cl[c], Len(Snapshots))
      BY <1>3, <2>1, <2>2 DEF Seen, OnItsWay
  <2> QED BY <1>1, <1>3, <2>3, <2>4, CloseSees
<1> QED BY <1>4, <1>5

LEMMA StreamRecordSees == WsInv /\ SeenInv /\ StreamRecord => SeenInv'
<1> SUFFICES ASSUME WsInv, SeenInv, StreamRecord PROVE SeenInv'
    OBVIOUS
<1> DEFINE c == sv.conn
           a == sv.applied + 1
           fed == More(sv.fed, a)
           new == [sv EXCEPT !.fed = fed, !.applied = @ + 1]
           ok == [new EXCEPT !.sent = @ + 1]
           F == frame_text(snapshot(fed, sv.sent))
<1>1. /\ sv.at = "stream" /\ c \in Viewer /\ UNCHANGED <<queue, cl>>
      /\ DOMAIN sv = ServerDom /\ Serving /\ Streams(sv, c)
    BY DEF StreamRecord, WsInv, ServerInv, Serving, Streams
<1>2. /\ Seen(c, sock[c], cl[c], sv) /\ DOMAIN sock[c] = SockDom /\ sock[c].svOpen
      /\ sock[c].up = <<>> /\ cl[c].at # "asking"
    BY <1>1, Fields DEF SeenInv, TurnInv
<1>3. /\ sv.applied \in Nat /\ sv.applied < Len(Data) /\ Len(Data) \in Nat
      /\ sv.fed = Fed[sv.applied] /\ sv.sent = Count(sv.applied) /\ sv.sent < Target
      /\ Target \in Nat
    BY <1>1, WsAssumption DEF SeenInv, ProgressInv, StreamRecord, MoreToStream
<1>4. fed = Fed[a]
  <2>1. sv.applied \in 0 .. Len(Data) - 1
      BY <1>3
  <2> QED BY <1>3, <2>1, FedStep
<1>5. /\ new.at = "stream" /\ new.conn = c /\ new.fed = fed /\ new.applied = a
      /\ new.sent = sv.sent /\ DOMAIN new = ServerDom
    BY <1>1 DEF ServerDom
<1>6. IF new.applied % Every = 0 /\ focal_locate(fed) # 0
        THEN Send(sock[c], F, ok) ELSE sv' = new /\ UNCHANGED sock
    BY DEF StreamRecord, Here, More
<1> HIDE DEF new, fed, F
<1>7. /\ ok.at = "stream" /\ ok.conn = c /\ ok.fed = fed /\ ok.applied = a
      /\ ok.sent = sv.sent + 1
    BY <1>5 DEF ServerDom
<1> HIDE DEF ok
<1>8. a \in 1 .. Len(Data) /\ a \in 0 .. Len(Data) /\ DOMAIN Data = 1 .. Len(Data)
    BY <1>3, WsAssumption
<1>9. a \in Due <=> new.applied % Every = 0 /\ focal_locate(fed) # 0
    BY <1>4, <1>5, <1>8 DEF Due
<1>10. Count(a) = IF a \in Due THEN sv.sent + 1 ELSE sv.sent
    BY <1>3, CountFacts
<1>11. Count(a) \in Nat /\ Count(a) <= Cardinality(Due) /\ sv.sent \in Nat
  <2>1. a \in Nat /\ sv.applied \in Nat
      BY <1>3
  <2>2. \A k \in Nat : Count(k) \in Nat /\ Count(k) <= Cardinality(Due)
      BY CountFacts
  <2> HIDE DEF a
  <2> QED BY <1>3, <2>1, <2>2
<1> HIDE DEF a
<1>12. CASE a \notin Due
  <2>1. sv' = new /\ sock' = sock
      BY <1>6, <1>9, <1>12
  <2>2. ProgressInv'
    <3>1. sv.sent <= Target
        BY <1>3, <1>11
    <3> QED BY <1>4, <1>5, <1>8, <1>10, <1>12, <2>1, <3>1 DEF ProgressInv
  <2>3. Seen(c, sock[c], cl[c], sv')
    <3>1. KeyKept(c, sock[c], cl[c], sv')
        BY <1>1, <1>2, <1>5, <2>1 DEF Seen, KeyKept, Streams
    <3> QED BY <1>1, <1>2, <1>5, <2>1, <3>1 DEF Seen, OnItsWay, Streams
  <2>4. sock' = [sock EXCEPT ![c] = sock[c]]
      BY <1>1, <2>1, Fields
  <2>5. sv'.at # "dead" /\ sv'.conn = c
      BY <1>5, <2>1
  <2> QED BY <1>1, <1>2, <2>2, <2>3, <2>4, <2>5, ServerSees
<1>13. CASE a \in Due
  <2>1. Send(sock[c], F, ok)
      BY <1>6, <1>9, <1>13
  <2>2. Count(a) = sv.sent + 1 /\ sv.sent + 1 <= Len(Snapshots) /\ sv.sent + 1 \in 1 .. Len(Snapshots)
      BY <1>3, <1>10, <1>11, <1>13, SnapshotsAre, DueFinite
  <2>3. Snapshots[sv.sent + 1] = snapshot(fed, sv.sent)
    <3>1. Count(a) - 1 = sv.sent
        BY <1>11, <2>2
    <3> QED BY <1>4, <1>13, <2>2, <3>1, SnapshotAt
  <2>4. F = Frame(sv.sent + 1)
      BY <2>3 DEF F, Frame
  <2>5. F \in Seq(Wire)
      BY <2>2, <2>4, FrameIs
  <2>6. sv' = ok => ProgressInv'
    <3>1. sv.sent + 1 <= Target
        BY <1>3, <1>11
    <3> QED BY <1>4, <1>7, <1>8, <2>2, <3>1 DEF ProgressInv
  <2>7. ASSUME cl[c].at \in {"opening", "viewing"}, NEW t, t.down = sock[c].down \o F
        PROVE  Owed(t, cl[c], ok.sent)
    <3>1. Owed(sock[c], cl[c], sv.sent)
        BY <1>1, <1>2, <2>7 DEF Seen, OnItsWay
    <3>2. PICK h, off : /\ Carries(cl[c].buf \o sock[c].down, h, Len(cl[c].frames), sv.sent, off)
                        /\ cl[c].at = "viewing" <=> h = 0
        BY <3>1 DEF Owed
    <3>3. cl[c].buf \in Seq(Wire) /\ sock[c].down \in Seq(Wire)
        BY <1>2, Zenon DEF Seen
    <3>4. cl[c].buf \o t.down = (cl[c].buf \o sock[c].down) \o Frame(sv.sent + 1)
      <4>0. PICK B \in Seq(Wire), D \in Seq(Wire) : B = cl[c].buf /\ D = sock[c].down
          BY <3>3
      <4>2. B \o (D \o F) = (B \o D) \o F
          BY <2>5, ConcatAssoc, SMTT(30)
      <4>1. cl[c].buf \o (sock[c].down \o F) = (cl[c].buf \o sock[c].down) \o F
          BY <4>0, <4>2
      <4> QED BY <2>4, <2>7, <4>1
    <3>5. sv.sent < Len(Snapshots)
        BY <1>11, <2>2, SnapshotsAre, SMTT(30)
    <3>6. \E n : Carries(cl[c].buf \o t.down, h, Len(cl[c].frames), sv.sent + 1, n)
        BY <3>2, <3>4, <3>5, CarriesSend
    <3> QED BY <1>7, <3>2, <3>6 DEF Owed
  <2> QED BY <1>1, <1>2, <1>7, <2>1, <2>5, <2>6, <2>7, SendSees
<1> QED BY <1>12, <1>13

LEMMA SeenNext == WsInv /\ SeenInv /\ [Next]_vars => SeenInv'
<1> SUFFICES ASSUME WsInv, SeenInv, [Next]_vars PROVE SeenInv'
    OBVIOUS
<1>1. CASE UNCHANGED vars
    BY <1>1 DEF vars, SeenInv, ProgressInv, TurnInv, Serving
<1>2. CASE Server \/ AcceptThrows \/ ResetArrives
    BY <1>2, AcceptSees, AcceptThrowsSees, ReadHeaderSees, EndSees, StreamRecordSees, ResetSees
    DEF Server
<1>3. ASSUME NEW c \in Viewer, Connect(c) \/ Ask(c) \/ ViewerReads(c) \/ Leave(c)
      PROVE  SeenInv'
    BY <1>3, ConnectSees, AskSees, LineSees, FrameSees, EofSees, LeaveSees DEF ViewerReads
<1> QED BY <1>1, <1>2, <1>3 DEF Next

\* The inductive invariant of both theorems below: of every viewer, what it has read
\* and what is under way to it make up the replay, and its key is not lost.
THEOREM SeenInvariant == Spec => [](WsInv /\ SeenInv)
    BY WsInit, WsNext, SeenInit, SeenNext, PTL DEF Spec

\* The replay reaches every viewer: each reads its snapshots from the first one on,
\* none twice, none of another session and none with a wrong length, and one that
\* stays has read them all when wsbook closes the connection.  For any stream, number
\* of snapshots, length of their texts, number of viewers and sizes of the buffers.
THEOREM EveryViewerSeesReplay == Spec => []ViewerSeesReplay
<1>1. SeenInv => ViewerSeesReplay
  <2> SUFFICES ASSUME SeenInv, NEW c \in Viewer
               PROVE  /\ Len(cl[c].frames) <= Len(Snapshots)
                      /\ \A i \in DOMAIN cl[c].frames :
                            LET f == cl[c].frames[i]
                            IN  /\ f.token.k = "payload" /\ f.token.v = Snapshots[i]
                                /\ f.len = Snapshots[i].len
                      /\ cl[c].at = "over" => Len(cl[c].frames) = Len(Snapshots)
      BY DEF ViewerSeesReplay
  <2>1. FramesOk(cl[c]) /\ (cl[c].at = "over" => Len(cl[c].frames) = Len(Snapshots))
      BY DEF SeenInv, Seen
  <2>2. DOMAIN cl[c].frames = 1 .. Len(cl[c].frames)
      BY <2>1 DEF FramesOk
  <2>3. \A i : /\ FrameOf(i).token.k = "payload" /\ FrameOf(i).token.v = Snapshots[i]
               /\ FrameOf(i).len = Snapshots[i].len
      BY DEF FrameOf, Payload
  <2> QED BY <2>1, <2>2, <2>3 DEF FramesOk
<1> QED BY <1>1, SeenInvariant, PTL

\* No viewer harms another.  A request ends wsbook only together with a viewer that
\* sent its key and left; and a key that was sent opens its connection, whoever was
\* served before, whatever they sent and however they went: the process ending, in a
\* send or in accept(), is the one reason why it may not.
THEOREM NobodyElseHarmed == Spec => []OthersUnharmed
<1>1. WsInv /\ SeenInv => OthersUnharmed
    BY DEF WsInv, EndInv, SeenInv, Seen, KeyKept, OthersUnharmed
<1> QED BY <1>1, SeenInvariant, PTL
=============================================================================
