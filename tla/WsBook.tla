------------------------------- MODULE WsBook -------------------------------
(***************************************************************************)
(* apps/wsbook.cpp, which serves one WebSocket viewer after the other, with *)
(* the handshake and the frames of include/feed/websocket.hpp and the      *)
(* sockets of include/mt5/tcp.hpp.  A viewer is the client of that header  *)
(* (client_open, read_frame); it may send any lines, fall silent while the *)
(* server waits for it, stop reading for a while, or leave at any time.    *)
(*                                                                         *)
(* The bytes towards a viewer are tokens: the lines of the response, the   *)
(* bytes of a frame's header, and a payload as a whole.  A snapshot is the *)
(* focal locate, its number and the records the book was built from.       *)
(***************************************************************************)
EXTENDS Integers, Sequences, FiniteSets

CONSTANTS
    Viewer,     \* clients; 0 is none of them
    Data,       \* the records of the stream: [locate, kind], as BookSet has them
    Target,     \* snapshots to send
    Focus,      \* the locate of --symbol
    PayloadLen, \* the length of the i-th snapshot's text
    SendRoom,   \* bound: tokens the network holds for a viewer
    MaxLines    \* bound: lines a viewer sends

ASSUME WsAssumption ==
    /\ 0 \notin Viewer
    /\ Target \in Nat /\ SendRoom \in Nat \ {0} /\ MaxLines \in Nat
    /\ PayloadLen \in [1 .. Target -> Nat \ {0}] /\ \A i \in 1 .. Target : PayloadLen[i] < 16777216
    /\ Data \in Seq([locate : Nat, kind : {"directory", "order", "other", "undecodable"}])

VARIABLES
    queue,      \* connections waiting for accept()
    sock,       \* per viewer: the two directions and who has closed
    cl,         \* per viewer: where it is, its buffer, the frames it has read
    sv          \* the server: its place, key, and the locals of stream()

vars == <<queue, sock, cl, sv>>

Line(v) == [k |-> "line", v |-> v]
Byte(v) == [k |-> "byte", v |-> v]
Payload(v) == [k |-> "payload", v |-> v]
Bytes(vs) == [i \in DOMAIN vs |-> Byte(vs[i])]

-----------------------------------------------------------------------------
(* Frames. *)

\* 7, 16 or 64 bits (a length of 2^24 and more does not occur here).
LengthBytes(n) ==
    IF n < 126 THEN <<n>>
    ELSE IF n <= 65535 THEN <<126, n \div 256, n % 256>>
    ELSE <<127, 0, 0, 0, 0, 0, n \div 65536, (n \div 256) % 256, n % 256>>

frame_text(payload) == Bytes(<<129>> \o LengthBytes(payload.len)) \o <<Payload(payload)>>

\* The bytes of the length behind the first two, and the length read_frame reads.
ExtBytes(b) == IF b % 128 = 126 THEN 2 ELSE IF b % 128 = 127 THEN 8 ELSE 0

ReadLen(s) ==
    LET e == ExtBytes(s[2].v)
        be[i \in 0 .. e] == IF i = 0 THEN 0 ELSE be[i - 1] * 256 + s[2 + i].v
    IN  IF e = 0 THEN s[2].v % 128 ELSE be[e]

\* A whole frame is there.
FrameReady(s) == Len(s) >= 2 /\ Len(s) >= 2 + ExtBytes(s[2].v) + 1

-----------------------------------------------------------------------------
(* stream(): the replay and its snapshots. *)

\* What the books are fed with: the records decode() knows, of the first k.
\* count_messages counts these, applied counts all.
Fed[k \in 0 .. Len(Data)] ==
    IF k = 0 THEN <<>>
    ELSE IF Data[k].kind = "undecodable" THEN Fed[k - 1] ELSE Append(Fed[k - 1], Data[k])

count_messages == Len(Fed[Len(Data)])

Every == count_messages \div (Target + 1) + 1

\* The focal book of a BookSet fed with these records, 0 if there is none: the
\* focus once its directory message has named it, else locate 1.
focal_locate(fed) ==
    LET has(l, kinds) == \E i \in DOMAIN fed : fed[i].locate = l /\ fed[i].kind \in kinds
    IN  IF has(Focus, {"directory"}) THEN Focus
        ELSE IF has(1, {"directory", "order"}) THEN 1 ELSE 0

snapshot(fed, seq) ==
    [locate |-> focal_locate(fed), seq |-> seq, fed |-> fed, len |-> PayloadLen[seq + 1]]

\* The records behind which a snapshot is due, and the one of the n-th snapshot.
Due == {i \in DOMAIN Data : i % Every = 0 /\ focal_locate(Fed[i]) # 0}

Nth(n) == CHOOSE i \in Due : Cardinality({d \in Due : d <= i}) = n

\* The snapshots of a whole replay, whoever watches.
Snapshots ==
    LET n == IF Cardinality(Due) < Target THEN Cardinality(Due) ELSE Target
    IN  [i \in 1 .. n |-> snapshot(Fed[Nth(i)], i - 1)]

-----------------------------------------------------------------------------
(* Sockets. *)

NewSock == [up |-> <<>>, down |-> <<>>, clOpen |-> TRUE, svOpen |-> TRUE, rst |-> "none"]

Room(s) == Len(s.down) < SendRoom

\* A send towards a viewer that has left succeeds and is answered by a reset.
SendDown(s, tokens) ==
    IF s.clOpen THEN [s EXCEPT !.down = @ \o tokens]
    ELSE [s EXCEPT !.rst = IF @ = "none" THEN "sent" ELSE @]

\* The server closes; unread input turns the close into a reset, which may
\* destroy what the viewer has not read.
SvCloses(s) == {[s EXCEPT !.svOpen = FALSE, !.up = <<>>, !.down = d] :
                   d \in IF s.up = <<>> THEN {s.down} ELSE {s.down, <<>>}}

ResetArrives ==
    /\ \E c \in Viewer : /\ sock[c].rst = "sent"
                         /\ sock' = [sock EXCEPT ![c].rst = "arrived"]
    /\ UNCHANGED <<queue, cl, sv>>

-----------------------------------------------------------------------------
(* A viewer. *)

Connect(c) ==
    /\ cl[c].at = "away" /\ sv.at # "dead"
    /\ cl' = [cl EXCEPT ![c].at = "asking"]
    /\ queue' = Append(queue, c)
    /\ UNCHANGED <<sock, sv>>

\* A line of the request: the key, another header, or the blank line at its end.
Ask(c) ==
    /\ cl[c].at = "asking" /\ cl[c].lines < MaxLines
    /\ \E l \in {"key", "other", "blank"} :
        /\ sock' = [sock EXCEPT ![c].up = IF sock[c].svOpen THEN Append(@, l) ELSE @]
        /\ cl' = [cl EXCEPT ![c] = [cl[c] EXCEPT !.lines = @ + 1,
                                                 !.key = IF l = "key" THEN TRUE ELSE @,
                                                 !.at = IF l = "blank" THEN "opening" ELSE @]]
    /\ UNCHANGED <<queue, sv>>

\* recv_line, in client_open: what has arrived, possibly the start of the frames
\* too, is appended to buf_, and one line is taken off it.
Buffered(c) == cl[c].buf \o sock[c].down

ClientLine(c) ==
    /\ cl[c].at = "opening"
    /\ \E n \in 0 .. Len(sock[c].down) :
        LET buf == cl[c].buf \o SubSeq(sock[c].down, 1, n)
        IN  /\ buf # <<>> /\ (n = 0 \/ cl[c].buf = <<>>)
            /\ cl' = [cl EXCEPT ![c].buf = Tail(buf),
                                ![c].at = IF Head(buf).v = "blank" THEN "viewing" ELSE @]
            /\ sock' = [sock EXCEPT ![c].down = SubSeq(@, n + 1, Len(@))]
    /\ UNCHANGED <<queue, sv>>

\* Mutant: recv_exact goes to the socket and leaves buf_ alone.
ExactSourceSocket(c) == sock[c].down

\* recv_exact drains what recv_line has read ahead before it reads the socket.
ExactSource(c) == Buffered(c)

read_frame(c) ==
    /\ cl[c].at = "viewing"
    /\ LET s == ExactSource(c)
           n == 2 + ExtBytes(s[2].v) + 1
           taken == Len(cl[c].buf)
       IN  /\ FrameReady(s)
           /\ cl' = [cl EXCEPT ![c].frames = Append(@, [len |-> ReadLen(s), token |-> s[n]]),
                               ![c].buf = SubSeq(@, n + 1, taken)]
           /\ sock' = [sock EXCEPT ![c].down =
                          SubSeq(@, IF n > taken THEN n - taken + 1 ELSE 1, Len(@))]
    /\ UNCHANGED <<queue, sv>>

\* The server has closed and everything was read: recv returns 0.
ClientEof(c) ==
    /\ cl[c].at \in {"opening", "viewing"} /\ ~sock[c].svOpen
    /\ Buffered(c) = <<>>
    /\ cl' = [cl EXCEPT ![c].at = IF @ = "viewing" THEN "over" ELSE "refused"]
    /\ UNCHANGED <<queue, sock, sv>>

\* The viewer closes its socket, or aborts the connection: unread data make a reset
\* of any close.
Leave(c) ==
    /\ cl[c].at \in {"asking", "opening", "viewing"}
    /\ cl' = [cl EXCEPT ![c].at = "left"]
    /\ \E abort \in BOOLEAN :
        sock' = [sock EXCEPT ![c] =
                    [sock[c] EXCEPT !.clOpen = FALSE, !.down = <<>>,
                                    !.rst = IF (abort \/ sock[c].down # <<>>) /\ sock[c].svOpen
                                              THEN "sent" ELSE @]]
    /\ UNCHANGED <<queue, sv>>

-----------------------------------------------------------------------------
(* The server. *)

Here == sock[sv.conn]

Idle == [at |-> "accept", conn |-> 0, key |-> FALSE, fed |-> <<>>, applied |-> 0, sent |-> 0]

\* The process ends and its sockets are closed; conn tells whom it served, if anybody.
Ends ==
    /\ sv' = [Idle EXCEPT !.at = "dead", !.conn = sv.conn]
    /\ sock' = [c \in Viewer |-> [sock[c] EXCEPT !.svOpen = FALSE, !.up = <<>>]]

\* accept() throws (an aborted connection, no descriptor or memory left), and main
\* catches what it throws and returns 1.
AcceptThrows == sv.at = "accept" /\ Ends /\ UNCHANGED <<queue, cl>>

Accept ==
    /\ sv.at = "accept" /\ queue # <<>>
    /\ sv' = [Idle EXCEPT !.at = "request", !.conn = Head(queue)]
    /\ queue' = Tail(queue)
    /\ UNCHANGED <<sock, cl>>

\* The connection is destroyed and the loop goes on with the next viewer.
NextViewer(s) ==
    /\ sv' = Idle
    /\ \E closed \in SvCloses(s) : sock' = [sock EXCEPT ![sv.conn] = closed]

\* send_all: it waits for room; after a reset it fails, or SIGPIPE ends the process.
\* ok is the state of the server after a send that succeeds.
Send(s, tokens, ok) ==
    \/ /\ s.rst # "arrived" /\ Room(s)
       /\ sv' = ok /\ sock' = [sock EXCEPT ![sv.conn] = SendDown(s, tokens)]
    \/ s.rst = "arrived" /\ NextViewer(s)
    \/ s.rst = "arrived" /\ Ends

\* stream() makes a BookSet and a Tape of its own.
Streaming == [sv EXCEPT !.at = "stream"]

\* Mutant: a request without a key is answered all the same.
AcceptsAny == TRUE

AcceptsKey == sv.key

\* handshake(): the next header line.  A last line without its end counts too, as
\* recv_line hands it out when the viewer has closed.
ReadHeader ==
    /\ sv.at = "request" /\ Here.up # <<>>
    /\ LET rest == [Here EXCEPT !.up = Tail(@)]
       IN  \/ /\ Head(Here.up) # "blank"
              /\ sv' = [sv EXCEPT !.key = IF Head(Here.up) = "key" THEN TRUE ELSE @]
              /\ sock' = [sock EXCEPT ![sv.conn] = rest]
           \/ /\ Head(Here.up) = "blank" /\ AcceptsKey
              /\ Send(rest, <<Line("101"), Line("accept"), Line("blank")>>, Streaming)
           \/ /\ Head(Here.up) = "blank" /\ ~AcceptsKey
              /\ NextViewer(rest)
    /\ UNCHANGED <<queue, cl>>

\* Mutant: a viewer that leaves during the handshake ends the server.
AfterEofReturns == Ends

AfterEof == NextViewer(Here)

HeaderEof ==
    /\ sv.at = "request" /\ Here.up = <<>> /\ (~Here.clOpen \/ Here.rst = "arrived")
    /\ AfterEof
    /\ UNCHANGED <<queue, cl>>

MoreToStream == sv.applied < Len(Data) /\ sv.sent < Target

\* One record: applied to the books and the tape if it decodes, counted in any
\* case, and a snapshot of the focal book every Every records.
StreamRecord ==
    /\ sv.at = "stream" /\ MoreToStream
    /\ LET r   == Data[sv.applied + 1]
           fed == IF r.kind = "undecodable" THEN sv.fed ELSE Append(sv.fed, r)
           new == [sv EXCEPT !.fed = fed, !.applied = @ + 1]
       IN  IF new.applied % Every = 0 /\ focal_locate(fed) # 0
             THEN Send(Here, frame_text(snapshot(fed, sv.sent)), [new EXCEPT !.sent = @ + 1])
             ELSE sv' = new /\ UNCHANGED sock
    /\ UNCHANGED <<queue, cl>>

\* Mutant: the connection is only closed when the viewer has closed it.
StreamEndLingers ==
    /\ sv.at = "stream" /\ ~MoreToStream /\ ~Here.clOpen
    /\ NextViewer(Here)
    /\ UNCHANGED <<queue, cl>>

StreamEnd ==
    /\ sv.at = "stream" /\ ~MoreToStream
    /\ NextViewer(Here)
    /\ UNCHANGED <<queue, cl>>

-----------------------------------------------------------------------------
Init ==
    /\ queue = <<>> /\ sv = Idle
    /\ sock = [c \in Viewer |-> NewSock]
    /\ cl = [c \in Viewer |-> [at |-> "away", lines |-> 0, key |-> FALSE,
                           buf |-> <<>>, frames |-> <<>>]]

ViewerReads(c) == ClientLine(c) \/ read_frame(c) \/ ClientEof(c)

Server == Accept \/ ReadHeader \/ HeaderEof \/ StreamRecord \/ StreamEnd

Next ==
    \/ Server \/ AcceptThrows \/ ResetArrives
    \/ \E c \in Viewer : Connect(c) \/ Ask(c) \/ ViewerReads(c) \/ Leave(c)

\* The server and the network make progress.  The code has no timeout, so a viewer
\* must too: it reads what arrives, and it does not stay silent for ever with its
\* request unfinished (the second conjunct; the code cannot enforce it).
Fairness ==
    /\ WF_vars(Server) /\ WF_vars(ResetArrives)
    /\ \A c \in Viewer : WF_vars(ViewerReads(c))

Finishes(c) == cl[c].at = "asking" /\ (Ask(c) \/ Leave(c))

Spec == Init /\ [][Next]_vars /\ Fairness /\ \A c \in Viewer : WF_vars(Finishes(c))

-----------------------------------------------------------------------------
(* Properties *)

\* What a viewer reads is the replay from its beginning, snapshot by snapshot, with
\* the length and text that were sent: nothing of another viewer's session, nothing
\* lost to the lines read ahead, no length misread.  One that stays to the end and
\* sent nothing behind its request has read every snapshot.
ViewerSeesReplay ==
    \A c \in Viewer :
        /\ Len(cl[c].frames) <= Len(Snapshots)
        /\ \A i \in DOMAIN cl[c].frames :
            LET f == cl[c].frames[i]
            IN  /\ f.token.k = "payload" /\ f.token.v = Snapshots[i]
                /\ f.len = Snapshots[i].len
        /\ cl[c].at = "over" => Len(cl[c].frames) = Len(Snapshots)

\* Only a viewer that sent a key itself gets a stream: the key of the one before it,
\* or of one that waits behind it, does not open its connection.
UpgradeFirst == \A c \in Viewer : cl[c].at = "viewing" => cl[c].key

\* What one viewer does harms no other.  While it serves somebody wsbook ends only over
\* a viewer that asked properly and then left (the write that raises SIGPIPE), never
\* over a request that is wrong, cut short or given up; and a viewer that sent its key
\* is turned away only by a process that has ended, whatever those before it sent and
\* however they left.
OthersUnharmed ==
    /\ sv.at = "dead" /\ sv.conn # 0 => cl[sv.conn].at = "left" /\ cl[sv.conn].key
    /\ \A c \in Viewer : cl[c].at = "refused" /\ cl[c].key => sv.at = "dead"

\* Every viewer that connects is served in its turn: it reads the replay to its end,
\* is refused or leaves, provided the ones before it do not stay silent and the
\* server has not ended.
Served ==
    \A c \in Viewer :
        (cl[c].at # "away") ~> (cl[c].at \in {"over", "refused", "left"} \/ sv.at = "dead")
=============================================================================
