# TLA+ models and proofs for hft-orderbook

This directory holds a verification of the C++ (and MQL5) code of this repository: TLA+ modules
that model its components, TLC configurations that check them on small instances, and TLAPS
proofs of the results that matter most for every instance. `PROJECT.json` ties every definition to the
lines it models, every property to the hazard it is about, and every property to a plausible bug
that it catches.

Contents: [inventory](#1-the-system) · [modules](#2-modules) · [runs](#3-what-is-model-checked) ·
[findings](#4-where-the-code-and-its-comments-disagree) · [proofs](#5-what-is-proved) ·
[limits](#6-what-is-not-modelled) · [next](#7-what-could-follow)

## 1. The system

hft-orderbook rebuilds limit order books from a NASDAQ ITCH 5.0 feed, and bridges MetaTrader 5 to a
strategy. Data flows from a capture file or UDP through a decoder, optionally through lock-free
rings, into books; books are shown over WebSocket. The bridge is separate: it runs over TCP.

| component (source) | state | operations | interacts with |
|---|---|---|---|
| `SpscRing` (`core/spsc_ring.hpp`) | `slots_`, atomic `head_`, `tail_`, each side's private cache of the other's counter | `push`, `pop`, `size_approx`, `empty_approx` | one producer thread, one consumer thread, observers |
| two-stage pipeline (`feed/pipeline.hpp`) | ring, atomic `producing`, `applied` | producer loop, consumer loop, drain, join | ring, framing, `OrderBook` |
| sharded pipeline (`feed/sharded_pipeline.hpp`) | `W` rings, `W` book sets, atomic `done` | route, back-pressure, worker loop, drain, join, merge | rings, `BookSet` |
| `OrderBook` (`book/order_book.hpp`), `ObjectPool` (`core/object_pool.hpp`) | levels of two sides, pool slots and LIFO free list, `order_ref -> handle` index | `add`, `reduce`, `remove`, `replace`, `apply`, `invariant_ok` | a level store |
| level stores (`core/flat_levels.hpp`, `core/windowed_levels.hpp`) | `std::map`; sorted vector; array window + overflow map, `base_`, `best_idx_`, `count_` | `inc`, `dec`, `at`, `best`, `size`, `top`, re-centring, rescan | `OrderBook` |
| `BookSet` (`book/book_set.hpp`) | books and symbols by `stock_locate` | `apply`, `merge_from`, lookups | decoder, shards |
| MoldUDP64 (`feed/moldudp64.hpp`) | `expected_`, `gaps_`, `packets_`, `messages_`, `started_`, `ended_` | `packetize_mold`, `on_packet` | UDP, decoder |
| `mdrecv` (`apps/mdrecv.cpp`, `feed/udp.hpp`) | a session and a book set | receive loop, idle timeout | MoldUDP64, `BookSet` |
| bridge server (`mt5/server.hpp`, `strategy.hpp`, `tcp.hpp`, `apps/mt5d.cpp`) | per session: next order id, idle counter, statistics, last mid price | accept, `recv_line`, dispatch, `send_line` | the EA over TCP |
| Expert Advisor (`mt5/ITCHBridge.mq5`) | socket, receive buffer, counters, HUD | `OnInit`, `OnTick`, `OnTimer`, `OnDeinit` | `mt5d`, MetaTrader |
| decoder and framing (`itch/`, `feed/framing.hpp`) | none | `decode`, `for_each_framed_message` | everything above |
| tape, metrics (`book/tape.hpp`, `metrics.hpp`) | last trade, volume, notional, the open bar and the closed ones | `on_trade`, `bars`; `compute_metrics` over depth | `obreplay`, `wsbook` |
| synthetic feeds (`feed/synthetic.hpp`), `gencap` | the live orders per symbol with their prices, a mid price per symbol, next reference, clock | three generators, one message per step | everything that replays |
| `obreplay` (`apps/obreplay.cpp`) | the loaded bytes, two book sets, a tape per locate, the latency samples | load or generate, timed replay, tape pass, second replay, report on a focal book | all of the above |
| WebSocket, `wsbook` (`feed/websocket.hpp`, `apps/wsbook.cpp`) | the listener and one connection | handshake, frame, stream snapshots | `BookSet`, `Tape`, TCP |
| FIX (`fix/`), SHA-1, latency histogram, pinning, benches, fuzzer | – | codecs, measurement, drivers | – |

What is hard here, and what makes each part correct:

* **Concurrency.** The ring synchronises plain slot accesses by one release store and one acquire
  load per side; each side works from a stale cache. Correct means: no data race, no
  overrun, FIFO, also when the counters wrap. Both pipelines end by a flag that must not overtake the last
  push; correct means that the result is that of the single-threaded replay, and that they return.
* **Long sequences of legal calls.** Handles are freed and reused, totals are kept incrementally,
  the window moves under the levels. Correct means: index, pool and levels always agree, and the three
  level stores cannot be told apart.
* **Unreliable delivery.** Datagrams are lost, truncated, reordered or doubled. Correct means: gaps are
  counted, and the book stays consistent.
* **Untrusted bytes.** A capture may be cut anywhere and hold records of any type and length. Correct means: nothing is read
  behind the end of a record, and the two replays of `obreplay`, each with a framing loop of its own, see the same records.
* **Bookkeeping by hand.** The generators keep a list of live orders beside the book they describe, and promise that it is never
  crossed. Correct means: the list covers what rests in the book, and the promise holds in the book that is rebuilt.
* **Failure and timing.** The EA pipelines ticks, reads partial lines, reconnects and dies. Correct
  means: no order crosses sessions, is executed twice or is lost; a dead peer is reclaimed; the server
  survives its clients. `wsbook` serves viewers one at a time without a timeout: each must see the whole replay, and get its turn.

The complete list of hazards, with the line where each one bites, is in `PROJECT.json`.

## 2. Modules

```
AcqRel <- SpscRing <- Pipeline          BoundedFifo   abstract queue   (SpscRing implements it)
                                        Replay        abstract replay  (Pipeline implements it)
                                        ReferenceBook abstract book    (OrderBook implements it)
LevelMap <- OrderBook <- MdRecv -> MoldUdp64
LevelMap <- FlatLevels, WindowedLevels <- LevelStores
BookSet  <- ShardedPipeline
Itch <- SyntheticFeed <- ObReplay -> OrderBook, BookSet, Tape, Metrics
WsBook                                  Mt5Bridge
```

`MCSpscRing`, `MCPipeline`, `MCOrderBook`, `MCMdRecv`, `MCObReplay` and `MCWsBook` only give bounds. The other modules are run directly.
The proofs are in modules of their own (section 5): `PipelineProofs` for SpscRing and Pipeline, `MdRecvProofs` for MoldUdp64 and MdRecv,
`ObReplayProofs` for Itch, SyntheticFeed, Tape, Metrics and ObReplay, and `<module>Proofs` for ShardedPipeline, OrderBook, LevelStores, WsBook and Mt5Bridge.

**AcqRel** is the fragment of the C++ memory model the code relies on (external code). Each atomic has
one writer, so its modification order is a sequence of stores; `mem[l][i]` is the *view* (what
happened before) that store `i` published. A load may return any store not older than what the
thread knows, so it may be stale. An acquire load of a release store joins the published view. Plain
accesses to `slots_` are counted by two further locations, `writes` and `reads`, so "this write happens
before that read" is a comparison of numbers.

**SpscRing**: one action per memory access of `push` (`PushBegin`, `PushRefresh`,
`PushWrite`, `PushPublish`), `pop` and `size_approx`. The five memory orders are operators of their
own, so weakening one is a mutant. Counters are unbounded in the model and go through `Val` and
`Diff` (modulo `SizeMod`, 2^64 in the build) wherever the code computes with them. A read that races
with a write returns any value (`ReadSlot`). `pushed` and `popped` are history variables.

**Pipeline** extends SpscRing with the flag (a further atomic location) and the two loops of
`replay_pipelined`. **Replay** is `replay_single_threaded`.

**ShardedPipeline** builds on what is proved of the ring: each ring is a bounded queue. What the memory
model adds is kept: a pop may fail although the queue is not empty, unless the worker is *bound* to see
the items, which reading `done` with acquire makes it for everything pushed before. The hash of the
locate is an arbitrary function. **BookSet** has `apply` and `merge_from`; a book is the sequence of
messages it was given.

**OrderBook**: a book is a record and each method an operator on books (`add`, `reduce`, `remove`,
`replace`, `apply`), so MdRecv can hold one as well. Quantities are modulo `QtyMod` (2^32). `Spec`
restricts the feed to what ITCH promises (`Conforms`: a resting reference is not added again, the side is
B or S, totals fit in 32 bits); `AnySpec` allows every message the decoder can produce and is what the proofs of type correctness and
`NoAliasing` are about.
**ReferenceBook** keeps orders only and recomputes the totals from them.

**LevelMap**, **FlatLevels**, **WindowedLevels** are the three level stores as operators on values;
**LevelStores** gives all three the same calls. `Inserted` is what the code guarantees a store: `add` drops orders without
shares. `Regular` is a promise of the feed and not of the code: no insertion makes a total wrap to exactly 2^32, where
WindowedLevels takes the level for an empty slot while the others keep it. The stores do differ there.

**MoldUdp64**: `packetize_mold` as arithmetic on sequence numbers, a network that loses, reorders
and duplicates, `on_packet`, and the loop of `mdrecv`. `Fits[k]` blocks of datagram `k` fit the 2048-byte
buffer, and the others are cut off, possibly all of them, which has the effect of a heartbeat. A datagram too short for its header changes nothing, so it is
one of the lost. `Undecodable` messages are rejected by `decode`. **MdRecv** adds the sink: a book of
one symbol.

**Mt5Bridge**: the EA (event handlers run to completion, except that each `RecvLine` of a drain loop is
a step, since data may arrive in between), TCP connections (sequences of lines upwards, of half lines
downwards, resets), and `mt5d`. Bounds: `MaxConns`, `MaxTicks`, `MaxBeats`. TCP, `SocketIsConnected`,
which may lag behind a close, and a crash of the terminal (with its host, or with its socket closed by the
operating system) are external.

**Itch**: a record is a type, a header and a list of fields, each with its width and value; a field's offset is the sum of
the widths before it, so `decode` reads at the offsets and from the minimum lengths the code has, and finds a field only if something was
written there. `for_each_framed_message` has its three end conditions: no room for a length prefix, a length of 0, a
record behind the end of the buffer.

**SyntheticFeed**: `make_synthetic_itch`, `make_synthetic_multi` and `make_synthetic_book`, one message per step; every draw of the random
generator is a choice. `MinLive` stands for the number of live orders below which a generator only adds (8, 4 and 10 in the code). A walking mid price is kept at or above a floor and prices are multiples of a cent, as in the code.

**Tape** and **Metrics** are operators: `on_trade` with the bars it opens and closes, and `compute_metrics`. A quotient (VWAP, micro-price,
imbalance) is kept as its numerator and denominator, so that comparisons are exact: `MicroPriceLeans` says nothing of the rounding of the code's doubles. `spread_bps`,
`weighted_mid` and `imbalance_n`, further quotients of the same data, are left out.

**ObReplay** puts these together: `Load` a generated stream or a file cut at any byte, `Pass1`, `TapePass`, `Pass2`, `Report`. The second replay
has its own framing condition (`Stops2`), as in the code. The book of a locate is computed by OrderBook's operators from the messages the BookSet
routed to it. `--symbol` is a name, or a number truncated to 16 bits (`LocateMod`).

**WsBook**: viewers queue for `accept`; the handshake reads header lines; `stream` applies one record per step and sends a snapshot every `Every`
records. Bytes towards a viewer are tokens (response lines, header bytes of frames, a payload), so that `recv_line` reads ahead into
the frames and `read_frame` has to find their lengths: 7, 16 or 64 bits. Send buffers are bounded (`SendRoom`); a frame is appended as a whole, although `send_all` may
hand it over in parts, since a viewer takes whole frames and waits for the rest. A viewer may close or abort at any time (`Leave`). A send after a reset fails or
ends the process (SIGPIPE); both outcomes are possible, as the signal's disposition is the environment's. `accept` may throw, which ends the process as well (`AcceptThrows`):
`main` catches it and returns 1. `Ends` closes every socket and keeps in `conn` whom the server was serving. `wsbook` is
modelled with the viewer of `websocket.hpp` (`client_open`, `read_frame`), the client its tests use.

## 3. What is model-checked

| run | bounds | what it shows |
|---|---|---|
| `ring` | 2 slots, counters modulo 4, 5 pushes of distinct items, a third thread, all three calling `size_approx`; 454 460 states | `NoDataRace`, `Fifo`, `SizeNeverUnderflows`, who may trust `empty_approx` (`ConsumerNotEmptyIsDefinite`, `ProducerEmptyIsDefinite`), the inductive invariant `RingInv`, and refinement of `BoundedFifo` |
| `pipeline` | 5 messages through 2 slots; 1 760 states | nothing is left behind (`DrainedAtJoin`), and `ImplementsReplay`: same messages, same order, and the call returns |
| `sharded` | 2 workers, 2 locates, rings of 2, every stream of 3 messages, every hash; 87 156 states | `SameAsSingleThreaded`, `ExitedMeansDrained`, `Returns` |
| `book` | 3 references, 2 prices, up to 2 shares, pool of 3; 20 645 states | `NoAliasing`, `NoLeak`, `invariant_ok`, refinement of `ReferenceBook`, on conforming feeds |
| `levels` | window of 4 ticks, 8 prices, totals modulo 3, both sides; 26 192 states | the three stores agree on `at`, `size`, `best`, `top(n)` for all `n`; `WindowSound`: `best_idx_` and `count_` are right, no price is in window and overflow at once |
| `mdrecv` | 10 messages in 4 datagrams + end of session, any of them lost or late, the third cut to its first message, one message of the second undecodable; 1 266 states | `GapsExact` while what arrives is in order; `BookConsistent` always; `NoGapMeansSameBook` |
| `bridge` | 2 connections, 3 ticks of 2 prices, 1 heartbeat, 2 idle intervals; 61 468 states | `NoGhostOrders`, `ExecutedOnce`, `OrdersAccounted`, `FirstTickNeverTrades`, `DeadPeerReclaimed` |
| `obreplay` | streams of 4, 5 and 5 messages of the three generators, 2 symbols, a cent of 1; files of up to 2 records out of 11 kinds, cut at every byte; `--symbol` absent, a name, or 2, 4 and 5 modulo 4; 379 736 states | `DecodeSound` (no read behind a record, every field where it was written), `ReplaysAgree`, `GeneratorTracksBook`, `LiveUncrossed`, `NeverCrossed`, `BarsSound`, `FocusSound`, `MicroPriceLeans` |
| `wsbook` | 2 viewers, 5 records, 2 snapshots of 126 and 65536 characters, room for 4 tokens, up to 2 request lines; 115 948 states | `ViewerSeesReplay`, `UpgradeFirst`, `OthersUnharmed`, `Served` |

Why the bounds are enough. In the ring, 5 pushes make the 2-bit counters wrap with the ring full, empty and
half full, and use every slot at least twice; `push` and `pop` never look at an item, so distinct ones (`Numbered`) are
the most demanding input. In `book` references are interchangeable (`SYMMETRY`), since the book only compares them. In `levels`, the price
range is twice the window, so that
the window can be anywhere in it with overflow on both sides and can be clamped at price 0. In `mdrecv`
every subset and every order of the datagrams is explored. Two whole datagrams and the head of the third make a session without a gap: a book through which
an undecodable message, a replace and a delete have gone is compared with the lossless one, from the first message and from a later one. In `bridge` two connections are what it takes to
confuse sessions, and three ticks give two orders within one session. In `sharded` two workers
and two locates cover both collision and separation; three messages fill a ring of two. In `obreplay` the seed prices are two cents
from the floor, so that the clamps on prices and the mid are reached; two seed orders and three more messages are enough for an execution that empties
an order, its deletion, a replace and a trade. The records of a file include every length a decoder could get wrong by one field, trades
whose timestamps go back, a cross trade, an unknown type, a record shorter than its header, and padding. In `wsbook` the two payload lengths
are the first that need a 16-bit and a 64-bit field, and the room for 4 tokens is less than what the two frames take, so that the server blocks
in a send; two viewers are enough for one to wait behind the other, and one to inherit what the other left; two lines make every kind of request (with a key, without
one, unfinished), and the proofs are about requests of any length.

Deadlock is checked except in `mdrecv`, `obreplay`, `wsbook` and the `bridge` runs, whose programs really stop or wait for good (the receiver and
the replay end; a server waits in `accept` when everyone has gone).

Fairness. `pipeline` and `sharded` assume that every thread is scheduled (WF per thread) and that a store
becomes visible in finite time, which C++ [intro.progress] asks of implementations: a load repeated for
ever does not stay stale for ever, hence SF on the loads that return the latest store. `bridge` assumes only that the
server thread runs (WF on its steps): its `recv` has a timeout, so it is never blocked for good. Nothing is
assumed of the EA, the network or the strategy. `wsbook` assumes that the server and the network make progress and, since the code has
no timeout there, that a viewer reads what arrives and does not stay silent for ever with its request unfinished (`Finishes`). The last one is an
assumption on the client which `wsbook` cannot enforce: one that connects and says nothing blocks everyone behind it.

## 4. Where the code and its comments disagree

Three runs are expected to be violated; the counterexample is the point.

* `mdrecv_dup`: a datagram delivered twice is applied twice; the repeated add overwrites its index entry
  and the levels no longer match the orders: `invariant_ok()` is false from then on.
* `bridge_lockstep`: the protocol is not "strictly request/response" (`server.hpp:28`); the EA streams the next tick
  before it has read the reply to the last one. `OrdersAccounted` and `ExecutedOnce` show that nothing is lost by it.
* `bridge_sigpipe`: a client that goes away with ticks queued ends `mt5d`; `send` raises SIGPIPE.

Three more observations, without a run. A false `empty_approx()` is "definitely not empty" (`spsc_ring.hpp:106`) only for
the consumer; for the producer it is the true answer that is definite, and for any other thread neither is. The first two are proved
(`ConsumerCanTrustNotEmpty`, `ProducerCanTrustEmpty`). Once datagrams are reordered, `gaps_` can count messages that do arrive, and can be
0 although the order was lost. And WindowedLevels re-centres when a better price is inserted, not whenever the
inside leaves the window: after the window's levels are cancelled the inside stays in the overflow map.

## 5. What is proved

Eight modules hold proofs. Each states its results for every value of the constants, from the named assumptions of the module it is about;
TLC evaluates these assumptions in the runs. Every invariant that a passing run checks is a theorem.

Much of the model is data: sums over the orders of a level, folds over a stream, lists searched for their best element. The prover has no
induction rule for these, so the proofs go by the *least counterexample*: `WFMin` of the library gives the least natural number for which a
statement fails (`LeastNat`, `Induction`), and the step of the induction refutes it. Sums over finite sets are reached through the size of the set, and recursive functions through
lemmas that say what one more round makes of them.

### The ring

`PipelineProofs` proves, for every capacity `Cap >= 2` that divides `SizeMod > Cap`, any set of items and any set of
threads that contains the two sides (`CapAssumption`, `ThreadAssumption`, `MaxPushAssumption`):

| theorem | statement |
|---|---|
| `TypeCorrect` | `Spec => []TypeOK` |
| `RingInvariant` | `Spec => [](TypeInv /\ RingInv)` |
| `RaceFree` | `Spec => []NoDataRace` |
| `NeverOverruns` | `Spec => []NoOverrun` |
| `FifoOrder` | `Spec => []Fifo` |
| `SizeSafe` | `Spec => []SizeNeverUnderflows` |
| `ConsumerCanTrustNotEmpty`, `ProducerCanTrustEmpty` | the two trustworthy answers of `empty_approx` |
| `RingImplementsFifo` | `Spec => ImplementsFifo`: the ring implements `BoundedFifo` |

The argument. None of the properties is inductive. `RingInv` has five parts:

* `ViewInv`: every view, of a thread or published by a store, is *good*: it knows no more pops than pushes,
  no store that has not happened, and of every store it knows, the plain access that precedes it. An acquire load
  joins two good views, and the join is good (`LoadGood`); this is the only place where the memory orders matter.
* `CounterInv`: each side knows its own counter exactly, and the counters are the lengths of the histories.
* `CacheInv`: a cache is never ahead of what its side knows, and the true distance is at most `Cap` from it. Because
  the distance is at most `Cap < SizeMod`, the modular tests of the code decide the true comparison (`FullTest`,
  `EmptyTest`).
* `ContentInv`: slots `Len(popped) .. Len(pushed)-1` hold what was pushed. Writing slot `Head_` does not touch them, because slots
  of numbers less than `Cap` apart differ (`SlotInjective`), which needs that `Cap` divides `SizeMod`: this is where a
  capacity that is not a power of two would fail at wrap-around.
* `SizeInv`: what `size_approx` has loaded so far, for each caller.

There is one lemma per action (`PushBeginInv` ... `SizeReturnInv`), which rest on lemmas about a load, a store and a plain access
(`LoadStep`, `StoreStep`, `AccessStep`). The properties follow from the invariant; the refinement maps `q` to the suffix of
`pushed` that has not been popped: `PushPublish` is `Put`, `PopRelease` is `Get`, and everything else stutters.

### The pipelines

`PipelineProofs` (`InputAssumption`, `FlagAssumption`, and those of the ring; any stream, capacity and counter width):
`DrainIsExact` (`[]DrainSeesEveryPush`), `NothingLeftBehind` (`[]DrainedAtJoin`), and `SameStepsAsReplay`: every step of `replay_pipelined` is a step of
`replay_single_threaded` or changes nothing of it, which is the safety half of `ImplementsReplay`. `PipelineInv` is `RingInv` with `StreamInv` (what was
pushed is a prefix of the stream), `FlagInv` (the one store of `producing` publishes a view that holds every push) and `PhaseInv` (a consumer that
drains knows the last store of `head_`, so a failed pop then proves the ring empty; one that has left has applied everything).
All steps of the ring keep `RingInv` by the lemmas of the ring.

`ShardedPipelineProofs` (`ShardAssumption`; any number of workers, any capacity, stream and hash): `ShardTypeCorrect`, `ExitedIsDrained`
(`[]ExitedMeansDrained`), `NoSharedSymbol` (`[]ShardsDisjoint`: `merge_from` never meets the same locate twice) and `ShardedSameAsSingleThreaded`
(`[]SameAsSingleThreaded`). The invariant: after `done` nothing is
pushed, and a worker in its last loop is bound to see all there is (`DoneInv`); a ring and a shard only have locates that hash to it (`RoutedInv`); and what a
shard has applied, followed by what is in its ring, is the part of the stream that was routed to it. For the last theorem, applying only the messages of
one locate gives that locate's book whatever else is applied in between, and the merge loop puts every shard's books into the result.

### The book

`OrderBookProofs` (`QtyModAssumption`, `PriceAssumption`, `MaxSharesAssumption`, `MaxSlotsAssumption`; any references, prices and pool): on *any* message
sequence `AnyTypeCorrect` (`AnySpec => []TypeOK`) and `AnyNeverAliased` (`AnySpec => []NoAliasing`); on a conforming feed
`ConformingNeverLeaks` (`Spec => []NoLeak`), `ConformingInvariantOk` (`Spec => []invariant_ok`) and `ConformingImplementsReference`
(`Spec => ImplementsReference`, the whole refinement). `Sound` is about a book as a value, and one lemma per operator (`inc_level`, allocation, `remove`, ...) carries it through
the operations. That no slot is in two places is inductive only together with "the free list has no duplicates and names slots of the pool". For
`NoLeak`, `Balanced` counts: slots = free slots + indexed references. `Good` adds that each level is there exactly if an order rests at it and shows the sum of
their shares; one lemma per operation of the book says what it does to the orders (`AddGood`: one more, `RemoveGood`: one less, ...), and `invariant_ok` and the
refinement follow. These lemmas are about a book as a value, so `MdRecvProofs` and `ObReplayProofs` use them too.

`LevelStoresProofs` (`KWindowAssumption`: a window of at least one tick; `StoresAssumption`: finitely many prices, naturals, and quantities below `QtyMod`): `StoresSameLevels`, `StoresSameBest`, `StoresSameTop` and
`StoresWindowSound`, one for each property of the run. The invariant says of each store which levels it holds: the vector is sorted without
duplicates; a filled slot of the window and an entry of the overflow are never the same price, `count_` and `best_idx_` are right. `top` is
characterised by rank (the i-th best price is the one with i - 1 better ones), for the map, the vector and the merge of window and overflow alike.

### The receiver

`MdRecvProofs` (`StreamAssumption`, `NetAssumption`, `FitsAssumption`; every stream, packet size and pattern of loss and truncation):

* `GapCountExact` (`Spec => []GapsExact`). `GapInv`: while everything came in order, what arrived lies in `first .. expected - 1` and `gaps_` is the number of
  holes in it.
* `RecvNoGapMeansSameBook` (`RecvSpec => []NoGapMeansSameBook`; `RecvSpec` is the receiver with its books, `Spec` the session alone): with no gap, what was received is a
  stretch of the session without a hole, from `first` to `expected - 1`, and the book is the replay of it. A session joined late is no exception: it lacks what came before, which
  `MoldSession` does not count as a gap.
* `LossKeepsBookConsistent`: on a network that does not duplicate (`Copies = 1`) and a session that gives out no reference twice and whose totals fit 32 bits (`ConformingScript`),
  `RecvSpec => []BookConsistent`. What arrives, in whatever order, is a conforming feed: an add whose reference was used would have been sent twice. Both
  hypotheses are needed: the run `mdrecv_dup` shows what a duplicate does.

### obreplay, the generators and the decoder

`ObReplayProofs` (`FeedAssumption`, `FileAssumption`, `QtyModAssumption` and the interval of the tape): for every length of the stream, number of symbols, seed, and
for files of any number of records as `Captured` describes them, cut anywhere:

| theorem | statement |
|---|---|
| `SecondReplayAgrees` | `Spec => []ReplaysAgree` |
| `DecodeNeverOverreads` | `Spec => []DecodeSound` |
| `BarsAddUp` | `Spec => []BarsSound` |
| `ReportsOnABook` | `Spec => []FocusSound` |
| `MicroPriceInside` | `Spec => []MicroPriceLeans` |
| `GeneratorKeepsTrack` | `TotalsFit /\ Spec => []GeneratorTracksBook` |
| `RebuiltNeverCrossed` | `TotalsFit /\ Spec => []NeverCrossed` |
| `LadderNeverCrosses` | `GenSpec => []LiveUncrossed` |

The loops of the model (the walk over the records, the replays, the tape pass, the sums) are brought into one form, a start value and a round
(`Start`, `Round`, `After`), so that existence and uniqueness of what they compute are proved once. Three invariants:

* `FeedInv`: every record is one the decoder can read; what a generator encodes decodes to what was meant (`EncodeA` ... `EncodeU`: each field is found at the offset
  where it was written). `LadderInv`, part of it, says that `live` and `px` are parallel, a live bid is at least one cent and a live ask at least two, and no bid meets an ask; `SeedBid >= C` and
  `SeedAsk >= 2 * C` are what the floor on prices needs: with an ask at one cent, the floor would lift a bid onto it.
* `WalkInv`: what each pass left behind, as a function of the messages.
* `TrackInv`: the book which the records so far make is `Good`, and all that rests in it is in the generator's list, at its side and price; references in the list are distinct and
  below `next_ref`, so that an add is always new. It is about the book while it is being written; `ReplayedTracks` shows that the replay builds the same one.

`TotalsFit` is the one hypothesis: some `q` bounds the lots, and messages times `q` is below 2^32, so that no level's total wraps. With the 999 shares of the code's largest lot it
admits streams of four million messages, while the example of the repository's README (`obreplay --synthetic 1000000`) has one million. Beyond it the totals may wrap, and `invariant_ok` no longer need hold.

### The servers

`WsBookProofs` (`WsAssumption`: 0 is not a viewer, snapshots are texts of less than 2^24 characters; any number of viewers): `UpgradedOnOwnKey` (`[]UpgradeFirst`). `ConnInv`:
something is under way to a viewer, or in its buffer, only if it sent a key; `ServerInv`: the key the server has seen is that of the viewer it talks to.

`NobodyElseHarmed` (`[]OthersUnharmed`): while it serves somebody the process ends only over a viewer that sent its key and then left, and a viewer that sent its key is turned
away only if the process has ended. The first half is `EndInv`: nothing is written to a viewer without a key, and a reset comes only from one that has left. The second needs `KeyKept`, per
viewer: a key that was sent is still on its way up, or the server has taken it out of this viewer's request; and a connection closed with nothing sent is one on which no key came.
What `accept` and SIGPIPE do to the viewers still waiting is not excluded, because the code does not exclude it.

`EveryViewerSeesReplay` (`[]ViewerSeesReplay`), for every stream, every number of snapshots, of any lengths below 2^24 characters, and any room in the connection: what a viewer has read is
the replay in order, and all of it if it stayed. `SeenInv` (`SeenInvariant`) has three parts:

* `Seen`, per viewer: the frames it has read are the first ones of the replay, and its buffer followed by what the network holds for it is the rest of the response and then the frames
  up to the last one sent (`Carries`), or up to the last of all once the server is done with it. It is the form that both the server, which appends a frame at the far end, and the viewer, which takes a line or a frame at the near end,
  keep. `KeyKept`, above, is part of it. The length fields of 7, 16 and 64 bits are read back as they were written, so the viewer cuts where the server did.
* `ProgressInv`: what has been fed to the book and what has been sent are functions of the number of records applied (`Fed`, `Due`, `Nth`).
* `TurnInv`: each connection is accepted once: the queue names no viewer twice, nor the one being served.

`Mt5BridgeProofs` (`BridgeAssumption`; any number of connections, ticks and heartbeats):

* `NoStaleOrderExecuted` (`[]NoGhostOrders`), from `LinkInv`: a connection, and `g_rxbuf`, only carry orders of their own session.
* `NoTradeOnFirstTick` (`[]FirstTickNeverTrades`), from `CountInv`: a primed strategy has seen a tick it did not trade on.
* `NeverExecutedTwice` (`[]ExecutedOnce`), from `OnceInv`: the orders the EA has yet to read have rising ids, above those it has executed on this connection and
  below the server's `next_id`, also when the last one is cut in the middle.
* `EveryOrderAccounted` (`[]OrdersAccounted`): the orders sent are the acks received, those on their way back, and the orders in the connection and in `g_rxbuf`. Half lines are
  counted at their tail, so a line that was cut counts once, wherever it was cut.

### Only model-checked

* Liveness under fairness: `Returns`, `DeadPeerReclaimed`, `Served`, and that half of `ImplementsReplay`. It is outside the prover's reach.

## 6. What is not modelled

* The FIX codec and `fixsim`: a sequential text codec without state; its body length and checksum are sums over characters.
* SHA-1: a fixed bit-level function, which test vectors settle. The handshake is modelled without the value of the accept key.
* Latency histogram, CPU pinning, benches, fuzzer: measurement, and drivers that call the modelled parts in a loop.
* The HUD of the EA, JSON texts, number formats, option parsing and printing: no property depends on them.
* `publish_depth` and `publish_signal`: no program of the repository calls them in the session loop.
* `--dump` of `wsbook`, and masked frames, which nothing in the repository sends. The byte layout of the MoldUDP64 header.
* Weak memory beyond acquire and release with one writer per atomic: the code uses nothing else.
* In Mt5Bridge socket buffers are unbounded and lines towards the server arrive whole: two hazards of `tcp.hpp` (an incomplete last line at end of file, and
  both sides blocked in `send`) have no property for that reason.

## 7. What could follow

1. Mt5Bridge with cut lines towards the server and bounded socket buffers, for the two hazards above.
2. FIX: body length and checksum as a pure algorithm, against a reference definition.
