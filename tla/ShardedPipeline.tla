-------------------------- MODULE ShardedPipeline ---------------------------
(***************************************************************************)
(* replay_sharded (include/feed/sharded_pipeline.hpp): the calling thread  *)
(* routes every message to the ring of its locate's shard, n_workers       *)
(* threads pop and apply to a BookSet each, and the sets are merged once   *)
(* the workers have left.                                                  *)
(*                                                                         *)
(* A ring is the bounded queue SpscRing implements, with what the memory   *)
(* model leaves open: a worker's pop may fail while the queue is not empty *)
(* unless it is bound to see an item.  bound[w] counts the items worker w  *)
(* is bound to see; an acquire load that reads done's store covers every   *)
(* push before that store.  The hash of the locate is any function.        *)
(***************************************************************************)
EXTENDS BookSet, FiniteSets

CONSTANTS Locates,      \* the stock locates of the feed
          W,            \* n_workers
          Cap,          \* the rings' capacity
          StreamLen     \* bound: messages in the stream

ASSUME ShardAssumption ==
    /\ W \in Nat \ {0} /\ Cap \in Nat \ {0} /\ StreamLen \in Nat

Workers == 1 .. W

Messages(i) == [id : {i}, kind : {"directory", "order", "other"}, locate : Locates]

VARIABLES
    stream,    \* the decoded messages
    shardOf,   \* the shard of each locate
    n,         \* messages pushed by the calling thread
    done,      \* whether done.store(true) has happened
    ring,      \* the items in each ring
    bound,     \* how many of them the worker is bound to see
    loc,       \* where each worker is in its loop
    books,     \* shard_books
    out,       \* the caller's BookSet
    merged     \* shards merged into out; W + 1 when the call has returned

vars == <<stream, shardOf, n, done, ring, bound, loc, books, out, merged>>

workerVars == <<ring, bound, loc, books>>
-----------------------------------------------------------------------------
(* The calling thread. *)

Shard(i) == shardOf[stream[i].locate]

HasRoom(w) == Len(ring[w]) < Cap

\* while (!rings[shard]->push(m)) yield: the push that succeeds.
Push ==
    /\ n < Len(stream)
    /\ LET w == Shard(n + 1)
       IN  /\ HasRoom(w)
           /\ ring' = [ring EXCEPT ![w] = Append(@, stream[n + 1])]
    /\ n' = n + 1
    /\ UNCHANGED <<stream, shardOf, done, bound, loc, books, out, merged>>

\* Mutant: the flag is raised while the last message is still to be pushed.
StreamEndsEarly == n + 1 >= Len(stream)

StreamEnds == n = Len(stream)

SetDone ==
    /\ StreamEnds /\ ~done
    /\ done' = TRUE
    /\ UNCHANGED <<stream, shardOf, n, workerVars, out, merged>>

\* All workers joined: out.merge_from(shard_books[w]), one shard after the other.
Merge ==
    /\ done /\ n = Len(stream)
    /\ \A w \in Workers : loc[w] = "exited"
    /\ merged < W
    /\ merged' = merged + 1
    /\ out' = MergeFrom(out, books[merged + 1])
    /\ books' = [books EXCEPT ![merged + 1] = NewBookSet]
    /\ UNCHANGED <<stream, shardOf, n, done, ring, bound, loc>>

Return == /\ merged = W
          /\ merged' = W + 1
          /\ UNCHANGED <<stream, shardOf, n, done, workerVars, out>>

Returned == merged = W + 1
-----------------------------------------------------------------------------
(* A worker. *)

\* pop succeeds and the message is applied, in the loop or in the drain.
PopApply(w) ==
    /\ loc[w] \in {"loop", "drain"}
    /\ ring[w] # <<>>
    /\ ring' = [ring EXCEPT ![w] = Tail(@)]
    /\ bound' = [bound EXCEPT ![w] = IF @ = 0 THEN 0 ELSE @ - 1]
    /\ books' = [books EXCEPT ![w] = BookSetApply(@, Head(ring[w]))]
    /\ loc' = [loc EXCEPT ![w] = "loop"]
    /\ UNCHANGED <<stream, shardOf, n, done, out, merged>>

\* Mutant: a worker never leaves its loop.
AfterFailedPopStays(at) == IF at = "loop" THEN "check" ELSE "loop"

AfterFailedPop(at) == IF at = "loop" THEN "check" ELSE "exited"

\* pop fails: the ring is empty, or looks empty to this worker.
PopFails(w) ==
    /\ loc[w] \in {"loop", "drain"}
    /\ bound[w] = 0
    /\ loc' = [loc EXCEPT ![w] = AfterFailedPop(@)]
    /\ UNCHANGED <<stream, shardOf, n, done, ring, bound, books, out, merged>>

\* Mutant: done is loaded with memory_order_relaxed.
BoundAfterDoneRelaxed(w) == bound[w]

BoundAfterDone(w) == Len(ring[w])

\* done.load(acquire) reads true.
SeesDone(w) ==
    /\ loc[w] = "check" /\ done
    /\ bound' = [bound EXCEPT ![w] = BoundAfterDone(w)]
    /\ loc' = [loc EXCEPT ![w] = "drain"]
    /\ UNCHANGED <<stream, shardOf, n, done, ring, books, out, merged>>

\* done.load(acquire) reads false, the store may not be visible yet: yield.
SeesNotDone(w) ==
    /\ loc[w] = "check"
    /\ loc' = [loc EXCEPT ![w] = "loop"]
    /\ UNCHANGED <<stream, shardOf, n, done, ring, bound, books, out, merged>>
-----------------------------------------------------------------------------
Init ==
    /\ stream \in {s \in [1 .. StreamLen -> UNION {Messages(i) : i \in 1 .. StreamLen}] :
                      \A i \in 1 .. StreamLen : s[i].id = i}
    /\ shardOf \in [Locates -> Workers]
    /\ n = 0 /\ done = FALSE
    /\ ring = [w \in Workers |-> <<>>]
    /\ bound = [w \in Workers |-> 0]
    /\ loc = [w \in Workers |-> "loop"]
    /\ books = [w \in Workers |-> NewBookSet]
    /\ out = NewBookSet
    /\ merged = 0

CallerNext == Push \/ SetDone \/ Merge \/ Return

WorkerNext(w) == PopApply(w) \/ PopFails(w) \/ SeesDone(w) \/ SeesNotDone(w)

Terminated == Returned /\ UNCHANGED vars

Next == CallerNext \/ Terminated \/ \E w \in Workers : WorkerNext(w)

\* Every thread is scheduled, and a store becomes visible in a finite time: a
\* worker that keeps popping meets an item, one that keeps checking sees done.
Fairness ==
    /\ WF_vars(CallerNext)
    /\ \A w \in Workers : /\ WF_vars(WorkerNext(w))
                          /\ SF_vars(PopApply(w))
                          /\ SF_vars(SeesDone(w))

Spec == Init /\ [][Next]_vars /\ Fairness
-----------------------------------------------------------------------------
\* The reference: a single-threaded BookSet replay of the first k messages.
SingleThreaded(k) ==
    LET replay[i \in 0 .. k] ==
            IF i = 0 THEN NewBookSet ELSE BookSetApply(replay[i - 1], stream[i])
    IN  replay[k]

\* The state has its type: a ring never holds more than its capacity, and a worker
\* is bound to see no more than there is.
TypeOK ==
    /\ n \in 0 .. Len(stream) /\ merged \in 0 .. W + 1
    /\ \A w \in Workers : /\ Len(ring[w]) <= Cap
                          /\ bound[w] \in 0 .. Len(ring[w])
                          /\ loc[w] \in {"loop", "check", "drain", "exited"}

\* "the result is identical to a single-threaded BookSet replay", and the number
\* of messages returned is that of the stream: no message is left in a ring.
SameAsSingleThreaded == Returned => out = SingleThreaded(Len(stream)) /\ n = Len(stream)

\* A worker that has left has nothing more to do: its ring stays empty, whatever
\* the calling thread does next.
ExitedMeansDrained ==
    \A w \in Workers : loc[w] = "exited" => ring[w] = <<>> /\ n = Len(stream)

\* "each locate lives in exactly one shard, so there are no key collisions" in
\* merge_from: no book and no symbol is in two shards.
ShardsDisjoint ==
    \A v, w \in Workers :
        v # w => /\ DOMAIN books[v].books \cap DOMAIN books[w].books = {}
                 /\ DOMAIN books[v].symbols \cap DOMAIN books[w].symbols = {}

\* The call returns: no full ring and no late flag blocks it for ever.
Returns == <>Returned
=============================================================================
