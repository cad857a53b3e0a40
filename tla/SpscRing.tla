------------------------------ MODULE SpscRing ------------------------------
(***************************************************************************)
(* SpscRing<T> (include/core/spsc_ring.hpp): the wait-free ring between    *)
(* one producer and one consumer, at the granularity of its memory         *)
(* accesses and under the C++ memory model of module AcqRel.               *)
(*                                                                         *)
(* A counter is represented by the number of its increments; the code only *)
(* sees its value modulo SizeMod (2^64 in the build), so every comparison  *)
(* and subtraction below goes through Val or Diff.                         *)
(*                                                                         *)
(* push and pop are the loops a thread runs whenever it likes; size_approx *)
(* may be called by any thread, the two sides included.                    *)
(***************************************************************************)
EXTENDS Integers, AcqRel

CONSTANTS
    Item,         \* the values carried by the ring (T)
    Cap,          \* cap_, a power of two
    SizeMod,      \* 2^(width of std::size_t)
    MaxPush,      \* bound on the calls of push that may succeed
    NoItem        \* an object of type T that nobody has assigned yet

Producer == "producer"
Consumer == "consumer"

\* head_ and tail_, and the plain writes and reads of slots_.
RingLocation == {"head", "tail", "writes", "reads"}

\* cap_ divides 2^w and is smaller: a power of two that round_up_pow2 returned.
ASSUME CapAssumption ==
    /\ Cap \in Nat /\ Cap >= 2
    /\ SizeMod \in Nat /\ SizeMod > Cap
    /\ \E k \in 1 .. SizeMod : SizeMod = k * Cap

ASSUME ThreadAssumption ==
    /\ {Producer, Consumer} \subseteq Thread
    /\ RingLocation \subseteq Location

ASSUME MaxPushAssumption == MaxPush \in Nat

VARIABLES
    slots,        \* slots_
    tail_cache,   \* tail_cache_
    head_cache,   \* head_cache_
    pc,           \* where each thread is in the operation it is executing
    item,         \* the argument of the push in progress, else NoItem
    out,          \* what the pop in progress has read, else NoItem
    load,         \* the counters the size_approx of each thread loaded
    pushed,       \* history: the items of the pushes that returned true
    popped        \* history: the items of the pops that returned true

ringVars == <<slots, tail_cache, head_cache, item, out, load, pushed, popped>>
vars == <<mem, view, pc, ringVars>>

-----------------------------------------------------------------------------
(* Unsigned arithmetic and the memory orders of the code.                   *)

Val(n) == n % SizeMod
Diff(a, b) == (a - b) % SizeMod

\* Mutant: head % mask_ instead of head & mask_.
SlotModMask(n) == Val(n) % (Cap - 1)

Slot(n) == Val(n) % Cap

RelaxedOrder == "relaxed"      \* mutant of any of the five orders

PushLoadOrder == "acquire"     \* tail_ in push
PushStoreOrder == "release"    \* head_ in push
PopLoadOrder == "acquire"      \* head_ in pop
PopStoreOrder == "release"     \* tail_ in pop
SizeLoadOrder == "acquire"     \* both counters in size_approx

\* next - tail_cache_ > cap_, where next = head + 1.
LooksFull(head, cached) == Diff(head + 1, cached) > Cap

\* tail == head_cache_.
LooksEmpty(tail, cached) == Val(tail) = Val(cached)

Goto(t, label) == pc' = [pc EXCEPT ![t] = label]

\* A thread always sees its own counter exactly.
Head_ == view[Producer]["head"]
Tail_ == view[Consumer]["tail"]

-----------------------------------------------------------------------------
(* push *)

\* Loads head_ relaxed and tests the cached tail.
PushBegin(x) ==
    /\ pc[Producer] = "idle"
    /\ Len(pushed) < MaxPush
    /\ item' = x
    /\ Goto(Producer, IF LooksFull(Head_, tail_cache) THEN "push_refresh"
                                                      ELSE "push_write")
    /\ UNCHANGED <<mem, view, slots, tail_cache, head_cache, out, load,
                   pushed, popped>>

\* Mutant: writes the slot after the refresh without testing it again.
PushRefreshNoRecheck ==
    /\ pc[Producer] = "push_refresh"
    /\ \E i \in Visible(Producer, "tail") :
        /\ view' = [view EXCEPT ![Producer] =
                        AfterLoad(Producer, "tail", i, PushLoadOrder)]
        /\ tail_cache' = i
        /\ Goto(Producer, "push_write")
    /\ UNCHANGED <<mem, slots, head_cache, item, out, load, pushed, popped>>

\* Reloads tail_; returns false if the ring still looks full.
PushRefresh ==
    /\ pc[Producer] = "push_refresh"
    /\ \E i \in Visible(Producer, "tail") :
        /\ view' = [view EXCEPT ![Producer] =
                        AfterLoad(Producer, "tail", i, PushLoadOrder)]
        /\ tail_cache' = i
        /\ IF LooksFull(Head_, i)
             THEN Goto(Producer, "idle") /\ item' = NoItem
             ELSE Goto(Producer, "push_write") /\ UNCHANGED item
    /\ UNCHANGED <<mem, slots, head_cache, out, load, pushed, popped>>

\* slots_[head & mask_] = item.
PushWrite ==
    /\ pc[Producer] = "push_write"
    /\ slots' = [slots EXCEPT ![Slot(Head_)] = item]
    /\ Access(Producer, "writes")
    /\ Goto(Producer, "push_publish")
    /\ UNCHANGED <<mem, tail_cache, head_cache, item, out, load, pushed, popped>>

\* head_.store(next) and return true.
PushPublish ==
    /\ pc[Producer] = "push_publish"
    /\ Store(Producer, "head", PushStoreOrder)
    /\ pushed' = Append(pushed, item)
    /\ item' = NoItem
    /\ Goto(Producer, "idle")
    /\ UNCHANGED <<slots, tail_cache, head_cache, out, load, popped>>

-----------------------------------------------------------------------------
(* pop *)

\* Loads tail_ relaxed and tests the cached head.
PopBegin ==
    /\ pc[Consumer] = "idle"
    /\ Goto(Consumer, IF LooksEmpty(Tail_, head_cache) THEN "pop_refresh"
                                                       ELSE "pop_read")
    /\ UNCHANGED <<mem, view, ringVars>>

\* Mutant: reads the slot after the refresh without testing it again.
PopRefreshNoRecheck ==
    /\ pc[Consumer] = "pop_refresh"
    /\ \E i \in Visible(Consumer, "head") :
        /\ view' = [view EXCEPT ![Consumer] =
                        AfterLoad(Consumer, "head", i, PopLoadOrder)]
        /\ head_cache' = i
        /\ Goto(Consumer, "pop_read")
    /\ UNCHANGED <<mem, slots, tail_cache, item, out, load, pushed, popped>>

\* Reloads head_; returns false if the ring still looks empty.
PopRefresh ==
    /\ pc[Consumer] = "pop_refresh"
    /\ \E i \in Visible(Consumer, "head") :
        /\ view' = [view EXCEPT ![Consumer] =
                        AfterLoad(Consumer, "head", i, PopLoadOrder)]
        /\ head_cache' = i
        /\ Goto(Consumer, IF LooksEmpty(Tail_, i) THEN "idle" ELSE "pop_read")
    /\ UNCHANGED <<mem, slots, tail_cache, item, out, load, pushed, popped>>

\* A plain read that races with the write of its slot may return anything.
ReadSlot(n) ==
    IF view[Consumer]["writes"] > n THEN {slots[Slot(n)]} ELSE Item \cup {NoItem}

\* out = slots_[tail & mask_].
PopRead ==
    /\ pc[Consumer] = "pop_read"
    /\ out' \in ReadSlot(Tail_)
    /\ Access(Consumer, "reads")
    /\ Goto(Consumer, "pop_release")
    /\ UNCHANGED <<mem, slots, tail_cache, head_cache, item, load, pushed, popped>>

\* tail_.store(tail + 1) and return true.
PopRelease ==
    /\ pc[Consumer] = "pop_release"
    /\ Store(Consumer, "tail", PopStoreOrder)
    /\ popped' = Append(popped, out)
    /\ out' = NoItem
    /\ Goto(Consumer, "idle")
    /\ UNCHANGED <<slots, tail_cache, head_cache, item, load, pushed>>

-----------------------------------------------------------------------------
(* size_approx: tail_ first, then head_. *)

SizeLoadsSwapped == <<"head", "tail">>      \* mutant: head_ first

SizeLoads == <<"tail", "head">>
FirstLoad == SizeLoads[1]
SecondLoad == SizeLoads[2]

SizeFirst(t) ==
    /\ pc[t] = "idle"
    /\ \E i \in Visible(t, FirstLoad) :
        /\ view' = [view EXCEPT ![t] = AfterLoad(t, FirstLoad, i, SizeLoadOrder)]
        /\ load' = [load EXCEPT ![t][FirstLoad] = i]
    /\ Goto(t, "size_second")
    /\ UNCHANGED <<mem, slots, tail_cache, head_cache, item, out, pushed, popped>>

SizeSecond(t) ==
    /\ pc[t] = "size_second"
    /\ \E i \in Visible(t, SecondLoad) :
        /\ view' = [view EXCEPT ![t] = AfterLoad(t, SecondLoad, i, SizeLoadOrder)]
        /\ load' = [load EXCEPT ![t][SecondLoad] = i]
    /\ Goto(t, "size_done")
    /\ UNCHANGED <<mem, slots, tail_cache, head_cache, item, out, pushed, popped>>

\* The caller gets its result and forgets it.
SizeReturn(t) ==
    /\ pc[t] = "size_done"
    /\ load' = [load EXCEPT ![t] = [tail |-> 0, head |-> 0]]
    /\ Goto(t, "idle")
    /\ UNCHANGED <<mem, view, slots, tail_cache, head_cache, item, out,
                   pushed, popped>>

\* What size_approx returns to a thread at "size_done".
size_approx(t) == Diff(load[t].head, load[t].tail)
empty_approx(t) == size_approx(t) = 0

-----------------------------------------------------------------------------

RingInit ==
    /\ slots = [i \in 0 .. Cap - 1 |-> NoItem]
    /\ tail_cache = 0 /\ head_cache = 0
    /\ item = NoItem /\ out = NoItem
    /\ load = [t \in Thread |-> [tail |-> 0, head |-> 0]]
    /\ pc = [t \in Thread |-> "idle"]
    /\ pushed = <<>> /\ popped = <<>>

Init == MemInit /\ RingInit

push == (\E x \in Item : PushBegin(x)) \/ PushRefresh \/ PushWrite \/ PushPublish
pop == PopBegin \/ PopRefresh \/ PopRead \/ PopRelease
size(t) == SizeFirst(t) \/ SizeSecond(t) \/ SizeReturn(t)

Next == push \/ pop \/ \E t \in Thread : size(t)

Spec == Init /\ [][Next]_vars

-----------------------------------------------------------------------------
(* Properties *)

\* Every variable has its type; a thread is only at labels of operations it runs, or
\* finished, in a program that lets its threads end.
TypeOK ==
    /\ MemTypeOK
    /\ slots \in [0 .. Cap - 1 -> Item \cup {NoItem}]
    /\ tail_cache \in Nat /\ head_cache \in Nat
    /\ item \in Item \cup {NoItem} /\ out \in Item \cup {NoItem}
    /\ load \in [Thread -> [tail : Nat, head : Nat]]
    /\ pc \in [Thread -> {"idle", "push_refresh", "push_write", "push_publish",
                          "pop_refresh", "pop_read", "pop_release",
                          "size_second", "size_done", "finished"}]
    /\ pushed \in Seq(Item)
    /\ popped \in Seq(Item \cup {NoItem})

\* The plain accesses to slots_ never race: before push writes a slot, the read
\* of the item that last occupied it happens before; before pop reads a slot,
\* the write of the item it wants happens before (the release stores and
\* acquire loads of head_ and tail_ in push and pop).
NoDataRace ==
    /\ pc[Producer] = "push_write" => view[Producer]["reads"] + Cap > Head_
    /\ pc[Consumer] = "pop_read" => view[Consumer]["writes"] > Tail_

\* push never overwrites an unread item: no more than cap_ items are in the
\* ring, counters wrapping around included.
NoOverrun == Len(popped) <= Len(pushed) /\ Len(pushed) <= Len(popped) + Cap

\* pop delivers the pushed items, in order, none lost, duplicated or torn.
Fifo == \A i \in 1 .. Len(popped) : i <= Len(pushed) /\ popped[i] = pushed[i]

\* size_approx, called by any thread at any time, never sees more pops than
\* pushes, so its unsigned subtraction never underflows to about 2^64.
SizeNeverUnderflows ==
    \A t \in Thread : pc[t] = "size_done" => load[t].tail <= load[t].head

\* "safe to act on as 'definitely not empty'" (spsc_ring.hpp:106), for the consumer,
\* the one side that acts on it: nobody else removes items, so when its
\* empty_approx() returns false what it saw is still there.
ConsumerNotEmptyIsDefinite ==
    pc[Consumer] = "size_done" /\ ~empty_approx(Consumer)
        => Len(pushed) > Len(popped)

\* The producer's claim is the dual one: if it is told that the ring is empty,
\* then the ring is empty, because nobody else inserts.
ProducerEmptyIsDefinite ==
    pc[Producer] = "size_done" /\ empty_approx(Producer)
        => Len(pushed) = Len(popped)

\* The ring implements a bounded FIFO queue: the items published by push and
\* not yet released by pop, oldest first.
Fifo_ == INSTANCE BoundedFifo WITH
            q <- SubSeq(pushed, Len(popped) + 1, Len(pushed)), got <- popped

ImplementsFifo == Fifo_!Spec
-----------------------------------------------------------------------------
(* The inductive invariant behind these properties.                         *)

\* What any point of the program knows is consistent: it knows of no more pops
\* than pushes, and of the plain accesses that precede the stores it knows of.
GoodView(v) ==
    /\ v["tail"] <= v["head"]
    /\ v["head"] <= Latest("head") /\ v["tail"] <= Latest("tail")
    /\ v["head"] <= v["writes"] /\ v["tail"] <= v["reads"]

\* This holds of every thread, and of the view every store published.
ViewInv ==
    /\ \A t \in Thread : GoodView(view[t])
    /\ \A l \in {"head", "tail"} : \A i \in 1 .. Latest(l) :
            GoodView(mem[l][i]) /\ mem[l][i][l] = i

CounterInv ==
    /\ Head_ = Latest("head") /\ Len(pushed) = Latest("head")
    /\ Tail_ = Latest("tail") /\ Len(popped) = Latest("tail")
    /\ pc[Producer] = "push_publish" => view[Producer]["writes"] > Head_
    /\ pc[Consumer] = "pop_release" => view[Consumer]["reads"] > Tail_

\* The caches may be stale, never wrong: each side is only more cautious.
CacheInv ==
    /\ tail_cache <= view[Producer]["tail"]
    /\ Head_ <= tail_cache + Cap
    /\ pc[Producer] \in {"push_write", "push_publish"} => Head_ < tail_cache + Cap
    /\ head_cache <= view[Consumer]["head"]
    /\ Tail_ <= head_cache
    /\ pc[Consumer] \in {"pop_read", "pop_release"} => Tail_ < head_cache

ContentInv ==
    /\ \A k \in 0 .. Len(pushed) - 1 :
            k >= Len(popped) => slots[Slot(k)] = pushed[k + 1]
    /\ pc[Producer] = "push_publish" => slots[Slot(Head_)] = item
    /\ pc[Consumer] = "pop_release" => out = pushed[Tail_ + 1]
    /\ \A i \in 1 .. Len(popped) : popped[i] = pushed[i]

SizeInv ==
    /\ \A t \in Thread : /\ pc[t] = "size_second" => load[t].tail <= view[t]["head"]
                         /\ pc[t] = "size_done" => load[t].tail <= load[t].head
    /\ pc[Consumer] \in {"size_second", "size_done"} => load[Consumer].tail = Tail_
    /\ pc[Consumer] = "size_done" => load[Consumer].head <= Latest("head")
    /\ pc[Producer] \in {"size_second", "size_done"} =>
            tail_cache <= load[Producer].tail /\ load[Producer].tail <= Latest("tail")
    /\ pc[Producer] = "size_done" => load[Producer].head = Head_

RingInv == ViewInv /\ CounterInv /\ CacheInv /\ ContentInv /\ SizeInv

=============================================================================
