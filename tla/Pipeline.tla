------------------------------ MODULE Pipeline ------------------------------
(***************************************************************************)
(* replay_pipelined (include/feed/pipeline.hpp): the producer thread       *)
(* pushes the decoded messages through an SpscRing and then clears         *)
(* "producing"; the calling thread pops and applies them until a pop fails *)
(* after it has seen the flag cleared, and joins the producer.  The ring   *)
(* is the one of module SpscRing, memory orders and stale loads included;  *)
(* the flag is one more atomic location whose store number 1 is "false".   *)
(***************************************************************************)
EXTENDS SpscRing

CONSTANT Input            \* the decoded messages of the stream, in order

PipelineLocation == RingLocation \cup {"producing"}

ASSUME InputAssumption == Input \in Seq(Item) /\ MaxPush = Len(Input)
ASSUME FlagAssumption == "producing" \in Location

VARIABLE phase            \* where the consumer is in its loop

pvars == <<vars, phase>>

FlagStoreOrder == "release"   \* producing.store(false) of the producer
FlagLoadOrder == "acquire"    \* producing.load() of the consumer

-----------------------------------------------------------------------------
(* The producer thread. *)

\* while (!ring.push(m)) cpu_relax(): the same message until push returns true.
ProducerPush ==
    /\ Len(pushed) < Len(Input)
    /\ PushBegin(Input[Len(pushed) + 1])
    /\ UNCHANGED phase

ProducerStep == (PushRefresh \/ PushWrite \/ PushPublish) /\ UNCHANGED phase

\* The stream is exhausted: signal that there are no more pushes and exit.
ProducerStop ==
    /\ pc[Producer] = "idle"
    /\ Len(pushed) = Len(Input)
    /\ Store(Producer, "producing", FlagStoreOrder)
    /\ Goto(Producer, "finished")
    /\ UNCHANGED <<ringVars, phase>>

-----------------------------------------------------------------------------
(* The consumer: the calling thread. *)

ConsumerPop == phase \in {"loop", "drain"} /\ PopBegin /\ UNCHANGED phase

\* Mutant: a failed pop is always followed by another try.
AfterFailedPopNeverStops == IF phase = "loop" THEN "check" ELSE "loop"

\* A failed pop: look at the flag, or leave the loop if it was the draining one.
AfterFailedPop == IF phase = "loop" THEN "check" ELSE "join"

ConsumerRefresh ==
    /\ PopRefresh
    /\ phase' = IF pc'[Consumer] = "idle" THEN AfterFailedPop ELSE phase

ConsumerRead == PopRead /\ UNCHANGED phase

\* A successful pop: book.apply(m), ++applied, and once more around the loop.
ConsumerApply == PopRelease /\ phase' = "loop"

\* Mutant: leaves the loop as soon as the flag is down, without a last pop.
SeenFlagNoDrain(cleared) == IF cleared THEN "join" ELSE "loop"

SeenFlag(cleared) == IF cleared THEN "drain" ELSE "loop"

ConsumerCheck ==
    /\ phase = "check"
    /\ \E i \in Visible(Consumer, "producing") :
        /\ view' = [view EXCEPT ![Consumer] =
                        AfterLoad(Consumer, "producing", i, FlagLoadOrder)]
        /\ phase' = SeenFlag(i = 1)
    /\ UNCHANGED <<mem, pc, ringVars>>

\* producer.join() and return.
ConsumerJoin ==
    /\ phase = "join"
    /\ pc[Producer] = "finished"
    /\ phase' = "returned"
    /\ UNCHANGED vars

Terminated == phase = "returned" /\ UNCHANGED pvars

-----------------------------------------------------------------------------

PipelineInit == Init /\ phase = "loop"

ProducerNext == ProducerPush \/ ProducerStep \/ ProducerStop
ConsumerNext == ConsumerPop \/ ConsumerRefresh \/ ConsumerRead \/ ConsumerApply
                    \/ ConsumerCheck \/ ConsumerJoin

PipelineNext == ProducerNext \/ ConsumerNext \/ Terminated

\* Both threads are scheduled; a store becomes visible to the loads of other
\* threads in a finite time, so a spinning load does not stay stale for ever.
Fairness ==
    /\ WF_pvars(ProducerNext)
    /\ WF_pvars(ConsumerNext)
    /\ SF_pvars(ProducerStep /\ PushRefresh /\ tail_cache' = Latest("tail"))
    /\ SF_pvars(ConsumerRefresh /\ head_cache' = Latest("head"))
    /\ SF_pvars(ConsumerCheck
                  /\ view'[Consumer]["producing"] = Latest("producing"))

PipelineSpec == PipelineInit /\ [][PipelineNext]_pvars /\ Fairness

-----------------------------------------------------------------------------
(* Properties *)

\* When the loop is left nothing is left behind: the flag was cleared after the
\* last push and "every prior push is now visible (acquire)", so the failure of
\* the draining pop means that the ring is empty and the stream exhausted.
DrainedAtJoin == phase \in {"join", "returned"} => popped = Input

\* While the consumer drains it knows of every push: its pop fails only if the
\* ring is really empty, never because its view of head_ is stale.
DrainSeesEveryPush ==
    phase = "drain" => view[Consumer]["head"] = Len(Input)

\* The pipelined replay implements the single-threaded one: the same messages,
\* in the same order, all of them, and it returns.
SingleThreaded == INSTANCE Replay WITH
                      applied <- popped, returned <- phase = "returned"

ImplementsReplay == SingleThreaded!Spec
=============================================================================
