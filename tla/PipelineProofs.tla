-------------------------- MODULE PipelineProofs ----------------------------
(***************************************************************************)
(* Proofs about the ring and about replay_pipelined over it, for every     *)
(* stream, capacity and counter width.                                     *)
(*                                                                         *)
(* The first part is about SpscRing alone: its invariant, that push and    *)
(* pop never race, lose or double an item, and that it implements the      *)
(* bounded FIFO.  Nothing in it uses the pipeline.                         *)
(*                                                                         *)
(* The second part is about the pipeline, whose every step keeps the       *)
(* invariant of the ring.  What is added is what the flag publishes: the   *)
(* store of "producing" releases a view that holds every push, and the     *)
(* load that reads it makes the consumer's next load of head_ exact.       *)
(***************************************************************************)
EXTENDS Pipeline, SequenceTheorems, TLAPS

-----------------------------------------------------------------------------
(* Unsigned arithmetic.                                                     *)

LEMMA MulGe ==
    ASSUME NEW c \in Nat, NEW d \in Nat, d >= 1
    PROVE  c * d >= c
<1>1. PICK e \in Nat : d = e + 1
    BY SMT
<1>2. c * d = c * e + c
    BY <1>1, SMT
<1>3. c * e \in Nat
    BY <1>1, SMT
<1>. QED
    BY <1>2, <1>3, SMT

\* A multiple of c strictly between -c and c is zero.
LEMMA SmallMultiple ==
    ASSUME NEW c \in Nat, c > 0, NEW d \in Int, 0 <= c * d, c * d < c
    PROVE  c * d = 0
<1>1. CASE d >= 1
    BY <1>1, MulGe, SMT
<1>2. CASE d = 0
    BY <1>2, SMT
<1>3. CASE d <= -1
  <2>1. -d \in Nat /\ -d >= 1
    BY <1>3, SMT
  <2>2. c * (-d) >= c
    BY <2>1, MulGe
  <2>3. c * d = -(c * (-d))
    BY SMT
  <2>. QED
    BY <2>2, <2>3, SMT
<1>. QED
    BY <1>1, <1>2, <1>3, SMT

LEMMA Division ==
    ASSUME NEW M \in Nat, M > 0, NEW a \in Nat
    PROVE  /\ a \div M \in Int
           /\ a % M \in 0 .. M - 1
           /\ a = M * (a \div M) + (a % M)
    BY SMT

\* Unsigned counters less than one turn apart are equal if their values are.
LEMMA ModInjective ==
    ASSUME NEW M \in Nat, M > 0, NEW a \in Nat, NEW b \in Nat,
           a <= b, b < a + M, a % M = b % M
    PROVE  a = b
<1>. DEFINE x == a \div M
            y == b \div M
            r == a % M
<1>1. x \in Int /\ y \in Int /\ r \in Int /\ a = M * x + r /\ b = M * y + r
    BY Division
<1>. HIDE DEF x, y, r
<1>2. b - a = M * (y - x) /\ y - x \in Int
    BY <1>1, SMT
<1>. QED
    BY <1>2, SmallMultiple, SMT

LEMMA ModSmall ==
    ASSUME NEW M \in Nat, M > 0, NEW a \in 0 .. M - 1
    PROVE  a % M = a
    BY SMT

LEMMA SizeModBig == SizeMod >= 2 * Cap
<1>1. PICK k \in 1 .. SizeMod : SizeMod = k * Cap
    BY CapAssumption
<1>2. k # 1
    BY <1>1, CapAssumption
<1>3. k >= 2
    BY <1>1, <1>2, CapAssumption
<1>. QED
    BY <1>1, <1>3, CapAssumption, SMT

LEMMA SlotDivision ==
    ASSUME NEW n \in Nat
    PROVE  /\ Slot(n) \in 0 .. Cap - 1
           /\ \E z \in Int : n = Cap * z + Slot(n)
<1>1. PICK k \in 1 .. SizeMod : SizeMod = k * Cap
    BY CapAssumption
<1>. DEFINE q == n \div SizeMod
            r == n % SizeMod
            x == r \div Cap
            s == r % Cap
<1>2. q \in Int /\ r \in Nat /\ n = SizeMod * q + r
    BY Division, CapAssumption
<1>3. x \in Int /\ s \in 0 .. Cap - 1 /\ r = Cap * x + s
    BY Division, CapAssumption, <1>2
<1>4. Slot(n) = s
    BY DEF Slot, Val
<1>. HIDE DEF q, r, x, s
<1>5. SizeMod * q = Cap * (k * q) /\ k * q \in Int
    BY <1>1, <1>2, CapAssumption, SMT
<1>6. Cap * (k * q) + Cap * x = Cap * (k * q + x) /\ k * q + x \in Int
    BY <1>5, <1>3, CapAssumption, SMT
<1>7. n = Cap * (k * q + x) + s
    BY <1>2, <1>3, <1>5, <1>6, CapAssumption, SMT
<1>. QED
    BY <1>3, <1>4, <1>6, <1>7

\* Two items less than Cap pushes apart are in different slots.
LEMMA SlotInjective ==
    ASSUME NEW a \in Nat, NEW b \in Nat, a < b, b < a + Cap
    PROVE  Slot(a) # Slot(b)
<1>. SUFFICES ASSUME Slot(a) = Slot(b) PROVE FALSE
    OBVIOUS
<1>1. PICK x \in Int : a = Cap * x + Slot(a)
    BY SlotDivision
<1>2. PICK y \in Int : b = Cap * y + Slot(a)
    BY SlotDivision
<1>3. Slot(a) \in Int
    BY SlotDivision, CapAssumption
<1>4. b - a = Cap * (y - x) /\ y - x \in Int
    BY <1>1, <1>2, <1>3, CapAssumption, SMT
<1>. QED
    BY <1>4, SmallMultiple, CapAssumption, SMT

-----------------------------------------------------------------------------
(* Type correctness.  pushed is a sequence of items because the producer has *)
(* an item in hand wherever it is inside push.                               *)

ItemInHand ==
    pc[Producer] \in {"push_refresh", "push_write", "push_publish"} => item \in Item

TypeInv == TypeOK /\ ItemInHand

LEMMA Locations ==
    /\ Producer \in Thread /\ Consumer \in Thread /\ Producer # Consumer
    /\ "head" \in Location /\ "tail" \in Location
    /\ "writes" \in Location /\ "reads" \in Location
    BY ThreadAssumption DEF RingLocation, Producer, Consumer

LEMMA OwnCounters == MemTypeOK => Head_ \in Nat /\ Tail_ \in Nat
    BY Locations DEF MemTypeOK, View, Head_, Tail_

LEMMA AccessType ==
    ASSUME MemTypeOK, NEW t \in Thread, NEW l \in Location, Access(t, l)
    PROVE  view' \in [Thread -> View]
<1>1. view[t] \in View /\ view[t][l] + 1 \in Nat
    BY DEF MemTypeOK, View
<1>2. [view[t] EXCEPT ![l] = view[t][l] + 1] \in View
    BY <1>1 DEF View
<1>3. view' = [view EXCEPT ![t] = [view[t] EXCEPT ![l] = view[t][l] + 1]]
    BY DEF Access
<1>. QED
    BY <1>2, <1>3 DEF MemTypeOK

LEMMA AfterLoadType ==
    ASSUME MemTypeOK, NEW t \in Thread, NEW l \in Location,
           NEW i \in Visible(t, l), NEW order
    PROVE  AfterLoad(t, l, i, order) \in View /\ i \in Nat
<1>1. view[t] \in View /\ view[t][l] \in Nat /\ mem[l] \in Seq(View)
    BY DEF MemTypeOK, View
<1>2. i \in Nat /\ i <= Len(mem[l])
    BY <1>1 DEF Visible, Latest
<1>3. [view[t] EXCEPT ![l] = i] \in View
    BY <1>1, <1>2 DEF View
<1>4. Published(l, i) \in View
    BY <1>1, <1>2 DEF Published, ZeroView, View
<1>5. \A v, w \in View : Join(v, w) \in View
    BY DEF Join, View
<1>. QED
    BY <1>2, <1>3, <1>4, <1>5 DEF AfterLoad

LEMMA StoreType ==
    ASSUME MemTypeOK, NEW t \in Thread, NEW l \in Location, NEW order,
           Store(t, l, order)
    PROVE  MemTypeOK'
<1>. DEFINE own == [view[t] EXCEPT ![l] = Latest(l) + 1]
<1>1. view[t] \in View /\ mem[l] \in Seq(View)
    BY DEF MemTypeOK
<1>2. own \in View
    BY <1>1 DEF View, Latest
<1>3. ZeroView \in View
    BY DEF ZeroView, View
<1>4. Append(mem[l], IF order = "release" THEN own ELSE ZeroView) \in Seq(View)
    BY <1>1, <1>2, <1>3
<1>. HIDE DEF own
<1>5. /\ view' = [view EXCEPT ![t] = own]
      /\ mem' = [mem EXCEPT ![l] = Append(mem[l], IF order = "release"
                                                     THEN own ELSE ZeroView)]
    BY DEF Store, own
<1>. QED
    BY <1>2, <1>4, <1>5 DEF MemTypeOK

LEMMA TypeInit == Init => TypeInv
    BY CapAssumption, Locations
    DEF Init, MemInit, RingInit, TypeInv, TypeOK, MemTypeOK, ItemInHand, ZeroView, View

LEMMA TypeNext == TypeInv /\ [Next]_vars => TypeInv'
<1>. SUFFICES ASSUME TypeInv, [Next]_vars PROVE TypeInv'
    OBVIOUS
<1>. USE Locations
<1>1. ASSUME NEW x \in Item, PushBegin(x) PROVE TypeInv'
    BY <1>1 DEF TypeInv, TypeOK, MemTypeOK, ItemInHand, PushBegin, Goto
<1>2. CASE PushRefresh
  <2>1. PICK i \in Visible(Producer, "tail") :
            /\ view' = [view EXCEPT ![Producer] =
                            AfterLoad(Producer, "tail", i, PushLoadOrder)]
            /\ tail_cache' = i
            /\ \/ Goto(Producer, "idle") /\ item' = NoItem
               \/ Goto(Producer, "push_write") /\ UNCHANGED item
    BY <1>2 DEF PushRefresh
  <2>2. AfterLoad(Producer, "tail", i, PushLoadOrder) \in View /\ i \in Nat
    BY AfterLoadType DEF TypeInv, TypeOK
  <2>. QED
    BY <1>2, <2>1, <2>2
    DEF TypeInv, TypeOK, MemTypeOK, ItemInHand, PushRefresh, Goto
<1>3. CASE PushWrite
  <2>1. Slot(Head_) \in 0 .. Cap - 1
    BY SlotDivision, OwnCounters DEF TypeInv, TypeOK
  <2>2. view' \in [Thread -> View]
    BY <1>3, AccessType DEF TypeInv, TypeOK, PushWrite
  <2>. QED
    BY <1>3, <2>1, <2>2 DEF TypeInv, TypeOK, MemTypeOK, ItemInHand, PushWrite, Goto
<1>4. CASE PushPublish
  <2>1. MemTypeOK'
    BY <1>4, StoreType DEF TypeInv, TypeOK, PushPublish
  <2>. QED
    BY <1>4, <2>1 DEF TypeInv, TypeOK, ItemInHand, PushPublish, Goto
<1>5. CASE PopBegin
    BY <1>5 DEF TypeInv, TypeOK, MemTypeOK, ItemInHand, PopBegin, Goto, ringVars
<1>6. CASE PopRefresh
    BY <1>6, AfterLoadType DEF TypeInv, TypeOK, MemTypeOK, ItemInHand, PopRefresh, Goto
<1>7. CASE PopRead
  <2>1. Slot(Tail_) \in 0 .. Cap - 1
    BY SlotDivision, OwnCounters DEF TypeInv, TypeOK
  <2>2. view' \in [Thread -> View]
    BY <1>7, AccessType DEF TypeInv, TypeOK, PopRead
  <2>3. out' \in Item \cup {NoItem}
    BY <1>7, <2>1 DEF TypeInv, TypeOK, PopRead, ReadSlot
  <2>. QED
    BY <1>7, <2>2, <2>3 DEF TypeInv, TypeOK, MemTypeOK, ItemInHand, PopRead, Goto
<1>8. CASE PopRelease
  <2>1. MemTypeOK'
    BY <1>8, StoreType DEF TypeInv, TypeOK, PopRelease
  <2>. QED
    BY <1>8, <2>1 DEF TypeInv, TypeOK, ItemInHand, PopRelease, Goto
<1>9. ASSUME NEW t \in Thread, SizeFirst(t) PROVE TypeInv'
  <2>1. FirstLoad = "tail"
    BY DEF FirstLoad, SizeLoads
  <2>2. PICK i \in Visible(t, "tail") :
            /\ view' = [view EXCEPT ![t] = AfterLoad(t, "tail", i, SizeLoadOrder)]
            /\ load' = [load EXCEPT ![t] = [load[t] EXCEPT !.tail = i]]
    BY <1>9, <2>1 DEF SizeFirst
  <2>3. AfterLoad(t, "tail", i, SizeLoadOrder) \in View /\ i \in Nat
    BY AfterLoadType DEF TypeInv, TypeOK
  <2>4. load' \in [Thread -> [tail : Nat, head : Nat]]
    BY <2>2, <2>3 DEF TypeInv, TypeOK
  <2>. QED
    BY <1>9, <2>2, <2>3, <2>4
    DEF TypeInv, TypeOK, MemTypeOK, ItemInHand, SizeFirst, Goto
<1>10. ASSUME NEW t \in Thread, SizeSecond(t) PROVE TypeInv'
  <2>1. SecondLoad = "head"
    BY DEF SecondLoad, SizeLoads
  <2>2. PICK i \in Visible(t, "head") :
            /\ view' = [view EXCEPT ![t] = AfterLoad(t, "head", i, SizeLoadOrder)]
            /\ load' = [load EXCEPT ![t] = [load[t] EXCEPT !.head = i]]
    BY <1>10, <2>1 DEF SizeSecond
  <2>3. AfterLoad(t, "head", i, SizeLoadOrder) \in View /\ i \in Nat
    BY AfterLoadType DEF TypeInv, TypeOK
  <2>4. load' \in [Thread -> [tail : Nat, head : Nat]]
    BY <2>2, <2>3 DEF TypeInv, TypeOK
  <2>. QED
    BY <1>10, <2>2, <2>3, <2>4
    DEF TypeInv, TypeOK, MemTypeOK, ItemInHand, SizeSecond, Goto
<1>11. ASSUME NEW t \in Thread, SizeReturn(t) PROVE TypeInv'
    BY <1>11 DEF TypeInv, TypeOK, MemTypeOK, ItemInHand, SizeReturn, Goto
<1>12. CASE UNCHANGED vars
    BY <1>12 DEF TypeInv, TypeOK, MemTypeOK, ItemInHand, vars, ringVars
<1>. QED
    BY <1>1, <1>2, <1>3, <1>4, <1>5, <1>6, <1>7, <1>8, <1>9, <1>10, <1>11, <1>12
    DEF Next, push, pop, size

\* Type correctness of the ring, for every capacity, counter width, set of
\* threads and number of pushes.
THEOREM TypeCorrect == Spec => []TypeOK
<1>1. Spec => []TypeInv
    BY TypeInit, TypeNext, PTL DEF Spec
<1>2. TypeInv => TypeOK
    BY DEF TypeInv
<1>. QED
    BY <1>1, <1>2, PTL

-----------------------------------------------------------------------------
(* The two ways in which a step changes what a thread knows.                *)

LEMMA PublishedGood ==
    ASSUME MemTypeOK, ViewInv, NEW l \in {"head", "tail"}, NEW i \in 0 .. Latest(l)
    PROVE  /\ Published(l, i) \in View
           /\ GoodView(Published(l, i))
           /\ Published(l, i)[l] = i
<1>. USE Locations
<1>1. Latest("head") \in Nat /\ Latest("tail") \in Nat
    BY DEF MemTypeOK, Latest
<1>2. CASE i = 0
    BY <1>1, <1>2 DEF Published, ZeroView, View, GoodView
<1>3. CASE i # 0
  <2>1. i \in 1 .. Latest(l)
    BY <1>1, <1>3
  <2>2. mem[l][i] \in View
    BY <2>1 DEF MemTypeOK, Latest
  <2>. QED
    BY <1>3, <2>1, <2>2 DEF Published, ViewInv
<1>. QED
    BY <1>2, <1>3

\* An acquire load leaves a consistent view, in which nothing is forgotten.
LEMMA LoadGood ==
    ASSUME MemTypeOK, ViewInv, NEW t \in Thread, NEW l \in {"head", "tail"},
           NEW i \in Visible(t, l)
    PROVE  /\ GoodView(AfterLoad(t, l, i, "acquire"))
           /\ AfterLoad(t, l, i, "acquire")[l] = i
           /\ \A m \in Location : view[t][m] <= AfterLoad(t, l, i, "acquire")[m]
<1>. USE Locations
<1>. DEFINE v == view[t]
            p == Published(l, i)
            w == AfterLoad(t, l, i, "acquire")
<1>1. Latest("head") \in Nat /\ Latest("tail") \in Nat
    BY DEF MemTypeOK, Latest
<1>2. v \in View /\ GoodView(v)
    BY DEF MemTypeOK, ViewInv
<1>3. i \in 0 .. Latest(l) /\ v[l] <= i
    BY <1>1, <1>2 DEF Visible, View
<1>4. p \in View /\ GoodView(p) /\ p[l] = i
    BY <1>3, PublishedGood
<1>5. w = [m \in Location |-> IF (IF m = l THEN i ELSE v[m]) >= p[m]
                                THEN (IF m = l THEN i ELSE v[m]) ELSE p[m]]
    BY <1>2 DEF AfterLoad, Join, View
<1>. HIDE DEF v, p, w
<1>6. w[l] = i /\ \A m \in Location : v[m] <= w[m] /\ p[m] <= w[m]
                                       /\ (w[m] = v[m] \/ w[m] = p[m])
    BY <1>2, <1>3, <1>4, <1>5 DEF View
<1>7. GoodView(w)
    BY <1>1, <1>2, <1>3, <1>4, <1>6 DEF GoodView, View
<1>. QED
    BY <1>6, <1>7 DEF v, w

LEMMA LoadStep ==
    ASSUME MemTypeOK, ViewInv, CounterInv,
           NEW t \in Thread, NEW l \in {"head", "tail"}, NEW i \in Visible(t, l),
           UNCHANGED mem,
           view' = [view EXCEPT ![t] = AfterLoad(t, l, i, "acquire")]
    PROVE  /\ ViewInv'
           /\ Head_' = Head_ /\ Tail_' = Tail_
           /\ Latest("head")' = Latest("head") /\ Latest("tail")' = Latest("tail")
           /\ \A s \in Thread, m \in Location : view[s][m] <= view'[s][m]
           /\ view'[t][l] = i /\ i <= Latest(l)
           /\ GoodView(view'[t])
<1>. USE Locations
<1>. DEFINE w == AfterLoad(t, l, i, "acquire")
<1>1. /\ GoodView(w) /\ w[l] = i
      /\ \A m \in Location : view[t][m] <= w[m]
    BY LoadGood
<1>2. w \in View /\ i \in Nat
    BY AfterLoadType
<1>. HIDE DEF w
<1>3. view' = [view EXCEPT ![t] = w] /\ mem' = mem
    BY DEF w
<1>4. \A k : Latest(k)' = Latest(k)
    BY <1>3 DEF Latest
<1>5. \A v : GoodView(v)' <=> GoodView(v)
    BY <1>4 DEF GoodView
<1>6. \A s \in Thread : view'[s] = IF s = t THEN w ELSE view[s]
    BY <1>3 DEF MemTypeOK
<1>7. \A s \in Thread, m \in Location : view[s][m] \in Nat /\ view'[s][m] \in Nat
    BY <1>2, <1>6 DEF MemTypeOK, View
<1>8. \A s \in Thread : GoodView(view'[s])
    BY <1>1, <1>6 DEF ViewInv
<1>9. ViewInv'
    BY <1>3, <1>4, <1>5, <1>8 DEF ViewInv
<1>10. \A s \in Thread, m \in Location : view[s][m] <= view'[s][m]
    BY <1>1, <1>6, <1>7
<1>11. Head_' = Head_ /\ Tail_' = Tail_
  <2>1. view'[Producer]["head"] <= Latest("head")
    BY <1>8 DEF GoodView
  <2>2. view'[Consumer]["tail"] <= Latest("tail")
    BY <1>8 DEF GoodView
  <2>. QED
    BY <1>7, <1>10, <2>1, <2>2 DEF CounterInv, Head_, Tail_
<1>12. i <= Latest(l)
    BY <1>7 DEF Visible, Latest, MemTypeOK
<1>. QED
    BY <1>1, <1>4, <1>6, <1>8, <1>9, <1>10, <1>11, <1>12

LEMMA AccessStep ==
    ASSUME MemTypeOK, ViewInv, NEW t \in Thread, NEW l \in {"writes", "reads"},
           UNCHANGED mem, Access(t, l)
    PROVE  /\ ViewInv'
           /\ Head_' = Head_ /\ Tail_' = Tail_
           /\ Latest("head")' = Latest("head") /\ Latest("tail")' = Latest("tail")
           /\ \A s \in Thread, m \in Location \ {l} : view'[s][m] = view[s][m]
           /\ view'[t][l] = view[t][l] + 1
           /\ \A s \in Thread : s # t => view'[s] = view[s]
<1>. USE Locations
<1>. DEFINE w == [view[t] EXCEPT ![l] = view[t][l] + 1]
<1>1. view[t] \in View /\ GoodView(view[t])
    BY DEF MemTypeOK, ViewInv
<1>2. w \in View /\ w[l] = view[t][l] + 1 /\ \A m \in Location \ {l} : w[m] = view[t][m]
    BY <1>1 DEF View
<1>3. view' = [view EXCEPT ![t] = w] /\ mem' = mem
    BY DEF Access
<1>. HIDE DEF w
<1>4. \A k : Latest(k)' = Latest(k)
    BY <1>3 DEF Latest
<1>5. \A v : GoodView(v)' <=> GoodView(v)
    BY <1>4 DEF GoodView
<1>6. \A s \in Thread : view'[s] = IF s = t THEN w ELSE view[s]
    BY <1>3 DEF MemTypeOK
<1>7. GoodView(w)
    BY <1>1, <1>2 DEF GoodView, View
<1>8. ViewInv'
    BY <1>3, <1>4, <1>5, <1>6, <1>7 DEF ViewInv
<1>. QED
    BY <1>2, <1>4, <1>6, <1>8 DEF Head_, Tail_

\* A release store of l by its only writer t, who has counted the plain access
\* it publishes.
LEMMA StoreStep ==
    ASSUME MemTypeOK, ViewInv, CounterInv, NEW l \in {"head", "tail"},
           NEW t \in Thread, t = (IF l = "head" THEN Producer ELSE Consumer),
           Store(t, l, "release"),
           l = "head" => view[t]["writes"] > Head_,
           l = "tail" => view[t]["reads"] > Tail_ /\ Tail_ < view[t]["head"]
    PROVE  /\ ViewInv'
           /\ Latest(l)' = Latest(l) + 1
           /\ view'[t][l] = Latest(l) + 1
           /\ \A m \in {"head", "tail"} : m # l => Latest(m)' = Latest(m)
           /\ \A s \in Thread : s # t => view'[s] = view[s]
           /\ \A m \in Location \ {l} : view'[t][m] = view[t][m]
<1>. USE Locations
<1>0. PICK own : own = [view[t] EXCEPT ![l] = Latest(l) + 1]
    OBVIOUS
<1>1. view[t] \in View /\ GoodView(view[t]) /\ mem[l] \in Seq(View)
    BY DEF MemTypeOK, ViewInv
<1>2. Latest("head") \in Nat /\ Latest("tail") \in Nat
    BY DEF MemTypeOK, Latest
<1>3. /\ own \in View /\ own[l] = Latest(l) + 1
      /\ \A m \in Location \ {l} : own[m] = view[t][m]
    BY <1>0, <1>1, <1>2 DEF View
<1>4. view' = [view EXCEPT ![t] = own] /\ mem' = [mem EXCEPT ![l] = Append(mem[l], own)]
    BY <1>0 DEF Store
<1>5. \A s \in Thread : view'[s] = IF s = t THEN own ELSE view[s]
    BY <1>4 DEF MemTypeOK
<1>6. /\ mem'[l] = Append(mem[l], own)
      /\ \A m \in Location \ {l} : mem'[m] = mem[m]
    BY <1>4 DEF MemTypeOK
<1>7. /\ Latest(l)' = Latest(l) + 1
      /\ \A m \in {"head", "tail"} \ {l} : Latest(m)' = Latest(m)
    BY <1>1, <1>6 DEF Latest
<1>8. \A v \in View : GoodView(v) => GoodView(v)'
    BY <1>2, <1>7 DEF GoodView, View
<1>9. GoodView(own)'
  <2>1. CASE l = "head"
    <3>1. own["head"] = Latest("head") + 1 /\ own["writes"] >= Latest("head") + 1
      <4>1. Head_ = Latest("head") /\ view[t]["writes"] > Head_
        BY <2>1 DEF CounterInv
      <4>2. view[t]["writes"] \in Nat
        BY <1>1 DEF View
      <4>3. own["head"] = Latest("head") + 1 /\ own["writes"] = view[t]["writes"]
        BY <1>3, <2>1
      <4>. QED
        BY <1>2, <4>1, <4>2, <4>3
    <3>2. /\ own["tail"] = view[t]["tail"] /\ own["reads"] = view[t]["reads"]
          /\ Latest("head")' = Latest("head") + 1 /\ Latest("tail")' = Latest("tail")
        BY <1>3, <1>7, <2>1
    <3>. QED
        BY <1>1, <1>2, <3>1, <3>2 DEF GoodView, View
  <2>2. CASE l = "tail"
    <3>1. /\ own["tail"] = Latest("tail") + 1 /\ own["reads"] >= Latest("tail") + 1
          /\ own["head"] >= Latest("tail") + 1
      <4>1. Tail_ = Latest("tail") /\ view[t]["reads"] > Tail_ /\ Tail_ < view[t]["head"]
        BY <2>2 DEF CounterInv
      <4>2. view[t]["reads"] \in Nat /\ view[t]["head"] \in Nat
        BY <1>1 DEF View
      <4>3. own["tail"] = Latest("tail") + 1 /\ own["reads"] = view[t]["reads"]
            /\ own["head"] = view[t]["head"]
        BY <1>3, <2>2
      <4>. QED
        BY <1>2, <4>1, <4>2, <4>3
    <3>2. /\ own["head"] = view[t]["head"] /\ own["writes"] = view[t]["writes"]
          /\ Latest("tail")' = Latest("tail") + 1 /\ Latest("head")' = Latest("head")
        BY <1>3, <1>7, <2>2
    <3>. QED
        BY <1>1, <1>2, <3>1, <3>2 DEF GoodView, View
  <2>. QED
    BY <2>1, <2>2
<1>10. \A s \in Thread : GoodView(view[s])'
    BY <1>5, <1>8, <1>9 DEF ViewInv, MemTypeOK
<1>11. ASSUME NEW m \in {"head", "tail"}, NEW i \in 1 .. Latest(m)'
       PROVE  GoodView(mem[m][i])' /\ mem'[m][i][m] = i
  <2>1. CASE m = l /\ i = Latest(l) + 1
    BY <1>1, <1>3, <1>6, <1>9, <2>1 DEF Latest
  <2>2. CASE i \in 1 .. Latest(m)
    <3>1. mem'[m][i] = mem[m][i] /\ mem[m][i] \in View
      <4>1. mem[m] \in Seq(View) /\ i \in 1 .. Len(mem[m])
        BY <2>2 DEF Latest, MemTypeOK
      <4>2. CASE m = l
        BY <1>3, <1>6, <4>1, <4>2
      <4>3. CASE m # l
        BY <1>6, <4>1, <4>3
      <4>. QED
        BY <4>2, <4>3
    <3>. QED
        BY <1>8, <2>2, <3>1 DEF ViewInv
  <2>. QED
    BY <1>2, <1>7, <2>1, <2>2
<1>12. ViewInv'
    BY <1>10, <1>11 DEF ViewInv
<1>. QED
    BY <1>3, <1>5, <1>7, <1>12

-----------------------------------------------------------------------------
(* What the tests of the two sides mean, wrap-around or not.                *)

LEMMA FullTest ==
    ASSUME NEW h \in Nat, NEW c \in Nat, c <= h, h <= c + Cap
    PROVE  LooksFull(h, c) <=> h = c + Cap
<1>1. h + 1 - c \in 0 .. SizeMod - 1
    BY SizeModBig, CapAssumption
<1>2. (h + 1 - c) % SizeMod = h + 1 - c
    BY <1>1, ModSmall, CapAssumption
<1>. QED
    BY <1>2, CapAssumption DEF LooksFull, Diff

LEMMA EmptyTest ==
    ASSUME NEW t \in Nat, NEW c \in Nat, t <= c, c <= t + Cap
    PROVE  LooksEmpty(t, c) <=> t = c
<1>1. c < t + SizeMod /\ SizeMod \in Nat /\ SizeMod > 0
    BY CapAssumption
<1>2. t % SizeMod = c % SizeMod => t = c
    BY <1>1, ModInjective
<1>. QED
    BY <1>2 DEF LooksEmpty, Val

LEMMA GotoStep ==
    ASSUME TypeInv, NEW t \in Thread, NEW label, Goto(t, label)
    PROVE  pc'[t] = label /\ \A s \in Thread : s # t => pc'[s] = pc[s]
    BY DEF TypeInv, TypeOK, Goto

\* The counters in the order in which they can only be.
LEMMA Bounds ==
    ASSUME TypeInv, RingInv
    PROVE  /\ Head_ \in Nat /\ Tail_ \in Nat /\ tail_cache \in Nat /\ head_cache \in Nat
           /\ Tail_ <= head_cache /\ head_cache <= Head_
           /\ tail_cache <= Tail_ /\ Head_ <= tail_cache + Cap
           /\ Latest("head") = Head_ /\ Len(pushed) = Head_
           /\ Latest("tail") = Tail_ /\ Len(popped) = Tail_
<1>. USE Locations
<1>1. MemTypeOK /\ tail_cache \in Nat /\ head_cache \in Nat
    BY DEF TypeInv, TypeOK
<1>2. \A t \in Thread, l \in Location : view[t][l] \in Nat
    BY <1>1 DEF MemTypeOK, View
<1>3. GoodView(view[Producer]) /\ GoodView(view[Consumer])
    BY DEF RingInv, ViewInv
<1>4. view[Producer]["tail"] <= Latest("tail") /\ view[Consumer]["head"] <= Latest("head")
    BY <1>3 DEF GoodView
<1>5. /\ Head_ = Latest("head") /\ Len(pushed) = Latest("head")
      /\ Tail_ = Latest("tail") /\ Len(popped) = Latest("tail")
    BY DEF RingInv, CounterInv
<1>6. /\ tail_cache <= view[Producer]["tail"] /\ Head_ <= tail_cache + Cap
      /\ head_cache <= view[Consumer]["head"] /\ Tail_ <= head_cache
    BY DEF RingInv, CacheInv
<1>. QED
    BY <1>1, <1>2, <1>4, <1>5, <1>6, OwnCounters

-----------------------------------------------------------------------------
(* RingInv is inductive: one lemma per kind of step.                        *)

LEMMA RingInvInit == Init => RingInv
<1>. SUFFICES ASSUME Init PROVE RingInv
    OBVIOUS
<1>. USE Locations
<1>1. /\ \A t \in Thread, l \in Location : view[t][l] = 0
      /\ \A l \in Location : mem[l] = <<>>
    BY DEF Init, MemInit, ZeroView
<1>2. Latest("head") = 0 /\ Latest("tail") = 0
    BY <1>1 DEF Latest
<1>3. ViewInv
    BY <1>1, <1>2 DEF ViewInv, GoodView
<1>4. CounterInv
    BY <1>1, <1>2 DEF CounterInv, Head_, Tail_, Init, RingInit
<1>5. CacheInv
    BY <1>1, <1>2, CapAssumption DEF CacheInv, Head_, Tail_, Init, RingInit
<1>6. ContentInv
    BY <1>1 DEF ContentInv, Init, RingInit
<1>7. SizeInv
    BY <1>1 DEF SizeInv, Init, RingInit
<1>. QED
    BY <1>3, <1>4, <1>5, <1>6, <1>7 DEF RingInv

LEMMA PushBeginInv ==
    ASSUME TypeInv, RingInv, NEW x \in Item, PushBegin(x)
    PROVE  RingInv'
<1>. USE Locations
<1>1. /\ pc[Producer] = "idle"
      /\ UNCHANGED <<mem, view, slots, tail_cache, head_cache, out, load, pushed, popped>>
    BY DEF PushBegin
<1>3. /\ pc'[Producer] = IF LooksFull(Head_, tail_cache) THEN "push_refresh" ELSE "push_write"
      /\ \A t \in Thread : t # Producer => pc'[t] = pc[t]
    BY GotoStep DEF PushBegin
<1>4. ViewInv'
    BY <1>1 DEF RingInv, ViewInv, GoodView, Latest
<1>5. CounterInv'
    BY <1>1, <1>3 DEF RingInv, CounterInv, Latest, Head_, Tail_
<1>6. CacheInv'
  <2>1. LooksFull(Head_, tail_cache) <=> Head_ = tail_cache + Cap
    BY Bounds, FullTest
  <2>. QED
    BY <1>1, <1>3, <2>1, Bounds, CapAssumption DEF RingInv, CacheInv, Head_, Tail_
<1>7. ContentInv'
    BY <1>1, <1>3 DEF RingInv, ContentInv, Head_, Tail_
<1>8. SizeInv'
    BY <1>1, <1>3 DEF RingInv, SizeInv, Latest, Head_, Tail_
<1>. QED
    BY <1>4, <1>5, <1>6, <1>7, <1>8 DEF RingInv

LEMMA PopBeginInv ==
    ASSUME TypeInv, RingInv, PopBegin
    PROVE  RingInv'
<1>. USE Locations
<1>1. pc[Consumer] = "idle" /\ UNCHANGED <<mem, view, ringVars>>
    BY DEF PopBegin
<1>2. /\ pc'[Consumer] = IF LooksEmpty(Tail_, head_cache) THEN "pop_refresh" ELSE "pop_read"
      /\ \A t \in Thread : t # Consumer => pc'[t] = pc[t]
    BY GotoStep DEF PopBegin
<1>3. ViewInv'
    BY <1>1 DEF RingInv, ViewInv, GoodView, Latest
<1>4. CounterInv'
    BY <1>1, <1>2 DEF RingInv, CounterInv, Latest, Head_, Tail_, ringVars
<1>5. CacheInv'
  <2>1. LooksEmpty(Tail_, head_cache) <=> Tail_ = head_cache
    BY Bounds, EmptyTest, CapAssumption
  <2>. QED
    BY <1>1, <1>2, <2>1, Bounds DEF RingInv, CacheInv, Head_, Tail_, ringVars
<1>6. ContentInv'
    BY <1>1, <1>2 DEF RingInv, ContentInv, Head_, Tail_, ringVars
<1>7. SizeInv'
    BY <1>1, <1>2 DEF RingInv, SizeInv, Latest, Head_, Tail_, ringVars
<1>. QED
    BY <1>3, <1>4, <1>5, <1>6, <1>7 DEF RingInv

LEMMA PushRefreshInv ==
    ASSUME TypeInv, RingInv, PushRefresh
    PROVE  RingInv'
<1>. USE Locations
<1>1. PICK i \in Visible(Producer, "tail") :
        /\ view' = [view EXCEPT ![Producer] = AfterLoad(Producer, "tail", i, "acquire")]
        /\ tail_cache' = i
        /\ Goto(Producer, IF LooksFull(Head_, i) THEN "idle" ELSE "push_write")
    BY DEF PushRefresh, PushLoadOrder
<1>2. /\ pc[Producer] = "push_refresh"
      /\ UNCHANGED <<mem, slots, head_cache, out, load, pushed, popped>>
    BY DEF PushRefresh
<1>3. /\ pc'[Producer] = IF LooksFull(Head_, i) THEN "idle" ELSE "push_write"
      /\ \A t \in Thread : t # Producer => pc'[t] = pc[t]
    BY <1>1, GotoStep
<1>4. /\ MemTypeOK /\ ViewInv /\ CounterInv
      /\ \A t \in Thread, l \in Location : view[t][l] \in Nat
    BY DEF TypeInv, TypeOK, MemTypeOK, View, RingInv
<1>5. /\ ViewInv'
      /\ Head_' = Head_ /\ Tail_' = Tail_
      /\ Latest("head")' = Latest("head") /\ Latest("tail")' = Latest("tail")
      /\ \A s \in Thread, m \in Location : view[s][m] <= view'[s][m]
      /\ view'[Producer]["tail"] = i /\ i <= Latest("tail")
    BY <1>1, <1>2, <1>4, LoadStep
<1>6. i \in Nat /\ view[Producer]["tail"] <= i
    BY <1>4 DEF Visible, Latest
<1>7. \A t \in Thread : t # Producer => view'[t] = view[t]
    BY <1>1, <1>4 DEF MemTypeOK
<1>8. CounterInv'
    BY <1>2, <1>3, <1>5, <1>7 DEF RingInv, CounterInv
<1>9. CacheInv'
  <2>1. tail_cache <= i /\ i <= Head_ /\ Head_ <= i + Cap
    BY <1>4, <1>5, <1>6, Bounds, CapAssumption DEF RingInv, CacheInv
  <2>2. LooksFull(Head_, i) <=> Head_ = i + Cap
    BY <1>6, <2>1, Bounds, FullTest
  <2>3. view'[Consumer] = view[Consumer]
    BY <1>7
  <2>. QED
    BY <1>1, <1>2, <1>3, <1>5, <1>6, <2>1, <2>2, <2>3, Bounds, CapAssumption
    DEF RingInv, CacheInv
<1>10. ContentInv'
    BY <1>2, <1>3, <1>5 DEF RingInv, ContentInv
<1>11. SizeInv'
    BY <1>2, <1>3, <1>5, <1>7 DEF RingInv, SizeInv
<1>. QED
    BY <1>5, <1>8, <1>9, <1>10, <1>11 DEF RingInv

LEMMA PopRefreshInv ==
    ASSUME TypeInv, RingInv, PopRefresh
    PROVE  RingInv'
<1>. USE Locations
<1>1. PICK i \in Visible(Consumer, "head") :
        /\ view' = [view EXCEPT ![Consumer] = AfterLoad(Consumer, "head", i, "acquire")]
        /\ head_cache' = i
        /\ Goto(Consumer, IF LooksEmpty(Tail_, i) THEN "idle" ELSE "pop_read")
    BY DEF PopRefresh, PopLoadOrder
<1>2. /\ pc[Consumer] = "pop_refresh"
      /\ UNCHANGED <<mem, slots, tail_cache, item, out, load, pushed, popped>>
    BY DEF PopRefresh
<1>3. /\ pc'[Consumer] = IF LooksEmpty(Tail_, i) THEN "idle" ELSE "pop_read"
      /\ \A t \in Thread : t # Consumer => pc'[t] = pc[t]
    BY <1>1, GotoStep
<1>4. /\ MemTypeOK /\ ViewInv /\ CounterInv
      /\ \A t \in Thread, l \in Location : view[t][l] \in Nat
    BY DEF TypeInv, TypeOK, MemTypeOK, View, RingInv
<1>5. /\ ViewInv'
      /\ Head_' = Head_ /\ Tail_' = Tail_
      /\ Latest("head")' = Latest("head") /\ Latest("tail")' = Latest("tail")
      /\ \A s \in Thread, m \in Location : view[s][m] <= view'[s][m]
      /\ view'[Consumer]["head"] = i /\ i <= Latest("head")
    BY <1>1, <1>2, <1>4, LoadStep
<1>6. i \in Nat /\ view[Consumer]["head"] <= i
    BY <1>4 DEF Visible, Latest
<1>7. \A t \in Thread : t # Consumer => view'[t] = view[t]
    BY <1>1, <1>4 DEF MemTypeOK
<1>8. CounterInv'
    BY <1>2, <1>3, <1>5, <1>7 DEF RingInv, CounterInv
<1>9. CacheInv'
  <2>1. head_cache <= i /\ Tail_ <= i /\ i <= Tail_ + Cap
    BY <1>4, <1>5, <1>6, Bounds, CapAssumption, SMTT(30) DEF RingInv, CacheInv
  <2>2. LooksEmpty(Tail_, i) <=> Tail_ = i
    BY <1>6, <2>1, Bounds, EmptyTest
  <2>3. view'[Producer] = view[Producer]
    BY <1>7
  <2>. QED
    BY <1>1, <1>2, <1>3, <1>5, <1>6, <2>1, <2>2, <2>3, Bounds, CapAssumption
    DEF RingInv, CacheInv
<1>10. ContentInv'
    BY <1>2, <1>3, <1>5 DEF RingInv, ContentInv
<1>11. SizeInv'
    BY <1>2, <1>3, <1>5, <1>7 DEF RingInv, SizeInv
<1>. QED
    BY <1>5, <1>8, <1>9, <1>10, <1>11 DEF RingInv

\* The slot of the next push holds no unread item.
LEMMA PushWriteInv ==
    ASSUME TypeInv, RingInv, PushWrite
    PROVE  RingInv'
<1>. USE Locations
<1>1. /\ pc[Producer] = "push_write"
      /\ slots' = [slots EXCEPT ![Slot(Head_)] = item]
      /\ Access(Producer, "writes")
      /\ UNCHANGED <<mem, tail_cache, head_cache, item, out, load, pushed, popped>>
    BY DEF PushWrite
<1>2. /\ pc'[Producer] = "push_publish"
      /\ \A t \in Thread : t # Producer => pc'[t] = pc[t]
    BY GotoStep DEF PushWrite
<1>3. /\ MemTypeOK /\ ViewInv /\ GoodView(view[Producer])
      /\ \A t \in Thread, l \in Location : view[t][l] \in Nat
  <2>1. MemTypeOK /\ ViewInv
    BY DEF TypeInv, TypeOK, RingInv
  <2>2. GoodView(view[Producer])
    BY <2>1 DEF ViewInv
  <2>. QED
    BY <2>1, <2>2 DEF MemTypeOK, View
<1>4. /\ ViewInv'
      /\ Head_' = Head_ /\ Tail_' = Tail_
      /\ Latest("head")' = Latest("head") /\ Latest("tail")' = Latest("tail")
      /\ \A s \in Thread, m \in Location \ {"writes"} : view'[s][m] = view[s][m]
      /\ view'[Producer]["writes"] = view[Producer]["writes"] + 1
      /\ \A s \in Thread : s # Producer => view'[s] = view[s]
    BY <1>1, <1>3, AccessStep
<1>5. CounterInv'
  <2>1. view'[Producer]["writes"] > Head_
    BY <1>3, <1>4 DEF GoodView, Head_
  <2>. QED
    BY <1>1, <1>2, <1>4, <2>1 DEF RingInv, CounterInv
<1>6. CacheInv'
    BY <1>1, <1>2, <1>4 DEF RingInv, CacheInv
<1>7. ContentInv'
  <2>1. Slot(Head_) \in 0 .. Cap - 1 /\ Head_ < tail_cache + Cap
    BY <1>1, Bounds, SlotDivision DEF RingInv, CacheInv
  <2>2. slots'[Slot(Head_)] = item
    BY <1>1, <2>1 DEF TypeInv, TypeOK
  <2>3. ASSUME NEW k \in 0 .. Len(pushed) - 1, k >= Len(popped)
        PROVE  slots'[Slot(k)] = pushed[k + 1]
    <3>1. k \in Nat /\ k < Head_ /\ Head_ < k + Cap
        BY <2>1, <2>3, Bounds, CapAssumption
    <3>2. Slot(k) # Slot(Head_) /\ Slot(k) \in 0 .. Cap - 1
        BY <3>1, Bounds, SlotInjective, SlotDivision
    <3>3. slots'[Slot(k)] = slots[Slot(k)]
        BY <1>1, <3>2 DEF TypeInv, TypeOK
    <3>. QED
        BY <2>3, <3>3 DEF RingInv, ContentInv
  <2>. QED
    BY <1>1, <1>2, <1>4, <2>2, <2>3 DEF RingInv, ContentInv
<1>8. SizeInv'
    BY <1>1, <1>2, <1>4 DEF RingInv, SizeInv
<1>. QED
    BY <1>4, <1>5, <1>6, <1>7, <1>8 DEF RingInv

LEMMA PushPublishInv ==
    ASSUME TypeInv, RingInv, PushPublish
    PROVE  RingInv'
<1>. USE Locations
<1>1. /\ pc[Producer] = "push_publish"
      /\ Store(Producer, "head", "release")
      /\ pushed' = Append(pushed, item)
      /\ UNCHANGED <<slots, tail_cache, head_cache, out, load, popped>>
    BY DEF PushPublish, PushStoreOrder
<1>2. /\ pc'[Producer] = "idle"
      /\ \A t \in Thread : t # Producer => pc'[t] = pc[t]
    BY GotoStep DEF PushPublish
<1>3. /\ MemTypeOK /\ ViewInv /\ CounterInv
      /\ pushed \in Seq(Item) /\ item \in Item
    BY <1>1 DEF TypeInv, TypeOK, ItemInHand, RingInv
<1>4. view[Producer]["writes"] > Head_
    BY <1>1 DEF RingInv, CounterInv
<1>5. /\ ViewInv'
      /\ Latest("head")' = Latest("head") + 1
      /\ view'[Producer]["head"] = Latest("head") + 1
      /\ Latest("tail")' = Latest("tail")
      /\ \A s \in Thread : s # Producer => view'[s] = view[s]
      /\ \A m \in Location \ {"head"} : view'[Producer][m] = view[Producer][m]
    BY <1>1, <1>3, <1>4, StoreStep
<1>6. Head_' = Head_ + 1 /\ Tail_' = Tail_
    BY <1>5, Bounds DEF Head_, Tail_
<1>7. /\ Len(pushed') = Len(pushed) + 1
      /\ pushed'[Head_ + 1] = item
      /\ \A k \in 1 .. Len(pushed) : pushed'[k] = pushed[k]
    BY <1>1, <1>3, Bounds
<1>8. CounterInv'
    BY <1>1, <1>2, <1>5, <1>6, <1>7 DEF RingInv, CounterInv
<1>9. CacheInv'
    BY <1>1, <1>2, <1>5, <1>6, Bounds, CapAssumption DEF RingInv, CacheInv
<1>10. ContentInv'
  <2>1. ASSUME NEW k \in 0 .. Len(pushed') - 1, k >= Len(popped)
        PROVE  slots[Slot(k)] = pushed'[k + 1]
    <3>1. CASE k = Head_
        BY <1>1, <1>7, <3>1 DEF RingInv, ContentInv
    <3>2. CASE k # Head_
      <4>1. k \in 0 .. Len(pushed) - 1
        BY <1>7, <3>2, Bounds
      <4>. QED
        BY <1>7, <2>1, <4>1 DEF RingInv, ContentInv
    <3>. QED
        BY <3>1, <3>2
  <2>2. pc[Consumer] = "pop_release" => out = pushed'[Tail_ + 1]
    <3>1. pc[Consumer] = "pop_release" => Tail_ + 1 \in 1 .. Len(pushed)
        BY Bounds DEF RingInv, CacheInv
    <3>. QED
        BY <1>7, <3>1 DEF RingInv, ContentInv
  <2>3. \A j \in 1 .. Len(popped) : popped[j] = pushed'[j]
    <3>1. \A j \in 1 .. Len(popped) : j \in 1 .. Len(pushed)
        BY Bounds
    <3>. QED
        BY <1>7, <3>1 DEF RingInv, ContentInv
  <2>. QED
    BY <1>1, <1>2, <1>6, <2>1, <2>2, <2>3 DEF ContentInv
<1>11. SizeInv'
  <2>1. \A t \in Thread : t # Producer => view'[t] = view[t] /\ pc'[t] = pc[t]
    BY <1>2, <1>5
  <2>2. pc'[Consumer] = "size_done" => load[Consumer].head <= Latest("head") + 1
    BY <2>1, Bounds DEF RingInv, SizeInv, TypeInv, TypeOK
  <2>. QED
    BY <1>1, <1>2, <1>5, <1>6, <2>1, <2>2 DEF RingInv, SizeInv
<1>. QED
    BY <1>5, <1>8, <1>9, <1>10, <1>11 DEF RingInv

\* The slot read holds the item of the push with the same number.
LEMMA PopReadInv ==
    ASSUME TypeInv, RingInv, PopRead
    PROVE  RingInv'
<1>. USE Locations
<1>1. /\ pc[Consumer] = "pop_read"
      /\ out' \in ReadSlot(Tail_)
      /\ Access(Consumer, "reads")
      /\ UNCHANGED <<mem, slots, tail_cache, head_cache, item, load, pushed, popped>>
    BY DEF PopRead
<1>2. /\ pc'[Consumer] = "pop_release"
      /\ \A t \in Thread : t # Consumer => pc'[t] = pc[t]
    BY GotoStep DEF PopRead
<1>3. /\ MemTypeOK /\ ViewInv /\ GoodView(view[Consumer])
      /\ \A t \in Thread, l \in Location : view[t][l] \in Nat
  <2>1. MemTypeOK /\ ViewInv
    BY DEF TypeInv, TypeOK, RingInv
  <2>2. GoodView(view[Consumer])
    BY <2>1 DEF ViewInv
  <2>. QED
    BY <2>1, <2>2 DEF MemTypeOK, View
<1>4. /\ ViewInv'
      /\ Head_' = Head_ /\ Tail_' = Tail_
      /\ Latest("head")' = Latest("head") /\ Latest("tail")' = Latest("tail")
      /\ \A s \in Thread, m \in Location \ {"reads"} : view'[s][m] = view[s][m]
      /\ view'[Consumer]["reads"] = view[Consumer]["reads"] + 1
      /\ \A s \in Thread : s # Consumer => view'[s] = view[s]
    BY <1>1, <1>3, AccessStep
<1>5. CounterInv'
  <2>1. view'[Consumer]["reads"] > Tail_
    BY <1>3, <1>4 DEF GoodView, Tail_
  <2>. QED
    BY <1>1, <1>2, <1>4, <2>1 DEF RingInv, CounterInv
<1>6. CacheInv'
    BY <1>1, <1>2, <1>4 DEF RingInv, CacheInv
<1>7. ContentInv'
  <2>1. Tail_ < head_cache /\ head_cache <= view[Consumer]["head"]
    BY <1>1 DEF RingInv, CacheInv
  <2>2. view[Consumer]["writes"] > Tail_
    BY <1>3, <2>1, Bounds DEF GoodView
  <2>3. out' = slots[Slot(Tail_)]
    BY <1>1, <2>2 DEF ReadSlot
  <2>4. Tail_ \in 0 .. Len(pushed) - 1 /\ Tail_ >= Len(popped)
    BY <2>1, Bounds
  <2>5. out' = pushed[Tail_ + 1]
    BY <2>3, <2>4 DEF RingInv, ContentInv
  <2>. QED
    BY <1>1, <1>2, <1>4, <2>5 DEF RingInv, ContentInv
<1>8. SizeInv'
    BY <1>1, <1>2, <1>4 DEF RingInv, SizeInv
<1>. QED
    BY <1>4, <1>5, <1>6, <1>7, <1>8 DEF RingInv

LEMMA PopReleaseInv ==
    ASSUME TypeInv, RingInv, PopRelease
    PROVE  RingInv'
<1>. USE Locations
<1>1. /\ pc[Consumer] = "pop_release"
      /\ Store(Consumer, "tail", "release")
      /\ popped' = Append(popped, out)
      /\ UNCHANGED <<slots, tail_cache, head_cache, item, load, pushed>>
    BY DEF PopRelease, PopStoreOrder
<1>2. /\ pc'[Consumer] = "idle"
      /\ \A t \in Thread : t # Consumer => pc'[t] = pc[t]
    BY GotoStep DEF PopRelease
<1>3. /\ MemTypeOK /\ ViewInv /\ CounterInv
      /\ popped \in Seq(Item \cup {NoItem}) /\ out \in Item \cup {NoItem}
      /\ \A t \in Thread, l \in Location : view[t][l] \in Nat
    BY <1>1 DEF TypeInv, TypeOK, MemTypeOK, View, RingInv
<1>4. view[Consumer]["reads"] > Tail_ /\ Tail_ < view[Consumer]["head"]
    BY <1>1, <1>3, Bounds DEF RingInv, CounterInv, CacheInv
<1>5. /\ ViewInv'
      /\ Latest("tail")' = Latest("tail") + 1
      /\ view'[Consumer]["tail"] = Latest("tail") + 1
      /\ Latest("head")' = Latest("head")
      /\ \A s \in Thread : s # Consumer => view'[s] = view[s]
      /\ \A m \in Location \ {"tail"} : view'[Consumer][m] = view[Consumer][m]
    BY <1>1, <1>3, <1>4, StoreStep
<1>6. Tail_' = Tail_ + 1 /\ Head_' = Head_
    BY <1>5, Bounds DEF Head_, Tail_
<1>7. /\ Len(popped') = Len(popped) + 1
      /\ popped'[Tail_ + 1] = out
      /\ \A k \in 1 .. Len(popped) : popped'[k] = popped[k]
    BY <1>1, <1>3, Bounds
<1>8. CounterInv'
    BY <1>1, <1>2, <1>5, <1>6, <1>7 DEF RingInv, CounterInv
<1>9. CacheInv'
    BY <1>1, <1>2, <1>5, <1>6, Bounds DEF RingInv, CacheInv
<1>10. ContentInv'
  <2>1. \A k \in 0 .. Len(pushed) - 1 :
            k >= Len(popped') => slots[Slot(k)] = pushed[k + 1]
    BY <1>7, Bounds DEF RingInv, ContentInv
  <2>2. \A j \in 1 .. Len(popped') : popped'[j] = pushed[j]
    <3>1. out = pushed[Tail_ + 1]
        BY <1>1 DEF RingInv, ContentInv
    <3>2. ASSUME NEW j \in 1 .. Len(popped'), j # Tail_ + 1 PROVE j \in 1 .. Len(popped)
        BY <1>7, <3>2, Bounds
    <3>. QED
        BY <1>7, <3>1, <3>2 DEF RingInv, ContentInv
  <2>. QED
    BY <1>1, <1>2, <1>6, <2>1, <2>2 DEF RingInv, ContentInv
<1>11. SizeInv'
  <2>1. \A t \in Thread : t # Consumer => view'[t] = view[t] /\ pc'[t] = pc[t]
    BY <1>2, <1>5
  <2>2. pc'[Producer] \in {"size_second", "size_done"}
            => load[Producer].tail <= Latest("tail") + 1
    BY <2>1, Bounds DEF RingInv, SizeInv, TypeInv, TypeOK
  <2>. QED
    BY <1>1, <1>2, <1>5, <1>6, <2>1, <2>2 DEF RingInv, SizeInv
<1>. QED
    BY <1>5, <1>8, <1>9, <1>10, <1>11 DEF RingInv

\* Nobody who has seen pop number n is unaware of push number n: this is what
\* makes the order of the two loads of size_approx matter.
LEMMA SizeFirstInv ==
    ASSUME TypeInv, RingInv, NEW t \in Thread, SizeFirst(t)
    PROVE  RingInv'
<1>. USE Locations
<1>1. FirstLoad = "tail"
    BY DEF FirstLoad, SizeLoads
<1>2. PICK i \in Visible(t, "tail") :
        /\ view' = [view EXCEPT ![t] = AfterLoad(t, "tail", i, "acquire")]
        /\ load' = [load EXCEPT ![t] = [load[t] EXCEPT !.tail = i]]
    BY <1>1 DEF SizeFirst, SizeLoadOrder
<1>3. /\ pc[t] = "idle"
      /\ UNCHANGED <<mem, slots, tail_cache, head_cache, item, out, pushed, popped>>
    BY DEF SizeFirst
<1>4. pc'[t] = "size_second" /\ \A s \in Thread : s # t => pc'[s] = pc[s]
    BY GotoStep DEF SizeFirst
<1>5. /\ MemTypeOK /\ ViewInv /\ CounterInv
      /\ \A s \in Thread, l \in Location : view[s][l] \in Nat
    BY DEF TypeInv, TypeOK, MemTypeOK, View, RingInv
<1>6. /\ ViewInv'
      /\ Head_' = Head_ /\ Tail_' = Tail_
      /\ Latest("head")' = Latest("head") /\ Latest("tail")' = Latest("tail")
      /\ \A s \in Thread, m \in Location : view[s][m] <= view'[s][m]
      /\ view'[t]["tail"] = i /\ i <= Latest("tail")
      /\ GoodView(view'[t])
    BY <1>2, <1>3, <1>5, LoadStep
<1>7. /\ i \in Nat /\ view[t]["tail"] <= i
      /\ AfterLoad(t, "tail", i, "acquire") \in View
    BY <1>5, AfterLoadType DEF Visible, Latest
<1>8. \A s \in Thread : s # t => view'[s] = view[s] /\ load'[s] = load[s]
    BY <1>2, <1>5 DEF MemTypeOK, TypeInv, TypeOK
<1>9. load'[t].tail = i
    BY <1>2 DEF TypeInv, TypeOK
<1>10. \A s \in Thread, l \in Location : view'[s][l] \in Nat
    BY <1>2, <1>5, <1>7 DEF MemTypeOK, View
<1>11. CounterInv'
  <2>1. /\ pc'[Producer] = "push_publish" => pc[Producer] = "push_publish"
        /\ pc'[Consumer] = "pop_release" => pc[Consumer] = "pop_release"
    BY <1>4
  <2>2. pc'[Producer] = "push_publish" => view'[Producer]["writes"] > Head_
    BY <1>5, <1>6, <1>10, <2>1, Bounds DEF CounterInv
  <2>3. pc'[Consumer] = "pop_release" => view'[Consumer]["reads"] > Tail_
    BY <1>5, <1>6, <1>10, <2>1, Bounds DEF CounterInv
  <2>. QED
    BY <1>3, <1>5, <1>6, <2>2, <2>3 DEF CounterInv
<1>12. CacheInv'
  <2>1. tail_cache <= view'[Producer]["tail"] /\ head_cache <= view'[Consumer]["head"]
    BY <1>5, <1>6, <1>10, Bounds DEF RingInv, CacheInv
  <2>. QED
    BY <1>3, <1>4, <1>6, <2>1 DEF RingInv, CacheInv
<1>13. ContentInv'
    BY <1>3, <1>4, <1>6 DEF RingInv, ContentInv
<1>14. SizeInv'
  <2>1. load'[t].tail <= view'[t]["head"]
    BY <1>6, <1>7, <1>9, <1>10 DEF GoodView
  <2>2. t = Consumer => load'[t].tail = Tail_
    BY <1>5, <1>6, <1>7, <1>9, Bounds DEF Tail_
  <2>3. t = Producer => tail_cache <= load'[t].tail /\ load'[t].tail <= Latest("tail")
    BY <1>5, <1>6, <1>7, <1>9, Bounds DEF RingInv, CacheInv
  <2>. QED
    BY <1>3, <1>4, <1>6, <1>8, <2>1, <2>2, <2>3 DEF RingInv, SizeInv
<1>. QED
    BY <1>6, <1>11, <1>12, <1>13, <1>14 DEF RingInv

LEMMA SizeSecondInv ==
    ASSUME TypeInv, RingInv, NEW t \in Thread, SizeSecond(t)
    PROVE  RingInv'
<1>. USE Locations
<1>1. SecondLoad = "head"
    BY DEF SecondLoad, SizeLoads
<1>2. PICK i \in Visible(t, "head") :
        /\ view' = [view EXCEPT ![t] = AfterLoad(t, "head", i, "acquire")]
        /\ load' = [load EXCEPT ![t] = [load[t] EXCEPT !.head = i]]
    BY <1>1 DEF SizeSecond, SizeLoadOrder
<1>3. /\ pc[t] = "size_second"
      /\ UNCHANGED <<mem, slots, tail_cache, head_cache, item, out, pushed, popped>>
    BY DEF SizeSecond
<1>4. pc'[t] = "size_done" /\ \A s \in Thread : s # t => pc'[s] = pc[s]
    BY GotoStep DEF SizeSecond
<1>5. /\ MemTypeOK /\ ViewInv /\ CounterInv
      /\ \A s \in Thread, l \in Location : view[s][l] \in Nat
    BY DEF TypeInv, TypeOK, MemTypeOK, View, RingInv
<1>6. /\ ViewInv'
      /\ Head_' = Head_ /\ Tail_' = Tail_
      /\ Latest("head")' = Latest("head") /\ Latest("tail")' = Latest("tail")
      /\ \A s \in Thread, m \in Location : view[s][m] <= view'[s][m]
      /\ view'[t]["head"] = i /\ i <= Latest("head")
    BY <1>2, <1>3, <1>5, LoadStep
<1>7. /\ i \in Nat /\ view[t]["head"] <= i
      /\ AfterLoad(t, "head", i, "acquire") \in View
    BY <1>5, AfterLoadType DEF Visible, Latest
<1>8. \A s \in Thread : s # t => view'[s] = view[s] /\ load'[s] = load[s]
    BY <1>2, <1>5 DEF MemTypeOK, TypeInv, TypeOK
<1>9. load'[t].head = i /\ load'[t].tail = load[t].tail /\ load[t].tail \in Nat
    BY <1>2 DEF TypeInv, TypeOK
<1>10. \A s \in Thread, l \in Location : view'[s][l] \in Nat
    BY <1>2, <1>5, <1>7 DEF MemTypeOK, View
<1>11. CounterInv'
  <2>1. /\ pc'[Producer] = "push_publish" => pc[Producer] = "push_publish"
        /\ pc'[Consumer] = "pop_release" => pc[Consumer] = "pop_release"
    BY <1>4
  <2>2. pc'[Producer] = "push_publish" => view'[Producer]["writes"] > Head_
    BY <1>5, <1>6, <1>10, <2>1, Bounds DEF CounterInv
  <2>3. pc'[Consumer] = "pop_release" => view'[Consumer]["reads"] > Tail_
    BY <1>5, <1>6, <1>10, <2>1, Bounds DEF CounterInv
  <2>. QED
    BY <1>3, <1>5, <1>6, <2>2, <2>3 DEF CounterInv
<1>12. CacheInv'
  <2>1. tail_cache <= view'[Producer]["tail"] /\ head_cache <= view'[Consumer]["head"]
    BY <1>5, <1>6, <1>10, Bounds DEF RingInv, CacheInv
  <2>. QED
    BY <1>3, <1>4, <1>6, <2>1 DEF RingInv, CacheInv
<1>13. ContentInv'
    BY <1>3, <1>4, <1>6 DEF RingInv, ContentInv
<1>14. SizeInv'
  <2>1. load'[t].tail <= load'[t].head
    BY <1>3, <1>5, <1>7, <1>9 DEF RingInv, SizeInv
  <2>2. t = Consumer => load'[t].tail = Tail_ /\ load'[t].head <= Latest("head")
    BY <1>3, <1>6, <1>9 DEF RingInv, SizeInv
  <2>3. t = Producer => /\ tail_cache <= load'[t].tail /\ load'[t].tail <= Latest("tail")
                        /\ load'[t].head = Head_
    <3>1. t = Producer => i = Head_
        BY <1>6, <1>7, Bounds DEF Head_
    <3>. QED
        BY <1>3, <1>9, <3>1 DEF RingInv, SizeInv
  <2>. QED
    BY <1>3, <1>4, <1>6, <1>8, <2>1, <2>2, <2>3 DEF RingInv, SizeInv
<1>. QED
    BY <1>6, <1>11, <1>12, <1>13, <1>14 DEF RingInv

LEMMA SizeReturnInv ==
    ASSUME TypeInv, RingInv, NEW t \in Thread, SizeReturn(t)
    PROVE  RingInv'
<1>. USE Locations
<1>1. /\ UNCHANGED <<mem, view, slots, tail_cache, head_cache, item, out, pushed, popped>>
      /\ load' = [load EXCEPT ![t] = [tail |-> 0, head |-> 0]]
      /\ pc[t] = "size_done"
    BY DEF SizeReturn
<1>2. pc'[t] = "idle" /\ \A s \in Thread : s # t => pc'[s] = pc[s]
    BY GotoStep DEF SizeReturn
<1>3. \A s \in Thread : s # t => load'[s] = load[s]
    BY <1>1 DEF TypeInv, TypeOK
<1>4. ViewInv' /\ Head_' = Head_ /\ Tail_' = Tail_
    BY <1>1 DEF RingInv, ViewInv, GoodView, Latest, Head_, Tail_
<1>5. CounterInv' /\ CacheInv' /\ ContentInv'
    BY <1>1, <1>2, <1>4 DEF RingInv, CounterInv, CacheInv, ContentInv, Latest
<1>6. SizeInv'
    BY <1>1, <1>2, <1>3, <1>4 DEF RingInv, SizeInv, Latest
<1>. QED
    BY <1>4, <1>5, <1>6 DEF RingInv

LEMMA RingInvNext == TypeInv /\ RingInv /\ [Next]_vars => RingInv'
<1>. SUFFICES ASSUME TypeInv, RingInv, [Next]_vars PROVE RingInv'
    OBVIOUS
<1>1. CASE push
    BY <1>1, PushBeginInv, PushRefreshInv, PushWriteInv, PushPublishInv DEF push
<1>2. CASE pop
    BY <1>2, PopBeginInv, PopRefreshInv, PopReadInv, PopReleaseInv DEF pop
<1>3. CASE \E t \in Thread : size(t)
    BY <1>3, SizeFirstInv, SizeSecondInv, SizeReturnInv DEF size
<1>4. CASE UNCHANGED vars
    BY <1>4 DEF vars, ringVars, RingInv, ViewInv, GoodView, CounterInv, CacheInv,
                ContentInv, SizeInv, Latest, Head_, Tail_
<1>. QED
    BY <1>1, <1>2, <1>3, <1>4 DEF Next

\* The inductive invariant holds of the ring.
THEOREM RingInvariant == Spec => [](TypeInv /\ RingInv)
    BY TypeInit, TypeNext, RingInvInit, RingInvNext, PTL DEF Spec

-----------------------------------------------------------------------------
(* What follows from it, for every capacity, counter width and thread set.  *)

\* push and pop never race on a slot.
THEOREM RaceFree == Spec => []NoDataRace
<1>1. TypeInv /\ RingInv => NoDataRace
  <2>. SUFFICES ASSUME TypeInv, RingInv PROVE NoDataRace
    OBVIOUS
  <2>. USE Locations
  <2>1. \A t \in Thread, l \in Location : view[t][l] \in Nat
    BY DEF TypeInv, TypeOK, MemTypeOK, View
  <2>2. /\ view[Producer]["tail"] <= view[Producer]["reads"]
        /\ view[Consumer]["head"] <= view[Consumer]["writes"]
    BY DEF RingInv, ViewInv, GoodView
  <2>3. pc[Producer] = "push_write" => view[Producer]["reads"] + Cap > Head_
    <3>1. /\ tail_cache <= view[Producer]["tail"]
          /\ pc[Producer] = "push_write" => Head_ < tail_cache + Cap
        BY DEF RingInv, CacheInv
    <3>. QED
        BY <2>1, <2>2, <3>1, Bounds, CapAssumption
  <2>4. pc[Consumer] = "pop_read" => view[Consumer]["writes"] > Tail_
    <3>1. /\ head_cache <= view[Consumer]["head"]
          /\ pc[Consumer] = "pop_read" => Tail_ < head_cache
        BY DEF RingInv, CacheInv
    <3>. QED
        BY <2>1, <2>2, <3>1, Bounds
  <2>. QED
    BY <2>3, <2>4 DEF NoDataRace
<1>. QED
    BY <1>1, RingInvariant, PTL

\* The ring never holds more than Cap items, however stale the cached counters
\* and however often the counters have wrapped.
THEOREM NeverOverruns == Spec => []NoOverrun
<1>1. TypeInv /\ RingInv => NoOverrun
    BY Bounds, CapAssumption DEF NoOverrun
<1>. QED
    BY <1>1, RingInvariant, PTL

\* pop returns the items of push in order, none lost, duplicated or torn.
THEOREM FifoOrder == Spec => []Fifo
<1>1. TypeInv /\ RingInv => Fifo
    BY Bounds DEF Fifo, RingInv, ContentInv
<1>. QED
    BY <1>1, RingInvariant, PTL

\* size_approx never underflows, whichever thread calls it.
THEOREM SizeSafe == Spec => []SizeNeverUnderflows
<1>1. RingInv => SizeNeverUnderflows
    BY DEF RingInv, SizeInv, SizeNeverUnderflows
<1>. QED
    BY <1>1, RingInvariant, PTL

\* What the consumer is told by ~empty_approx() is still true when it is told.
THEOREM ConsumerCanTrustNotEmpty == Spec => []ConsumerNotEmptyIsDefinite
<1>1. TypeInv /\ RingInv => ConsumerNotEmptyIsDefinite
  <2>. SUFFICES ASSUME TypeInv, RingInv, pc[Consumer] = "size_done",
                       ~empty_approx(Consumer)
                PROVE  Len(pushed) > Len(popped)
    BY DEF ConsumerNotEmptyIsDefinite
  <2>. DEFINE t == load[Consumer].tail
              h == load[Consumer].head
  <2>1. t \in Nat /\ h \in Nat
    BY Locations DEF TypeInv, TypeOK
  <2>2. t = Tail_ /\ h <= Latest("head") /\ t <= h
    BY Locations DEF RingInv, SizeInv
  <2>3. Diff(h, t) # 0
    BY DEF empty_approx, size_approx
  <2>. HIDE DEF t, h
  <2>4. h # t
    <3>1. 0 % SizeMod = 0
        BY ModSmall, CapAssumption
    <3>. QED
        BY <2>1, <2>3, <3>1 DEF Diff
  <2>. QED
    BY <2>1, <2>2, <2>4, Bounds
<1>. QED
    BY <1>1, RingInvariant, PTL

\* What the producer is told by empty_approx() is still true when it is told.
THEOREM ProducerCanTrustEmpty == Spec => []ProducerEmptyIsDefinite
<1>1. TypeInv /\ RingInv => ProducerEmptyIsDefinite
  <2>. SUFFICES ASSUME TypeInv, RingInv, pc[Producer] = "size_done",
                       empty_approx(Producer)
                PROVE  Len(pushed) = Len(popped)
    BY DEF ProducerEmptyIsDefinite
  <2>. DEFINE t == load[Producer].tail
              h == load[Producer].head
  <2>1. t \in Nat /\ h \in Nat
    BY Locations DEF TypeInv, TypeOK
  <2>2. tail_cache <= t /\ t <= Latest("tail") /\ h = Head_
    BY Locations DEF RingInv, SizeInv
  <2>3. (h - t) % SizeMod = 0
    BY DEF empty_approx, size_approx, Diff
  <2>. HIDE DEF t, h
  <2>4. h - t \in 0 .. SizeMod - 1
    BY <2>1, <2>2, Bounds, CapAssumption
  <2>5. h - t = 0
    BY <2>3, <2>4, ModSmall, CapAssumption
  <2>. QED
    BY <2>1, <2>2, <2>5, Bounds
<1>. QED
    BY <1>1, RingInvariant, PTL

-----------------------------------------------------------------------------
(* Refinement: the items pushed and not popped are a bounded FIFO queue.    *)

LEMMA SuffixOfAppend ==
    ASSUME NEW S, NEW s \in Seq(S), NEW x \in S, NEW m \in 1 .. Len(s) + 1
    PROVE  SubSeq(Append(s, x), m, Len(s) + 1) = Append(SubSeq(s, m, Len(s)), x)
<1>. DEFINE a == Append(s, x)
            l == SubSeq(a, m, Len(s) + 1)
            q == SubSeq(s, m, Len(s))
            r == Append(q, x)
            n == Len(s) - m + 1
<1>1. Len(s) \in Nat /\ m \in Int /\ n \in Nat
    OBVIOUS
<1>2. /\ \A i \in 1 .. Len(s) : a[i] = s[i] /\ s[i] \in S
      /\ a[Len(s) + 1] = x
    BY AppendProperties, ElementOfSeq
<1>3. l \in Seq(S) /\ Len(l) = n + 1 /\ \A i \in 1 .. n + 1 : l[i] = a[m + i - 1]
  <2>1. \A i \in m .. Len(s) + 1 : a[i] \in S
    BY <1>1, <1>2
  <2>. QED
    BY <1>1, <2>1, SubSeqProperties, SMTT(30)
<1>4. q \in Seq(S) /\ Len(q) = n /\ \A i \in 1 .. n : q[i] = s[m + i - 1]
  <2>1. \A i \in m .. Len(s) : s[i] \in S
    BY <1>1, <1>2
  <2>. QED
    BY <1>1, <2>1, SubSeqProperties
<1>5. /\ r \in Seq(S) /\ Len(r) = n + 1
      /\ \A i \in 1 .. n : r[i] = q[i]
      /\ r[n + 1] = x
    BY <1>4, AppendProperties
<1>. HIDE DEF a, l, q, r
<1>6. \A i \in 1 .. n + 1 : l[i] = r[i]
  <2>. SUFFICES ASSUME NEW i \in 1 .. n + 1 PROVE l[i] = r[i]
    OBVIOUS
  <2>1. CASE i = n + 1
    BY <1>1, <1>2, <1>3, <1>5, <2>1
  <2>2. CASE i # n + 1
    <3>1. i \in 1 .. n /\ m + i - 1 \in 1 .. Len(s)
        BY <1>1, <2>2
    <3>. QED
        BY <1>2, <1>3, <1>4, <1>5, <3>1
  <2>. QED
    BY <2>1, <2>2
<1>7. l = r
    BY <1>3, <1>5, <1>6, SeqEqual
<1>. QED
    BY <1>7 DEF a, l, q, r

LEMMA RefinementInit == Init => Fifo_!Init
<1>. SUFFICES ASSUME Init PROVE Fifo_!Init
    OBVIOUS
<1>1. pushed = <<>> /\ popped = <<>>
    BY DEF Init, RingInit
<1>2. SubSeq(pushed, Len(popped) + 1, Len(pushed)) = <<>>
    BY <1>1, SubSeqEmpty
<1>. QED
    BY <1>1, <1>2 DEF Fifo_!Init

LEMMA RefinementNext ==
    TypeInv /\ RingInv /\ [Next]_vars => [Fifo_!Next]_(Fifo_!vars)
<1>. SUFFICES ASSUME TypeInv, RingInv, [Next]_vars PROVE [Fifo_!Next]_(Fifo_!vars)
    OBVIOUS
<1>. DEFINE T == Len(popped)
            H == Len(pushed)
<1>1. T \in Nat /\ H \in Nat /\ T <= H /\ H <= T + Cap /\ pushed \in Seq(Item)
    BY Bounds, CapAssumption DEF TypeInv, TypeOK
<1>2. CASE PushPublish
  <2>1. item \in Item /\ pushed' = Append(pushed, item) /\ popped' = popped
    BY <1>2 DEF PushPublish, TypeInv, ItemInHand
  <2>2. Len(pushed') = H + 1
    BY <1>1, <2>1
  <2>3. SubSeq(pushed', T + 1, H + 1) = Append(SubSeq(pushed, T + 1, H), item)
    <3>1. T + 1 \in 1 .. Len(pushed) + 1
        BY <1>1
    <3>2. SubSeq(Append(pushed, item), T + 1, Len(pushed) + 1)
            = Append(SubSeq(pushed, T + 1, Len(pushed)), item)
        BY <1>1, <2>1, <3>1, SuffixOfAppend, Zenon
    <3>. QED
        BY <2>1, <3>2
  <2>4. Len(SubSeq(pushed, T + 1, H)) < Cap
    <3>1. H < T + Cap
        BY <1>1, <1>2, Bounds, CapAssumption DEF PushPublish, RingInv, CacheInv
    <3>2. \A i \in T + 1 .. H : pushed[i] \in Item
        BY <1>1, ElementOfSeq
    <3>3. Len(SubSeq(pushed, T + 1, H)) = IF T + 1 <= H THEN H - (T + 1) + 1 ELSE 0
        BY <1>1, <3>2, SubSeqProperties
    <3>. QED
        BY <1>1, <3>1, <3>3, CapAssumption
  <2>5. Fifo_!Put(item)
    BY <2>1, <2>2, <2>3, <2>4 DEF Fifo_!Put
  <2>. QED
    BY <2>1, <2>5 DEF Fifo_!Next
<1>3. CASE PopRelease
  <2>1. popped' = Append(popped, out) /\ pushed' = pushed
    BY <1>3 DEF PopRelease
  <2>2. out = pushed[T + 1] /\ T < H
    BY <1>3, Bounds DEF PopRelease, RingInv, ContentInv, CacheInv
  <2>3. Len(popped') = T + 1
    BY <2>1 DEF TypeInv, TypeOK
  <2>4. /\ Head(SubSeq(pushed, T + 1, H)) = out
        /\ Tail(SubSeq(pushed, T + 1, H)) = SubSeq(pushed, T + 1 + 1, H)
    BY <1>1, <2>2, HeadTailOfSubSeq
  <2>5. SubSeq(pushed, T + 1, H) # <<>>
    <3>1. \A i \in T + 1 .. H : pushed[i] \in Item
        BY <1>1, ElementOfSeq
    <3>2. Len(SubSeq(pushed, T + 1, H)) = IF T + 1 <= H THEN H - (T + 1) + 1 ELSE 0
        BY <1>1, <3>1, SubSeqProperties
    <3>3. Len(SubSeq(pushed, T + 1, H)) # 0
        BY <1>1, <2>2, <3>2
    <3>4. \A u : Len(u) # 0 => u # <<>>
        OBVIOUS
    <3>. QED
        BY <3>3, <3>4, Zenon
  <2>6. Fifo_!Get
    BY <1>1, <2>1, <2>3, <2>4, <2>5 DEF Fifo_!Get
  <2>. QED
    BY <2>6 DEF Fifo_!Next
<1>4. CASE UNCHANGED <<pushed, popped>>
    BY <1>4 DEF Fifo_!vars
<1>. QED
    BY <1>2, <1>3, <1>4
    DEF Next, push, pop, size, vars, ringVars, PushBegin, PushRefresh, PushWrite,
        PopBegin, PopRefresh, PopRead, SizeFirst, SizeSecond, SizeReturn

\* The ring implements the bounded FIFO queue: every push that returns true is
\* one Put, every pop that returns true one Get, all other steps are invisible.
THEOREM RingImplementsFifo == Spec => ImplementsFifo
    BY RingInvariant, RefinementInit, RefinementNext, PTL
    DEF Spec, ImplementsFifo, Fifo_!Spec

-----------------------------------------------------------------------------
(* The pipeline. *)

PushLabels == {"push_refresh", "push_write", "push_publish"}
PopLabels == {"pop_refresh", "pop_read", "pop_release"}

\* The producer pushes the stream, in order, and nothing else.
StreamInv ==
    /\ Len(pushed) <= Len(Input)
    /\ \A i \in 1 .. Len(pushed) : pushed[i] = Input[i]
    /\ pc[Producer] \in PushLabels =>
            Len(pushed) < Len(Input) /\ item = Input[Len(pushed) + 1]

\* The flag is stored at most once, and with it the whole stream is published.
FlagInv ==
    /\ Latest("producing") \in {0, 1}
    /\ Latest("producing") = 1 =>
            /\ pc[Producer] = "finished"
            /\ GoodView(mem["producing"][1])
            /\ mem["producing"][1]["head"] = Len(Input)

PhaseInv ==
    /\ phase = "drain" => view[Consumer]["head"] = Len(Input)
    /\ pc[Consumer] \in PopLabels => phase \in {"loop", "drain"}
    /\ phase \in {"join", "returned"} => Len(popped) = Len(Input)

PipelineInv == TypeInv /\ RingInv /\ StreamInv /\ FlagInv /\ PhaseInv

-----------------------------------------------------------------------------
LEMMA FlagLocation == "producing" \in Location
    BY FlagAssumption

LEMMA InputType == Input \in Seq(Item) /\ Len(Input) \in Nat
    BY InputAssumption

LEMMA PipelineInvInit == PipelineInit => PipelineInv
<1> SUFFICES ASSUME PipelineInit PROVE PipelineInv
    OBVIOUS
<1>1. TypeInv /\ RingInv
    BY TypeInit, RingInvInit DEF PipelineInit
<1>2. pushed = <<>> /\ pc[Producer] = "idle" /\ pc[Consumer] = "idle"
    BY Locations DEF PipelineInit, Init, RingInit
<1>3. StreamInv
    BY <1>2, InputType DEF StreamInv, PushLabels
<1>4. Latest("producing") = 0
    BY FlagLocation DEF PipelineInit, Init, MemInit, Latest
<1>5. FlagInv /\ PhaseInv
    BY <1>2, <1>4 DEF FlagInv, PhaseInv, PopLabels, PipelineInit
<1> QED BY <1>1, <1>3, <1>5 DEF PipelineInv

\* A step of the ring keeps the ring's invariant.
LEMMA RingStep ==
    ASSUME PipelineInv, [Next]_vars
    PROVE  TypeInv' /\ RingInv'
    BY TypeNext, RingInvNext DEF PipelineInv

\* The flag is untouched by a step that stores to neither it nor ends the producer.
LEMMA FlagKept ==
    ASSUME PipelineInv, TypeInv',
           mem'["producing"] = mem["producing"],
           Latest("head") <= Latest("head")', Latest("tail") <= Latest("tail")',
           pc[Producer] = "finished" => pc'[Producer] = "finished"
    PROVE  FlagInv'
<1>1. MemTypeOK /\ MemTypeOK' /\ FlagInv
    BY DEF PipelineInv, TypeInv, TypeOK
<1>2. Latest("producing")' = Latest("producing")
    BY DEF Latest
<1>3. ASSUME Latest("producing") = 1
      PROVE  GoodView(mem["producing"][1])'
  <2>1. mem["producing"][1] \in View
      BY <1>1, <1>3, FlagLocation DEF MemTypeOK, Latest
  <2>2. GoodView(mem["producing"][1])
      BY <1>1, <1>3 DEF FlagInv
  <2> DEFINE v == mem["producing"][1]
  <2>3. mem'["producing"][1] = v
      OBVIOUS
  <2> HIDE DEF v
  <2>4. v \in View /\ GoodView(v)
      BY <2>1, <2>2 DEF v
  <2>5. v["tail"] <= v["head"] /\ v["head"] <= v["writes"] /\ v["tail"] <= v["reads"]
        /\ v["head"] <= Latest("head") /\ v["tail"] <= Latest("tail")
      BY <2>4 DEF GoodView
  <2>6. /\ Latest("head") \in Nat /\ Latest("tail") \in Nat
        /\ Latest("head")' \in Nat /\ Latest("tail")' \in Nat
        /\ v["head"] \in Nat /\ v["tail"] \in Nat
    <3>1. v["head"] \in Nat /\ v["tail"] \in Nat
        BY <2>4, Locations DEF View
    <3>2. Latest("head") \in Nat /\ Latest("tail") \in Nat
        BY <1>1, Locations DEF MemTypeOK, Latest
    <3>3. Latest("head")' \in Nat /\ Latest("tail")' \in Nat
        BY <1>1, Locations DEF MemTypeOK, Latest
    <3> QED BY <3>1, <3>2, <3>3
  <2>7. v["head"] <= Latest("head")' /\ v["tail"] <= Latest("tail")'
      BY <2>5, <2>6
  <2> QED BY <2>3, <2>5, <2>7 DEF GoodView
<1> QED BY <1>1, <1>2, <1>3 DEF FlagInv

\* The length of a counter's history only grows by a store.
LEMMA StoreGrows ==
    ASSUME MemTypeOK, NEW t \in Thread, NEW l \in Location, NEW order, Store(t, l, order)
    PROVE  /\ Latest(l)' = Latest(l) + 1
           /\ \A k \in Location : k # l => mem'[k] = mem[k] /\ Latest(k)' = Latest(k)
           /\ \A s \in Thread : s # t => view'[s] = view[s]
           /\ view'[t] = [view[t] EXCEPT ![l] = Latest(l) + 1]
           /\ order = "release" => mem'[l] = Append(mem[l], view'[t])
<1> DEFINE own == [view[t] EXCEPT ![l] = Latest(l) + 1]
           published == IF order = "release" THEN own ELSE ZeroView
<1>1. view' = [view EXCEPT ![t] = own] /\ mem' = [mem EXCEPT ![l] = Append(mem[l], published)]
    BY DEF Store
<1>2. own \in View /\ published \in View /\ mem[l] \in Seq(View)
    BY DEF MemTypeOK, View, Latest, ZeroView
<1> HIDE DEF own, published
<1>3. mem'[l] = Append(mem[l], published) /\ Len(mem'[l]) = Len(mem[l]) + 1
    BY <1>1, <1>2 DEF MemTypeOK
<1>4. \A k \in Location : k # l => mem'[k] = mem[k]
    BY <1>1 DEF MemTypeOK
<1>5. view'[t] = own /\ \A s \in Thread : s # t => view'[s] = view[s]
    BY <1>1 DEF MemTypeOK
<1> QED BY <1>3, <1>4, <1>5 DEF Latest, own, published
-----------------------------------------------------------------------------
(* The producer. *)

LEMMA ProducerPushKeeps == PipelineInv /\ ProducerPush => PipelineInv'
<1> SUFFICES ASSUME PipelineInv, ProducerPush PROVE PipelineInv'
    OBVIOUS
<1> DEFINE x == Input[Len(pushed) + 1]
<1>1. x \in Item /\ PushBegin(x) /\ Len(pushed) < Len(Input) /\ phase' = phase
  <2>1. pushed \in Seq(Item) /\ Len(pushed) \in Nat
      BY DEF PipelineInv, TypeInv, TypeOK
  <2>2. Len(pushed) < Len(Input) /\ PushBegin(x) /\ phase' = phase
      BY DEF ProducerPush
  <2> QED BY <2>1, <2>2, InputType
<1> HIDE DEF x
<1>2. TypeInv' /\ RingInv'
    BY <1>1, RingStep DEF Next, push
<1>3. /\ pc[Producer] = "idle" /\ item' = x
      /\ UNCHANGED <<mem, view, pushed, popped>>
      /\ pc'[Producer] \in {"push_refresh", "push_write"} /\ pc'[Consumer] = pc[Consumer]
    BY <1>1, GotoStep, Locations DEF PushBegin, PipelineInv
<1>4. StreamInv'
    BY <1>1, <1>3 DEF PipelineInv, StreamInv, x
<1>5. FlagInv'
    BY <1>3 DEF PipelineInv, FlagInv, GoodView, Latest
<1>6. PhaseInv'
    BY <1>1, <1>3 DEF PipelineInv, PhaseInv
<1> QED BY <1>2, <1>4, <1>5, <1>6 DEF PipelineInv

LEMMA ProducerStepKeeps == PipelineInv /\ ProducerStep => PipelineInv'
<1> SUFFICES ASSUME PipelineInv, ProducerStep PROVE PipelineInv'
    OBVIOUS
<1>0. MemTypeOK /\ TypeInv /\ pushed \in Seq(Item) /\ Len(pushed) \in Nat /\ phase' = phase
    BY DEF PipelineInv, TypeInv, TypeOK, ProducerStep
<1>1. TypeInv' /\ RingInv'
    BY RingStep DEF ProducerStep, Next, push
<1>2. CASE PushRefresh \/ PushWrite
  <2>1. /\ pc[Producer] \in PushLabels /\ pc'[Consumer] = pc[Consumer]
        /\ UNCHANGED <<mem, pushed, popped>> /\ view'[Consumer] = view[Consumer]
        /\ \/ pc'[Producer] = "idle"
           \/ pc'[Producer] \in PushLabels /\ item' = item
    <3>1. CASE PushRefresh
        BY <1>0, <3>1, GotoStep, Locations DEF PushRefresh, PushLabels, MemTypeOK
    <3>2. CASE PushWrite
        BY <1>0, <3>2, GotoStep, Locations DEF PushWrite, PushLabels, MemTypeOK, Access
    <3> QED BY <1>2, <3>1, <3>2
  <2>2. StreamInv'
      BY <2>1 DEF PipelineInv, StreamInv, PushLabels
  <2>3. FlagInv'
      BY <2>1 DEF PipelineInv, FlagInv, GoodView, Latest, PushLabels
  <2>4. PhaseInv'
      BY <1>0, <2>1 DEF PipelineInv, PhaseInv
  <2> QED BY <1>1, <2>2, <2>3, <2>4 DEF PipelineInv
<1>3. CASE PushPublish
  <2>1. /\ pc[Producer] = "push_publish" /\ pc'[Producer] = "idle"
        /\ pc'[Consumer] = pc[Consumer] /\ pushed' = Append(pushed, item) /\ popped' = popped
        /\ Store(Producer, "head", PushStoreOrder)
      BY <1>0, <1>3, GotoStep, Locations DEF PushPublish
  <2>2. /\ Latest("head")' = Latest("head") + 1 /\ Latest("tail")' = Latest("tail")
        /\ mem'["producing"] = mem["producing"] /\ view'[Consumer] = view[Consumer]
      BY <1>0, <2>1, StoreGrows, Locations, FlagLocation
  <2>3. StreamInv'
    <3>1. item \in Item /\ item = Input[Len(pushed) + 1] /\ Len(pushed) < Len(Input)
        BY <2>1 DEF PipelineInv, TypeInv, ItemInHand, StreamInv, PushLabels
    <3>2. /\ Len(pushed') = Len(pushed) + 1 /\ pushed'[Len(pushed) + 1] = item
          /\ \A i \in 1 .. Len(pushed) : pushed'[i] = pushed[i]
        BY <1>0, <2>1, <3>1
    <3>3. \A i \in 1 .. Len(pushed) : pushed[i] = Input[i]
        BY DEF PipelineInv, StreamInv
    <3> QED BY <1>0, <2>1, <3>1, <3>2, <3>3, InputType DEF StreamInv, PushLabels
  <2>4. Latest("head") \in Nat /\ Latest("tail") \in Nat
      BY <1>0, Locations DEF MemTypeOK, Latest
  <2>5. FlagInv'
      BY <1>1, <2>1, <2>2, <2>4, FlagKept
  <2>6. PhaseInv'
      BY <1>0, <2>1, <2>2 DEF PipelineInv, PhaseInv
  <2> QED BY <1>1, <2>3, <2>5, <2>6 DEF PipelineInv
<1> QED BY <1>2, <1>3 DEF ProducerStep

\* The ring's invariant speaks of what is known of the ring: a step that only changes
\* what is known of the flag keeps it.
LEMMA FlagStoreKeepsRing ==
    ASSUME PipelineInv, ProducerStop
    PROVE  TypeInv' /\ RingInv'
<1> USE Locations, FlagLocation
<1>1. /\ TypeInv /\ MemTypeOK /\ RingInv /\ pc[Producer] = "idle"
      /\ Store(Producer, "producing", "release") /\ Goto(Producer, "finished")
      /\ UNCHANGED ringVars
    BY DEF PipelineInv, TypeInv, TypeOK, ProducerStop, FlagStoreOrder
<1>2. MemTypeOK'
    BY <1>1, StoreType
<1>3. /\ pc'[Producer] = "finished" /\ \A s \in Thread : s # Producer => pc'[s] = pc[s]
    BY <1>1, GotoStep
<1>4. TypeInv'
  <2>1. UNCHANGED <<slots, tail_cache, head_cache, item, out, load, pushed, popped>>
      BY <1>1 DEF ringVars
  <2>2. pc' = [pc EXCEPT ![Producer] = "finished"]
      BY <1>1 DEF Goto
  <2>3. TypeOK'
      BY <1>1, <1>2, <2>1, <2>2 DEF TypeInv, TypeOK
  <2>4. ItemInHand'
      BY <1>3 DEF ItemInHand
  <2> QED BY <2>3, <2>4 DEF TypeInv
<1>5. /\ mem'["head"] = mem["head"] /\ mem'["tail"] = mem["tail"]
      /\ Latest("head")' = Latest("head") /\ Latest("tail")' = Latest("tail")
      /\ \A s \in Thread : s # Producer => view'[s] = view[s]
      /\ view'[Producer] = [view[Producer] EXCEPT !["producing"] = Latest("producing") + 1]
  <2>1. /\ \A k \in Location : k # "producing" => mem'[k] = mem[k] /\ Latest(k)' = Latest(k)
        /\ \A s \in Thread : s # Producer => view'[s] = view[s]
        /\ view'[Producer] = [view[Producer] EXCEPT !["producing"] = Latest("producing") + 1]
      BY <1>1, StoreGrows
  <2>2. "head" # "producing" /\ "tail" # "producing"
      OBVIOUS
  <2> QED BY <2>1, <2>2
<1>6. \A s \in Thread, m \in RingLocation : view'[s][m] = view[s][m]
  <2>1. view[Producer] \in [Location -> Nat]
      BY <1>1 DEF MemTypeOK, View
  <2> QED BY <1>5, <2>1 DEF RingLocation
<1>7. ViewInv'
  <2>1. \A s \in Thread : GoodView(view[s])'
      BY <1>1, <1>5, <1>6 DEF RingInv, ViewInv, GoodView, RingLocation
  <2>2. \A l \in {"head", "tail"} : \A i \in 1 .. Latest(l) :
            GoodView(mem[l][i]) /\ mem[l][i][l] = i
      BY <1>1 DEF RingInv, ViewInv
  <2>3. \A v : GoodView(v) => GoodView(v)'
      BY <1>5 DEF GoodView
  <2>4. \A l \in {"head", "tail"} : mem'[l] = mem[l] /\ Latest(l)' = Latest(l)
      BY <1>5
  <2>5. \A l \in {"head", "tail"} : \A i \in 1 .. Latest(l)' :
            GoodView(mem[l][i])' /\ mem'[l][i][l] = i
      BY <1>5, <2>2, <2>4 DEF GoodView
  <2> QED BY <2>1, <2>5 DEF ViewInv
<1>8. /\ Head_' = Head_ /\ Tail_' = Tail_
      /\ view'[Producer]["tail"] = view[Producer]["tail"]
      /\ view'[Consumer] = view[Consumer]
    BY <1>5, <1>6 DEF Head_, Tail_, RingLocation
<1>9. CounterInv' /\ CacheInv' /\ ContentInv'
  <2>1. UNCHANGED <<slots, tail_cache, head_cache, item, out, load, pushed, popped>>
      BY <1>1 DEF ringVars
  <2>2. CounterInv'
      BY <1>1, <1>3, <1>5, <1>8, <2>1 DEF RingInv, CounterInv
  <2>3. CacheInv'
      BY <1>1, <1>3, <1>8, <2>1 DEF RingInv, CacheInv
  <2>4. ContentInv'
      BY <1>1, <1>3, <1>8, <2>1 DEF RingInv, ContentInv
  <2> QED BY <2>2, <2>3, <2>4
<1>10. SizeInv'
  <2>1. load' = load /\ tail_cache' = tail_cache
      BY <1>1 DEF ringVars
  <2>2. \A t \in Thread : view'[t]["head"] = view[t]["head"]
      BY <1>6 DEF RingLocation
  <2>3. \A t \in Thread : pc'[t] \in {"size_second", "size_done"} => pc'[t] = pc[t]
      BY <1>3
  <2> QED BY <1>1, <1>3, <1>5, <1>8, <2>1, <2>2, <2>3 DEF RingInv, SizeInv
<1> QED BY <1>4, <1>7, <1>9, <1>10 DEF RingInv

LEMMA ProducerStopKeeps == PipelineInv /\ ProducerStop => PipelineInv'
<1> SUFFICES ASSUME PipelineInv, ProducerStop PROVE PipelineInv'
    OBVIOUS
<1> USE Locations, FlagLocation
<1>1. TypeInv' /\ RingInv'
    BY FlagStoreKeepsRing
<1>2. /\ TypeInv /\ MemTypeOK /\ pc[Producer] = "idle" /\ Len(pushed) = Len(Input)
      /\ Store(Producer, "producing", "release") /\ Goto(Producer, "finished")
      /\ UNCHANGED <<ringVars, phase>>
    BY DEF PipelineInv, TypeInv, TypeOK, ProducerStop, FlagStoreOrder
<1>3. pc'[Producer] = "finished" /\ pc'[Consumer] = pc[Consumer]
    BY <1>2, GotoStep
<1>4. /\ Latest("producing")' = Latest("producing") + 1
      /\ view'[Consumer] = view[Consumer]
      /\ mem'["producing"] = Append(mem["producing"], view'[Producer])
    BY <1>2, StoreGrows
<1>5. Latest("producing") = 0
    BY <1>2 DEF PipelineInv, FlagInv
<1>6. mem'["producing"][1] = view'[Producer]
  <2>1. mem["producing"] \in Seq(View) /\ view'[Producer] \in View
      BY <1>1, <1>2 DEF MemTypeOK, TypeInv, TypeOK
  <2> QED BY <1>4, <1>5, <2>1 DEF Latest
<1>7. GoodView(view[Producer])' /\ view'[Producer]["head"] = Len(pushed')
    BY <1>1 DEF RingInv, ViewInv, CounterInv, Head_
<1>8. pushed' = pushed /\ popped' = popped /\ phase' = phase
    BY <1>2 DEF ringVars
<1>9. FlagInv'
  <2>1. GoodView(mem["producing"][1])'
      BY <1>6, <1>7 DEF GoodView
  <2> QED BY <1>2, <1>3, <1>4, <1>5, <1>6, <1>7, <1>8, <2>1 DEF FlagInv
<1>10. StreamInv'
    BY <1>3, <1>8 DEF PipelineInv, StreamInv, PushLabels
<1>11. PhaseInv'
    BY <1>3, <1>4, <1>8 DEF PipelineInv, PhaseInv
<1> QED BY <1>1, <1>9, <1>10, <1>11 DEF PipelineInv
-----------------------------------------------------------------------------
(* The consumer. *)

\* A consumer's step leaves the producer where it is and the stream as it was pushed.
LEMMA ConsumerFrame ==
    ASSUME PipelineInv, UNCHANGED <<item, pushed>>, pc'[Producer] = pc[Producer]
    PROVE  StreamInv'
    BY DEF PipelineInv, StreamInv

LEMMA ConsumerPopKeeps == PipelineInv /\ ConsumerPop => PipelineInv'
<1> SUFFICES ASSUME PipelineInv, ConsumerPop PROVE PipelineInv'
    OBVIOUS
<1>1. TypeInv' /\ RingInv'
    BY RingStep DEF ConsumerPop, Next, pop
<1>2. /\ phase \in {"loop", "drain"} /\ phase' = phase /\ pc'[Producer] = pc[Producer]
      /\ UNCHANGED <<mem, view, item, pushed, popped>>
    BY GotoStep, Locations DEF ConsumerPop, PopBegin, ringVars, PipelineInv
<1>3. StreamInv'
    BY <1>2, ConsumerFrame
<1>4. FlagInv'
    BY <1>2 DEF PipelineInv, FlagInv, GoodView, Latest
<1>5. PhaseInv'
    BY <1>2 DEF PipelineInv, PhaseInv
<1> QED BY <1>1, <1>3, <1>4, <1>5 DEF PipelineInv

\* The draining pop can only see the last head_: if it fails, nothing is left.
LEMMA ConsumerRefreshKeeps == PipelineInv /\ ConsumerRefresh => PipelineInv'
<1> SUFFICES ASSUME PipelineInv, ConsumerRefresh PROVE PipelineInv'
    OBVIOUS
<1> USE Locations
<1>1. TypeInv' /\ RingInv'
    BY RingStep DEF ConsumerRefresh, Next, pop
<1>2. /\ TypeInv /\ RingInv /\ MemTypeOK /\ ViewInv /\ CounterInv /\ StreamInv /\ PhaseInv
    BY DEF PipelineInv, TypeInv, TypeOK, RingInv
<1>3. PICK i \in Visible(Consumer, "head") :
          /\ view' = [view EXCEPT ![Consumer] = AfterLoad(Consumer, "head", i, "acquire")]
          /\ Goto(Consumer, IF LooksEmpty(Tail_, i) THEN "idle" ELSE "pop_read")
    BY DEF ConsumerRefresh, PopRefresh, PopLoadOrder
<1>4. /\ pc[Consumer] = "pop_refresh" /\ UNCHANGED <<mem, item, pushed, popped>>
      /\ phase' = IF pc'[Consumer] = "idle" THEN AfterFailedPop ELSE phase
    BY DEF ConsumerRefresh, PopRefresh
<1>5. /\ pc'[Consumer] = IF LooksEmpty(Tail_, i) THEN "idle" ELSE "pop_read"
      /\ pc'[Producer] = pc[Producer]
    BY <1>2, <1>3, GotoStep
<1>6. view'[Consumer]["head"] = i /\ i <= Latest("head")
    BY <1>2, <1>3, <1>4, LoadStep
<1>7. StreamInv'
    BY <1>4, <1>5, ConsumerFrame
<1>8. FlagInv'
    BY <1>4, <1>5 DEF PipelineInv, FlagInv, GoodView, Latest
<1>9. phase \in {"loop", "drain"}
    BY <1>2, <1>4 DEF PhaseInv, PopLabels
<1>10. phase = "drain" => i = Len(Input)
  <2>1. view[Consumer]["head"] \in Nat /\ Latest("head") \in Nat /\ Len(pushed) \in Nat
    <3>1. view[Consumer] \in [Location -> Nat] /\ pushed \in Seq(Item)
        BY <1>2 DEF MemTypeOK, View, TypeInv, TypeOK
    <3>2. Latest("head") \in Nat
        BY <1>2 DEF MemTypeOK, Latest
    <3> QED BY <3>1, <3>2
  <2>2. i \in Nat /\ view[Consumer]["head"] <= i
      BY <2>1 DEF Visible
  <2>3. i <= Len(Input)
      BY <1>2, <1>6, <2>1, <2>2, InputType DEF CounterInv, StreamInv
  <2> QED BY <1>2, <2>2, <2>3, InputType DEF PhaseInv
<1>11. LooksEmpty(Tail_, i) => Len(popped) = i
  <2>1. i \in Nat /\ Tail_ \in Nat /\ Len(popped) = Tail_ /\ Latest("head") = Head_
      BY <1>2, Bounds, AfterLoadType
  <2>2. Tail_ <= i /\ i <= Tail_ + Cap
    <3>1. Tail_ <= view[Consumer]["head"]
        BY <1>2 DEF ViewInv, GoodView, Tail_
    <3>2. view[Consumer]["head"] \in Nat /\ view[Consumer]["head"] <= i
        BY <1>2 DEF MemTypeOK, View, Visible, Latest
    <3>3. Head_ <= Tail_ + Cap /\ Head_ \in Nat
        BY <1>2, Bounds, CapAssumption
    <3> QED BY <1>6, <2>1, <3>1, <3>2, <3>3, CapAssumption
  <2> QED BY <2>1, <2>2, EmptyTest
<1>12. PhaseInv'
  <2>1. CASE LooksEmpty(Tail_, i)
      BY <1>4, <1>5, <1>6, <1>9, <1>10, <1>11, <2>1 DEF PhaseInv, AfterFailedPop, PopLabels
  <2>2. CASE ~LooksEmpty(Tail_, i)
      BY <1>4, <1>5, <1>6, <1>9, <1>10, <2>2 DEF PhaseInv
  <2> QED BY <2>1, <2>2
<1> QED BY <1>1, <1>7, <1>8, <1>12 DEF PipelineInv

LEMMA ConsumerReadKeeps == PipelineInv /\ ConsumerRead => PipelineInv'
<1> SUFFICES ASSUME PipelineInv, ConsumerRead PROVE PipelineInv'
    OBVIOUS
<1> USE Locations
<1>1. TypeInv' /\ RingInv'
    BY RingStep DEF ConsumerRead, Next, pop
<1>2. /\ TypeInv /\ MemTypeOK /\ ViewInv /\ PhaseInv
    BY DEF PipelineInv, TypeInv, TypeOK, RingInv
<1>3. /\ pc[Consumer] = "pop_read" /\ pc'[Producer] = pc[Producer] /\ phase' = phase
      /\ Access(Consumer, "reads") /\ UNCHANGED <<mem, item, pushed, popped>>
    BY <1>2, GotoStep DEF ConsumerRead, PopRead
<1>4. view'[Consumer]["head"] = view[Consumer]["head"]
    BY <1>2, <1>3, AccessStep
<1>5. StreamInv'
    BY <1>3, ConsumerFrame
<1>6. FlagInv'
    BY <1>3 DEF PipelineInv, FlagInv, GoodView, Latest
<1>7. PhaseInv'
    BY <1>2, <1>3, <1>4 DEF PhaseInv, PopLabels
<1> QED BY <1>1, <1>5, <1>6, <1>7 DEF PipelineInv

LEMMA ConsumerApplyKeeps == PipelineInv /\ ConsumerApply => PipelineInv'
<1> SUFFICES ASSUME PipelineInv, ConsumerApply PROVE PipelineInv'
    OBVIOUS
<1> USE Locations, FlagLocation
<1>1. TypeInv' /\ RingInv'
    BY RingStep DEF ConsumerApply, Next, pop
<1>2. TypeInv /\ MemTypeOK
    BY DEF PipelineInv, TypeInv, TypeOK
<1>3. /\ Store(Consumer, "tail", PopStoreOrder) /\ UNCHANGED <<item, pushed>>
      /\ phase' = "loop" /\ pc'[Producer] = pc[Producer]
    BY <1>2, GotoStep DEF ConsumerApply, PopRelease
<1>4. /\ mem'["producing"] = mem["producing"]
      /\ Latest("tail")' = Latest("tail") + 1 /\ Latest("head")' = Latest("head")
    BY <1>2, <1>3, StoreGrows
<1>5. Latest("head") \in Nat /\ Latest("tail") \in Nat
    BY <1>2 DEF MemTypeOK, Latest
<1>6. FlagInv'
    BY <1>1, <1>3, <1>4, <1>5, FlagKept
<1>7. StreamInv'
    BY <1>3, ConsumerFrame
<1>8. PhaseInv'
    BY <1>3 DEF PhaseInv
<1> QED BY <1>1, <1>6, <1>7, <1>8 DEF PipelineInv

\* Once the load of the flag has read the producer's store the consumer knows of every
\* push; what it knew it still knows, and it learns nothing inconsistent.
LEMMA CheckLearns ==
    ASSUME PipelineInv, NEW i \in Visible(Consumer, "producing")
    PROVE  LET w == AfterLoad(Consumer, "producing", i, "acquire")
           IN  /\ w \in View /\ GoodView(w)
               /\ \A m \in RingLocation : view[Consumer][m] <= w[m]
               /\ i = 1 => w["head"] = Len(Input)
<1> USE Locations, FlagLocation
<1> DEFINE v == view[Consumer]
           p == Published("producing", i)
           w == AfterLoad(Consumer, "producing", i, "acquire")
<1>1. MemTypeOK /\ ViewInv /\ CounterInv /\ StreamInv /\ FlagInv
    BY DEF PipelineInv, TypeInv, TypeOK, RingInv
<1>2. v \in View /\ GoodView(v) /\ Latest("head") \in Nat /\ Latest("tail") \in Nat
  <2>1. v \in View /\ GoodView(v)
      BY <1>1 DEF MemTypeOK, ViewInv
  <2>2. Latest("head") \in Nat /\ Latest("tail") \in Nat
      BY <1>1 DEF MemTypeOK, Latest
  <2> QED BY <2>1, <2>2
<1>3. i \in {0, 1} /\ (i = 1 => Latest("producing") = 1)
  <2>1. v["producing"] \in Nat /\ Latest("producing") \in {0, 1}
      BY <1>1, <1>2 DEF View, FlagInv
  <2> QED BY <2>1 DEF Visible
<1>4. w \in View /\ i \in Nat
    BY <1>1, AfterLoadType
<1>5. p \in View /\ GoodView(p) /\ (i = 1 => p["head"] = Len(Input))
  <2>1. CASE i = 0
      BY <1>2, <2>1 DEF Published, ZeroView, View, GoodView
  <2>2. CASE i = 1
    <3>1. mem["producing"] \in Seq(View) /\ Len(mem["producing"]) = 1
        BY <1>1, <1>3, <2>2 DEF MemTypeOK, Latest
    <3>2. p = mem["producing"][1] /\ p \in View
        BY <2>2, <3>1 DEF Published
    <3> QED BY <1>1, <1>3, <2>2, <3>2 DEF FlagInv
  <2> QED BY <1>3, <2>1, <2>2
<1>6. w = [m \in Location |-> IF (IF m = "producing" THEN i ELSE v[m]) >= p[m]
                                THEN (IF m = "producing" THEN i ELSE v[m]) ELSE p[m]]
    BY <1>2 DEF AfterLoad, Join, View
<1> HIDE DEF v, p, w
<1>7. \A m \in RingLocation : /\ v[m] <= w[m] /\ p[m] <= w[m]
                              /\ w[m] = v[m] \/ w[m] = p[m]
  <2>1. ASSUME NEW m \in RingLocation
        PROVE  v[m] <= w[m] /\ p[m] <= w[m] /\ (w[m] = v[m] \/ w[m] = p[m])
    <3>1. m \in Location /\ m # "producing" /\ v[m] \in Nat /\ p[m] \in Nat
        BY <1>2, <1>5, ThreadAssumption DEF View, RingLocation
    <3>2. w[m] = IF v[m] >= p[m] THEN v[m] ELSE p[m]
        BY <1>6, <3>1
    <3> QED BY <3>1, <3>2
  <2> QED BY <2>1
<1>8. \A m \in RingLocation : v[m] \in Nat /\ p[m] \in Nat /\ w[m] \in Nat
    BY <1>2, <1>4, <1>5, ThreadAssumption DEF View
<1>9. GoodView(w)
  <2>1. ASSUME NEW a \in RingLocation, NEW b \in RingLocation,
               v[a] <= v[b], p[a] <= p[b]
        PROVE  w[a] <= w[b]
      BY <1>7, <1>8, <2>1
  <2>2. ASSUME NEW a \in RingLocation, NEW c \in Nat, v[a] <= c, p[a] <= c
        PROVE  w[a] <= c
      BY <1>7, <1>8, <2>2
  <2>3. {"head", "tail", "writes", "reads"} = RingLocation
      BY DEF RingLocation
  <2>4. w["tail"] <= w["head"] /\ w["head"] <= w["writes"] /\ w["tail"] <= w["reads"]
      BY <1>2, <1>5, <2>1, <2>3 DEF GoodView
  <2>5. w["head"] <= Latest("head") /\ w["tail"] <= Latest("tail")
      BY <1>2, <1>5, <2>2, <2>3 DEF GoodView
  <2> QED BY <2>4, <2>5 DEF GoodView
<1>10. i = 1 => w["head"] = Len(Input)
  <2>1. Latest("head") <= Len(Input)
      BY <1>1 DEF CounterInv, StreamInv
  <2>2. v["head"] <= Latest("head")
      BY <1>2 DEF GoodView
  <2> QED BY <1>2, <1>5, <1>7, <1>8, <2>1, <2>2, InputType, SMTT(30) DEF RingLocation
<1> QED BY <1>4, <1>7, <1>9, <1>10 DEF v, w

\* The load of the flag tells the consumer more of the ring, and changes nothing in it.
LEMMA CheckKeepsRing ==
    ASSUME PipelineInv, ConsumerCheck
    PROVE  TypeInv' /\ RingInv'
<1> USE Locations
<1>1. PICK i \in Visible(Consumer, "producing") :
          view' = [view EXCEPT ![Consumer] = AfterLoad(Consumer, "producing", i, "acquire")]
    BY DEF ConsumerCheck, FlagLoadOrder
<1> DEFINE w == AfterLoad(Consumer, "producing", i, "acquire")
<1>2. /\ w \in View /\ GoodView(w) /\ \A m \in RingLocation : view[Consumer][m] <= w[m]
    BY CheckLearns
<1> HIDE DEF w
<1>3. /\ view' = [view EXCEPT ![Consumer] = w] /\ UNCHANGED <<mem, pc>>
      /\ UNCHANGED <<slots, tail_cache, head_cache, item, out, load, pushed, popped>>
    BY <1>1 DEF w, ConsumerCheck, ringVars
<1>4. TypeInv /\ RingInv /\ MemTypeOK
    BY DEF PipelineInv, TypeInv, TypeOK
<1>5. \A s \in Thread : view'[s] = IF s = Consumer THEN w ELSE view[s]
    BY <1>3, <1>4 DEF MemTypeOK
<1>6. TypeInv'
  <2>1. MemTypeOK'
      BY <1>2, <1>3, <1>4 DEF MemTypeOK
  <2> QED BY <1>3, <1>4, <2>1 DEF TypeInv, TypeOK, ItemInHand
<1>8. ViewInv'
  <2>1. \A s \in Thread : GoodView(view'[s])
      BY <1>2, <1>4, <1>5 DEF RingInv, ViewInv
  <2>2. \A s \in Thread : GoodView(view[s])'
      BY <1>3, <2>1 DEF GoodView, Latest
  <2> QED BY <1>3, <1>4, <2>2 DEF RingInv, ViewInv, GoodView, Latest
<1>9. \A s \in Thread, m \in RingLocation : view[s][m] \in Nat /\ view'[s][m] \in Nat
                                              /\ view[s][m] <= view'[s][m]
  <2>1. \A s \in Thread, m \in RingLocation : view[s][m] \in Nat /\ w[m] \in Nat
      BY <1>2, <1>4, ThreadAssumption DEF MemTypeOK, View
  <2> QED BY <1>2, <1>5, <2>1
<1>10. Head_' = Head_ /\ Tail_' = Tail_
  <2>1. Tail_ = Latest("tail") /\ Latest("tail") \in Nat
      BY <1>4 DEF RingInv, CounterInv, MemTypeOK, Latest
  <2>2. w["tail"] <= Latest("tail")
      BY <1>2 DEF GoodView
  <2>3. w["tail"] = Tail_
      BY <1>5, <1>9, <2>1, <2>2 DEF Tail_, RingLocation
  <2> QED BY <1>5, <2>3 DEF Head_, Tail_
<1>11. CounterInv'
  <2>1. view[Consumer]["reads"] <= view'[Consumer]["reads"] /\ Tail_ \in Nat
        /\ view[Consumer]["reads"] \in Nat /\ view'[Consumer]["reads"] \in Nat
      BY <1>4, <1>9, Bounds DEF RingLocation
  <2>2. view'[Producer] = view[Producer]
      BY <1>5
  <2> QED BY <1>3, <1>4, <1>10, <2>1, <2>2 DEF RingInv, CounterInv, Latest
<1>12. CacheInv'
  <2>1. view[Consumer]["head"] <= view'[Consumer]["head"] /\ head_cache \in Nat
        /\ view[Consumer]["head"] \in Nat /\ view'[Consumer]["head"] \in Nat
      BY <1>4, <1>9, Bounds DEF RingLocation
  <2>2. view'[Producer] = view[Producer]
      BY <1>5
  <2> QED BY <1>3, <1>4, <1>10, <2>1, <2>2 DEF RingInv, CacheInv
<1>13. ContentInv'
    BY <1>3, <1>4, <1>10 DEF RingInv, ContentInv
<1>14. SizeInv'
  <2>1. \A t \in Thread : /\ view[t]["head"] \in Nat /\ view'[t]["head"] \in Nat
                           /\ view[t]["head"] <= view'[t]["head"]
      BY <1>9 DEF RingLocation
  <2>2. \A t \in Thread : load[t].tail \in Nat
      BY <1>4 DEF TypeInv, TypeOK
  <2>3. \A t \in Thread : pc[t] = "size_second" => load[t].tail <= view'[t]["head"]
      BY <1>4, <2>1, <2>2 DEF RingInv, SizeInv
  <2> QED BY <1>3, <1>4, <1>10, <2>3 DEF RingInv, SizeInv, Latest
<1> QED BY <1>6, <1>8, <1>11, <1>12, <1>13, <1>14 DEF RingInv

LEMMA ConsumerCheckKeeps == PipelineInv /\ ConsumerCheck => PipelineInv'
<1> SUFFICES ASSUME PipelineInv, ConsumerCheck PROVE PipelineInv'
    OBVIOUS
<1>1. TypeInv' /\ RingInv'
    BY CheckKeepsRing
<1>2. PICK i \in Visible(Consumer, "producing") :
          /\ view' = [view EXCEPT ![Consumer] = AfterLoad(Consumer, "producing", i, "acquire")]
          /\ phase' = SeenFlag(i = 1)
    BY DEF ConsumerCheck, FlagLoadOrder
<1>3. phase = "check" /\ UNCHANGED <<mem, pc, item, pushed, popped>>
    BY DEF ConsumerCheck, ringVars
<1>4. i = 1 => AfterLoad(Consumer, "producing", i, "acquire")["head"] = Len(Input)
    BY CheckLearns
<1>5. view'[Consumer] = AfterLoad(Consumer, "producing", i, "acquire")
    BY <1>2, Locations DEF PipelineInv, TypeInv, TypeOK, MemTypeOK
<1>6. phase' \in {"loop", "drain"} /\ (phase' = "drain" => i = 1)
    BY <1>2 DEF SeenFlag
<1>7. PhaseInv'
    BY <1>4, <1>5, <1>6 DEF PhaseInv
<1>8. StreamInv'
    BY <1>3, ConsumerFrame
<1>9. FlagInv'
    BY <1>3 DEF PipelineInv, FlagInv, GoodView, Latest
<1> QED BY <1>1, <1>7, <1>8, <1>9 DEF PipelineInv

LEMMA RestKeeps ==
    ASSUME PipelineInv, ConsumerJoin \/ Terminated \/ UNCHANGED pvars
    PROVE  PipelineInv'
<1>1. UNCHANGED vars
    BY DEF ConsumerJoin, Terminated, pvars
<1>2. TypeInv' /\ RingInv'
    BY <1>1, RingStep
<1>3. UNCHANGED <<mem, view, pc, item, pushed, popped>>
    BY <1>1 DEF vars, ringVars
<1>4. StreamInv' /\ FlagInv'
    BY <1>3 DEF PipelineInv, StreamInv, FlagInv, GoodView, Latest
<1>5. PhaseInv'
  <2>1. phase' = phase \/ (phase = "join" /\ phase' = "returned")
      BY DEF ConsumerJoin, Terminated, pvars
  <2> QED BY <1>3, <2>1 DEF PipelineInv, PhaseInv
<1> QED BY <1>2, <1>4, <1>5 DEF PipelineInv

LEMMA PipelineInvNext == PipelineInv /\ [PipelineNext]_pvars => PipelineInv'
    BY ProducerPushKeeps, ProducerStepKeeps, ProducerStopKeeps, ConsumerPopKeeps,
       ConsumerRefreshKeeps, ConsumerReadKeeps, ConsumerApplyKeeps, ConsumerCheckKeeps,
       RestKeeps
    DEF PipelineNext, ProducerNext, ConsumerNext
-----------------------------------------------------------------------------
LEMMA AllApplied == PipelineInv => DrainedAtJoin
<1> SUFFICES ASSUME PipelineInv, phase \in {"join", "returned"} PROVE popped = Input
    BY DEF DrainedAtJoin
<1>1. /\ popped \in Seq(Item \cup {NoItem}) /\ pushed \in Seq(Item)
      /\ Len(popped) = Len(Input)
    BY DEF PipelineInv, TypeInv, TypeOK, PhaseInv
<1>2. Len(popped) <= Len(pushed)
    BY Bounds, CapAssumption DEF PipelineInv
<1>3. \A i \in 1 .. Len(popped) : popped[i] = pushed[i]
    BY DEF PipelineInv, RingInv, ContentInv
<1>4. \A i \in 1 .. Len(pushed) : pushed[i] = Input[i]
    BY DEF PipelineInv, StreamInv
<1>5. \A i \in 1 .. Len(Input) : popped[i] = Input[i]
    BY <1>1, <1>2, <1>3, <1>4
<1>6. Input \in Seq(Item \cup {NoItem})
    BY InputType
<1> QED BY <1>1, <1>5, <1>6, SeqEqual

\* The ring's invariant survives the composition with the flag.
THEOREM PipelineInvariant == PipelineSpec => []PipelineInv
    BY PipelineInvInit, PipelineInvNext, PTL DEF PipelineSpec

\* "every prior push is now visible (acquire)": in the draining pop the consumer's
\* view of head_ is exact.
THEOREM DrainIsExact == PipelineSpec => []DrainSeesEveryPush
<1>1. PipelineInv => DrainSeesEveryPush
    BY DEF PipelineInv, PhaseInv, DrainSeesEveryPush
<1> QED BY <1>1, PipelineInvariant, PTL

\* replay_pipelined never leaves a message behind: when the loop is left, what was
\* applied is the stream, for every stream and every ring.
THEOREM NothingLeftBehind == PipelineSpec => []DrainedAtJoin
    BY AllApplied, PipelineInvariant, PTL
-----------------------------------------------------------------------------
(* The pipelined replay takes no step the single-threaded one does not.      *)

LEMMA ApplyIsNext ==
    ASSUME PipelineInv, ConsumerApply
    PROVE  SingleThreaded!Apply
<1>1. /\ pc[Consumer] = "pop_release" /\ popped' = Append(popped, out) /\ phase' = "loop"
    BY DEF ConsumerApply, PopRelease
<1>2. phase \in {"loop", "drain"}
    BY <1>1 DEF PipelineInv, PhaseInv, PopLabels
<1>3. /\ out = pushed[Tail_ + 1] /\ Tail_ < head_cache
    BY <1>1 DEF PipelineInv, RingInv, ContentInv, CacheInv
<1>4. /\ Len(popped) = Tail_ /\ Len(pushed) = Head_ /\ head_cache <= Head_
      /\ Tail_ \in Nat /\ Head_ \in Nat /\ head_cache \in Nat
    BY Bounds DEF PipelineInv
<1>5. Len(popped) + 1 \in 1 .. Len(pushed) /\ Len(popped) < Len(pushed)
    BY <1>3, <1>4
<1>6. out = Input[Len(popped) + 1] /\ Len(popped) < Len(Input)
    BY <1>3, <1>4, <1>5, InputType DEF PipelineInv, StreamInv
<1>7. (phase = "returned") = FALSE /\ (phase' = "returned") = FALSE
    BY <1>1, <1>2
<1> QED BY <1>1, <1>6, <1>7 DEF SingleThreaded!Apply

LEMMA JoinIsReturn ==
    ASSUME PipelineInv, ConsumerJoin
    PROVE  SingleThreaded!Return
<1>1. phase = "join" /\ phase' = "returned" /\ popped' = popped
    BY DEF ConsumerJoin, vars, ringVars
<1>2. popped = Input
    BY <1>1, AllApplied DEF DrainedAtJoin
<1>3. ~(phase = "returned") /\ (phase' = "returned") = TRUE
    BY <1>1
<1> QED BY <1>1, <1>2, <1>3 DEF SingleThreaded!Return

\* Every other step is invisible: it neither applies a message nor returns.
LEMMA RestIsHidden ==
    ASSUME PipelineInv,
           \/ ProducerNext \/ ConsumerPop \/ ConsumerRefresh \/ ConsumerRead
           \/ ConsumerCheck \/ Terminated \/ UNCHANGED pvars
    PROVE  UNCHANGED SingleThreaded!vars
<1>1. popped' = popped
    BY DEF ProducerNext, ProducerPush, ProducerStep, ProducerStop, PushBegin, PushRefresh,
           PushWrite, PushPublish, ConsumerPop, PopBegin, ConsumerRefresh, PopRefresh,
           ConsumerRead, PopRead, ConsumerCheck, Terminated, pvars, vars, ringVars
<1>2. phase' = phase \/ (phase # "returned" /\ phase' # "returned")
  <2>1. CASE ConsumerRefresh
    <3>1. phase \in {"loop", "drain"}
        BY <2>1 DEF ConsumerRefresh, PopRefresh, PipelineInv, PhaseInv, PopLabels
    <3>2. phase' \in {"check", "join", phase}
        BY <2>1 DEF ConsumerRefresh, AfterFailedPop
    <3> QED BY <3>1, <3>2
  <2>2. CASE ConsumerCheck
      BY <2>2 DEF ConsumerCheck, SeenFlag
  <2>3. CASE ProducerNext \/ ConsumerPop \/ ConsumerRead \/ Terminated \/ UNCHANGED pvars
      BY <2>3 DEF ProducerNext, ProducerPush, ProducerStep, ProducerStop, ConsumerPop,
                  ConsumerRead, Terminated, pvars
  <2> QED BY <2>1, <2>2, <2>3
<1>3. (phase' = "returned") = (phase = "returned")
    BY <1>2
<1> QED BY <1>1, <1>3 DEF SingleThreaded!vars

\* The safety half of ImplementsReplay, for every stream and ring: what replay_pipelined
\* applies is what replay_single_threaded would, and it returns only after all of it.
THEOREM SameStepsAsReplay ==
    PipelineSpec => SingleThreaded!Init /\ [][SingleThreaded!Next]_(SingleThreaded!vars)
<1>1. PipelineInit => SingleThreaded!Init
    BY DEF PipelineInit, Init, RingInit, SingleThreaded!Init
<1>2. PipelineInv /\ [PipelineNext]_pvars => [SingleThreaded!Next]_(SingleThreaded!vars)
    BY ApplyIsNext, JoinIsReturn, RestIsHidden
    DEF PipelineNext, ConsumerNext, SingleThreaded!Next
<1> QED BY <1>1, <1>2, PipelineInvariant, PTL DEF PipelineSpec
=============================================================================
