--------------------------- MODULE OrderBookProofs ---------------------------
(***************************************************************************)
(* Proofs about OrderBook, for every set of references and prices and      *)
(* every pool size.  Whatever messages arrive, the book keeps its type and *)
(* its pool is never aliased.  While the feed conforms no slot leaks, the  *)
(* totals of the levels are the sums of the resting orders, and the book   *)
(* implements the reference book.                                          *)
(***************************************************************************)
EXTENDS OrderBook, FiniteSetTheorems, SequenceTheorems, TLAPS

\* The parts of a book as facts about a record b, so that they can be carried
\* through the operators from which an operation is made.
Fields(b) == DOMAIN b = {"bids", "asks", "slots", "free", "index"}

LevelsOK(levels) ==
    /\ DOMAIN levels \subseteq Price /\ IsFiniteSet(DOMAIN levels)
    /\ \A p \in DOMAIN levels : levels[p] \in 0 .. QtyMod - 1

SlotsOK(b) == b.slots \in Seq(Order) /\ b.free \in Seq(1 .. Len(b.slots))

IndexOK(b) ==
    /\ DOMAIN b.index \subseteq Ref
    /\ \A r \in DOMAIN b.index : b.index[r] \in 1 .. Len(b.slots)

\* NoAliasing, of any book.
Unaliased(b) ==
    /\ \A r, s \in DOMAIN b.index : b.index[r] = b.index[s] => r = s
    /\ \A i \in 1 .. Len(b.free) : \A r \in DOMAIN b.index : b.free[i] # b.index[r]
    /\ \A i, j \in 1 .. Len(b.free) : b.free[i] = b.free[j] => i = j

Sound(b) ==
    /\ Fields(b) /\ LevelsOK(b.bids) /\ LevelsOK(b.asks)
    /\ SlotsOK(b) /\ IndexOK(b) /\ Unaliased(b)

-----------------------------------------------------------------------------
(* Levels. *)

\* Inc keeps the totals of a side in Qty: they wrap as the code's do.
LEMMA IncType ==
    ASSUME NEW levels, NEW p \in Price, NEW q \in Nat, LevelsOK(levels)
    PROVE  LevelsOK(Inc(levels, p, q))
<1>1. At(levels, p) \in Nat
    BY QtyModAssumption DEF At, LevelsOK
<1>2. (At(levels, p) + q) % QtyMod \in 0 .. QtyMod - 1
    BY <1>1, QtyModAssumption
<1>3. IsFiniteSet(DOMAIN levels \cup {p})
    BY FS_AddElement DEF LevelsOK
<1>4. DOMAIN Inc(levels, p, q) = DOMAIN levels \cup {p}
    BY DEF Inc
<1> QED BY <1>2, <1>3, <1>4 DEF Inc, LevelsOK

\* So does Dec, whether the level stays, goes or was never there.
LEMMA DecType ==
    ASSUME NEW levels, NEW p \in Price, NEW q \in Nat, LevelsOK(levels)
    PROVE  LevelsOK(Dec(levels, p, q))
<1>1. At(levels, p) \in Nat
    BY QtyModAssumption DEF At, LevelsOK
<1>2. (At(levels, p) - q) % QtyMod \in 0 .. QtyMod - 1
    BY <1>1, QtyModAssumption
<1>3. IsFiniteSet(DOMAIN levels) /\ IsFiniteSet(DOMAIN levels \ {p})
    BY FS_RemoveElement DEF LevelsOK
<1>4. DOMAIN Dec(levels, p, q) \in {DOMAIN levels, DOMAIN levels \ {p}}
    BY DEF Dec
<1> QED BY <1>2, <1>3, <1>4 DEF Dec, LevelsOK

\* The level part of an operation leaves pool and index alone.
LEMMA IncLevelSound ==
    ASSUME NEW b, NEW side, NEW p \in Price, NEW q \in Nat, Sound(b)
    PROVE  Sound(inc_level(b, side, p, q))
<1> DEFINE c == inc_level(b, side, p, q)
<1>1. Fields(c) /\ c.slots = b.slots /\ c.free = b.free /\ c.index = b.index
    BY DEF Sound, Fields, inc_level
<1>2. c.bids \in {b.bids, Inc(b.bids, p, q)} /\ c.asks \in {b.asks, Inc(b.asks, p, q)}
    BY DEF Sound, Fields, inc_level
<1>3. LevelsOK(c.bids) /\ LevelsOK(c.asks)
    BY <1>2, IncType DEF Sound
<1>4. SlotsOK(c) /\ IndexOK(c) /\ Unaliased(c)
    BY <1>1 DEF Sound, SlotsOK, IndexOK, Unaliased
<1> QED BY <1>1, <1>3, <1>4 DEF Sound

LEMMA DecLevelSound ==
    ASSUME NEW b, NEW side, NEW p \in Price, NEW q \in Nat, Sound(b)
    PROVE  Sound(dec_level(b, side, p, q))
<1> DEFINE c == dec_level(b, side, p, q)
<1>1. Fields(c) /\ c.slots = b.slots /\ c.free = b.free /\ c.index = b.index
    BY DEF Sound, Fields, dec_level
<1>2. c.bids \in {b.bids, Dec(b.bids, p, q)} /\ c.asks \in {b.asks, Dec(b.asks, p, q)}
    BY DEF Sound, Fields, dec_level
<1>3. LevelsOK(c.bids) /\ LevelsOK(c.asks)
    BY <1>2, DecType DEF Sound
<1>4. SlotsOK(c) /\ IndexOK(c) /\ Unaliased(c)
    BY <1>1 DEF Sound, SlotsOK, IndexOK, Unaliased
<1> QED BY <1>1, <1>3, <1>4 DEF Sound
-----------------------------------------------------------------------------
(* The pool and the index. *)

\* Dec and inc change nothing but levels: what dec_level leaves of the rest.
LEMMA DecLevelKeeps ==
    ASSUME NEW b, NEW side, NEW p, NEW q, Fields(b)
    PROVE  LET c == dec_level(b, side, p, q)
           IN  c.slots = b.slots /\ c.free = b.free /\ c.index = b.index
BY DEF Fields, dec_level

\* alloc(), the write of the order and index_[ref] = h: the handle was free or is
\* new, so nobody else holds it; an entry that is overwritten only loses its slot.
LEMMA AllocSound ==
    ASSUME NEW b, NEW o \in Order, NEW ref \in Ref, Sound(b)
    PROVE  Sound(SetIndex(Alloc(b, o), ref, AllocHandle(b)))
<1> DEFINE h == AllocHandle(b)
           a == Alloc(b, o)
           c == SetIndex(a, ref, h)
<1>1. Fields(a) /\ a.bids = b.bids /\ a.asks = b.asks /\ a.index = b.index
    BY DEF Sound, Fields, Alloc
<1>2. Fields(c) /\ c.bids = b.bids /\ c.asks = b.asks /\ c.slots = a.slots /\ c.free = a.free
    BY <1>1 DEF Fields, SetIndex
<1>3. c.index = [r \in DOMAIN b.index \cup {ref} |-> IF r = ref THEN h ELSE b.index[r]]
    BY <1>1 DEF Fields, SetIndex
<1>4. CASE b.free # <<>>
  <2> DEFINE n == Len(b.free)
  <2>1. n \in Nat \ {0} /\ h = b.free[n] /\ h \in 1 .. Len(b.slots)
      BY <1>4 DEF Sound, SlotsOK, AllocHandle
  <2>2. a.slots = [b.slots EXCEPT ![h] = o] /\ a.free = SubSeq(b.free, 1, n - 1)
      BY <1>4 DEF Sound, Fields, Alloc
  <2>3. a.slots \in Seq(Order) /\ Len(a.slots) = Len(b.slots)
      BY <2>1, <2>2 DEF Sound, SlotsOK
  <2>4. /\ a.free \in Seq(1 .. Len(b.slots)) /\ Len(a.free) = n - 1
        /\ \A i \in 1 .. n - 1 : a.free[i] = b.free[i]
      BY <2>1, <2>2, SubSeqProperties, SMTT(30) DEF Sound, SlotsOK
  <2>5. SlotsOK(c) /\ IndexOK(c)
      BY <1>2, <1>3, <2>1, <2>3, <2>4 DEF Sound, SlotsOK, IndexOK
  <2>6. Unaliased(c)
    <3>1. \A r \in DOMAIN b.index : b.index[r] # h
        BY <2>1 DEF Sound, Unaliased
    <3>2. \A i \in 1 .. n - 1 : b.free[i] # h
        BY <2>1 DEF Sound, Unaliased
    <3>3. \A r, s \in DOMAIN c.index : c.index[r] = c.index[s] => r = s
        BY <1>3, <3>1 DEF Sound, Unaliased
    <3>4. Len(c.free) = n - 1 /\ \A i \in 1 .. n - 1 : i \in 1 .. n /\ c.free[i] = b.free[i]
        BY <1>2, <2>1, <2>4
    <3>5. \A i \in 1 .. n - 1 : \A r \in DOMAIN c.index : c.free[i] # c.index[r]
        BY <1>3, <3>2, <3>4 DEF Sound, Unaliased
    <3>6. \A i, j \in 1 .. n - 1 : c.free[i] = c.free[j] => i = j
        BY <3>4 DEF Sound, Unaliased
    <3> QED BY <3>3, <3>4, <3>5, <3>6 DEF Unaliased
  <2> QED BY <1>2, <2>5, <2>6 DEF Sound
<1>5. CASE b.free = <<>>
  <2>1. h = Len(b.slots) + 1 /\ a.slots = Append(b.slots, o) /\ a.free = b.free
      BY <1>5 DEF Sound, Fields, Alloc, AllocHandle
  <2>2. a.slots \in Seq(Order) /\ Len(a.slots) = h /\ h \in Nat
      BY <2>1 DEF Sound, SlotsOK
  <2>3. SlotsOK(c) /\ IndexOK(c)
      BY <1>2, <1>3, <1>5, <2>1, <2>2 DEF Sound, SlotsOK, IndexOK
  <2>4. Unaliased(c)
      BY <1>2, <1>3, <1>5, <2>1, <2>2 DEF Sound, SlotsOK, IndexOK, Unaliased
  <2> QED BY <1>2, <2>3, <2>4 DEF Sound
<1> QED BY <1>4, <1>5

\* free() and erase(): the handle goes from the index to the free list.
LEMMA EraseSound ==
    ASSUME NEW b, NEW ref, Sound(b), Knows(b, ref)
    PROVE  Sound(Erase(b, ref))
<1> DEFINE h == b.index[ref]
           n == Len(b.free)
           c == Erase(b, ref)
<1>1. /\ Fields(c) /\ c.bids = b.bids /\ c.asks = b.asks /\ c.slots = b.slots
      /\ c.free = Append(b.free, h)
      /\ c.index = [r \in DOMAIN b.index \ {ref} |-> b.index[r]]
    BY DEF Sound, Fields, Erase, Free
<1>2. h \in 1 .. Len(b.slots)
    BY DEF Sound, IndexOK, Knows
<1>3. /\ c.free \in Seq(1 .. Len(b.slots)) /\ Len(c.free) = n + 1 /\ n \in Nat
      /\ c.free[n + 1] = h
      /\ \A i \in 1 .. n : c.free[i] = b.free[i]
    BY <1>1, <1>2 DEF Sound, SlotsOK
<1>4. SlotsOK(c) /\ IndexOK(c)
    BY <1>1, <1>3 DEF Sound, SlotsOK, IndexOK
<1>5. Unaliased(c)
  <2>1. \A i \in 1 .. n : b.free[i] # h
      BY DEF Sound, Unaliased, Knows
  <2>2. \A r \in DOMAIN c.index : c.index[r] # h
      BY <1>1 DEF Sound, Unaliased, Knows
  <2>3. \A i \in 1 .. Len(c.free) : i \in 1 .. n \/ i = n + 1
      BY <1>3
  <2>4. \A r, s \in DOMAIN c.index : c.index[r] = c.index[s] => r = s
      BY <1>1 DEF Sound, Unaliased
  <2>5. \A i \in 1 .. Len(c.free) : \A r \in DOMAIN c.index : c.free[i] # c.index[r]
    <3>1. ASSUME NEW i \in 1 .. n, NEW r \in DOMAIN c.index
          PROVE  c.free[i] # c.index[r]
      <4>1. r \in DOMAIN b.index /\ c.index[r] = b.index[r]
          BY <1>1
      <4>2. c.free[i] = b.free[i]
          BY <1>3
      <4>3. b.free[i] # b.index[r]
          BY <4>1 DEF Sound, Unaliased
      <4> QED BY <4>1, <4>2, <4>3
    <3> QED BY <1>3, <2>2, <2>3, <3>1
  <2>6. \A i, j \in 1 .. Len(c.free) : c.free[i] = c.free[j] => i = j
      BY <1>3, <2>1, <2>3 DEF Sound, Unaliased
  <2> QED BY <2>4, <2>5, <2>6 DEF Unaliased
<1> QED BY <1>1, <1>4, <1>5 DEF Sound
-----------------------------------------------------------------------------
(* The operations. *)

\* add(), any reference, known or not, any side.
LEMMA AddSound ==
    ASSUME NEW b, NEW ref \in Ref, NEW side \in AnySide, NEW price \in Price,
           NEW shares \in Shares, Sound(b)
    PROVE  Sound(add(b, ref, side, price, shares))
<1> DEFINE o == [side |-> side, price |-> price, shares |-> shares]
<1>1. o \in Order
    BY DEF Order
<1>2. Sound(SetIndex(Alloc(b, o), ref, AllocHandle(b)))
    BY <1>1, AllocSound
<1>3. shares \in Nat
    BY MaxSharesAssumption DEF Shares
<1> QED BY <1>2, <1>3, IncLevelSound DEF add

\* What the index holds is an order of the pool.
LEMMA KnownOrder ==
    ASSUME NEW b, NEW ref, Sound(b), Knows(b, ref)
    PROVE  OrderOf(b, ref) \in Order
BY DEF Sound, SlotsOK, IndexOK, Knows, OrderOf

LEMMA RemoveSound ==
    ASSUME NEW b, NEW ref, Sound(b)
    PROVE  Sound(remove(b, ref))
<1> SUFFICES ASSUME Knows(b, ref) PROVE Sound(remove(b, ref))
    BY DEF remove
<1> DEFINE o == OrderOf(b, ref)
           c == dec_level(b, o.side, o.price, o.shares)
<1>1. o.price \in Price /\ o.shares \in Nat
    BY KnownOrder, MaxSharesAssumption DEF Order, Shares
<1>2. Sound(c)
    BY <1>1, DecLevelSound
<1>3. Knows(c, ref)
    BY DecLevelKeeps DEF Sound, Knows
<1> QED BY <1>2, <1>3, EraseSound DEF remove

\* reduce() takes shares off an order and its level, and erases it if none are left.
LEMMA ReduceParts ==
    ASSUME NEW b, NEW ref, NEW qty \in Shares, Sound(b), Knows(b, ref)
    PROVE  \E c : /\ Sound(c) /\ reduce(b, ref, qty) \in {c, Erase(c, ref)}
                  /\ Len(c.slots) = Len(b.slots) /\ c.free = b.free /\ c.index = b.index
<1> DEFINE o == OrderOf(b, ref)
           h == b.index[ref]
           d == IF qty < o.shares THEN qty ELSE o.shares
           a == [b EXCEPT !.slots[h].shares = @ - d]
           c == dec_level(a, o.side, o.price, d)
<1>1. o \in Order /\ h \in 1 .. Len(b.slots) /\ o = b.slots[h]
    BY KnownOrder DEF Sound, IndexOK, Knows, OrderOf
<1>2. o.price \in Price /\ d \in Nat /\ o.shares - d \in Shares
    BY <1>1, MaxSharesAssumption DEF Order, Shares
<1>3. /\ Fields(a) /\ a.bids = b.bids /\ a.asks = b.asks /\ a.free = b.free
      /\ a.index = b.index
      /\ a.slots = [b.slots EXCEPT ![h] = [o EXCEPT !.shares = @ - d]]
    BY <1>1 DEF Sound, Fields
<1>4. [o EXCEPT !.shares = @ - d] \in Order
    BY <1>1, <1>2 DEF Order
<1>5. a.slots \in Seq(Order) /\ Len(a.slots) = Len(b.slots)
    BY <1>1, <1>3, <1>4 DEF Sound, SlotsOK
<1>6. SlotsOK(a) /\ IndexOK(a) /\ Unaliased(a)
    BY <1>3, <1>5 DEF Sound, SlotsOK, IndexOK, Unaliased
<1>7. Sound(a)
    BY <1>3, <1>6 DEF Sound
<1>8. Sound(c)
    BY <1>2, <1>7, DecLevelSound
<1>9. Len(c.slots) = Len(b.slots) /\ c.free = b.free /\ c.index = b.index
  <2> HIDE DEF a, d, o
  <2>1. c.slots = a.slots /\ c.free = a.free /\ c.index = a.index
      BY <1>3, DecLevelKeeps
  <2> QED BY <1>3, <1>5, <2>1
<1>10. reduce(b, ref, qty) \in {c, Erase(c, ref)}
    BY DEF reduce
<1> HIDE DEF c
<1> QED BY <1>8, <1>9, <1>10

LEMMA ReduceSound ==
    ASSUME NEW b, NEW ref, NEW qty \in Shares, Sound(b)
    PROVE  Sound(reduce(b, ref, qty))
<1>1. CASE ~Knows(b, ref)
    BY <1>1 DEF reduce
<1>2. CASE Knows(b, ref)
    BY <1>2, ReduceParts, EraseSound DEF Knows
<1> QED BY <1>1, <1>2

LEMMA ReplaceSound ==
    ASSUME NEW b, NEW orig, NEW new \in Ref, NEW shares \in Shares, NEW price \in Price,
           Sound(b)
    PROVE  Sound(replace(b, orig, new, shares, price))
<1> SUFFICES ASSUME Knows(b, orig) PROVE Sound(replace(b, orig, new, shares, price))
    BY DEF replace
<1>1. OrderOf(b, orig).side \in AnySide
    BY KnownOrder DEF Order
<1> QED BY <1>1, RemoveSound, AddSound DEF replace

\* apply(), on any message.
LEMMA ApplySound ==
    ASSUME NEW b, NEW m \in Message, Sound(b)
    PROVE  Sound(apply(b, m))
<1>1. CASE m \in [type : {"add"}, ref : Ref, side : AnySide, price : Price, shares : Shares]
    BY <1>1, AddSound DEF apply
<1>2. CASE m \in [type : {"reduce"}, ref : Ref, shares : Shares]
    BY <1>2, ReduceSound DEF apply
<1>3. CASE m \in [type : {"remove"}, ref : Ref]
    BY <1>3, RemoveSound DEF apply
<1>4. CASE m \in [type : {"replace"}, ref : Ref, new : Ref, shares : Shares, price : Price]
    BY <1>4, ReplaceSound DEF apply
<1>5. CASE m \in [type : {"other"}]
    BY <1>5 DEF apply
<1> QED BY <1>1, <1>2, <1>3, <1>4, <1>5 DEF Message
-----------------------------------------------------------------------------
(* No slot leaks. *)

\* NoLeak, of any book.
Balanced(b) ==
    /\ IsFiniteSet(DOMAIN b.index)
    /\ Len(b.slots) - Len(b.free) = Cardinality(DOMAIN b.index)

\* Balance only depends on these.
LEMMA BalanceKept ==
    ASSUME NEW b, NEW c, Balanced(b), Len(c.slots) = Len(b.slots), c.free = b.free,
           c.index = b.index
    PROVE  Balanced(c)
BY DEF Balanced

LEMMA IncLevelKeeps ==
    ASSUME NEW b, NEW side, NEW p, NEW q, Fields(b)
    PROVE  LET c == inc_level(b, side, p, q)
           IN  c.slots = b.slots /\ c.free = b.free /\ c.index = b.index
BY DEF Fields, inc_level

\* One handle is taken and one reference is new.
LEMMA AllocBalanced ==
    ASSUME NEW b, NEW o \in Order, NEW ref \in Ref, Sound(b), Balanced(b), ~Knows(b, ref)
    PROVE  Balanced(SetIndex(Alloc(b, o), ref, AllocHandle(b)))
<1> DEFINE a == Alloc(b, o)
           c == SetIndex(a, ref, AllocHandle(b))
<1>1. Fields(a) /\ a.index = b.index
    BY DEF Sound, Fields, Alloc
<1>2. c.slots = a.slots /\ c.free = a.free /\ DOMAIN c.index = DOMAIN b.index \cup {ref}
    BY <1>1 DEF Fields, SetIndex
<1>3. Len(a.slots) - Len(a.free) = Len(b.slots) - Len(b.free) + 1
  <2>1. CASE b.free # <<>>
    <3>1. Len(b.free) \in Nat \ {0} /\ Len(b.slots) \in Nat
        BY <2>1 DEF Sound, SlotsOK
    <3>2. a.slots = [b.slots EXCEPT ![AllocHandle(b)] = o]
          /\ a.free = SubSeq(b.free, 1, Len(b.free) - 1)
        BY <2>1 DEF Sound, Fields, Alloc
    <3>3. Len(a.slots) = Len(b.slots)
        BY <3>2 DEF Sound, SlotsOK
    <3>4. Len(a.free) = Len(b.free) - 1
        BY <3>1, <3>2, SubSeqProperties DEF Sound, SlotsOK
    <3> QED BY <3>1, <3>3, <3>4
  <2>2. CASE b.free = <<>>
    <3>1. a.slots = Append(b.slots, o) /\ a.free = b.free
        BY <2>2 DEF Sound, Fields, Alloc
    <3> QED BY <3>1, <2>2 DEF Sound, SlotsOK
  <2> QED BY <2>1, <2>2
<1>4. /\ IsFiniteSet(DOMAIN b.index \cup {ref})
      /\ Cardinality(DOMAIN b.index \cup {ref}) = Cardinality(DOMAIN b.index) + 1
    BY FS_AddElement DEF Balanced, Knows
<1> QED BY <1>2, <1>3, <1>4 DEF Balanced

\* One handle is given back and one reference goes.
LEMMA EraseBalanced ==
    ASSUME NEW b, NEW ref, Sound(b), Balanced(b), Knows(b, ref)
    PROVE  Balanced(Erase(b, ref))
<1> DEFINE c == Erase(b, ref)
<1>1. /\ c.slots = b.slots /\ c.free = Append(b.free, b.index[ref])
      /\ DOMAIN c.index = DOMAIN b.index \ {ref}
    BY DEF Sound, Fields, Erase, Free
<1>2. Len(c.free) = Len(b.free) + 1 /\ Len(b.free) \in Nat /\ Len(b.slots) \in Nat
    BY <1>1 DEF Sound, SlotsOK
<1>3. /\ IsFiniteSet(DOMAIN b.index \ {ref})
      /\ Cardinality(DOMAIN b.index \ {ref}) = Cardinality(DOMAIN b.index) - 1
    BY FS_RemoveElement DEF Balanced, Knows
<1>4. Cardinality(DOMAIN b.index) \in Nat
    BY FS_CardinalityType DEF Balanced
<1>5. Len(b.slots) - Len(b.free) = Cardinality(DOMAIN b.index)
    BY DEF Balanced
<1> HIDE DEF c
<1>6. Len(c.slots) = Len(b.slots) /\ Cardinality(DOMAIN c.index) = Cardinality(DOMAIN b.index) - 1
    BY <1>1, <1>3
<1>7. Len(c.slots) - Len(c.free) = Cardinality(DOMAIN c.index)
  <2>1. ASSUME NEW l \in Nat, NEW f \in Nat, NEW k \in Nat, l - f = k
        PROVE  l - (f + 1) = k - 1
      BY <2>1
  <2>2. Len(b.slots) - (Len(b.free) + 1) = Cardinality(DOMAIN b.index) - 1
      BY <1>2, <1>4, <1>5, <2>1
  <2> QED BY <1>2, <1>6, <2>2
<1>8. Balanced(c)
    BY <1>1, <1>3, <1>7 DEF Balanced
<1> QED BY <1>8 DEF c

LEMMA AddBalanced ==
    ASSUME NEW b, NEW ref \in Ref, NEW side \in AnySide, NEW price \in Price,
           NEW shares \in Shares, Sound(b), Balanced(b), ~Knows(b, ref)
    PROVE  Balanced(add(b, ref, side, price, shares))
<1> SUFFICES ASSUME shares # 0 PROVE Balanced(add(b, ref, side, price, shares))
    BY DEF add
<1> DEFINE o == [side |-> side, price |-> price, shares |-> shares]
           c == SetIndex(Alloc(b, o), ref, AllocHandle(b))
<1>1. o \in Order
    BY DEF Order
<1>2. Balanced(c) /\ Fields(c)
    BY <1>1, AllocBalanced, AllocSound DEF Sound
<1> HIDE DEF c
<1>3. Balanced(inc_level(c, side, price, shares))
    BY <1>2, IncLevelKeeps, BalanceKept
<1> QED BY <1>3 DEF add, c

\* remove() takes the reference out of the index and changes nothing else in it.
LEMMA RemoveBalanced ==
    ASSUME NEW b, NEW ref, Sound(b), Balanced(b)
    PROVE  /\ Balanced(remove(b, ref))
           /\ \A r : Knows(remove(b, ref), r) => Knows(b, r) /\ r # ref
<1>1. CASE ~Knows(b, ref)
    BY <1>1 DEF remove
<1>2. CASE Knows(b, ref)
  <2> DEFINE o == OrderOf(b, ref)
             c == dec_level(b, o.side, o.price, o.shares)
  <2>1. o.price \in Price /\ o.shares \in Nat
      BY <1>2, KnownOrder, MaxSharesAssumption DEF Order, Shares
  <2>2. Sound(c)
      BY <2>1, DecLevelSound
  <2> HIDE DEF o
  <2>3. c.slots = b.slots /\ c.free = b.free /\ c.index = b.index
      BY DecLevelKeeps DEF Sound
  <2>4. Balanced(c) /\ Knows(c, ref)
      BY <1>2, <2>3, BalanceKept DEF Knows
  <2> HIDE DEF c
  <2>5. remove(b, ref) = Erase(c, ref)
      BY <1>2 DEF remove, c, o
  <2>6. DOMAIN Erase(c, ref).index = DOMAIN b.index \ {ref}
      BY <2>2, <2>3 DEF Sound, Fields, Erase, Free
  <2> QED BY <2>2, <2>4, <2>5, <2>6, EraseBalanced DEF Knows
<1> QED BY <1>1, <1>2

LEMMA ReduceBalanced ==
    ASSUME NEW b, NEW ref, NEW qty \in Shares, Sound(b), Balanced(b)
    PROVE  Balanced(reduce(b, ref, qty))
<1>1. CASE ~Knows(b, ref)
    BY <1>1 DEF reduce
<1>2. CASE Knows(b, ref)
    BY <1>2, ReduceParts, BalanceKept, EraseBalanced DEF Knows
<1> QED BY <1>1, <1>2

LEMMA ReplaceBalanced ==
    ASSUME NEW b, NEW orig, NEW new \in Ref, NEW shares \in Shares, NEW price \in Price,
           Sound(b), Balanced(b), ~Knows(b, new) \/ new = orig
    PROVE  Balanced(replace(b, orig, new, shares, price))
<1> SUFFICES ASSUME Knows(b, orig) PROVE Balanced(replace(b, orig, new, shares, price))
    BY DEF replace
<1>1. OrderOf(b, orig).side \in AnySide
    BY KnownOrder DEF Order
<1>2. Sound(remove(b, orig)) /\ Balanced(remove(b, orig)) /\ ~Knows(remove(b, orig), new)
    BY RemoveSound, RemoveBalanced
<1> QED BY <1>1, <1>2, AddBalanced DEF replace

\* A conforming message keeps the balance.
LEMMA ApplyBalanced ==
    ASSUME NEW m \in Message, Conforms(m), Sound(book), Balanced(book)
    PROVE  Balanced(apply(book, m))
<1>1. CASE m \in [type : {"add"}, ref : Ref, side : AnySide, price : Price, shares : Shares]
    BY <1>1, AddBalanced DEF apply, Conforms
<1>2. CASE m \in [type : {"reduce"}, ref : Ref, shares : Shares]
    BY <1>2, ReduceBalanced DEF apply
<1>3. CASE m \in [type : {"remove"}, ref : Ref]
    BY <1>3, RemoveBalanced DEF apply
<1>4. CASE m \in [type : {"replace"}, ref : Ref, new : Ref, shares : Shares, price : Price]
  <2>1. CASE Knows(book, m.ref)
      BY <1>4, <2>1, ReplaceBalanced DEF apply, Conforms
  <2>2. CASE ~Knows(book, m.ref)
      BY <1>4, <2>2 DEF apply, replace
  <2> QED BY <2>1, <2>2
<1>5. CASE m \in [type : {"other"}]
    BY <1>5 DEF apply
<1> QED BY <1>1, <1>2, <1>3, <1>4, <1>5 DEF Message
-----------------------------------------------------------------------------
(* Sums over a finite set.  Induction on the set is the existence of a       *)
(* smallest counterexample: the subsets of a finite set are well-founded.    *)

LEMMA LeastSubset ==
    ASSUME NEW S, IsFiniteSet(S), NEW C, C \subseteq SUBSET S, C # {}
    PROVE  \E T \in C : \A U \in C : U \subseteq T => U = T
<1>1. IsWellFoundedOn(StrictSubsetOrdering(S), FiniteSubsetsOf(S))
    BY FS_StrictSubsetOrderingWellFounded
<1>2. FiniteSubsetsOf(S) = SUBSET S
    BY FS_FiniteSubsetsOfFinite
<1>3. PICK T \in C : \A U \in C : ~ (<<U, T>> \in StrictSubsetOrdering(S))
    BY <1>1, <1>2, WFMin
<1> QED BY <1>3 DEF StrictSubsetOrdering

\* What holds of a set as soon as it holds of its proper subsets holds of every subset.
LEMMA SubsetInduction ==
    ASSUME NEW S, IsFiniteSet(S), NEW P,
           \A T \in SUBSET S : (\A U \in SUBSET T : U # T => U \in P) => T \in P
    PROVE  \A T \in SUBSET S : T \in P
<1> SUFFICES ASSUME (SUBSET S) \ P # {} PROVE FALSE
    OBVIOUS
<1> DEFINE C == (SUBSET S) \ P
<1>1. C \subseteq SUBSET S /\ C # {}
    OBVIOUS
<1>2. PICK T \in C : \A U \in C : U \subseteq T => U = T
  <2> HIDE DEF C
  <2> QED BY <1>1, LeastSubset
<1> QED BY <1>2

\* The element a sum takes off first.
Pick(s) == CHOOSE x \in s : TRUE

LEMMA PickIn == \A s : s # {} => Pick(s) \in s /\ s \ {Pick(s)} # s
    BY DEF Pick

\* h is the sum over every subset of T, by the recursion of SumFunctionOnSet.
Sums(f, T, h) ==
    h = [s \in SUBSET T |-> IF s = {} THEN 0 ELSE f[Pick(s)] + h[s \ {Pick(s)}]]

LEMMA SumIsChosen ==
    ASSUME NEW f, NEW S
    PROVE  SumFunctionOnSet(f, S) = (CHOOSE h : Sums(f, S, h))[S]
    BY DEF SumFunctionOnSet, FoldFunctionOnSet, MapThenFoldSet, Sums, Pick

LEMMA SumsUnfold ==
    ASSUME NEW f, NEW T, NEW h, Sums(f, T, h), NEW s \in SUBSET T
    PROVE  h[s] = IF s = {} THEN 0 ELSE f[Pick(s)] + h[s \ {Pick(s)}]
    BY DEF Sums

LEMMA SumsAgree ==
    ASSUME NEW f, NEW S, IsFiniteSet(S), NEW g, NEW h, NEW T \in SUBSET S,
           Sums(f, S, g), Sums(f, T, h)
    PROVE  g[T] = h[T]
<1> DEFINE P == {s \in SUBSET T : g[s] = h[s]}
<1>1. IsFiniteSet(T)
    BY FS_Subset
<1>2. ASSUME NEW s \in SUBSET T, \A u \in SUBSET s : u # s => u \in P
      PROVE  s \in P
  <2>1. s # {} => g[s \ {Pick(s)}] = h[s \ {Pick(s)}]
      BY <1>2, PickIn
  <2>2. s \in SUBSET S
      OBVIOUS
  <2>3. g[s] = h[s]
      BY <2>1, <2>2, SumsUnfold
  <2> QED BY <2>3
<1>3. \A s \in SUBSET T : s \in P
  <2> HIDE DEF P
  <2> QED BY <1>1, <1>2, SubsetInduction
<1> QED BY <1>3

\* The recursion has a solution.
LEMMA SumsExist ==
    ASSUME NEW f, NEW S, IsFiniteSet(S)
    PROVE  \E h : Sums(f, S, h)
<1> DEFINE P == {T \in SUBSET S : \E h : Sums(f, T, h)}
           V(u) == (CHOOSE h : Sums(f, u, h))[u]
<1>1. ASSUME NEW T \in SUBSET S, \A U \in SUBSET T : U # T => U \in P
      PROVE  T \in P
  <2> DEFINE h == [s \in SUBSET T |-> IF s = {} THEN 0 ELSE f[Pick(s)] + V(s \ {Pick(s)})]
  <2>1. ASSUME NEW u \in SUBSET T, u # T
        PROVE  V(u) = IF u = {} THEN 0 ELSE f[Pick(u)] + V(u \ {Pick(u)})
    <3> DEFINE k == CHOOSE g : Sums(f, u, g)
               d == u \ {Pick(u)}
    <3>1. Sums(f, u, k)
        BY <1>1, <2>1
    <3>2. V(u) = IF u = {} THEN 0 ELSE f[Pick(u)] + k[d]
        BY <3>1, SumsUnfold
    <3>3. ASSUME u # {} PROVE k[d] = V(d)
      <4>1. d \in SUBSET u /\ d \in SUBSET T /\ d # T
          BY <2>1, <3>3, PickIn
      <4>2. Sums(f, d, CHOOSE g : Sums(f, d, g))
          BY <1>1, <4>1
      <4>3. IsFiniteSet(u)
          BY FS_Subset
      <4> HIDE DEF d, k
      <4> QED BY <3>1, <4>1, <4>2, <4>3, SumsAgree
    <3> QED BY <3>2, <3>3
  <2>2. ASSUME NEW s \in SUBSET T, s # {} PROVE h[s \ {Pick(s)}] = V(s \ {Pick(s)})
    <3>1. s \ {Pick(s)} \in SUBSET T /\ s \ {Pick(s)} # T
        BY <2>2, PickIn
    <3> HIDE DEF V
    <3> QED BY <2>1, <3>1
  <2>3. h = [s \in SUBSET T |-> IF s = {} THEN 0 ELSE f[Pick(s)] + h[s \ {Pick(s)}]]
    <3> HIDE DEF V
    <3> QED BY <2>2
  <2>4. Sums(f, T, h)
    <3> HIDE DEF h
    <3> QED BY <2>3 DEF Sums
  <2> QED BY <2>4
<1>2. \A T \in SUBSET S : T \in P
  <2> HIDE DEF P
  <2> QED BY <1>1, SubsetInduction
<1> QED BY <1>2

\* What SumFunctionOnSet computes.
LEMMA SumUnfold ==
    ASSUME NEW f, NEW S, IsFiniteSet(S)
    PROVE  SumFunctionOnSet(f, S) =
               IF S = {} THEN 0 ELSE f[Pick(S)] + SumFunctionOnSet(f, S \ {Pick(S)})
<1> DEFINE g == CHOOSE h : Sums(f, S, h)
           T == S \ {Pick(S)}
           k == CHOOSE h : Sums(f, T, h)
<1>1. IsFiniteSet(T)
    BY FS_Subset
<1>2. Sums(f, S, g) /\ Sums(f, T, k)
    BY <1>1, SumsExist
<1>3. g[T] = k[T]
    BY <1>2, SumsAgree
<1>4. g[S] = IF S = {} THEN 0 ELSE f[Pick(S)] + g[T]
  <2> HIDE DEF g
  <2> QED BY <1>2, SumsUnfold
<1>5. SumFunctionOnSet(f, S) = g[S] /\ SumFunctionOnSet(f, T) = k[T]
    BY SumIsChosen
<1> QED BY <1>3, <1>4, <1>5

LEMMA SumEmpty == \A f : SumFunctionOnSet(f, {}) = 0
    BY SumUnfold, FS_EmptySet

\* Functions that agree on a set have the same sum over it.
LEMMA SumSame ==
    ASSUME NEW f, NEW g, NEW S, IsFiniteSet(S), \A x \in S : f[x] = g[x]
    PROVE  SumFunctionOnSet(f, S) = SumFunctionOnSet(g, S)
<1> DEFINE P == {T \in SUBSET S : SumFunctionOnSet(f, T) = SumFunctionOnSet(g, T)}
<1>1. ASSUME NEW T \in SUBSET S, \A U \in SUBSET T : U # T => U \in P
      PROVE  T \in P
  <2>1. IsFiniteSet(T)
      BY FS_Subset
  <2>2. T # {} => /\ f[Pick(T)] = g[Pick(T)]
                  /\ SumFunctionOnSet(f, T \ {Pick(T)}) = SumFunctionOnSet(g, T \ {Pick(T)})
      BY <1>1, PickIn
  <2> QED BY <2>1, <2>2, SumUnfold
<1>2. \A T \in SUBSET S : T \in P
  <2> HIDE DEF P
  <2> QED BY <1>1, SubsetInduction
<1> QED BY <1>2

LEMMA SumType ==
    ASSUME NEW f, NEW S, IsFiniteSet(S), \A x \in S : f[x] \in Nat
    PROVE  SumFunctionOnSet(f, S) \in Nat
<1> DEFINE P == {T \in SUBSET S : SumFunctionOnSet(f, T) \in Nat}
<1>1. ASSUME NEW T \in SUBSET S, \A U \in SUBSET T : U # T => U \in P
      PROVE  T \in P
  <2>1. IsFiniteSet(T)
      BY FS_Subset
  <2>2. T # {} => f[Pick(T)] \in Nat /\ SumFunctionOnSet(f, T \ {Pick(T)}) \in Nat
      BY <1>1, PickIn
  <2>3. SumFunctionOnSet(f, T) \in Nat
      BY <2>1, <2>2, SumUnfold
  <2> QED BY <2>3
<1>2. \A T \in SUBSET S : T \in P
  <2> HIDE DEF P
  <2> QED BY <1>1, SubsetInduction
<1> QED BY <1>2

\* Any element can be taken off first.
LEMMA SumRemove ==
    ASSUME NEW f, NEW S, IsFiniteSet(S), \A x \in S : f[x] \in Nat, NEW x \in S
    PROVE  SumFunctionOnSet(f, S) = f[x] + SumFunctionOnSet(f, S \ {x})
<1> DEFINE Sum(T) == SumFunctionOnSet(f, T)
           P == {T \in SUBSET S : \A y \in T : Sum(T) = f[y] + Sum(T \ {y})}
<1>1. ASSUME NEW T \in SUBSET S, \A U \in SUBSET T : U # T => U \in P
      PROVE  T \in P
  <2> SUFFICES ASSUME NEW y \in T PROVE Sum(T) = f[y] + Sum(T \ {y})
      OBVIOUS
  <2> DEFINE z == Pick(T)
  <2>1. z \in T /\ IsFiniteSet(T) /\ \A U \in SUBSET T : IsFiniteSet(U)
      BY PickIn, FS_Subset
  <2>2. Sum(T) = f[z] + Sum(T \ {z})
      BY <2>1, SumUnfold
  <2>3. CASE y = z
      BY <2>2, <2>3
  <2>4. CASE y # z
    <3>1. Sum(T \ {z}) = f[y] + Sum((T \ {z}) \ {y})
        BY <1>1, <2>1, <2>4
    <3>2. Sum(T \ {y}) = f[z] + Sum((T \ {y}) \ {z})
        BY <1>1, <2>1, <2>4
    <3>3. (T \ {z}) \ {y} = (T \ {y}) \ {z}
        OBVIOUS
    <3>4. Sum((T \ {y}) \ {z}) \in Nat /\ f[y] \in Nat /\ f[z] \in Nat
        BY <2>1, SumType
    <3> HIDE DEF z, Sum
    <3> QED BY <2>2, <3>1, <3>2, <3>3, <3>4
  <2> QED BY <2>3, <2>4
<1>2. \A T \in SUBSET S : T \in P
  <2> HIDE DEF P
  <2> QED BY <1>1, SubsetInduction
<1> QED BY <1>2
-----------------------------------------------------------------------------
(* The totals of the levels.  Orders(b) is what the index and the pool       *)
(* stand for, and LevelSum what invariant_ok() recomputes from it.           *)

Orders(b) == [r \in DOMAIN b.index |-> OrderOf(b, r)]

Qty(O) == [r \in DOMAIN O |-> O[r].shares]
Rests(O, s, p) == {r \in DOMAIN O : O[r].side = s /\ O[r].price = p}
LevelSum(O, s, p) == SumFunctionOnSet(Qty(O), Rests(O, s, p))

WithOrder(W, ref, o) ==
    [r \in DOMAIN W \cup {ref} |-> IF r = ref THEN o ELSE W[r]]
WithoutOrder(O, ref) == [r \in DOMAIN O \ {ref} |-> O[r]]

ProperOrder(o) == o \in Order /\ o.side \in Side /\ o.shares \in Nat \ {0}
Proper(O) == IsFiniteSet(DOMAIN O) /\ \A r \in DOMAIN O : ProperOrder(O[r])

\* The levels of one side show the orders that rest there, and no other level.
Quotes(L, O, s) ==
    /\ L = [p \in DOMAIN L |-> L[p]]
    /\ \A p : (p \in DOMAIN L <=> Rests(O, s, p) # {}) /\ At(L, p) = LevelSum(O, s, p)

LEMMA LevelSumType ==
    ASSUME NEW O, Proper(O), NEW s, NEW p
    PROVE  /\ LevelSum(O, s, p) \in Nat
           /\ Rests(O, s, p) = {} => LevelSum(O, s, p) = 0
           /\ \A r \in Rests(O, s, p) :
                 O[r].shares \in Nat \ {0} /\ LevelSum(O, s, p) >= O[r].shares
<1> DEFINE R == Rests(O, s, p)
<1>1. IsFiniteSet(R) /\ R \subseteq DOMAIN O
    BY FS_Subset DEF Proper, Rests
<1>2. \A r \in R : Qty(O)[r] \in Nat \ {0} /\ Qty(O)[r] = O[r].shares
    BY <1>1 DEF Proper, ProperOrder, Qty
<1> HIDE DEF R
<1>3. SumFunctionOnSet(Qty(O), R) \in Nat
    BY <1>1, <1>2, SumType
<1>4. ASSUME NEW r \in R PROVE SumFunctionOnSet(Qty(O), R) >= Qty(O)[r]
  <2>1. IsFiniteSet(R \ {r}) /\ R \ {r} \subseteq R
      BY <1>1, FS_Subset
  <2>2. SumFunctionOnSet(Qty(O), R \ {r}) \in Nat
      BY <1>2, <2>1, SumType
  <2>3. SumFunctionOnSet(Qty(O), R) = Qty(O)[r] + SumFunctionOnSet(Qty(O), R \ {r})
      BY <1>1, <1>2, SumRemove
  <2> QED BY <1>2, <2>2, <2>3
<1>5. LevelSum(O, s, p) = SumFunctionOnSet(Qty(O), R)
    BY DEF LevelSum, R
<1>6. R = {} => LevelSum(O, s, p) = 0
    BY <1>5, SumEmpty
<1> QED BY <1>2, <1>3, <1>4, <1>5, <1>6 DEF R

\* One order more is its shares more, at its own level and nowhere else.
LEMMA LevelSumWith ==
    ASSUME NEW W, Proper(W), NEW ref, ref \notin DOMAIN W, NEW o, ProperOrder(o)
    PROVE  LET O == WithOrder(W, ref, o)
           IN  /\ Proper(O)
               /\ \A s, p :
                   IF o.side = s /\ o.price = p
                     THEN /\ Rests(O, s, p) # {}
                          /\ LevelSum(O, s, p) = LevelSum(W, s, p) + o.shares
                     ELSE /\ Rests(O, s, p) = Rests(W, s, p)
                          /\ LevelSum(O, s, p) = LevelSum(W, s, p)
<1> DEFINE O == WithOrder(W, ref, o)
<1>1. DOMAIN O = DOMAIN W \cup {ref} /\ O[ref] = o /\ \A r \in DOMAIN W : O[r] = W[r]
    BY DEF WithOrder
<1> HIDE DEF O
<1>2. IsFiniteSet(DOMAIN O)
    BY <1>1, FS_AddElement DEF Proper
<1>3. Proper(O)
    BY <1>1, <1>2 DEF Proper
<1>4. ASSUME NEW s, NEW p
      PROVE  IF o.side = s /\ o.price = p
                THEN /\ Rests(O, s, p) # {}
                     /\ LevelSum(O, s, p) = LevelSum(W, s, p) + o.shares
                ELSE /\ Rests(O, s, p) = Rests(W, s, p)
                     /\ LevelSum(O, s, p) = LevelSum(W, s, p)
  <2> DEFINE R == Rests(W, s, p)
  <2>1. IsFiniteSet(R) /\ R \subseteq DOMAIN W
      BY FS_Subset DEF Proper, Rests
  <2>2. \A r \in R : Qty(O)[r] = Qty(W)[r] /\ Qty(W)[r] \in Nat
      BY <1>1, <2>1 DEF Qty, Proper, ProperOrder
  <2>3. SumFunctionOnSet(Qty(O), R) = SumFunctionOnSet(Qty(W), R)
    <3> HIDE DEF R
    <3> QED BY <2>1, <2>2, SumSame
  <2>4. SumFunctionOnSet(Qty(W), R) \in Nat
    <3> HIDE DEF R
    <3> QED BY <2>1, <2>2, SumType
  <2>5. CASE o.side = s /\ o.price = p
    <3>1. Rests(O, s, p) = R \cup {ref}
        BY <1>1, <2>5 DEF Rests
    <3>2. ref \notin R
        BY <2>1
    <3>3. Qty(O)[ref] = o.shares /\ o.shares \in Nat
        BY <1>1 DEF Qty, ProperOrder
    <3> HIDE DEF R
    <3>4. IsFiniteSet(R \cup {ref}) /\ (R \cup {ref}) \ {ref} = R
        BY <2>1, <3>2, FS_AddElement
    <3>5. \A r \in R \cup {ref} : Qty(O)[r] \in Nat
        BY <2>2, <3>3
    <3>6. SumFunctionOnSet(Qty(O), R \cup {ref}) = Qty(O)[ref] + SumFunctionOnSet(Qty(O), R)
        BY <3>4, <3>5, SumRemove
    <3>7. LevelSum(O, s, p) = SumFunctionOnSet(Qty(O), R \cup {ref})
        BY <3>1 DEF LevelSum
    <3>8. LevelSum(W, s, p) = SumFunctionOnSet(Qty(W), R)
        BY DEF LevelSum, R
    <3>9. LevelSum(O, s, p) = LevelSum(W, s, p) + o.shares
        BY <2>3, <2>4, <3>3, <3>6, <3>7, <3>8
    <3> QED BY <2>5, <3>1, <3>9
  <2>6. CASE ~(o.side = s /\ o.price = p)
    <3>1. Rests(O, s, p) = R
        BY <1>1, <2>6 DEF Rests
    <3>2. LevelSum(O, s, p) = LevelSum(W, s, p)
        BY <2>3, <3>1 DEF LevelSum
    <3> QED BY <2>6, <3>1, <3>2
  <2> QED BY <2>5, <2>6
<1> QED BY <1>3, <1>4 DEF O

\* inc_level() shows the order that arrives.
LEMMA IncQuotes ==
    ASSUME NEW W, Proper(W), NEW ref, ref \notin DOMAIN W, NEW o, ProperOrder(o),
           NEW L, Quotes(L, W, o.side), At(L, o.price) + o.shares < QtyMod
    PROVE  Quotes(Inc(L, o.price, o.shares), WithOrder(W, ref, o), o.side)
<1> DEFINE O == WithOrder(W, ref, o)
           M == Inc(L, o.price, o.shares)
           s == o.side
<1>1. LevelSum(W, s, o.price) \in Nat /\ o.shares \in Nat
    BY LevelSumType DEF ProperOrder
<1>2. At(L, o.price) = LevelSum(W, s, o.price)
    BY DEF Quotes
<1>3. (At(L, o.price) + o.shares) % QtyMod = At(L, o.price) + o.shares
    BY <1>1, <1>2, QtyModAssumption
<1>4. /\ M = [p \in DOMAIN M |-> M[p]] /\ DOMAIN M = DOMAIN L \cup {o.price}
      /\ M[o.price] = At(L, o.price) + o.shares
      /\ \A p \in DOMAIN L : p # o.price => M[p] = L[p]
    BY <1>3 DEF Inc
<1>5. ASSUME NEW p PROVE (p \in DOMAIN M <=> Rests(O, s, p) # {}) /\ At(M, p) = LevelSum(O, s, p)
  <2> HIDE DEF M, O
  <2>1. (p \in DOMAIN L <=> Rests(W, s, p) # {}) /\ At(L, p) = LevelSum(W, s, p)
      BY DEF Quotes
  <2>2. CASE p = o.price
    <3>1. Rests(O, s, p) # {} /\ LevelSum(O, s, p) = LevelSum(W, s, p) + o.shares
        BY <2>2, LevelSumWith DEF O
    <3> QED BY <1>2, <1>4, <2>2, <3>1 DEF At
  <2>3. CASE p # o.price
    <3>1. Rests(O, s, p) = Rests(W, s, p) /\ LevelSum(O, s, p) = LevelSum(W, s, p)
        BY <2>3, LevelSumWith DEF O
    <3> QED BY <1>4, <2>1, <2>3, <3>1 DEF At
  <2> QED BY <2>2, <2>3
<1> HIDE DEF M, O
<1>6. Quotes(M, O, s)
    BY <1>4, <1>5 DEF Quotes
<1> QED BY <1>6 DEF M, O

\* The orders of the other side do not matter.
LEMMA OtherSideQuotes ==
    ASSUME NEW W, Proper(W), NEW ref, ref \notin DOMAIN W, NEW o, ProperOrder(o),
           NEW L, NEW s, s # o.side
    PROVE  Quotes(L, W, s) <=> Quotes(L, WithOrder(W, ref, o), s)
<1> DEFINE O == WithOrder(W, ref, o)
<1>1. \A p : Rests(O, s, p) = Rests(W, s, p) /\ LevelSum(O, s, p) = LevelSum(W, s, p)
    BY LevelSumWith
<1> HIDE DEF O
<1>2. Quotes(L, W, s) <=> Quotes(L, O, s)
    BY <1>1 DEF Quotes
<1> QED BY <1>2 DEF O

\* dec_level() by all an order has left takes it off the levels.
LEMMA DecQuotes ==
    ASSUME NEW W, Proper(W), NEW ref, ref \notin DOMAIN W, NEW o, ProperOrder(o),
           NEW L, LevelsOK(L), Quotes(L, WithOrder(W, ref, o), o.side)
    PROVE  Quotes(Dec(L, o.price, o.shares), W, o.side)
<1> DEFINE O == WithOrder(W, ref, o)
           M == Dec(L, o.price, o.shares)
           s == o.side
           t == LevelSum(W, s, o.price)
<1>1. t \in Nat /\ o.shares \in Nat \ {0}
    BY LevelSumType DEF ProperOrder
<1>2. LevelSum(O, s, o.price) = t + o.shares /\ Rests(O, s, o.price) # {}
    BY LevelSumWith
<1>3. o.price \in DOMAIN L /\ At(L, o.price) = t + o.shares
    BY <1>2 DEF Quotes
<1>4. t + o.shares < QtyMod
    BY <1>1, <1>3, QtyModAssumption DEF At, LevelsOK
<1>5. (At(L, o.price) - o.shares) % QtyMod = t
    BY <1>1, <1>3, <1>4, QtyModAssumption
<1>6. t = 0 <=> Rests(W, s, o.price) = {}
    BY LevelSumType
<1>7. /\ M = [p \in DOMAIN M |-> M[p]]
      /\ DOMAIN M = IF t = 0 THEN DOMAIN L \ {o.price} ELSE DOMAIN L
      /\ t # 0 => M[o.price] = t
      /\ \A p \in DOMAIN L : p # o.price => M[p] = L[p]
    BY <1>3, <1>5 DEF Dec
<1>8. ASSUME NEW p PROVE (p \in DOMAIN M <=> Rests(W, s, p) # {}) /\ At(M, p) = LevelSum(W, s, p)
  <2> HIDE DEF M, O
  <2>1. CASE p = o.price
      BY <1>3, <1>6, <1>7, <2>1 DEF At
  <2>2. CASE p # o.price
    <3>1. Rests(O, s, p) = Rests(W, s, p) /\ LevelSum(O, s, p) = LevelSum(W, s, p)
        BY <2>2, LevelSumWith DEF O
    <3>2. (p \in DOMAIN L <=> Rests(O, s, p) # {}) /\ At(L, p) = LevelSum(O, s, p)
        BY DEF Quotes, O
    <3> QED BY <1>7, <2>2, <3>1, <3>2 DEF At
  <2> QED BY <2>1, <2>2
<1> HIDE DEF M
<1>9. Quotes(M, W, s)
    BY <1>7, <1>8 DEF Quotes
<1> QED BY <1>9 DEF M

\* dec_level() by less than the order has leaves the rest of it on its level.
LEMMA PartialDecQuotes ==
    ASSUME NEW W, Proper(W), NEW ref, ref \notin DOMAIN W, NEW o, ProperOrder(o),
           NEW L, LevelsOK(L), Quotes(L, WithOrder(W, ref, o), o.side),
           NEW d \in Nat, d < o.shares, NEW u, ProperOrder(u),
           u.side = o.side, u.price = o.price, u.shares = o.shares - d
    PROVE  Quotes(Dec(L, o.price, d), WithOrder(W, ref, u), o.side)
<1> DEFINE O == WithOrder(W, ref, o)
           U == WithOrder(W, ref, u)
           M == Dec(L, o.price, d)
           s == o.side
           t == LevelSum(W, s, o.price)
<1>1. t \in Nat /\ o.shares \in Nat \ {0}
    BY LevelSumType DEF ProperOrder
<1>2. LevelSum(O, s, o.price) = t + o.shares /\ Rests(O, s, o.price) # {}
    BY LevelSumWith
<1>3. LevelSum(U, s, o.price) = t + (o.shares - d) /\ Rests(U, s, o.price) # {}
    BY LevelSumWith
<1>4. o.price \in DOMAIN L /\ At(L, o.price) = t + o.shares
    BY <1>2 DEF Quotes
<1>5. t + o.shares < QtyMod
    BY <1>1, <1>4, QtyModAssumption DEF At, LevelsOK
<1>6. (At(L, o.price) - d) % QtyMod = t + (o.shares - d) /\ t + (o.shares - d) # 0
    BY <1>1, <1>4, <1>5, QtyModAssumption
<1>7. /\ M = [p \in DOMAIN M |-> M[p]] /\ DOMAIN M = DOMAIN L
      /\ M[o.price] = t + (o.shares - d)
      /\ \A p \in DOMAIN L : p # o.price => M[p] = L[p]
    BY <1>4, <1>6 DEF Dec
<1>8. ASSUME NEW p PROVE (p \in DOMAIN M <=> Rests(U, s, p) # {}) /\ At(M, p) = LevelSum(U, s, p)
  <2> HIDE DEF M, O, U
  <2>1. CASE p = o.price
      BY <1>3, <1>4, <1>7, <2>1 DEF At
  <2>2. CASE p # o.price
    <3>1. Rests(O, s, p) = Rests(W, s, p) /\ LevelSum(O, s, p) = LevelSum(W, s, p)
        BY <2>2, LevelSumWith DEF O
    <3>2. Rests(U, s, p) = Rests(W, s, p) /\ LevelSum(U, s, p) = LevelSum(W, s, p)
        BY <2>2, LevelSumWith DEF U
    <3>3. (p \in DOMAIN L <=> Rests(O, s, p) # {}) /\ At(L, p) = LevelSum(O, s, p)
        BY DEF Quotes, O
    <3> QED BY <1>7, <2>2, <3>1, <3>2, <3>3 DEF At
  <2> QED BY <2>1, <2>2
<1> HIDE DEF M, U
<1>9. Quotes(M, U, s)
    BY <1>7, <1>8 DEF Quotes
<1> QED BY <1>9 DEF M, U
-----------------------------------------------------------------------------
(* What each operation does to the orders, and that the levels follow.       *)

Good(b) ==
    /\ Sound(b) /\ Proper(Orders(b))
    /\ Quotes(b.bids, Orders(b), "B") /\ Quotes(b.asks, Orders(b), "S")

LevelsAt(b, side) == IF side = "B" THEN b.bids ELSE b.asks

\* The orders depend on the pool and the index only.
LEMMA OrdersKept ==
    ASSUME NEW b, NEW c, c.slots = b.slots, c.index = b.index
    PROVE  Orders(c) = Orders(b)
BY DEF Orders, OrderOf

LEMMA SetIndexOrders ==
    ASSUME NEW b, NEW o \in Order, NEW ref \in Ref, Sound(b)
    PROVE  LET c == SetIndex(Alloc(b, o), ref, AllocHandle(b))
           IN  Orders(c) = WithOrder(Orders(b), ref, o) /\ c.bids = b.bids /\ c.asks = b.asks
<1> DEFINE h == AllocHandle(b)
           a == Alloc(b, o)
           c == SetIndex(a, ref, h)
<1>1. Fields(a) /\ a.bids = b.bids /\ a.asks = b.asks /\ a.index = b.index
    BY DEF Sound, Fields, Alloc
<1>2. c.bids = b.bids /\ c.asks = b.asks /\ c.slots = a.slots
    BY <1>1 DEF Fields, SetIndex
<1>3. c.index = [r \in DOMAIN b.index \cup {ref} |-> IF r = ref THEN h ELSE b.index[r]]
    BY <1>1 DEF Fields, SetIndex
<1>4. a.slots[h] = o /\ \A r \in DOMAIN b.index : a.slots[b.index[r]] = b.slots[b.index[r]]
  <2>1. CASE b.free # <<>>
    <3>1. Len(b.free) \in 1 .. Len(b.free) /\ h = b.free[Len(b.free)] /\ h \in 1 .. Len(b.slots)
        BY <2>1 DEF Sound, SlotsOK, AllocHandle
    <3>2. a.slots = [b.slots EXCEPT ![h] = o]
        BY <2>1 DEF Sound, Fields, Alloc
    <3>3. \A r \in DOMAIN b.index : b.index[r] # h
        BY <3>1 DEF Sound, Unaliased
    <3> QED BY <3>1, <3>2, <3>3 DEF Sound, SlotsOK, IndexOK
  <2>2. CASE b.free = <<>>
    <3>1. h = Len(b.slots) + 1 /\ a.slots = Append(b.slots, o)
        BY <2>2 DEF Sound, Fields, Alloc, AllocHandle
    <3> QED BY <3>1 DEF Sound, SlotsOK, IndexOK
  <2> QED BY <2>1, <2>2
<1> HIDE DEF c, a, h
<1>5. DOMAIN Orders(c) = DOMAIN Orders(b) \cup {ref}
    BY <1>3 DEF Orders
<1>6. \A r \in DOMAIN Orders(b) \cup {ref} :
          Orders(c)[r] = IF r = ref THEN o ELSE Orders(b)[r]
    BY <1>2, <1>3, <1>4 DEF Orders, OrderOf
<1>7. Orders(c) = [r \in DOMAIN Orders(c) |-> Orders(c)[r]]
    BY DEF Orders
<1>8. Orders(c) = WithOrder(Orders(b), ref, o)
    BY <1>5, <1>6, <1>7 DEF WithOrder
<1> QED BY <1>2, <1>8 DEF c, a, h

LEMMA EraseOrders ==
    ASSUME NEW b, NEW ref, Sound(b), Knows(b, ref)
    PROVE  LET c == Erase(b, ref)
           IN  Orders(c) = WithoutOrder(Orders(b), ref) /\ c.bids = b.bids /\ c.asks = b.asks
<1> DEFINE c == Erase(b, ref)
<1>1. /\ c.bids = b.bids /\ c.asks = b.asks /\ c.slots = b.slots
      /\ c.index = [r \in DOMAIN b.index \ {ref} |-> b.index[r]]
    BY DEF Sound, Fields, Erase, Free
<1> HIDE DEF c
<1>2. Orders(c) = WithoutOrder(Orders(b), ref)
    BY <1>1 DEF Orders, OrderOf, WithoutOrder
<1> QED BY <1>1, <1>2 DEF c

\* A reference number can be taken out and put back.
LEMMA TakeOut ==
    ASSUME NEW O, Proper(O), NEW ref \in DOMAIN O, O = [r \in DOMAIN O |-> O[r]]
    PROVE  LET W == WithoutOrder(O, ref)
           IN  /\ Proper(W) /\ ref \notin DOMAIN W /\ DOMAIN W = DOMAIN O \ {ref}
               /\ ProperOrder(O[ref])
               /\ O = WithOrder(W, ref, O[ref])
<1> DEFINE W == WithoutOrder(O, ref)
<1>1. DOMAIN W = DOMAIN O \ {ref} /\ \A r \in DOMAIN W : W[r] = O[r]
    BY DEF WithoutOrder
<1> HIDE DEF W
<1>2. IsFiniteSet(DOMAIN W)
    BY <1>1, FS_Subset DEF Proper
<1>3. Proper(W) /\ ProperOrder(O[ref])
    BY <1>1, <1>2 DEF Proper
<1>4. O = WithOrder(W, ref, O[ref])
    BY <1>1 DEF WithOrder
<1> QED BY <1>1, <1>3, <1>4 DEF W

LEMMA KnownOut ==
    ASSUME NEW b, Good(b), NEW ref, Knows(b, ref)
    PROVE  LET W == WithoutOrder(Orders(b), ref)
           IN  /\ Proper(W) /\ ref \notin DOMAIN W /\ ProperOrder(OrderOf(b, ref))
               /\ Orders(b) = WithOrder(W, ref, OrderOf(b, ref))
<1> DEFINE O == Orders(b)
<1>1. ref \in DOMAIN O /\ O[ref] = OrderOf(b, ref) /\ O = [r \in DOMAIN O |-> O[r]]
    BY DEF Orders, Knows
<1>2. Proper(O)
    BY DEF Good
<1> HIDE DEF O
<1>3. LET W == WithoutOrder(O, ref)
      IN  /\ Proper(W) /\ ref \notin DOMAIN W /\ ProperOrder(O[ref])
          /\ O = WithOrder(W, ref, O[ref])
    BY <1>1, <1>2, TakeOut
<1> QED BY <1>1, <1>3 DEF O

\* An order that arrives: the levels of both sides.
LEMMA IncLevelQuotes ==
    ASSUME NEW b, Fields(b), NEW W, Proper(W), NEW ref, ref \notin DOMAIN W,
           NEW o, ProperOrder(o),
           Quotes(b.bids, W, "B"), Quotes(b.asks, W, "S"),
           At(LevelsAt(b, o.side), o.price) + o.shares < QtyMod
    PROVE  LET c == inc_level(b, o.side, o.price, o.shares)
           IN  /\ Quotes(c.bids, WithOrder(W, ref, o), "B")
               /\ Quotes(c.asks, WithOrder(W, ref, o), "S")
<1> DEFINE c == inc_level(b, o.side, o.price, o.shares)
           O == WithOrder(W, ref, o)
<1>1. o.side = "B" \/ o.side = "S"
    BY DEF ProperOrder, Side
<1>2. CASE o.side = "B"
  <2>1. c.bids = Inc(b.bids, o.price, o.shares) /\ c.asks = b.asks
      BY <1>2 DEF Fields, inc_level
  <2> HIDE DEF c
  <2>2. Quotes(c.bids, O, "B")
      BY <1>2, <2>1, IncQuotes DEF LevelsAt
  <2>3. Quotes(c.asks, O, "S")
      BY <1>2, <2>1, OtherSideQuotes
  <2> QED BY <2>2, <2>3 DEF c
<1>3. CASE o.side = "S"
  <2>1. c.asks = Inc(b.asks, o.price, o.shares) /\ c.bids = b.bids
      BY <1>3 DEF Fields, inc_level
  <2> HIDE DEF c
  <2>2. Quotes(c.asks, O, "S")
      BY <1>3, <2>1, IncQuotes DEF LevelsAt
  <2>3. Quotes(c.bids, O, "B")
      BY <1>3, <2>1, OtherSideQuotes
  <2> QED BY <2>2, <2>3 DEF c
<1> QED BY <1>1, <1>2, <1>3

\* An order that goes.
LEMMA DecLevelQuotes ==
    ASSUME NEW b, Fields(b), LevelsOK(b.bids), LevelsOK(b.asks),
           NEW W, Proper(W), NEW ref, ref \notin DOMAIN W, NEW o, ProperOrder(o),
           Quotes(b.bids, WithOrder(W, ref, o), "B"), Quotes(b.asks, WithOrder(W, ref, o), "S")
    PROVE  LET c == dec_level(b, o.side, o.price, o.shares)
           IN  Quotes(c.bids, W, "B") /\ Quotes(c.asks, W, "S")
<1> DEFINE c == dec_level(b, o.side, o.price, o.shares)
<1>1. o.side = "B" \/ o.side = "S"
    BY DEF ProperOrder, Side
<1>2. CASE o.side = "B"
  <2>1. c.bids = Dec(b.bids, o.price, o.shares) /\ c.asks = b.asks
      BY <1>2 DEF Fields, dec_level
  <2> HIDE DEF c
  <2>2. Quotes(c.bids, W, "B")
      BY <1>2, <2>1, DecQuotes
  <2>3. Quotes(c.asks, W, "S")
      BY <1>2, <2>1, OtherSideQuotes
  <2> QED BY <2>2, <2>3 DEF c
<1>3. CASE o.side = "S"
  <2>1. c.asks = Dec(b.asks, o.price, o.shares) /\ c.bids = b.bids
      BY <1>3 DEF Fields, dec_level
  <2> HIDE DEF c
  <2>2. Quotes(c.asks, W, "S")
      BY <1>3, <2>1, DecQuotes
  <2>3. Quotes(c.bids, W, "B")
      BY <1>3, <2>1, OtherSideQuotes
  <2> QED BY <2>2, <2>3 DEF c
<1> QED BY <1>1, <1>2, <1>3

\* An order that is partly executed or cancelled.
LEMMA PartialDecLevelQuotes ==
    ASSUME NEW b, Fields(b), LevelsOK(b.bids), LevelsOK(b.asks),
           NEW W, Proper(W), NEW ref, ref \notin DOMAIN W, NEW o, ProperOrder(o),
           Quotes(b.bids, WithOrder(W, ref, o), "B"), Quotes(b.asks, WithOrder(W, ref, o), "S"),
           NEW d \in Nat, d < o.shares, NEW u, ProperOrder(u),
           u.side = o.side, u.price = o.price, u.shares = o.shares - d
    PROVE  LET c == dec_level(b, o.side, o.price, d)
           IN  /\ Quotes(c.bids, WithOrder(W, ref, u), "B")
               /\ Quotes(c.asks, WithOrder(W, ref, u), "S")
<1> DEFINE c == dec_level(b, o.side, o.price, d)
           U == WithOrder(W, ref, u)
<1>1. o.side = "B" \/ o.side = "S"
    BY DEF ProperOrder, Side
<1>2. CASE o.side = "B"
  <2>1. c.bids = Dec(b.bids, o.price, d) /\ c.asks = b.asks
      BY <1>2 DEF Fields, dec_level
  <2> HIDE DEF c
  <2>2. Quotes(c.bids, U, "B")
      BY <1>2, <2>1, PartialDecQuotes
  <2>3. Quotes(c.asks, W, "S")
      BY <1>2, <2>1, OtherSideQuotes
  <2>4. Quotes(c.asks, U, "S")
      BY <1>2, <2>3, OtherSideQuotes
  <2> QED BY <2>2, <2>4 DEF c
<1>3. CASE o.side = "S"
  <2>1. c.asks = Dec(b.asks, o.price, d) /\ c.bids = b.bids
      BY <1>3 DEF Fields, dec_level
  <2> HIDE DEF c
  <2>2. Quotes(c.asks, U, "S")
      BY <1>3, <2>1, PartialDecQuotes
  <2>3. Quotes(c.bids, W, "B")
      BY <1>3, <2>1, OtherSideQuotes
  <2>4. Quotes(c.bids, U, "B")
      BY <1>3, <2>3, OtherSideQuotes
  <2> QED BY <2>2, <2>4 DEF c
<1> QED BY <1>1, <1>2, <1>3

LEMMA AddGood ==
    ASSUME NEW b, Good(b), NEW ref \in Ref, ~Knows(b, ref), NEW side \in Side,
           NEW price \in Price, NEW shares \in Shares \ {0},
           At(LevelsAt(b, side), price) + shares < QtyMod
    PROVE  LET o == [side |-> side, price |-> price, shares |-> shares]
           IN  /\ Good(add(b, ref, side, price, shares))
               /\ Orders(add(b, ref, side, price, shares)) = WithOrder(Orders(b), ref, o)
<1> DEFINE o == [side |-> side, price |-> price, shares |-> shares]
           a == SetIndex(Alloc(b, o), ref, AllocHandle(b))
           c == inc_level(a, side, price, shares)
<1>1. o \in Order /\ ProperOrder(o)
    BY MaxSharesAssumption DEF Order, ProperOrder, AnySide, Shares
<1>2. Sound(a) /\ Sound(add(b, ref, side, price, shares))
    BY <1>1, AllocSound, AddSound DEF Good, AnySide
<1>3. Orders(a) = WithOrder(Orders(b), ref, o) /\ a.bids = b.bids /\ a.asks = b.asks
    BY <1>1, SetIndexOrders DEF Good
<1>4. o.side = side /\ o.price = price /\ o.shares = shares
    OBVIOUS
<1>5. add(b, ref, side, price, shares) = c
    BY DEF add
<1>6. ref \notin DOMAIN Orders(b) /\ Fields(a)
    BY <1>2 DEF Orders, Knows, Sound
<1> HIDE DEF o, a
<1>7. Orders(c) = WithOrder(Orders(b), ref, o)
    BY <1>3, <1>6, IncLevelKeeps, OrdersKept
<1>8. Proper(Orders(c))
    BY <1>1, <1>6, <1>7, LevelSumWith DEF Good
<1>9. Quotes(c.bids, Orders(c), "B") /\ Quotes(c.asks, Orders(c), "S")
  <2>1. LevelsAt(a, o.side) = LevelsAt(b, side)
      BY <1>3, <1>4 DEF LevelsAt
  <2>2. At(LevelsAt(a, o.side), o.price) + o.shares < QtyMod
      BY <1>4, <2>1
  <2>3. Quotes(a.bids, Orders(b), "B") /\ Quotes(a.asks, Orders(b), "S") /\ Proper(Orders(b))
      BY <1>3 DEF Good
  <2>4. c = inc_level(a, o.side, o.price, o.shares)
      BY <1>4
  <2> QED BY <1>1, <1>6, <1>7, <2>2, <2>3, <2>4, IncLevelQuotes
<1>10. Good(c)
    BY <1>2, <1>5, <1>8, <1>9 DEF Good
<1> QED BY <1>5, <1>7, <1>10 DEF o

LEMMA RemoveGood ==
    ASSUME NEW b, Good(b), NEW ref, Knows(b, ref)
    PROVE  /\ Good(remove(b, ref))
           /\ Orders(remove(b, ref)) = WithoutOrder(Orders(b), ref)
<1> DEFINE o == OrderOf(b, ref)
           W == WithoutOrder(Orders(b), ref)
           a == dec_level(b, o.side, o.price, o.shares)
           c == Erase(a, ref)
<1>1. ref \in DOMAIN Orders(b) /\ Orders(b)[ref] = o
    BY DEF Orders, Knows
<1>2. Proper(W) /\ ref \notin DOMAIN W /\ ProperOrder(o) /\ Orders(b) = WithOrder(W, ref, o)
    BY KnownOut
<1>3. Sound(a) /\ Fields(b) /\ LevelsOK(b.bids) /\ LevelsOK(b.asks)
    BY <1>2, DecLevelSound DEF Good, Sound, ProperOrder, Order
<1>4. remove(b, ref) = c /\ Sound(c)
    BY RemoveSound DEF remove, Good
<1> HIDE DEF o, W
<1>5. a.slots = b.slots /\ a.index = b.index
    BY <1>3, DecLevelKeeps
<1>6. Quotes(a.bids, W, "B") /\ Quotes(a.asks, W, "S")
    BY <1>2, <1>3, DecLevelQuotes DEF Good
<1>7. Orders(a) = Orders(b) /\ Knows(a, ref)
    BY <1>5, OrdersKept DEF Knows
<1> HIDE DEF a
<1>8. Orders(c) = W /\ c.bids = a.bids /\ c.asks = a.asks
    BY <1>3, <1>7, EraseOrders DEF W
<1> HIDE DEF c
<1>9. Good(c)
    BY <1>2, <1>4, <1>6, <1>8 DEF Good
<1> QED BY <1>4, <1>8, <1>9 DEF W

\* reduce() of as much as the order has is remove().
LEMMA ReduceAll ==
    ASSUME NEW b, Good(b), NEW ref, Knows(b, ref), NEW qty \in Shares,
           ~(qty < OrderOf(b, ref).shares)
    PROVE  /\ Good(reduce(b, ref, qty))
           /\ Orders(reduce(b, ref, qty)) = WithoutOrder(Orders(b), ref)
<1> DEFINE o == OrderOf(b, ref)
           h == b.index[ref]
           W == WithoutOrder(Orders(b), ref)
           z == [b EXCEPT !.slots[h].shares = @ - o.shares]
           a == dec_level(z, o.side, o.price, o.shares)
           c == Erase(a, ref)
<1>1. ref \in DOMAIN Orders(b) /\ Orders(b)[ref] = o
    BY DEF Orders, Knows
<1>2. Proper(W) /\ ref \notin DOMAIN W /\ ProperOrder(o) /\ Orders(b) = WithOrder(W, ref, o)
    BY KnownOut
<1>3. reduce(b, ref, qty) = c
    BY DEF reduce
<1>4. h \in 1 .. Len(b.slots) /\ o = b.slots[h]
    BY DEF Good, Sound, IndexOK, Knows, OrderOf
<1>5. /\ Fields(z) /\ z.bids = b.bids /\ z.asks = b.asks /\ z.free = b.free
      /\ z.index = b.index
      /\ z.slots = [b.slots EXCEPT ![h] = [o EXCEPT !.shares = @ - o.shares]]
    BY <1>4 DEF Good, Sound, Fields
<1>6. [o EXCEPT !.shares = @ - o.shares] \in Order
    BY <1>2, MaxSharesAssumption DEF ProperOrder, Order, Shares
<1>7. z.slots \in Seq(Order) /\ Len(z.slots) = Len(b.slots)
      /\ \A k \in 1 .. Len(b.slots) : k # h => z.slots[k] = b.slots[k]
    BY <1>4, <1>5, <1>6 DEF Good, Sound, SlotsOK
<1>8. SlotsOK(z) /\ IndexOK(z) /\ Unaliased(z)
    BY <1>5, <1>7 DEF Good, Sound, SlotsOK, IndexOK, Unaliased
<1>9. Sound(z)
    BY <1>5, <1>8 DEF Good, Sound
<1>10. \A r \in DOMAIN b.index : r # ref => OrderOf(z, r) = OrderOf(b, r)
    BY <1>5, <1>7 DEF Good, Sound, IndexOK, Unaliased, Knows, OrderOf
<1>11. WithoutOrder(Orders(z), ref) = W
  <2> HIDE DEF z
  <2> QED BY <1>5, <1>10 DEF WithoutOrder, Orders
<1> HIDE DEF z, o, h
<1>12. Quotes(a.bids, W, "B") /\ Quotes(a.asks, W, "S")
  <2>1. Quotes(z.bids, WithOrder(W, ref, o), "B") /\ Quotes(z.asks, WithOrder(W, ref, o), "S")
      BY <1>2, <1>5 DEF Good
  <2>2. Fields(z) /\ LevelsOK(z.bids) /\ LevelsOK(z.asks)
      BY <1>9 DEF Sound
  <2> HIDE DEF W
  <2> QED BY <1>2, <2>1, <2>2, DecLevelQuotes
<1>13. Sound(a)
    BY <1>2, <1>9, DecLevelSound DEF ProperOrder, Order
<1>14. a.slots = z.slots /\ a.index = z.index
    BY <1>5, DecLevelKeeps
<1> HIDE DEF a
<1>15. Orders(a) = Orders(z) /\ Knows(a, ref)
    BY <1>5, <1>14, OrdersKept DEF Knows
<1>16. Orders(c) = WithoutOrder(Orders(a), ref) /\ c.bids = a.bids /\ c.asks = a.asks
    BY <1>13, <1>15, EraseOrders
<1>17. Sound(c)
    BY <1>13, <1>15, EraseSound
<1> HIDE DEF c, W
<1>18. Good(c) /\ Orders(c) = W
    BY <1>2, <1>11, <1>12, <1>15, <1>16, <1>17 DEF Good
<1> QED BY <1>3, <1>18 DEF W

\* reduce() of less leaves the order with the rest of its shares.
LEMMA ReducePart ==
    ASSUME NEW b, Good(b), NEW ref, Knows(b, ref), NEW qty \in Shares,
           qty < OrderOf(b, ref).shares
    PROVE  /\ Good(reduce(b, ref, qty))
           /\ Orders(reduce(b, ref, qty)) = [Orders(b) EXCEPT ![ref].shares = @ - qty]
           /\ \E u : /\ ProperOrder(u) /\ u.side = OrderOf(b, ref).side
                     /\ u.price = OrderOf(b, ref).price
                     /\ u.shares = OrderOf(b, ref).shares - qty
                     /\ Orders(reduce(b, ref, qty)) =
                            WithOrder(WithoutOrder(Orders(b), ref), ref, u)
<1> DEFINE o == OrderOf(b, ref)
           u == [o EXCEPT !.shares = @ - qty]
           h == b.index[ref]
           W == WithoutOrder(Orders(b), ref)
           z == [b EXCEPT !.slots[h].shares = @ - qty]
           a == dec_level(z, o.side, o.price, qty)
<1>1. ref \in DOMAIN Orders(b) /\ Orders(b)[ref] = o
    BY DEF Orders, Knows
<1>2. Proper(W) /\ ref \notin DOMAIN W /\ ProperOrder(o) /\ Orders(b) = WithOrder(W, ref, o)
    BY KnownOut
<1>3. qty \in Nat /\ o.shares \in Nat
    BY <1>2, MaxSharesAssumption DEF Shares, ProperOrder
<1>4. reduce(b, ref, qty) = a
    BY <1>3 DEF reduce
<1>5. h \in 1 .. Len(b.slots) /\ o = b.slots[h]
    BY DEF Good, Sound, IndexOK, Knows, OrderOf
<1>6. /\ Fields(z) /\ z.bids = b.bids /\ z.asks = b.asks /\ z.free = b.free
      /\ z.index = b.index
      /\ z.slots = [b.slots EXCEPT ![h] = u]
    BY <1>5 DEF Good, Sound, Fields
<1>7. /\ u \in Order /\ ProperOrder(u) /\ u.side = o.side /\ u.price = o.price
      /\ u.shares = o.shares - qty
    BY <1>2, <1>3, MaxSharesAssumption DEF ProperOrder, Order, Shares
<1> HIDE DEF u
<1>8. z.slots \in Seq(Order) /\ Len(z.slots) = Len(b.slots) /\ z.slots[h] = u
      /\ \A k \in 1 .. Len(b.slots) : k # h => z.slots[k] = b.slots[k]
  <2> HIDE DEF z, o, h
  <2> QED BY <1>5, <1>6, <1>7 DEF Good, Sound, SlotsOK
<1>9. SlotsOK(z) /\ IndexOK(z) /\ Unaliased(z)
    BY <1>6, <1>8 DEF Good, Sound, SlotsOK, IndexOK, Unaliased
<1>10. Sound(z)
    BY <1>6, <1>9 DEF Good, Sound
<1>11. \A r \in DOMAIN b.index : OrderOf(z, r) = IF r = ref THEN u ELSE OrderOf(b, r)
    BY <1>6, <1>8 DEF Good, Sound, IndexOK, Unaliased, Knows, OrderOf
<1>12. Orders(z) = WithOrder(W, ref, u)
  <2> HIDE DEF z
  <2>1. DOMAIN Orders(z) = DOMAIN Orders(b) /\ DOMAIN Orders(b) = DOMAIN b.index
      BY <1>6 DEF Orders
  <2>2. \A r \in DOMAIN b.index : Orders(z)[r] = IF r = ref THEN u ELSE Orders(b)[r]
      BY <1>6, <1>11 DEF Orders
  <2>3. Orders(z) = [r \in DOMAIN Orders(z) |-> Orders(z)[r]]
      BY DEF Orders
  <2> QED BY <1>1, <2>1, <2>2, <2>3 DEF WithOrder, WithoutOrder
<1>13. WithOrder(W, ref, u) = [Orders(b) EXCEPT ![ref].shares = @ - qty]
    BY <1>1 DEF WithOrder, WithoutOrder, u
<1> HIDE DEF z, o, h
<1>14. Quotes(a.bids, WithOrder(W, ref, u), "B") /\ Quotes(a.asks, WithOrder(W, ref, u), "S")
  <2>1. Quotes(z.bids, WithOrder(W, ref, o), "B") /\ Quotes(z.asks, WithOrder(W, ref, o), "S")
      BY <1>2, <1>6 DEF Good
  <2>2. Fields(z) /\ LevelsOK(z.bids) /\ LevelsOK(z.asks)
      BY <1>10 DEF Sound
  <2>3. qty < o.shares
      BY DEF o
  <2> HIDE DEF W
  <2> QED BY <1>2, <1>3, <1>7, <2>1, <2>2, <2>3, PartialDecLevelQuotes
<1>15. Sound(a)
    BY <1>2, <1>3, <1>10, DecLevelSound DEF ProperOrder, Order
<1>16. a.slots = z.slots /\ a.index = z.index
    BY <1>6, DecLevelKeeps
<1> HIDE DEF a
<1>17. Orders(a) = WithOrder(W, ref, u)
    BY <1>12, <1>16, OrdersKept
<1>18. Proper(WithOrder(W, ref, u))
  <2> HIDE DEF W
  <2> QED BY <1>2, <1>7, LevelSumWith
<1> HIDE DEF W
<1>19. Good(a)
    BY <1>14, <1>15, <1>17, <1>18 DEF Good
<1>20. \E v : /\ ProperOrder(v) /\ v.side = o.side /\ v.price = o.price
              /\ v.shares = o.shares - qty /\ Orders(a) = WithOrder(W, ref, v)
    BY <1>7, <1>17
<1> QED BY <1>4, <1>13, <1>17, <1>19, <1>20 DEF W, o

\* replace() of a resting order: the new one takes the side of the old one, and the
\* old one no longer counts where the new one is added.
\* A level that would hold both the order and what replaces it holds the latter.
LEMMA FitsReplaced ==
    ASSUME NEW b, Good(b), NEW orig, Knows(b, orig), NEW price, NEW shares \in Nat,
           At(LevelsAt(b, OrderOf(b, orig).side), price) + shares < QtyMod
    PROVE  At(LevelsAt(b, OrderOf(b, orig).side), price) + shares
               < QtyMod + TakenOff(b, orig, price)
<1> DEFINE o == OrderOf(b, orig)
<1>1. Proper(Orders(b)) /\ ProperOrder(o)
    BY KnownOut DEF Good
<1>2. PICK x \in Nat : x = LevelSum(Orders(b), o.side, price)
    BY <1>1, LevelSumType
<1>3. o.side = "B" \/ o.side = "S"
    BY <1>1 DEF ProperOrder, Side
<1> HIDE DEF o
<1>4. At(LevelsAt(b, o.side), price) = x
    BY <1>2, <1>3 DEF Good, Quotes, LevelsAt
<1>5. PICK t \in Nat : t = TakenOff(b, orig, price)
    BY <1>1 DEF TakenOff, ProperOrder, o
<1>6. x + shares < QtyMod
    BY <1>4 DEF o
<1>7. x + shares < QtyMod + t
    BY <1>6, QtyModAssumption
<1> QED BY <1>4, <1>5, <1>7 DEF o

LEMMA ReplaceGood ==
    ASSUME NEW b, Good(b), NEW orig, Knows(b, orig), NEW new \in Ref,
           ~Knows(b, new) \/ new = orig, NEW price \in Price, NEW shares \in Shares \ {0},
           At(LevelsAt(b, OrderOf(b, orig).side), price) + shares
               < QtyMod + TakenOff(b, orig, price)
    PROVE  LET o == [side |-> OrderOf(b, orig).side, price |-> price, shares |-> shares]
           IN  /\ Good(replace(b, orig, new, shares, price))
               /\ Orders(replace(b, orig, new, shares, price)) =
                      WithOrder(WithoutOrder(Orders(b), orig), new, o)
<1> DEFINE o == OrderOf(b, orig)
           s == o.side
           W == WithoutOrder(Orders(b), orig)
           c == remove(b, orig)
<1>1. Good(c) /\ Orders(c) = W
    BY RemoveGood
<1>2. Proper(W) /\ orig \notin DOMAIN W /\ ProperOrder(o) /\ Orders(b) = WithOrder(W, orig, o)
    BY KnownOut
<1>3. ~Knows(c, new)
  <2>1. DOMAIN c.index = DOMAIN Orders(c) /\ DOMAIN W = DOMAIN b.index \ {orig}
      BY DEF Orders, WithoutOrder
  <2> HIDE DEF c, W
  <2> QED BY <1>1, <2>1 DEF Knows
<1>4. replace(b, orig, new, shares, price) = add(c, new, s, price, shares)
    BY DEF replace
<1> HIDE DEF c, W, o
<1>5. s = "B" \/ s = "S"
    BY <1>2 DEF ProperOrder, Side
<1>6. /\ At(LevelsAt(c, s), price) = LevelSum(W, s, price)
      /\ At(LevelsAt(b, s), price) = LevelSum(WithOrder(W, orig, o), s, price)
    BY <1>1, <1>2, <1>5 DEF Good, Quotes, LevelsAt
<1>7. LevelSum(W, s, price) \in Nat /\ o.shares \in Nat
    BY <1>2, LevelSumType DEF ProperOrder
<1>8. LevelSum(WithOrder(W, orig, o), s, price) =
          IF o.price = price THEN LevelSum(W, s, price) + o.shares ELSE LevelSum(W, s, price)
    BY <1>2, LevelSumWith
<1>9. /\ shares \in Nat
      /\ At(LevelsAt(b, s), price) + shares < QtyMod + (IF o.price = price THEN o.shares ELSE 0)
    BY MaxSharesAssumption DEF Shares, TakenOff, o
<1>10. At(LevelsAt(c, s), price) + shares < QtyMod
    BY <1>6, <1>7, <1>8, <1>9, QtyModAssumption
<1>11. s \in Side
    BY <1>5 DEF Side
<1>12. LET n == [side |-> s, price |-> price, shares |-> shares]
       IN  /\ Good(add(c, new, s, price, shares))
           /\ Orders(add(c, new, s, price, shares)) = WithOrder(Orders(c), new, n)
    BY <1>1, <1>3, <1>10, <1>11, AddGood
<1> QED BY <1>1, <1>4, <1>12 DEF W, o

\* Conforms(m), for any book.
ConformsTo(b, m) ==
    /\ m.type = "add" =>
        /\ ~Knows(b, m.ref)
        /\ m.side \in Side
        /\ At(LevelsAt(b, m.side), m.price) + m.shares < QtyMod
    /\ m.type = "replace" /\ Knows(b, m.ref) =>
        /\ ~Knows(b, m.new) \/ m.new = m.ref
        /\ At(LevelsAt(b, OrderOf(b, m.ref).side), m.price) + m.shares
                < QtyMod + TakenOff(b, m.ref, m.price)

LEMMA ConformsToBook == \A m : Conforms(m) => ConformsTo(book, m)
BY DEF Conforms, ConformsTo, LevelsAt, LevelsOf

\* A message that conforms keeps the levels equal to the totals of the orders.
LEMMA ApplyGood ==
    ASSUME NEW b, Good(b), NEW m \in Message, ConformsTo(b, m)
    PROVE  Good(apply(b, m))
<1>1. CASE m \in [type : {"add"}, ref : Ref, side : AnySide, price : Price, shares : Shares]
  <2>1. apply(b, m) = add(b, m.ref, m.side, m.price, m.shares)
      BY <1>1 DEF apply
  <2>2. CASE m.shares = 0
      BY <2>1, <2>2 DEF add
  <2>3. CASE m.shares # 0
    <3>1. ~Knows(b, m.ref) /\ m.side \in Side
          /\ At(LevelsAt(b, m.side), m.price) + m.shares < QtyMod
        BY <1>1 DEF ConformsTo
    <3>2. m.ref \in Ref /\ m.price \in Price /\ m.shares \in Shares \ {0}
        BY <1>1, <2>3
    <3> QED BY <2>1, <3>1, <3>2, AddGood
  <2> QED BY <2>2, <2>3
<1>2. CASE m \in [type : {"reduce"}, ref : Ref, shares : Shares]
  <2>1. apply(b, m) = reduce(b, m.ref, m.shares) /\ m.shares \in Shares
      BY <1>2 DEF apply
  <2>2. CASE ~Knows(b, m.ref)
      BY <2>1, <2>2 DEF reduce
  <2>3. CASE Knows(b, m.ref)
      BY <2>1, <2>3, ReduceAll, ReducePart
  <2> QED BY <2>2, <2>3
<1>3. CASE m \in [type : {"remove"}, ref : Ref]
  <2>1. apply(b, m) = remove(b, m.ref)
      BY <1>3 DEF apply
  <2>2. CASE ~Knows(b, m.ref)
      BY <2>1, <2>2 DEF remove
  <2> QED BY <2>1, <2>2, RemoveGood
<1>4. CASE m \in [type : {"replace"}, ref : Ref, new : Ref, shares : Shares, price : Price]
  <2>1. apply(b, m) = replace(b, m.ref, m.new, m.shares, m.price)
      BY <1>4 DEF apply
  <2>2. CASE ~Knows(b, m.ref)
      BY <2>1, <2>2 DEF replace
  <2>3. CASE Knows(b, m.ref) /\ m.shares = 0
    <3>1. apply(b, m) = remove(b, m.ref)
        BY <2>1, <2>3 DEF replace, add
    <3> QED BY <2>3, <3>1, RemoveGood
  <2>4. CASE Knows(b, m.ref) /\ m.shares # 0
    <3>1. /\ ~Knows(b, m.new) \/ m.new = m.ref
          /\ At(LevelsAt(b, OrderOf(b, m.ref).side), m.price) + m.shares
                  < QtyMod + TakenOff(b, m.ref, m.price)
        BY <1>4, <2>4 DEF ConformsTo
    <3>2. m.new \in Ref /\ m.price \in Price /\ m.shares \in Shares \ {0}
        BY <1>4, <2>4
    <3> QED BY <2>1, <2>4, <3>1, <3>2, ReplaceGood
  <2> QED BY <2>2, <2>3, <2>4
<1>5. CASE m \in [type : {"other"}]
    BY <1>5 DEF apply
<1> QED BY <1>1, <1>2, <1>3, <1>4, <1>5 DEF Message

\* The reference number a message introduces, and the shares it brings.
Introduces(m) ==
    IF m.type = "add" THEN {m.ref} ELSE IF m.type = "replace" THEN {m.new} ELSE {}
Brings(m) == IF m.type \in {"add", "replace"} THEN m.shares ELSE 0

\* Orders that come from a message, over those of b.
Grows(b, c, m) ==
    /\ DOMAIN c.index \subseteq DOMAIN b.index \cup Introduces(m)
    /\ \A s, p : LevelSum(Orders(c), s, p) <= LevelSum(Orders(b), s, p) + Brings(m)

LEMMA RemoveShrinks ==
    ASSUME NEW b, Good(b), NEW ref, Knows(b, ref), NEW s, NEW p
    PROVE  LET W == WithoutOrder(Orders(b), ref)
               t == LevelSum(W, s, p)
           IN  t \in Nat /\ LevelSum(Orders(b), s, p) \in Nat /\ t <= LevelSum(Orders(b), s, p)
<1> DEFINE o == OrderOf(b, ref)
           W == WithoutOrder(Orders(b), ref)
<1>1. Proper(W) /\ ref \notin DOMAIN W /\ ProperOrder(o) /\ Orders(b) = WithOrder(W, ref, o)
    BY KnownOut
<1> HIDE DEF W, o
<1>2. LevelSum(W, s, p) \in Nat /\ LevelSum(Orders(b), s, p) \in Nat /\ o.shares \in Nat
    BY <1>1, LevelSumType DEF Good, ProperOrder
<1>3. LevelSum(Orders(b), s, p) \in {LevelSum(W, s, p), LevelSum(W, s, p) + o.shares}
    BY <1>1, LevelSumWith
<1>4. LevelSum(W, s, p) <= LevelSum(Orders(b), s, p)
    BY <1>2, <1>3
<1> QED BY <1>2, <1>4 DEF W

\* No message makes the book know of a reference it does not introduce, or a level
\* grow by more than it brings.
LEMMA ApplyGrows ==
    ASSUME NEW b, Good(b), NEW m \in Message, ConformsTo(b, m)
    PROVE  Grows(b, apply(b, m), m)
<1>0. \A s, p : LevelSum(Orders(b), s, p) \in Nat
    BY LevelSumType DEF Good
<1>a. \A c : DOMAIN c.index = DOMAIN Orders(c)
    BY DEF Orders
<1>b. Brings(m) \in Nat
    BY MaxSharesAssumption DEF Brings, Message, Shares
<1>c. ASSUME apply(b, m) = b PROVE Grows(b, apply(b, m), m)
    BY <1>0, <1>b, <1>c DEF Grows
<1>d. ASSUME NEW ref, Knows(b, ref), Orders(apply(b, m)) = WithoutOrder(Orders(b), ref)
      PROVE  Grows(b, apply(b, m), m)
  <2>1. DOMAIN apply(b, m).index \subseteq DOMAIN b.index
      BY <1>a, <1>d DEF WithoutOrder
  <2>2. ASSUME NEW s, NEW p
        PROVE  LevelSum(Orders(apply(b, m)), s, p) <= LevelSum(Orders(b), s, p) + Brings(m)
      BY <1>b, <1>d, RemoveShrinks
  <2> QED BY <2>1, <2>2 DEF Grows
<1>1. CASE m \in [type : {"add"}, ref : Ref, side : AnySide, price : Price, shares : Shares]
  <2>1. apply(b, m) = add(b, m.ref, m.side, m.price, m.shares)
      BY <1>1 DEF apply
  <2>2. CASE m.shares = 0
      BY <1>c, <2>1, <2>2 DEF add
  <2>3. CASE m.shares # 0
    <3> DEFINE o == [side |-> m.side, price |-> m.price, shares |-> m.shares]
    <3>1. ~Knows(b, m.ref) /\ m.side \in Side
          /\ At(LevelsAt(b, m.side), m.price) + m.shares < QtyMod
        BY <1>1 DEF ConformsTo
    <3>2. m.ref \in Ref /\ m.price \in Price /\ m.shares \in Shares \ {0}
        BY <1>1, <2>3
    <3>3. Orders(apply(b, m)) = WithOrder(Orders(b), m.ref, o)
        BY <2>1, <3>1, <3>2, AddGood
    <3>4. ProperOrder(o) /\ o.shares = m.shares /\ m.shares \in Nat
        BY <3>1, <3>2, MaxSharesAssumption DEF ProperOrder, Order, AnySide, Shares
    <3>5. m.ref \notin DOMAIN Orders(b) /\ Proper(Orders(b))
        BY <1>a, <3>1 DEF Knows, Good
    <3>6. Introduces(m) = {m.ref} /\ Brings(m) = m.shares
        BY <1>1 DEF Introduces, Brings
    <3> HIDE DEF o
    <3>7. DOMAIN apply(b, m).index \subseteq DOMAIN b.index \cup Introduces(m)
        BY <1>a, <3>3, <3>6 DEF WithOrder
    <3>8. ASSUME NEW s, NEW p
          PROVE  LevelSum(Orders(apply(b, m)), s, p) <= LevelSum(Orders(b), s, p) + Brings(m)
      <4>1. LevelSum(Orders(apply(b, m)), s, p) \in
                {LevelSum(Orders(b), s, p), LevelSum(Orders(b), s, p) + o.shares}
          BY <3>3, <3>4, <3>5, LevelSumWith
      <4> QED BY <1>0, <3>4, <3>6, <4>1
    <3> QED BY <3>7, <3>8 DEF Grows
  <2> QED BY <2>2, <2>3
<1>2. CASE m \in [type : {"reduce"}, ref : Ref, shares : Shares]
  <2>1. apply(b, m) = reduce(b, m.ref, m.shares) /\ m.shares \in Shares
      BY <1>2 DEF apply
  <2>2. CASE ~Knows(b, m.ref)
      BY <1>c, <2>1, <2>2 DEF reduce
  <2>3. CASE Knows(b, m.ref) /\ ~(m.shares < OrderOf(b, m.ref).shares)
      BY <1>d, <2>1, <2>3, ReduceAll
  <2>4. CASE Knows(b, m.ref) /\ m.shares < OrderOf(b, m.ref).shares
    <3> DEFINE o == OrderOf(b, m.ref)
               W == WithoutOrder(Orders(b), m.ref)
    <3>1. PICK u : /\ ProperOrder(u) /\ u.side = o.side /\ u.price = o.price
                   /\ u.shares = o.shares - m.shares
                   /\ Orders(apply(b, m)) = WithOrder(W, m.ref, u)
        BY <2>1, <2>4, ReducePart
    <3>2. Proper(W) /\ m.ref \notin DOMAIN W /\ ProperOrder(o) /\ Orders(b) = WithOrder(W, m.ref, o)
        BY <2>4, KnownOut
    <3>3. DOMAIN apply(b, m).index \subseteq DOMAIN b.index
        BY <1>a, <3>1, <3>2 DEF WithOrder
    <3>4. o.shares \in Nat /\ u.shares \in Nat /\ u.shares <= o.shares
        BY <2>1, <3>1, <3>2, MaxSharesAssumption DEF ProperOrder, Shares
    <3> HIDE DEF o, W
    <3>5. ASSUME NEW s, NEW p
          PROVE  LevelSum(Orders(apply(b, m)), s, p) <= LevelSum(Orders(b), s, p) + Brings(m)
      <4>1. LevelSum(W, s, p) \in Nat
          BY <3>2, LevelSumType
      <4>2. LevelSum(Orders(b), s, p) = IF o.side = s /\ o.price = p
                                         THEN LevelSum(W, s, p) + o.shares ELSE LevelSum(W, s, p)
          BY <3>2, LevelSumWith
      <4>3. LevelSum(Orders(apply(b, m)), s, p) =
                IF o.side = s /\ o.price = p
                  THEN LevelSum(W, s, p) + u.shares ELSE LevelSum(W, s, p)
          BY <3>1, <3>2, LevelSumWith
      <4> QED BY <1>b, <3>4, <4>1, <4>2, <4>3
    <3> QED BY <3>3, <3>5 DEF Grows
  <2> QED BY <2>2, <2>3, <2>4
<1>3. CASE m \in [type : {"remove"}, ref : Ref]
  <2>1. apply(b, m) = remove(b, m.ref)
      BY <1>3 DEF apply
  <2>2. CASE ~Knows(b, m.ref)
      BY <1>c, <2>1, <2>2 DEF remove
  <2>3. CASE Knows(b, m.ref)
      BY <1>d, <2>1, <2>3, RemoveGood
  <2> QED BY <2>2, <2>3
<1>4. CASE m \in [type : {"replace"}, ref : Ref, new : Ref, shares : Shares, price : Price]
  <2>1. apply(b, m) = replace(b, m.ref, m.new, m.shares, m.price)
      BY <1>4 DEF apply
  <2>2. CASE ~Knows(b, m.ref)
      BY <1>c, <2>1, <2>2 DEF replace
  <2>3. CASE Knows(b, m.ref) /\ m.shares = 0
    <3>1. apply(b, m) = remove(b, m.ref)
        BY <2>1, <2>3 DEF replace, add
    <3> QED BY <1>d, <2>3, <3>1, RemoveGood
  <2>4. CASE Knows(b, m.ref) /\ m.shares # 0
    <3> DEFINE W == WithoutOrder(Orders(b), m.ref)
               o == [side |-> OrderOf(b, m.ref).side, price |-> m.price, shares |-> m.shares]
    <3>1. /\ ~Knows(b, m.new) \/ m.new = m.ref
          /\ At(LevelsAt(b, OrderOf(b, m.ref).side), m.price) + m.shares
                  < QtyMod + TakenOff(b, m.ref, m.price)
        BY <1>4, <2>4 DEF ConformsTo
    <3>2. m.new \in Ref /\ m.price \in Price /\ m.shares \in Shares \ {0}
        BY <1>4, <2>4
    <3>3. Orders(apply(b, m)) = WithOrder(W, m.new, o)
        BY <2>1, <2>4, <3>1, <3>2, ReplaceGood
    <3>4. Proper(W) /\ ProperOrder(OrderOf(b, m.ref)) /\ DOMAIN W = DOMAIN b.index \ {m.ref}
        BY <1>a, <2>4, KnownOut DEF WithoutOrder
    <3>5. ProperOrder(o) /\ o.shares = m.shares /\ m.shares \in Nat
        BY <3>2, <3>4, MaxSharesAssumption DEF ProperOrder, Order, AnySide, Shares
    <3>6. m.new \notin DOMAIN W
        BY <3>1, <3>4 DEF Knows
    <3>7. Introduces(m) = {m.new} /\ Brings(m) = m.shares
        BY <1>4 DEF Introduces, Brings
    <3>8. \A s, p : LevelSum(W, s, p) \in Nat /\ LevelSum(W, s, p) <= LevelSum(Orders(b), s, p)
        BY <2>4, RemoveShrinks
    <3> HIDE DEF o, W
    <3>9. DOMAIN apply(b, m).index \subseteq DOMAIN b.index \cup Introduces(m)
        BY <1>a, <3>3, <3>4, <3>7 DEF WithOrder
    <3>10. ASSUME NEW s, NEW p
           PROVE  LevelSum(Orders(apply(b, m)), s, p) <= LevelSum(Orders(b), s, p) + Brings(m)
      <4>1. LevelSum(Orders(apply(b, m)), s, p) \in
                {LevelSum(W, s, p), LevelSum(W, s, p) + o.shares}
          BY <3>3, <3>4, <3>5, <3>6, LevelSumWith
      <4> QED BY <1>0, <3>5, <3>7, <3>8, <4>1
    <3> QED BY <3>9, <3>10 DEF Grows
  <2> QED BY <2>2, <2>3, <2>4
<1>5. CASE m \in [type : {"other"}]
    BY <1>c, <1>5 DEF apply
<1> QED BY <1>1, <1>2, <1>3, <1>4, <1>5 DEF Message
-----------------------------------------------------------------------------
(* Invariants. *)

LEMMA InitSound == Init => Sound(book)
<1> SUFFICES ASSUME Init PROVE Sound(book)
    OBVIOUS
<1>1. Fields(book) /\ LevelsOK(book.bids) /\ LevelsOK(book.asks)
    BY FS_EmptySet DEF Init, NewBook, EmptyLevels, Fields, LevelsOK
<1>2. book.slots = <<>> /\ book.free = <<>> /\ DOMAIN book.index = {}
    BY DEF Init, NewBook
<1> QED BY <1>1, <1>2 DEF Sound, SlotsOK, IndexOK, Unaliased

LEMMA NextSound == Sound(book) /\ [AnyNext \/ Next]_book => Sound(book)'
<1> SUFFICES ASSUME Sound(book), [AnyNext \/ Next]_book PROVE Sound(book')
    BY DEF Sound, Fields, SlotsOK, IndexOK, Unaliased
<1>1. CASE book' = book
    BY <1>1
<1>2. CASE \E m \in Message : book' = apply(book, m)
    BY <1>2, ApplySound
<1> QED BY <1>1, <1>2 DEF AnyNext, Next, Apply, Add, Reduce, Remove, Replace, Ignore

LEMMA SoundMeans == Sound(book) => TypeOK /\ NoAliasing
<1> SUFFICES ASSUME Sound(book) PROVE TypeOK /\ NoAliasing
    OBVIOUS
<1>1. TypeOK
    BY DEF Sound, LevelsOK, SlotsOK, IndexOK, TypeOK, Handle, InUse
<1>2. NoAliasing
    BY DEF Sound, Unaliased, NoAliasing, InUse
<1> QED BY <1>1, <1>2

LEMMA InitGood == Init => Good(book)
<1> SUFFICES ASSUME Init PROVE Good(book)
    OBVIOUS
<1>1. DOMAIN book.index = {} /\ DOMAIN book.bids = {} /\ DOMAIN book.asks = {}
      /\ book.bids = [p \in DOMAIN book.bids |-> book.bids[p]]
      /\ book.asks = [p \in DOMAIN book.asks |-> book.asks[p]]
    BY DEF Init, NewBook, EmptyLevels
<1>2. DOMAIN Orders(book) = {}
    BY <1>1 DEF Orders
<1>3. \A s, p : Rests(Orders(book), s, p) = {} /\ LevelSum(Orders(book), s, p) = 0
    BY <1>2, SumEmpty DEF Rests, LevelSum
<1>4. Proper(Orders(book))
    BY <1>2, FS_EmptySet DEF Proper
<1> QED BY <1>1, <1>3, <1>4, InitSound DEF Good, Quotes, At

LEMMA NextGood == Good(book) /\ [Next]_book => Good(book)'
<1> SUFFICES ASSUME Good(book), [Next]_book PROVE Good(book')
    BY DEF Good, Sound, Fields, SlotsOK, IndexOK, Unaliased, Orders, OrderOf
<1>1. CASE book' = book
    BY <1>1
<1>2. CASE \E m \in Message : Conforms(m) /\ book' = apply(book, m)
    BY <1>2, ApplyGood, ConformsToBook
<1> QED BY <1>1, <1>2 DEF Next, Apply, Add, Reduce, Remove, Replace, Ignore

\* invariant_ok() recomputes what Good says of the levels.
LEMMA GoodAgrees ==
    ASSUME Good(book), NEW side, NEW L, LevelsOK(L), Quotes(L, Orders(book), side)
    PROVE  Agrees(Rebuilt(side), L)
<1> DEFINE R == Rebuilt(side)
           O == Orders(book)
           shares == [r \in DOMAIN book.index |-> OrderOf(book, r).shares]
<1>1. \A p : {r \in OnSide(side) : OrderOf(book, r).price = p} = Rests(O, side, p)
    BY DEF OnSide, Rests, Orders
<1>2. shares = Qty(O)
    BY DEF Qty, Orders
<1>3. DOMAIN R = {OrderOf(book, r).price : r \in OnSide(side)}
    BY DEF Rebuilt
<1>4. \A p \in DOMAIN R : R[p] = LevelSum(O, side, p) % QtyMod
    BY <1>1, <1>2, <1>3 DEF Rebuilt, LevelSum
<1>5. \A p : p \in DOMAIN R <=> Rests(O, side, p) # {}
    BY <1>1, <1>3
<1> HIDE DEF R, O
<1>6. DOMAIN R = DOMAIN L
    BY <1>5 DEF Quotes, O
<1>7. ASSUME NEW p \in DOMAIN R PROVE At(L, p) = R[p]
  <2>1. At(L, p) = LevelSum(O, side, p) /\ At(L, p) = L[p]
      BY <1>6 DEF Quotes, At, O
  <2>2. L[p] \in 0 .. QtyMod - 1
      BY <1>6 DEF LevelsOK
  <2>3. L[p] % QtyMod = L[p]
      BY <2>2, QtyModAssumption
  <2> QED BY <1>4, <2>1, <2>3
<1> QED BY <1>6, <1>7 DEF Agrees, R

LEMMA GoodMeans == Good(book) => invariant_ok
<1> SUFFICES ASSUME Good(book) PROVE invariant_ok
    OBVIOUS
<1>1. \A r \in DOMAIN book.index : OrderOf(book, r).shares # 0 /\ OrderOf(book, r).side \in Side
    BY DEF Good, Proper, ProperOrder, Orders
<1>2. Agrees(Rebuilt("B"), book.bids) /\ Agrees(Rebuilt("S"), book.asks)
    BY GoodAgrees DEF Good, Sound
<1> QED BY <1>1, <1>2 DEF invariant_ok
-----------------------------------------------------------------------------
(* The book implements the reference book. *)

\* Reference!Totals, of any orders.
TotalsOf(O, side) ==
    LET shares == [r \in DOMAIN O |-> O[r].shares]
    IN  [p \in {O[r].price : r \in {q \in DOMAIN O : O[q].side = side}} |->
            SumFunctionOnSet(shares, {r \in DOMAIN O : O[r].side = side /\ O[r].price = p})]

\* The levels are a function of the orders.
LEMMA QuotesTotals ==
    ASSUME NEW L, NEW O, NEW side, Quotes(L, O, side)
    PROVE  L = TotalsOf(O, side)
<1>1. DOMAIN TotalsOf(O, side) = {O[r].price : r \in {q \in DOMAIN O : O[q].side = side}}
    BY DEF TotalsOf
<1>2. \A p : p \in DOMAIN TotalsOf(O, side) <=> Rests(O, side, p) # {}
    BY <1>1 DEF Rests
<1>3. DOMAIN L = DOMAIN TotalsOf(O, side)
    BY <1>2 DEF Quotes
<1>4. \A p \in DOMAIN TotalsOf(O, side) : TotalsOf(O, side)[p] = LevelSum(O, side, p)
    BY DEF TotalsOf, LevelSum, Rests, Qty
<1>5. \A p \in DOMAIN L : L[p] = LevelSum(O, side, p)
    BY DEF Quotes, At
<1>6. TotalsOf(O, side) = [p \in DOMAIN TotalsOf(O, side) |-> TotalsOf(O, side)[p]]
    BY DEF TotalsOf
<1>7. L = [p \in DOMAIN L |-> L[p]]
    BY DEF Quotes
<1> QED BY <1>3, <1>4, <1>5, <1>6, <1>7

LEMMA GoodTotals ==
    ASSUME NEW b, Good(b)
    PROVE  b.bids = TotalsOf(Orders(b), "B") /\ b.asks = TotalsOf(Orders(b), "S")
BY QuotesTotals DEF Good

\* The reference book takes its sums from its own instance of the library.
LEMMA ReferenceSum == \A f, S : Reference!SumFunctionOnSet(f, S) = SumFunctionOnSet(f, S)
BY DEF Reference!SumFunctionOnSet, Reference!FoldFunctionOnSet, Reference!MapThenFoldSet,
       SumFunctionOnSet, FoldFunctionOnSet, MapThenFoldSet

LEMMA GoodQuoted == Good(book) => Reference!Quoted
<1> SUFFICES ASSUME Good(book) PROVE Reference!Quoted
    OBVIOUS
<1>1. \A side : Reference!Totals(side) = TotalsOf(Orders(book), side)
    BY ReferenceSum
       DEF Reference!Totals, Reference!Prices, Reference!Resting, TotalsOf, Orders
<1> QED BY <1>1, GoodTotals DEF Reference!Quoted

\* Each message of the feed is an operation of the reference book, or nothing.
LEMMA ReferenceStep ==
    ASSUME Good(book), Good(book'), NEW m \in Message, Conforms(m), book' = apply(book, m)
    PROVE  \/ Orders(book') = Orders(book)
           \/ \E ref \in Ref, n \in 1 .. MaxShares :
                \/ \E s \in {"B", "S"}, p \in Price : Reference!Add(ref, s, p, n)
                \/ Reference!Reduce(ref, n)
                \/ Reference!Remove(ref)
                \/ \E new \in Ref, p \in Price : Reference!Replace(ref, new, p, n)
<1> DEFINE O == Orders(book)
           P == Orders(book')
<1>0. /\ O = [r \in DOMAIN book.index |-> OrderOf(book, r)]
      /\ P = [r \in DOMAIN book.index |-> OrderOf(book, r)]'
      /\ DOMAIN O = DOMAIN book.index
    BY DEF Orders, OrderOf
<1>1. \A ref, s, p, n : Reference!Add(ref, s, p, n) <=>
          ref \notin DOMAIN O /\ P = WithOrder(O, ref, [side |-> s, price |-> p, shares |-> n])
    BY <1>0 DEF Reference!Add, Reference!With, Reference!Order, WithOrder
<1>2. \A ref, n : Reference!Reduce(ref, n) <=>
          ref \in DOMAIN O /\ P = IF n < O[ref].shares THEN [O EXCEPT ![ref].shares = @ - n]
                                                       ELSE WithoutOrder(O, ref)
    BY <1>0 DEF Reference!Reduce, Reference!Without, WithoutOrder
<1>3. \A ref : Reference!Remove(ref) <=> ref \in DOMAIN O /\ P = WithoutOrder(O, ref)
    BY <1>0 DEF Reference!Remove, Reference!Without, WithoutOrder
<1>4. \A ref, new, p, n : Reference!Replace(ref, new, p, n) <=>
          /\ ref \in DOMAIN O /\ (new \in DOMAIN O => new = ref)
          /\ P = WithOrder(WithoutOrder(O, ref), new,
                           [side |-> O[ref].side, price |-> p, shares |-> n])
    BY <1>0 DEF Reference!Replace, Reference!Without, Reference!With, Reference!Order,
                WithOrder, WithoutOrder
<1>5. ASSUME NEW ref, Knows(book, ref)
      PROVE  /\ ref \in DOMAIN O /\ ref \in Ref /\ O[ref] = OrderOf(book, ref)
             /\ O[ref].shares \in 1 .. MaxShares
  <2>1. ref \in DOMAIN O /\ O[ref] = OrderOf(book, ref)
      BY <1>0, <1>5 DEF Knows
  <2>2. ref \in Ref
      BY <1>5 DEF Knows, Good, Sound, IndexOK
  <2>3. ProperOrder(O[ref])
      BY <2>1 DEF Good, Proper
  <2>4. O[ref].shares \in 1 .. MaxShares
      BY <2>3, MaxSharesAssumption DEF ProperOrder, Order, Shares
  <2> QED BY <2>1, <2>2, <2>4
<1>6. \A ref : ref \in DOMAIN O <=> Knows(book, ref)
    BY <1>0 DEF Knows
<1>7. \A n \in Shares : n # 0 => n \in 1 .. MaxShares
    BY MaxSharesAssumption DEF Shares
<1>8. \A side : LevelsAt(book, side) = LevelsOf(side)
    BY DEF LevelsAt, LevelsOf
<1> HIDE DEF O, P
<1>9. CASE m \in [type : {"add"}, ref : Ref, side : AnySide, price : Price, shares : Shares]
  <2>1. apply(book, m) = add(book, m.ref, m.side, m.price, m.shares)
      BY <1>9 DEF apply
  <2>2. CASE m.shares = 0
      BY <2>1, <2>2 DEF add
  <2>3. CASE m.shares # 0
    <3>1. ~Knows(book, m.ref) /\ m.side \in Side
          /\ At(LevelsAt(book, m.side), m.price) + m.shares < QtyMod
        BY <1>8, <1>9 DEF Conforms
    <3>2. m.ref \in Ref /\ m.price \in Price /\ m.shares \in Shares \ {0}
        BY <1>9, <2>3
    <3>3. P = WithOrder(O, m.ref, [side |-> m.side, price |-> m.price, shares |-> m.shares])
        BY <2>1, <3>1, <3>2, AddGood DEF O, P
    <3>4. Reference!Add(m.ref, m.side, m.price, m.shares)
        BY <1>1, <1>6, <3>1, <3>3
    <3> QED BY <1>7, <3>1, <3>2, <3>4 DEF Side
  <2> QED BY <2>2, <2>3
<1>10. CASE m \in [type : {"reduce"}, ref : Ref, shares : Shares]
  <2>1. apply(book, m) = reduce(book, m.ref, m.shares) /\ m.shares \in Shares /\ m.ref \in Ref
      BY <1>10 DEF apply
  <2>2. CASE ~Knows(book, m.ref)
      BY <2>1, <2>2 DEF reduce
  <2>3. CASE Knows(book, m.ref)
    <3>1. P = IF m.shares < O[m.ref].shares THEN [O EXCEPT ![m.ref].shares = @ - m.shares]
                                            ELSE WithoutOrder(O, m.ref)
        BY <1>5, <2>1, <2>3, ReduceAll, ReducePart DEF O, P
    <3>2. CASE m.shares # 0
        BY <1>2, <1>5, <1>7, <2>1, <2>3, <3>1, <3>2
    <3>3. CASE m.shares = 0
      <4>1. 0 < O[m.ref].shares /\ O[m.ref].shares - 0 = O[m.ref].shares
          BY <1>5, <2>3
      <4>2. O[m.ref] = [O[m.ref] EXCEPT !.shares = @ - 0]
          BY <1>5, <2>3, <4>1, KnownOrder DEF Order, Good
      <4>3. O = [r \in DOMAIN O |-> O[r]]
          BY DEF O, Orders
      <4>4. P = O
          BY <3>1, <3>3, <4>1, <4>2, <4>3
      <4> QED BY <4>4 DEF O, P
    <3> QED BY <3>2, <3>3
  <2> QED BY <2>2, <2>3
<1>11. CASE m \in [type : {"remove"}, ref : Ref]
  <2>1. apply(book, m) = remove(book, m.ref) /\ m.ref \in Ref
      BY <1>11 DEF apply
  <2>2. CASE ~Knows(book, m.ref)
      BY <2>1, <2>2 DEF remove
  <2>3. CASE Knows(book, m.ref)
      BY <1>3, <1>5, <2>1, <2>3, RemoveGood DEF O, P
  <2> QED BY <2>2, <2>3
<1>12. CASE m \in [type : {"replace"}, ref : Ref, new : Ref, shares : Shares, price : Price]
  <2>1. apply(book, m) = replace(book, m.ref, m.new, m.shares, m.price) /\ m.ref \in Ref
      BY <1>12 DEF apply
  <2>2. CASE ~Knows(book, m.ref)
      BY <2>1, <2>2 DEF replace
  <2>3. CASE Knows(book, m.ref) /\ m.shares = 0
    <3>1. apply(book, m) = remove(book, m.ref)
        BY <2>1, <2>3 DEF replace, add
    <3> QED BY <1>3, <1>5, <2>1, <2>3, <3>1, RemoveGood DEF O, P
  <2>4. CASE Knows(book, m.ref) /\ m.shares # 0
    <3>1. /\ ~Knows(book, m.new) \/ m.new = m.ref
          /\ At(LevelsAt(book, OrderOf(book, m.ref).side), m.price) + m.shares
                  < QtyMod + TakenOff(book, m.ref, m.price)
        BY <1>8, <1>12, <2>4 DEF Conforms
    <3>2. m.new \in Ref /\ m.price \in Price /\ m.shares \in Shares \ {0}
        BY <1>12, <2>4
    <3>3. P = WithOrder(WithoutOrder(O, m.ref), m.new,
                        [side |-> OrderOf(book, m.ref).side, price |-> m.price,
                         shares |-> m.shares])
        BY <2>1, <2>4, <3>1, <3>2, ReplaceGood DEF O, P
    <3>4. Reference!Replace(m.ref, m.new, m.price, m.shares)
        BY <1>4, <1>5, <1>6, <2>4, <3>1, <3>3
    <3> QED BY <1>7, <2>1, <3>2, <3>4
  <2> QED BY <2>2, <2>3, <2>4
<1>13. CASE m \in [type : {"other"}]
    BY <1>13 DEF apply
<1> QED BY <1>9, <1>10, <1>11, <1>12, <1>13 DEF Message

LEMMA ReferenceNext == Good(book) /\ [Next]_book => [Reference!Next]_(Reference!vars)
<1> SUFFICES ASSUME Good(book), [Next]_book PROVE [Reference!Next]_(Reference!vars)
    OBVIOUS
<1>1. Good(book')
    BY NextGood DEF Good, Sound, Fields, SlotsOK, IndexOK, Unaliased, Orders, OrderOf
<1>2. Reference!Quoted'
  <2>1. \A side : Reference!Totals(side)' = TotalsOf(Orders(book'), side)
      BY ReferenceSum
         DEF Reference!Totals, Reference!Prices, Reference!Resting, TotalsOf, Orders, OrderOf
  <2> QED BY <1>1, <2>1, GoodTotals DEF Reference!Quoted
<1>3. ASSUME Orders(book') = Orders(book) PROVE UNCHANGED Reference!vars
  <2>1. book'.bids = book.bids /\ book'.asks = book.asks
      BY <1>1, <1>3, GoodTotals
  <2> QED BY <1>3, <2>1 DEF Reference!vars, Orders, OrderOf
<1>4. CASE book' = book
    BY <1>3, <1>4
<1>5. CASE \E m \in Message : Conforms(m) /\ book' = apply(book, m)
  <2>1. PICK m \in Message : Conforms(m) /\ book' = apply(book, m)
      BY <1>5
  <2> QED BY <1>1, <1>2, <1>3, <2>1, ReferenceStep DEF Reference!Next
<1> QED BY <1>4, <1>5 DEF Next, Apply, Add, Reduce, Remove, Replace, Ignore

LEMMA ReferenceInit == Init => Reference!Init
<1> SUFFICES ASSUME Init PROVE Reference!Init
    OBVIOUS
<1>1. Reference!Quoted
    BY InitGood, GoodQuoted
<1>2. DOMAIN book.index = {}
    BY DEF Init, NewBook
<1> QED BY <1>1, <1>2 DEF Reference!Init
-----------------------------------------------------------------------------
(* Theorems. *)

\* Whatever sequence of messages the decoder hands to apply(), conforming or not,
\* every part of the book keeps its type: totals stay in 32 bits, handles in the pool.
THEOREM AnyTypeCorrect == AnySpec => []TypeOK
<1>1. AnySpec => []Sound(book)
    BY InitSound, NextSound, PTL DEF AnySpec
<1> QED BY <1>1, SoundMeans, PTL

\* Whatever sequence of messages arrives, no two references share a pool slot, and
\* alloc() never hands out a slot that is still referenced.
THEOREM AnyNeverAliased == AnySpec => []NoAliasing
<1>1. AnySpec => []Sound(book)
    BY InitSound, NextSound, PTL DEF AnySpec
<1> QED BY <1>1, SoundMeans, PTL

\* While the feed conforms no slot of the pool leaks, whatever is added, executed,
\* cancelled, deleted or replaced: live() is order_count().
THEOREM ConformingNeverLeaks == Spec => []NoLeak
<1> DEFINE Inv == Sound(book) /\ Balanced(book)
<1>1. Init => Inv
  <2> SUFFICES ASSUME Init PROVE Balanced(book)
      BY InitSound
  <2>1. book.slots = <<>> /\ book.free = <<>> /\ DOMAIN book.index = {}
      BY DEF Init, NewBook
  <2> QED BY <2>1, FS_EmptySet DEF Balanced
<1>2. Inv /\ [Next]_book => Inv'
  <2> SUFFICES ASSUME Inv, [Next]_book PROVE Balanced(book')
      BY NextSound DEF Balanced
  <2>1. CASE book' = book
      BY <2>1
  <2>2. CASE \E m \in Message : Conforms(m) /\ book' = apply(book, m)
      BY <2>2, ApplyBalanced
  <2> QED BY <2>1, <2>2 DEF Next, Apply, Add, Reduce, Remove, Replace, Ignore
<1>3. Inv => NoLeak
    BY DEF Balanced, NoLeak
<1> QED BY <1>1, <1>2, <1>3, PTL DEF Spec

\* While the feed conforms, invariant_ok() holds after every message: the totals that
\* inc_level() and dec_level() maintain step by step are the ones recomputed from the
\* resting orders, on every level of both sides, and no resting order is empty or
\* without a side.
THEOREM ConformingInvariantOk == Spec => []invariant_ok
BY InitGood, NextGood, GoodMeans, PTL DEF Spec

\* While the feed conforms, the book with its pool, index and incremental levels
\* implements the reference book: each message is one operation on the orders it names,
\* or nothing, and the levels are the totals of the orders.
THEOREM ConformingImplementsReference == Spec => ImplementsReference
<1>1. Spec => []Good(book)
    BY InitGood, NextGood, PTL DEF Spec
<1> QED BY <1>1, ReferenceInit, ReferenceNext, PTL DEF Spec, ImplementsReference, Reference!Spec
=============================================================================
