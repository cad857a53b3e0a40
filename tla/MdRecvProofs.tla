---------------------------- MODULE MdRecvProofs ----------------------------
(***************************************************************************)
(* Proofs about the receiver, for every stream, every number of messages   *)
(* per packet, every loss and delay, and whichever datagrams the receive   *)
(* buffer cuts short: MoldSession's gap count is exact, no gap means the   *)
(* exact book, and what is lost or late never leaves the book              *)
(* inconsistent.                                                           *)
(***************************************************************************)
EXTENDS MdRecv, FiniteSetTheorems, NaturalsInduction, WellFoundedInduction, TLAPS

\* The lemmas about the operations of the book.
P == INSTANCE OrderBookProofs

-----------------------------------------------------------------------------
(* The gaps. *)

\* While everything came in order, what arrived lies between the first message
\* received and the next one expected, and gaps_ counts the holes.
GapInv ==
    /\ gaps \in Nat /\ expected \in Int /\ first \in Int
    /\ started \in BOOLEAN /\ inorder \in BOOLEAN
    /\ ~started => gaps = 0 /\ arrived = {}
    /\ started /\ inorder =>
            /\ first <= expected
            /\ arrived \subseteq first .. expected - 1
            /\ gaps = Cardinality((first .. expected - 1) \ arrived)

-----------------------------------------------------------------------------
(* The datagrams of packetize_mold. *)

LEMMA Quotient ==
    ASSUME NEW M \in Nat, M > 0, NEW a \in Nat
    PROVE  /\ a \div M \in Int
           /\ a % M \in 0 .. M - 1
           /\ a = M * (a \div M) + (a % M)
    BY SMT

LEMMA DivBound ==
    ASSUME NEW a \in Nat, NEW p \in Nat, p > 0, NEW k \in Nat, k <= a \div p
    PROVE  k * p <= a
<1>1. /\ a \div p \in Int /\ a % p \in 0 .. p - 1
      /\ a = p * (a \div p) + (a % p)
    BY Quotient
<1>2. PICK q \in Int, r \in 0 .. p - 1 : q = a \div p /\ r = a % p
    BY <1>1
<1>6. a = p * q + r
    BY <1>1, <1>2
<1>3. q >= k /\ a >= p * q
    BY <1>2, <1>6
<1>4. PICK d \in Nat : q = k + d
    BY <1>3
<1>5. p * q = k * p + d * p /\ d * p >= 0
    BY <1>4
<1> QED BY <1>3, <1>5

\* A datagram before the end of the session carries at least one message; the receive
\* buffer may cut off any number of them.
LEMMA PacketShape ==
    ASSUME NEW k \in Packet, k # EndOfSession
    PROVE  /\ SeqOf(k) \in Nat \ {0} /\ BlocksOf(k) \in Nat
           /\ SeqOf(k) + BlocksOf(k) - 1 <= NumMsg
           /\ SeqOf(k) + BlocksOf(k) <= SeqOf(k + 1)
<1> DEFINE N == NumMsg
           P0 == PerPacket
<1>1. N \in Nat /\ P0 \in Nat /\ P0 > 0
    BY StreamAssumption
<1>2. (N + P0 - 1) \div P0 \in Int
    BY <1>1
<1>3. k \in Nat /\ k >= 1 /\ k <= (N + P0 - 1) \div P0
    BY <1>2 DEF Packet, EndOfSession
<1>4. k * P0 <= N + P0 - 1
  <2>1. N + P0 - 1 \in Nat
      BY <1>1
  <2> QED BY <1>1, <1>3, <2>1, DivBound
<1>5. PICK m \in Nat : m = k - 1
    BY <1>3
<1>6. k * P0 = m * P0 + P0 /\ m * P0 \in Nat
    BY <1>1, <1>3, <1>5
<1>7. m * P0 <= N - 1
    BY <1>1, <1>4, <1>6
<1>8. CountOf(k) \in Nat /\ CountOf(k) >= 1 /\ CountOf(k) <= P0 /\ CountOf(k) <= N - m * P0
    BY <1>1, <1>5, <1>6, <1>7 DEF CountOf, Min2
<1>9. SeqOf(k) = m * P0 + 1 /\ SeqOf(k + 1) = k * P0 + 1
    BY <1>1, <1>3, <1>5 DEF SeqOf
<1>10. BlocksOf(k) \in Nat /\ BlocksOf(k) <= CountOf(k)
  <2>1. k \in 1 .. EndOfSession - 1
      BY <1>2, <1>3 DEF EndOfSession
  <2>2. Fits[k] \in Nat
      BY <2>1, FitsAssumption
  <2> QED BY <1>8, <2>2 DEF BlocksOf, Min2
<1>11. SeqOf(k) + BlocksOf(k) - 1 <= NumMsg
    BY <1>1, <1>6, <1>8, <1>9, <1>10
<1>12. SeqOf(k) + BlocksOf(k) <= SeqOf(k + 1)
    BY <1>1, <1>6, <1>8, <1>9, <1>10
<1>13. SeqOf(k) \in Nat \ {0}
    BY <1>6, <1>9
<1> QED BY <1>10, <1>11, <1>12, <1>13

-----------------------------------------------------------------------------
HoleCount(f, e, A) == Cardinality((f .. e - 1) \ A)

InOrder(f, e, s, b, A, A2) ==
    /\ f \in Int /\ e \in Int /\ s \in Int /\ b \in Nat
    /\ f <= e /\ e <= s
    /\ A \subseteq f .. e - 1
    /\ A2 = A \cup (s .. s + b - 1)

\* The holes after a datagram of b messages from number s on: the old ones and those
\* jumped over.
LEMMA Holes ==
    ASSUME NEW f, NEW e, NEW s, NEW b, NEW A, NEW A2, InOrder(f, e, s, b, A, A2)
    PROVE  /\ A2 \subseteq f .. s + b - 1
           /\ HoleCount(f, s + b, A2) = HoleCount(f, e, A) + (s - e)
<1>0. /\ f \in Int /\ e \in Int /\ s \in Int /\ b \in Nat /\ f <= e /\ e <= s
      /\ A \subseteq f .. e - 1 /\ A2 = A \cup (s .. s + b - 1)
    BY DEF InOrder
<1> USE <1>0
<1> DEFINE Old == (f .. e - 1) \ A
           Jumped == e .. s - 1
<1>1. A2 \subseteq f .. s + b - 1
    OBVIOUS
<1>2. (f .. s + b - 1) \ A2 = Old \cup Jumped /\ Old \cap Jumped = {}
  <2>1. ASSUME NEW x PROVE x \in (f .. s + b - 1) \ A2 <=> x \in Old \cup Jumped
      OBVIOUS
  <2>2. Old \cap Jumped = {}
      OBVIOUS
  <2> QED BY <2>1, <2>2
<1>3. IsFiniteSet(f .. e - 1) /\ IsFiniteSet(Jumped) /\ Cardinality(Jumped) = s - e
  <2>1. IsFiniteSet(f .. e - 1)
      BY FS_Interval
  <2>2. IsFiniteSet(Jumped) /\ Cardinality(Jumped) = IF e > s - 1 THEN 0 ELSE (s - 1) - e + 1
      BY FS_Interval
  <2> QED BY <2>1, <2>2
<1>4. IsFiniteSet(Old)
    BY <1>3, FS_Subset
<1> HIDE DEF Old, Jumped
<1>5. /\ Cardinality(Old \cup Jumped)
             = Cardinality(Old) + Cardinality(Jumped) - Cardinality(Old \cap Jumped)
      /\ Cardinality(Old) \in Nat
    BY <1>3, <1>4, FS_Union, FS_CardinalityType
<1>6. Cardinality(Old \cap Jumped) = 0
    BY <1>2, FS_EmptySet
<1>7. Cardinality((f .. s + b - 1) \ A2) = Cardinality(Old) + (s - e)
  <2>1. Cardinality((f .. s + b - 1) \ A2) = Cardinality(Old \cup Jumped)
      BY <1>2
  <2>2. Cardinality(Old \cup Jumped) = Cardinality(Old) + (s - e) - 0
      BY <1>3, <1>5, <1>6
  <2> QED BY <1>5, <2>1, <2>2
<1> QED BY <1>1, <1>7 DEF Old, HoleCount

LEMMA GapInit == Init => GapInv
<1> SUFFICES ASSUME Init PROVE GapInv
    OBVIOUS
<1>1. started \in BOOLEAN /\ inorder \in BOOLEAN /\ ~started
    BY DEF Init, MoldInit
<1>2. gaps = 0 /\ expected = 0 /\ first = 0 /\ arrived = {}
    BY DEF Init, MoldInit
<1> QED BY <1>1, <1>2 DEF GapInv

LEMMA OnMessagesKeeps ==
    ASSUME GapInv, NEW k \in Packet, k # EndOfSession, OnMessages(k)
    PROVE  GapInv'
<1>1. PICK s \in Int, b \in Nat : s = SeqOf(k) /\ b = BlocksOf(k)
    BY PacketShape
<1>2. /\ gaps' = gaps + (IF started /\ s > expected THEN s - expected ELSE 0)
      /\ started' = TRUE /\ expected' = s + b
      /\ first' = (IF started THEN first ELSE s)
      /\ arrived' = arrived \cup (s .. s + b - 1)
      /\ inorder' = IF started /\ s < expected THEN FALSE ELSE inorder
    BY <1>1 DEF OnMessages, Missed, NextExpected, Blocks
<1>3. gaps \in Nat /\ expected \in Int /\ first \in Int
      /\ started \in BOOLEAN /\ inorder \in BOOLEAN
    BY DEF GapInv
<1>0. started' \in BOOLEAN /\ started' /\ inorder' \in BOOLEAN
    BY <1>2, <1>3
<1>4. CASE ~started
  <2>1. gaps' = 0 /\ arrived' = s .. s + b - 1 /\ first' = s
      BY <1>2, <1>4 DEF GapInv
  <2>2. (s .. s + b - 1) \ (s .. s + b - 1) = {} /\ Cardinality({}) = 0
      BY FS_EmptySet
  <2>3. (first' .. expected' - 1) \ arrived' = {}
      BY <1>2, <2>1, <2>2
  <2>4. gaps' = Cardinality((first' .. expected' - 1) \ arrived')
      BY <2>1, <2>2, <2>3
  <2>5. first' <= expected' /\ arrived' \subseteq first' .. expected' - 1
      BY <1>1, <1>2, <2>1
  <2>6. gaps' \in Nat /\ expected' \in Int /\ first' \in Int
      BY <1>1, <1>2, <2>1
  <2> QED BY <1>0, <2>4, <2>5, <2>6 DEF GapInv
<1>5. CASE started /\ s < expected
  <2>1. gaps' = gaps /\ first' = first
      BY <1>1, <1>2, <1>3, <1>5
  <2>2. ~inorder'
      BY <1>2, <1>5
  <2>3. gaps' \in Nat /\ expected' \in Int /\ first' \in Int
      BY <1>1, <1>2, <1>3, <2>1
  <2> QED BY <1>0, <2>2, <2>3 DEF GapInv
<1>6. CASE started /\ s >= expected
  <2>0. ~(s < expected)
      BY <1>1, <1>3, <1>6
  <2>1. gaps' = gaps + (s - expected) /\ first' = first
      BY <1>1, <1>2, <1>3, <1>6
  <2>5. inorder' = inorder
      BY <1>2, <2>0
  <2>2. gaps' \in Nat /\ expected' \in Int /\ first' \in Int
      BY <1>1, <1>2, <1>3, <1>6, <2>1
  <2>3. CASE ~inorder
      BY <1>0, <2>2, <2>3, <2>5 DEF GapInv
  <2>4. CASE inorder
    <3>1. /\ first <= expected /\ arrived \subseteq first .. expected - 1
          /\ gaps = Cardinality((first .. expected - 1) \ arrived)
        BY <1>6, <2>4 DEF GapInv
    <3>2. /\ arrived' \subseteq first .. s + b - 1
          /\ HoleCount(first, s + b, arrived') = HoleCount(first, expected, arrived) + (s - expected)
      <4>1. first <= expected /\ expected <= s
          BY <1>1, <1>3, <1>6, <3>1
      <4>2. arrived \subseteq first .. expected - 1 /\ arrived' = arrived \cup (s .. s + b - 1)
          BY <1>2, <3>1
      <4>3. first \in Int /\ expected \in Int /\ s \in Int /\ b \in Nat
          BY <1>1, <1>3
      <4>4. InOrder(first, expected, s, b, arrived, arrived')
          BY <4>1, <4>2, <4>3 DEF InOrder
      <4> QED BY <4>4, Holes
    <3>3. expected' - 1 = s + b - 1 /\ first <= s + b
        BY <1>1, <1>2, <1>3, <1>6, <3>1
    <3>4. gaps' = Cardinality((first' .. expected' - 1) \ arrived')
        BY <2>1, <3>1, <3>2, <3>3 DEF HoleCount
    <3>5. first' <= expected' /\ arrived' \subseteq first' .. expected' - 1
        BY <1>2, <2>1, <3>2, <3>3
    <3> QED BY <1>0, <2>2, <3>4, <3>5 DEF GapInv
  <2> QED BY <2>3, <2>4
<1>7. started => s < expected \/ s >= expected
    BY <1>1, <1>3
<1> QED BY <1>4, <1>5, <1>6, <1>7

LEMMA GapNext == GapInv /\ [Next]_moldVars => GapInv'
<1> SUFFICES ASSUME GapInv, [Next]_moldVars PROVE GapInv'
    OBVIOUS
<1>1. ASSUME UNCHANGED <<expected, gaps, started, first, arrived, inorder>> PROVE GapInv'
    BY <1>1 DEF GapInv
<1>2. CASE Send \/ IdleTimeout \/ UNCHANGED moldVars
    BY <1>1, <1>2 DEF Send, IdleTimeout, moldVars, session
<1>3. ASSUME NEW k \in Packet, Receive(k) PROVE GapInv'
  <2>1. CASE k = EndOfSession
      BY <1>1, <1>3, <2>1 DEF Receive, OnEnd
  <2>2. CASE k # EndOfSession
      BY <1>3, <2>2, OnMessagesKeeps DEF Receive
  <2> QED BY <2>1, <2>2
<1> QED BY <1>2, <1>3 DEF Next
-----------------------------------------------------------------------------
(* The operations of the receiver's book are those the lemmas speak of. *)

LEMMA SameApply == \A b, m : B!apply(b, m) = P!apply(b, m)
<1>1. \A l, p : B!At(l, p) = P!At(l, p)
    BY DEF B!At, P!At
<1>2. \A l, p, q : B!Inc(l, p, q) = P!Inc(l, p, q) /\ B!Dec(l, p, q) = P!Dec(l, p, q)
    BY <1>1 DEF B!Inc, P!Inc, B!Dec, P!Dec
<1>3. \A b, r : B!Knows(b, r) = P!Knows(b, r) /\ B!OrderOf(b, r) = P!OrderOf(b, r)
    BY DEF B!Knows, P!Knows, B!OrderOf, P!OrderOf
<1>4. \A b : B!AllocHandle(b) = P!AllocHandle(b)
    BY DEF B!AllocHandle, P!AllocHandle
<1>5. \A b, o : B!Alloc(b, o) = P!Alloc(b, o)
    BY <1>4 DEF B!Alloc, P!Alloc
<1>6. \A b, r, h : B!SetIndex(b, r, h) = P!SetIndex(b, r, h)
    BY DEF B!SetIndex, P!SetIndex
<1>7. \A b, r : B!Erase(b, r) = P!Erase(b, r)
    BY DEF B!Erase, P!Erase, B!Free, P!Free
<1>8. \A b, s, p, q : B!inc_level(b, s, p, q) = P!inc_level(b, s, p, q)
    BY <1>2 DEF B!inc_level, P!inc_level
<1>9. \A b, s, p, q : B!dec_level(b, s, p, q) = P!dec_level(b, s, p, q)
    BY <1>2 DEF B!dec_level, P!dec_level
<1>10. \A b, r, s, p, n : B!add(b, r, s, p, n) = P!add(b, r, s, p, n)
    BY <1>4, <1>5, <1>6, <1>8 DEF B!add, P!add
<1>11. \A b, r, n : B!reduce(b, r, n) = P!reduce(b, r, n)
    BY <1>3, <1>7, <1>9 DEF B!reduce, P!reduce
<1>12. \A b, r : B!remove(b, r) = P!remove(b, r)
    BY <1>3, <1>7, <1>9 DEF B!remove, P!remove
<1>13. \A b, r, n, h, p : B!replace(b, r, n, h, p) = P!replace(b, r, n, h, p)
    BY <1>3, <1>10, <1>12 DEF B!replace, P!replace
<1> QED BY <1>10, <1>11, <1>12, <1>13 DEF B!apply, P!apply

LEMMA SameBook ==
    /\ B!NewBook = P!NewBook /\ B!Message = P!Message /\ B!Side = P!Side
    /\ B!invariant_ok = P!invariant_ok
<1>1. B!NewBook = P!NewBook
    BY DEF B!NewBook, P!NewBook, B!EmptyLevels, P!EmptyLevels
<1>2. B!Message = P!Message
    BY DEF B!Message, P!Message, B!AnySide, P!AnySide, B!Side, P!Side, B!Shares, P!Shares
<1>3. \A b, r : B!OrderOf(b, r) = P!OrderOf(b, r)
    BY DEF B!OrderOf, P!OrderOf
<1>4. B!Side = P!Side
    BY DEF B!Side, P!Side
<1>5. \A s : B!OnSide(s) = P!OnSide(s)
    BY <1>3 DEF B!OnSide, P!OnSide
<1>6. \A f, S : B!SumFunctionOnSet(f, S) = P!SumFunctionOnSet(f, S)
    BY DEF B!SumFunctionOnSet, B!FoldFunctionOnSet, B!MapThenFoldSet,
           P!SumFunctionOnSet, P!FoldFunctionOnSet, P!MapThenFoldSet
<1>7. ASSUME NEW s PROVE B!Rebuilt(s) = P!Rebuilt(s)
  <2> DEFINE bs == [r \in DOMAIN book.index |-> B!OrderOf(book, r).shares]
             ps == [r \in DOMAIN book.index |-> P!OrderOf(book, r).shares]
             at(p) == {r \in B!OnSide(s) : B!OrderOf(book, r).price = p}
             pt(p) == {r \in P!OnSide(s) : P!OrderOf(book, r).price = p}
             D == {B!OrderOf(book, r).price : r \in B!OnSide(s)}
             E == {P!OrderOf(book, r).price : r \in P!OnSide(s)}
  <2>1. bs = ps
      BY <1>3
  <2>2. \A p : at(p) = pt(p)
      BY <1>3, <1>5
  <2>3. D = E
      BY <1>3, <1>5
  <2>4. B!Rebuilt(s) = [p \in D |-> B!SumFunctionOnSet(bs, at(p)) % QtyMod]
      BY DEF B!Rebuilt
  <2>5. P!Rebuilt(s) = [p \in E |-> P!SumFunctionOnSet(ps, pt(p)) % QtyMod]
      BY DEF P!Rebuilt
  <2> HIDE DEF bs, ps, at, pt, D, E
  <2>6. \A p : B!SumFunctionOnSet(bs, at(p)) = P!SumFunctionOnSet(ps, pt(p))
      BY <1>6, <2>1, <2>2
  <2> QED BY <2>3, <2>4, <2>5, <2>6
<1>8. \A l, r : B!Agrees(r, l) = P!Agrees(r, l)
  <2>1. \A S : B!Cardinality(S) = P!Cardinality(S)
      BY DEF B!Cardinality, P!Cardinality, B!IsFiniteSet, P!IsFiniteSet
  <2> QED BY <2>1 DEF B!Agrees, P!Agrees, B!At, P!At
<1>9. B!invariant_ok = P!invariant_ok
    BY <1>3, <1>4, <1>7, <1>8 DEF B!invariant_ok, P!invariant_ok
<1> QED BY <1>1, <1>2, <1>4, <1>9
-----------------------------------------------------------------------------
(* The messages of a datagram, one after the other. *)

LEMMA LeastNat ==
    ASSUME NEW T, T \subseteq Nat, T # {}
    PROVE  \E x \in T : \A y \in T : x <= y
<1>1. IsWellFoundedOn(OpToRel(<, Nat), Nat)
    BY NatLessThanWellFounded
<1>2. PICK x \in T : \A y \in T : ~ (<<y, x>> \in OpToRel(<, Nat))
    BY <1>1, WFMin
<1>3. \A y \in T : ~ (y < x)
    BY <1>2 DEF OpToRel
<1> QED BY <1>3

LEMMA Induction ==
    ASSUME NEW T, 0 \in T, \A k \in Nat : k \in T => k + 1 \in T
    PROVE  Nat \subseteq T
<1> SUFFICES ASSUME Nat \ T # {} PROVE FALSE
    OBVIOUS
<1>1. PICK x \in Nat \ T : \A y \in Nat \ T : x <= y
    BY LeastNat
<1>2. x # 0 /\ x - 1 \in Nat
    BY <1>1
<1>3. x - 1 \in T
    BY <1>1, <1>2
<1> QED BY <1>1, <1>2, <1>3

\* f[i] is the book after i messages from number s on, starting with b.
Steps(b, s, n, f) ==
    f = [i \in 0 .. n |-> IF i = 0 THEN b ELSE Take(f[i - 1], s + i - 1)]

LEMMA StepsUnfold ==
    ASSUME NEW b, NEW s, NEW n, NEW f, Steps(b, s, n, f), NEW i \in 0 .. n
    PROVE  f[i] = IF i = 0 THEN b ELSE Take(f[i - 1], s + i - 1)
    BY DEF Steps

LEMMA StepsExist ==
    ASSUME NEW b, NEW s, NEW n \in Nat
    PROVE  \E f : Steps(b, s, n, f)
<1> DEFINE T == {j \in Nat : \E f : Steps(b, s, j, f)}
<1>1. 0 \in T
  <2>1. Steps(b, s, 0, [i \in 0 .. 0 |-> b])
      BY DEF Steps
  <2> QED BY <2>1
<1>2. ASSUME NEW j \in Nat, j \in T PROVE j + 1 \in T
  <2>1. PICK f : Steps(b, s, j, f)
      BY <1>2
  <2> DEFINE g == [i \in 0 .. j + 1 |-> IF i = j + 1 THEN Take(f[j], s + i - 1) ELSE f[i]]
  <2>2. ASSUME NEW i \in 0 .. j + 1
        PROVE  g[i] = IF i = 0 THEN b ELSE Take(g[i - 1], s + i - 1)
    <3>1. CASE i = j + 1
      <4>1. i # 0 /\ i - 1 = j /\ j \in 0 .. j + 1 /\ j # j + 1
          BY <3>1
      <4>2. g[i] = Take(f[j], s + i - 1) /\ g[i - 1] = f[j]
          BY <3>1, <4>1
      <4> QED BY <4>1, <4>2
    <3>2. CASE i # j + 1
      <4>1. i \in 0 .. j /\ g[i] = f[i] /\ (i # 0 => g[i - 1] = f[i - 1])
          BY <3>2
      <4> HIDE DEF g
      <4> QED BY <2>1, <4>1, StepsUnfold
    <3> QED BY <3>1, <3>2
  <2>3. g = [i \in 0 .. j + 1 |-> g[i]]
      OBVIOUS
  <2> HIDE DEF g
  <2>4. Steps(b, s, j + 1, g)
      BY <2>2, <2>3 DEF Steps
  <2> QED BY <2>4
<1>3. Nat \subseteq T
  <2> HIDE DEF T
  <2> QED BY <1>1, <1>2, Induction
<1> QED BY <1>3

\* What a datagram makes of the book.
LEMMA ApplyAllSteps ==
    ASSUME NEW k \in Packet, k # EndOfSession
    PROVE  \E f : Steps(book, SeqOf(k), BlocksOf(k), f) /\ ApplyAll(k) = f[BlocksOf(k)]
<1> DEFINE f == CHOOSE g : Steps(book, SeqOf(k), BlocksOf(k), g)
<1>1. Steps(book, SeqOf(k), BlocksOf(k), f)
    BY PacketShape, StepsExist
<1>2. ApplyAll(k) = f[BlocksOf(k)]
    BY DEF ApplyAll, Steps
<1> QED BY <1>1, <1>2

-----------------------------------------------------------------------------
(* No gap: the exact book. *)

Exact(a, f) ==
    f = [n \in a - 1 .. NumMsg |-> IF n = a - 1 THEN B!NewBook ELSE Take(f[n - 1], n)]

\* The book after the messages a .. n of a lossless replay.
ExactBook(a, n) == (CHOOSE f : Exact(a, f))[n]

LEMMA ExactStep ==
    ASSUME NEW a \in 1 .. NumMsg + 1
    PROVE  /\ ExactBook(a, a - 1) = B!NewBook
           /\ \A n \in a .. NumMsg : ExactBook(a, n) = Take(ExactBook(a, n - 1), n)
<1> DEFINE e == CHOOSE f : Exact(a, f)
           len == NumMsg - a + 1
<1>0. NumMsg \in Nat /\ a \in Nat /\ a >= 1 /\ len \in Nat
    BY StreamAssumption
<1>1. PICK g : Steps(B!NewBook, a, len, g)
    BY <1>0, StepsExist
<1> DEFINE f == [n \in a - 1 .. NumMsg |-> g[n - a + 1]]
<1>2. \A n \in a - 1 .. NumMsg : f[n] = IF n = a - 1 THEN B!NewBook ELSE Take(f[n - 1], n)
  <2> SUFFICES ASSUME NEW n \in a - 1 .. NumMsg
               PROVE  f[n] = IF n = a - 1 THEN B!NewBook ELSE Take(f[n - 1], n)
      OBVIOUS
  <2>1. PICK i \in 0 .. len : i = n - a + 1
      BY <1>0
  <2>2. a + i - 1 = n /\ (i = 0 <=> n = a - 1)
      BY <1>0, <2>1
  <2>3. g[i] = IF i = 0 THEN B!NewBook ELSE Take(g[i - 1], a + i - 1)
      BY <1>1, StepsUnfold
  <2>4. f[n] = g[i]
      BY <2>1
  <2>5. ASSUME n # a - 1 PROVE f[n - 1] = g[i - 1]
    <3>1. n - 1 \in a - 1 .. NumMsg /\ (n - 1) - a + 1 = i - 1
        BY <1>0, <2>1, <2>5
    <3> QED BY <3>1
  <2> HIDE DEF f
  <2> QED BY <2>2, <2>3, <2>4, <2>5
<1>3. f = [n \in a - 1 .. NumMsg |-> f[n]]
    OBVIOUS
<1> HIDE DEF f
<1>4. Exact(a, f)
    BY <1>2, <1>3 DEF Exact
<1>5. Exact(a, e)
    BY <1>4
<1>6. \A n \in a - 1 .. NumMsg : e[n] = IF n = a - 1 THEN B!NewBook ELSE Take(e[n - 1], n)
  <2> HIDE DEF e
  <2> QED BY <1>5 DEF Exact
<1>7. \A n : ExactBook(a, n) = e[n]
    BY DEF ExactBook
<1> HIDE DEF e
<1>8. a - 1 \in a - 1 .. NumMsg /\ \A n \in a .. NumMsg : n \in a - 1 .. NumMsg /\ n # a - 1
    BY <1>0
<1> QED BY <1>6, <1>7, <1>8

\* Messages taken one after the other from the exact book on leave the exact book.
LEMMA StepsFromExact ==
    ASSUME NEW a \in 1 .. NumMsg + 1, NEW s \in Nat, a <= s, NEW n \in Nat, s + n - 1 <= NumMsg,
           NEW f, Steps(ExactBook(a, s - 1), s, n, f)
    PROVE  f[n] = ExactBook(a, s + n - 1)
<1> DEFINE T == {i \in Nat : i <= n => f[i] = ExactBook(a, s + i - 1)}
<1>1. 0 \in T
  <2>1. 0 \in 0 .. n /\ s + 0 - 1 = s - 1
      OBVIOUS
  <2> QED BY <2>1, StepsUnfold
<1>2. ASSUME NEW i \in Nat, i \in T PROVE i + 1 \in T
  <2> SUFFICES ASSUME i + 1 <= n PROVE f[i + 1] = ExactBook(a, s + (i + 1) - 1)
      OBVIOUS
  <2>1. f[i] = ExactBook(a, s + i - 1)
      BY <1>2
  <2>2. /\ i + 1 \in 0 .. n /\ i + 1 # 0 /\ (i + 1) - 1 = i
        /\ s + (i + 1) - 1 \in a .. NumMsg
        /\ (s + (i + 1) - 1) - 1 = s + i - 1
      BY StreamAssumption
  <2>3. f[i + 1] = Take(f[i], s + (i + 1) - 1)
      BY <2>2, StepsUnfold
  <2>4. ExactBook(a, s + (i + 1) - 1) = Take(ExactBook(a, s + i - 1), s + (i + 1) - 1)
      BY <2>2, ExactStep
  <2> QED BY <2>1, <2>3, <2>4
<1>3. Nat \subseteq T
  <2> HIDE DEF T
  <2> QED BY <1>1, <1>2, Induction
<1> QED BY <1>3

\* Without a gap the messages received are all those from the first one on.
SameInv ==
    /\ GapInv
    /\ ~started => book = B!NewBook
    /\ started /\ inorder /\ gaps = 0 =>
            /\ first \in 1 .. NumMsg + 1 /\ expected \in first .. NumMsg + 1
            /\ book = ExactBook(first, expected - 1)

LEMMA RecvMessagesSame ==
    ASSUME SameInv, NEW k \in Packet, k # EndOfSession, OnMessages(k), book' = ApplyAll(k)
    PROVE  SameInv'
<1>1. GapInv' /\ started'
    BY OnMessagesKeeps DEF SameInv, OnMessages
<1> SUFFICES ASSUME inorder', gaps' = 0
             PROVE  /\ first' \in 1 .. NumMsg + 1 /\ expected' \in first' .. NumMsg + 1
                    /\ book' = ExactBook(first', expected' - 1)
    BY <1>1 DEF SameInv
<1>2. PICK s \in Nat \ {0}, b \in Nat : s = SeqOf(k) /\ b = BlocksOf(k)
    BY PacketShape
<1>3. s + b - 1 <= NumMsg
    BY <1>2, PacketShape
<1>4. /\ gaps' = gaps + (IF started /\ s > expected THEN s - expected ELSE 0)
      /\ expected' = s + b /\ first' = (IF started THEN first ELSE s)
      /\ inorder' = IF started /\ s < expected THEN FALSE ELSE inorder
    BY <1>2 DEF OnMessages, Missed, NextExpected
<1>5. gaps \in Nat /\ expected \in Int
    BY DEF SameInv, GapInv
<1>6. first' \in 1 .. NumMsg + 1 /\ first' <= s /\ book = ExactBook(first', s - 1)
  <2>1. CASE ~started
    <3>1. first' = s
        BY <1>4, <2>1
    <3>2. s \in 1 .. NumMsg + 1
        BY <1>2, <1>3, StreamAssumption
    <3>3. book = ExactBook(s, s - 1)
        BY <2>1, <3>2, ExactStep DEF SameInv
    <3> QED BY <3>1, <3>2, <3>3
  <2>2. CASE started
    <3>1. ~(s < expected) /\ inorder /\ first' = first
        BY <1>4, <2>2
    <3>2. gaps = 0 /\ s = expected
        BY <1>2, <1>4, <1>5, <2>2, <3>1
    <3>3. /\ first \in 1 .. NumMsg + 1 /\ expected \in first .. NumMsg + 1
          /\ book = ExactBook(first, expected - 1)
        BY <2>2, <3>1, <3>2 DEF SameInv
    <3>4. first <= expected
        BY <3>3
    <3> QED BY <3>1, <3>2, <3>3, <3>4
  <2> QED BY <2>1, <2>2
<1>7. PICK f : Steps(book, s, b, f) /\ ApplyAll(k) = f[b]
    BY <1>2, ApplyAllSteps
<1>8. Steps(ExactBook(first', s - 1), s, b, f)
    BY <1>6, <1>7
<1>9. f[b] = ExactBook(first', s + b - 1)
    BY <1>3, <1>6, <1>8, StepsFromExact
<1>10. expected' - 1 = s + b - 1 /\ expected' \in first' .. NumMsg + 1
    BY <1>2, <1>3, <1>4, <1>6, StreamAssumption
<1> QED BY <1>6, <1>7, <1>9, <1>10

LEMMA SameInit == RecvInit => SameInv
<1> SUFFICES ASSUME RecvInit PROVE SameInv
    OBVIOUS
<1>1. GapInv
    BY GapInit DEF RecvInit
<1>2. started = FALSE /\ book = B!NewBook
    BY DEF RecvInit, Init, MoldInit
<1> QED BY <1>1, <1>2 DEF SameInv

LEMMA SameNext == SameInv /\ [RecvNext]_recvVars => SameInv'
<1> SUFFICES ASSUME SameInv, [RecvNext]_recvVars PROVE SameInv'
    OBVIOUS
<1>1. ASSUME UNCHANGED <<expected, gaps, started, first, arrived, inorder, book>> PROVE SameInv'
    BY <1>1 DEF SameInv, GapInv
<1>2. CASE UNCHANGED recvVars
    BY <1>1, <1>2 DEF recvVars, moldVars, session
<1>3. CASE (Send \/ IdleTimeout) /\ UNCHANGED book
    BY <1>1, <1>3 DEF Send, IdleTimeout, session
<1>4. ASSUME NEW k \in Packet, RecvDatagram(k) PROVE SameInv'
  <2>1. CASE k = EndOfSession
      BY <1>1, <1>4, <2>1 DEF RecvDatagram, Receive, OnEnd
  <2>2. CASE k # EndOfSession
    <3>1. OnMessages(k) /\ book' = ApplyAll(k)
        BY <1>4, <2>2 DEF RecvDatagram, Receive
    <3> QED BY <2>2, <3>1, RecvMessagesSame
  <2> QED BY <2>1, <2>2
<1> QED BY <1>2, <1>3, <1>4 DEF RecvNext

LEMMA SameMeans == SameInv => NoGapMeansSameBook
<1> SUFFICES ASSUME SameInv, started, inorder, gaps = 0
             PROVE  book = ExactBook(first, expected - 1)
    BY DEF NoGapMeansSameBook, ExactBook, Exact
<1> QED BY DEF SameInv

-----------------------------------------------------------------------------
(* A network that loses and delays, but does not duplicate: no message     *)
(* reaches the book twice.                                                 *)

LEMMA SeqOfMonotonic ==
    ASSUME NEW j \in Packet, NEW k \in Packet, j < k
    PROVE  SeqOf(j + 1) <= SeqOf(k)
<1>0. PerPacket \in Nat
    BY StreamAssumption
<1>1. j \in Nat /\ k \in Nat /\ j >= 1
    BY Quotient, StreamAssumption DEF Packet, EndOfSession
<1>2. PICK d \in Nat : k - 1 = j + d
    BY <1>1
<1>3. SeqOf(j + 1) = j * PerPacket + 1
    BY <1>0, <1>1 DEF SeqOf
<1>4. SeqOf(k) = (j + d) * PerPacket + 1
    BY <1>2 DEF SeqOf
<1>5. (j + d) * PerPacket = j * PerPacket + d * PerPacket /\ d * PerPacket \in Nat
    BY <1>0, <1>1
<1>6. j * PerPacket \in Nat
    BY <1>0, <1>1
<1> QED BY <1>3, <1>4, <1>5, <1>6

LEMMA BlocksOfBefore ==
    ASSUME NEW j \in Packet, NEW k \in Packet, j # EndOfSession, k # EndOfSession, j < k
    PROVE  Blocks(j) \cap Blocks(k) = {}
<1>1. PICK s \in Nat, b \in Nat : s = SeqOf(j) /\ b = BlocksOf(j)
    BY PacketShape
<1>2. PICK t \in Nat, c \in Nat : t = SeqOf(k) /\ c = BlocksOf(k)
    BY PacketShape
<1>3. PICK u \in Nat : u = SeqOf(j + 1)
  <2>1. j \in Nat
      BY Quotient, StreamAssumption DEF Packet, EndOfSession
  <2> QED BY <2>1, StreamAssumption DEF SeqOf
<1>4. s + b <= u /\ u <= t
    BY <1>1, <1>2, <1>3, PacketShape, SeqOfMonotonic
<1>5. (s .. s + b - 1) \cap (t .. t + c - 1) = {}
    BY <1>4
<1> QED BY <1>1, <1>2, <1>5 DEF Blocks

\* Different datagrams carry different messages.
LEMMA BlocksDisjoint ==
    ASSUME NEW j \in Packet, NEW k \in Packet, j # EndOfSession, k # EndOfSession, j # k
    PROVE  Blocks(j) \cap Blocks(k) = {}
<1>1. j \in Int /\ k \in Int
    BY DEF Packet
<1>2. j < k \/ k < j
    BY <1>1
<1> QED BY <1>2, BlocksOfBefore

LEMMA BlocksInStream ==
    ASSUME NEW k \in Packet, k # EndOfSession
    PROVE  Blocks(k) \subseteq 1 .. NumMsg
<1>1. PICK s \in Nat \ {0}, b \in Nat : s = SeqOf(k) /\ b = BlocksOf(k)
    BY PacketShape
<1>2. s + b - 1 <= NumMsg
    BY <1>1, PacketShape
<1> QED BY <1>1, <1>2, StreamAssumption DEF Blocks

\* A datagram that is still to come, or to be sent, brings only new messages.
NetInv ==
    /\ sent \in Int /\ net \in [Packet -> 0 .. 1]
    /\ \A k \in Packet : k > sent => net[k] = 0
    /\ arrived \subseteq 1 .. NumMsg
    /\ \A k \in Packet \ {EndOfSession} :
            k > sent \/ net[k] = 1 => Blocks(k) \cap arrived = {}

LEMMA NetInit == RecvInit => NetInv
    BY DEF RecvInit, Init, MoldInit, NetInv

LEMMA NetSend == ASSUME NetInv, Copies = 1, Send PROVE NetInv'
<1>1. PICK n \in 0 .. 1 : net' = [net EXCEPT ![sent + 1] = n]
    BY DEF Send
<1>2. sent' = sent + 1 /\ arrived' = arrived /\ sent \in Int /\ net \in [Packet -> 0 .. 1]
    BY DEF Send, session, NetInv
<1>3. net' \in [Packet -> 0 .. 1] /\ \A k \in Packet : k # sent + 1 => net'[k] = net[k]
    BY <1>1, <1>2
<1>4. ASSUME NEW k \in Packet, k > sent' PROVE net'[k] = 0
  <2>1. k \in Int /\ k > sent /\ k # sent + 1
      BY <1>2, <1>4 DEF Packet
  <2> QED BY <1>3, <2>1 DEF NetInv
<1>5. ASSUME NEW k \in Packet \ {EndOfSession}, k > sent' \/ net'[k] = 1
      PROVE  Blocks(k) \cap arrived' = {}
  <2>1. k \in Int
      BY DEF Packet
  <2>2. CASE k > sent
      BY <1>2, <2>2 DEF NetInv
  <2>3. CASE ~(k > sent)
    <3>1. k # sent + 1 /\ ~(k > sent')
        BY <1>2, <2>1, <2>3
    <3>2. net[k] = 1
        BY <1>3, <1>5, <3>1
    <3> QED BY <1>2, <3>2 DEF NetInv
  <2> QED BY <2>2, <2>3
<1>6. sent' \in Int /\ arrived' \subseteq 1 .. NumMsg
    BY <1>2 DEF NetInv
<1> QED BY <1>3, <1>4, <1>5, <1>6 DEF NetInv

\* The messages of a datagram that arrives are new.
LEMMA ReceiveFresh ==
    ASSUME NetInv, NEW k \in Packet, k # EndOfSession, Receive(k)
    PROVE  Blocks(k) \cap arrived = {} /\ arrived \subseteq 1 .. NumMsg
<1>1. net[k] \in 0 .. 1 /\ net[k] > 0
    BY DEF NetInv, Receive, InFlight
<1>2. net[k] = 1
    BY <1>1
<1> QED BY <1>2 DEF NetInv

LEMMA NetReceive == ASSUME NetInv, NEW k \in Packet, Receive(k) PROVE NetInv'
<1>1. sent' = sent /\ net' = [net EXCEPT ![k] = @ - 1] /\ net \in [Packet -> 0 .. 1]
      /\ net[k] > 0 /\ sent \in Int
    BY DEF Receive, NetInv, InFlight
<1>2. net[k] = 1
  <2>1. net[k] \in 0 .. 1
      BY <1>1
  <2> QED BY <1>1, <2>1
<1>3. net'[k] = 0 /\ \A j \in Packet : j # k => net'[j] = net[j]
    BY <1>1, <1>2
<1>4. net' \in [Packet -> 0 .. 1]
    BY <1>1, <1>2
<1>5. k <= sent
  <2>1. ~(k > sent)
      BY <1>2 DEF NetInv
  <2> QED BY <1>1, <2>1 DEF Packet
<1>6. \A j \in Packet : j > sent' => net'[j] = 0
    BY <1>1, <1>3 DEF NetInv
<1>7. CASE k = EndOfSession
  <2>1. arrived' = arrived
      BY <1>7 DEF Receive, OnEnd
  <2>2. ASSUME NEW j \in Packet \ {EndOfSession}, j > sent' \/ net'[j] = 1
        PROVE  Blocks(j) \cap arrived' = {}
      BY <1>1, <1>3, <1>7, <2>1, <2>2 DEF NetInv
  <2> QED BY <1>1, <1>4, <1>6, <2>1, <2>2 DEF NetInv
<1>8. CASE k # EndOfSession
  <2>1. arrived' = arrived \cup Blocks(k)
      BY <1>8 DEF Receive, OnMessages
  <2>2. arrived' \subseteq 1 .. NumMsg
      BY <1>8, <2>1, BlocksInStream DEF NetInv
  <2>3. ASSUME NEW j \in Packet \ {EndOfSession}, j > sent' \/ net'[j] = 1
        PROVE  Blocks(j) \cap arrived' = {}
    <3>1. j # k
        BY <1>1, <1>3, <1>5, <2>3 DEF Packet
    <3>2. Blocks(j) \cap Blocks(k) = {}
        BY <1>8, <3>1, BlocksDisjoint
    <3>3. Blocks(j) \cap arrived = {}
        BY <1>1, <1>3, <2>3, <3>1 DEF NetInv
    <3> QED BY <2>1, <3>2, <3>3
  <2> QED BY <1>1, <1>4, <1>6, <2>2, <2>3 DEF NetInv
<1> QED BY <1>7, <1>8

LEMMA NetNext == Copies = 1 /\ NetInv /\ [RecvNext]_recvVars => NetInv'
<1> SUFFICES ASSUME Copies = 1, NetInv, [RecvNext]_recvVars PROVE NetInv'
    OBVIOUS
<1>1. CASE Send
    BY <1>1, NetSend
<1>2. CASE IdleTimeout \/ UNCHANGED recvVars
  <2>1. UNCHANGED <<sent, net, arrived>>
      BY <1>2 DEF IdleTimeout, recvVars, moldVars, session
  <2> QED BY <2>1 DEF NetInv
<1>3. ASSUME NEW k \in Packet, RecvDatagram(k) PROVE NetInv'
    BY <1>3, NetReceive DEF RecvDatagram
<1> QED BY <1>1, <1>2, <1>3 DEF RecvNext

-----------------------------------------------------------------------------
(* The shares the messages of a session bring. *)

Weight == [s \in 1 .. NumMsg |-> Brings(Script[s])]
Brought(A) == SumFunctionOnSet(Weight, A)

LEMMA SameSum ==
    /\ \A f, S : SumFunctionOnSet(f, S) = P!SumFunctionOnSet(f, S)
    /\ \A S : IsFiniteSet(S) <=> P!IsFiniteSet(S)
<1>1. \A f, S : SumFunctionOnSet(f, S) = P!SumFunctionOnSet(f, S)
    BY DEF SumFunctionOnSet, FoldFunctionOnSet, MapThenFoldSet,
           P!SumFunctionOnSet, P!FoldFunctionOnSet, P!MapThenFoldSet
<1>2. \A S : IsFiniteSet(S) <=> P!IsFiniteSet(S)
    BY DEF IsFiniteSet, P!IsFiniteSet
<1> QED BY <1>1, <1>2

LEMMA SumOfNone == \A f : SumFunctionOnSet(f, {}) = 0
<1>1. \A f : P!SumFunctionOnSet(f, {}) = 0
    BY P!SumEmpty, BookAssumption
       DEF P!QtyModAssumption, P!PriceAssumption, P!MaxSharesAssumption, P!MaxSlotsAssumption
<1> QED BY <1>1, SameSum

LEMMA SumOfNats ==
    ASSUME NEW f, NEW S, IsFiniteSet(S), \A x \in S : f[x] \in Nat
    PROVE  SumFunctionOnSet(f, S) \in Nat
<1>1. P!IsFiniteSet(S)
    BY SameSum
<1>2. P!SumFunctionOnSet(f, S) \in Nat
    BY <1>1, P!SumType, BookAssumption
       DEF P!QtyModAssumption, P!PriceAssumption, P!MaxSharesAssumption, P!MaxSlotsAssumption
<1> QED BY <1>2, SameSum

LEMMA SumOfRest ==
    ASSUME NEW f, NEW S, IsFiniteSet(S), \A x \in S : f[x] \in Nat, NEW x \in S
    PROVE  SumFunctionOnSet(f, S) = f[x] + SumFunctionOnSet(f, S \ {x})
<1>1. P!IsFiniteSet(S)
    BY SameSum
<1>2. P!SumFunctionOnSet(f, S) = f[x] + P!SumFunctionOnSet(f, S \ {x})
    BY <1>1, P!SumRemove, BookAssumption
       DEF P!QtyModAssumption, P!PriceAssumption, P!MaxSharesAssumption, P!MaxSlotsAssumption
<1> QED BY <1>2, SameSum

LEMMA WeightType == \A s \in 1 .. NumMsg : Weight[s] = Brings(Script[s]) /\ Weight[s] \in Nat
<1> SUFFICES ASSUME NEW s \in 1 .. NumMsg PROVE Brings(Script[s]) \in Nat
    BY DEF Weight
<1>1. Script[s] \in B!Message
    BY ScriptAssumption
<1>2. Script[s].type \in {"add", "replace"} => Script[s].shares \in 0 .. MaxShares
    BY <1>1 DEF B!Message, B!Shares
<1> QED BY <1>2, BookAssumption DEF Brings

LEMMA BroughtGrows ==
    ASSUME NEW A \in SUBSET (1 .. NumMsg), NEW s \in (1 .. NumMsg) \ A
    PROVE  Brought(A) \in Nat /\ Brought(A \cup {s}) = Brought(A) + Brings(Script[s])
<1>0. IsFiniteSet(1 .. NumMsg)
    BY FS_Interval, StreamAssumption
<1>1. IsFiniteSet(A) /\ IsFiniteSet(A \cup {s})
    BY <1>0, FS_Subset
<1>2. (A \cup {s}) \ {s} = A /\ s \in A \cup {s}
    OBVIOUS
<1>3. \A x \in A \cup {s} : Weight[x] \in Nat
    BY WeightType
<1>4. Brought(A) \in Nat
    BY <1>1, <1>3, SumOfNats DEF Brought
<1>5. Brought(A \cup {s}) = Weight[s] + Brought(A)
  <2>1. PICK C : C = A \cup {s}
      OBVIOUS
  <2>2. IsFiniteSet(C) /\ s \in C
      BY <1>1, <1>2, <2>1
  <2>3. \A x \in C : Weight[x] \in Nat
      BY <1>3, <2>1
  <2>4. \A x \in C : SumFunctionOnSet(Weight, C) = Weight[x] + SumFunctionOnSet(Weight, C \ {x})
      BY <2>2, <2>3, SumOfRest, Zenon
  <2>5. C \ {s} = A
      BY <1>2, <2>1
  <2> QED BY <2>1, <2>2, <2>4, <2>5 DEF Brought
<1> QED BY <1>4, <1>5, WeightType

\* No messages bring more than all of them.
LEMMA BroughtWithin ==
    ASSUME NEW A \in SUBSET (1 .. NumMsg)
    PROVE  /\ Brought(A) \in Nat /\ Brought(1 .. NumMsg) \in Nat
           /\ Brought(A) <= Brought(1 .. NumMsg)
<1> DEFINE H(n) == A \cap (1 .. n)
           T == {n \in Nat : n <= NumMsg => /\ Brought(H(n)) \in Nat /\ Brought(1 .. n) \in Nat
                                            /\ Brought(H(n)) <= Brought(1 .. n)}
<1>0. NumMsg \in Nat
    BY StreamAssumption
<1>1. 0 \in T
  <2>1. H(0) = {} /\ 1 .. 0 = {}
      OBVIOUS
  <2>3. Brought({}) = 0
      BY SumOfNone DEF Brought
  <2> QED BY <2>1, <2>3
<1>2. ASSUME NEW n \in Nat, n \in T PROVE n + 1 \in T
  <2> SUFFICES ASSUME n + 1 <= NumMsg
               PROVE  /\ Brought(H(n + 1)) \in Nat /\ Brought(1 .. n + 1) \in Nat
                      /\ Brought(H(n + 1)) <= Brought(1 .. n + 1)
      OBVIOUS
  <2>1. Brought(H(n)) \in Nat /\ Brought(1 .. n) \in Nat /\ Brought(H(n)) <= Brought(1 .. n)
      BY <1>0, <1>2
  <2>2. 1 .. n \in SUBSET (1 .. NumMsg) /\ n + 1 \in (1 .. NumMsg) \ (1 .. n)
        /\ H(n) \in SUBSET (1 .. NumMsg) /\ n + 1 \notin H(n)
      BY <1>0
  <2>3. 1 .. n + 1 = (1 .. n) \cup {n + 1}
      OBVIOUS
  <2>4. PICK w \in Nat : w = Brings(Script[n + 1])
      BY <2>2, WeightType
  <2>5. Brought(1 .. n + 1) = Brought(1 .. n) + w
      BY <2>2, <2>3, <2>4, BroughtGrows
  <2>6. CASE n + 1 \in A
    <3>1. H(n + 1) = H(n) \cup {n + 1}
        BY <2>3, <2>6
    <3>2. Brought(H(n + 1)) = Brought(H(n)) + w
      <4> HIDE DEF H
      <4> QED BY <2>2, <2>4, <3>1, BroughtGrows
    <3> QED BY <2>1, <2>4, <2>5, <3>2
  <2>7. CASE n + 1 \notin A
    <3>1. H(n + 1) = H(n)
        BY <2>3, <2>7
    <3> HIDE DEF H
    <3>2. PICK x \in Nat, y \in Nat : x = Brought(H(n)) /\ y = Brought(1 .. n)
        BY <2>1
    <3>3. x <= y /\ y + w \in Nat /\ x <= y + w
        BY <2>1, <2>4, <3>2
    <3> QED BY <2>5, <3>1, <3>2, <3>3
  <2> QED BY <2>6, <2>7
<1>3. Nat \subseteq T
  <2> HIDE DEF T
  <2> QED BY <1>1, <1>2, Induction
<1>4. H(NumMsg) = A
    OBVIOUS
<1>5. NumMsg \in T /\ NumMsg <= NumMsg
    BY <1>0, <1>3
<1> QED BY <1>4, <1>5

-----------------------------------------------------------------------------
(* The book, after the messages A of a conforming session.                 *)

BookOK(b, A) ==
    /\ P!Good(b)
    /\ \A r \in DOMAIN b.index : \E t \in A : r \in Introduces(Script[t])
    /\ \A side, p : P!LevelSum(P!Orders(b), side, p) <= Brought(A)

\* Whatever of the session is missing, its next message is one the book can take.
LEMMA NextConforms ==
    ASSUME ConformingScript, NEW A \in SUBSET (1 .. NumMsg), NEW s \in (1 .. NumMsg) \ A,
           NEW b, BookOK(b, A)
    PROVE  P!ConformsTo(b, Script[s])
<1> DEFINE m == Script[s]
<1>0. m \in B!Message
    BY ScriptAssumption
<1>1. ASSUME NEW r, r \in Introduces(m) PROVE ~P!Knows(b, r)
  <2>1. ASSUME r \in DOMAIN b.index PROVE FALSE
    <3>1. PICK t \in A : r \in Introduces(Script[t])
        BY <2>1 DEF BookOK
    <3>2. t \in 1 .. NumMsg /\ t # s
        OBVIOUS
    <3>3. Introduces(Script[s]) \cap Introduces(Script[t]) = {}
        BY <3>2 DEF ConformingScript
    <3> QED BY <1>1, <3>1, <3>3
  <2> QED BY <2>1 DEF P!Knows
<1>2. ASSUME NEW side \in P!Side, NEW p PROVE P!At(P!LevelsAt(b, side), p) + Brings(m) < QtyMod
  <2>1. P!At(P!LevelsAt(b, side), p) = P!LevelSum(P!Orders(b), side, p)
      BY DEF BookOK, P!Good, P!Quotes, P!LevelsAt, P!Side
  <2>2. PICK x \in Nat : x = P!LevelSum(P!Orders(b), side, p)
    <3>1. P!Proper(P!Orders(b))
        BY DEF BookOK, P!Good
    <3> QED BY <3>1, P!LevelSumType, BookAssumption
            DEF P!QtyModAssumption, P!PriceAssumption, P!MaxSharesAssumption, P!MaxSlotsAssumption
  <2>3. x <= Brought(A)
      BY <2>2 DEF BookOK
  <2>4. PICK w \in Nat : w = Brings(m)
      BY WeightType
  <2>5. PICK y \in Nat, z \in Nat : y = Brought(A) /\ z = Brought(1 .. NumMsg)
      BY BroughtWithin
  <2>6. y + w <= z
    <3>1. A \cup {s} \in SUBSET (1 .. NumMsg)
        OBVIOUS
    <3> QED BY <2>4, <2>5, <3>1, BroughtGrows, BroughtWithin
  <2>7. z < QtyMod
      BY <2>5 DEF ConformingScript, Brought, Weight
  <2> QED BY <2>1, <2>2, <2>3, <2>4, <2>5, <2>6, <2>7, BookAssumption
<1>3. ASSUME m.type = "add"
      PROVE  ~P!Knows(b, m.ref) /\ m.side \in P!Side
             /\ P!At(P!LevelsAt(b, m.side), m.price) + m.shares < QtyMod
  <2>1. m.ref \in Introduces(m) /\ Brings(m) = m.shares
      BY <1>3 DEF Introduces, Brings
  <2>2. m.side \in P!Side
      BY <1>3, SameBook DEF ConformingScript
  <2> HIDE DEF m
  <2> QED BY <1>1, <1>2, <2>1, <2>2
<1>4. ASSUME m.type = "replace", P!Knows(b, m.ref)
      PROVE  ~P!Knows(b, m.new)
             /\ P!At(P!LevelsAt(b, P!OrderOf(b, m.ref).side), m.price) + m.shares
                    < QtyMod + P!TakenOff(b, m.ref, m.price)
  <2>1. m.new \in Introduces(m) /\ Brings(m) = m.shares
      BY <1>4 DEF Introduces, Brings
  <2>2. P!OrderOf(b, m.ref).side \in P!Side
      BY <1>4 DEF BookOK, P!Good, P!Proper, P!ProperOrder, P!Orders, P!Knows
  <2>3. m.shares \in Nat
      BY <2>1, WeightType
  <2> HIDE DEF m
  <2>4. /\ ~P!Knows(b, m.new)
        /\ P!At(P!LevelsAt(b, P!OrderOf(b, m.ref).side), m.price) + m.shares < QtyMod
      BY <1>1, <1>2, <2>1, <2>2
  <2> QED BY <1>4, <2>3, <2>4, P!FitsReplaced, BookAssumption
          DEF BookOK, P!QtyModAssumption, P!PriceAssumption, P!MaxSharesAssumption, P!MaxSlotsAssumption
<1> HIDE DEF m
<1>5. P!ConformsTo(b, m)
    BY <1>3, <1>4 DEF P!ConformsTo
<1> QED BY <1>5 DEF m

LEMMA TakeOK ==
    ASSUME ConformingScript, NEW A \in SUBSET (1 .. NumMsg), NEW s \in (1 .. NumMsg) \ A,
           NEW b, BookOK(b, A)
    PROVE  BookOK(Take(b, s), A \cup {s})
<1> DEFINE m == Script[s]
           c == P!apply(b, m)
<1>1. PICK w \in Nat, y \in Nat : w = Brings(m) /\ y = Brought(A)
    BY WeightType, BroughtGrows
<1>2. Brought(A \cup {s}) = y + w
    BY <1>1, BroughtGrows
<1>3. \A side, p : P!LevelSum(P!Orders(b), side, p) \in Nat
  <2>1. P!Proper(P!Orders(b))
      BY DEF BookOK, P!Good
  <2> QED BY <2>1, P!LevelSumType, BookAssumption
          DEF P!QtyModAssumption, P!PriceAssumption, P!MaxSharesAssumption, P!MaxSlotsAssumption
<1>4. CASE s \in Undecodable
  <2>1. Take(b, s) = b
      BY <1>4 DEF Take
  <2>2. \A side, p : P!LevelSum(P!Orders(b), side, p) <= Brought(A \cup {s})
    <3> SUFFICES ASSUME NEW side, NEW p
                 PROVE  P!LevelSum(P!Orders(b), side, p) <= Brought(A \cup {s})
        OBVIOUS
    <3>1. PICK x \in Nat : x = P!LevelSum(P!Orders(b), side, p)
        BY <1>3
    <3>2. x <= y
        BY <1>1, <3>1 DEF BookOK
    <3> QED BY <1>2, <3>1, <3>2
  <2> QED BY <2>1, <2>2 DEF BookOK
<1>5. CASE s \notin Undecodable
  <2>1. Take(b, s) = c
      BY <1>5, SameApply DEF Take
  <2>2. P!ConformsTo(b, m) /\ P!Good(b) /\ m \in P!Message
      BY NextConforms, ScriptAssumption, SameBook DEF BookOK
  <2>3. P!Good(c)
      BY <2>2, P!ApplyGood, BookAssumption
         DEF P!QtyModAssumption, P!PriceAssumption, P!MaxSharesAssumption, P!MaxSlotsAssumption
  <2>4. P!Grows(b, c, m)
      BY <2>2, P!ApplyGrows, BookAssumption
         DEF P!QtyModAssumption, P!PriceAssumption, P!MaxSharesAssumption, P!MaxSlotsAssumption
  <2>5. P!Introduces(m) = Introduces(m) /\ P!Brings(m) = w
      BY <1>1 DEF P!Introduces, Introduces, P!Brings, Brings
  <2> HIDE DEF c
  <2>6. ASSUME NEW r \in DOMAIN c.index
        PROVE  \E t \in A \cup {s} : r \in Introduces(Script[t])
    <3>1. r \in DOMAIN b.index \/ r \in Introduces(m)
        BY <2>4, <2>5 DEF P!Grows
    <3> QED BY <3>1 DEF BookOK
  <2>7. ASSUME NEW side, NEW p PROVE P!LevelSum(P!Orders(c), side, p) <= Brought(A \cup {s})
    <3>1. PICK x \in Nat : x = P!LevelSum(P!Orders(b), side, p)
        BY <1>3
    <3>2. x <= y
        BY <1>1, <3>1 DEF BookOK
    <3>3. P!LevelSum(P!Orders(c), side, p) <= x + w
        BY <2>4, <2>5, <3>1 DEF P!Grows
    <3>4. PICK z \in Nat : z = P!LevelSum(P!Orders(c), side, p)
      <4>1. P!Proper(P!Orders(c))
          BY <2>3 DEF P!Good
      <4> QED BY <4>1, P!LevelSumType, BookAssumption
              DEF P!QtyModAssumption, P!PriceAssumption, P!MaxSharesAssumption, P!MaxSlotsAssumption
    <3> QED BY <1>1, <1>2, <3>1, <3>2, <3>3, <3>4
  <2> QED BY <2>1, <2>3, <2>6, <2>7 DEF BookOK
<1> QED BY <1>4, <1>5

LEMMA StepsOK ==
    ASSUME ConformingScript, NEW A \in SUBSET (1 .. NumMsg), NEW b, BookOK(b, A),
           NEW s \in Nat \ {0}, NEW n \in Nat, s + n - 1 <= NumMsg,
           (s .. s + n - 1) \cap A = {}, NEW f, Steps(b, s, n, f)
    PROVE  BookOK(f[n], A \cup (s .. s + n - 1))
<1> DEFINE T == {i \in Nat : i <= n => BookOK(f[i], A \cup (s .. s + i - 1))}
<1>1. 0 \in T
  <2>1. 0 \in 0 .. n /\ s .. s + 0 - 1 = {}
      OBVIOUS
  <2>2. f[0] = b /\ A \cup (s .. s + 0 - 1) = A
      BY <2>1, StepsUnfold
  <2> QED BY <2>2
<1>2. ASSUME NEW i \in Nat, i \in T PROVE i + 1 \in T
  <2>0. i <= n => BookOK(f[i], A \cup (s .. s + i - 1))
      BY <1>2
  <2> SUFFICES ASSUME i + 1 <= n PROVE BookOK(f[i + 1], A \cup (s .. s + (i + 1) - 1))
    <3> DEFINE Claim(j) == BookOK(f[j], A \cup (s .. s + j - 1))
    <3> HIDE DEF Claim
    <3>1. T = {j \in Nat : j <= n => Claim(j)}
        BY DEF Claim
    <3>2. i + 1 <= n => Claim(i + 1)
        BY DEF Claim
    <3> HIDE DEF T
    <3> QED BY <3>1, <3>2
  <2> DEFINE C == A \cup (s .. s + i - 1)
             t == s + (i + 1) - 1
  <2>1. BookOK(f[i], C)
      BY <2>0
  <2>2. /\ i + 1 \in 0 .. n /\ i + 1 # 0 /\ (i + 1) - 1 = i
        /\ t \in 1 .. NumMsg /\ t \in s .. s + n - 1 /\ t \notin s .. s + i - 1
      BY StreamAssumption
  <2>3. s .. s + i - 1 \subseteq 1 .. NumMsg
      BY StreamAssumption
  <2>4. C \in SUBSET (1 .. NumMsg) /\ t \in (1 .. NumMsg) \ C
      BY <2>2, <2>3
  <2>5. C \cup {t} = A \cup (s .. s + (i + 1) - 1)
    <3>1. s .. s + (i + 1) - 1 = (s .. s + i - 1) \cup {t}
        OBVIOUS
    <3> QED BY <3>1
  <2>6. f[i + 1] = Take(f[i], t)
      BY <2>2, StepsUnfold
  <2> HIDE DEF C, t
  <2>7. BookOK(Take(f[i], t), C \cup {t})
      BY <2>1, <2>4, TakeOK
  <2> QED BY <2>5, <2>6, <2>7
<1>3. Nat \subseteq T
  <2> HIDE DEF T
  <2> QED BY <1>1, <1>2, Induction
<1> QED BY <1>3

BookInv == NetInv /\ BookOK(book, arrived)

LEMMA NewBookOK == book = B!NewBook => BookOK(book, {})
<1> SUFFICES ASSUME book = P!NewBook PROVE BookOK(book, {})
    BY SameBook
<1>1. DOMAIN book.index = {}
    BY DEF P!NewBook
<1>2. P!Good(book)
    BY P!InitGood, BookAssumption
       DEF P!Init, P!QtyModAssumption, P!PriceAssumption, P!MaxSharesAssumption, P!MaxSlotsAssumption
<1>3. \A f : P!SumFunctionOnSet(f, {}) = 0
    BY SumOfNone, SameSum
<1>4. Brought({}) = 0
    BY SumOfNone DEF Brought
<1>5. \A side, p : P!Rests(P!Orders(book), side, p) = {}
    BY <1>1 DEF P!Rests, P!Orders
<1>6. \A side, p : P!LevelSum(P!Orders(book), side, p) = 0
    BY <1>3, <1>5 DEF P!LevelSum
<1> QED BY <1>1, <1>2, <1>4, <1>6 DEF BookOK

LEMMA BookInit == RecvInit => BookInv
<1> SUFFICES ASSUME RecvInit PROVE BookInv
    OBVIOUS
<1>1. book = B!NewBook /\ arrived = {}
    BY DEF RecvInit, Init, MoldInit
<1>2. BookOK(book, {})
    BY <1>1, NewBookOK
<1> QED BY <1>1, <1>2, NetInit DEF BookInv

LEMMA BookNext ==
    Copies = 1 /\ ConformingScript /\ BookInv /\ [RecvNext]_recvVars => BookInv'
<1> SUFFICES ASSUME Copies = 1, ConformingScript, BookInv, [RecvNext]_recvVars PROVE BookInv'
    OBVIOUS
<1>1. NetInv'
    BY NetNext DEF BookInv
<1> SUFFICES BookOK(book', arrived')
    BY <1>1 DEF BookInv, BookOK
<1>2. CASE UNCHANGED <<book, arrived>>
    BY <1>2 DEF BookInv
<1>3. CASE UNCHANGED recvVars
    BY <1>2, <1>3 DEF recvVars, moldVars, session
<1>4. CASE (Send \/ IdleTimeout) /\ UNCHANGED book
    BY <1>2, <1>4 DEF Send, IdleTimeout, session
<1>5. ASSUME NEW k \in Packet, RecvDatagram(k) PROVE BookOK(book', arrived')
  <2>1. CASE k = EndOfSession
      BY <1>2, <1>5, <2>1 DEF RecvDatagram, Receive, OnEnd
  <2>2. CASE k # EndOfSession
    <3>1. Receive(k) /\ book' = ApplyAll(k) /\ arrived' = arrived \cup Blocks(k)
        BY <1>5, <2>2 DEF RecvDatagram, Receive, OnMessages
    <3>2. Blocks(k) \cap arrived = {} /\ arrived \in SUBSET (1 .. NumMsg)
        BY <2>2, <3>1, ReceiveFresh DEF BookInv
    <3>3. PICK s \in Nat \ {0}, n \in Nat : s = SeqOf(k) /\ n = BlocksOf(k)
        BY <2>2, PacketShape
    <3>4. s + n - 1 <= NumMsg
        BY <2>2, <3>3, PacketShape
    <3>5. Blocks(k) = s .. s + n - 1
        BY <3>3 DEF Blocks
    <3>6. PICK f : Steps(book, s, n, f) /\ ApplyAll(k) = f[n]
        BY <2>2, <3>3, ApplyAllSteps
    <3>7. BookOK(f[n], arrived \cup (s .. s + n - 1))
        BY <3>2, <3>4, <3>5, <3>6, StepsOK DEF BookInv
    <3> QED BY <3>1, <3>5, <3>6, <3>7
  <2> QED BY <2>1, <2>2
<1> QED BY <1>3, <1>4, <1>5 DEF RecvNext

LEMMA BookMeans == BookInv => BookConsistent
<1> SUFFICES ASSUME BookInv PROVE P!invariant_ok
    BY SameBook DEF BookConsistent
<1>1. P!Good(book)
    BY DEF BookInv, BookOK
<1> QED BY <1>1, P!GoodMeans, BookAssumption
        DEF P!QtyModAssumption, P!PriceAssumption, P!MaxSharesAssumption, P!MaxSlotsAssumption

-----------------------------------------------------------------------------
\* gaps_ is exact as long as nothing comes late or twice: it misses no lost message,
\* the ones cut off a truncated datagram included, and invents none.
THEOREM GapCountExact == Spec => []GapsExact
<1>1. Spec => []GapInv
    BY GapInit, GapNext, PTL DEF Spec
<1>2. GapInv => GapsExact
    BY DEF GapInv, GapsExact
<1> QED BY <1>1, <1>2, PTL

\* The same of the whole receiver, with the book behind the session.
THEOREM RecvGapCountExact == RecvSpec => []GapsExact
<1>1. RecvSpec => []SameInv
    BY SameInit, SameNext, PTL DEF RecvSpec
<1>2. SameInv => GapsExact
    BY DEF SameInv, GapInv, GapsExact
<1> QED BY <1>1, <1>2, PTL

\* When MoldSession reports no gap and nothing came late or twice, the book mdrecv
\* reports is the book of a lossless replay from the first message received on: no loss
\* behind it goes unreported, whatever the receive buffer cut off.
THEOREM RecvNoGapMeansSameBook == RecvSpec => []NoGapMeansSameBook
<1>1. RecvSpec => []SameInv
    BY SameInit, SameNext, PTL DEF RecvSpec
<1> QED BY <1>1, SameMeans, PTL

\* Whatever a network that does not duplicate loses, delays or reorders, and wherever a
\* datagram is cut short, the book stays consistent: a message about an order whose add
\* was lost is ignored, a late add adds a new order, and no level total wraps. (With
\* duplicates it does not: an add received twice counts its shares twice.)
THEOREM LossKeepsBookConsistent ==
    Copies = 1 /\ ConformingScript /\ RecvSpec => []BookConsistent
<1> DEFINE Given == Copies = 1 /\ ConformingScript
           Inv == Given /\ BookInv
<1>1. Given /\ RecvInit => Inv
    BY BookInit
<1>2. Inv /\ [RecvNext]_recvVars => Inv'
  <2>1. Given => Given'
      OBVIOUS
  <2> QED BY <2>1, BookNext
<1>3. Inv => BookConsistent
    BY BookMeans
<1> HIDE DEF Given, Inv
<1>4. Given /\ RecvSpec => []BookConsistent
    BY <1>1, <1>2, <1>3, PTL DEF RecvSpec
<1> QED BY <1>4 DEF Given
=============================================================================
