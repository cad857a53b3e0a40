--------------------------- MODULE ObReplayProofs ---------------------------
(***************************************************************************)
(* Proofs about a whole run of obreplay: the generators that write the     *)
(* stream, the decoder that reads it back, and the passes over it.         *)
(*                                                                         *)
(* Almost every definition here is a fold over the messages.  The proofs   *)
(* reach them by lemmas about loops: a loop is a start value and a round,  *)
(* After is its result after a number of rounds, and looking at the least  *)
(* counterexample (LeastNat) turns "every round keeps it" into "it holds   *)
(* after every number of rounds".  The recursive functions of the model    *)
(* are shown to be such loops (EndIsLoop ... DepthIsLoop).                 *)
(*                                                                         *)
(*   FeedInv    what a generator has written so far is a list of records   *)
(*              it can encode; the live orders of the ladder do not cross. *)
(*   WalkInv    what each pass that has ended left behind, as a function   *)
(*              of the messages: counts, book sets, tapes.                 *)
(*   TrackInv   the book that the records written so far make holds only   *)
(*              live orders, at their side and price (Follows).            *)
(*                                                                         *)
(* From the first two follow that the replays agree, that no read passes   *)
(* the end of a record, that the bars add up, that a report is about a     *)
(* book that exists, and that the micro-price is inside the spread.  With  *)
(* the third, the generators never lose track of an order, and the book    *)
(* rebuilt from the ladder is never crossed.  What is said of books uses   *)
(* the lemmas of OrderBookProofs, at the constants of this program.        *)
(***************************************************************************)
EXTENDS ObReplay, SequenceTheorems, FiniteSetTheorems, NaturalsInduction,
        WellFoundedInduction, TLAPS

-----------------------------------------------------------------------------
(* Induction on the naturals is the existence of a least counterexample.     *)

LEMMA LeastNat ==
    ASSUME NEW T, T \subseteq Nat, T # {}
    PROVE  \E x \in T : \A y \in T : x <= y
<1>1. IsWellFoundedOn(OpToRel(<, Nat), Nat)
    BY NatLessThanWellFounded
<1>2. PICK x \in T : \A y \in T : ~ (<<y, x>> \in OpToRel(<, Nat))
    BY <1>1, WFMin
<1>3. \A y \in T : ~ (y < x)
    BY <1>2 DEF OpToRel
<1> QED BY <1>3

LEMMA Induction ==
    ASSUME NEW T, 0 \in T, \A k \in Nat : k \in T => k + 1 \in T
    PROVE  Nat \subseteq T
<1> SUFFICES ASSUME Nat \ T # {} PROVE FALSE
    OBVIOUS
<1>1. PICK x \in Nat \ T : \A y \in Nat \ T : x <= y
    BY LeastNat
<1>2. x # 0 /\ x - 1 \in Nat
    BY <1>1
<1>3. x - 1 \in T
    BY <1>1, <1>2
<1> QED BY <1>1, <1>2, <1>3
-----------------------------------------------------------------------------
(* The loops of the model, in one form: which loop, over what, and what a    *)
(* round of it makes of the result so far.                                   *)

Start(loop) ==
    CASE loop = "offset" -> Header
      [] loop = "decoded" -> <<>>
      [] loop = "replayed" -> NewBookSet
      [] loop \in {"book", "symbol"} -> Ops(0)!NewBook
      [] loop = "tapes" -> [l \in {} |-> NewTape]
      [] OTHER -> 0

\* A message that changes the book of locate l.
ForBook(m, l) == m.locate = l /\ m.type \in Changes

Round(loop, x, so_far, i) ==
    CASE loop = "offset" -> so_far + x[i][1]
      [] loop = "end" -> so_far + Prefix + x[i].len
      [] loop = "decoded" ->
            IF decodes(x[i]) THEN Append(so_far, decode(x[i])) ELSE so_far
      [] loop = "replayed" -> BookSetApply(so_far, Routed(x[i], i))
      [] loop = "book" -> Ops(0)!apply(so_far, OpOf(x[1][x[2][i]]))
      [] loop = "symbol" ->
            IF ForBook(x[1][i], x[2]) THEN Ops(0)!apply(so_far, OpOf(x[1][i])) ELSE so_far
      [] loop = "tapes" ->
            IF x[i].type \in {"P", "Q"}
              THEN Put(so_far, x[i].locate,
                       on_trade(TapeAt(so_far, x[i].locate), x[i].price, x[i].shares, x[i].ts))
            ELSE so_far
      [] loop = "volume" -> so_far + x[i].volume
      [] loop = "notional" -> so_far + x[i].notional
      [] OTHER -> so_far + x[i][2]

Runs(loop, x, k, f) ==
    f = [i \in 0 .. k |-> IF i = 0 THEN Start(loop) ELSE Round(loop, x, f[i - 1], i)]

\* The result behind k rounds.
After(loop, x, k) == (CHOOSE f : Runs(loop, x, k, f))[k]

LEMMA RunsUnfold ==
    ASSUME NEW loop, NEW x, NEW k, NEW f, Runs(loop, x, k, f), NEW i \in 0 .. k
    PROVE  f[i] = IF i = 0 THEN Start(loop) ELSE Round(loop, x, f[i - 1], i)
    BY DEF Runs

LEMMA RunsExist ==
    ASSUME NEW loop, NEW x, NEW k \in Nat
    PROVE  \E f : Runs(loop, x, k, f)
<1> DEFINE T == {j \in Nat : \E f : Runs(loop, x, j, f)}
<1>1. 0 \in T
  <2>1. Runs(loop, x, 0, [i \in 0 .. 0 |-> Start(loop)])
      BY DEF Runs
  <2> QED BY <2>1
<1>2. ASSUME NEW j \in Nat, j \in T PROVE j + 1 \in T
  <2>1. PICK f : Runs(loop, x, j, f)
      BY <1>2
  <2> DEFINE g == [i \in 0 .. j + 1 |-> IF i = j + 1 THEN Round(loop, x, f[j], j + 1) ELSE f[i]]
  <2>2. ASSUME NEW i \in 0 .. j + 1
        PROVE  g[i] = IF i = 0 THEN Start(loop) ELSE Round(loop, x, g[i - 1], i)
    <3>1. CASE i = j + 1
      <4>1. i # 0 /\ i - 1 = j /\ j \in 0 .. j + 1 /\ j # j + 1
          BY <3>1
      <4>2. g[i] = Round(loop, x, f[j], i) /\ g[i - 1] = f[j]
          BY <3>1, <4>1
      <4> QED BY <4>1, <4>2
    <3>2. CASE i # j + 1
      <4>1. i \in 0 .. j /\ g[i] = f[i] /\ (i # 0 => g[i - 1] = f[i - 1])
          BY <3>2
      <4> HIDE DEF g
      <4> QED BY <2>1, <4>1, RunsUnfold
    <3> QED BY <3>1, <3>2
  <2>3. g = [i \in 0 .. j + 1 |-> g[i]]
      OBVIOUS
  <2> HIDE DEF g
  <2>4. Runs(loop, x, j + 1, g)
      BY <2>2, <2>3 DEF Runs
  <2> QED BY <2>4
<1>3. Nat \subseteq T
  <2> HIDE DEF T
  <2> QED BY <1>1, <1>2, Induction
<1> QED BY <1>3

LEMMA RunsAgree ==
    ASSUME NEW loop, NEW x, NEW k \in Nat, NEW l \in Nat, NEW f, NEW g,
           Runs(loop, x, k, f), Runs(loop, x, l, g)
    PROVE  \A i \in Nat : i <= k /\ i <= l => f[i] = g[i]
<1> DEFINE T == {i \in Nat : i <= k /\ i <= l => f[i] = g[i]}
<1>1. 0 \in T
  <2>1. f[0] = Start(loop) /\ g[0] = Start(loop)
      BY RunsUnfold
  <2> QED BY <2>1
<1>2. ASSUME NEW i \in Nat, i \in T PROVE i + 1 \in T
  <2> SUFFICES ASSUME i + 1 <= k, i + 1 <= l PROVE f[i + 1] = g[i + 1]
      OBVIOUS
  <2>1. f[i] = g[i]
      BY <1>2
  <2>2. i + 1 \in 0 .. k /\ i + 1 \in 0 .. l /\ i + 1 # 0 /\ (i + 1) - 1 = i
      OBVIOUS
  <2>3. f[i + 1] = Round(loop, x, f[i], i + 1)
      BY <2>2, RunsUnfold
  <2>4. g[i + 1] = Round(loop, x, g[i], i + 1)
      BY <2>2, RunsUnfold
  <2> QED BY <2>1, <2>3, <2>4
<1>3. Nat \subseteq T
  <2> HIDE DEF T
  <2> QED BY <1>1, <1>2, Induction
<1> QED BY <1>3

\* Whatever satisfies the equations of the loop ends with its result.
LEMMA RunsAfter ==
    ASSUME NEW loop, NEW x, NEW k \in Nat, NEW f, Runs(loop, x, k, f)
    PROVE  f[k] = After(loop, x, k)
<1> DEFINE g == CHOOSE h : Runs(loop, x, k, h)
<1>1. Runs(loop, x, k, g)
    OBVIOUS
<1>2. After(loop, x, k) = g[k]
    BY DEF After
<1> HIDE DEF g
<1> QED BY <1>1, <1>2, RunsAgree

\* One round more.
LEMMA AfterStep ==
    ASSUME NEW loop, NEW x
    PROVE  /\ After(loop, x, 0) = Start(loop)
           /\ \A k \in Nat : After(loop, x, k + 1) = Round(loop, x, After(loop, x, k), k + 1)
<1> DEFINE F(k) == CHOOSE f : Runs(loop, x, k, f)
<1>1. \A k \in Nat : Runs(loop, x, k, F(k))
    BY RunsExist
<1>2. \A k : After(loop, x, k) = F(k)[k]
    BY DEF After
<1> HIDE DEF F
<1>3. After(loop, x, 0) = Start(loop)
    BY <1>1, <1>2, RunsUnfold
<1>4. ASSUME NEW k \in Nat
      PROVE  After(loop, x, k + 1) = Round(loop, x, After(loop, x, k), k + 1)
  <2>1. k + 1 \in 0 .. k + 1 /\ k + 1 # 0 /\ (k + 1) - 1 = k /\ k + 1 \in Nat /\ k <= k + 1
      OBVIOUS
  <2>2. F(k + 1)[k + 1] = Round(loop, x, F(k + 1)[k], k + 1)
      BY <1>1, <2>1, RunsUnfold
  <2>3. F(k + 1)[k] = F(k)[k]
      BY <1>1, <2>1, RunsAgree
  <2> QED BY <1>2, <2>1, <2>2, <2>3
<1> QED BY <1>3, <1>4

\* End of a record in the capture.
LEMMA EndIsLoop ==
    ASSUME NEW c, NEW k \in Nat
    PROVE  End(c, k) = After("end", c, k)
<1> DEFINE Sol(f) == f = [i \in 0 .. k |-> IF i = 0 THEN 0 ELSE f[i - 1] + Prefix + c[i].len]
           g == CHOOSE f : Sol(f)
<1>1. \A f : Sol(f) <=> Runs("end", c, k, f)
    BY DEF Runs, Start, Round
<1>2. Sol(g)
    BY <1>1, RunsExist
<1>3. End(c, k) = g[k]
    BY DEF End
<1> HIDE DEF g, Sol
<1> QED BY <1>1, <1>2, <1>3, RunsAfter

LEMMA OffsetIsLoop ==
    ASSUME NEW fields, NEW i \in Nat \ {0}
    PROVE  Offset(fields, i) = After("offset", fields, i - 1)
<1> DEFINE Sol(f) == f = [j \in 0 .. i - 1 |-> IF j = 0 THEN Header
                                       ELSE f[j - 1] + fields[j][1]]
           g == CHOOSE f : Sol(f)
<1>0. i - 1 \in Nat
    OBVIOUS
<1>1. \A f : Sol(f) <=> Runs("offset", fields, i - 1, f)
    BY DEF Runs, Start, Round
<1>2. Sol(g)
    BY <1>0, <1>1, RunsExist
<1>3. Offset(fields, i) = g[i - 1]
    BY DEF Offset
<1> HIDE DEF g, Sol
<1> QED BY <1>0, <1>1, <1>2, <1>3, RunsAfter

LEMMA DecodedIsLoop ==
    ASSUME NEW c, NEW k \in Nat
    PROVE  Decoded(c, k) = After("decoded", c, k)
<1> DEFINE Sol(f) == f = [i \in 0 .. k |-> IF i = 0 THEN <<>>
                                       ELSE IF decodes(c[i]) THEN Append(f[i - 1], decode(c[i]))
                                       ELSE f[i - 1]]
           g == CHOOSE f : Sol(f)
<1>1. \A f : Sol(f) <=> Runs("decoded", c, k, f)
    BY DEF Runs, Start, Round
<1>2. Sol(g)
    BY <1>1, RunsExist
<1>3. Decoded(c, k) = g[k]
    BY DEF Decoded
<1> HIDE DEF g, Sol
<1> QED BY <1>1, <1>2, <1>3, RunsAfter

LEMMA ReplayedIsLoop ==
    ASSUME NEW ms, Len(ms) \in Nat
    PROVE  Replayed(ms) = After("replayed", ms, Len(ms))
<1> DEFINE Sol(f) == f = [i \in 0 .. Len(ms) |-> IF i = 0 THEN NewBookSet
                                       ELSE BookSetApply(f[i - 1], Routed(ms[i], i))]
           g == CHOOSE f : Sol(f)
<1>1. \A f : Sol(f) <=> Runs("replayed", ms, Len(ms), f)
    BY DEF Runs, Start, Round
<1>2. Sol(g)
    BY <1>1, RunsExist
<1>3. Replayed(ms) = g[Len(ms)]
    BY DEF Replayed
<1> HIDE DEF g, Sol
<1> QED BY <1>1, <1>2, <1>3, RunsAfter

LEMMA BookOfIsLoop ==
    ASSUME NEW l, Len(book.books[l]) \in Nat
    PROVE  BookOf(l) = After("book", <<Messages, book.books[l]>>, Len(book.books[l]))
<1> DEFINE Sol(f) == f = [i \in 0 .. Len(book.books[l]) |->
                             IF i = 0 THEN Ops(0)!NewBook
                             ELSE Ops(0)!apply(f[i - 1], OpOf(Messages[book.books[l][i]]))]
           g == CHOOSE f : Sol(f)
<1>1. \A f : Sol(f) <=> Runs("book", <<Messages, book.books[l]>>, Len(book.books[l]), f)
    BY DEF Runs, Start, Round
<1>2. Sol(g)
    BY <1>1, RunsExist
<1>3. BookOf(l) = g[Len(book.books[l])]
    BY DEF BookOf
<1> HIDE DEF g, Sol
<1> QED BY <1>1, <1>2, <1>3, RunsAfter
-----------------------------------------------------------------------------
(* Walking a capture. *)

LEMMA EndStep ==
    ASSUME NEW c, NEW k \in Nat
    PROVE  End(c, 0) = 0 /\ End(c, k + 1) = End(c, k) + Prefix + c[k + 1].len
<1>1. End(c, 0) = After("end", c, 0) /\ End(c, k) = After("end", c, k)
      /\ End(c, k + 1) = After("end", c, k + 1)
    BY EndIsLoop
<1>2. After("end", c, 0) = Start("end")
    BY AfterStep
<1>3. After("end", c, k + 1) = Round("end", c, After("end", c, k), k + 1)
    BY AfterStep
<1>4. Start("end") = 0
    BY DEF Start
<1>5. Round("end", c, After("end", c, k), k + 1) = After("end", c, k) + Prefix + c[k + 1].len
    BY DEF Round
<1> QED BY <1>1, <1>2, <1>3, <1>4, <1>5

LEMMA DecodedStep ==
    ASSUME NEW c, NEW k \in Nat
    PROVE  /\ Decoded(c, 0) = <<>>
           /\ Decoded(c, k + 1) = IF decodes(c[k + 1])
                                    THEN Append(Decoded(c, k), decode(c[k + 1]))
                                    ELSE Decoded(c, k)
<1>1. Decoded(c, 0) = After("decoded", c, 0) /\ Decoded(c, k) = After("decoded", c, k)
      /\ Decoded(c, k + 1) = After("decoded", c, k + 1)
    BY DecodedIsLoop
<1>2. After("decoded", c, 0) = Start("decoded")
    BY AfterStep
<1>3. After("decoded", c, k + 1) = Round("decoded", c, After("decoded", c, k), k + 1)
    BY AfterStep
<1>4. Start("decoded") = <<>>
    BY DEF Start
<1>5. Round("decoded", c, After("decoded", c, k), k + 1) =
        IF decodes(c[k + 1]) THEN Append(After("decoded", c, k), decode(c[k + 1]))
        ELSE After("decoded", c, k)
    BY DEF Round
<1> QED BY <1>1, <1>2, <1>3, <1>4, <1>5

\* The messages of the first k records are what they decode to, at most one of each.
LEMMA DecodedShort ==
    ASSUME NEW c, NEW k \in Nat
    PROVE  Decoded(c, k) \in Seq({decode(c[i]) : i \in {j \in 1 .. k : decodes(c[j])}})
           /\ Len(Decoded(c, k)) <= k
<1> DEFINE M(j) == {decode(c[i]) : i \in {h \in 1 .. j : decodes(c[h])}}
           T == {j \in Nat : Decoded(c, j) \in Seq(M(j)) /\ Len(Decoded(c, j)) <= j}
<1>1. 0 \in T
  <2>1. Decoded(c, 0) = <<>>
      BY DecodedStep
  <2>2. <<>> \in Seq(M(0)) /\ Len(<<>>) <= 0
      OBVIOUS
  <2> HIDE DEF M
  <2> QED BY <2>1, <2>2
<1>2. ASSUME NEW j \in Nat, j \in T PROVE j + 1 \in T
  <2>1. Decoded(c, j) \in Seq(M(j)) /\ Len(Decoded(c, j)) <= j
      BY <1>2
  <2>2. M(j) \subseteq M(j + 1) /\ (decodes(c[j + 1]) => decode(c[j + 1]) \in M(j + 1))
    <3>1. 1 .. j \subseteq 1 .. j + 1 /\ j + 1 \in 1 .. j + 1
        OBVIOUS
    <3> QED BY <3>1
  <2> HIDE DEF M
  <2>3. Decoded(c, j) \in Seq(M(j + 1))
    <3>1. Seq(M(j)) \subseteq Seq(M(j + 1))
        BY <2>2
    <3> QED BY <2>1, <3>1
  <2>4. CASE decodes(c[j + 1])
    <3>1. Decoded(c, j + 1) = Append(Decoded(c, j), decode(c[j + 1]))
        BY <2>4, DecodedStep
    <3>2. Decoded(c, j + 1) \in Seq(M(j + 1)) /\ Len(Decoded(c, j + 1)) = Len(Decoded(c, j)) + 1
        BY <2>2, <2>3, <2>4, <3>1
    <3>3. Len(Decoded(c, j)) \in Nat
        BY <2>1
    <3> QED BY <2>1, <3>2, <3>3
  <2>5. CASE ~decodes(c[j + 1])
    <3>1. Decoded(c, j + 1) = Decoded(c, j)
        BY <2>5, DecodedStep
    <3>3. Len(Decoded(c, j)) \in Nat
        BY <2>1
    <3> QED BY <2>1, <2>3, <3>1, <3>3
  <2> QED BY <2>4, <2>5
<1>3. Nat \subseteq T
  <2> HIDE DEF T
  <2> QED BY <1>1, <1>2, Induction
<1> QED BY <1>3

\* The walk stops somewhere.
LEMMA FramedProperties ==
    ASSUME NEW c, Len(c) \in Nat, NEW z
    PROVE  /\ Framed(c, z) \in 0 .. Len(c)
           /\ Framed(c, z) = Len(c) \/ Stops(c, z, Framed(c, z))
           /\ \A i \in 0 .. Framed(c, z) - 1 : ~Stops(c, z, i)
<1> DEFINE T == {k \in 0 .. Len(c) : k = Len(c) \/ Stops(c, z, k)}
<1>1. PICK x \in T : \A y \in T : x <= y
  <2>1. T \subseteq Nat /\ Len(c) \in T
      OBVIOUS
  <2> HIDE DEF T
  <2> QED BY <2>1, LeastNat
<1>2. \A i \in 0 .. x - 1 : ~Stops(c, z, i)
    BY <1>1
<1> QED BY <1>1, <1>2 DEF Framed

-----------------------------------------------------------------------------
(* Writing a message, and reading it back. *)

LEMMA OffsetStep ==
    ASSUME NEW fields, NEW i \in Nat \ {0}
    PROVE  /\ Offset(fields, 1) = Header
           /\ Offset(fields, i + 1) = Offset(fields, i) + fields[i][1]
<1>0. i - 1 \in Nat /\ (i - 1) + 1 = i /\ (i + 1) - 1 = i /\ i + 1 \in Nat \ {0}
    OBVIOUS
<1>1. Offset(fields, 1) = After("offset", fields, 0)
    BY OffsetIsLoop
<1>2. Offset(fields, i) = After("offset", fields, i - 1)
    BY OffsetIsLoop
<1>3. Offset(fields, i + 1) = After("offset", fields, i)
    BY <1>0, OffsetIsLoop
<1>4. After("offset", fields, 0) = Start("offset")
    BY AfterStep
<1>5. \A k \in Nat : After("offset", fields, k + 1)
                      = Round("offset", fields, After("offset", fields, k), k + 1)
    BY AfterStep
<1>6. After("offset", fields, i) = Round("offset", fields, After("offset", fields, i - 1), i)
    BY <1>0, <1>5
<1>7. Start("offset") = Header
    BY DEF Start
<1>8. Round("offset", fields, After("offset", fields, i - 1), i)
        = After("offset", fields, i - 1) + fields[i][1]
    BY DEF Round
<1> QED BY <1>1, <1>2, <1>3, <1>4, <1>6, <1>7, <1>8

\* Fields one behind the other, none of them empty.
Fields(fields) ==
    /\ Len(fields) \in Nat /\ DOMAIN fields = 1 .. Len(fields)
    /\ \A i \in 1 .. Len(fields) : fields[i][1] \in Nat \ {0}

LEMMA OffsetsIncrease ==
    ASSUME NEW fields, Fields(fields)
    PROVE  \A j \in 1 .. Len(fields) + 1 :
               /\ Offset(fields, j) \in Nat
               /\ \A i \in 1 .. Len(fields) : i < j => Offset(fields, i) < Offset(fields, j)
<1> DEFINE T == {j \in Nat : j + 1 <= Len(fields) + 1 =>
                    /\ Offset(fields, j + 1) \in Nat
                    /\ \A i \in 1 .. Len(fields) : i < j + 1 =>
                           /\ Offset(fields, i) \in Nat
                           /\ Offset(fields, i) < Offset(fields, j + 1)}
<1>1. 0 \in T
  <2>1. Offset(fields, 1) = Header
      BY OffsetStep
  <2>2. \A i \in 1 .. Len(fields) : ~ (i < 1)
      OBVIOUS
  <2> QED BY <2>1, <2>2 DEF Header
<1>2. ASSUME NEW j \in Nat, j \in T PROVE j + 1 \in T
  <2> SUFFICES ASSUME (j + 1) + 1 <= Len(fields) + 1
               PROVE  /\ Offset(fields, (j + 1) + 1) \in Nat
                      /\ \A i \in 1 .. Len(fields) :
                            i < (j + 1) + 1 =>
                                /\ Offset(fields, i) \in Nat
                                /\ Offset(fields, i) < Offset(fields, (j + 1) + 1)
      OBVIOUS
  <2>1. j + 1 \in 1 .. Len(fields) /\ j + 1 \in Nat \ {0} /\ j + 1 <= Len(fields) + 1
      BY DEF Fields
  <2>2. Offset(fields, j + 1) \in Nat
      BY <1>2, <2>1
  <2>3. \A i \in 1 .. Len(fields) : i < j + 1 =>
            Offset(fields, i) \in Nat /\ Offset(fields, i) < Offset(fields, j + 1)
      BY <1>2, <2>1
  <2>4. Offset(fields, (j + 1) + 1) = Offset(fields, j + 1) + fields[j + 1][1]
      BY <2>1, OffsetStep
  <2>5. fields[j + 1][1] \in Nat \ {0}
      BY <2>1 DEF Fields
  <2>6. PICK a \in Nat : a = Offset(fields, j + 1)
      BY <2>2
  <2>7. PICK w \in Nat \ {0} : w = fields[j + 1][1]
      BY <2>5
  <2>8. Offset(fields, (j + 1) + 1) = a + w
      BY <2>4, <2>6, <2>7
  <2>9. ASSUME NEW i \in 1 .. Len(fields), i < (j + 1) + 1
        PROVE  Offset(fields, i) \in Nat /\ Offset(fields, i) < a + w
    <3>1. CASE i = j + 1
        BY <2>6, <3>1
    <3>2. CASE i # j + 1
      <4>1. i < j + 1
          BY <2>9, <3>2
      <4>2. Offset(fields, i) \in Nat /\ Offset(fields, i) < a
          BY <2>3, <2>6, <4>1
      <4> QED BY <4>2
    <3> QED BY <3>1, <3>2
  <2> QED BY <2>8, <2>9
<1>3. Nat \subseteq T
  <2> HIDE DEF T
  <2> QED BY <1>1, <1>2, Induction
<1>4. ASSUME NEW j \in 1 .. Len(fields) + 1
      PROVE  /\ Offset(fields, j) \in Nat
             /\ \A i \in 1 .. Len(fields) : i < j => Offset(fields, i) < Offset(fields, j)
  <2>1. j - 1 \in Nat /\ (j - 1) + 1 = j /\ (j - 1) + 1 <= Len(fields) + 1
      BY DEF Fields
  <2>2. j - 1 \in T
      BY <1>3, <2>1
  <2> QED BY <2>1, <2>2
<1> QED BY <1>4

\* What is written at the offset of a field is found there.
LEMMA EncodeProperties ==
    ASSUME NEW type, NEW l, NEW t, NEW fields, Fields(fields), NEW r,
           r = Encode(type, l, t, fields)
    PROVE  /\ r.type = type /\ r.locate = l /\ r.ts = t
           /\ r.len = Offset(fields, Len(fields) + 1)
           /\ \A i \in 1 .. Len(fields) :
                  /\ Offset(fields, i) \in DOMAIN r.body
                  /\ r.body[Offset(fields, i)] = fields[i]
<1> DEFINE index(o) == CHOOSE i \in DOMAIN fields : Offset(fields, i) = o
           at == {Offset(fields, i) : i \in DOMAIN fields}
<1>1. r = [type |-> type, locate |-> l, ts |-> t, len |-> Offset(fields, Len(fields) + 1),
           body |-> [o \in at |-> fields[index(o)]]]
    BY DEF Encode
<1>2. ASSUME NEW i \in 1 .. Len(fields)
      PROVE  Offset(fields, i) \in at /\ index(Offset(fields, i)) = i
  <2>1. i \in DOMAIN fields
      BY DEF Fields
  <2>2. \A j \in DOMAIN fields : Offset(fields, j) = Offset(fields, i) => j = i
    <3> SUFFICES ASSUME NEW j \in 1 .. Len(fields), j # i
                 PROVE  Offset(fields, j) # Offset(fields, i)
        BY DEF Fields
    <3>1. j < i \/ i < j
        OBVIOUS
    <3>2. i \in 1 .. Len(fields) + 1 /\ j \in 1 .. Len(fields) + 1
        BY DEF Fields
    <3>3. Offset(fields, i) \in Nat /\ Offset(fields, j) \in Nat
        BY <3>2, OffsetsIncrease
    <3>4. j < i => Offset(fields, j) < Offset(fields, i)
        BY <3>2, OffsetsIncrease
    <3>5. i < j => Offset(fields, i) < Offset(fields, j)
        BY <3>2, OffsetsIncrease
    <3> QED BY <3>1, <3>3, <3>4, <3>5
  <2>3. index(Offset(fields, i)) = i
      BY <2>1, <2>2
  <2> QED BY <2>1, <2>3
<1> HIDE DEF index, at
<1>3. r.body = [o \in at |-> fields[index(o)]]
    BY <1>1
<1>4. r.type = type /\ r.locate = l /\ r.ts = t /\ r.len = Offset(fields, Len(fields) + 1)
    BY <1>1
<1> QED BY <1>2, <1>3, <1>4

\* The i-th field is at o.
LEMMA FieldAt ==
    ASSUME NEW type, NEW l, NEW t, NEW fields, Fields(fields), NEW r,
           r = Encode(type, l, t, fields),
           NEW i \in 1 .. Len(fields), NEW o, Offset(fields, i) = o, NEW w, NEW v,
           fields[i] = <<w, v>>
    PROVE  Holds(r, <<o, w>>) /\ rd(r, <<o, w>>) = v
<1>1. o \in DOMAIN r.body /\ r.body[o] = <<w, v>>
    BY EncodeProperties
<1> QED BY <1>1 DEF Holds, rd

\* The numbers decode() returns, from the fields it reads.
\* A byte that is neither B nor S is passed on.
AnySide == Sides \cup {"?"}

Number(r, f) == IF f \in DOMAIN Reads[r.type] THEN rd(r, Reads[r.type][f]) ELSE 0
Numeric(r) ==
    /\ \A f \in {"ref", "new", "price"} : Number(r, f) \in Nat
    /\ Number(r, "shares") \in 0 .. QtyMod - 1
    /\ r.type \in {"A", "F"} => Number(r, "side") \in AnySide

Writable(r) == Captured(r) /\ decodes(r)

\* The fields of a message, as a book or a tape sees them.
Says(m, type, l, t, ref, new, side, shares, price) ==
    /\ m.type = type /\ m.locate = l /\ m.ts = t
    /\ m.ref = ref /\ m.new = new /\ m.side = side /\ m.shares = shares /\ m.price = price

LEMMA DecodeNumbers ==
    ASSUME NEW r
    PROVE  /\ decode(r).type = r.type /\ decode(r).locate = r.locate /\ decode(r).ts = r.ts
           /\ decode(r).ref = Number(r, "ref") /\ decode(r).new = Number(r, "new")
           /\ decode(r).shares = Number(r, "shares") /\ decode(r).price = Number(r, "price")
           /\ decode(r).side = Number(r, "side") /\ decode(r).stock = Number(r, "stock")
    BY DEF decode, Number

FieldsA(ref, side, shares, stock, price) ==
    << <<8, ref>>, <<1, side>>, <<4, shares>>, <<8, stock>>, <<4, price>> >>

\* What is written for an add decodes, to what was written.
LEMMA EncodeA ==
    ASSUME NEW l \in 0 .. LocateMod - 1, NEW t \in Nat, NEW ref \in Nat, NEW side \in Sides,
           NEW shares \in 0 .. QtyMod - 1, NEW stock, NEW price \in Nat,
           NEW r, r = Encode("A", l, t, FieldsA(ref, side, shares, stock, price))
    PROVE  Writable(r) /\ Says(decode(r), "A", l, t, ref, 0, side, shares, price)
<1>1. PICK fs : fs = FieldsA(ref, side, shares, stock, price)
    OBVIOUS
<1>2. Len(fs) = 5 /\ DOMAIN fs = 1 .. 5
    BY <1>1 DEF FieldsA
<1>f1. fs[1] = <<8, ref>>
    BY <1>1 DEF FieldsA
<1>f2. fs[2] = <<1, side>>
    BY <1>1 DEF FieldsA
<1>f3. fs[3] = <<4, shares>>
    BY <1>1 DEF FieldsA
<1>f4. fs[4] = <<8, stock>>
    BY <1>1 DEF FieldsA
<1>f5. fs[5] = <<4, price>>
    BY <1>1 DEF FieldsA
<1>3. Fields(fs)
  <2> SUFFICES ASSUME NEW i \in 1 .. 5 PROVE fs[i][1] \in Nat \ {0}
      BY <1>2 DEF Fields
  <2>1. i = 1 \/ i = 2 \/ i = 3 \/ i = 4 \/ i = 5
      OBVIOUS
  <2> QED BY <2>1, <1>f1, <1>f2, <1>f3, <1>f4, <1>f5
<1>o1. Offset(fs, 1) = 11
    BY OffsetStep DEF Header
<1>o2. Offset(fs, 2) = 19
  <2>1. Offset(fs, 1 + 1) = Offset(fs, 1) + fs[1][1]
      BY OffsetStep
  <2>2. fs[1][1] = 8
      BY <1>f1
  <2> QED BY <1>o1, <2>1, <2>2
<1>o3. Offset(fs, 3) = 20
  <2>1. Offset(fs, 2 + 1) = Offset(fs, 2) + fs[2][1]
      BY OffsetStep
  <2>2. fs[2][1] = 1
      BY <1>f2
  <2> QED BY <1>o2, <2>1, <2>2
<1>o4. Offset(fs, 4) = 24
  <2>1. Offset(fs, 3 + 1) = Offset(fs, 3) + fs[3][1]
      BY OffsetStep
  <2>2. fs[3][1] = 4
      BY <1>f3
  <2> QED BY <1>o3, <2>1, <2>2
<1>o5. Offset(fs, 5) = 32
  <2>1. Offset(fs, 4 + 1) = Offset(fs, 4) + fs[4][1]
      BY OffsetStep
  <2>2. fs[4][1] = 8
      BY <1>f4
  <2> QED BY <1>o4, <2>1, <2>2
<1>o6. Offset(fs, 6) = 36
  <2>1. Offset(fs, 5 + 1) = Offset(fs, 5) + fs[5][1]
      BY OffsetStep
  <2>2. fs[5][1] = 4
      BY <1>f5
  <2> QED BY <1>o5, <2>1, <2>2
<1>4. r = Encode("A", l, t, fs)
    BY <1>1
<1>5. r.type = "A" /\ r.locate = l /\ r.ts = t /\ r.len = 36
  <2>1. r.len = Offset(fs, Len(fs) + 1) /\ r.type = "A" /\ r.locate = l /\ r.ts = t
      BY <1>3, <1>4, EncodeProperties
  <2>2. Len(fs) + 1 = 6
      BY <1>2
  <2> QED BY <1>o6, <2>1, <2>2
<1>6. decodes(r)
    BY <1>5 DEF decodes, MinLength, Header
<1>g1. Holds(r, <<11, 8>>) /\ rd(r, <<11, 8>>) = ref
  <2>1. 1 \in 1 .. Len(fs)
      BY <1>2
  <2> QED BY <1>3, <1>4, <1>f1, <1>o1, <2>1, FieldAt
<1>g2. Holds(r, <<19, 1>>) /\ rd(r, <<19, 1>>) = side
  <2>1. 2 \in 1 .. Len(fs)
      BY <1>2
  <2> QED BY <1>3, <1>4, <1>f2, <1>o2, <2>1, FieldAt
<1>g3. Holds(r, <<20, 4>>) /\ rd(r, <<20, 4>>) = shares
  <2>1. 3 \in 1 .. Len(fs)
      BY <1>2
  <2> QED BY <1>3, <1>4, <1>f3, <1>o3, <2>1, FieldAt
<1>g4. Holds(r, <<24, 8>>) /\ rd(r, <<24, 8>>) = stock
  <2>1. 4 \in 1 .. Len(fs)
      BY <1>2
  <2> QED BY <1>3, <1>4, <1>f4, <1>o4, <2>1, FieldAt
<1>g5. Holds(r, <<32, 4>>) /\ rd(r, <<32, 4>>) = price
  <2>1. 5 \in 1 .. Len(fs)
      BY <1>2
  <2> QED BY <1>3, <1>4, <1>f5, <1>o5, <2>1, FieldAt
<1>7. Reads[r.type] = [ref |-> <<11, 8>>, side |-> <<19, 1>>, shares |-> <<20, 4>>,
                       stock |-> <<24, 8>>, price |-> <<32, 4>>]
  <2>1. Reads["A"] = [ref |-> <<11, 8>>, side |-> <<19, 1>>, shares |-> <<20, 4>>,
                      stock |-> <<24, 8>>, price |-> <<32, 4>>]
      BY DEF Reads
  <2> QED BY <1>5, <2>1
<1>8. FieldsFound(r)
    BY <1>7, <1>g1, <1>g2, <1>g3, <1>g4, <1>g5 DEF FieldsFound
<1>9. /\ Number(r, "ref") = ref
      /\ Number(r, "new") = 0
      /\ Number(r, "side") = side
      /\ Number(r, "shares") = shares
      /\ Number(r, "price") = price
    BY <1>7, <1>g1, <1>g2, <1>g3, <1>g4, <1>g5 DEF Number
<1>10. Numeric(r)
    BY <1>5, <1>9, QtyModAssumption DEF Numeric, AnySide
<1>11. Writable(r)
    BY <1>5, <1>6, <1>8, <1>10, DecodeNumbers DEF Writable, Captured, Numeric, AnySide
<1> QED BY <1>5, <1>9, <1>11, DecodeNumbers DEF Says

FieldsE(ref, shares, match) == << <<8, ref>>, <<4, shares>>, <<8, match>> >>

\* What is written for an execution decodes, to what was written.
LEMMA EncodeE ==
    ASSUME NEW l \in 0 .. LocateMod - 1, NEW t \in Nat, NEW ref \in Nat, NEW shares \in 0 .. QtyMod - 1,
           NEW match,
           NEW r, r = Encode("E", l, t, FieldsE(ref, shares, match))
    PROVE  Writable(r) /\ Says(decode(r), "E", l, t, ref, 0, 0, shares, 0)
<1>1. PICK fs : fs = FieldsE(ref, shares, match)
    OBVIOUS
<1>2. Len(fs) = 3 /\ DOMAIN fs = 1 .. 3
    BY <1>1 DEF FieldsE
<1>f1. fs[1] = <<8, ref>>
    BY <1>1 DEF FieldsE
<1>f2. fs[2] = <<4, shares>>
    BY <1>1 DEF FieldsE
<1>f3. fs[3] = <<8, match>>
    BY <1>1 DEF FieldsE
<1>3. Fields(fs)
  <2> SUFFICES ASSUME NEW i \in 1 .. 3 PROVE fs[i][1] \in Nat \ {0}
      BY <1>2 DEF Fields
  <2>1. i = 1 \/ i = 2 \/ i = 3
      OBVIOUS
  <2> QED BY <2>1, <1>f1, <1>f2, <1>f3
<1>o1. Offset(fs, 1) = 11
    BY OffsetStep DEF Header
<1>o2. Offset(fs, 2) = 19
  <2>1. Offset(fs, 1 + 1) = Offset(fs, 1) + fs[1][1]
      BY OffsetStep
  <2>2. fs[1][1] = 8
      BY <1>f1
  <2> QED BY <1>o1, <2>1, <2>2
<1>o3. Offset(fs, 3) = 23
  <2>1. Offset(fs, 2 + 1) = Offset(fs, 2) + fs[2][1]
      BY OffsetStep
  <2>2. fs[2][1] = 4
      BY <1>f2
  <2> QED BY <1>o2, <2>1, <2>2
<1>o4. Offset(fs, 4) = 31
  <2>1. Offset(fs, 3 + 1) = Offset(fs, 3) + fs[3][1]
      BY OffsetStep
  <2>2. fs[3][1] = 8
      BY <1>f3
  <2> QED BY <1>o3, <2>1, <2>2
<1>4. r = Encode("E", l, t, fs)
    BY <1>1
<1>5. r.type = "E" /\ r.locate = l /\ r.ts = t /\ r.len = 31
  <2>1. r.len = Offset(fs, Len(fs) + 1) /\ r.type = "E" /\ r.locate = l /\ r.ts = t
      BY <1>3, <1>4, EncodeProperties
  <2>2. Len(fs) + 1 = 4
      BY <1>2
  <2> QED BY <1>o4, <2>1, <2>2
<1>6. decodes(r)
    BY <1>5 DEF decodes, MinLength, Header
<1>g1. Holds(r, <<11, 8>>) /\ rd(r, <<11, 8>>) = ref
  <2>1. 1 \in 1 .. Len(fs)
      BY <1>2
  <2> QED BY <1>3, <1>4, <1>f1, <1>o1, <2>1, FieldAt
<1>g2. Holds(r, <<19, 4>>) /\ rd(r, <<19, 4>>) = shares
  <2>1. 2 \in 1 .. Len(fs)
      BY <1>2
  <2> QED BY <1>3, <1>4, <1>f2, <1>o2, <2>1, FieldAt
<1>g3. Holds(r, <<23, 8>>) /\ rd(r, <<23, 8>>) = match
  <2>1. 3 \in 1 .. Len(fs)
      BY <1>2
  <2> QED BY <1>3, <1>4, <1>f3, <1>o3, <2>1, FieldAt
<1>7. Reads[r.type] = [ref |-> <<11, 8>>, shares |-> <<19, 4>>, match |-> <<23, 8>>]
  <2>1. Reads["E"] = [ref |-> <<11, 8>>, shares |-> <<19, 4>>, match |-> <<23, 8>>]
      BY DEF Reads
  <2> QED BY <1>5, <2>1
<1>8. FieldsFound(r)
    BY <1>7, <1>g1, <1>g2, <1>g3 DEF FieldsFound
<1>9. /\ Number(r, "ref") = ref
      /\ Number(r, "new") = 0
      /\ Number(r, "side") = 0
      /\ Number(r, "shares") = shares
      /\ Number(r, "price") = 0
    BY <1>7, <1>g1, <1>g2, <1>g3 DEF Number
<1>10. Numeric(r)
    BY <1>5, <1>9, QtyModAssumption DEF Numeric, AnySide
<1>11. Writable(r)
    BY <1>5, <1>6, <1>8, <1>10, DecodeNumbers DEF Writable, Captured, Numeric, AnySide
<1> QED BY <1>5, <1>9, <1>11, DecodeNumbers DEF Says

FieldsP(ref, side, shares, stock, price, match) ==
    << <<8, ref>>, <<1, side>>, <<4, shares>>, <<8, stock>>, <<4, price>>, <<8, match>> >>

\* What is written for a trade decodes, to what was written.
LEMMA EncodeP ==
    ASSUME NEW l \in 0 .. LocateMod - 1, NEW t \in Nat, NEW ref \in Nat, NEW side,
           NEW shares \in 0 .. QtyMod - 1, NEW stock, NEW price \in Nat, NEW match,
           NEW r, r = Encode("P", l, t, FieldsP(ref, side, shares, stock, price, match))
    PROVE  Writable(r) /\ Says(decode(r), "P", l, t, ref, 0, side, shares, price)
<1>1. PICK fs : fs = FieldsP(ref, side, shares, stock, price, match)
    OBVIOUS
<1>2. Len(fs) = 6 /\ DOMAIN fs = 1 .. 6
    BY <1>1 DEF FieldsP
<1>f1. fs[1] = <<8, ref>>
    BY <1>1 DEF FieldsP
<1>f2. fs[2] = <<1, side>>
    BY <1>1 DEF FieldsP
<1>f3. fs[3] = <<4, shares>>
    BY <1>1 DEF FieldsP
<1>f4. fs[4] = <<8, stock>>
    BY <1>1 DEF FieldsP
<1>f5. fs[5] = <<4, price>>
    BY <1>1 DEF FieldsP
<1>f6. fs[6] = <<8, match>>
    BY <1>1 DEF FieldsP
<1>3. Fields(fs)
  <2> SUFFICES ASSUME NEW i \in 1 .. 6 PROVE fs[i][1] \in Nat \ {0}
      BY <1>2 DEF Fields
  <2>1. i = 1 \/ i = 2 \/ i = 3 \/ i = 4 \/ i = 5 \/ i = 6
      OBVIOUS
  <2> QED BY <2>1, <1>f1, <1>f2, <1>f3, <1>f4, <1>f5, <1>f6
<1>o1. Offset(fs, 1) = 11
    BY OffsetStep DEF Header
<1>o2. Offset(fs, 2) = 19
  <2>1. Offset(fs, 1 + 1) = Offset(fs, 1) + fs[1][1]
      BY OffsetStep
  <2>2. fs[1][1] = 8
      BY <1>f1
  <2> QED BY <1>o1, <2>1, <2>2
<1>o3. Offset(fs, 3) = 20
  <2>1. Offset(fs, 2 + 1) = Offset(fs, 2) + fs[2][1]
      BY OffsetStep
  <2>2. fs[2][1] = 1
      BY <1>f2
  <2> QED BY <1>o2, <2>1, <2>2
<1>o4. Offset(fs, 4) = 24
  <2>1. Offset(fs, 3 + 1) = Offset(fs, 3) + fs[3][1]
      BY OffsetStep
  <2>2. fs[3][1] = 4
      BY <1>f3
  <2> QED BY <1>o3, <2>1, <2>2
<1>o5. Offset(fs, 5) = 32
  <2>1. Offset(fs, 4 + 1) = Offset(fs, 4) + fs[4][1]
      BY OffsetStep
  <2>2. fs[4][1] = 8
      BY <1>f4
  <2> QED BY <1>o4, <2>1, <2>2
<1>o6. Offset(fs, 6) = 36
  <2>1. Offset(fs, 5 + 1) = Offset(fs, 5) + fs[5][1]
      BY OffsetStep
  <2>2. fs[5][1] = 4
      BY <1>f5
  <2> QED BY <1>o5, <2>1, <2>2
<1>o7. Offset(fs, 7) = 44
  <2>1. Offset(fs, 6 + 1) = Offset(fs, 6) + fs[6][1]
      BY OffsetStep
  <2>2. fs[6][1] = 8
      BY <1>f6
  <2> QED BY <1>o6, <2>1, <2>2
<1>4. r = Encode("P", l, t, fs)
    BY <1>1
<1>5. r.type = "P" /\ r.locate = l /\ r.ts = t /\ r.len = 44
  <2>1. r.len = Offset(fs, Len(fs) + 1) /\ r.type = "P" /\ r.locate = l /\ r.ts = t
      BY <1>3, <1>4, EncodeProperties
  <2>2. Len(fs) + 1 = 7
      BY <1>2
  <2> QED BY <1>o7, <2>1, <2>2
<1>6. decodes(r)
    BY <1>5 DEF decodes, MinLength, Header
<1>g1. Holds(r, <<11, 8>>) /\ rd(r, <<11, 8>>) = ref
  <2>1. 1 \in 1 .. Len(fs)
      BY <1>2
  <2> QED BY <1>3, <1>4, <1>f1, <1>o1, <2>1, FieldAt
<1>g2. Holds(r, <<19, 1>>) /\ rd(r, <<19, 1>>) = side
  <2>1. 2 \in 1 .. Len(fs)
      BY <1>2
  <2> QED BY <1>3, <1>4, <1>f2, <1>o2, <2>1, FieldAt
<1>g3. Holds(r, <<20, 4>>) /\ rd(r, <<20, 4>>) = shares
  <2>1. 3 \in 1 .. Len(fs)
      BY <1>2
  <2> QED BY <1>3, <1>4, <1>f3, <1>o3, <2>1, FieldAt
<1>g4. Holds(r, <<24, 8>>) /\ rd(r, <<24, 8>>) = stock
  <2>1. 4 \in 1 .. Len(fs)
      BY <1>2
  <2> QED BY <1>3, <1>4, <1>f4, <1>o4, <2>1, FieldAt
<1>g5. Holds(r, <<32, 4>>) /\ rd(r, <<32, 4>>) = price
  <2>1. 5 \in 1 .. Len(fs)
      BY <1>2
  <2> QED BY <1>3, <1>4, <1>f5, <1>o5, <2>1, FieldAt
<1>g6. Holds(r, <<36, 8>>) /\ rd(r, <<36, 8>>) = match
  <2>1. 6 \in 1 .. Len(fs)
      BY <1>2
  <2> QED BY <1>3, <1>4, <1>f6, <1>o6, <2>1, FieldAt
<1>7. Reads[r.type] = [ref |-> <<11, 8>>, side |-> <<19, 1>>, shares |-> <<20, 4>>,
                       stock |-> <<24, 8>>, price |-> <<32, 4>>, match |-> <<36, 8>>]
  <2>1. Reads["P"] = [ref |-> <<11, 8>>, side |-> <<19, 1>>, shares |-> <<20, 4>>,
                      stock |-> <<24, 8>>, price |-> <<32, 4>>, match |-> <<36, 8>>]
      BY DEF Reads
  <2> QED BY <1>5, <2>1
<1>8. FieldsFound(r)
    BY <1>7, <1>g1, <1>g2, <1>g3, <1>g4, <1>g5, <1>g6 DEF FieldsFound
<1>9. /\ Number(r, "ref") = ref
      /\ Number(r, "new") = 0
      /\ Number(r, "side") = side
      /\ Number(r, "shares") = shares
      /\ Number(r, "price") = price
    BY <1>7, <1>g1, <1>g2, <1>g3, <1>g4, <1>g5, <1>g6 DEF Number
<1>10. Numeric(r)
    BY <1>5, <1>9, QtyModAssumption DEF Numeric, AnySide
<1>11. Writable(r)
    BY <1>5, <1>6, <1>8, <1>10, DecodeNumbers DEF Writable, Captured, Numeric, AnySide
<1> QED BY <1>5, <1>9, <1>11, DecodeNumbers DEF Says

FieldsR(stock, flags) == << <<8, stock>>, <<20, flags>> >>

\* What is written for a directory entry decodes, to what was written.
LEMMA EncodeR ==
    ASSUME NEW l \in 0 .. LocateMod - 1, NEW t \in Nat, NEW stock, NEW flags,
           NEW r, r = Encode("R", l, t, FieldsR(stock, flags))
    PROVE  Writable(r) /\ Says(decode(r), "R", l, t, 0, 0, 0, 0, 0)
<1>1. PICK fs : fs = FieldsR(stock, flags)
    OBVIOUS
<1>2. Len(fs) = 2 /\ DOMAIN fs = 1 .. 2
    BY <1>1 DEF FieldsR
<1>f1. fs[1] = <<8, stock>>
    BY <1>1 DEF FieldsR
<1>f2. fs[2] = <<20, flags>>
    BY <1>1 DEF FieldsR
<1>3. Fields(fs)
  <2> SUFFICES ASSUME NEW i \in 1 .. 2 PROVE fs[i][1] \in Nat \ {0}
      BY <1>2 DEF Fields
  <2>1. i = 1 \/ i = 2
      OBVIOUS
  <2> QED BY <2>1, <1>f1, <1>f2
<1>o1. Offset(fs, 1) = 11
    BY OffsetStep DEF Header
<1>o2. Offset(fs, 2) = 19
  <2>1. Offset(fs, 1 + 1) = Offset(fs, 1) + fs[1][1]
      BY OffsetStep
  <2>2. fs[1][1] = 8
      BY <1>f1
  <2> QED BY <1>o1, <2>1, <2>2
<1>o3. Offset(fs, 3) = 39
  <2>1. Offset(fs, 2 + 1) = Offset(fs, 2) + fs[2][1]
      BY OffsetStep
  <2>2. fs[2][1] = 20
      BY <1>f2
  <2> QED BY <1>o2, <2>1, <2>2
<1>4. r = Encode("R", l, t, fs)
    BY <1>1
<1>5. r.type = "R" /\ r.locate = l /\ r.ts = t /\ r.len = 39
  <2>1. r.len = Offset(fs, Len(fs) + 1) /\ r.type = "R" /\ r.locate = l /\ r.ts = t
      BY <1>3, <1>4, EncodeProperties
  <2>2. Len(fs) + 1 = 3
      BY <1>2
  <2> QED BY <1>o3, <2>1, <2>2
<1>6. decodes(r)
    BY <1>5 DEF decodes, MinLength, Header
<1>g1. Holds(r, <<11, 8>>) /\ rd(r, <<11, 8>>) = stock
  <2>1. 1 \in 1 .. Len(fs)
      BY <1>2
  <2> QED BY <1>3, <1>4, <1>f1, <1>o1, <2>1, FieldAt
<1>7. Reads[r.type] = [stock |-> <<11, 8>>]
  <2>1. Reads["R"] = [stock |-> <<11, 8>>]
      BY DEF Reads
  <2> QED BY <1>5, <2>1
<1>8. FieldsFound(r)
    BY <1>7, <1>g1 DEF FieldsFound
<1>9. /\ Number(r, "ref") = 0
      /\ Number(r, "new") = 0
      /\ Number(r, "side") = 0
      /\ Number(r, "shares") = 0
      /\ Number(r, "price") = 0
    BY <1>7, <1>g1 DEF Number
<1>10. Numeric(r)
    BY <1>5, <1>9, QtyModAssumption DEF Numeric, AnySide
<1>11. Writable(r)
    BY <1>5, <1>6, <1>8, <1>10, DecodeNumbers DEF Writable, Captured, Numeric, AnySide
<1> QED BY <1>5, <1>9, <1>11, DecodeNumbers DEF Says

FieldsX(ref, shares) == << <<8, ref>>, <<4, shares>> >>

\* What is written for a cancel decodes, to what was written.
LEMMA EncodeX ==
    ASSUME NEW l \in 0 .. LocateMod - 1, NEW t \in Nat, NEW ref \in Nat, NEW shares \in 0 .. QtyMod - 1,
           NEW r, r = Encode("X", l, t, FieldsX(ref, shares))
    PROVE  Writable(r) /\ Says(decode(r), "X", l, t, ref, 0, 0, shares, 0)
<1>1. PICK fs : fs = FieldsX(ref, shares)
    OBVIOUS
<1>2. Len(fs) = 2 /\ DOMAIN fs = 1 .. 2
    BY <1>1 DEF FieldsX
<1>f1. fs[1] = <<8, ref>>
    BY <1>1 DEF FieldsX
<1>f2. fs[2] = <<4, shares>>
    BY <1>1 DEF FieldsX
<1>3. Fields(fs)
  <2> SUFFICES ASSUME NEW i \in 1 .. 2 PROVE fs[i][1] \in Nat \ {0}
      BY <1>2 DEF Fields
  <2>1. i = 1 \/ i = 2
      OBVIOUS
  <2> QED BY <2>1, <1>f1, <1>f2
<1>o1. Offset(fs, 1) = 11
    BY OffsetStep DEF Header
<1>o2. Offset(fs, 2) = 19
  <2>1. Offset(fs, 1 + 1) = Offset(fs, 1) + fs[1][1]
      BY OffsetStep
  <2>2. fs[1][1] = 8
      BY <1>f1
  <2> QED BY <1>o1, <2>1, <2>2
<1>o3. Offset(fs, 3) = 23
  <2>1. Offset(fs, 2 + 1) = Offset(fs, 2) + fs[2][1]
      BY OffsetStep
  <2>2. fs[2][1] = 4
      BY <1>f2
  <2> QED BY <1>o2, <2>1, <2>2
<1>4. r = Encode("X", l, t, fs)
    BY <1>1
<1>5. r.type = "X" /\ r.locate = l /\ r.ts = t /\ r.len = 23
  <2>1. r.len = Offset(fs, Len(fs) + 1) /\ r.type = "X" /\ r.locate = l /\ r.ts = t
      BY <1>3, <1>4, EncodeProperties
  <2>2. Len(fs) + 1 = 3
      BY <1>2
  <2> QED BY <1>o3, <2>1, <2>2
<1>6. decodes(r)
    BY <1>5 DEF decodes, MinLength, Header
<1>g1. Holds(r, <<11, 8>>) /\ rd(r, <<11, 8>>) = ref
  <2>1. 1 \in 1 .. Len(fs)
      BY <1>2
  <2> QED BY <1>3, <1>4, <1>f1, <1>o1, <2>1, FieldAt
<1>g2. Holds(r, <<19, 4>>) /\ rd(r, <<19, 4>>) = shares
  <2>1. 2 \in 1 .. Len(fs)
      BY <1>2
  <2> QED BY <1>3, <1>4, <1>f2, <1>o2, <2>1, FieldAt
<1>7. Reads[r.type] = [ref |-> <<11, 8>>, shares |-> <<19, 4>>]
  <2>1. Reads["X"] = [ref |-> <<11, 8>>, shares |-> <<19, 4>>]
      BY DEF Reads
  <2> QED BY <1>5, <2>1
<1>8. FieldsFound(r)
    BY <1>7, <1>g1, <1>g2 DEF FieldsFound
<1>9. /\ Number(r, "ref") = ref
      /\ Number(r, "new") = 0
      /\ Number(r, "side") = 0
      /\ Number(r, "shares") = shares
      /\ Number(r, "price") = 0
    BY <1>7, <1>g1, <1>g2 DEF Number
<1>10. Numeric(r)
    BY <1>5, <1>9, QtyModAssumption DEF Numeric, AnySide
<1>11. Writable(r)
    BY <1>5, <1>6, <1>8, <1>10, DecodeNumbers DEF Writable, Captured, Numeric, AnySide
<1> QED BY <1>5, <1>9, <1>11, DecodeNumbers DEF Says

FieldsD(ref) == << <<8, ref>> >>

\* What is written for a delete decodes, to what was written.
LEMMA EncodeD ==
    ASSUME NEW l \in 0 .. LocateMod - 1, NEW t \in Nat, NEW ref \in Nat,
           NEW r, r = Encode("D", l, t, FieldsD(ref))
    PROVE  Writable(r) /\ Says(decode(r), "D", l, t, ref, 0, 0, 0, 0)
<1>1. PICK fs : fs = FieldsD(ref)
    OBVIOUS
<1>2. Len(fs) = 1 /\ DOMAIN fs = 1 .. 1
    BY <1>1 DEF FieldsD
<1>f1. fs[1] = <<8, ref>>
    BY <1>1 DEF FieldsD
<1>3. Fields(fs)
  <2> SUFFICES ASSUME NEW i \in 1 .. 1 PROVE fs[i][1] \in Nat \ {0}
      BY <1>2 DEF Fields
  <2>1. i = 1
      OBVIOUS
  <2> QED BY <2>1, <1>f1
<1>o1. Offset(fs, 1) = 11
    BY OffsetStep DEF Header
<1>o2. Offset(fs, 2) = 19
  <2>1. Offset(fs, 1 + 1) = Offset(fs, 1) + fs[1][1]
      BY OffsetStep
  <2>2. fs[1][1] = 8
      BY <1>f1
  <2> QED BY <1>o1, <2>1, <2>2
<1>4. r = Encode("D", l, t, fs)
    BY <1>1
<1>5. r.type = "D" /\ r.locate = l /\ r.ts = t /\ r.len = 19
  <2>1. r.len = Offset(fs, Len(fs) + 1) /\ r.type = "D" /\ r.locate = l /\ r.ts = t
      BY <1>3, <1>4, EncodeProperties
  <2>2. Len(fs) + 1 = 2
      BY <1>2
  <2> QED BY <1>o2, <2>1, <2>2
<1>6. decodes(r)
    BY <1>5 DEF decodes, MinLength, Header
<1>g1. Holds(r, <<11, 8>>) /\ rd(r, <<11, 8>>) = ref
  <2>1. 1 \in 1 .. Len(fs)
      BY <1>2
  <2> QED BY <1>3, <1>4, <1>f1, <1>o1, <2>1, FieldAt
<1>7. Reads[r.type] = [ref |-> <<11, 8>>]
  <2>1. Reads["D"] = [ref |-> <<11, 8>>]
      BY DEF Reads
  <2> QED BY <1>5, <2>1
<1>8. FieldsFound(r)
    BY <1>7, <1>g1 DEF FieldsFound
<1>9. /\ Number(r, "ref") = ref
      /\ Number(r, "new") = 0
      /\ Number(r, "side") = 0
      /\ Number(r, "shares") = 0
      /\ Number(r, "price") = 0
    BY <1>7, <1>g1 DEF Number
<1>10. Numeric(r)
    BY <1>5, <1>9, QtyModAssumption DEF Numeric, AnySide
<1>11. Writable(r)
    BY <1>5, <1>6, <1>8, <1>10, DecodeNumbers DEF Writable, Captured, Numeric, AnySide
<1> QED BY <1>5, <1>9, <1>11, DecodeNumbers DEF Says

FieldsU(ref, new, shares, price) == << <<8, ref>>, <<8, new>>, <<4, shares>>, <<4, price>> >>

\* What is written for a replace decodes, to what was written.
LEMMA EncodeU ==
    ASSUME NEW l \in 0 .. LocateMod - 1, NEW t \in Nat, NEW ref \in Nat, NEW new \in Nat,
           NEW shares \in 0 .. QtyMod - 1, NEW price \in Nat,
           NEW r, r = Encode("U", l, t, FieldsU(ref, new, shares, price))
    PROVE  Writable(r) /\ Says(decode(r), "U", l, t, ref, new, 0, shares, price)
<1>1. PICK fs : fs = FieldsU(ref, new, shares, price)
    OBVIOUS
<1>2. Len(fs) = 4 /\ DOMAIN fs = 1 .. 4
    BY <1>1 DEF FieldsU
<1>f1. fs[1] = <<8, ref>>
    BY <1>1 DEF FieldsU
<1>f2. fs[2] = <<8, new>>
    BY <1>1 DEF FieldsU
<1>f3. fs[3] = <<4, shares>>
    BY <1>1 DEF FieldsU
<1>f4. fs[4] = <<4, price>>
    BY <1>1 DEF FieldsU
<1>3. Fields(fs)
  <2> SUFFICES ASSUME NEW i \in 1 .. 4 PROVE fs[i][1] \in Nat \ {0}
      BY <1>2 DEF Fields
  <2>1. i = 1 \/ i = 2 \/ i = 3 \/ i = 4
      OBVIOUS
  <2> QED BY <2>1, <1>f1, <1>f2, <1>f3, <1>f4
<1>o1. Offset(fs, 1) = 11
    BY OffsetStep DEF Header
<1>o2. Offset(fs, 2) = 19
  <2>1. Offset(fs, 1 + 1) = Offset(fs, 1) + fs[1][1]
      BY OffsetStep
  <2>2. fs[1][1] = 8
      BY <1>f1
  <2> QED BY <1>o1, <2>1, <2>2
<1>o3. Offset(fs, 3) = 27
  <2>1. Offset(fs, 2 + 1) = Offset(fs, 2) + fs[2][1]
      BY OffsetStep
  <2>2. fs[2][1] = 8
      BY <1>f2
  <2> QED BY <1>o2, <2>1, <2>2
<1>o4. Offset(fs, 4) = 31
  <2>1. Offset(fs, 3 + 1) = Offset(fs, 3) + fs[3][1]
      BY OffsetStep
  <2>2. fs[3][1] = 4
      BY <1>f3
  <2> QED BY <1>o3, <2>1, <2>2
<1>o5. Offset(fs, 5) = 35
  <2>1. Offset(fs, 4 + 1) = Offset(fs, 4) + fs[4][1]
      BY OffsetStep
  <2>2. fs[4][1] = 4
      BY <1>f4
  <2> QED BY <1>o4, <2>1, <2>2
<1>4. r = Encode("U", l, t, fs)
    BY <1>1
<1>5. r.type = "U" /\ r.locate = l /\ r.ts = t /\ r.len = 35
  <2>1. r.len = Offset(fs, Len(fs) + 1) /\ r.type = "U" /\ r.locate = l /\ r.ts = t
      BY <1>3, <1>4, EncodeProperties
  <2>2. Len(fs) + 1 = 5
      BY <1>2
  <2> QED BY <1>o5, <2>1, <2>2
<1>6. decodes(r)
    BY <1>5 DEF decodes, MinLength, Header
<1>g1. Holds(r, <<11, 8>>) /\ rd(r, <<11, 8>>) = ref
  <2>1. 1 \in 1 .. Len(fs)
      BY <1>2
  <2> QED BY <1>3, <1>4, <1>f1, <1>o1, <2>1, FieldAt
<1>g2. Holds(r, <<19, 8>>) /\ rd(r, <<19, 8>>) = new
  <2>1. 2 \in 1 .. Len(fs)
      BY <1>2
  <2> QED BY <1>3, <1>4, <1>f2, <1>o2, <2>1, FieldAt
<1>g3. Holds(r, <<27, 4>>) /\ rd(r, <<27, 4>>) = shares
  <2>1. 3 \in 1 .. Len(fs)
      BY <1>2
  <2> QED BY <1>3, <1>4, <1>f3, <1>o3, <2>1, FieldAt
<1>g4. Holds(r, <<31, 4>>) /\ rd(r, <<31, 4>>) = price
  <2>1. 4 \in 1 .. Len(fs)
      BY <1>2
  <2> QED BY <1>3, <1>4, <1>f4, <1>o4, <2>1, FieldAt
<1>7. Reads[r.type] = [ref |-> <<11, 8>>, new |-> <<19, 8>>, shares |-> <<27, 4>>,
                       price |-> <<31, 4>>]
  <2>1. Reads["U"] = [ref |-> <<11, 8>>, new |-> <<19, 8>>, shares |-> <<27, 4>>,
                      price |-> <<31, 4>>]
      BY DEF Reads
  <2> QED BY <1>5, <2>1
<1>8. FieldsFound(r)
    BY <1>7, <1>g1, <1>g2, <1>g3, <1>g4 DEF FieldsFound
<1>9. /\ Number(r, "ref") = ref
      /\ Number(r, "new") = new
      /\ Number(r, "side") = 0
      /\ Number(r, "shares") = shares
      /\ Number(r, "price") = price
    BY <1>7, <1>g1, <1>g2, <1>g3, <1>g4 DEF Number
<1>10. Numeric(r)
    BY <1>5, <1>9, QtyModAssumption DEF Numeric, AnySide
<1>11. Writable(r)
    BY <1>5, <1>6, <1>8, <1>10, DecodeNumbers DEF Writable, Captured, Numeric, AnySide
<1> QED BY <1>5, <1>9, <1>11, DecodeNumbers DEF Says

-----------------------------------------------------------------------------
(* The ladder of make_synthetic_book. *)

Live == [ref : Nat, side : Sides]

\* What the two vectors of make_synthetic_book are: parallel, with a price for
\* every live order.
LadderType ==
    /\ live \in [{1} -> Seq(Live)]
    /\ px \in Seq(Int)
    /\ Len(px) = Len(live[1])
    /\ next_ref \in Nat

\* A live order as the pair of its side and price.
SideAt(i) == live[1][i].side

Floor(side) == IF side = "B" THEN C ELSE 2 * C

\* LiveUncrossed, of two vectors.
Uncrossed(orders, prices) ==
    /\ \A i \in 1 .. Len(orders) : prices[i] >= Floor(orders[i].side)
    /\ \A i, j \in 1 .. Len(orders) :
           orders[i].side = "B" /\ orders[j].side = "S" => prices[i] < prices[j]

\* The inductive invariant: a generator stays what it is, and the one of the ladder
\* keeps its vectors parallel and uncrossed.
LadderInv == gen = "book" => LadderType /\ Uncrossed(live[1], px)

-----------------------------------------------------------------------------
\* s[i] = s.back(); s.pop_back(): one element less, each from its place or the last.
LEMMA SwapPopProperties ==
    ASSUME NEW S, NEW s \in Seq(S), NEW i \in 1 .. Len(s)
    PROVE  /\ SwapPop(s, i) \in Seq(S)
           /\ Len(SwapPop(s, i)) = Len(s) - 1
           /\ \A j \in 1 .. Len(s) - 1 :
                  SwapPop(s, i)[j] = s[IF j = i THEN Len(s) ELSE j]
<1> DEFINE len == Len(s)
<1>1. len \in Nat \ {0} /\ len - 1 \in Nat
    OBVIOUS
<1>2. \A j \in 1 .. len - 1 : (IF j = i THEN s[len] ELSE s[j]) \in S
    BY <1>1
<1>3. SwapPop(s, i) \in [1 .. len - 1 -> S]
    BY <1>2 DEF SwapPop
<1>4. SwapPop(s, i) \in Seq(S) /\ Len(SwapPop(s, i)) = len - 1
    BY <1>1, <1>3, IsASeq
<1>5. \A j \in 1 .. len - 1 : SwapPop(s, i)[j] = s[IF j = i THEN len ELSE j]
    BY DEF SwapPop
<1> QED BY <1>4, <1>5

\* What best() returns is at least the floor of its side, and no live order of the
\* side is further inside.
LEMMA BestBounds ==
    ASSUME LadderType, Uncrossed(live[1], px), NEW side \in Sides, NEW p \in best(side)
    PROVE  /\ p \in Int /\ p >= Floor(side)
           /\ \A i \in 1 .. Len(live[1]) :
                  SideAt(i) = side => IF side = "B" THEN px[i] <= p ELSE px[i] >= p
<1>1. live[1] \in Seq(Live) /\ DOMAIN live[1] = 1 .. Len(live[1]) /\ Len(live[1]) \in Nat
    BY DEF LadderType
<1>2. \A i \in 1 .. Len(live[1]) : px[i] \in Int
    BY <1>1 DEF LadderType
<1>3. C \in Nat /\ SeedBid \in Nat /\ SeedAsk \in Nat /\ SeedBid >= C /\ SeedAsk >= 2 * C
    BY FeedAssumption
<1>4. CASE OnSideOf(side) = {}
  <2>1. p = (IF side = "B" THEN SeedBid ELSE SeedAsk)
      BY <1>4 DEF best
  <2>2. \A i \in 1 .. Len(live[1]) : SideAt(i) # side
      BY <1>1, <1>4 DEF OnSideOf, SideAt
  <2> QED BY <1>3, <2>1, <2>2 DEF Floor
<1>5. CASE OnSideOf(side) # {}
  <2>1. /\ p \in OnSideOf(side)
        /\ \A q \in OnSideOf(side) : IF side = "B" THEN q <= p ELSE q >= p
      BY <1>5 DEF best
  <2>2. PICK i \in 1 .. Len(live[1]) : live[1][i].side = side /\ p = px[i]
      BY <1>1, <2>1 DEF OnSideOf
  <2>3. p \in Int /\ p >= Floor(side)
      BY <1>2, <2>2 DEF Uncrossed
  <2>4. \A j \in 1 .. Len(live[1]) : SideAt(j) = side => px[j] \in OnSideOf(side)
      BY <1>1 DEF OnSideOf, SideAt
  <2> QED BY <2>1, <2>3, <2>4
<1> QED BY <1>4, <1>5

\* The price of a new order is on its own side of every live order of the other one;
\* the floor of one cent cannot lift a bid to an ask, which is at two or more.
LEMMA QuoteSafe ==
    ASSUME LadderType, Uncrossed(live[1], px), NEW side \in Sides,
           NEW bb \in best("B"), NEW ba \in best("S"), NEW k \in 0 .. Depth - 1
    PROVE  LET p == quote(side, bb, ba, k)
           IN  /\ p \in Int /\ p >= Floor(side)
               /\ \A i \in 1 .. Len(live[1]) :
                      SideAt(i) # side => IF side = "B" THEN p < px[i] ELSE px[i] < p
<1> DEFINE p == quote(side, bb, ba, k)
           len == Len(live[1])
<1>1. C \in Nat \ {0} /\ Depth \in Nat
    BY FeedAssumption
<1>2. k * C \in Nat
    BY <1>1
<1>3. bb \in Int /\ bb >= C /\ \A i \in 1 .. len : SideAt(i) = "B" => px[i] <= bb
    BY BestBounds DEF Sides, Floor
<1>4. ba \in Int /\ ba >= 2 * C /\ \A i \in 1 .. len : SideAt(i) = "S" => px[i] >= ba
    BY BestBounds DEF Sides, Floor
<1>5. \A i \in 1 .. len : SideAt(i) \in Sides /\ px[i] \in Int /\ px[i] >= Floor(SideAt(i))
  <2>1. live[1] \in Seq(Live) /\ len \in Nat
      BY DEF LadderType
  <2>2. \A i \in 1 .. len : live[1][i] \in Live /\ px[i] \in Int
      BY <2>1 DEF LadderType
  <2> QED BY <2>2 DEF Live, Uncrossed, SideAt
<1>6. CASE side = "B"
  <2>1. p = (IF ba - C - k * C < C THEN C ELSE ba - C - k * C)
      BY <1>6 DEF quote, AtLeastCent
  <2>2. p \in Int /\ p >= C /\ (p = C \/ p <= ba - C)
      BY <1>1, <1>2, <1>4, <2>1
  <2>3. \A i \in 1 .. len : SideAt(i) = "S" => px[i] >= 2 * C /\ px[i] >= ba
      BY <1>4, <1>5 DEF Floor
  <2>4. \A i \in 1 .. len : SideAt(i) = "S" => p < px[i]
      BY <1>1, <1>4, <1>5, <2>2, <2>3
  <2> QED BY <1>5, <1>6, <2>2, <2>4 DEF Sides, Floor
<1>7. CASE side = "S"
  <2>1. p = (IF bb + C + k * C < C THEN C ELSE bb + C + k * C)
      BY <1>7 DEF quote, AtLeastCent
  <2>2. p \in Int /\ p >= bb + C /\ p >= 2 * C
      BY <1>1, <1>2, <1>3, <2>1
  <2>3. \A i \in 1 .. len : SideAt(i) = "B" => px[i] < p
      BY <1>1, <1>3, <1>5, <2>2
  <2> QED BY <1>5, <1>7, <2>2, <2>3 DEF Sides, Floor
<1> QED BY <1>6, <1>7 DEF Sides
-----------------------------------------------------------------------------
\* An order added at a safe price leaves the ladder uncrossed.
LEMMA AddKeeps ==
    ASSUME LadderType, Uncrossed(live[1], px), NEW side \in Sides, add(side)
    PROVE  LadderType' /\ Uncrossed(live[1], px)'
<1> DEFINE len == Len(live[1])
<1>1. PICK bb \in best("B"), ba \in best("S"), k \in 0 .. Depth - 1, shares \in Lots :
          /\ emit_add(1, side, shares, quote(side, bb, ba, k))
          /\ px' = Append(px, quote(side, bb, ba, k))
    BY DEF add
<1> DEFINE p == quote(side, bb, ba, k)
           o == [ref |-> next_ref, side |-> side]
<1>2. /\ p \in Int /\ p >= Floor(side)
      /\ \A i \in 1 .. len : SideAt(i) # side => IF side = "B" THEN p < px[i] ELSE px[i] < p
    BY QuoteSafe
<1> HIDE DEF p
<1>3. /\ live[1] \in Seq(Live) /\ len \in Nat /\ o \in Live
      /\ px \in Seq(Int) /\ Len(px) = len
    BY DEF LadderType, Live
<1>4. live' = [live EXCEPT ![1] = Append(live[1], o)] /\ next_ref' = next_ref + 1
    BY <1>1 DEF emit_add, RefAfter
<1>5. live'[1] = Append(live[1], o) /\ live' \in [{1} -> Seq(Live)] /\ px' = Append(px, p)
    BY <1>1, <1>3, <1>4 DEF LadderType, p
<1>6. /\ Len(live'[1]) = len + 1 /\ Len(px') = len + 1 /\ px' \in Seq(Int)
      /\ live'[1][len + 1] = o /\ px'[len + 1] = p
      /\ \A i \in 1 .. len : live'[1][i] = live[1][i] /\ px'[i] = px[i]
    BY <1>2, <1>3, <1>5
<1>7. LadderType'
    BY <1>4, <1>5, <1>6 DEF LadderType
<1>8. \A i \in 1 .. len + 1 : i \in 1 .. len \/ i = len + 1
    BY <1>3
<1> DEFINE s(i) == live'[1][i].side
<1>14. s(len + 1) = side /\ \A i \in 1 .. len : s(i) = SideAt(i)
    BY <1>6, SMTT(30) DEF SideAt
<1>15. \A i \in 1 .. len : px'[i] = px[i] /\ px[i] \in Int
    BY <1>3, <1>6
<1> HIDE DEF s
<1>9. \A i \in 1 .. len + 1 : px'[i] >= Floor(s(i))
  <2>1. \A i \in 1 .. len : px'[i] >= Floor(s(i))
      BY <1>14, <1>15 DEF Uncrossed, SideAt
  <2> QED BY <1>2, <1>6, <1>8, <1>14, <2>1
<1>10. ASSUME NEW i \in 1 .. len + 1, NEW j \in 1 .. len + 1,
              s(i) = "B", s(j) = "S"
       PROVE  px'[i] < px'[j]
  <2>1. CASE i \in 1 .. len /\ j \in 1 .. len
      BY <1>15, <1>14, <1>10, <2>1 DEF Uncrossed, SideAt
  <2>2. CASE i \in 1 .. len /\ j = len + 1
      BY <1>2, <1>6, <1>15, <1>14, <1>10, <2>2
  <2>3. CASE i = len + 1 /\ j \in 1 .. len
      BY <1>2, <1>6, <1>15, <1>14, <1>10, <2>3
  <2>4. CASE i = len + 1 /\ j = len + 1
      BY <1>14, <1>10, <2>4
  <2> QED BY <1>8, <2>1, <2>2, <2>3, <2>4
<1>11. Uncrossed(live'[1], px')
    BY <1>6, <1>9, <1>10 DEF Uncrossed, s
<1> QED BY <1>7, <1>11

\* A delete takes the same place out of both vectors.
LEMMA DeleteKeeps ==
    ASSUME LadderType, Uncrossed(live[1], px), gen = "book", Delete(1)
    PROVE  LadderType' /\ Uncrossed(live[1], px)'
<1> DEFINE len == Len(live[1])
<1>1. live[1] \in Seq(Live) /\ len \in Nat /\ DOMAIN live[1] = 1 .. len
    BY DEF LadderType
<1>2. px \in Seq(Int) /\ Len(px) = len
    BY DEF LadderType
<1>3. PICK i \in 1 .. len : /\ live' = [live EXCEPT ![1] = SwapPop(live[1], i)]
                          /\ px' = SwapPop(px, i) /\ next_ref' = next_ref
    BY <1>1 DEF Delete, PricesAfterDelete
<1> DEFINE at(j) == IF j = i THEN len ELSE j
<1>4. /\ SwapPop(live[1], i) \in Seq(Live) /\ Len(SwapPop(live[1], i)) = len - 1
      /\ \A j \in 1 .. len - 1 : SwapPop(live[1], i)[j] = live[1][at(j)]
    BY <1>1, SwapPopProperties, SMTT(30)
<1>5. /\ SwapPop(px, i) \in Seq(Int) /\ Len(SwapPop(px, i)) = len - 1
      /\ \A j \in 1 .. len - 1 : SwapPop(px, i)[j] = px[at(j)]
  <2>1. i \in 1 .. Len(px)
      BY <1>2
  <2>2. /\ SwapPop(px, i) \in Seq(Int) /\ Len(SwapPop(px, i)) = Len(px) - 1
        /\ \A j \in 1 .. Len(px) - 1 : SwapPop(px, i)[j] = px[IF j = i THEN Len(px) ELSE j]
      BY <1>2, <2>1, SwapPopProperties
  <2> QED BY <1>2, <2>2
<1>6. live'[1] = SwapPop(live[1], i) /\ live' \in [{1} -> Seq(Live)]
    BY <1>3, <1>4 DEF LadderType
<1>7. LadderType'
    BY <1>3, <1>4, <1>5, <1>6 DEF LadderType
<1>8. \A j \in 1 .. len - 1 : at(j) \in 1 .. len
    BY <1>1
<1>9. /\ Len(live'[1]) = len - 1
      /\ \A j \in 1 .. len - 1 : live'[1][j] = live[1][at(j)] /\ px'[j] = px[at(j)]
    BY <1>3, <1>4, <1>5, <1>6
<1> HIDE DEF at
<1>10. ASSUME NEW j \in 1 .. len - 1 PROVE px'[j] >= Floor(live'[1][j].side)
  <2>1. px[at(j)] >= Floor(live[1][at(j)].side)
      BY <1>8 DEF Uncrossed
  <2> QED BY <1>9, <2>1
<1>11. ASSUME NEW j \in 1 .. len - 1, NEW k \in 1 .. len - 1,
              live'[1][j].side = "B", live'[1][k].side = "S"
       PROVE  px'[j] < px'[k]
  <2>1. live[1][at(j)].side = "B" /\ live[1][at(k)].side = "S"
      BY <1>9, <1>11
  <2>2. px[at(j)] < px[at(k)]
      BY <1>8, <2>1 DEF Uncrossed
  <2> QED BY <1>9, <2>2
<1>12. Uncrossed(live'[1], px')
    BY <1>9, <1>10, <1>11 DEF Uncrossed
<1> QED BY <1>7, <1>12
-----------------------------------------------------------------------------
LEMMA LadderInit == GenInit => LadderInv
<1> SUFFICES ASSUME GenInit, gen = "book" PROVE LadderType /\ Uncrossed(live[1], px)
    BY DEF LadderInv
<1>1. live = [l \in {1} |-> <<>>] /\ px = <<>> /\ next_ref = 1
    BY DEF GenInit, Locates
<1>2. live[1] = <<>> /\ Len(live[1]) = 0
    BY <1>1
<1> QED BY <1>1, <1>2 DEF LadderType, Uncrossed

\* One step of the generator of the ladder; the other generators keep gen.
LEMMA LadderStep == LadderInv /\ [GenNext]_genVars => LadderInv'
<1> SUFFICES ASSUME LadderInv, [GenNext]_genVars, gen' = "book"
             PROVE  LadderType' /\ Uncrossed(live[1], px)'
    BY DEF LadderInv
<1>1. CASE UNCHANGED genVars
    BY <1>1 DEF genVars, LadderInv, LadderType, Uncrossed
<1>2. CASE Directory \/ SeedPool
    BY <1>2 DEF Directory, SeedPool
<1>3. CASE SeedLadder
  <2>1. gen = "book" /\ \E side \in Sides : add(side)
      BY <1>3 DEF SeedLadder, Sides
  <2> QED BY <2>1, AddKeeps DEF LadderInv
<1>4. ASSUME NEW l \in Locates(gen),
             MixAdd(l) \/ Execute(l) \/ Cancel(l) \/ Delete(l) \/ Replace(l) \/ Trade(l)
      PROVE  LadderType' /\ Uncrossed(live[1], px)'
  <2>1. gen = "book" /\ l = 1
      BY <1>4 DEF MixAdd, Execute, Cancel, Delete, Replace, Trade, Mixing, Locates
  <2>2. CASE MixAdd(l)
      BY <2>1, <2>2, AddKeeps DEF MixAdd, LadderInv
  <2>3. CASE Execute(l) \/ Trade(l)
      BY <2>1, <2>3 DEF Execute, Trade, LadderInv, LadderType, Uncrossed
  <2>4. CASE Cancel(l) \/ Replace(l)
      BY <2>1, <2>4 DEF Cancel, Replace
  <2>5. CASE Delete(l)
      BY <2>1, <2>5, DeleteKeeps DEF LadderInv
  <2> QED BY <1>4, <2>2, <2>3, <2>4, <2>5
<1> QED BY <1>1, <1>2, <1>3, <1>4 DEF GenNext

-----------------------------------------------------------------------------
(* What the generators write: records that decode, and hold numbers.         *)

\* A sequence, of whatever it holds.
IsList(s) == s \in Seq({s[i] : i \in 1 .. Len(s)})

LEMMA AppendList ==
    ASSUME NEW s, IsList(s), NEW r
    PROVE  /\ IsList(Append(s, r)) /\ Len(s) \in Nat
           /\ Len(Append(s, r)) = Len(s) + 1 /\ Append(s, r)[Len(s) + 1] = r
           /\ \A i \in 1 .. Len(s) : Append(s, r)[i] = s[i]
<1> DEFINE S == {s[i] : i \in 1 .. Len(s)} \cup {r}
           a == Append(s, r)
<1>1. s \in Seq(S)
    BY DEF IsList
<1> HIDE DEF S
<1>2. r \in S
    BY DEF S
<1>3. /\ a \in Seq(S) /\ Len(s) \in Nat /\ Len(a) = Len(s) + 1 /\ a[Len(s) + 1] = r
      /\ \A i \in 1 .. Len(s) : a[i] = s[i]
    BY <1>1, <1>2
<1> HIDE DEF a
<1>4. a \in [1 .. Len(a) -> {a[i] : i \in 1 .. Len(a)}] /\ Len(a) \in Nat
    BY <1>3
<1>5. IsList(a)
    BY <1>4, IsASeq DEF IsList
<1> QED BY <1>3, <1>5 DEF a

\* Every record is one decode() can read; a generator writes nothing else.
Sound(c) == \A i \in 1 .. Len(c) : Captured(c[i]) /\ (gen # "file" => decodes(c[i]))

GenType ==
    /\ gen \in Gens
    /\ live \in [Locates(gen) -> Seq(Live)]
    /\ mid \in [Locates(gen) -> Nat]
    /\ next_ref \in Nat /\ ts \in Nat

DataInv ==
    /\ IsList(data) /\ Sound(data)
    /\ gen # "file" => GenType

LEMMA LocatesFit == Locates(gen) \subseteq 0 .. LocateMod - 1
    BY FeedAssumption, FileAssumption DEF Locates

\* One record more.
LEMMA WriteKeeps ==
    ASSUME IsList(data), Sound(data), gen' = gen, NEW r, data' = Append(data, r),
           Writable(r)
    PROVE  IsList(data') /\ Sound(data)'
<1>1. /\ IsList(data') /\ Len(data) \in Nat /\ Len(data') = Len(data) + 1
      /\ data'[Len(data) + 1] = r /\ \A i \in 1 .. Len(data) : data'[i] = data[i]
    BY AppendList
<1>2. ASSUME NEW i \in 1 .. Len(data')
      PROVE  Captured(data'[i]) /\ (gen # "file" => decodes(data'[i]))
  <2>1. CASE i = Len(data) + 1
      BY <1>1, <2>1 DEF Writable
  <2>2. CASE i # Len(data) + 1
    <3>1. i \in 1 .. Len(data)
        BY <1>1, <2>2
    <3>2. data'[i] = data[i]
        BY <1>1, <3>1
    <3>3. Captured(data[i]) /\ (gen # "file" => decodes(data[i]))
        BY <3>1 DEF Sound
    <3> QED BY <3>2, <3>3
  <2> QED BY <2>1, <2>2
<1> QED BY <1>1, <1>2 DEF Sound

LEMMA AddPxIsPrice ==
    ASSUME NEW m \in Nat, NEW side, NEW k \in Nat
    PROVE  add_px(m, side, k) \in Nat
<1>1. PICK d \in Nat : d = k * C
    BY FeedAssumption
<1>2. m - d \in Int /\ m + d \in Nat /\ C \in Nat
    BY FeedAssumption
<1> QED BY <1>1, <1>2 DEF add_px, AtLeastCent

LEMMA WalkIsPrice ==
    ASSUME NEW m \in Nat, NEW w \in Walk(m)
    PROVE  w \in Nat
    BY FeedAssumption DEF Walk

LEMMA AddWrites ==
    ASSUME DataInv, gen # "file", gen' = gen, NEW l \in Locates(gen), NEW side \in Sides,
           NEW shares \in Lots, NEW price \in Nat, emit_add(l, side, shares, price)
    PROVE  /\ IsList(data') /\ Sound(data)' /\ next_ref' \in Nat
           /\ live' \in [Locates(gen) -> Seq(Live)]
<1>1. /\ l \in 0 .. LocateMod - 1 /\ ts \in Nat /\ next_ref \in Nat
      /\ shares \in 0 .. QtyMod - 1 /\ live \in [Locates(gen) -> Seq(Live)]
    BY LocatesFit, FileAssumption DEF DataInv, GenType
<1>2. PICK r : r = Encode("A", l, ts, FieldsA(next_ref, side, shares, "SYNTH", price))
    OBVIOUS
<1>3. Writable(r)
    BY <1>1, <1>2, EncodeA
<1>4. data' = Append(data, r)
    BY <1>2 DEF emit_add, Write, FieldsA
<1>5. IsList(data') /\ Sound(data)'
    BY <1>3, <1>4, WriteKeeps DEF DataInv
<1>6. [ref |-> next_ref, side |-> side] \in Live
    BY <1>1 DEF Live
<1>7. Append(live[l], [ref |-> next_ref, side |-> side]) \in Seq(Live)
    BY <1>1, <1>6
<1>8. live' \in [Locates(gen) -> Seq(Live)]
    BY <1>1, <1>7 DEF emit_add
<1> QED BY <1>1, <1>5, <1>8 DEF emit_add, RefAfter

LEMMA LadderAddWrites ==
    ASSUME DataInv, LadderInv, gen = "book", gen' = gen, NEW side \in Sides, add(side)
    PROVE  /\ IsList(data') /\ Sound(data)' /\ next_ref' \in Nat
           /\ live' \in [Locates(gen) -> Seq(Live)]
<1>1. PICK bb \in best("B"), ba \in best("S"), k \in 0 .. Depth - 1, shares \in Lots :
          emit_add(1, side, shares, quote(side, bb, ba, k))
    BY DEF add
<1>2. bb \in Int /\ ba \in Int
    BY BestBounds DEF LadderInv, Sides
<1>3. quote(side, bb, ba, k) \in Nat
  <2>1. PICK d \in Int : d = k * C
      BY FeedAssumption
  <2>2. ba - C - d \in Int /\ bb + C + d \in Int /\ C \in Nat
      BY <1>2, FeedAssumption
  <2> QED BY <2>1, <2>2 DEF quote, AtLeastCent
<1>4. 1 \in Locates(gen)
    BY DEF Locates
<1> QED BY <1>1, <1>3, <1>4, AddWrites

LEMMA MixingKeeps ==
    ASSUME GenType, NEW l, Mixing(l)
    PROVE  /\ gen' = gen /\ l \in Locates(gen) /\ mid' \in [Locates(gen) -> Nat]
           /\ ts' \in Nat
<1>1. gen' = gen /\ l \in Locates(gen)
    BY DEF Mixing
<1>2. ts' \in Nat
    BY FeedAssumption DEF Mixing, GenType
<1>3. mid' \in [Locates(gen) -> Nat]
  <2>1. CASE gen = "book"
      BY <2>1 DEF Mixing, GenType
  <2>2. CASE gen # "book"
    <3>1. PICK m \in Walk(mid[l]) : mid' = [mid EXCEPT ![l] = m]
        BY <2>2 DEF Mixing
    <3>2. mid[l] \in Nat
        BY <1>1 DEF GenType
    <3>3. m \in Nat
        BY <3>2, WalkIsPrice
    <3> QED BY <3>1, <3>3 DEF GenType
  <2> QED BY <2>1, <2>2
<1> QED BY <1>1, <1>2, <1>3

\* Every message that only names a live order.
LEMMA ReferToKeeps ==
    ASSUME DataInv, gen # "file", NEW l \in Locates(gen), NEW i \in DOMAIN live[l]
    PROVE  live[l][i].ref \in Nat /\ live[l][i] \in Live /\ live[l] \in Seq(Live)
           /\ i \in 1 .. Len(live[l])
<1>1. live[l] \in Seq(Live)
    BY DEF DataInv, GenType
<1>2. i \in 1 .. Len(live[l]) /\ live[l][i] \in Live
    BY <1>1
<1> QED BY <1>1, <1>2 DEF Live

LEMMA DirectoryKeeps == DataInv /\ Directory => DataInv'
<1> SUFFICES ASSUME DataInv, Directory PROVE DataInv'
    OBVIOUS
<1> DEFINE l == Len(data) + 1
<1>1. gen = "multi" /\ UNCHANGED <<gen, live, px, mid, next_ref, ts>> /\ GenType
    BY DEF Directory, DataInv
<1>2. l \in 0 .. LocateMod - 1
  <2>1. Len(data) \in Nat
      BY AppendList DEF DataInv
  <2>2. Len(data) < Symbols
      BY <1>1 DEF Directory, Warming, WarmUp
  <2> QED BY <2>1, <2>2, FeedAssumption, FileAssumption
<1>3. PICK r : r = Encode("R", l, ts, FieldsR(<<"SYN", (l - 1) % 100>>, 0))
    OBVIOUS
<1>4. data' = Append(data, r)
    BY <1>3 DEF Directory, Write, FieldsR
<1> HIDE DEF l
<1>5. ts \in Nat
    BY <1>1 DEF GenType
<1>6. Writable(r)
    BY <1>2, <1>3, <1>5, EncodeR
<1>7. IsList(data') /\ Sound(data)'
    BY <1>1, <1>4, <1>6, WriteKeeps DEF DataInv
<1>8. GenType'
    BY <1>1 DEF GenType, Locates
<1> QED BY <1>7, <1>8 DEF DataInv

\* The adds of the warm-up.
LEMMA SeedKeeps == DataInv /\ LadderInv /\ (SeedPool \/ SeedLadder) => DataInv'
<1> SUFFICES ASSUME DataInv, LadderInv, SeedPool \/ SeedLadder PROVE DataInv'
    OBVIOUS
<1>1. UNCHANGED <<gen, mid, ts>> /\ gen # "file"
    BY DEF SeedPool, SeedLadder
<1>2. GenType
    BY <1>1 DEF DataInv
<1>3. /\ IsList(data') /\ Sound(data)' /\ next_ref' \in Nat
      /\ live' \in [Locates(gen) -> Seq(Live)]
  <2>1. CASE SeedPool
    <3>1. PICK side \in Sides, k \in 1 .. Depth, shares \in Lots :
              emit_add(1, side, shares, add_px(mid[1], side, k))
        BY <2>1 DEF SeedPool
    <3>2. 1 \in Locates(gen)
        BY <2>1 DEF SeedPool, Locates
    <3>3. mid[1] \in Nat /\ k \in Nat
        BY <1>2, <3>2, FeedAssumption DEF GenType
    <3>4. add_px(mid[1], side, k) \in Nat
        BY <3>3, AddPxIsPrice
    <3> QED BY <1>1, <3>1, <3>2, <3>4, AddWrites
  <2>2. CASE SeedLadder
    <3>1. gen = "book" /\ \E side \in Sides : add(side)
        BY <2>2 DEF SeedLadder, Sides
    <3> QED BY <1>1, <3>1, LadderAddWrites
  <2> QED BY <2>1, <2>2
<1>4. GenType'
    BY <1>1, <1>2, <1>3 DEF GenType, Locates
<1> QED BY <1>3, <1>4 DEF DataInv

LEMMA MixAddKeeps ==
    ASSUME DataInv, LadderInv, gen # "file", NEW l, MixAdd(l)
    PROVE  DataInv'
<1>1. GenType
    BY DEF DataInv
<1>2. /\ gen' = gen /\ l \in Locates(gen) /\ mid' \in [Locates(gen) -> Nat] /\ ts' \in Nat
    BY <1>1, MixingKeeps DEF MixAdd
<1>3. /\ IsList(data') /\ Sound(data)' /\ next_ref' \in Nat
      /\ live' \in [Locates(gen) -> Seq(Live)]
  <2>1. CASE gen = "book"
    <3>1. PICK side \in Sides : add(side)
        BY <2>1 DEF MixAdd
    <3> QED BY <1>2, <2>1, <3>1, LadderAddWrites
  <2>2. CASE gen # "book"
    <3>1. PICK side \in Sides, k \in 1 .. Depth, shares \in Lots :
              emit_add(l, side, shares, add_px(mid'[l], side, k))
        BY <2>2 DEF MixAdd
    <3>2. mid'[l] \in Nat /\ k \in Nat
        BY <1>2, FeedAssumption
    <3>3. PICK price \in Nat : price = add_px(mid'[l], side, k)
        BY <3>2, AddPxIsPrice
    <3>4. emit_add(l, side, shares, price)
        BY <3>1, <3>3
    <3> QED BY <1>2, <3>4, AddWrites
  <2> QED BY <2>1, <2>2
<1>4. GenType'
    BY <1>1, <1>2, <1>3 DEF GenType, Locates
<1> QED BY <1>3, <1>4 DEF DataInv

\* Messages about a live order: an execution, a cancel, a delete or a replace.
LEMMA MixOrderKeeps ==
    ASSUME DataInv, gen # "file", NEW l,
           Execute(l) \/ Cancel(l) \/ Delete(l) \/ Replace(l)
    PROVE  DataInv'
<1>1. GenType
    BY DEF DataInv
<1>2. /\ gen' = gen /\ l \in Locates(gen) /\ mid' \in [Locates(gen) -> Nat] /\ ts' \in Nat
    BY <1>1, MixingKeeps DEF Execute, Cancel, Delete, Replace
<1>3. l \in 0 .. LocateMod - 1 /\ ts \in Nat /\ next_ref \in Nat
      /\ live \in [Locates(gen) -> Seq(Live)]
    BY <1>1, <1>2, LocatesFit DEF GenType
<1>4. /\ \E r : data' = Append(data, r) /\ Writable(r)
      /\ next_ref' \in Nat /\ live' \in [Locates(gen) -> Seq(Live)]
  <2>1. CASE Execute(l)
    <3>1. PICK i \in DOMAIN live[l], shares \in Clips : WriteExecute(l, i, shares)
        BY <2>1 DEF Execute
    <3>2. live[l][i].ref \in Nat /\ shares \in 0 .. QtyMod - 1
        BY <1>2, <3>1, ReferToKeeps, FileAssumption
    <3>3. PICK r : r = Encode("E", l, ts, FieldsE(live[l][i].ref, shares, Len(data)))
        OBVIOUS
    <3>4. data' = Append(data, r)
        BY <3>1, <3>3 DEF WriteExecute, Write, FieldsE
    <3>5. Writable(r)
        BY <1>3, <3>2, <3>3, EncodeE
    <3> QED BY <1>3, <2>1, <3>4, <3>5 DEF Execute
  <2>2. CASE Cancel(l)
    <3>1. PICK i \in DOMAIN live[l], shares \in Clips :
              Write("X", l, << <<8, live[l][i].ref>>, <<4, shares>> >>)
        BY <2>2 DEF Cancel
    <3>2. live[l][i].ref \in Nat /\ shares \in 0 .. QtyMod - 1
        BY <1>2, <3>1, ReferToKeeps, FileAssumption
    <3>a. PICK ref \in Nat : ref = live[l][i].ref
        BY <3>2
    <3>3. PICK r : r = Encode("X", l, ts, FieldsX(ref, shares))
        OBVIOUS
    <3>4. data' = Append(data, r)
        BY <3>1, <3>a, <3>3 DEF Write, FieldsX
    <3>5. Writable(r)
        BY <1>3, <3>2, <3>3, EncodeX
    <3> QED BY <1>3, <2>2, <3>4, <3>5 DEF Cancel
  <2>3. CASE Delete(l)
    <3>1. PICK i \in DOMAIN live[l] :
              /\ Write("D", l, << <<8, live[l][i].ref>> >>)
              /\ live' = [live EXCEPT ![l] = SwapPop(@, i)]
        BY <2>3 DEF Delete
    <3>2. live[l][i].ref \in Nat /\ live[l] \in Seq(Live) /\ i \in 1 .. Len(live[l])
        BY <1>2, <3>1, ReferToKeeps
    <3>3. PICK r : r = Encode("D", l, ts, FieldsD(live[l][i].ref))
        OBVIOUS
    <3>4. data' = Append(data, r)
        BY <3>1, <3>3 DEF Write, FieldsD
    <3>5. Writable(r)
        BY <1>3, <3>2, <3>3, EncodeD
    <3>6. SwapPop(live[l], i) \in Seq(Live)
        BY <3>2, SwapPopProperties
    <3>7. live' \in [Locates(gen) -> Seq(Live)]
        BY <1>3, <3>1, <3>6
    <3> QED BY <1>3, <2>3, <3>4, <3>5, <3>7 DEF Delete
  <2>4. CASE Replace(l)
    <3>1. PICK i \in DOMAIN live[l], k \in 1 .. Depth, shares \in Lots :
              /\ Write("U", l, << <<8, live[l][i].ref>>, <<8, next_ref>>, <<4, shares>>,
                                  <<4, add_px(mid'[l], live[l][i].side, k)>> >>)
              /\ live' = [live EXCEPT ![l][i].ref = next_ref]
        BY <2>4 DEF Replace
    <3>2. /\ live[l][i].ref \in Nat /\ shares \in 0 .. QtyMod - 1 /\ live[l][i] \in Live
          /\ live[l] \in Seq(Live) /\ i \in 1 .. Len(live[l])
        BY <1>2, <3>1, ReferToKeeps, FileAssumption
    <3>3. mid'[l] \in Nat /\ k \in Nat
        BY <1>2, FeedAssumption
    <3>4. PICK price \in Nat : price = add_px(mid'[l], live[l][i].side, k)
        BY <3>3, AddPxIsPrice
    <3>a. PICK ref \in Nat : ref = live[l][i].ref
        BY <3>2
    <3>b. PICK new \in Nat : new = next_ref
        BY <1>3
    <3>5. PICK r : r = Encode("U", l, ts, FieldsU(ref, new, shares, price))
        OBVIOUS
    <3>6. data' = Append(data, r)
        BY <3>1, <3>4, <3>a, <3>b, <3>5 DEF Write, FieldsU
    <3>7. Writable(r)
        BY <1>3, <3>2, <3>4, <3>5, EncodeU
    <3>8. [live[l][i] EXCEPT !.ref = next_ref] \in Live
        BY <1>3, <3>2 DEF Live
    <3>9. [live[l] EXCEPT ![i] = [live[l][i] EXCEPT !.ref = next_ref]] \in Seq(Live)
        BY <3>2, <3>8
    <3>10. live' = [live EXCEPT ![l] = [live[l] EXCEPT ![i] =
                                           [live[l][i] EXCEPT !.ref = next_ref]]]
        BY <1>2, <1>3, <3>1, <3>2
    <3>11. live' \in [Locates(gen) -> Seq(Live)]
        BY <1>3, <3>9, <3>10
    <3>12. next_ref' \in Nat
        BY <1>3, <2>4 DEF Replace, RefAfter
    <3> QED BY <3>6, <3>7, <3>11, <3>12
  <2> QED BY <2>1, <2>2, <2>3, <2>4
<1>5. IsList(data') /\ Sound(data)'
    BY <1>2, <1>4, WriteKeeps DEF DataInv
<1>6. GenType'
    BY <1>1, <1>2, <1>4 DEF GenType, Locates
<1> QED BY <1>5, <1>6 DEF DataInv

LEMMA TradeKeeps ==
    ASSUME DataInv, LadderInv, gen # "file", NEW l, Trade(l)
    PROVE  DataInv'
<1>1. GenType
    BY DEF DataInv
<1>2. /\ gen' = gen /\ l \in Locates(gen) /\ mid' \in [Locates(gen) -> Nat] /\ ts' \in Nat
    BY <1>1, MixingKeeps DEF Trade
<1>3. 1 \in 0 .. LocateMod - 1 /\ ts \in Nat /\ 1 \in Locates(gen)
  <2>1. gen # "multi"
      BY DEF Trade
  <2>2. 1 \in Locates(gen)
      BY <2>1 DEF Locates
  <2> QED BY <1>1, <2>2, LocatesFit DEF GenType
<1>4. PICK shares \in Clips, price \in Nat : WriteTrade(shares, price)
  <2>1. PICK shares \in Clips :
          \/ gen = "itch" /\ WriteTrade(shares, mid'[1])
          \/ /\ gen = "book"
             /\ \E bb \in best("B"), ba \in best("S") : WriteTrade(shares, (bb + ba) \div 2)
      BY DEF Trade
  <2>2. CASE gen = "itch"
    <3>1. mid'[1] \in Nat
        BY <1>2, <1>3
    <3> QED BY <2>1, <2>2, <3>1
  <2>3. CASE gen = "book"
    <3>1. PICK bb \in best("B"), ba \in best("S") : WriteTrade(shares, (bb + ba) \div 2)
        BY <2>1, <2>3
    <3>2. bb \in Int /\ ba \in Int /\ bb >= Floor("B") /\ ba >= Floor("S")
        BY <2>3, BestBounds DEF LadderInv, Sides
    <3>3. bb + ba \in Nat
        BY <3>2, FeedAssumption DEF Floor
    <3>4. (bb + ba) \div 2 \in Nat
        BY <3>3
    <3> QED BY <3>1, <3>4
  <2> QED BY <2>1, <2>2, <2>3
<1>5. PICK r : r = Encode("P", 1, ts, FieldsP(0, "any", shares, "SYNTH", price, Len(data)))
    OBVIOUS
<1>6. data' = Append(data, r)
    BY <1>4, <1>5 DEF WriteTrade, Write, FieldsP
<1>7. Writable(r)
  <2>1. shares \in 0 .. QtyMod - 1 /\ 0 \in Nat
      BY FileAssumption
  <2> QED BY <1>3, <1>4, <1>5, <2>1, EncodeP
<1>8. IsList(data') /\ Sound(data)'
    BY <1>2, <1>6, <1>7, WriteKeeps DEF DataInv
<1>9. GenType'
    BY <1>1, <1>2 DEF GenType, Locates, Trade
<1> QED BY <1>8, <1>9 DEF DataInv

LEMMA DataStep == DataInv /\ LadderInv /\ gen # "file" /\ GenNext => DataInv'
<1> SUFFICES ASSUME DataInv, LadderInv, gen # "file", GenNext PROVE DataInv'
    OBVIOUS
<1>1. CASE Directory \/ SeedPool \/ SeedLadder
    BY <1>1, DirectoryKeeps, SeedKeeps
<1>2. ASSUME NEW l \in Locates(gen),
             MixAdd(l) \/ Execute(l) \/ Cancel(l) \/ Delete(l) \/ Replace(l) \/ Trade(l)
      PROVE  DataInv'
    BY <1>2, MixAddKeeps, MixOrderKeeps, TradeKeeps
<1> QED BY <1>1, <1>2 DEF GenNext

LEMMA DataInit == Init => DataInv
<1> SUFFICES ASSUME Init PROVE DataInv
    OBVIOUS
<1>1. CASE GenInit
  <2>1. data = <<>> /\ Len(data) = 0
      BY <1>1 DEF GenInit
  <2>2. IsList(data) /\ Sound(data)
      BY <2>1 DEF IsList, Sound
  <2>3. gen \in Gens /\ next_ref \in Nat /\ ts \in Nat
      BY <1>1 DEF GenInit
  <2>4. live \in [Locates(gen) -> Seq(Live)]
      BY <1>1 DEF GenInit
  <2>5. mid \in [Locates(gen) -> Nat]
    <3>1. ASSUME NEW l \in Locates(gen) PROVE Mid0 + (l - 1) * C \in Nat
      <4>1. l - 1 \in Nat
          BY FeedAssumption DEF Locates
      <4>2. (l - 1) * C \in Nat
          BY <4>1, FeedAssumption
      <4> QED BY <4>2, FeedAssumption
    <3> QED BY <1>1, <3>1 DEF GenInit
  <2> QED BY <2>2, <2>3, <2>4, <2>5 DEF DataInv, GenType
<1>2. CASE InitFile
  <2>1. PICK k \in 1 .. FileLen : data \in [1 .. k -> FileRecords]
      BY <1>2 DEF InitFile
  <2>2. data \in Seq(FileRecords) /\ Len(data) = k /\ k \in Nat
      BY <2>1, FileAssumption
  <2>3. data \in [1 .. Len(data) -> {data[i] : i \in 1 .. Len(data)}]
      BY <2>1, <2>2
  <2>4. IsList(data)
      BY <2>2, <2>3, IsASeq, SMTT(30) DEF IsList
  <2>5. Sound(data)
      BY <1>2, <2>1, <2>2, FileAssumption DEF InitFile, Sound
  <2> QED BY <1>2, <2>4, <2>5 DEF DataInv, InitFile
<1> QED BY <1>1, <1>2 DEF Init

-----------------------------------------------------------------------------
(* The passes over the capture. *)

FeedInv == DataInv /\ LadderInv

LEMMA FeedInit == Init => FeedInv
<1>1. Init => LadderInv
    BY LadderInit DEF Init, InitFile, LadderInv
<1> QED BY <1>1, DataInit DEF FeedInv

LEMMA FeedStep == FeedInv /\ [Next]_vars => FeedInv'
<1> SUFFICES ASSUME FeedInv, [Next]_vars PROVE FeedInv'
    OBVIOUS
<1>1. CASE Generate
  <2>1. DataInv'
      BY <1>1, DataStep DEF FeedInv, Generate
  <2>2. LadderInv'
      BY <1>1, LadderStep DEF FeedInv, Generate
  <2> QED BY <2>1, <2>2 DEF FeedInv
<1>2. CASE UNCHANGED genVars
  <2>1. DataInv'
      BY <1>2 DEF FeedInv, DataInv, Sound, GenType, genVars
  <2>2. LadderInv'
      BY <1>2, LadderStep DEF FeedInv
  <2> QED BY <2>1, <2>2 DEF FeedInv
<1>3. CASE Load \/ Pass1 \/ TapePass \/ Pass2 \/ Report \/ UNCHANGED vars
    BY <1>2, <1>3 DEF Load, Pass1, TapePass, Pass2, Report, vars
<1> QED BY <1>1, <1>3 DEF Next

TapesOf(ms) == After("tapes", ms, Len(ms))

Passes == {"source", "error", "pass1", "tape", "pass2", "report", "done"}

\* What every pass has left behind.
WalkInv ==
    /\ phase \in Passes
    /\ phase # "source" /\ Generated => size = End(data, Len(data))
    /\ phase \in {"tape", "pass2", "report", "done"} =>
           n = Len(Messages) /\ book = Replayed(Messages)
    /\ phase \in {"pass2", "report", "done"} => tapes = TapesOf(Messages)
    /\ phase \in {"report", "done"} =>
           samples = Framed(data, size) /\ b2 = Replayed(Decoded(data, samples))

\* The second walk stops where the first one did.
LEMMA SameWalk ==
    ASSUME NEW z, z = size, Len(data) \in Nat, NEW k \in 0 .. Len(data),
           k = Len(data) \/ Stops2(k), \A i \in 0 .. k - 1 : ~Stops2(i)
    PROVE  k = Framed(data, z)
<1>1. \A i : Stops2(i) <=> Stops(data, z, i)
    BY DEF Stops, Stops2
<1>2. PICK f \in 0 .. Len(data) : f = Framed(data, z)
    BY FramedProperties
<1>3. f = Len(data) \/ Stops(data, z, f)
    BY <1>2, FramedProperties
<1>4. \A i \in 0 .. f - 1 : ~Stops(data, z, i)
    BY <1>2, FramedProperties
<1>5. CASE k < f
  <2>1. k \in 0 .. f - 1 /\ k # Len(data)
      BY <1>5
  <2> QED BY <1>1, <1>4, <2>1
<1>6. CASE f < k
  <2>1. f \in 0 .. k - 1 /\ f # Len(data)
      BY <1>6
  <2> QED BY <1>1, <1>3, <2>1
<1> QED BY <1>2, <1>5, <1>6

LEMMA Pass2Walk ==
    ASSUME Len(data) \in Nat, Pass2
    PROVE  samples' = Framed(data, size)
<1> DEFINE P(k) == (k = Len(data) \/ Stops2(k)) /\ \A i \in 0 .. k - 1 : ~Stops2(i)
<1>1. \A i : Stops2(i) <=> Stops(data, size, i)
    BY DEF Stops, Stops2
<1>2. \E k \in 0 .. Len(data) : P(k)
  <2>1. PICK f \in 0 .. Len(data) : f = Framed(data, size)
      BY FramedProperties
  <2>2. f = Len(data) \/ Stops(data, size, f)
      BY <2>1, FramedProperties
  <2>3. \A i \in 0 .. f - 1 : ~Stops(data, size, i)
      BY <2>1, FramedProperties
  <2> QED BY <1>1, <2>2, <2>3
<1>3. samples' = CHOOSE k \in 0 .. Len(data) : P(k)
    BY DEF Pass2
<1>4. samples' \in 0 .. Len(data) /\ P(samples')
    BY <1>2, <1>3
<1>5. PICK k \in 0 .. Len(data) : k = samples'
    BY <1>4
<1>6. P(k)
    BY <1>4, <1>5
<1>7. k = Framed(data, size)
    BY <1>6, SameWalk
<1> QED BY <1>5, <1>7

LEMMA MessagesList ==
    ASSUME IsList(data)
    PROVE  /\ Len(data) \in Nat /\ Framed(data, size) \in 0 .. Len(data)
           /\ Messages \in Seq({decode(data[i]) :
                                   i \in {j \in 1 .. Len(data) : decodes(data[j])}})
           /\ Len(Messages) \in Nat /\ Len(Messages) <= Framed(data, size)
<1>1. Len(data) \in Nat
    BY AppendList
<1>2. PICK f \in 0 .. Len(data) : f = Framed(data, size)
    BY <1>1, FramedProperties
<1> DEFINE M(k) == {decode(data[i]) : i \in {j \in 1 .. k : decodes(data[j])}}
<1>3. Messages = Decoded(data, f)
    BY <1>2 DEF Messages, for_each_framed_message
<1>4. Decoded(data, f) \in Seq(M(f)) /\ Len(Decoded(data, f)) <= f
    BY DecodedShort, SMTT(30)
<1>5. M(f) \subseteq M(Len(data))
    BY <1>1
<1> HIDE DEF M
<1>6. Messages \in Seq(M(Len(data)))
  <2>1. Seq(M(f)) \subseteq Seq(M(Len(data)))
      BY <1>5
  <2> QED BY <1>3, <1>4, <2>1
<1>7. Len(Messages) \in Nat /\ Len(Messages) <= f
    BY <1>3, <1>4, <1>6
<1> QED BY <1>1, <1>2, <1>6, <1>7 DEF M

\* TapePass, as a loop over the messages.
LEMMA TapePassWalk ==
    ASSUME TapePass, Len(Messages) \in Nat
    PROVE  tapes' = TapesOf(Messages)
<1> DEFINE Sol(f) == f = [i \in 0 .. Len(Messages) |->
                             IF i = 0 THEN [l \in {} |-> NewTape]
                             ELSE IF Messages[i].type \in {"P", "Q"}
                               THEN Put(f[i - 1], Messages[i].locate,
                                        on_trade(TapeAt(f[i - 1], Messages[i].locate),
                                                 Messages[i].price, Messages[i].shares,
                                                 Messages[i].ts))
                             ELSE f[i - 1]]
           g == CHOOSE f : Sol(f)
<1>1. \A f : Sol(f) <=> Runs("tapes", Messages, Len(Messages), f)
    BY DEF Runs, Start, Round
<1>2. Sol(g)
    BY <1>1, RunsExist
<1>3. tapes' = g[Len(Messages)]
    BY DEF TapePass
<1> HIDE DEF g, Sol
<1> QED BY <1>1, <1>2, <1>3, RunsAfter DEF TapesOf

LEMMA MessagesKept ==
    ASSUME UNCHANGED <<data, size>>
    PROVE  Messages' = Messages
    BY DEF Messages, for_each_framed_message

LEMMA WalkStep == FeedInv /\ WalkInv /\ [Next]_vars => WalkInv'
<1> SUFFICES ASSUME FeedInv, WalkInv, [Next]_vars PROVE WalkInv'
    OBVIOUS
<1>0. IsList(data) /\ Len(data) \in Nat /\ Len(Messages) \in Nat
    BY MessagesList DEF FeedInv, DataInv
<1>1. CASE Generate
    BY <1>1 DEF Generate, WalkInv, Passes
<1>2. CASE Load
  <2>1. phase' \in {"error", "pass1"} /\ (Generated' => size' = End(data', Len(data')))
      BY <1>2 DEF Load, genVars, Generated
  <2> QED BY <2>1 DEF WalkInv, Passes
<1>3. ASSUME UNCHANGED <<data, size, gen>>, phase # "source", NEW p \in Passes, phase' = p
      PROVE  /\ Messages' = Messages /\ phase' \in Passes
             /\ (phase # "source" /\ Generated => size = End(data, Len(data)))'
  <2>1. Messages' = Messages
      BY <1>3, MessagesKept
  <2>2. (Generated => size = End(data, Len(data)))'
      BY <1>3 DEF Generated, WalkInv
  <2> QED BY <1>3, <2>1, <2>2
<1>4. CASE Pass1
  <2>1. /\ UNCHANGED <<data, size, gen>> /\ phase # "source" /\ phase' = "tape"
        /\ n' = Len(Messages) /\ book' = Replayed(Messages)
      BY <1>4 DEF Pass1, genVars
  <2>2. /\ Messages' = Messages /\ phase' \in Passes
        /\ (phase # "source" /\ Generated => size = End(data, Len(data)))'
    <3>1. "tape" \in Passes
        BY DEF Passes
    <3> QED BY <1>3, <2>1, <3>1
  <2> QED BY <2>1, <2>2 DEF WalkInv
<1>5. CASE TapePass
  <2>1. /\ UNCHANGED <<data, size, gen, n, book>> /\ phase = "tape" /\ phase' = "pass2"
      BY <1>5 DEF TapePass, genVars
  <2>2. /\ Messages' = Messages /\ phase' \in Passes
        /\ (phase # "source" /\ Generated => size = End(data, Len(data)))'
    <3>1. "pass2" \in Passes
        BY DEF Passes
    <3> QED BY <1>3, <2>1, <3>1
  <2>3. tapes' = TapesOf(Messages)
      BY <1>0, <1>5, TapePassWalk
  <2> QED BY <2>1, <2>2, <2>3 DEF WalkInv
<1>6. CASE Pass2
  <2>1. /\ UNCHANGED <<data, size, gen, n, book, tapes>> /\ phase = "pass2" /\ phase' = "report"
        /\ b2' = Replayed(Decoded(data, samples'))
      BY <1>6 DEF Pass2, genVars
  <2>2. /\ Messages' = Messages /\ phase' \in Passes
        /\ (phase # "source" /\ Generated => size = End(data, Len(data)))'
    <3>1. "report" \in Passes
        BY DEF Passes
    <3> QED BY <1>3, <2>1, <3>1
  <2>3. samples' = Framed(data, size)
      BY <1>0, <1>6, Pass2Walk
  <2> QED BY <2>1, <2>2, <2>3 DEF WalkInv
<1>7. CASE Report
  <2>1. /\ UNCHANGED <<data, size, gen, n, book, tapes, b2, samples>>
        /\ phase = "report" /\ phase' = "done"
      BY <1>7 DEF Report, genVars
  <2>2. /\ Messages' = Messages /\ phase' \in Passes
        /\ (phase # "source" /\ Generated => size = End(data, Len(data)))'
    <3>1. "done" \in Passes
        BY DEF Passes
    <3> QED BY <1>3, <2>1, <3>1
  <2> QED BY <2>1, <2>2 DEF WalkInv
<1>8. CASE UNCHANGED vars
  <2>1. UNCHANGED <<data, size, gen, n, book, tapes, b2, samples, phase>>
      BY <1>8 DEF vars, genVars, replayVars
  <2>2. Messages' = Messages
      BY <2>1, MessagesKept
  <2> QED BY <2>1, <2>2 DEF WalkInv, Generated
<1> QED BY <1>1, <1>2, <1>4, <1>5, <1>6, <1>7, <1>8 DEF Next

LEMMA WalkInit == Init => WalkInv
    BY DEF Init, WalkInv, Passes

LEMMA WalkAlways == Spec => [](FeedInv /\ WalkInv)
<1>1. Init => FeedInv /\ WalkInv
    BY FeedInit, WalkInit
<1>2. FeedInv /\ WalkInv /\ [Next]_vars => (FeedInv /\ WalkInv)'
    BY FeedStep, WalkStep
<1> QED BY <1>1, <1>2, PTL DEF Spec

\* The second replay of obreplay has its own walk over the records: for every
\* capture, also one that was cut anywhere or holds records no decoder knows, it ends
\* with the books of the first one and one latency for every record.
THEOREM SecondReplayAgrees == Spec => []ReplaysAgree
<1>1. FeedInv /\ WalkInv => ReplaysAgree
  <2> SUFFICES ASSUME FeedInv, WalkInv, phase = "report"
               PROVE  b2 = book /\ samples = Framed(data, size) /\ samples >= n
      BY DEF ReplaysAgree, Replayed2
  <2>1. /\ n = Len(Messages) /\ book = Replayed(Messages)
        /\ samples = Framed(data, size) /\ b2 = Replayed(Decoded(data, samples))
      BY DEF WalkInv
  <2>2. Messages = Decoded(data, samples)
      BY <2>1 DEF Messages, for_each_framed_message
  <2>3. Len(Messages) \in Nat /\ Len(Messages) <= Framed(data, size)
        /\ Framed(data, size) \in Int
      BY MessagesList DEF FeedInv, DataInv
  <2> QED BY <2>1, <2>2, <2>3
<1> QED BY <1>1, WalkAlways, PTL

-----------------------------------------------------------------------------
(* decode(), and the walk over a generated stream. *)

\* The length decode() waits for covers every field it reads.
LEMMA DecodesInBounds ==
    ASSUME NEW r, r.len \in Nat, decodes(r)
    PROVE  InBounds(r)
<1>1. r.type \in {"S", "R", "A", "F", "E", "C", "X", "D", "U", "P", "Q"}
      /\ r.len >= MinLength[r.type]
    BY DEF decodes, MinLength
<1> DEFINE Fits(t) == \A f \in DOMAIN Reads[t] : \E a, w \in Nat :
                          Reads[t][f] = <<a, w>> /\ a + w <= MinLength[t]
<1>S. Fits("S")
    BY DEF Reads, MinLength
<1>R. Fits("R")
    BY DEF Reads, MinLength
<1>A. Fits("A")
    BY DEF Reads, MinLength
<1>F. Fits("F")
    BY DEF Reads, MinLength
<1>E. Fits("E")
    BY DEF Reads, MinLength
<1>C. Fits("C")
    BY DEF Reads, MinLength
<1>X. Fits("X")
    BY DEF Reads, MinLength
<1>D. Fits("D")
    BY DEF Reads, MinLength
<1>U. Fits("U")
    BY DEF Reads, MinLength
<1>P. Fits("P")
    BY DEF Reads, MinLength
<1>Q. Fits("Q")
    BY DEF Reads, MinLength
<1> HIDE DEF Fits
<1>2. Fits(r.type)
    BY <1>1, <1>S, <1>R, <1>A, <1>F, <1>E, <1>C, <1>X, <1>D, <1>U, <1>P, <1>Q
<1>3. MinLength[r.type] \in Nat
    BY <1>1 DEF MinLength
<1> SUFFICES ASSUME NEW f \in DOMAIN Reads[r.type]
             PROVE  Reads[r.type][f][1] + Reads[r.type][f][2] <= r.len
    BY DEF InBounds
<1>4. PICK a \in Nat, w \in Nat : Reads[r.type][f] = <<a, w>> /\ a + w <= MinLength[r.type]
    BY <1>2 DEF Fits
<1> QED BY <1>1, <1>3, <1>4

LEMMA EndsIncrease ==
    ASSUME NEW c, Len(c) \in Nat, \A i \in 1 .. Len(c) : c[i].len \in Nat
    PROVE  \A k \in 0 .. Len(c) : /\ End(c, k) \in Nat
                                  /\ \A j \in 0 .. k : End(c, j) \in Nat /\ End(c, j) <= End(c, k)
<1> DEFINE T == {k \in Nat : k <= Len(c) =>
                    /\ End(c, k) \in Nat
                    /\ \A j \in 0 .. k : End(c, j) \in Nat /\ End(c, j) <= End(c, k)}
<1>1. 0 \in T
  <2>1. End(c, 0) = 0
      BY EndStep
  <2>2. \A j \in 0 .. 0 : j = 0
      OBVIOUS
  <2> QED BY <2>1, <2>2
<1>2. ASSUME NEW k \in Nat, k \in T PROVE k + 1 \in T
  <2> SUFFICES ASSUME k + 1 <= Len(c)
               PROVE  /\ End(c, k + 1) \in Nat
                      /\ \A j \in 0 .. k + 1 : End(c, j) \in Nat /\ End(c, j) <= End(c, k + 1)
      OBVIOUS
  <2>1. k <= Len(c) /\ k + 1 \in 1 .. Len(c)
      OBVIOUS
  <2>2. End(c, k) \in Nat /\ \A j \in 0 .. k : End(c, j) \in Nat /\ End(c, j) <= End(c, k)
      BY <1>2, <2>1
  <2>3. PICK w \in Nat : w = c[k + 1].len
      BY <2>1
  <2>4. End(c, k + 1) = End(c, k) + Prefix + w
      BY <2>3, EndStep
  <2>5. End(c, k + 1) \in Nat /\ End(c, k) <= End(c, k + 1)
      BY <2>2, <2>4 DEF Prefix
  <2>6. ASSUME NEW j \in 0 .. k + 1 PROVE End(c, j) \in Nat /\ End(c, j) <= End(c, k + 1)
    <3>1. j \in 0 .. k \/ j = k + 1
        OBVIOUS
    <3> QED BY <2>2, <2>5, <3>1
  <2> QED BY <2>5, <2>6
<1>3. Nat \subseteq T
  <2> HIDE DEF T
  <2> QED BY <1>1, <1>2, Induction
<1>4. 0 .. Len(c) \subseteq Nat
    OBVIOUS
<1>5. ASSUME NEW k \in 0 .. Len(c)
      PROVE  /\ End(c, k) \in Nat
             /\ \A j \in 0 .. k : End(c, j) \in Nat /\ End(c, j) <= End(c, k)
  <2>1. k \in T
      BY <1>3, <1>4
  <2> QED BY <2>1
<1> QED BY <1>5

\* A capture that is complete and has no padding is walked to its end.
LEMMA WholeFramed ==
    ASSUME NEW c, Len(c) \in Nat, \A i \in 1 .. Len(c) : c[i].len \in Nat \ {0}
    PROVE  Framed(c, End(c, Len(c))) = Len(c)
<1>1. PICK z \in Nat : z = End(c, Len(c))
  <2>1. Len(c) \in 0 .. Len(c)
      OBVIOUS
  <2> QED BY <2>1, EndsIncrease
<1>2. ASSUME NEW k \in 0 .. Len(c), k # Len(c) PROVE ~Stops(c, z, k)
  <2>1. k + 1 \in 1 .. Len(c) /\ k + 1 \in 0 .. Len(c) /\ k \in Nat /\ Len(c) \in 0 .. Len(c)
      BY <1>2
  <2>2. PICK a \in Nat : a = End(c, k)
      BY EndsIncrease
  <2>3. PICK b \in Nat : b = End(c, k + 1)
      BY <2>1, EndsIncrease
  <2>4. b <= z
      BY <1>1, <2>1, <2>3, EndsIncrease
  <2>5. PICK w \in Nat \ {0} : w = c[k + 1].len
      BY <2>1
  <2>6. b = a + Prefix + w
      BY <2>1, <2>2, <2>3, <2>5, EndStep
  <2>7. ~ (a + Prefix > z) /\ ~ (b > z)
      BY <2>4, <2>6 DEF Prefix
  <2> QED BY <2>2, <2>3, <2>5, <2>7 DEF Stops
<1>3. Framed(c, z) \in 0 .. Len(c) /\ (Framed(c, z) = Len(c) \/ Stops(c, z, Framed(c, z)))
    BY FramedProperties
<1> QED BY <1>1, <1>2, <1>3

\* Records that all decode have one message each.
LEMMA DecodedAll ==
    ASSUME NEW c, NEW k \in Nat, \A i \in 1 .. k : decodes(c[i])
    PROVE  /\ Len(Decoded(c, k)) = k
           /\ \A i \in 1 .. k : Decoded(c, k)[i] = decode(c[i])
<1> DEFINE T == {j \in Nat : j <= k => /\ Len(Decoded(c, j)) = j
                                       /\ \A i \in 1 .. j : Decoded(c, j)[i] = decode(c[i])}
<1>1. 0 \in T
  <2>1. Decoded(c, 0) = <<>>
      BY DecodedStep
  <2> QED BY <2>1
<1>2. ASSUME NEW j \in Nat, j \in T PROVE j + 1 \in T
  <2> SUFFICES ASSUME j + 1 <= k
               PROVE  /\ Len(Decoded(c, j + 1)) = j + 1
                      /\ \A i \in 1 .. j + 1 : Decoded(c, j + 1)[i] = decode(c[i])
      OBVIOUS
  <2>1. Len(Decoded(c, j)) = j /\ \A i \in 1 .. j : Decoded(c, j)[i] = decode(c[i])
      BY <1>2
  <2>2. Decoded(c, j + 1) = Append(Decoded(c, j), decode(c[j + 1]))
    <3>1. decodes(c[j + 1])
        OBVIOUS
    <3> QED BY <3>1, DecodedStep
  <2> DEFINE L == {decode(c[i]) : i \in {h \in 1 .. j : decodes(c[h])}}
             M == L \cup {decode(c[j + 1])}
  <2>3. PICK d \in Seq(M) : d = Decoded(c, j)
    <3>1. Decoded(c, j) \in Seq(L)
        BY DecodedShort
    <3>2. Seq(L) \subseteq Seq(M)
        OBVIOUS
    <3> QED BY <3>1, <3>2
  <2>a. decode(c[j + 1]) \in M
      OBVIOUS
  <2> HIDE DEF L, M
  <2>4. Len(Append(d, decode(c[j + 1]))) = j + 1
      BY <2>1, <2>3, <2>a
  <2>5. ASSUME NEW i \in 1 .. j + 1 PROVE Append(d, decode(c[j + 1]))[i] = decode(c[i])
    <3>1. CASE i = j + 1
        BY <2>1, <2>3, <2>a, <3>1
    <3>2. CASE i # j + 1
      <4>1. i \in 1 .. j /\ i \in 1 .. Len(d)
          BY <2>1, <2>3, <3>2
      <4>2. Append(d, decode(c[j + 1]))[i] = d[i]
          BY <2>3, <2>a, <4>1
      <4> QED BY <2>1, <2>3, <4>1, <4>2
    <3> QED BY <3>1, <3>2
  <2> QED BY <2>2, <2>3, <2>4, <2>5
<1>3. Nat \subseteq T
  <2> HIDE DEF T
  <2> QED BY <1>1, <1>2, Induction
<1>4. k \in T
    BY <1>3
<1> QED BY <1>4

\* What the passes read of a generated stream: all of it.
LEMMA GeneratedMessages ==
    ASSUME FeedInv, WalkInv, Generated, phase # "source"
    PROVE  /\ Len(Messages) = Len(data)
           /\ \A i \in 1 .. Len(data) : decodes(data[i]) /\ Messages[i] = decode(data[i])
<1>1. Len(data) \in Nat
    BY MessagesList DEF FeedInv, DataInv
<1>2. \A i \in 1 .. Len(data) : Captured(data[i]) /\ decodes(data[i])
    BY DEF FeedInv, DataInv, Sound, Generated
<1>3. \A i \in 1 .. Len(data) : data[i].len \in Nat \ {0}
    BY <1>2 DEF Captured, decodes, Header
<1>4. Framed(data, End(data, Len(data))) = Len(data)
    BY <1>1, <1>3, WholeFramed
<1>5. Messages = Decoded(data, Len(data))
    BY <1>4 DEF Messages, for_each_framed_message, WalkInv
<1> QED BY <1>1, <1>2, <1>5, DecodedAll

\* decode() never looks behind the end of a record, for every record a capture may
\* hold; and what the generators write is decoded to its last message, every field at
\* the offset it was written to.
THEOREM DecodeNeverOverreads == Spec => []DecodeSound
<1>1. FeedInv /\ WalkInv => DecodeSound
  <2> SUFFICES ASSUME FeedInv, WalkInv PROVE DecodeSound
      OBVIOUS
  <2>1. Len(data) \in Nat /\ DOMAIN data = 1 .. Len(data)
    <3>1. data \in Seq({data[i] : i \in 1 .. Len(data)})
        BY DEF FeedInv, DataInv, IsList
    <3> QED BY <3>1
  <2>2. ASSUME NEW i \in DOMAIN data, decodes(data[i]) PROVE InBounds(data[i])
    <3>1. data[i].len \in Nat
        BY <2>1, <2>2 DEF FeedInv, DataInv, Sound, Captured
    <3> QED BY <2>2, <3>1, DecodesInBounds
  <2>3. ASSUME phase = "tape", Generated
        PROVE  n = Len(data) /\ \A i \in 1 .. n : FieldsFound(data[i])
    <3>1. /\ Len(Messages) = Len(data)
          /\ \A i \in 1 .. Len(data) : decodes(data[i])
        BY <2>3, GeneratedMessages
    <3>2. n = Len(data)
        BY <2>3, <3>1 DEF WalkInv
    <3>3. \A i \in 1 .. Len(data) : FieldsFound(data[i])
        BY <3>1 DEF FeedInv, DataInv, Sound, Captured
    <3> QED BY <3>2, <3>3
  <2> QED BY <2>2, <2>3 DEF DecodeSound, Replayed1
<1> QED BY <1>1, WalkAlways, PTL

-----------------------------------------------------------------------------
(* The tape. *)

LEMMA TimesMonotone ==
    ASSUME NEW a \in Nat, NEW b \in Nat, a <= b, NEW c \in Nat
    PROVE  a * c <= b * c
<1>1. PICK d \in Nat : b = a + d
  <2>1. b - a \in Nat /\ b = a + (b - a)
      OBVIOUS
  <2> QED BY <2>1
<1>2. b * c = a * c + d * c
    BY <1>1
<1>3. a * c \in Nat /\ d * c \in Nat
    OBVIOUS
<1> QED BY <1>2, <1>3

LEMMA TimesIncreasing ==
    ASSUME NEW a \in Nat, NEW b \in Nat, a < b, NEW c \in Nat \ {0}
    PROVE  a * c < b * c
<1>1. (a + 1) * c <= b * c
    BY TimesMonotone
<1>2. (a + 1) * c = a * c + c
    OBVIOUS
<1>3. a * c \in Nat /\ b * c \in Nat
    OBVIOUS
<1> QED BY <1>1, <1>2, <1>3

LEMMA QuotientMonotone ==
    ASSUME NEW a \in Nat, NEW b \in Nat, a <= b, NEW c \in Nat \ {0}
    PROVE  a \div c \in Nat /\ b \div c \in Nat /\ a \div c <= b \div c
<1>1. PICK p \in Nat, r \in Nat : p = a \div c /\ a = p * c + r /\ r < c
  <2>1. a \div c \in Nat /\ a % c \in Nat /\ a % c < c /\ a = c * (a \div c) + (a % c)
      OBVIOUS
  <2>2. c * (a \div c) = (a \div c) * c
      BY <2>1
  <2> QED BY <2>1, <2>2
<1>2. PICK q \in Nat, s \in Nat : q = b \div c /\ b = q * c + s /\ s < c
  <2>1. b \div c \in Nat /\ b % c \in Nat /\ b % c < c /\ b = c * (b \div c) + (b % c)
      OBVIOUS
  <2>2. c * (b \div c) = (b \div c) * c
      BY <2>1
  <2> QED BY <2>1, <2>2
<1>3. p <= q
  <2> SUFFICES ASSUME q + 1 <= p PROVE FALSE
      OBVIOUS
  <2>1. (q + 1) * c <= p * c
      BY TimesMonotone
  <2>2. (q + 1) * c = q * c + c
      OBVIOUS
  <2>3. p * c \in Nat /\ q * c \in Nat
      OBVIOUS
  <2> QED BY <1>1, <1>2, <2>1, <2>2, <2>3
<1> QED BY <1>1, <1>2, <1>3

LEMMA IntervalPositive == interval \in Nat \ {0}
    BY IntervalAssumption DEF interval

Bar == [start : Nat, open : Nat, high : Nat, low : Nat, close : Nat,
        volume : Nat, notional : Nat]

TapeType == [has_last : BOOLEAN, last : Nat, volume : Nat, notional : Nat,
             bars : Seq(Bar), open : BOOLEAN, cur : Bar, bucket : Nat]

\* A bar bounds the prices of its trades, and with them their value.
GoodBar(b) ==
    /\ b.low <= b.open /\ b.open <= b.high /\ b.low <= b.close /\ b.close <= b.high
    /\ b.low * b.volume <= b.notional /\ b.notional <= b.high * b.volume

\* A tape and a bar by their fields, and the updates on_trade is made of.
TapeOf(has_last, last, volume, notional, bs, open, cur, bucket) ==
    [has_last |-> has_last, last |-> last, volume |-> volume, notional |-> notional,
     bars |-> bs, open |-> open, cur |-> cur, bucket |-> bucket]

BarOf(start, open, high, low, close, volume, notional) ==
    [start |-> start, open |-> open, high |-> high, low |-> low, close |-> close,
     volume |-> volume, notional |-> notional]

SetTotal(t, a, b, c, d) ==
    [t EXCEPT !.has_last = a, !.last = b, !.volume = c, !.notional = d]

SetBar(t, h, l, c, v, w) ==
    [t EXCEPT !.cur.high = h, !.cur.low = l, !.cur.close = c, !.cur.volume = v,
              !.cur.notional = w]

SetIn(b, h, l, c, v, w) ==
    [b EXCEPT !.high = h, !.low = l, !.close = c, !.volume = v, !.notional = w]

\* The end of on_trade: the bar in progress takes the trade.
Grows(t, p, q, m) ==
    [t EXCEPT !.cur.high = IF p > @ THEN p ELSE @,
              !.cur.low = IF p < @ THEN p ELSE @,
              !.cur.close = p,
              !.cur.volume = @ + q,
              !.cur.notional = @ + m]

IsTrue(b) == b = TRUE
IsFalse(b) == b = FALSE

LEMMA SetTotalOf ==
    ASSUME NEW hl, NEW la, NEW vo, NEW no, NEW bs, NEW op, NEW cu, NEW bk,
           NEW a, NEW b, NEW c, NEW d
    PROVE  SetTotal(TapeOf(hl, la, vo, no, bs, op, cu, bk), a, b, c, d)
               = TapeOf(a, b, c, d, bs, op, cu, bk)
<1>1. PICK t : t = TapeOf(hl, la, vo, no, bs, op, cu, bk)
    OBVIOUS
<1>2. PICK u : u = [t EXCEPT !.has_last = a, !.last = b, !.volume = c, !.notional = d]
    OBVIOUS
<1>3. u = TapeOf(a, b, c, d, bs, op, cu, bk)
    BY <1>1, <1>2 DEF TapeOf
<1> QED BY <1>1, <1>2, <1>3 DEF SetTotal

LEMMA StartBarOf ==
    ASSUME NEW hl, NEW la, NEW vo, NEW no, NEW bs, NEW op, NEW cu, NEW bk, NEW p, NEW bucket,
           NEW yes, IsTrue(yes)
    PROVE  start_bar(TapeOf(hl, la, vo, no, bs, op, cu, bk), p, bucket)
               = TapeOf(hl, la, vo, no, bs, yes, BarOf(bucket * interval, p, p, p, p, 0, 0),
               bucket)
<1>0. PICK st : st = bucket * interval
    OBVIOUS
<1>1. PICK b : b = [NoBar EXCEPT !.start = st, !.open = p, !.high = p, !.low = p, !.close = p]
    OBVIOUS
<1>2. b = BarOf(st, p, p, p, p, 0, 0)
    BY <1>1 DEF BarOf, NoBar
<1>3. PICK t : t = TapeOf(hl, la, vo, no, bs, op, cu, bk)
    OBVIOUS
<1>4. PICK u : u = [t EXCEPT !.cur = b, !.bucket = bucket, !.open = yes]
    OBVIOUS
<1>5. u = TapeOf(hl, la, vo, no, bs, yes, b, bucket)
    BY <1>3, <1>4 DEF TapeOf
<1>6. start_bar(t, p, bucket) = u
    BY <1>0, <1>1, <1>4 DEF start_bar, IsTrue
<1> QED BY <1>0, <1>2, <1>3, <1>5, <1>6

LEMMA CloseBarOf ==
    ASSUME NEW hl, NEW la, NEW vo, NEW no, NEW bs, NEW op, NEW cu, NEW bk,
           NEW off, IsFalse(off)
    PROVE  close_bar(TapeOf(hl, la, vo, no, bs, op, cu, bk))
               = TapeOf(hl, la, vo, no, Append(bs, cu), off, cu, bk)
<1>1. PICK t : t = TapeOf(hl, la, vo, no, bs, op, cu, bk)
    OBVIOUS
<1>2. t.cur = cu /\ t.bars = bs
    BY <1>1 DEF TapeOf
<1>3. PICK a : a = Append(bs, cu)
    OBVIOUS
<1>4. PICK u : u = [t EXCEPT !.bars = a, !.open = off]
    OBVIOUS
<1>5. u = TapeOf(hl, la, vo, no, a, off, cu, bk)
    BY <1>1, <1>4 DEF TapeOf
<1>6. close_bar(t) = u
    BY <1>2, <1>3, <1>4 DEF close_bar, IsFalse
<1> QED BY <1>1, <1>3, <1>5, <1>6

LEMMA GrowsSets ==
    ASSUME NEW t, NEW p, NEW q, NEW m
    PROVE  Grows(t, p, q, m) =
               SetBar(t, IF p > t.cur.high THEN p ELSE t.cur.high,
                      IF p < t.cur.low THEN p ELSE t.cur.low, p,
                      t.cur.volume + q, t.cur.notional + m)
<1>1. PICK h : h = (IF p > t.cur.high THEN p ELSE t.cur.high)
    OBVIOUS
<1>2. PICK l : l = (IF p < t.cur.low THEN p ELSE t.cur.low)
    OBVIOUS
<1>3. PICK v : v = t.cur.volume + q
    OBVIOUS
<1>4. PICK w : w = t.cur.notional + m
    OBVIOUS
<1>5. PICK u : u = Grows(t, p, q, m)
    OBVIOUS
<1>6. u = [t EXCEPT !.cur.high = h, !.cur.low = l, !.cur.close = p, !.cur.volume = v,
                    !.cur.notional = w]
    BY <1>1, <1>2, <1>3, <1>4, <1>5 DEF Grows
<1> QED BY <1>1, <1>2, <1>3, <1>4, <1>5, <1>6 DEF SetBar

LEMMA SetBarOf ==
    ASSUME NEW hl, NEW la, NEW vo, NEW no, NEW bs, NEW op, NEW b, NEW bk,
           NEW h, NEW l, NEW c, NEW v, NEW w
    PROVE  SetBar(TapeOf(hl, la, vo, no, bs, op, b, bk), h, l, c, v, w)
               = TapeOf(hl, la, vo, no, bs, op, SetIn(b, h, l, c, v, w), bk)
<1>1. PICK t : t = TapeOf(hl, la, vo, no, bs, op, b, bk)
    OBVIOUS
<1>2. PICK g : g = [b EXCEPT !.high = h, !.low = l, !.close = c, !.volume = v, !.notional = w]
    OBVIOUS
<1>3. PICK u : u = [t EXCEPT !.cur.high = h, !.cur.low = l, !.cur.close = c, !.cur.volume = v,
                             !.cur.notional = w]
    OBVIOUS
<1>4. u = TapeOf(hl, la, vo, no, bs, op, g, bk)
    BY <1>1, <1>2, <1>3 DEF TapeOf
<1> QED BY <1>1, <1>2, <1>3, <1>4 DEF SetBar, SetIn

LEMMA SetInOf ==
    ASSUME NEW c1, NEW c2, NEW c3, NEW c4, NEW c5, NEW c6, NEW c7,
           NEW h, NEW l, NEW c, NEW v, NEW w
    PROVE  SetIn(BarOf(c1, c2, c3, c4, c5, c6, c7), h, l, c, v, w) = BarOf(c1, c2, h, l, c, v,
    w)
<1>1. PICK b : b = BarOf(c1, c2, c3, c4, c5, c6, c7)
    OBVIOUS
<1>2. PICK g : g = [b EXCEPT !.high = h, !.low = l, !.close = c, !.volume = v, !.notional = w]
    OBVIOUS
<1>3. g = BarOf(c1, c2, h, l, c, v, w)
    BY <1>1, <1>2 DEF BarOf
<1> QED BY <1>1, <1>2, <1>3 DEF SetIn

\* The three things on_trade does with the bar in progress.
Traded(t, p, q, bs, bar, bucket) ==
    TapeOf(TRUE, p, t.volume + q, t.notional + p * q, bs, TRUE, bar, bucket)

FreshBar(bucket, p, q) == BarOf(bucket * interval, p, p, p, p, q, p * q)

GrownBar(b, p, q) ==
    BarOf(b.start, b.open, IF p > b.high THEN p ELSE b.high, IF p < b.low THEN p ELSE b.low, p,
          b.volume + q, b.notional + p * q)

OnTradeResult(t, p, q, bucket) ==
    IF ~t.open THEN Traded(t, p, q, t.bars, FreshBar(bucket, p, q), bucket)
    ELSE IF bucket # t.bucket
      THEN Traded(t, p, q, Append(t.bars, t.cur), FreshBar(bucket, p, q), bucket)
    ELSE Traded(t, p, q, t.bars, GrownBar(t.cur, p, q), t.bucket)

LEMMA OnTradeCases ==
    ASSUME NEW t \in TapeType, NEW p \in Nat, NEW q \in Nat, NEW at, NEW bucket,
           bucket = at \div interval
    PROVE  on_trade(t, p, q, at) = OnTradeResult(t, p, q, bucket)
<1>1. PICK m \in Nat : m = p * q
    OBVIOUS
<1>2. PICK vo : vo = t.volume + q
    OBVIOUS
<1>3. PICK no : no = t.notional + m
    OBVIOUS
<1>a. PICK yes : yes = TRUE
    OBVIOUS
<1>b. PICK off : off = FALSE
    OBVIOUS
<1>e. IsTrue(yes)
    BY <1>a DEF IsTrue
<1>f. IsFalse(off)
    BY <1>b DEF IsFalse
<1>c. PICK op : op = t.open
    OBVIOUS
<1>d. PICK hl : hl = t.has_last
    OBVIOUS
<1>4. PICK total : total = SetTotal(t, yes, p, vo, no)
    OBVIOUS
<1>5. PICK inBar : inBar = IF ~t.open THEN start_bar(total, p, bucket)
                           ELSE IF ~InCurrent(t, bucket) THEN start_bar(close_bar(total), p,
                                bucket)
                           ELSE total
    OBVIOUS
<1>6. on_trade(t, p, q, at) = Grows(inBar, p, q, m)
    BY <1>1, <1>2, <1>3, <1>4, <1>5, <1>a DEF on_trade, Grows, SetTotal
<1>7. PICK bs : bs = t.bars
    OBVIOUS
<1>8. PICK cu : cu = t.cur
    OBVIOUS
<1>9. t = TapeOf(hl, t.last, t.volume, t.notional, bs, op, cu, t.bucket)
    BY <1>7, <1>8, <1>c, <1>d DEF TapeType, TapeOf
<1>10. total = TapeOf(yes, p, vo, no, bs, op, cu, t.bucket)
    BY <1>4, <1>9, SetTotalOf
<1>12. ASSUME NEW s, NEW o, NEW k, inBar = start_bar(s, p, bucket),
              NEW list, s = TapeOf(yes, p, vo, no, list, o, cu, k)
       PROVE  on_trade(t, p, q, at) = Traded(t, p, q, list, FreshBar(bucket, p, q), bucket)
  <2>1. PICK b : b = BarOf(bucket * interval, p, p, p, p, 0, 0)
      OBVIOUS
  <2>2. inBar = TapeOf(yes, p, vo, no, list, yes, b, bucket)
      BY <1>12, <1>e, <2>1, StartBarOf
  <2>3. inBar.cur = b /\ b.high = p /\ b.low = p /\ b.volume = 0 /\ b.notional = 0
      BY <2>1, <2>2 DEF TapeOf, BarOf
  <2>4. Grows(inBar, p, q, m) = SetBar(inBar, p, p, p, q, m)
      BY <2>3, GrowsSets
  <2>5. SetBar(inBar, p, p, p, q, m)
        = TapeOf(yes, p, vo, no, list, yes, SetIn(b, p, p, p, q, m), bucket)
      BY <2>2, SetBarOf
  <2>6. SetIn(b, p, p, p, q, m) = BarOf(bucket * interval, p, p, p, p, q, m)
      BY <2>1, SetInOf
  <2> QED BY <1>1, <1>2, <1>3, <1>6, <1>a, <2>4, <2>5, <2>6 DEF Traded, FreshBar
<1>13. CASE ~t.open
  <2>1. inBar = start_bar(total, p, bucket)
      BY <1>5, <1>13
  <2>2. on_trade(t, p, q, at) = Traded(t, p, q, bs, FreshBar(bucket, p, q), bucket)
      BY <1>10, <1>12, <2>1
  <2> QED BY <1>7, <1>13, <2>2 DEF OnTradeResult
<1>14. CASE t.open /\ bucket # t.bucket
  <2>1. inBar = start_bar(close_bar(total), p, bucket)
      BY <1>5, <1>14 DEF InCurrent
  <2>2. close_bar(total) = TapeOf(yes, p, vo, no, Append(bs, cu), off, cu, t.bucket)
      BY <1>10, <1>f, CloseBarOf
  <2>3. on_trade(t, p, q, at) = Traded(t, p, q, Append(bs, cu), FreshBar(bucket, p, q), bucket)
      BY <1>12, <2>1, <2>2
  <2> QED BY <1>7, <1>8, <1>14, <2>3 DEF OnTradeResult
<1>15. CASE t.open /\ bucket = t.bucket
  <2>1. inBar = total
      BY <1>5, <1>15 DEF InCurrent
  <2>2. inBar = TapeOf(yes, p, vo, no, bs, yes, cu, t.bucket)
    <3>1. op = yes
        BY <1>15, <1>a, <1>c DEF TapeType
    <3> QED BY <1>10, <2>1, <3>1
  <2>3. cu = BarOf(cu.start, cu.open, cu.high, cu.low, cu.close, cu.volume, cu.notional)
      BY <1>8 DEF TapeType, Bar, BarOf
  <2>4. PICK h : h = (IF p > cu.high THEN p ELSE cu.high)
      OBVIOUS
  <2>5. PICK l : l = (IF p < cu.low THEN p ELSE cu.low)
      OBVIOUS
  <2>6. PICK v : v = cu.volume + q
      OBVIOUS
  <2>7. PICK w : w = cu.notional + m
      OBVIOUS
  <2>8. inBar.cur = cu
      BY <2>2 DEF TapeOf
  <2>9. Grows(inBar, p, q, m) = SetBar(inBar, h, l, p, v, w)
      BY <2>4, <2>5, <2>6, <2>7, <2>8, GrowsSets
  <2>10. SetBar(inBar, h, l, p, v, w)
         = TapeOf(yes, p, vo, no, bs, yes, SetIn(cu, h, l, p, v, w), t.bucket)
      BY <2>2, SetBarOf
  <2>11. SetIn(cu, h, l, p, v, w) = BarOf(cu.start, cu.open, h, l, p, v, w)
      BY <2>3, SetInOf
  <2>12. BarOf(cu.start, cu.open, h, l, p, v, w) = GrownBar(cu, p, q)
      BY <1>1, <2>4, <2>5, <2>6, <2>7 DEF GrownBar
  <2>13. on_trade(t, p, q, at) = Traded(t, p, q, bs, GrownBar(cu, p, q), t.bucket)
      BY <1>1, <1>2, <1>3, <1>6, <2>9, <2>10, <2>11, <2>12, <1>a DEF Traded
  <2> QED BY <1>7, <1>8, <1>15, <2>13 DEF OnTradeResult
<1> QED BY <1>13, <1>14, <1>15

LEMMA FreshBarGood ==
    ASSUME NEW bucket \in Nat, NEW p \in Nat, NEW q \in Nat
    PROVE  FreshBar(bucket, p, q) \in Bar /\ GoodBar(FreshBar(bucket, p, q))
<1>1. bucket * interval \in Nat /\ p * q \in Nat
    BY IntervalPositive
<1> QED BY <1>1 DEF FreshBar, BarOf, Bar, GoodBar

LEMMA GrownBarGood ==
    ASSUME NEW b \in Bar, GoodBar(b), NEW p \in Nat, NEW q \in Nat
    PROVE  GrownBar(b, p, q) \in Bar /\ GoodBar(GrownBar(b, p, q))
<1> DEFINE g == GrownBar(b, p, q)
<1>1. PICK v \in Nat, h \in Nat, l \in Nat, m \in Nat :
          v = b.volume /\ h = b.high /\ l = b.low /\ m = b.notional
    BY DEF Bar
<1>2. PICK gh \in Nat, gl \in Nat : /\ gh = (IF p > h THEN p ELSE h)
                                    /\ gl = (IF p < l THEN p ELSE l)
    OBVIOUS
<1>3. gl <= l /\ h <= gh /\ gl <= p /\ p <= gh
    BY <1>2
<1>4. p * q \in Nat
    OBVIOUS
<1>5. g \in Bar
    BY <1>1, <1>2, <1>4 DEF GrownBar, BarOf, Bar
<1>6. gl * (v + q) <= m + p * q
  <2>1. gl * v <= l * v /\ gl * q <= p * q
      BY <1>3, TimesMonotone
  <2>2. l * v <= m
      BY <1>1 DEF GoodBar
  <2>3. gl * (v + q) = gl * v + gl * q
      OBVIOUS
  <2>4. gl * v \in Nat /\ gl * q \in Nat /\ l * v \in Nat
      OBVIOUS
  <2> QED BY <1>4, <2>1, <2>2, <2>3, <2>4
<1>7. m + p * q <= gh * (v + q)
  <2>1. h * v <= gh * v /\ p * q <= gh * q
      BY <1>3, TimesMonotone
  <2>2. m <= h * v
      BY <1>1 DEF GoodBar
  <2>3. gh * (v + q) = gh * v + gh * q
      OBVIOUS
  <2>4. gh * v \in Nat /\ gh * q \in Nat /\ h * v \in Nat
      OBVIOUS
  <2> QED BY <1>4, <2>1, <2>2, <2>3, <2>4
<1>8. /\ g.low = gl /\ g.high = gh /\ g.open = b.open /\ g.close = p
      /\ g.volume = v + q /\ g.notional = m + p * q
    BY <1>1, <1>2 DEF GrownBar, BarOf
<1>9. b.open \in Nat /\ l <= b.open /\ b.open <= h
    BY <1>1 DEF Bar, GoodBar
<1>10. gl <= b.open /\ b.open <= gh
    BY <1>3, <1>9
<1> HIDE DEF g
<1>11. GoodBar(g)
    BY <1>3, <1>6, <1>7, <1>8, <1>10 DEF GoodBar
<1> QED BY <1>5, <1>11 DEF g

Totals == {"volume", "notional"}

Amount(loop, b) == IF loop = "volume" THEN b.volume ELSE b.notional

LEMMA TotalStep ==
    ASSUME NEW loop \in Totals, NEW bs, NEW k \in Nat
    PROVE  /\ After(loop, bs, 0) = 0
           /\ After(loop, bs, k + 1) = After(loop, bs, k) + Amount(loop, bs[k + 1])
<1>1. After(loop, bs, 0) = Start(loop)
    BY AfterStep
<1>2. After(loop, bs, k + 1) = Round(loop, bs, After(loop, bs, k), k + 1)
    BY AfterStep
<1>3. Start(loop) = 0
    BY DEF Start, Totals
<1>4. \A x : Round(loop, bs, x, k + 1) = x + Amount(loop, bs[k + 1])
    BY DEF Round, Totals, Amount
<1> QED BY <1>1, <1>2, <1>3, <1>4

\* The bars before are added up as before.
LEMMA TotalPrefix ==
    ASSUME NEW loop \in Totals, NEW bs, NEW cs, NEW n_ \in Nat, \A i \in 1 .. n_ : bs[i] = cs[i]
    PROVE  After(loop, bs, n_) = After(loop, cs, n_)
<1> DEFINE T == {k \in Nat : k <= n_ => After(loop, bs, k) = After(loop, cs, k)}
<1>1. 0 \in T
    BY TotalStep
<1>2. ASSUME NEW k \in Nat, k \in T PROVE k + 1 \in T
  <2> SUFFICES ASSUME k + 1 <= n_ PROVE After(loop, bs, k + 1) = After(loop, cs, k + 1)
      OBVIOUS
  <2>1. After(loop, bs, k) = After(loop, cs, k) /\ bs[k + 1] = cs[k + 1]
      BY <1>2
  <2>2. After(loop, bs, k + 1) = After(loop, bs, k) + Amount(loop, bs[k + 1])
      BY TotalStep
  <2>3. After(loop, cs, k + 1) = After(loop, cs, k) + Amount(loop, cs[k + 1])
      BY TotalStep
  <2> QED BY <2>1, <2>2, <2>3
<1>3. Nat \subseteq T
  <2> HIDE DEF T
  <2> QED BY <1>1, <1>2, Induction
<1>4. n_ \in T
    BY <1>3
<1> QED BY <1>4

LEMMA TotalAppend ==
    ASSUME NEW loop \in Totals, NEW bs \in Seq(Bar), NEW b \in Bar
    PROVE  After(loop, Append(bs, b), Len(bs) + 1) = After(loop, bs, Len(bs)) + Amount(loop, b)
<1>1. PICK cs \in Seq(Bar) : cs = Append(bs, b)
  <2>1. Append(bs, b) \in Seq(Bar)
      OBVIOUS
  <2> QED BY <2>1
<1>2. Len(bs) \in Nat /\ cs[Len(bs) + 1] = b /\ \A i \in 1 .. Len(bs) : cs[i] = bs[i]
    BY <1>1
<1>3. After(loop, cs, Len(bs) + 1) = After(loop, cs, Len(bs)) + Amount(loop, cs[Len(bs) + 1])
    BY <1>2, TotalStep
<1>4. After(loop, cs, Len(bs)) = After(loop, bs, Len(bs))
    BY <1>2, TotalPrefix
<1> QED BY <1>1, <1>2, <1>3, <1>4

LEMMA TotalNat ==
    ASSUME NEW loop \in Totals, NEW bs \in Seq(Bar)
    PROVE  After(loop, bs, Len(bs)) \in Nat
<1> DEFINE T == {k \in Nat : k <= Len(bs) => After(loop, bs, k) \in Nat}
<1>1. 0 \in T
    BY TotalStep
<1>2. ASSUME NEW k \in Nat, k \in T PROVE k + 1 \in T
  <2> SUFFICES ASSUME k + 1 <= Len(bs) PROVE After(loop, bs, k + 1) \in Nat
      OBVIOUS
  <2>1. After(loop, bs, k) \in Nat
      BY <1>2
  <2>2. After(loop, bs, k + 1) = After(loop, bs, k) + Amount(loop, bs[k + 1])
      BY TotalStep
  <2>3. Amount(loop, bs[k + 1]) \in Nat
    <3>1. bs[k + 1] \in Bar
        OBVIOUS
    <3> QED BY <3>1 DEF Amount, Bar
  <2> QED BY <2>1, <2>2, <2>3
<1>3. Nat \subseteq T
  <2> HIDE DEF T
  <2> QED BY <1>1, <1>2, Induction
<1>4. Len(bs) \in T
    BY <1>3
<1> QED BY <1>4

\* A tape with a trade: its closed bars and the one in progress add up to the totals.
TapeSound(t) ==
    /\ t \in TapeType /\ t.open
    /\ GoodBar(t.cur) /\ t.cur.close = t.last /\ t.cur.start = t.bucket * interval
    /\ \A i \in 1 .. Len(t.bars) : GoodBar(t.bars[i])
    /\ t.volume = After("volume", t.bars, Len(t.bars)) + t.cur.volume
    /\ t.notional = After("notional", t.bars, Len(t.bars)) + t.cur.notional

\* The bars of trades in time order, none of them later than w.
TapeOrdered(t, w) ==
    /\ t.bucket <= w \div interval
    /\ \A i \in 1 .. Len(t.bars) : t.bars[i].start < t.cur.start
    /\ \A i, j \in 1 .. Len(t.bars) : i < j => t.bars[i].start < t.bars[j].start

\* A tape by what on_trade leaves in it.
OpenTape(p, vo, no, bs, b, bucket) == TapeOf(TRUE, p, vo, no, bs, TRUE, b, bucket)

HasFields(u, p, vo, no, bs, b, bucket) ==
    /\ u \in TapeType /\ u.open /\ u.last = p /\ u.volume = vo /\ u.notional = no
    /\ u.bars = bs /\ u.cur = b /\ u.bucket = bucket

LEMMA TapeOfFields ==
    ASSUME NEW p \in Nat, NEW vo \in Nat, NEW no \in Nat, NEW bs \in Seq(Bar), NEW b \in Bar,
           NEW bucket \in Nat, NEW u, u = OpenTape(p, vo, no, bs, b, bucket)
    PROVE  HasFields(u, p, vo, no, bs, b, bucket)
    BY DEF OpenTape, TapeOf, TapeType, HasFields

\* The bar that starts with a trade.
LEMMA FreshBarFields ==
    ASSUME NEW bucket \in Nat, NEW p \in Nat, NEW q \in Nat, NEW b, b = FreshBar(bucket, p, q),
           NEW m, m = p * q, NEW s, s = bucket * interval
    PROVE  b.close = p /\ b.start = s /\ b.volume = q /\ b.notional = m
    BY DEF FreshBar, BarOf

\* The first trade of a locate.
LEMMA FirstTrade ==
    ASSUME NEW p \in Nat, NEW q \in Nat, NEW at \in Nat
    PROVE  /\ TapeSound(on_trade(NewTape, p, q, at))
           /\ TapeOrdered(on_trade(NewTape, p, q, at), at)
<1>1. PICK bucket \in Nat : bucket = at \div interval
    BY IntervalPositive, QuotientMonotone
<1>2. PICK m \in Nat : m = p * q
    OBVIOUS
<1>3. PICK b \in Bar : b = FreshBar(bucket, p, q) /\ GoodBar(b)
    BY FreshBarGood
<1>4. b.close = p /\ b.start = bucket * interval /\ b.volume = q /\ b.notional = m
    BY <1>2, <1>3, FreshBarFields
<1>5. PICK u : u = on_trade(NewTape, p, q, at)
    OBVIOUS
<1>6. u = OnTradeResult(NewTape, p, q, bucket)
  <2>1. NewTape \in TapeType
      BY DEF NewTape, NoBar, TapeType, Bar
  <2> QED BY <1>1, <1>5, <2>1, OnTradeCases
<1>7. u = OpenTape(p, q, m, <<>>, b, bucket)
  <2>1. u = Traded(NewTape, p, q, <<>>, b, bucket)
      BY <1>3, <1>6 DEF OnTradeResult, NewTape
  <2>2. NewTape.volume = 0 /\ NewTape.notional = 0
      BY DEF NewTape
  <2>3. NewTape.volume + q = q /\ NewTape.notional + p * q = m
      BY <1>2, <2>2
  <2> QED BY <2>1, <2>3 DEF Traded, OpenTape
<1>8. /\ u \in TapeType /\ u.open /\ u.last = p /\ u.volume = q /\ u.notional = m
      /\ u.bars = <<>> /\ u.cur = b /\ u.bucket = bucket
  <2>1. <<>> \in Seq(Bar)
      OBVIOUS
  <2>2. HasFields(u, p, q, m, <<>>, b, bucket)
      BY <1>7, <2>1, TapeOfFields
  <2> QED BY <2>2 DEF HasFields
<1>9. After("volume", <<>>, 0) = 0 /\ After("notional", <<>>, 0) = 0
    BY TotalStep DEF Totals
<1>10. TapeSound(u)
    BY <1>3, <1>4, <1>8, <1>9 DEF TapeSound
<1>11. TapeOrdered(u, at)
    BY <1>1, <1>8 DEF TapeOrdered
<1> QED BY <1>5, <1>10, <1>11

\* One trade more of a locate.
LEMMA NextTrade ==
    ASSUME NEW t, TapeSound(t), NEW p \in Nat, NEW q \in Nat, NEW at \in Nat
    PROVE  /\ TapeSound(on_trade(t, p, q, at))
           /\ \A w \in Nat : w <= at /\ TapeOrdered(t, w) =>
                               TapeOrdered(on_trade(t, p, q, at), at)
<1>0. PICK bs \in Seq(Bar), c \in Bar, tv \in Nat, tn \in Nat, tb \in Nat :
          bs = t.bars /\ c = t.cur /\ tv = t.volume /\ tn = t.notional /\ tb = t.bucket
    BY DEF TapeSound, TapeType
<1>1. PICK bucket \in Nat : bucket = at \div interval
    BY IntervalPositive, QuotientMonotone
<1>2. PICK m \in Nat : m = p * q
    OBVIOUS
<1>3. PICK u : u = on_trade(t, p, q, at)
    OBVIOUS
<1>4. u = OnTradeResult(t, p, q, bucket)
    BY <1>1, <1>3, OnTradeCases DEF TapeSound
<1>5. PICK sv \in Nat, sn \in Nat : sv = After("volume", bs, Len(bs))
                                    /\ sn = After("notional", bs, Len(bs))
    BY TotalNat DEF Totals
<1>6. PICK cv \in Nat, cn \in Nat : cv = c.volume /\ cn = c.notional
    BY DEF Bar
<1>7. tv = sv + cv /\ tn = sn + cn
    BY <1>0, <1>5, <1>6 DEF TapeSound
<1>8. Len(bs) \in Nat
    OBVIOUS
<1>9. CASE bucket # t.bucket
  <2>1. PICK b \in Bar : b = FreshBar(bucket, p, q) /\ GoodBar(b)
      BY FreshBarGood
  <2>2. b.close = p /\ b.start = bucket * interval /\ b.volume = q /\ b.notional = m
      BY <1>2, <2>1, FreshBarFields
  <2>3. PICK cs \in Seq(Bar) : cs = Append(bs, c)
    <3>1. Append(bs, c) \in Seq(Bar)
        OBVIOUS
    <3> QED BY <3>1
  <2>4. Len(cs) = Len(bs) + 1 /\ cs[Len(bs) + 1] = c /\ \A i \in 1 .. Len(bs) : cs[i] = bs[i]
      BY <2>3
  <2>5. u = OpenTape(p, tv + q, tn + m, cs, b, bucket)
    <3>1. u = Traded(t, p, q, cs, b, bucket)
        BY <1>0, <1>4, <1>9, <2>1, <2>3 DEF OnTradeResult, TapeSound
    <3> QED BY <1>0, <1>2, <3>1 DEF Traded, OpenTape
  <2>6. /\ u \in TapeType /\ u.open /\ u.last = p /\ u.volume = tv + q /\ u.notional = tn + m
        /\ u.bars = cs /\ u.cur = b /\ u.bucket = bucket
    <3>1. tv + q \in Nat /\ tn + m \in Nat
        OBVIOUS
    <3>2. HasFields(u, p, tv + q, tn + m, cs, b, bucket)
        BY <2>5, <3>1, TapeOfFields
    <3> QED BY <3>2 DEF HasFields
  <2>7. After("volume", cs, Len(cs)) = sv + cv /\ After("notional", cs, Len(cs)) = sn + cn
    <3>1. "volume" \in Totals /\ "notional" \in Totals
        BY DEF Totals
    <3>2. After("volume", cs, Len(bs) + 1) = sv + Amount("volume", c)
        BY <1>5, <2>3, <3>1, TotalAppend
    <3>3. After("notional", cs, Len(bs) + 1) = sn + Amount("notional", c)
        BY <1>5, <2>3, <3>1, TotalAppend
    <3>4. Amount("volume", c) = cv /\ Amount("notional", c) = cn
        BY <1>6 DEF Amount
    <3> QED BY <2>4, <3>2, <3>3, <3>4
  <2>8. \A i \in 1 .. Len(cs) : i = Len(bs) + 1 \/ i \in 1 .. Len(bs)
      BY <1>8, <2>4
  <2>9. \A i \in 1 .. Len(cs) : GoodBar(cs[i])
      BY <1>0, <2>4, <2>8 DEF TapeSound
  <2>10. TapeSound(u)
      BY <1>7, <2>1, <2>2, <2>6, <2>7, <2>9 DEF TapeSound
  <2>11. ASSUME NEW w \in Nat, w <= at, TapeOrdered(t, w) PROVE TapeOrdered(u, at)
    <3>1. tb < bucket
      <4>1. w \div interval \in Nat /\ w \div interval <= bucket
          BY <1>1, <2>11, IntervalPositive, QuotientMonotone
      <4> QED BY <1>0, <1>9, <2>11, <4>1 DEF TapeOrdered
    <3>2. PICK s0 \in Nat, s1 \in Nat : s0 = tb * interval /\ s1 = bucket * interval
        BY IntervalPositive
    <3>3. s0 < s1
        BY <3>1, <3>2, TimesIncreasing, IntervalPositive
    <3>4. c.start = s0 /\ b.start = s1
        BY <1>0, <2>2, <3>2 DEF TapeSound
    <3>5. \A i \in 1 .. Len(bs) : bs[i].start \in Nat /\ bs[i].start < s0
      <4>1. \A i \in 1 .. Len(bs) : bs[i] \in Bar
          OBVIOUS
      <4> QED BY <1>0, <2>11, <3>4, <4>1 DEF TapeOrdered, Bar
    <3>6. \A i \in 1 .. Len(cs) : cs[i].start < s1
        BY <2>4, <2>8, <3>3, <3>4, <3>5
    <3>7. ASSUME NEW i \in 1 .. Len(cs), NEW j \in 1 .. Len(cs), i < j
          PROVE  cs[i].start < cs[j].start
      <4>1. i \in 1 .. Len(bs)
          BY <1>8, <2>4, <3>7
      <4>2. CASE j \in 1 .. Len(bs)
        <5>1. bs[i].start < bs[j].start
            BY <1>0, <2>11, <3>7, <4>1, <4>2 DEF TapeOrdered
        <5> QED BY <2>4, <4>1, <4>2, <5>1
      <4>3. CASE j = Len(bs) + 1
          BY <2>4, <3>4, <3>5, <4>1, <4>3
      <4> QED BY <2>8, <4>2, <4>3
    <3>8. u.bucket <= at \div interval
        BY <1>1, <2>6
    <3>9. \A i \in 1 .. Len(u.bars) : u.bars[i].start < u.cur.start
        BY <2>6, <3>4, <3>6
    <3>10. \A i, j \in 1 .. Len(u.bars) : i < j => u.bars[i].start < u.bars[j].start
        BY <2>6, <3>7
    <3> QED BY <3>8, <3>9, <3>10 DEF TapeOrdered
  <2> QED BY <1>3, <2>10, <2>11
<1>10. CASE bucket = t.bucket
  <2>0. GoodBar(c)
      BY <1>0 DEF TapeSound
  <2>1. PICK b \in Bar : b = GrownBar(c, p, q) /\ GoodBar(b)
      BY <2>0, GrownBarGood
  <2>2. b.close = p /\ b.start = c.start /\ b.volume = cv + q /\ b.notional = cn + m
      BY <1>2, <1>6, <2>1 DEF GrownBar, BarOf
  <2>3. u = OpenTape(p, tv + q, tn + m, bs, b, tb)
    <3>1. u = Traded(t, p, q, bs, b, tb)
        BY <1>0, <1>4, <1>10, <2>1 DEF OnTradeResult, TapeSound
    <3> QED BY <1>0, <1>2, <3>1 DEF Traded, OpenTape
  <2>4. /\ u \in TapeType /\ u.open /\ u.last = p /\ u.volume = tv + q /\ u.notional = tn + m
        /\ u.bars = bs /\ u.cur = b /\ u.bucket = tb
    <3>1. tv + q \in Nat /\ tn + m \in Nat
        OBVIOUS
    <3>2. HasFields(u, p, tv + q, tn + m, bs, b, tb)
        BY <2>3, <3>1, TapeOfFields
    <3> QED BY <3>2 DEF HasFields
  <2>5. c.start = tb * interval /\ \A i \in 1 .. Len(bs) : GoodBar(bs[i])
      BY <1>0 DEF TapeSound
  <2>6. tv + q = sv + (cv + q) /\ tn + m = sn + (cn + m)
      BY <1>7
  <2>7. TapeSound(u)
      BY <1>5, <2>1, <2>2, <2>4, <2>5, <2>6 DEF TapeSound
  <2>8. ASSUME NEW w \in Nat, w <= at, TapeOrdered(t, w) PROVE TapeOrdered(u, at)
      BY <1>0, <1>1, <1>10, <2>2, <2>4, <2>8, SMTT(30) DEF TapeOrdered
  <2> QED BY <1>3, <2>7, <2>8
<1> QED BY <1>9, <1>10

HasNumbers(m) == m.price \in Nat /\ m.shares \in Nat /\ m.ts \in Nat

InTime(ms) == \A i, j \in 1 .. Len(ms) : i < j => ms[i].ts <= ms[j].ts

\* Behind k messages.
TapesSound(f, ms, k) ==
    \A l \in DOMAIN f : /\ TapeSound(f[l])
                        /\ InTime(ms) => k \in 1 .. Len(ms) /\ TapeOrdered(f[l], ms[k].ts)

LEMMA TapesStep ==
    ASSUME NEW ms, NEW k \in Nat
    PROVE  /\ DOMAIN After("tapes", ms, 0) = {}
           /\ After("tapes", ms, k + 1) = Round("tapes", ms, After("tapes", ms, k), k + 1)
<1>1. After("tapes", ms, 0) = Start("tapes")
    BY AfterStep
<1>2. Start("tapes") = [l \in {} |-> NewTape]
    BY DEF Start
<1>3. After("tapes", ms, k + 1) = Round("tapes", ms, After("tapes", ms, k), k + 1)
    BY AfterStep
<1> QED BY <1>1, <1>2, <1>3

\* Time passes: a later message bounds the trades before it as well.
LEMMA OrderedLater ==
    ASSUME NEW t, TapeSound(t), NEW w \in Nat, NEW v \in Nat, w <= v, TapeOrdered(t, w)
    PROVE  TapeOrdered(t, v)
<1>1. w \div interval \in Nat /\ v \div interval \in Nat /\ w \div interval <= v \div interval
    BY IntervalPositive, QuotientMonotone
<1>2. t.bucket \in Nat /\ t.bucket <= w \div interval
    BY DEF TapeSound, TapeType, TapeOrdered
<1>3. t.bucket <= v \div interval
    BY <1>1, <1>2
<1> QED BY <1>3 DEF TapeOrdered

LEMMA TapesRound ==
    ASSUME NEW ms, Len(ms) \in Nat, \A i \in 1 .. Len(ms) : HasNumbers(ms[i]),
           NEW k \in Nat, k + 1 <= Len(ms), NEW f, TapesSound(f, ms, k)
    PROVE  TapesSound(Round("tapes", ms, f, k + 1), ms, k + 1)
<1>1. k + 1 \in 1 .. Len(ms)
    OBVIOUS
<1>2. PICK p \in Nat, q \in Nat, at \in Nat :
          p = ms[k + 1].price /\ q = ms[k + 1].shares /\ at = ms[k + 1].ts
    BY <1>1 DEF HasNumbers
<1>3. ASSUME InTime(ms), NEW l \in DOMAIN f
      PROVE  \E w \in Nat : w <= at /\ TapeOrdered(f[l], w)
  <2>1. k \in 1 .. Len(ms) /\ TapeOrdered(f[l], ms[k].ts)
      BY <1>3 DEF TapesSound
  <2>2. ms[k].ts \in Nat
      BY <2>1 DEF HasNumbers
  <2>3. ms[k].ts <= at
    <3>1. k < k + 1
        OBVIOUS
    <3> QED BY <1>1, <1>2, <1>3, <2>1, <3>1 DEF InTime
  <2> QED BY <2>1, <2>2, <2>3
<1>4. ASSUME NEW l \in DOMAIN f
      PROVE  TapeSound(f[l]) /\ (InTime(ms) => TapeOrdered(f[l], at))
  <2>1. TapeSound(f[l])
      BY <1>4 DEF TapesSound
  <2>2. ASSUME InTime(ms) PROVE TapeOrdered(f[l], at)
    <3>1. PICK w \in Nat : w <= at /\ TapeOrdered(f[l], w)
        BY <1>3, <1>4, <2>2
    <3> QED BY <2>1, <3>1, OrderedLater
  <2> QED BY <2>1, <2>2
<1>5. PICK a : a = ms[k + 1].locate
    OBVIOUS
<1>6. PICK t : t = TapeAt(f, a)
    OBVIOUS
<1>7. PICK u : u = on_trade(t, p, q, at)
    OBVIOUS
<1>8. TapeSound(u) /\ (InTime(ms) => TapeOrdered(u, at))
  <2>1. CASE a \in DOMAIN f
    <3>1. t = f[a]
        BY <1>6, <2>1 DEF TapeAt
    <3>2. TapeSound(t)
        BY <1>4, <2>1, <3>1
    <3>3. TapeSound(u)
        BY <1>7, <3>2, NextTrade
    <3>4. ASSUME InTime(ms) PROVE TapeOrdered(u, at)
      <4>1. PICK w \in Nat : w <= at /\ TapeOrdered(t, w)
          BY <1>3, <2>1, <3>1, <3>4
      <4> QED BY <1>7, <3>2, <4>1, NextTrade
    <3> QED BY <3>3, <3>4
  <2>2. CASE a \notin DOMAIN f
    <3>1. t = NewTape
        BY <1>6, <2>2 DEF TapeAt
    <3> QED BY <1>7, <3>1, FirstTrade
  <2> QED BY <2>1, <2>2
<1>9. PICK g : g = Round("tapes", ms, f, k + 1)
    OBVIOUS
<1>10. g = f \/ g = Put(f, a, u)
    BY <1>2, <1>5, <1>6, <1>7, <1>9 DEF Round
<1>11. ASSUME NEW l \in DOMAIN g PROVE TapeSound(g[l]) /\ (InTime(ms) => TapeOrdered(g[l], at))
  <2>1. CASE g = f
      BY <1>4, <1>11, <2>1
  <2>2. CASE g = Put(f, a, u)
    <3>1. l = a \/ l \in DOMAIN f
        BY <1>11, <2>2 DEF Put
    <3>2. CASE l = a
      <4>1. g[l] = u
          BY <2>2, <3>2 DEF Put
      <4> QED BY <1>8, <4>1
    <3>3. CASE l # a /\ l \in DOMAIN f
      <4>1. g[l] = f[l]
          BY <2>2, <3>3 DEF Put
      <4> QED BY <1>4, <3>3, <4>1
    <3> QED BY <3>1, <3>2, <3>3
  <2> QED BY <1>10, <2>1, <2>2
<1> QED BY <1>1, <1>2, <1>9, <1>11 DEF TapesSound

LEMMA AllTapesSound ==
    ASSUME NEW ms, Len(ms) \in Nat, \A i \in 1 .. Len(ms) : HasNumbers(ms[i])
    PROVE  TapesSound(TapesOf(ms), ms, Len(ms))
<1> DEFINE T == {k \in Nat : k <= Len(ms) => TapesSound(After("tapes", ms, k), ms, k)}
<1>1. 0 \in T
  <2>1. DOMAIN After("tapes", ms, 0) = {}
      BY TapesStep
  <2> QED BY <2>1 DEF TapesSound
<1>2. ASSUME NEW k \in Nat, k \in T PROVE k + 1 \in T
  <2> SUFFICES ASSUME k + 1 <= Len(ms) PROVE TapesSound(After("tapes", ms, k + 1), ms, k + 1)
      OBVIOUS
  <2>1. TapesSound(After("tapes", ms, k), ms, k)
      BY <1>2
  <2>2. TapesSound(Round("tapes", ms, After("tapes", ms, k), k + 1), ms, k + 1)
      BY <2>1, TapesRound
  <2>3. After("tapes", ms, k + 1) = Round("tapes", ms, After("tapes", ms, k), k + 1)
      BY TapesStep
  <2> QED BY <2>2, <2>3
<1>3. Nat \subseteq T
  <2> HIDE DEF T
  <2> QED BY <1>1, <1>2, Induction
<1>4. Len(ms) \in T
    BY <1>3
<1> QED BY <1>4 DEF TapesOf

\* Decoding keeps the order of the records.
LEMMA DecodedInTime ==
    ASSUME NEW c, NEW k \in Nat, \A i, j \in 1 .. k : i < j => c[i].ts <= c[j].ts,
           \A i \in 1 .. k : c[i].ts \in Nat
    PROVE  InTime(Decoded(c, k))
<1> DEFINE D(j) == Decoded(c, j)
           M(j) == {decode(c[i]) : i \in {h \in 1 .. j : decodes(c[h])}}
           T == {j \in Nat : j <= k => InTime(Decoded(c, j))}
<1>1. 0 \in T
  <2>1. Decoded(c, 0) = <<>>
      BY DecodedStep
  <2> QED BY <2>1 DEF InTime
<1>2. ASSUME NEW j \in Nat, j \in T PROVE j + 1 \in T
  <2> SUFFICES ASSUME j + 1 <= k PROVE InTime(Decoded(c, j + 1))
      OBVIOUS
  <2>1. InTime(Decoded(c, j))
      BY <1>2
  <2>2. CASE ~decodes(c[j + 1])
    <3>1. Decoded(c, j + 1) = Decoded(c, j)
        BY <2>2, DecodedStep
    <3> QED BY <2>1, <3>1
  <2>3. CASE decodes(c[j + 1])
    <3>1. PICK d : d = Decoded(c, j)
        OBVIOUS
    <3>2. PICK e : e = Decoded(c, j + 1)
        OBVIOUS
    <3>3. PICK m : m = decode(c[j + 1])
        OBVIOUS
    <3>4. e = Append(d, m)
        BY <2>3, <3>1, <3>2, <3>3, DecodedStep
    <3>5. d \in Seq(M(j))
        BY <3>1, DecodedShort
    <3>6. IsList(d) /\ Len(d) \in Nat /\ \A i \in 1 .. Len(d) : d[i] \in M(j)
      <4> HIDE DEF M
      <4> QED BY <3>5 DEF IsList
    <3>7. m.ts = c[j + 1].ts
        BY <3>3 DEF decode
    <3>8. ASSUME NEW i \in 1 .. Len(d) PROVE d[i].ts <= m.ts
      <4>1. PICK h \in 1 .. j : d[i] = decode(c[h])
          BY <3>6, <3>8
      <4>2. d[i].ts = c[h].ts
          BY <4>1 DEF decode
      <4>3. h \in 1 .. k /\ j + 1 \in 1 .. k /\ h < j + 1
          OBVIOUS
      <4> QED BY <3>7, <4>2, <4>3
    <3>9. /\ Len(e) = Len(d) + 1 /\ e[Len(d) + 1] = m
          /\ \A i \in 1 .. Len(d) : e[i] = d[i]
        BY <3>4, <3>6, AppendList
    <3>10. ASSUME NEW a \in 1 .. Len(e), NEW b \in 1 .. Len(e), a < b PROVE e[a].ts <= e[b].ts
      <4>1. a \in 1 .. Len(d) /\ e[a] = d[a]
          BY <3>6, <3>9, <3>10
      <4>2. CASE b = Len(d) + 1
          BY <3>8, <3>9, <4>1, <4>2
      <4>3. CASE b # Len(d) + 1
        <5>1. b \in 1 .. Len(d) /\ e[b] = d[b]
            BY <3>6, <3>9, <3>10, <4>3
        <5> QED BY <2>1, <3>1, <3>10, <4>1, <5>1 DEF InTime
      <4> QED BY <4>2, <4>3
    <3> QED BY <3>2, <3>10 DEF InTime
  <2> QED BY <2>2, <2>3
<1>3. Nat \subseteq T
  <2> HIDE DEF T
  <2> QED BY <1>1, <1>2, Induction
<1>4. k \in T
    BY <1>3
<1> QED BY <1>4

LEMMA MessagesNumbered ==
    ASSUME FeedInv
    PROVE  /\ Len(Messages) \in Nat /\ \A i \in 1 .. Len(Messages) : HasNumbers(Messages[i])
           /\ (\A i, j \in DOMAIN data : i < j => data[i].ts <= data[j].ts) => InTime(Messages)
<1>1. IsList(data) /\ \A i \in 1 .. Len(data) : Captured(data[i])
    BY DEF FeedInv, DataInv, Sound
<1> DEFINE M == {decode(data[i]) : i \in {j \in 1 .. Len(data) : decodes(data[j])}}
<1>2. Len(data) \in Nat /\ Framed(data, size) \in 0 .. Len(data) /\ Messages \in Seq(M)
      /\ Len(Messages) \in Nat
    BY <1>1, MessagesList
<1>3. \A m \in M : HasNumbers(m)
  <2> SUFFICES ASSUME NEW i \in 1 .. Len(data),
      decodes(data[i]) PROVE HasNumbers(decode(data[i]))
      OBVIOUS
  <2>1. decode(data[i]).price \in Nat /\ decode(data[i]).shares \in Nat /\ data[i].ts \in Nat
      BY <1>1 DEF Captured
  <2>2. decode(data[i]).ts = data[i].ts
      BY DEF decode
  <2> QED BY <2>1, <2>2 DEF HasNumbers
<1>4. \A i \in 1 .. Len(Messages) : Messages[i] \in M
  <2> HIDE DEF M
  <2> QED BY <1>2
<1>5. DOMAIN data = 1 .. Len(data)
    BY <1>1 DEF IsList
<1>6. ASSUME \A i, j \in DOMAIN data : i < j => data[i].ts <= data[j].ts
      PROVE  InTime(Messages)
  <2>1. PICK f \in 0 .. Len(data) : f = Framed(data, size)
      BY <1>2
  <2>2. f \in Nat /\ \A i \in 1 .. f : i \in 1 .. Len(data)
      BY <1>2
  <2>3. \A i, j \in 1 .. f : i < j => data[i].ts <= data[j].ts
      BY <1>5, <1>6, <2>2
  <2>4. \A i \in 1 .. f : data[i].ts \in Nat
      BY <1>1, <2>2 DEF Captured
  <2>5. InTime(Decoded(data, f))
      BY <2>2, <2>3, <2>4, DecodedInTime
  <2>6. Messages = Decoded(data, f)
      BY <2>1 DEF Messages, for_each_framed_message
  <2> QED BY <2>5, <2>6
<1> QED BY <1>2, <1>3, <1>4, <1>6

\* What BarsSound says of one tape, given the sums of its bars.
BarsOk(t, bs, vol, val) ==
    /\ vol[Len(bs)] = t.volume /\ val[Len(bs)] = t.notional
    /\ \A i \in DOMAIN bs : /\ bs[i].low <= bs[i].open /\ bs[i].open <= bs[i].high
                            /\ bs[i].low <= bs[i].close /\ bs[i].close <= bs[i].high
                            /\ bs[i].low * bs[i].volume <= bs[i].notional
                            /\ bs[i].notional <= bs[i].high * bs[i].volume
    /\ bs[Len(bs)].close = t.last

LEMMA BarsOfTape ==
    ASSUME NEW t, TapeSound(t), NEW bs, bs = bars(t), NEW vol, NEW val,
           Runs("volume", bs, Len(bs), vol), Runs("notional", bs, Len(bs), val)
    PROVE  /\ BarsOk(t, bs, vol, val)
           /\ \A w : TapeOrdered(t, w) =>
                      \A i, j \in DOMAIN bs : i < j => bs[i].start < bs[j].start
<1>0. PICK cs \in Seq(Bar), c \in Bar : cs = t.bars /\ c = t.cur
    BY DEF TapeSound, TapeType
<1>1. bs = Append(cs, c)
    BY <1>0 DEF bars, TapeSound
<1>2. /\ Len(bs) = Len(cs) + 1 /\ bs[Len(cs) + 1] = c /\ Len(cs) \in Nat
      /\ DOMAIN bs = 1 .. Len(cs) + 1
      /\ \A i \in 1 .. Len(cs) : bs[i] = cs[i]
    BY <1>1
<1>3. Len(bs) \in Nat /\ Len(bs) = Len(cs) + 1
    BY <1>2
<1>4. /\ vol[Len(bs)] = After("volume", bs, Len(bs))
      /\ val[Len(bs)] = After("notional", bs, Len(bs))
    BY <1>3, RunsAfter
<1>5. vol[Len(bs)] = t.volume
  <2>1. After("volume", bs, Len(cs) + 1) = After("volume", cs, Len(cs)) + Amount("volume", c)
      BY <1>1, TotalAppend DEF Totals
  <2>2. Amount("volume", c) = c.volume
      BY DEF Amount
  <2> QED BY <1>0, <1>3, <1>4, <2>1, <2>2 DEF TapeSound
<1>6. val[Len(bs)] = t.notional
  <2>1. After("notional", bs, Len(cs) + 1) = After("notional", cs,
        Len(cs)) + Amount("notional", c)
      BY <1>1, TotalAppend DEF Totals
  <2>2. Amount("notional", c) = c.notional
      BY DEF Amount
  <2> QED BY <1>0, <1>3, <1>4, <2>1, <2>2 DEF TapeSound
<1>7. \A i \in DOMAIN bs : i = Len(cs) + 1 \/ i \in 1 .. Len(cs)
    BY <1>2
<1>8. \A i \in DOMAIN bs : GoodBar(bs[i])
    BY <1>0, <1>2, <1>7 DEF TapeSound
<1>9. bs[Len(bs)].close = t.last
    BY <1>0, <1>2 DEF TapeSound
<1>10. BarsOk(t, bs, vol, val)
    BY <1>5, <1>6, <1>8, <1>9 DEF BarsOk, GoodBar
<1>11. ASSUME NEW w, TapeOrdered(t, w), NEW i \in DOMAIN bs, NEW j \in DOMAIN bs, i < j
       PROVE  bs[i].start < bs[j].start
  <2>1. i \in 1 .. Len(cs)
      BY <1>2, <1>11
  <2>2. CASE j = Len(cs) + 1
      BY <1>0, <1>2, <1>11, <2>1, <2>2 DEF TapeOrdered
  <2>3. CASE j \in 1 .. Len(cs)
      BY <1>0, <1>2, <1>11, <2>1, <2>3 DEF TapeOrdered
  <2> QED BY <1>7, <2>2, <2>3
<1> QED BY <1>10, <1>11

\* Every trade is in exactly one bar, for every capture and every interval: the bars
\* add up to the totals of the tape and bound the prices of their trades, and while
\* timestamps do not go back there is one bar per bucket, in order.
THEOREM BarsAddUp == Spec => []BarsSound
<1>1. FeedInv /\ WalkInv => BarsSound
  <2> SUFFICES ASSUME FeedInv, WalkInv, phase = "pass2", NEW l \in DOMAIN tapes
               PROVE  LET t == tapes[l]
            bs == bars(t)
            vol[i \in 0 .. Len(bs)] == IF i = 0 THEN 0 ELSE vol[i - 1] + bs[i].volume
            val[i \in 0 .. Len(bs)] == IF i = 0 THEN 0 ELSE val[i - 1] + bs[i].notional
        IN  /\ vol[Len(bs)] = t.volume /\ val[Len(bs)] = t.notional
            /\ \A i \in DOMAIN bs : /\ bs[i].low <= bs[i].open /\ bs[i].open <= bs[i].high
                                    /\ bs[i].low <= bs[i].close /\ bs[i].close <= bs[i].high
                                    /\ bs[i].low * bs[i].volume <= bs[i].notional
                                    /\ bs[i].notional <= bs[i].high * bs[i].volume
            /\ bs[Len(bs)].close = t.last
            /\ (\A i, j \in DOMAIN data : i < j => data[i].ts <= data[j].ts) =>
                   \A i, j \in DOMAIN bs : i < j => bs[i].start < bs[j].start
      BY DEF BarsSound
  <2> DEFINE t == tapes[l]
             bs == bars(t)
             Vol(f) == f = [i \in 0 .. Len(bs) |-> IF i = 0 THEN 0 ELSE f[i - 1] + bs[i].volume]
             Val(f) == f = [i \in 0 .. Len(bs) |-> IF i = 0 THEN 0 ELSE f[i - 1] + bs[i].notional]
             vol == CHOOSE f : Vol(f)
             val == CHOOSE f : Val(f)
             Sorted == \A i, j \in DOMAIN data : i < j => data[i].ts <= data[j].ts
             Starts == \A i, j \in DOMAIN bs : i < j => bs[i].start < bs[j].start
  <2>1. TapesSound(tapes, Messages, Len(Messages)) /\ (Sorted => InTime(Messages))
      BY MessagesNumbered, AllTapesSound DEF WalkInv
  <2>2. TapeSound(t) /\ (Sorted => \E w : TapeOrdered(t, w))
      BY <2>1 DEF TapesSound
  <2>3. Len(bs) \in Nat
    <3>1. t.bars \in Seq(Bar) /\ t.cur \in Bar
        BY <2>2 DEF TapeSound, TapeType
    <3>2. bs \in Seq(Bar)
        BY <3>1 DEF bars
    <3> QED BY <3>2
  <2>4. (\A f : Vol(f) <=> Runs("volume", bs, Len(bs), f))
        /\ (\A f : Val(f) <=> Runs("notional", bs, Len(bs), f))
    <3> HIDE DEF bs
    <3> QED BY DEF Runs, Start, Round
  <2>5. (\E f : Vol(f)) /\ (\E f : Val(f))
    <3> HIDE DEF bs, Vol, Val
    <3> QED BY <2>3, <2>4, RunsExist
  <2>6. Vol(vol) /\ Val(val)
    <3> HIDE DEF bs, Vol, Val
    <3> QED BY <2>5
  <2>7. Runs("volume", bs, Len(bs), vol) /\ Runs("notional", bs, Len(bs), val)
    <3> HIDE DEF bs, Vol, Val, vol, val
    <3> QED BY <2>4, <2>6
  <2>8. BarsOk(t, bs, vol, val) /\ (Sorted => Starts)
    <3>1. PICK cs : cs = bs
        OBVIOUS
    <3>2. PICK v : v = vol
        OBVIOUS
    <3>3. PICK w : w = val
        OBVIOUS
    <3>4. cs = bars(t) /\ Runs("volume", cs, Len(cs), v) /\ Runs("notional", cs, Len(cs), w)
        BY <2>7, <3>1, <3>2, <3>3
    <3> HIDE DEF bs, Vol, Val, vol, val, t
    <3>5. /\ BarsOk(t, cs, v, w)
          /\ \A z : TapeOrdered(t, z) =>
                 \A i, j \in DOMAIN cs : i < j => cs[i].start < cs[j].start
        BY <2>2, <3>4, BarsOfTape
    <3> QED BY <2>2, <3>1, <3>2, <3>3, <3>5
  <2> QED BY <2>8 DEF BarsOk
<1> QED BY <1>1, WalkAlways, PTL

-----------------------------------------------------------------------------
(* The report. *)

\* A finite set of numbered things has one with the greatest number.
LEMMA GreatestOf ==
    ASSUME NEW top \in Nat, NEW D, D \subseteq 0 .. top, D # {}, NEW f \in [D -> Nat]
    PROVE  \E l \in D : \A k \in D : f[k] <= f[l]
<1> DEFINE Part(j) == {k \in D : k <= j}
           T == {j \in Nat : Part(j) # {} => \E l \in Part(j) : \A k \in Part(j) : f[k] <= f[l]}
<1>0. \A k \in D : k \in Nat /\ k <= top
    OBVIOUS
<1>1. 0 \in T
  <2> SUFFICES ASSUME NEW l \in Part(0) PROVE \A k \in Part(0) : f[k] <= f[l]
      OBVIOUS
  <2>1. \A k \in Part(0) : k = 0
      BY <1>0
  <2> QED BY <2>1
<1>2. ASSUME NEW j \in Nat, j \in T PROVE j + 1 \in T
  <2> SUFFICES ASSUME Part(j + 1) # {}
               PROVE  \E l \in Part(j + 1) : \A k \in Part(j + 1) : f[k] <= f[l]
      OBVIOUS
  <2>1. \A k \in Part(j + 1) : k \in Part(j) \/ k = j + 1
      BY <1>0
  <2>2. Part(j) \subseteq Part(j + 1) /\ \A k \in Part(j + 1) : k \in D /\ f[k] \in Nat
    <3>1. \A k \in D : f[k] \in Nat
        OBVIOUS
    <3>2. \A k \in Part(j + 1) : k \in D
        OBVIOUS
    <3>3. Part(j) \subseteq Part(j + 1)
      <4> SUFFICES ASSUME NEW k \in D, k <= j PROVE k <= j + 1
          OBVIOUS
      <4> QED BY <1>0
    <3> HIDE DEF Part
    <3> QED BY <3>1, <3>2, <3>3
  <2>3. CASE j + 1 \notin Part(j + 1)
    <3>1. Part(j + 1) = Part(j)
        BY <2>1, <2>2, <2>3
    <3> QED BY <1>2, <3>1
  <2>4. CASE j + 1 \in Part(j + 1) /\ Part(j) = {}
    <3>1. \A k \in Part(j + 1) : k = j + 1
        BY <2>1, <2>4
    <3>2. \A k \in Part(j + 1) : f[k] <= f[j + 1]
        BY <2>2, <3>1
    <3> HIDE DEF Part
    <3> QED BY <2>4, <3>2
  <2>5. CASE j + 1 \in Part(j + 1) /\ Part(j) # {}
    <3>1. PICK l \in Part(j) : \A k \in Part(j) : f[k] <= f[l]
        BY <1>2, <2>5
    <3>2. f[l] \in Nat /\ f[j + 1] \in Nat /\ l \in Part(j + 1)
        BY <2>2, <2>5
    <3>3. CASE f[j + 1] <= f[l]
      <4>1. \A k \in Part(j + 1) : f[k] <= f[l]
        <5> HIDE DEF Part
        <5> QED BY <2>1, <3>1, <3>3
      <4> QED BY <3>2, <4>1
    <3>4. CASE f[l] <= f[j + 1]
      <4>1. \A k \in Part(j + 1) : f[k] <= f[j + 1]
        <5> HIDE DEF Part
        <5> SUFFICES ASSUME NEW k \in Part(j + 1) PROVE f[k] <= f[j + 1]
            OBVIOUS
        <5>1. CASE k \in Part(j)
          <6>1. f[k] <= f[l] /\ f[k] \in Nat
              BY <2>2, <3>1, <5>1
          <6> QED BY <3>2, <3>4, <6>1
        <5>2. CASE k = j + 1
            BY <3>2, <5>2
        <5> QED BY <2>1, <5>1, <5>2
      <4> QED BY <2>5, <4>1
    <3> QED BY <3>2, <3>3, <3>4
  <2> QED BY <2>3, <2>4, <2>5
<1>3. Nat \subseteq T
  <2> HIDE DEF T
  <2> QED BY <1>1, <1>2, Induction
<1>4. Part(top) = D
    BY <1>0
<1>5. top \in T
    BY <1>3
<1> QED BY <1>4, <1>5

\* The books are of the locates L, and what is in a book are message numbers.
BooksIn(s, L) ==
    /\ "books" \in DOMAIN s
    /\ DOMAIN s.books \subseteq L
    /\ \A l \in DOMAIN s.books : s.books[l] \in Seq(Nat)

LEMMA ApplyBooksIn ==
    ASSUME NEW L, NEW s, BooksIn(s, L), NEW m, m.locate \in L, m.id \in Nat
    PROVE  BooksIn(BookSetApply(s, m), L)
<1>1. PICK a \in Seq(Nat) : a = BookAt(s, m.locate)
  <2>1. BookAt(s, m.locate) \in Seq(Nat)
      BY DEF BookAt, BooksIn
  <2> QED BY <2>1
<1>2. ASSUME NEW v \in Seq(Nat), NEW u, "books" \in DOMAIN u, u.books = Put(s.books, m.locate,
             v)
      PROVE  BooksIn(u, L)
    BY <1>2 DEF BooksIn, Put
<1>3. CASE m.kind = "directory"
  <2>1. PICK u : u = BookSetApply(s, m)
      OBVIOUS
  <2>2. "books" \in DOMAIN u /\ u.books = Put(s.books, m.locate, a)
      BY <1>1, <1>3, <2>1 DEF BookSetApply
  <2> QED BY <1>2, <2>1, <2>2
<1>4. CASE m.kind = "order"
  <2>1. PICK u : u = BookSetApply(s, m)
      OBVIOUS
  <2>2. PICK v \in Seq(Nat) : v = Append(a, m.id)
    <3>1. Append(a, m.id) \in Seq(Nat)
        OBVIOUS
    <3> QED BY <3>1
  <2>3. PICK g : g = Put(s.books, m.locate, v)
      OBVIOUS
  <2>4. u = [s EXCEPT !.books = g]
      BY <1>1, <1>4, <2>1, <2>2, <2>3 DEF BookSetApply
  <2>5. "books" \in DOMAIN u /\ u.books = g
      BY <2>4 DEF BooksIn
  <2> QED BY <1>2, <2>1, <2>3, <2>5
<1>5. CASE m.kind \notin {"directory", "order"}
    BY <1>5 DEF BookSetApply
<1> QED BY <1>3, <1>4, <1>5

LEMMA ReplayedBooksIn ==
    ASSUME NEW L, NEW ms, Len(ms) \in Nat, \A i \in 1 .. Len(ms) : ms[i].locate \in L
    PROVE  BooksIn(Replayed(ms), L)
<1> DEFINE T == {k \in Nat : k <= Len(ms) => BooksIn(After("replayed", ms, k), L)}
<1>1. 0 \in T
  <2>1. After("replayed", ms, 0) = NewBookSet
    <3>1. After("replayed", ms, 0) = Start("replayed")
        BY AfterStep
    <3> QED BY <3>1 DEF Start
  <2>2. BooksIn(NewBookSet, L)
      BY DEF NewBookSet, BooksIn
  <2> QED BY <2>1, <2>2
<1>2. ASSUME NEW k \in Nat, k \in T PROVE k + 1 \in T
  <2> SUFFICES ASSUME k + 1 <= Len(ms) PROVE BooksIn(After("replayed", ms, k + 1), L)
      OBVIOUS
  <2>1. PICK s : s = After("replayed", ms, k)
      OBVIOUS
  <2>2. BooksIn(s, L)
      BY <1>2, <2>1
  <2>3. PICK m : m = Routed(ms[k + 1], k + 1)
      OBVIOUS
  <2>4. m.locate \in L /\ m.id \in Nat
    <3>1. k + 1 \in 1 .. Len(ms)
        OBVIOUS
    <3>2. m.locate = ms[k + 1].locate /\ m.id = k + 1
        BY <2>3 DEF Routed
    <3> QED BY <3>1, <3>2
  <2>5. After("replayed", ms, k + 1) = BookSetApply(s, m)
    <3>1. After("replayed", ms, k + 1) = Round("replayed", ms, s, k + 1)
        BY <2>1, AfterStep
    <3> QED BY <2>3, <3>1 DEF Round
  <2> QED BY <2>2, <2>4, <2>5, ApplyBooksIn
<1>3. Nat \subseteq T
  <2> HIDE DEF T
  <2> QED BY <1>1, <1>2, Induction
<1>4. Len(ms) \in T
    BY <1>3
<1> QED BY <1>4, ReplayedIsLoop

\* A book has an index of finitely many orders.
HasIndex(b) == "index" \in DOMAIN b /\ IsFiniteSet(DOMAIN b.index)

SameIndex(b, c) == "index" \in DOMAIN c /\ c.index = b.index

LEMMA SameIndexKeeps ==
    ASSUME NEW b, NEW c, HasIndex(b), SameIndex(b, c)
    PROVE  HasIndex(c)
    BY DEF HasIndex, SameIndex

LEMMA IncLevelIndex ==
    ASSUME NEW b, HasIndex(b), NEW side, NEW price, NEW q
    PROVE  SameIndex(b, Ops(0)!inc_level(b, side, price, q))
<1>1. PICK v : v = Ops(0)!Inc(b.bids, price, q)
    OBVIOUS
<1>2. PICK w : w = Ops(0)!Inc(b.asks, price, q)
    OBVIOUS
<1>3. PICK u : u = [b EXCEPT !.bids = v]
    OBVIOUS
<1>4. PICK t : t = [b EXCEPT !.asks = w]
    OBVIOUS
<1>5. SameIndex(b, u) /\ SameIndex(b, t)
    BY <1>3, <1>4 DEF SameIndex, HasIndex
<1>6. Ops(0)!inc_level(b, side, price, q) = IF side = "B" THEN u ELSE t
    BY <1>1, <1>2, <1>3, <1>4 DEF Ops!inc_level
<1> QED BY <1>5, <1>6

LEMMA DecLevelIndex ==
    ASSUME NEW b, HasIndex(b), NEW side, NEW price, NEW q
    PROVE  SameIndex(b, Ops(0)!dec_level(b, side, price, q))
<1>1. PICK v : v = Ops(0)!Dec(b.bids, price, q)
    OBVIOUS
<1>2. PICK w : w = Ops(0)!Dec(b.asks, price, q)
    OBVIOUS
<1>3. PICK u : u = [b EXCEPT !.bids = v]
    OBVIOUS
<1>4. PICK t : t = [b EXCEPT !.asks = w]
    OBVIOUS
<1>5. SameIndex(b, u) /\ SameIndex(b, t)
    BY <1>3, <1>4 DEF SameIndex, HasIndex
<1>6. Ops(0)!dec_level(b, side, price, q) = IF side = "B" THEN u ELSE t
    BY <1>1, <1>2, <1>3, <1>4 DEF Ops!dec_level
<1> QED BY <1>5, <1>6

LEMMA AllocIndex ==
    ASSUME NEW b, HasIndex(b), NEW o
    PROVE  SameIndex(b, Ops(0)!Alloc(b, o))
<1>1. PICK h : h = Ops(0)!AllocHandle(b)
    OBVIOUS
<1>2. PICK s1 : s1 = [b.slots EXCEPT ![h] = o]
    OBVIOUS
<1>3. PICK f1 : f1 = SubSeq(b.free, 1, Len(b.free) - 1)
    OBVIOUS
<1>4. PICK s2 : s2 = Append(b.slots, o)
    OBVIOUS
<1>5. PICK u : u = [b EXCEPT !.slots = s1, !.free = f1]
    OBVIOUS
<1>6. PICK t : t = [b EXCEPT !.slots = s2]
    OBVIOUS
<1>7. SameIndex(b, u) /\ SameIndex(b, t)
    BY <1>5, <1>6 DEF SameIndex, HasIndex
<1>8. Ops(0)!Alloc(b, o) = IF b.free # <<>> THEN u ELSE t
    BY <1>1, <1>2, <1>3, <1>4, <1>5, <1>6 DEF Ops!Alloc
<1> QED BY <1>7, <1>8

LEMMA SetIndexFinite ==
    ASSUME NEW b, HasIndex(b), NEW ref, NEW h
    PROVE  HasIndex(Ops(0)!SetIndex(b, ref, h))
<1>1. PICK i : i = [r \in DOMAIN b.index \cup {ref} |-> IF r = ref THEN h ELSE b.index[r]]
    OBVIOUS
<1>2. PICK u : u = [b EXCEPT !.index = i]
    OBVIOUS
<1>3. u = Ops(0)!SetIndex(b, ref, h)
    BY <1>1, <1>2 DEF Ops!SetIndex
<1>4. DOMAIN i = DOMAIN b.index \cup {ref}
    BY <1>1
<1>5. IsFiniteSet(DOMAIN i)
    BY <1>4, FS_AddElement DEF HasIndex
<1>6. "index" \in DOMAIN u /\ u.index = i
    BY <1>2 DEF HasIndex
<1> QED BY <1>3, <1>5, <1>6 DEF HasIndex

LEMMA EraseFinite ==
    ASSUME NEW b, HasIndex(b), NEW ref
    PROVE  HasIndex(Ops(0)!Erase(b, ref))
<1>1. PICK f : f = Append(b.free, b.index[ref])
    OBVIOUS
<1>2. PICK freed : freed = [b EXCEPT !.free = f]
    OBVIOUS
<1>3. "index" \in DOMAIN freed /\ freed.index = b.index
    BY <1>2 DEF HasIndex
<1>4. PICK i : i = [r \in DOMAIN b.index \ {ref} |-> b.index[r]]
    OBVIOUS
<1>5. PICK u : u = [freed EXCEPT !.index = i]
    OBVIOUS
<1>6. u = Ops(0)!Erase(b, ref)
  <2>1. freed = Ops(0)!Free(b, b.index[ref])
      BY <1>1, <1>2 DEF Ops!Free
  <2>2. i = [r \in DOMAIN freed.index \ {ref} |-> freed.index[r]]
      BY <1>3, <1>4
  <2> QED BY <1>5, <2>1, <2>2 DEF Ops!Erase
<1>7. DOMAIN i = DOMAIN b.index \ {ref}
    BY <1>4
<1>8. IsFiniteSet(DOMAIN i)
    BY <1>7, FS_RemoveElement DEF HasIndex
<1>9. "index" \in DOMAIN u /\ u.index = i
    BY <1>3, <1>5
<1> QED BY <1>6, <1>8, <1>9 DEF HasIndex

LEMMA AddFinite ==
    ASSUME NEW b, HasIndex(b), NEW ref, NEW side, NEW price, NEW shares
    PROVE  HasIndex(Ops(0)!add(b, ref, side, price, shares))
<1>1. PICK o : o = [side |-> side, price |-> price, shares |-> shares]
    OBVIOUS
<1>2. PICK c : c = Ops(0)!Alloc(b, o)
    OBVIOUS
<1>3. HasIndex(c)
    BY <1>2, AllocIndex, SameIndexKeeps
<1>4. PICK h : h = Ops(0)!AllocHandle(b)
    OBVIOUS
<1>5. PICK d : d = Ops(0)!SetIndex(c, ref, h)
    OBVIOUS
<1>6. HasIndex(d)
    BY <1>3, <1>5, SetIndexFinite
<1>7. PICK e : e = Ops(0)!inc_level(d, side, price, shares)
    OBVIOUS
<1>8. HasIndex(e)
    BY <1>6, <1>7, IncLevelIndex, SameIndexKeeps
<1>9. Ops(0)!add(b, ref, side, price, shares) = IF shares = 0 THEN b ELSE e
    BY <1>1, <1>2, <1>4, <1>5, <1>7 DEF Ops!add
<1> QED BY <1>8, <1>9

LEMMA RemoveFinite ==
    ASSUME NEW b, HasIndex(b), NEW ref
    PROVE  HasIndex(Ops(0)!remove(b, ref))
<1>1. PICK o : o = Ops(0)!OrderOf(b, ref)
    OBVIOUS
<1>2. PICK c : c = Ops(0)!dec_level(b, o.side, o.price, o.shares)
    OBVIOUS
<1>3. HasIndex(c)
    BY <1>2, DecLevelIndex, SameIndexKeeps
<1>4. PICK e : e = Ops(0)!Erase(c, ref)
    OBVIOUS
<1>5. HasIndex(e)
    BY <1>3, <1>4, EraseFinite
<1>6. Ops(0)!remove(b, ref) = IF ~Ops(0)!Knows(b, ref) THEN b ELSE e
    BY <1>1, <1>2, <1>4 DEF Ops!remove
<1> QED BY <1>5, <1>6

LEMMA ReduceFinite ==
    ASSUME NEW b, HasIndex(b), NEW ref, NEW qty
    PROVE  HasIndex(Ops(0)!reduce(b, ref, qty))
<1>1. PICK o : o = Ops(0)!OrderOf(b, ref)
    OBVIOUS
<1>2. PICK d : d = (IF qty < o.shares THEN qty ELSE o.shares)
    OBVIOUS
<1>3. PICK a : a = [b EXCEPT !.slots[b.index[ref]].shares = @ - d]
    OBVIOUS
<1>4. HasIndex(a)
    BY <1>3 DEF HasIndex
<1>5. PICK left : left = Ops(0)!dec_level(a, o.side, o.price, d)
    OBVIOUS
<1>6. HasIndex(left)
    BY <1>4, <1>5, DecLevelIndex, SameIndexKeeps
<1>7. PICK e : e = Ops(0)!Erase(left, ref)
    OBVIOUS
<1>8. HasIndex(e)
    BY <1>6, <1>7, EraseFinite
<1>9. Ops(0)!reduce(b, ref, qty) =
        IF ~Ops(0)!Knows(b, ref) THEN b ELSE IF o.shares = d THEN e ELSE left
    BY <1>1, <1>2, <1>3, <1>5, <1>7 DEF Ops!reduce
<1> QED BY <1>6, <1>8, <1>9

LEMMA ReplaceFinite ==
    ASSUME NEW b, HasIndex(b), NEW orig, NEW ref, NEW shares, NEW price
    PROVE  HasIndex(Ops(0)!replace(b, orig, ref, shares, price))
<1>1. PICK c : c = Ops(0)!remove(b, orig)
    OBVIOUS
<1>2. PICK s : s = Ops(0)!OrderOf(b, orig).side
    OBVIOUS
<1>3. PICK e : e = Ops(0)!add(c, ref, s, price, shares)
    OBVIOUS
<1>4. HasIndex(e)
    BY <1>1, <1>3, RemoveFinite, AddFinite
<1>5. Ops(0)!replace(b, orig, ref, shares, price) = IF ~Ops(0)!Knows(b, orig) THEN b ELSE e
    BY <1>1, <1>2, <1>3 DEF Ops!replace
<1> QED BY <1>4, <1>5

LEMMA ApplyFinite ==
    ASSUME NEW b, HasIndex(b), NEW m
    PROVE  HasIndex(Ops(0)!apply(b, m))
<1>1. PICK a1 : a1 = Ops(0)!add(b, m.ref, m.side, m.price, m.shares)
    OBVIOUS
<1>2. PICK a2 : a2 = Ops(0)!reduce(b, m.ref, m.shares)
    OBVIOUS
<1>3. PICK a3 : a3 = Ops(0)!remove(b, m.ref)
    OBVIOUS
<1>4. PICK a4 : a4 = Ops(0)!replace(b, m.ref, m.new, m.shares, m.price)
    OBVIOUS
<1>5. Ops(0)!apply(b, m) \in {a1, a2, a3, a4, b}
  <2>1. PICK y : y = m.type
      OBVIOUS
  <2>2. Ops(0)!apply(b, m) = CASE y = "add" -> a1 [] y = "reduce" -> a2 [] y = "remove" -> a3
                               [] y = "replace" -> a4 [] OTHER -> b
      BY <1>1, <1>2, <1>3, <1>4, <2>1 DEF Ops!apply
  <2> QED BY <2>2
<1>6. HasIndex(a1) /\ HasIndex(a2) /\ HasIndex(a3) /\ HasIndex(a4)
    BY <1>1, <1>2, <1>3, <1>4, AddFinite, ReduceFinite, RemoveFinite, ReplaceFinite
<1> QED BY <1>5, <1>6

LEMMA BooksFinite ==
    ASSUME NEW x, NEW k \in Nat
    PROVE  HasIndex(After("book", x, k))
<1> DEFINE T == {j \in Nat : HasIndex(After("book", x, j))}
<1>1. 0 \in T
  <2>1. After("book", x, 0) = Ops(0)!NewBook
    <3>1. After("book", x, 0) = Start("book")
        BY AfterStep
    <3> QED BY <3>1 DEF Start
  <2>2. PICK i : i = [r \in {} |-> 0]
      OBVIOUS
  <2>3. DOMAIN i = {} /\ IsFiniteSet({})
      BY <2>2, FS_EmptySet
  <2>4. "index" \in DOMAIN Ops(0)!NewBook /\ Ops(0)!NewBook.index = i
      BY <2>2 DEF Ops!NewBook
  <2> QED BY <2>1, <2>3, <2>4 DEF HasIndex
<1>2. ASSUME NEW j \in Nat, j \in T PROVE j + 1 \in T
  <2>1. PICK b : b = After("book", x, j)
      OBVIOUS
  <2>2. PICK m : m = OpOf(x[1][x[2][j + 1]])
      OBVIOUS
  <2>3. After("book", x, j + 1) = Ops(0)!apply(b, m)
    <3>1. After("book", x, j + 1) = Round("book", x, b, j + 1)
        BY <2>1, AfterStep
    <3> QED BY <2>2, <3>1 DEF Round
  <2> QED BY <1>2, <2>1, <2>3, ApplyFinite
<1>3. Nat \subseteq T
  <2> HIDE DEF T
  <2> QED BY <1>1, <1>2, Induction
<1> QED BY <1>3

LEMMA OrderCountNat ==
    ASSUME NEW l, Len(book.books[l]) \in Nat
    PROVE  order_count(l) \in Nat
<1>1. HasIndex(BookOf(l))
    BY BookOfIsLoop, BooksFinite
<1> QED BY <1>1, FS_CardinalityType DEF order_count, HasIndex

LEMMA ReplayedLocates ==
    ASSUME FeedInv, book = Replayed(Messages)
    PROVE  BooksIn(book, 0 .. LocateMod - 1)
<1>1. IsList(data) /\ \A i \in 1 .. Len(data) : Captured(data[i])
    BY DEF FeedInv, DataInv, Sound
<1> DEFINE M == {decode(data[i]) : i \in {j \in 1 .. Len(data) : decodes(data[j])}}
<1>2. Messages \in Seq(M) /\ Len(Messages) \in Nat
    BY <1>1, MessagesList
<1>3. \A m \in M : m.locate \in 0 .. LocateMod - 1
  <2> SUFFICES ASSUME NEW i \in 1 .. Len(data), decodes(data[i])
               PROVE  decode(data[i]).locate \in 0 .. LocateMod - 1
      OBVIOUS
  <2>1. data[i].locate \in 0 .. LocateMod - 1
      BY <1>1 DEF Captured
  <2>2. decode(data[i]).locate = data[i].locate
      BY DEF decode
  <2> QED BY <2>1, <2>2
<1>4. \A i \in 1 .. Len(Messages) : Messages[i] \in M
  <2> HIDE DEF M
  <2> QED BY <1>2
<1>5. \A i \in 1 .. Len(Messages) : Messages[i].locate \in 0 .. LocateMod - 1
  <2> HIDE DEF M
  <2> QED BY <1>3, <1>4
<1> QED BY <1>2, <1>5, ReplayedBooksIn

\* If there is a book at all, one of them is the busiest.
LEMMA SomeBusiest ==
    ASSUME BooksIn(book, 0 .. LocateMod - 1), DOMAIN book.books # {}
    PROVE  Busiest # {}
<1> DEFINE D == DOMAIN book.books
           f == [l \in D |-> order_count(l)]
<1>1. \A l \in D : order_count(l) \in Nat
  <2>1. \A l \in D : Len(book.books[l]) \in Nat
      BY DEF BooksIn
  <2> QED BY <2>1, OrderCountNat
<1>2. f \in [D -> Nat]
    BY <1>1
<1>3. PICK top \in Nat : D \subseteq 0 .. top
  <2>1. LocateMod - 1 \in Nat
      BY FileAssumption
  <2> QED BY <2>1 DEF BooksIn
<1>4. PICK l \in D : \A k \in D : f[k] <= f[l]
  <2> HIDE DEF f, D
  <2> QED BY <1>2, <1>3, GreatestOf DEF D
<1>5. \A k \in D : order_count(k) <= order_count(l)
    BY <1>4
<1> QED BY <1>5 DEF Busiest

LEMMA FocalIsBook ==
    ASSUME BooksIn(book, 0 .. LocateMod - 1), NEW a
    PROVE  /\ Focal(a) \subseteq DOMAIN book.books
           /\ Focal(a) = {} <=> DOMAIN book.books = {}
<1>1. Named(a) \subseteq DOMAIN book.books /\ Numbered(a) \subseteq DOMAIN book.books
      /\ Busiest \subseteq DOMAIN book.books
    BY DEF Named, Numbered, Busiest
<1>2. DOMAIN book.books # {} => Busiest # {}
    BY SomeBusiest
<1> QED BY <1>1, <1>2 DEF Focal

\* What Report finds is about the books the passes left.
LEMMA ReportKeeps ==
    ASSUME UNCHANGED <<data, size, book>>
    PROVE  /\ \A l : symbol(l)' = symbol(l)
           /\ \A l : order_count(l)' = order_count(l)
<1>1. Messages' = Messages
    BY MessagesKept
<1>2. \A l : symbol(l)' = symbol(l)
    BY <1>1 DEF symbol
<1>3. \A l : BookOf(l)' = BookOf(l)
    BY <1>1 DEF BookOf
<1> QED BY <1>2, <1>3 DEF order_count

LEMMA FocusStep == FeedInv /\ WalkInv /\ FocusSound /\ [Next]_vars => FocusSound'
<1> SUFFICES ASSUME FeedInv, WalkInv, FocusSound, [Next]_vars, phase' = "done" PROVE FocusSound'
    BY DEF FocusSound
<1>1. CASE Report
  <2>1. UNCHANGED <<data, size, book>> /\ phase = "report"
      BY <1>1 DEF Report, genVars
  <2>2. BooksIn(book, 0 .. LocateMod - 1)
      BY <2>1, ReplayedLocates DEF WalkInv
  <2>3. PICK a : a = arg'
      OBVIOUS
  <2>4. PICK f : f = focus'
      OBVIOUS
  <2>5. IF Focal(a) = {} THEN f = NoFocus ELSE f \in Focal(a)
      BY <1>1, <2>3, <2>4 DEF Report
  <2>6. Focal(a) \subseteq DOMAIN book.books /\ (Focal(a) = {} <=> DOMAIN book.books = {})
      BY <2>2, FocalIsBook
  <2>7. NoFocus \notin DOMAIN book.books
      BY <2>2, FileAssumption DEF BooksIn, NoFocus
  <2>8. f = NoFocus <=> DOMAIN book.books = {}
      BY <2>5, <2>6, <2>7
  <2>9. f # NoFocus => f \in DOMAIN book.books
      BY <2>5, <2>6
  <2>10. Named(a) # {} => symbol(f) = a
    <3> SUFFICES ASSUME Named(a) # {} PROVE symbol(f) = a
        OBVIOUS
    <3>1. f \in Named(a)
        BY <2>5 DEF Focal
    <3> QED BY <3>1 DEF Named
  <2>11. a = Absent => \A l \in DOMAIN book.books : order_count(l) <= order_count(f)
    <3> SUFFICES ASSUME a = Absent, NEW l \in DOMAIN book.books
                 PROVE  order_count(l) <= order_count(f)
        OBVIOUS
    <3>1. Named(a) = {} /\ Numbered(a) = {}
        BY DEF Named, Numbered
    <3>2. f \in Busiest
        BY <2>5, <2>6, <3>1 DEF Focal
    <3> QED BY <3>2 DEF Busiest
  <2>12. /\ \A l : symbol(l)' = symbol(l)
         /\ \A l : order_count(l)' = order_count(l)
      BY <2>1, ReportKeeps
  <2>13. (focus = NoFocus <=> DOMAIN book.books = {})'
      BY <2>1, <2>4, <2>8 DEF NoFocus
  <2>14. (focus # NoFocus => focus \in DOMAIN book.books)'
      BY <2>1, <2>4, <2>9 DEF NoFocus
  <2>15. (Named(arg) # {} => symbol(focus) = arg)'
    <3>1. Named(arg)' = Named(a)
        BY <2>1, <2>3, <2>12 DEF Named, Absent
    <3>2. symbol(focus)' = symbol(f)
        BY <2>1, <2>4, MessagesKept DEF symbol
    <3> QED BY <2>3, <2>10, <3>1, <3>2
  <2>16. (arg = Absent => \A l \in DOMAIN book.books : order_count(l) <= order_count(focus))'
    <3>1. order_count(focus)' = order_count(f)
      <4>1. Messages' = Messages
          BY <2>1, MessagesKept
      <4>2. BookOf(focus)' = BookOf(f)
          BY <2>1, <2>4, <4>1 DEF BookOf
      <4> QED BY <4>2 DEF order_count
    <3> QED BY <2>1, <2>3, <2>11, <2>12, <3>1 DEF Absent
  <2> QED BY <2>13, <2>14, <2>15, <2>16 DEF FocusSound
<1>2. CASE UNCHANGED vars
  <2>1. UNCHANGED <<data, size, book, focus, arg, phase>>
      BY <1>2 DEF vars, genVars, replayVars
  <2>2. Messages' = Messages
      BY <2>1, MessagesKept
  <2>3. symbol(focus)' = symbol(focus) /\ \A l : symbol(l)' = symbol(l)
      BY <2>1, <2>2 DEF symbol
  <2>4. BookOf(focus)' = BookOf(focus) /\ \A l : BookOf(l)' = BookOf(l)
      BY <2>1, <2>2 DEF BookOf
  <2>5. order_count(focus)' = order_count(focus) /\ \A l : order_count(l)' = order_count(l)
      BY <2>4 DEF order_count
  <2>6. Named(arg)' = Named(arg)
      BY <2>1, <2>3 DEF Named, Absent
  <2> QED BY <2>1, <2>3, <2>5, <2>6 DEF FocusSound, NoFocus, Absent
<1>3. CASE Generate \/ Load \/ Pass1 \/ TapePass \/ Pass2
  <2>1. phase' # "done"
      BY <1>3 DEF Generate, Load, Pass1, TapePass, Pass2
  <2> QED BY <2>1
<1> QED BY <1>1, <1>2, <1>3 DEF Next

\* For every capture and every --symbol the report is on a book that exists: the one
\* that was asked for if there is one, the busiest if none was, and none only if no
\* message made a book.
THEOREM ReportsOnABook == Spec => []FocusSound
<1>1. Init => FocusSound
    BY DEF Init, FocusSound
<1>2. FeedInv /\ WalkInv /\ FocusSound /\ [Next]_vars => FocusSound'
    BY FocusStep
<1> QED BY <1>1, <1>2, WalkAlways, PTL DEF Spec

-----------------------------------------------------------------------------
(* The book of a locate, by one walk over all messages. *)

LEMMA BookPrefix ==
    ASSUME NEW ms, NEW q \in Seq(Nat), NEW i \in Nat
    PROVE  After("book", <<ms, Append(q, i)>>, Len(q)) = After("book", <<ms, q>>, Len(q))
<1> DEFINE T == {k \in Nat : k <= Len(q) =>
                    After("book", <<ms, Append(q, i)>>, k) = After("book", <<ms, q>>, k)}
<1>1. 0 \in T
  <2>1. \A x : After("book", x, 0) = Start("book")
      BY AfterStep
  <2> QED BY <2>1
<1>2. ASSUME NEW k \in Nat, k \in T PROVE k + 1 \in T
  <2> SUFFICES ASSUME k + 1 <= Len(q)
               PROVE  After("book", <<ms, Append(q, i)>>, k + 1) = After("book", <<ms, q>>, k + 1)
      OBVIOUS
  <2>1. PICK p \in Seq(Nat) : p = Append(q, i)
    <3>1. Append(q, i) \in Seq(Nat)
        OBVIOUS
    <3> QED BY <3>1
  <2>2. p[k + 1] = q[k + 1]
      BY <2>1
  <2>3. PICK b : b = After("book", <<ms, q>>, k)
      OBVIOUS
  <2>4. After("book", <<ms, p>>, k) = b
      BY <1>2, <2>1, <2>3
  <2>5. \A x : After("book", x, k + 1) = Round("book", x, After("book", x, k), k + 1)
      BY AfterStep
  <2>6. Round("book", <<ms, p>>, b, k + 1) = Round("book", <<ms, q>>, b, k + 1)
      BY <2>2 DEF Round
  <2> QED BY <2>1, <2>3, <2>4, <2>5, <2>6
<1>3. Nat \subseteq T
  <2> HIDE DEF T
  <2> QED BY <1>1, <1>2, Induction
<1>4. Len(q) \in T
  <2>1. Len(q) \in Nat
      OBVIOUS
  <2> HIDE DEF T
  <2> QED BY <1>3, <2>1
<1> QED BY <1>4

BookSoFar(ms, q) == After("book", <<ms, q>>, Len(q))

LEMMA BookAppend ==
    ASSUME NEW ms, NEW q \in Seq(Nat), NEW i \in Nat
    PROVE  BookSoFar(ms, Append(q, i)) = Ops(0)!apply(BookSoFar(ms, q), OpOf(ms[i]))
<1>1. PICK p \in Seq(Nat) : p = Append(q, i)
  <2>1. Append(q, i) \in Seq(Nat)
      OBVIOUS
  <2> QED BY <2>1
<1>2. Len(p) = Len(q) + 1 /\ Len(q) \in Nat /\ p[Len(q) + 1] = i
    BY <1>1
<1>3. PICK b : b = After("book", <<ms, p>>, Len(q))
    OBVIOUS
<1>4. b = BookSoFar(ms, q)
    BY <1>1, <1>3, BookPrefix DEF BookSoFar
<1>5. After("book", <<ms, p>>, Len(q) + 1) = Round("book", <<ms, p>>, b, Len(q) + 1)
    BY <1>2, <1>3, AfterStep
<1>6. Round("book", <<ms, p>>, b, Len(q) + 1) = Ops(0)!apply(b, OpOf(ms[i]))
    BY <1>2 DEF Round
<1> QED BY <1>1, <1>2, <1>4, <1>5, <1>6 DEF BookSoFar

LEMMA BookEmpty == \A ms : BookSoFar(ms, <<>>) = Ops(0)!NewBook
<1> SUFFICES ASSUME NEW ms PROVE BookSoFar(ms, <<>>) = Ops(0)!NewBook
    OBVIOUS
<1>1. After("book", <<ms, <<>> >>, 0) = Start("book")
    BY AfterStep
<1> QED BY <1>1 DEF BookSoFar, Start

SymbolBook(ms, l, k) == After("symbol", <<ms, l>>, k)

LEMMA SymbolStep ==
    ASSUME NEW ms, NEW l
    PROVE  /\ SymbolBook(ms, l, 0) = Ops(0)!NewBook
           /\ \A k \in Nat : SymbolBook(ms, l, k + 1) =
                  IF ForBook(ms[k + 1], l)
                    THEN Ops(0)!apply(SymbolBook(ms, l, k), OpOf(ms[k + 1]))
                  ELSE SymbolBook(ms, l, k)
<1>1. SymbolBook(ms, l, 0) = Start("symbol")
    BY AfterStep DEF SymbolBook
<1>2. ASSUME NEW k \in Nat
      PROVE  SymbolBook(ms, l, k + 1) =
                 IF ForBook(ms[k + 1], l)
                   THEN Ops(0)!apply(SymbolBook(ms, l, k), OpOf(ms[k + 1]))
                 ELSE SymbolBook(ms, l, k)
  <2>1. PICK b : b = SymbolBook(ms, l, k)
      OBVIOUS
  <2>2. SymbolBook(ms, l, k + 1) = Round("symbol", <<ms, l>>, b, k + 1)
      BY <2>1, AfterStep DEF SymbolBook
  <2> QED BY <2>1, <2>2 DEF Round
<1> QED BY <1>1, <1>2 DEF Start

\* What the set made of the messages so far holds for each locate.
Linked(ms, k, s) ==
    /\ "books" \in DOMAIN s
    /\ \A l : BookAt(s, l) \in Seq(Nat) /\ BookSoFar(ms, BookAt(s, l)) = SymbolBook(ms, l, k)

LEMMA LinkedStep ==
    ASSUME NEW ms, NEW k \in Nat, NEW s, Linked(ms, k, s)
    PROVE  Linked(ms, k + 1, BookSetApply(s, Routed(ms[k + 1], k + 1)))
<1>1. PICK m : m = ms[k + 1]
    OBVIOUS
<1>2. PICK r : r = Routed(m, k + 1)
    OBVIOUS
<1>3. PICK u : u = BookSetApply(s, r)
    OBVIOUS
<1>4. /\ r.id = k + 1 /\ r.locate = m.locate
      /\ r.kind = IF m.type = "R" THEN "directory"
                  ELSE IF m.type \in Changes THEN "order" ELSE "other"
    BY <1>2 DEF Routed
<1>5. ASSUME NEW v, "books" \in DOMAIN u, u.books = Put(s.books, m.locate, v)
      PROVE  \A l : BookAt(u, l) = IF l = m.locate THEN v ELSE BookAt(s, l)
    BY <1>5 DEF BookAt, Put
<1>6. CASE r.kind = "order"
  <2>1. PICK q \in Seq(Nat) : q = BookAt(s, m.locate)
      BY DEF Linked
  <2>2. PICK v : v = Append(q, k + 1)
      OBVIOUS
  <2>3. PICK g : g = Put(s.books, m.locate, v)
      OBVIOUS
  <2>4. u = [s EXCEPT !.books = g]
      BY <1>3, <1>4, <1>6, <2>1, <2>2, <2>3 DEF BookSetApply
  <2>5. "books" \in DOMAIN u /\ u.books = g
      BY <2>4 DEF Linked
  <2>6. \A l : BookAt(u, l) = IF l = m.locate THEN v ELSE BookAt(s, l)
      BY <1>5, <2>3, <2>5
  <2>7. m.type \in Changes
      BY <1>4, <1>6
  <2> SUFFICES ASSUME NEW l
               PROVE  /\ BookAt(u, l) \in Seq(Nat)
                      /\ BookSoFar(ms, BookAt(u, l)) = SymbolBook(ms, l, k + 1)
      BY <1>1, <1>2, <1>3, <2>5 DEF Linked
  <2>8. CASE l = m.locate
    <3>1. BookAt(u, l) = v /\ v \in Seq(Nat)
        BY <2>2, <2>6, <2>8
    <3>2. BookSoFar(ms, v) = Ops(0)!apply(BookSoFar(ms, q), OpOf(m))
        BY <1>1, <2>2, BookAppend
    <3>3. BookSoFar(ms, q) = SymbolBook(ms, l, k)
        BY <2>1, <2>8 DEF Linked
    <3>4. ForBook(m, l)
        BY <2>7, <2>8 DEF ForBook
    <3>5. SymbolBook(ms, l, k + 1) = Ops(0)!apply(SymbolBook(ms, l, k), OpOf(m))
        BY <1>1, <3>4, SymbolStep
    <3> QED BY <3>1, <3>2, <3>3, <3>5
  <2>9. CASE l # m.locate
    <3>1. BookAt(u, l) = BookAt(s, l)
        BY <2>6, <2>9
    <3>2. ~ForBook(m, l)
        BY <2>9 DEF ForBook
    <3>3. SymbolBook(ms, l, k + 1) = SymbolBook(ms, l, k)
        BY <1>1, <3>2, SymbolStep
    <3> QED BY <3>1, <3>3 DEF Linked
  <2> QED BY <2>8, <2>9
<1>7. CASE r.kind # "order"
  <2>1. "books" \in DOMAIN u /\ \A l : BookAt(u, l) = BookAt(s, l)
    <3>1. CASE r.kind = "directory"
      <4>1. PICK v : v = BookAt(s, m.locate)
          OBVIOUS
      <4>2. "books" \in DOMAIN u /\ u.books = Put(s.books, m.locate, v)
          BY <1>3, <1>4, <3>1, <4>1 DEF BookSetApply
      <4>3. \A l : BookAt(u, l) = IF l = m.locate THEN v ELSE BookAt(s, l)
          BY <1>5, <4>2
      <4> QED BY <4>1, <4>2, <4>3
    <3>2. CASE r.kind # "directory"
      <4>1. u = s
          BY <1>3, <1>7, <3>2 DEF BookSetApply
      <4> QED BY <4>1 DEF Linked
    <3> QED BY <3>1, <3>2
  <2>2. m.type \notin Changes
      BY <1>4, <1>7 DEF Changes
  <2>3. \A l : SymbolBook(ms, l, k + 1) = SymbolBook(ms, l, k)
    <3> SUFFICES ASSUME NEW l PROVE SymbolBook(ms, l, k + 1) = SymbolBook(ms, l, k)
        OBVIOUS
    <3>1. ~ForBook(m, l)
        BY <2>2 DEF ForBook
    <3> QED BY <1>1, <3>1, SymbolStep
  <2>4. Linked(ms, k + 1, u)
      BY <2>1, <2>3 DEF Linked
  <2> QED BY <1>1, <1>2, <1>3, <2>4
<1> QED BY <1>6, <1>7

LEMMA ReplayedLinked ==
    ASSUME NEW ms, Len(ms) \in Nat
    PROVE  Linked(ms, Len(ms), Replayed(ms))
<1> DEFINE T == {k \in Nat : Linked(ms, k, After("replayed", ms, k))}
<1>1. 0 \in T
  <2>1. After("replayed", ms, 0) = NewBookSet
    <3>1. After("replayed", ms, 0) = Start("replayed")
        BY AfterStep
    <3> QED BY <3>1 DEF Start
  <2>2. "books" \in DOMAIN NewBookSet /\ \A l : BookAt(NewBookSet, l) = <<>>
      BY DEF NewBookSet, BookAt
  <2>3. \A l : BookSoFar(ms, <<>>) = SymbolBook(ms, l, 0)
      BY BookEmpty, SymbolStep
  <2>4. <<>> \in Seq(Nat)
      OBVIOUS
  <2> QED BY <2>1, <2>2, <2>3, <2>4 DEF Linked
<1>2. ASSUME NEW k \in Nat, k \in T PROVE k + 1 \in T
  <2>1. PICK s : s = After("replayed", ms, k)
      OBVIOUS
  <2>2. After("replayed", ms, k + 1) = BookSetApply(s, Routed(ms[k + 1], k + 1))
    <3>1. After("replayed", ms, k + 1) = Round("replayed", ms, s, k + 1)
        BY <2>1, AfterStep
    <3> QED BY <3>1 DEF Round
  <2> QED BY <1>2, <2>1, <2>2, LinkedStep
<1>3. Nat \subseteq T
  <2> HIDE DEF T
  <2> QED BY <1>1, <1>2, Induction
<1>4. Len(ms) \in T
    BY <1>3
<1> QED BY <1>4, ReplayedIsLoop

\* The book of a locate is what its messages make of an empty one.
LEMMA BookOfSymbol ==
    ASSUME Len(Messages) \in Nat, book = Replayed(Messages), NEW l \in DOMAIN book.books
    PROVE  BookOf(l) = SymbolBook(Messages, l, Len(Messages))
<1>1. Linked(Messages, Len(Messages), book)
    BY ReplayedLinked
<1>2. BookAt(book, l) = book.books[l]
    BY DEF BookAt
<1>3. book.books[l] \in Seq(Nat)
    BY <1>1, <1>2 DEF Linked
<1>4. BookOf(l) = BookSoFar(Messages, book.books[l])
    BY <1>3, BookOfIsLoop DEF BookSoFar
<1> QED BY <1>1, <1>2, <1>4 DEF Linked

-----------------------------------------------------------------------------
(* The books are those OrderBookProofs speaks of. *)

P == INSTANCE OrderBookProofs WITH book <- 0, Ref <- Nat, Price <- Nat,
                                   MaxShares <- QtyMod - 1, MaxSlots <- 0

LEMMA BookAssumptions ==
    /\ QtyMod \in Nat /\ QtyMod > 0 /\ Nat \subseteq Int /\ 0 \in Nat
    /\ QtyMod - 1 \in Nat /\ QtyMod - 1 < QtyMod
BY QtyModAssumption

LEMMA SameOps ==
    /\ Ops(0)!NewBook = P!NewBook
    /\ \A b, m : Ops(0)!apply(b, m) = P!apply(b, m)
<1>0. Ops(0)!NewBook = P!NewBook
    BY DEF Ops!NewBook, P!NewBook, Ops!EmptyLevels, P!EmptyLevels
<1>1. \A l, p : Ops(0)!At(l, p) = P!At(l, p)
    BY DEF Ops!At, P!At
<1>2. \A l, p, q : /\ Ops(0)!Inc(l, p, q) = P!Inc(l, p, q)
                   /\ Ops(0)!Dec(l, p, q) = P!Dec(l, p, q)
    BY <1>1 DEF Ops!Inc, P!Inc, Ops!Dec, P!Dec
<1>3. \A b, r : /\ Ops(0)!Knows(b, r) = P!Knows(b, r)
                /\ Ops(0)!OrderOf(b, r) = P!OrderOf(b, r)
    BY DEF Ops!Knows, P!Knows, Ops!OrderOf, P!OrderOf
<1>4. \A b : Ops(0)!AllocHandle(b) = P!AllocHandle(b)
    BY DEF Ops!AllocHandle, P!AllocHandle
<1>5. \A b, o : Ops(0)!Alloc(b, o) = P!Alloc(b, o)
    BY <1>4 DEF Ops!Alloc, P!Alloc
<1>6. \A b, r, h : Ops(0)!SetIndex(b, r, h) = P!SetIndex(b, r, h)
    BY DEF Ops!SetIndex, P!SetIndex
<1>7. \A b, r : Ops(0)!Erase(b, r) = P!Erase(b, r)
    BY DEF Ops!Erase, P!Erase, Ops!Free, P!Free
<1>8. \A b, s, p, q : Ops(0)!inc_level(b, s, p, q) = P!inc_level(b, s, p, q)
    BY <1>2 DEF Ops!inc_level, P!inc_level
<1>9. \A b, s, p, q : Ops(0)!dec_level(b, s, p, q) = P!dec_level(b, s, p, q)
    BY <1>2 DEF Ops!dec_level, P!dec_level
<1>10. \A b, r, s, p, q : Ops(0)!add(b, r, s, p, q) = P!add(b, r, s, p, q)
    BY <1>4, <1>5, <1>6, <1>8 DEF Ops!add, P!add
<1>11. \A b, r, q : Ops(0)!reduce(b, r, q) = P!reduce(b, r, q)
    BY <1>3, <1>7, <1>9 DEF Ops!reduce, P!reduce
<1>12. \A b, r : Ops(0)!remove(b, r) = P!remove(b, r)
    BY <1>3, <1>7, <1>9 DEF Ops!remove, P!remove
<1>13. \A b, r, w, h, p : Ops(0)!replace(b, r, w, h, p) = P!replace(b, r, w, h, p)
    BY <1>3, <1>10, <1>12 DEF Ops!replace, P!replace
<1> QED BY <1>0, <1>10, <1>11, <1>12, <1>13 DEF Ops!apply, P!apply

\* A decoded message that a book may be given.
Proper(m) ==
    /\ m.ref \in Nat /\ m.new \in Nat /\ m.price \in Nat /\ m.shares \in 0 .. QtyMod - 1
    /\ m.type \in {"A", "F"} => m.side \in AnySide

LEMMA OpProper ==
    ASSUME NEW m, Proper(m), m.type \in Changes
    PROVE  OpOf(m) \in P!Message
<1>0. P!Shares = 0 .. QtyMod - 1 /\ P!AnySide = AnySide
    BY DEF P!Shares, P!AnySide, P!Side, AnySide, Sides
<1>1. CASE m.type \in {"A", "F"}
    BY <1>0, <1>1 DEF OpOf, Proper, P!Message
<1>2. CASE m.type \in {"E", "C", "X"}
    BY <1>0, <1>2 DEF OpOf, Proper, P!Message
<1>3. CASE m.type = "D"
    BY <1>0, <1>3 DEF OpOf, Proper, P!Message
<1>4. CASE m.type = "U"
    BY <1>0, <1>4 DEF OpOf, Proper, P!Message
<1> QED BY <1>1, <1>2, <1>3, <1>4 DEF Changes

LEMMA NewBookSound == P!Sound(P!NewBook)
<1>1. PICK b : b = P!NewBook
    OBVIOUS
<1>2. P!Fields(b)
    BY <1>1 DEF P!NewBook, P!Fields
<1>3. b.slots = <<>> /\ b.free = <<>> /\ DOMAIN b.index = {}
    BY <1>1 DEF P!NewBook
<1>4. P!LevelsOK(b.bids) /\ P!LevelsOK(b.asks)
  <2>1. P!IsFiniteSet({})
      BY FS_EmptySet DEF P!IsFiniteSet, IsFiniteSet
  <2>2. DOMAIN P!EmptyLevels = {}
      BY DEF P!EmptyLevels
  <2>3. P!LevelsOK(P!EmptyLevels)
      BY <2>1, <2>2 DEF P!LevelsOK
  <2>4. b.bids = P!EmptyLevels /\ b.asks = P!EmptyLevels
      BY <1>1 DEF P!NewBook
  <2> QED BY <2>3, <2>4
<1> QED BY <1>1, <1>2, <1>3, <1>4 DEF P!Sound, P!SlotsOK, P!IndexOK, P!Unaliased

LEMMA SymbolBookSound ==
    ASSUME NEW ms, Len(ms) \in Nat, \A i \in 1 .. Len(ms) : Proper(ms[i]), NEW l
    PROVE  P!Sound(SymbolBook(ms, l, Len(ms)))
<1> DEFINE T == {k \in Nat : k <= Len(ms) => P!Sound(SymbolBook(ms, l, k))}
<1>1. 0 \in T
    BY SymbolStep, SameOps, NewBookSound
<1>2. ASSUME NEW k \in Nat, k \in T PROVE k + 1 \in T
  <2> SUFFICES ASSUME k + 1 <= Len(ms) PROVE P!Sound(SymbolBook(ms, l, k + 1))
      OBVIOUS
  <2>1. PICK b : b = SymbolBook(ms, l, k)
      OBVIOUS
  <2>2. P!Sound(b)
      BY <1>2, <2>1
  <2>3. PICK m : m = ms[k + 1]
      OBVIOUS
  <2>4. Proper(m)
      BY <2>3
  <2>5. CASE ForBook(m, l)
    <3>1. OpOf(m) \in P!Message
        BY <2>4, <2>5, OpProper DEF ForBook
    <3>2. P!Sound(P!apply(b, OpOf(m)))
        BY <2>2, <3>1, P!ApplySound, BookAssumptions
    <3>3. SymbolBook(ms, l, k + 1) = Ops(0)!apply(b, OpOf(m))
        BY <2>1, <2>3, <2>5, SymbolStep
    <3> QED BY <3>2, <3>3, SameOps
  <2>6. CASE ~ForBook(m, l)
    <3>1. SymbolBook(ms, l, k + 1) = b
        BY <2>1, <2>3, <2>6, SymbolStep
    <3> QED BY <2>2, <3>1
  <2> QED BY <2>5, <2>6
<1>3. Nat \subseteq T
  <2> HIDE DEF T
  <2> QED BY <1>1, <1>2, Induction
<1>4. Len(ms) \in T
    BY <1>3
<1> QED BY <1>4

LEMMA MessagesProper ==
    ASSUME FeedInv
    PROVE  Len(Messages) \in Nat /\ \A i \in 1 .. Len(Messages) : Proper(Messages[i])
<1>1. IsList(data) /\ \A i \in 1 .. Len(data) : Captured(data[i])
    BY DEF FeedInv, DataInv, Sound
<1> DEFINE M == {decode(data[i]) : i \in {j \in 1 .. Len(data) : decodes(data[j])}}
<1>2. Len(data) \in Nat /\ Messages \in Seq(M) /\ Len(Messages) \in Nat
    BY <1>1, MessagesList
<1>3. \A m \in M : Proper(m)
  <2> SUFFICES ASSUME NEW i \in 1 .. Len(data), decodes(data[i])
               PROVE  Proper(decode(data[i]))
      OBVIOUS
  <2>1. PICK r : r = data[i]
      OBVIOUS
  <2>2. Captured(r) /\ decodes(r)
      BY <1>1, <2>1
  <2>3. decode(r).type = r.type
      BY DecodeNumbers
  <2>4. /\ decode(r).ref \in Nat /\ decode(r).new \in Nat
        /\ decode(r).shares \in 0 .. QtyMod - 1 /\ decode(r).price \in Nat
        /\ r.type \in {"A", "F"} => decode(r).side \in AnySide
      BY <2>2 DEF Captured, AnySide
  <2> QED BY <2>1, <2>3, <2>4 DEF Proper
<1>4. \A i \in 1 .. Len(Messages) : Messages[i] \in M
  <2> HIDE DEF M
  <2> QED BY <1>2
<1> QED BY <1>2, <1>3, <1>4

-----------------------------------------------------------------------------
(* The metrics of the focal book. *)

LEMMA BetterOrder ==
    ASSUME NEW s
    PROVE  /\ \A a \in Int : ~Better(s, a, a)
           /\ \A a, b \in Int : a # b => Better(s, a, b) \/ Better(s, b, a)
           /\ \A a, b \in Int : ~(Better(s, a, b) /\ Better(s, b, a))
           /\ \A a, b, c \in Int : Better(s, a, b) /\ Better(s, b, c) => Better(s, a, c)
    BY DEF Better

\* p is the first of the prices S.
IsFirst(s, S, p) == p \in S /\ \A r \in S : r # p => Better(s, p, r)

LEMMA FirstIs ==
    ASSUME NEW s, NEW S, S \subseteq Int, NEW p, IsFirst(s, S, p)
    PROVE  First(s, S) = p
<1>1. \A r \in S : ~Better(s, r, p)
    BY BetterOrder DEF IsFirst
<1>2. \A x \in S : (\A r \in S : ~Better(s, r, x)) => x = p
    BY DEF IsFirst
<1> QED BY <1>1, <1>2 DEF First, IsFirst

LEMMA SomeFirst ==
    ASSUME NEW s, NEW S, S \subseteq Int, IsFiniteSet(S), S # {}
    PROVE  IsFirst(s, S, First(s, S))
<1> DEFINE W == {U \in SUBSET S : U # {} => \E p : IsFirst(s, U, p)}
<1>1. ASSUME NEW U \in SUBSET S, \A Y \in SUBSET U : Y # U => Y \in W, U # {}
      PROVE  \E p : IsFirst(s, U, p)
  <2>1. PICK x : x \in U
      BY <1>1
  <2>2. PICK Y \in SUBSET U : Y = U \ {x}
      OBVIOUS
  <2>3. Y \in W
      BY <1>1, <2>1, <2>2
  <2>4. CASE Y = {}
      BY <2>1, <2>2, <2>4 DEF IsFirst
  <2>5. CASE Y # {}
    <3>1. PICK p : IsFirst(s, Y, p)
        BY <2>3, <2>5
    <3>2. p \in Int /\ x \in Int /\ p # x /\ p \in U /\ U \subseteq Int
        BY <1>1, <2>1, <2>2, <3>1 DEF IsFirst
    <3>3. CASE Better(s, p, x)
      <4>1. IsFirst(s, U, p)
          BY <2>2, <3>1, <3>2, <3>3 DEF IsFirst
      <4> QED BY <4>1
    <3>4. CASE Better(s, x, p)
      <4>1. IsFirst(s, U, x)
          BY <2>1, <2>2, <3>1, <3>2, <3>4, BetterOrder DEF IsFirst
      <4> QED BY <4>1
    <3> QED BY <3>2, <3>3, <3>4, BetterOrder
  <2> QED BY <2>4, <2>5
<1>2. \A U \in SUBSET S : (\A Y \in SUBSET U : Y # U => Y \in W) => U \in W
    BY <1>1
<1>3. \A U \in SUBSET S : U \in W
  <2>1. P!IsFiniteSet(S)
      BY DEF P!IsFiniteSet, IsFiniteSet
  <2> HIDE DEF W
  <2> QED BY <1>2, <2>1, P!SubsetInduction, BookAssumptions
<1>4. S \in W
  <2> HIDE DEF W
  <2> QED BY <1>3
<1>5. PICK p : IsFirst(s, S, p)
    BY <1>4
<1> QED BY <1>5, FirstIs

\* The prices better than p.
Above(s, S, p) == {r \in S : Better(s, r, p)}

LEMMA RankExists ==
    ASSUME NEW s
    PROVE  \A i \in Nat : \A S \in SUBSET Int : IsFiniteSet(S) /\ i < Cardinality(S) =>
               \E p \in S : Cardinality(Above(s, S, p)) = i
<1> DEFINE T == {i \in Nat : \A S \in SUBSET Int : IsFiniteSet(S) /\ i < Cardinality(S) =>
                                 \E p \in S : Cardinality(Above(s, S, p)) = i}
<1>1. ASSUME NEW S \in SUBSET Int, IsFiniteSet(S), NEW i \in Nat, i < Cardinality(S)
      PROVE  IsFirst(s, S, First(s, S)) /\ Above(s, S, First(s, S)) = {}
  <2>1. S # {}
      BY <1>1, FS_EmptySet
  <2>2. IsFirst(s, S, First(s, S))
      BY <1>1, <2>1, SomeFirst
  <2>3. First(s, S) \in Int
      BY <2>2 DEF IsFirst
  <2>4. Above(s, S, First(s, S)) = {}
      BY <2>2, <2>3, BetterOrder DEF IsFirst, Above
  <2> QED BY <2>2, <2>4
<1>2. 0 \in T
  <2> SUFFICES ASSUME NEW S \in SUBSET Int, IsFiniteSet(S), 0 < Cardinality(S)
               PROVE  \E p \in S : Cardinality(Above(s, S, p)) = 0
      OBVIOUS
  <2>1. First(s, S) \in S /\ Above(s, S, First(s, S)) = {}
      BY <1>1 DEF IsFirst
  <2> QED BY <2>1, FS_EmptySet
<1>3. ASSUME NEW i \in Nat, i \in T PROVE i + 1 \in T
  <2> SUFFICES ASSUME NEW S \in SUBSET Int, IsFiniteSet(S), i + 1 < Cardinality(S)
               PROVE  \E p \in S : Cardinality(Above(s, S, p)) = i + 1
      OBVIOUS
  <2>1. PICK f : f = First(s, S)
      OBVIOUS
  <2>2. IsFirst(s, S, f) /\ f \in S
      BY <1>1, <2>1 DEF IsFirst
  <2>3. PICK R \in SUBSET Int : R = S \ {f}
      OBVIOUS
  <2>4. Cardinality(S) \in Nat /\ IsFiniteSet(R) /\ Cardinality(R) = Cardinality(S) - 1
      BY <2>2, <2>3, FS_RemoveElement, FS_CardinalityType
  <2>5. PICK p \in R : Cardinality(Above(s, R, p)) = i
      BY <1>3, <2>4
  <2>6. p \in S /\ p \in Int /\ f \in Int /\ p # f /\ Better(s, f, p)
      BY <2>2, <2>3, <2>5 DEF IsFirst
  <2>7. Above(s, S, p) = Above(s, R, p) \cup {f} /\ f \notin Above(s, R, p)
      BY <2>2, <2>3, <2>6 DEF Above
  <2>8. IsFiniteSet(Above(s, R, p))
    <3>1. Above(s, R, p) \subseteq R
        BY DEF Above
    <3> QED BY <2>4, <3>1, FS_Subset
  <2>9. Cardinality(Above(s, S, p)) = i + 1
      BY <2>5, <2>7, <2>8, FS_AddElement
  <2> QED BY <2>6, <2>9
<1>4. Nat \subseteq T
  <2> HIDE DEF T
  <2> QED BY <1>2, <1>3, Induction
<1> QED BY <1>4

LEMMA IthOf ==
    ASSUME NEW s, NEW S, S \subseteq Int, IsFiniteSet(S), NEW i \in 1 .. Cardinality(S)
    PROVE  Ith(s, S, i) \in S /\ (i = 1 => Ith(s, S, i) = First(s, S))
<1>1. Cardinality(S) \in Nat /\ i - 1 \in Nat /\ i - 1 < Cardinality(S)
    BY FS_CardinalityType
<1>2. \E p \in S : Cardinality(Above(s, S, p)) = i - 1
    BY <1>1, RankExists
<1>3. Ith(s, S, i) = CHOOSE p \in S : Cardinality(Above(s, S, p)) = i - 1
    BY DEF Ith, Above
<1>4. Ith(s, S, i) \in S /\ Cardinality(Above(s, S, Ith(s, S, i))) = i - 1
    BY <1>2, <1>3
<1>5. ASSUME i = 1 PROVE Ith(s, S, i) = First(s, S)
  <2>1. PICK p : p = Ith(s, S, i)
      OBVIOUS
  <2>2. p \in S /\ Cardinality(Above(s, S, p)) = 0
      BY <1>4, <1>5, <2>1
  <2>3. IsFiniteSet(Above(s, S, p))
    <3>1. Above(s, S, p) \subseteq S
        BY DEF Above
    <3> QED BY <3>1, FS_Subset
  <2>4. Above(s, S, p) = {}
      BY <2>2, <2>3, FS_EmptySet
  <2>5. \A r \in S : r # p => Better(s, p, r)
    <3> SUFFICES ASSUME NEW r \in S, r # p PROVE Better(s, p, r)
        OBVIOUS
    <3>1. r \in Int /\ p \in Int /\ ~Better(s, r, p)
        BY <2>2, <2>4 DEF Above
    <3> QED BY <3>1, BetterOrder
  <2>6. IsFirst(s, S, p)
      BY <2>2, <2>5 DEF IsFirst
  <2> QED BY <2>1, <2>6, FirstIs
<1> QED BY <1>4, <1>5

\* The levels of a side.
Side(levels) ==
    /\ DOMAIN levels \subseteq Nat /\ IsFiniteSet(DOMAIN levels)
    /\ \A p \in DOMAIN levels : levels[p] \in Nat

LEMMA BestOf ==
    ASSUME NEW s, NEW levels, Side(levels), Best(s, levels) # NoLevel
    PROVE  /\ DOMAIN levels # {} /\ First(s, DOMAIN levels) \in DOMAIN levels
           /\ Best(s, levels)[1] = First(s, DOMAIN levels) /\ Best(s, levels)[1] \in Nat
           /\ Best(s, levels)[2] = levels[First(s, DOMAIN levels)] /\ Best(s, levels)[2] \in Nat
<1>1. DOMAIN levels # {} /\ DOMAIN levels \subseteq Int
    BY DEF Best, Side
<1>2. First(s, DOMAIN levels) \in DOMAIN levels
    BY <1>1, SomeFirst DEF IsFirst, Side
<1>3. PICK p \in DOMAIN levels : p = First(s, DOMAIN levels)
    BY <1>2
<1>4. Best(s, levels) = <<p, levels[p]>>
    BY <1>1, <1>3 DEF Best
<1> QED BY <1>1, <1>3, <1>4 DEF Side

LEMMA TopOf ==
    ASSUME NEW s, NEW levels, Side(levels), DOMAIN levels # {}, NEW k \in Nat, k > 0
    PROVE  LET top == Top(s, levels, k)
           IN  /\ Len(top) \in Nat /\ Len(top) > 0
               /\ \A i \in 1 .. Len(top) : top[i][2] \in Nat
               /\ top[1][2] = levels[First(s, DOMAIN levels)]
<1> DEFINE D == DOMAIN levels
<1>1. D \subseteq Int /\ IsFiniteSet(D) /\ Cardinality(D) \in Nat /\ Cardinality(D) # 0
    BY FS_CardinalityType, FS_EmptySet DEF Side
<1>2. PICK len \in Nat : len = IF Size(levels) < k THEN Size(levels) ELSE k
    BY <1>1 DEF Size
<1>3. len > 0 /\ len <= Cardinality(D)
    BY <1>1, <1>2 DEF Size
<1>4. \A i \in 1 .. len : i \in 1 .. Cardinality(D)
    BY <1>1, <1>3
<1>5. \A i \in 1 .. len : Ith(s, D, i) \in D /\ (i = 1 => Ith(s, D, i) = First(s, D))
  <2> HIDE DEF D
  <2> QED BY <1>1, <1>4, IthOf
<1>6. PICK top : top = Top(s, levels, k)
    OBVIOUS
<1>7. top = [i \in 1 .. len |-> <<Ith(s, D, i), levels[Ith(s, D, i)]>>]
    BY <1>2, <1>6 DEF Top
<1>8. Len(top) = len
    BY <1>7
<1>9. \A i \in 1 .. len : top[i][2] = levels[Ith(s, D, i)]
    BY <1>7
<1>10. \A i \in 1 .. len : top[i][2] \in Nat
    BY <1>5, <1>9 DEF Side
<1>11. top[1][2] = levels[First(s, D)]
    BY <1>3, <1>5, <1>9
<1> QED BY <1>3, <1>6, <1>8, <1>10, <1>11

LEMMA DepthIsLoop ==
    ASSUME NEW s, NEW levels, NEW k, NEW top, top = Top(s, levels, k), Len(top) \in Nat
    PROVE  DepthOf(s, levels, k) = After("depth", top, Len(top))
<1> DEFINE Sol(f) == f = [i \in 0 .. Len(top) |-> IF i = 0 THEN 0 ELSE f[i - 1] + top[i][2]]
           g == CHOOSE f : Sol(f)
<1>1. \A f : Sol(f) <=> Runs("depth", top, Len(top), f)
    BY DEF Runs, Start, Round
<1>2. Sol(g)
    BY <1>1, RunsExist
<1>3. DepthOf(s, levels, k) = g[Len(top)]
    BY DEF DepthOf
<1> HIDE DEF g, Sol
<1> QED BY <1>1, <1>2, <1>3, RunsAfter

\* The depth of a side is at least what its best level holds.
LEMMA DepthCoversBest ==
    ASSUME NEW s, NEW levels, Side(levels), Best(s, levels) # NoLevel, NEW k \in Nat, k > 0
    PROVE  DepthOf(s, levels, k) >= Best(s, levels)[2]
<1>1. PICK top : top = Top(s, levels, k)
    OBVIOUS
<1>2. PICK len \in Nat : len = Len(top)
    BY <1>1, BestOf, TopOf
<1>3. /\ len > 0 /\ \A i \in 1 .. len : top[i][2] \in Nat
      /\ top[1][2] = Best(s, levels)[2]
    BY <1>1, <1>2, BestOf, TopOf
<1> DEFINE T == {j \in Nat : j + 1 <= len => /\ After("depth", top, j + 1) \in Nat
                                             /\ After("depth", top, j + 1) >= top[1][2]}
<1>4. /\ After("depth", top, 0) = 0
      /\ \A j \in Nat : After("depth", top, j + 1) = After("depth", top, j) + top[j + 1][2]
  <2>1. After("depth", top, 0) = Start("depth")
      BY AfterStep
  <2>2. \A j \in Nat : After("depth", top, j + 1) =
                           Round("depth", top, After("depth", top, j), j + 1)
      BY AfterStep
  <2> QED BY <2>1, <2>2 DEF Start, Round
<1>5. 0 \in T
  <2>1. After("depth", top, 0 + 1) = 0 + top[1][2] /\ top[1][2] \in Nat
      BY <1>3, <1>4
  <2> QED BY <2>1
<1>6. ASSUME NEW j \in Nat, j \in T PROVE j + 1 \in T
  <2> SUFFICES ASSUME j + 1 + 1 <= len
               PROVE  /\ After("depth", top, j + 1 + 1) \in Nat
                      /\ After("depth", top, j + 1 + 1) >= top[1][2]
      OBVIOUS
  <2>1. After("depth", top, j + 1) \in Nat /\ After("depth", top, j + 1) >= top[1][2]
      BY <1>6
  <2>2. After("depth", top, j + 1 + 1) = After("depth", top, j + 1) + top[j + 1 + 1][2]
      BY <1>4
  <2>3. top[j + 1 + 1][2] \in Nat /\ top[1][2] \in Nat
      BY <1>3
  <2> QED BY <2>1, <2>2, <2>3
<1>7. Nat \subseteq T
  <2> HIDE DEF T
  <2> QED BY <1>5, <1>6, Induction
<1>8. len - 1 \in T /\ (len - 1) + 1 = len
    BY <1>3, <1>7
<1>9. After("depth", top, len) >= top[1][2]
    BY <1>8
<1> QED BY <1>1, <1>2, <1>3, <1>9, DepthIsLoop

LEMMA MicroArithmetic ==
    ASSUME NEW bp \in Nat, NEW ap \in Nat, bp < ap, NEW bq \in Nat, NEW aq \in Nat
    PROVE  /\ bp * (bq + aq) <= bp * aq + ap * bq
           /\ bp * aq + ap * bq <= ap * (bq + aq)
           /\ 2 * (bp * aq + ap * bq) > (bp + ap) * (bq + aq) <=> bq > aq
<1>1. PICK d \in Nat : ap = bp + d /\ d > 0
  <2>1. ap - bp \in Nat /\ ap = bp + (ap - bp) /\ ap - bp > 0
      OBVIOUS
  <2> QED BY <2>1
<1>2. PICK x \in Nat, y \in Nat, z \in Nat, w \in Nat :
          x = bp * bq /\ y = bp * aq /\ z = d * bq /\ w = d * aq
    OBVIOUS
<1>3. bp * (bq + aq) = x + y
    BY <1>2
<1>4. ap * bq = x + z
    BY <1>1, <1>2
<1>5. ap * (bq + aq) = x + y + z + w
    BY <1>1, <1>2
<1>6. (bp + ap) * (bq + aq) = 2 * x + 2 * y + z + w
    BY <1>1, <1>2
<1>7. z > w <=> bq > aq
  <2>1. CASE bq > aq
    <3>1. PICK e \in Nat : bq = aq + e /\ e > 0
      <4>1. bq - aq \in Nat /\ bq = aq + (bq - aq) /\ bq - aq > 0
          BY <2>1
      <4> QED BY <4>1
    <3>2. z = w + d * e
        BY <1>2, <3>1
    <3>3. d * e > 0
        BY <1>1, <3>1
    <3> QED BY <2>1, <3>2, <3>3
  <2>2. CASE bq <= aq
    <3>1. PICK e \in Nat : aq = bq + e
      <4>1. aq - bq \in Nat /\ aq = bq + (aq - bq)
          BY <2>2
      <4> QED BY <4>1
    <3>2. PICK v \in Nat : v = d * e
        OBVIOUS
    <3>3. w = z + v
        BY <1>2, <3>1, <3>2
    <3> QED BY <2>2, <3>3
  <2> QED BY <2>1, <2>2
<1> QED BY <1>2, <1>3, <1>4, <1>5, <1>6, <1>7

\* What MicroPriceLeans says of a pair of sides.
Leans(bids, asks, k) ==
    LET m == compute_metrics(bids, asks, k)
    IN  m.two_sided /\ m.spread > 0 =>
            /\ m.bid[1] * m.weight <= m.micro /\ m.micro <= m.ask[1] * m.weight
            /\ 2 * m.micro > m.mid * m.weight <=> m.imbalance > 0
            /\ m.bid_depth >= m.bid[2] /\ m.ask_depth >= m.ask[2]

LEMMA SidesLean ==
    ASSUME NEW bids, NEW asks, Side(bids), Side(asks), NEW k \in Nat, k > 0
    PROVE  Leans(bids, asks, k)
<1>1. PICK m : m = compute_metrics(bids, asks, k)
    OBVIOUS
<1>2. PICK bid : bid = Best("B", bids)
    OBVIOUS
<1>3. PICK ask : ask = Best("S", asks)
    OBVIOUS
<1>4. CASE bid = NoLevel \/ ask = NoLevel
  <2>1. m = NoMetrics
      BY <1>1, <1>2, <1>3, <1>4 DEF compute_metrics
  <2>2. ~m.two_sided
      BY <2>1 DEF NoMetrics
  <2> QED BY <1>1, <2>2 DEF Leans
<1>5. CASE ~(bid = NoLevel \/ ask = NoLevel)
  <2>1. PICK bp \in Nat, bq \in Nat : bp = bid[1] /\ bq = bid[2]
      BY <1>2, <1>5, BestOf
  <2>2. PICK ap \in Nat, aq \in Nat : ap = ask[1] /\ aq = ask[2]
      BY <1>3, <1>5, BestOf
  <2>3. /\ m.bid = bid /\ m.ask = ask /\ m.mid = bp + ap /\ m.spread = ap - bp
        /\ m.micro = IF bq + aq > 0 THEN bp * aq + ap * bq ELSE bp + ap
        /\ m.weight = IF bq + aq > 0 THEN bq + aq ELSE 2
        /\ m.imbalance = IF bq + aq > 0 THEN bq - aq ELSE 0
        /\ m.bid_depth = DepthOf("B", bids, k) /\ m.ask_depth = DepthOf("S", asks, k)
      BY <1>1, <1>2, <1>3, <1>5, <2>1, <2>2 DEF compute_metrics, micro
  <2>4. m.bid_depth >= m.bid[2] /\ m.ask_depth >= m.ask[2]
      BY <1>2, <1>3, <1>5, <2>3, DepthCoversBest
  <2>5. ASSUME m.spread > 0
        PROVE  /\ m.bid[1] * m.weight <= m.micro /\ m.micro <= m.ask[1] * m.weight
               /\ 2 * m.micro > m.mid * m.weight <=> m.imbalance > 0
    <3>1. bp < ap
        BY <2>3, <2>5
    <3>2. CASE bq + aq > 0
      <4>1. PICK u : u = bp * aq + ap * bq
          OBVIOUS
      <4>2. /\ m.micro = u /\ m.weight = bq + aq /\ m.imbalance = bq - aq
            /\ m.bid[1] = bp /\ m.ask[1] = ap /\ m.mid = bp + ap
          BY <2>1, <2>2, <2>3, <3>2, <4>1
      <4>3. /\ bp * (bq + aq) <= u /\ u <= ap * (bq + aq)
            /\ 2 * u > (bp + ap) * (bq + aq) <=> bq > aq
          BY <3>1, <4>1, MicroArithmetic
      <4>4. bq > aq <=> bq - aq > 0
          OBVIOUS
      <4> QED BY <4>2, <4>3, <4>4
    <3>3. CASE ~(bq + aq > 0)
      <4>1. /\ m.micro = bp + ap /\ m.weight = 2 /\ m.imbalance = 0
            /\ m.bid[1] = bp /\ m.ask[1] = ap /\ m.mid = bp + ap
          BY <2>1, <2>2, <2>3, <3>3
      <4> QED BY <3>1, <4>1
    <3> QED BY <3>2, <3>3
  <2> QED BY <1>1, <2>4, <2>5 DEF Leans
<1> QED BY <1>4, <1>5

\* The micro-price of the reported book lies inside its spread and leans away from the
\* heavier side, for every capture, every --symbol and every size of the levels, those
\* that wrapped to 0 included.
THEOREM MicroPriceInside == Spec => []MicroPriceLeans
<1>1. ASSUME FeedInv, WalkInv, FocusSound, phase = "done", focus # NoFocus
      PROVE  Leans(BookOf(focus).bids, BookOf(focus).asks, 5)
  <2>1. focus \in DOMAIN book.books /\ book = Replayed(Messages)
      BY <1>1 DEF FocusSound, WalkInv
  <2>2. Len(Messages) \in Nat /\ \A i \in 1 .. Len(Messages) : Proper(Messages[i])
      BY <1>1, MessagesProper
  <2>3. PICK b : b = BookOf(focus)
      OBVIOUS
  <2>4. P!Sound(b)
      BY <2>1, <2>2, <2>3, BookOfSymbol, SymbolBookSound
  <2>5. P!LevelsOK(b.bids) /\ P!LevelsOK(b.asks)
      BY <2>4 DEF P!Sound
  <2>6. \A levels : P!LevelsOK(levels) => Side(levels)
    <3>1. \A S : P!IsFiniteSet(S) => IsFiniteSet(S)
        BY DEF P!IsFiniteSet, IsFiniteSet
    <3> QED BY <3>1, QtyModAssumption DEF P!LevelsOK, Side
  <2> QED BY <2>3, <2>5, <2>6, SidesLean
<1>2. FeedInv /\ WalkInv /\ FocusSound => MicroPriceLeans
    BY <1>1 DEF MicroPriceLeans, Leans
<1> QED BY <1>2, WalkAlways, ReportsOnABook, PTL

-----------------------------------------------------------------------------
(* The book a generator describes, and its list of live orders.              *)

LEMMA SymbolSame ==
    ASSUME NEW a, NEW b, NEW l, NEW k \in Nat, \A i \in 1 .. k : a[i] = b[i]
    PROVE  SymbolBook(a, l, k) = SymbolBook(b, l, k)
<1> DEFINE T == {j \in Nat : j <= k => SymbolBook(a, l, j) = SymbolBook(b, l, j)}
<1>1. 0 \in T
    BY SymbolStep
<1>2. ASSUME NEW j \in Nat, j \in T PROVE j + 1 \in T
  <2> SUFFICES ASSUME j + 1 <= k PROVE SymbolBook(a, l, j + 1) = SymbolBook(b, l, j + 1)
      OBVIOUS
  <2>1. a[j + 1] = b[j + 1]
      OBVIOUS
  <2>2. SymbolBook(a, l, j) = SymbolBook(b, l, j)
      BY <1>2
  <2> QED BY <2>1, <2>2, SymbolStep
<1>3. Nat \subseteq T
  <2> HIDE DEF T
  <2> QED BY <1>1, <1>2, Induction
<1>4. k \in T
    BY <1>3
<1> QED BY <1>4

\* The messages of records that all decode, and the book they make for a locate.
Written(c) == [i \in 1 .. Len(c) |-> decode(c[i])]
GenBook(c, l) == SymbolBook(Written(c), l, Len(c))

LEMMA GenBookEmpty == \A l : GenBook(<<>>, l) = P!NewBook
BY SymbolStep, SameOps DEF GenBook

LEMMA GenBookStep ==
    ASSUME NEW c, IsList(c), NEW r, NEW l
    PROVE  GenBook(Append(c, r), l) =
               IF ForBook(decode(r), l) THEN P!apply(GenBook(c, l), OpOf(decode(r)))
               ELSE GenBook(c, l)
<1>1. PICK k \in Nat : k = Len(c)
    BY AppendList
<1>2. PICK d : d = Append(c, r)
    OBVIOUS
<1>3. Len(d) = k + 1 /\ d[k + 1] = r /\ \A i \in 1 .. k : d[i] = c[i]
    BY <1>1, <1>2, AppendList
<1>4. PICK w : w = Written(d)
    OBVIOUS
<1>5. w[k + 1] = decode(r) /\ \A i \in 1 .. k : w[i] = Written(c)[i]
    BY <1>1, <1>3, <1>4 DEF Written
<1>6. SymbolBook(w, l, k) = GenBook(c, l)
    BY <1>1, <1>5, SymbolSame DEF GenBook
<1>7. GenBook(d, l) = SymbolBook(w, l, k + 1)
    BY <1>3, <1>4 DEF GenBook
<1>8. SymbolBook(w, l, k + 1) =
          IF ForBook(w[k + 1], l) THEN Ops(0)!apply(SymbolBook(w, l, k), OpOf(w[k + 1]))
          ELSE SymbolBook(w, l, k)
    BY SymbolStep
<1> QED BY <1>2, <1>5, <1>6, <1>7, <1>8, SameOps

\* What the stream must not do for its books to be right: bring so many shares that
\* the total of a level could pass 32 bits.  With the lots of the code, up to 999
\* shares, this is a stream of up to four million messages.
Caps(q) == q \in Nat /\ (\A s \in Lots : s <= q) /\ \A g \in Gens : N[g] * q < QtyMod
TotalsFit == \E q : Caps(q)
LotCap == CHOOSE q : Caps(q)

\* Every resting order is one of the live ones, on its side and, in the ladder, at
\* its price; a live order has a reference number of its own, which was given out.
Tracks(O, orders, prices, priced) ==
    \A r \in DOMAIN O : \E i \in 1 .. Len(orders) :
        /\ orders[i].ref = r /\ orders[i].side = O[r].side
        /\ priced => prices[i] = O[r].price

Fresh(orders, next) ==
    /\ \A i \in 1 .. Len(orders) : orders[i].ref < next
    /\ \A i, j \in 1 .. Len(orders) : orders[i].ref = orders[j].ref => i = j

Bounded(O, k) == \A s, p : P!LevelSum(O, s, p) <= k * LotCap

Follows(b, orders, prices, priced, next, k) ==
    /\ P!Good(b) /\ Tracks(P!Orders(b), orders, prices, priced)
    /\ Fresh(orders, next) /\ Bounded(P!Orders(b), k)

LEMMA LotsBounded ==
    ASSUME TotalsFit
    PROVE  /\ LotCap \in Nat /\ \A s \in Lots : s \in Nat /\ s <= LotCap
           /\ \A g \in Gens : N[g] * LotCap < QtyMod
<1>1. Caps(LotCap)
    BY DEF TotalsFit, LotCap
<1> QED BY <1>1, FeedAssumption DEF Caps

LEMMA NextIsNew ==
    ASSUME NEW O, NEW orders, NEW prices, NEW priced, NEW next \in Nat,
           Tracks(O, orders, prices, priced), Fresh(orders, next)
    PROVE  next \notin DOMAIN O
BY DEF Tracks, Fresh

\* The total of a level never passes its 32 bits.
LEMMA LevelFits ==
    ASSUME TotalsFit, NEW g \in Gens, NEW k \in Nat, k < N[g], NEW b, P!Good(b),
           Bounded(P!Orders(b), k), NEW q \in Lots, NEW side \in Sides, NEW p
    PROVE  P!At(P!LevelsAt(b, side), p) + q < QtyMod
<1>1. PICK t : t = P!LevelSum(P!Orders(b), side, p)
    OBVIOUS
<1>2. t \in Nat
    BY <1>1, P!LevelSumType, BookAssumptions DEF P!Good
<1>3. P!At(P!LevelsAt(b, side), p) = t
    BY <1>1 DEF P!Good, P!Quotes, P!LevelsAt, Sides
<1>4. PICK cap \in Nat : cap = LotCap
    BY LotsBounded
<1>5. q \in Nat /\ q <= cap
    BY <1>4, LotsBounded
<1>6. t <= k * cap
    BY <1>1, <1>4 DEF Bounded
<1>7. N[g] \in Nat /\ N[g] * cap < QtyMod
    BY <1>4, LotsBounded, FeedAssumption
<1>8. PICK n0 \in Nat : n0 = N[g] /\ k + 1 <= n0
    BY <1>7
<1>9. k * cap + cap <= n0 * cap
  <2>1. PICK e \in Nat : n0 = (k + 1) + e
    <3>1. n0 - (k + 1) \in Nat /\ n0 = (k + 1) + (n0 - (k + 1))
        BY <1>8
    <3> QED BY <3>1
  <2>2. ((k + 1) + e) * cap = k * cap + cap + e * cap
      OBVIOUS
  <2>3. e * cap \in Nat /\ k * cap \in Nat
      OBVIOUS
  <2> QED BY <2>1, <2>2, <2>3
<1>10. k * cap \in Nat /\ n0 * cap \in Nat /\ n0 * cap < QtyMod
    BY <1>7, <1>8
<1> QED BY <1>2, <1>3, <1>5, <1>6, <1>9, <1>10, BookAssumptions

LEMMA BoundedAfter ==
    ASSUME TotalsFit, NEW k \in Nat, NEW b, P!Good(b), Bounded(P!Orders(b), k),
           NEW m \in P!Message, P!ConformsTo(b, m), P!Brings(m) \in Lots \cup {0}
    PROVE  Bounded(P!Orders(P!apply(b, m)), k + 1)
<1>1. PICK c : c = P!apply(b, m)
    OBVIOUS
<1>2. P!Good(c)
    BY <1>1, P!ApplyGood, BookAssumptions
<1>3. P!Grows(b, c, m)
    BY <1>1, P!ApplyGrows, BookAssumptions
<1>4. PICK cap \in Nat : cap = LotCap
    BY LotsBounded
<1>5. PICK q \in Nat : q = P!Brings(m) /\ q <= cap
    BY <1>4, LotsBounded
<1> SUFFICES ASSUME NEW s, NEW p PROVE P!LevelSum(P!Orders(c), s, p) <= (k + 1) * cap
    BY <1>1, <1>4 DEF Bounded
<1>6. PICK t \in Nat : t = P!LevelSum(P!Orders(b), s, p)
    BY P!LevelSumType, BookAssumptions DEF P!Good
<1>7. PICK u \in Nat : u = P!LevelSum(P!Orders(c), s, p)
    BY <1>2, P!LevelSumType, BookAssumptions DEF P!Good
<1>8. u <= t + q
    BY <1>3, <1>5, <1>6, <1>7 DEF P!Grows
<1>9. t <= k * cap
    BY <1>4, <1>6 DEF Bounded
<1>10. k * cap \in Nat /\ (k + 1) * cap = k * cap + cap
    OBVIOUS
<1> QED BY <1>5, <1>7, <1>8, <1>9, <1>10

\* Nothing happens to this book, while messages and references are used elsewhere.
LEMMA FollowsLater ==
    ASSUME TotalsFit, NEW b, NEW orders \in Seq(Live), NEW prices, NEW priced,
           NEW next \in Nat, NEW k \in Nat, Follows(b, orders, prices, priced, next, k),
           NEW later \in Nat, next <= later
    PROVE  Follows(b, orders, prices, priced, later, k + 1)
<1>1. Fresh(orders, later)
  <2>1. ASSUME NEW i \in 1 .. Len(orders) PROVE orders[i].ref \in Nat
    <3>1. orders[i] \in Live
        OBVIOUS
    <3> QED BY <3>1 DEF Live
  <2> QED BY <2>1 DEF Follows, Fresh
<1>2. Bounded(P!Orders(b), k + 1)
  <2>1. PICK cap \in Nat : cap = LotCap
      BY LotsBounded
  <2> SUFFICES ASSUME NEW s, NEW p PROVE P!LevelSum(P!Orders(b), s, p) <= (k + 1) * cap
      BY <2>1 DEF Bounded
  <2>2. PICK t \in Nat : t = P!LevelSum(P!Orders(b), s, p)
      BY P!LevelSumType, BookAssumptions DEF Follows, P!Good
  <2>3. t <= k * cap
      BY <2>1, <2>2 DEF Follows, Bounded
  <2>4. k * cap \in Nat /\ (k + 1) * cap = k * cap + cap
      OBVIOUS
  <2> QED BY <2>2, <2>3, <2>4
<1> QED BY <1>1, <1>2 DEF Follows

\* The orders U are some of O, perhaps with fewer shares.
SomeOf(U, O, D) ==
    DOMAIN U \subseteq D /\ \A r \in DOMAIN U \cap DOMAIN O :
                                U[r].side = O[r].side /\ U[r].price = O[r].price

LEMMA TracksAdd ==
    ASSUME NEW O, NEW orders \in Seq(Live), NEW prices, NEW priced, NEW next \in Nat,
           Tracks(O, orders, prices, priced), Fresh(orders, next),
           NEW side \in Sides, NEW price \in Int,
           priced => prices \in Seq(Int) /\ Len(prices) = Len(orders),
           NEW U, SomeOf(U, O, DOMAIN O \cup {next}),
           next \in DOMAIN U => U[next].side = side /\ U[next].price = price,
           NEW more, priced => more = Append(prices, price)
    PROVE  LET os == Append(orders, [ref |-> next, side |-> side])
           IN  Tracks(U, os, more, priced) /\ Fresh(os, next + 1)
<1>1. PICK x \in Live : x = [ref |-> next, side |-> side]
  <2>1. [ref |-> next, side |-> side] \in Live
      BY DEF Live
  <2> QED BY <2>1
<1>2. PICK os : os = Append(orders, x)
    OBVIOUS
<1>3. PICK k \in Nat : k = Len(orders)
    OBVIOUS
<1>4. Len(os) = k + 1 /\ os[k + 1] = x /\ \A i \in 1 .. k : os[i] = orders[i]
    BY <1>2, <1>3
<1>5. priced => more[k + 1] = price /\ \A i \in 1 .. k : more[i] = prices[i]
    BY <1>3, SMTT(30)
<1>6. Tracks(U, os, more, priced)
  <2> SUFFICES ASSUME NEW r \in DOMAIN U
               PROVE  \E i \in 1 .. Len(os) : /\ os[i].ref = r /\ os[i].side = U[r].side
                                              /\ priced => more[i] = U[r].price
      BY DEF Tracks
  <2>1. CASE r = next
    <3>1. x.ref = r /\ x.side = U[r].side /\ U[r].price = price /\ k + 1 \in 1 .. Len(os)
        BY <1>1, <1>4, <2>1
    <3> QED BY <1>4, <1>5, <3>1
  <2>2. CASE r # next
    <3>1. r \in DOMAIN O /\ U[r].side = O[r].side /\ U[r].price = O[r].price
        BY <2>2 DEF SomeOf
    <3>2. PICK i \in 1 .. k : /\ orders[i].ref = r /\ orders[i].side = O[r].side
                              /\ priced => prices[i] = O[r].price
        BY <1>3, <3>1 DEF Tracks
    <3>3. i \in 1 .. Len(os)
        BY <1>4
    <3> QED BY <1>4, <1>5, <3>1, <3>2, <3>3
  <2> QED BY <2>1, <2>2
<1>7. Fresh(os, next + 1)
  <2>1. \A i \in 1 .. k : orders[i].ref \in Nat /\ orders[i].ref < next
    <3> SUFFICES ASSUME NEW i \in 1 .. k PROVE orders[i].ref \in Nat /\ orders[i].ref < next
        OBVIOUS
    <3>1. orders[i] \in Live
        BY <1>3
    <3> QED BY <1>3, <3>1 DEF Live, Fresh
  <2>2. x.ref = next
      BY <1>1
  <2>3. \A i \in 1 .. k + 1 : i \in 1 .. k \/ i = k + 1
      OBVIOUS
  <2>4. \A i \in 1 .. k + 1 : os[i].ref < next + 1
      BY <1>4, <2>1, <2>2, <2>3
  <2>5. ASSUME NEW i \in 1 .. k + 1, NEW j \in 1 .. k + 1, os[i].ref = os[j].ref
        PROVE  i = j
    <3>1. CASE i \in 1 .. k /\ j \in 1 .. k
        BY <1>3, <1>4, <2>5, <3>1 DEF Fresh
    <3>2. CASE i = k + 1 /\ j \in 1 .. k
        BY <1>4, <2>1, <2>2, <2>5, <3>2
    <3>3. CASE i \in 1 .. k /\ j = k + 1
        BY <1>4, <2>1, <2>2, <2>5, <3>3
    <3> QED BY <2>3, <3>1, <3>2, <3>3
  <2> QED BY <1>4, <2>4, <2>5 DEF Fresh
<1> QED BY <1>1, <1>2, <1>6, <1>7

LEMMA TracksFewer ==
    ASSUME NEW O, NEW orders, NEW prices, NEW priced, Tracks(O, orders, prices, priced),
           NEW U, SomeOf(U, O, DOMAIN O)
    PROVE  Tracks(U, orders, prices, priced)
BY DEF Tracks, SomeOf

\* A deleted order goes from both; the last one takes its place in the list.
LEMMA TracksDelete ==
    ASSUME NEW O, NEW orders \in Seq(Live), NEW prices, NEW priced, NEW next,
           Tracks(O, orders, prices, priced), Fresh(orders, next),
           priced => prices \in Seq(Int) /\ Len(prices) = Len(orders),
           NEW i \in 1 .. Len(orders),
           NEW U, SomeOf(U, O, DOMAIN O \ {orders[i].ref}),
           NEW fewer, priced => fewer = SwapPop(prices, i)
    PROVE  /\ Tracks(U, SwapPop(orders, i), fewer, priced)
           /\ Fresh(SwapPop(orders, i), next)
<1>1. PICK k \in Nat : k = Len(orders) /\ k > 0
    OBVIOUS
<1> DEFINE at(j) == IF j = i THEN k ELSE j
<1>2. PICK os : os = SwapPop(orders, i)
    OBVIOUS
<1>3. Len(os) = k - 1 /\ \A j \in 1 .. k - 1 : os[j] = orders[at(j)] /\ at(j) \in 1 .. k
  <2>1. /\ Len(os) = Len(orders) - 1
        /\ \A j \in 1 .. Len(orders) - 1 : os[j] = orders[IF j = i THEN Len(orders) ELSE j]
      BY <1>2, SwapPopProperties
  <2>2. \A j \in 1 .. k - 1 : at(j) \in 1 .. k
      BY <1>1
  <2> QED BY <1>1, <2>1, <2>2
<1>4. ASSUME priced PROVE \A j \in 1 .. k - 1 : fewer[j] = prices[at(j)]
  <2>1. prices \in Seq(Int) /\ Len(prices) = k /\ i \in 1 .. Len(prices)
        /\ fewer = SwapPop(prices, i)
      BY <1>1, <1>4
  <2>2. \A j \in 1 .. Len(prices) - 1 : fewer[j] = prices[IF j = i THEN Len(prices) ELSE j]
      BY <2>1, SwapPopProperties
  <2> QED BY <2>1, <2>2
<1>5. \A j, h \in 1 .. k - 1 : at(j) = at(h) => j = h
    BY <1>1
<1>6. \A h \in 1 .. k : h # i => \E j \in 1 .. k - 1 : at(j) = h
  <2> SUFFICES ASSUME NEW h \in 1 .. k, h # i PROVE \E j \in 1 .. k - 1 : at(j) = h
      OBVIOUS
  <2>1. CASE h = k
    <3>1. i \in 1 .. k - 1 /\ at(i) = h
        BY <1>1, <2>1
    <3> QED BY <3>1
  <2>2. CASE h # k
    <3>1. h \in 1 .. k - 1 /\ at(h) = h
        BY <1>1, <2>2
    <3> QED BY <3>1
  <2> QED BY <2>1, <2>2
<1> HIDE DEF at
<1>7. Tracks(U, os, fewer, priced)
  <2> SUFFICES ASSUME NEW r \in DOMAIN U
               PROVE  \E j \in 1 .. Len(os) : /\ os[j].ref = r /\ os[j].side = U[r].side
                                              /\ priced => fewer[j] = U[r].price
      BY DEF Tracks
  <2>1. /\ r \in DOMAIN O /\ r # orders[i].ref
        /\ U[r].side = O[r].side /\ U[r].price = O[r].price
      BY DEF SomeOf
  <2>2. PICK h \in 1 .. k : /\ orders[h].ref = r /\ orders[h].side = O[r].side
                            /\ priced => prices[h] = O[r].price
      BY <1>1, <2>1 DEF Tracks
  <2>3. PICK j \in 1 .. k - 1 : at(j) = h
      BY <1>6, <2>1, <2>2
  <2> QED BY <1>3, <1>4, <2>1, <2>2, <2>3
<1>8. Fresh(os, next)
  <2>1. \A j \in 1 .. k - 1 : os[j].ref < next
      BY <1>1, <1>3 DEF Fresh
  <2>2. ASSUME NEW j \in 1 .. k - 1, NEW h \in 1 .. k - 1, os[j].ref = os[h].ref PROVE j = h
    <3>1. at(j) = at(h)
        BY <1>1, <1>3, <2>2 DEF Fresh
    <3> QED BY <1>5, <3>1
  <2> QED BY <1>3, <2>1, <2>2 DEF Fresh
<1> QED BY <1>2, <1>7, <1>8

\* A replaced order keeps its place, and its side.
LEMMA TracksReplace ==
    ASSUME NEW O, NEW orders \in Seq(Live), NEW prices, NEW next \in Nat,
           Tracks(O, orders, prices, FALSE), Fresh(orders, next),
           NEW i \in 1 .. Len(orders),
           NEW U, SomeOf(U, O, (DOMAIN O \ {orders[i].ref}) \cup {next}),
           next \in DOMAIN U => U[next].side = orders[i].side,
           NEW os, os = [orders EXCEPT ![i] = [orders[i] EXCEPT !.ref = next]]
    PROVE  Tracks(U, os, prices, FALSE) /\ Fresh(os, next + 1)
<1>1. PICK k \in Nat : k = Len(orders)
    OBVIOUS
<1>2. \A j \in 1 .. k : orders[j] \in Live /\ orders[j].ref \in Nat /\ orders[j].ref < next
  <2> SUFFICES ASSUME NEW j \in 1 .. k
               PROVE  orders[j] \in Live /\ orders[j].ref \in Nat /\ orders[j].ref < next
      OBVIOUS
  <2>1. orders[j] \in Live
      BY <1>1
  <2> QED BY <1>1, <2>1 DEF Live, Fresh
<1>3. PICK x : x = [orders[i] EXCEPT !.ref = next]
    OBVIOUS
<1>4. x.ref = next /\ x.side = orders[i].side
    BY <1>1, <1>2, <1>3 DEF Live
<1>5. Len(os) = k /\ os[i] = x /\ \A j \in 1 .. k : j # i => os[j] = orders[j]
    BY <1>1, <1>3
<1>6. Tracks(U, os, prices, FALSE)
  <2> SUFFICES ASSUME NEW r \in DOMAIN U
               PROVE  \E j \in 1 .. k : os[j].ref = r /\ os[j].side = U[r].side
      BY <1>5 DEF Tracks
  <2>1. CASE r = next
      BY <1>1, <1>4, <1>5, <2>1
  <2>2. CASE r # next
    <3>1. r \in DOMAIN O /\ r # orders[i].ref /\ U[r].side = O[r].side
        BY <2>2 DEF SomeOf
    <3>2. PICK j \in 1 .. k : orders[j].ref = r /\ orders[j].side = O[r].side
        BY <1>1, <3>1 DEF Tracks
    <3> QED BY <1>5, <3>1, <3>2
  <2> QED BY <2>1, <2>2
<1>7. Fresh(os, next + 1)
  <2>1. \A j \in 1 .. k : os[j].ref < next + 1
      BY <1>2, <1>4, <1>5
  <2>2. ASSUME NEW j \in 1 .. k, NEW h \in 1 .. k, os[j].ref = os[h].ref PROVE j = h
    <3>1. CASE j = i /\ h # i
        BY <1>2, <1>4, <1>5, <2>2, <3>1
    <3>2. CASE j # i /\ h = i
        BY <1>2, <1>4, <1>5, <2>2, <3>2
    <3>3. CASE j # i /\ h # i
        BY <1>1, <1>5, <2>2, <3>3 DEF Fresh
    <3> QED BY <3>1, <3>2, <3>3
  <2> QED BY <1>5, <2>1, <2>2 DEF Fresh
<1> QED BY <1>6, <1>7

LEMMA OrdersOf ==
    ASSUME NEW b
    PROVE  /\ DOMAIN P!Orders(b) = DOMAIN b.index
           /\ \A r \in DOMAIN b.index : P!Orders(b)[r] = P!OrderOf(b, r)
           /\ \A r : P!Knows(b, r) <=> r \in DOMAIN P!Orders(b)
BY DEF P!Orders, P!Knows

LEMMA FollowsAdd ==
    ASSUME TotalsFit, NEW g \in Gens, NEW k \in Nat, k < N[g],
           NEW b, NEW orders \in Seq(Live), NEW prices, NEW priced, NEW next \in Nat,
           Follows(b, orders, prices, priced, next, k),
           priced => prices \in Seq(Int) /\ Len(prices) = Len(orders),
           NEW side \in Sides, NEW shares \in Lots, NEW price \in Nat,
           NEW more, priced => more = Append(prices, price),
           NEW m, m = [type |-> "add", ref |-> next, side |-> side,
                       price |-> price, shares |-> shares]
    PROVE  Follows(P!apply(b, m), Append(orders, [ref |-> next, side |-> side]), more,
                   priced, next + 1, k + 1)
<1>1. PICK c : c = P!apply(b, m)
    OBVIOUS
<1>2. P!Good(b) /\ next \notin DOMAIN P!Orders(b)
    BY NextIsNew DEF Follows
<1>3. shares \in 0 .. QtyMod - 1 /\ P!Shares = 0 .. QtyMod - 1 /\ side \in P!Side
    BY FileAssumption DEF P!Shares, P!Side, Sides
<1>4. m \in P!Message
    BY <1>3 DEF P!Message, P!AnySide
<1>5. P!At(P!LevelsAt(b, side), price) + shares < QtyMod
    BY LevelFits DEF Follows
<1>6. P!ConformsTo(b, m)
    BY <1>2, <1>3, <1>5, OrdersOf DEF P!ConformsTo
<1>7. P!Good(c)
    BY <1>1, <1>2, <1>4, <1>6, P!ApplyGood, BookAssumptions
<1>8. Bounded(P!Orders(c), k + 1)
  <2>1. P!Brings(m) = shares
      BY DEF P!Brings
  <2> QED BY <1>1, <1>2, <1>4, <1>6, <2>1, BoundedAfter DEF Follows
<1>9. c = P!add(b, next, side, price, shares)
    BY <1>1 DEF P!apply
<1>10. PICK U : U = P!Orders(c)
    OBVIOUS
<1>11. PICK O : O = P!Orders(b)
    OBVIOUS
<1>12. /\ SomeOf(U, O, DOMAIN O \cup {next})
       /\ next \in DOMAIN U => U[next].side = side /\ U[next].price = price
  <2>1. CASE shares = 0
    <3>1. U = O
        BY <1>9, <1>10, <1>11, <2>1 DEF P!add
    <3> QED BY <1>2, <1>11, <3>1 DEF SomeOf
  <2>2. CASE shares # 0
    <3>1. PICK o : o = [side |-> side, price |-> price, shares |-> shares]
        OBVIOUS
    <3>2. U = P!WithOrder(O, next, o)
      <4>1. shares \in P!Shares \ {0} /\ ~P!Knows(b, next)
          BY <1>2, <1>3, <2>2, OrdersOf
      <4> QED BY <1>2, <1>3, <1>5, <1>9, <1>10, <1>11, <3>1, <4>1, P!AddGood, BookAssumptions
    <3>3. o.side = side /\ o.price = price
        BY <3>1
    <3>4. next \notin DOMAIN O
        BY <1>2, <1>11
    <3> QED BY <3>2, <3>3, <3>4 DEF SomeOf, P!WithOrder
  <2> QED BY <2>1, <2>2
<1>13. PICK os : os = Append(orders, [ref |-> next, side |-> side])
    OBVIOUS
<1>14. Tracks(U, os, more, priced) /\ Fresh(os, next + 1)
  <2>1. price \in Int /\ Tracks(O, orders, prices, priced) /\ Fresh(orders, next)
      BY <1>11 DEF Follows
  <2> QED BY <1>12, <1>13, <2>1, TracksAdd
<1> QED BY <1>1, <1>7, <1>8, <1>10, <1>13, <1>14 DEF Follows

\* An execution or a cancel leaves the list alone.
LEMMA FollowsReduce ==
    ASSUME TotalsFit, NEW k \in Nat,
           NEW b, NEW orders \in Seq(Live), NEW prices, NEW priced, NEW next \in Nat,
           Follows(b, orders, prices, priced, next, k),
           NEW ref \in Nat, NEW shares \in 0 .. QtyMod - 1,
           NEW m, m = [type |-> "reduce", ref |-> ref, shares |-> shares]
    PROVE  Follows(P!apply(b, m), orders, prices, priced, next, k + 1)
<1>1. PICK c : c = P!apply(b, m)
    OBVIOUS
<1>2. P!Good(b)
    BY DEF Follows
<1>3. shares \in P!Shares
    BY DEF P!Shares
<1>4. m \in P!Message
    BY <1>3 DEF P!Message
<1>5. P!ConformsTo(b, m)
    BY DEF P!ConformsTo
<1>6. P!Good(c)
    BY <1>1, <1>2, <1>4, <1>5, P!ApplyGood, BookAssumptions
<1>7. Bounded(P!Orders(c), k + 1)
  <2>1. P!Brings(m) = 0
      BY DEF P!Brings
  <2> QED BY <1>1, <1>2, <1>4, <1>5, <2>1, BoundedAfter DEF Follows
<1>8. c = P!reduce(b, ref, shares)
    BY <1>1 DEF P!apply
<1>9. PICK U : U = P!Orders(c)
    OBVIOUS
<1>10. PICK O : O = P!Orders(b)
    OBVIOUS
<1>11. SomeOf(U, O, DOMAIN O)
  <2>1. CASE ~P!Knows(b, ref)
    <3>1. U = O
        BY <1>8, <1>9, <1>10, <2>1 DEF P!reduce
    <3> QED BY <3>1 DEF SomeOf
  <2>2. CASE P!Knows(b, ref) /\ ~(shares < P!OrderOf(b, ref).shares)
    <3>1. U = P!WithoutOrder(O, ref)
        BY <1>2, <1>3, <1>8, <1>9, <1>10, <2>2, P!ReduceAll, BookAssumptions
    <3> QED BY <3>1 DEF SomeOf, P!WithoutOrder
  <2>3. CASE P!Knows(b, ref) /\ shares < P!OrderOf(b, ref).shares
    <3>1. PICK u : /\ u.side = P!OrderOf(b, ref).side /\ u.price = P!OrderOf(b, ref).price
                   /\ P!Orders(P!reduce(b, ref, shares)) =
                          P!WithOrder(P!WithoutOrder(P!Orders(b), ref), ref, u)
        BY <1>2, <1>3, <2>3, P!ReducePart, BookAssumptions
    <3>2. U = P!WithOrder(P!WithoutOrder(O, ref), ref, u)
        BY <1>8, <1>9, <1>10, <3>1
    <3>3. ref \in DOMAIN O /\ u.side = O[ref].side /\ u.price = O[ref].price
        BY <1>10, <2>3, <3>1, OrdersOf DEF P!Knows
    <3> QED BY <3>2, <3>3 DEF SomeOf, P!WithOrder, P!WithoutOrder
  <2> QED BY <2>1, <2>2, <2>3
<1>12. Tracks(U, orders, prices, priced)
    BY <1>10, <1>11, TracksFewer DEF Follows
<1> QED BY <1>1, <1>6, <1>7, <1>9, <1>12 DEF Follows

LEMMA FollowsRemove ==
    ASSUME TotalsFit, NEW k \in Nat,
           NEW b, NEW orders \in Seq(Live), NEW prices, NEW priced, NEW next \in Nat,
           Follows(b, orders, prices, priced, next, k),
           priced => prices \in Seq(Int) /\ Len(prices) = Len(orders),
           NEW i \in 1 .. Len(orders), NEW fewer, priced => fewer = SwapPop(prices, i),
           NEW ref \in Nat, ref = orders[i].ref,
           NEW m, m = [type |-> "remove", ref |-> ref]
    PROVE  Follows(P!apply(b, m), SwapPop(orders, i), fewer, priced, next, k + 1)
<1>1. PICK c : c = P!apply(b, m)
    OBVIOUS
<1>2. P!Good(b)
    BY DEF Follows
<1>4. m \in P!Message
    BY DEF P!Message
<1>5. P!ConformsTo(b, m)
    BY DEF P!ConformsTo
<1>6. P!Good(c)
    BY <1>1, <1>2, <1>4, <1>5, P!ApplyGood, BookAssumptions
<1>7. Bounded(P!Orders(c), k + 1)
  <2>1. P!Brings(m) = 0
      BY DEF P!Brings
  <2> QED BY <1>1, <1>2, <1>4, <1>5, <2>1, BoundedAfter DEF Follows
<1>8. c = P!remove(b, ref)
    BY <1>1 DEF P!apply
<1>9. PICK U : U = P!Orders(c)
    OBVIOUS
<1>10. PICK O : O = P!Orders(b)
    OBVIOUS
<1>11. SomeOf(U, O, DOMAIN O \ {ref})
  <2>1. CASE ~P!Knows(b, ref)
    <3>1. U = O /\ ref \notin DOMAIN O
        BY <1>8, <1>9, <1>10, <2>1, OrdersOf DEF P!remove
    <3> QED BY <3>1 DEF SomeOf
  <2>2. CASE P!Knows(b, ref)
    <3>1. U = P!WithoutOrder(O, ref)
        BY <1>2, <1>8, <1>9, <1>10, <2>2, P!RemoveGood, BookAssumptions
    <3> QED BY <3>1 DEF SomeOf, P!WithoutOrder
  <2> QED BY <2>1, <2>2
<1>12. Tracks(U, SwapPop(orders, i), fewer, priced) /\ Fresh(SwapPop(orders, i), next)
  <2>1. Tracks(O, orders, prices, priced) /\ Fresh(orders, next)
      BY <1>10 DEF Follows
  <2> QED BY <1>11, <2>1, TracksDelete
<1> QED BY <1>1, <1>6, <1>7, <1>9, <1>12 DEF Follows

LEMMA FollowsReplace ==
    ASSUME TotalsFit, NEW g \in Gens, NEW k \in Nat, k < N[g],
           NEW b, NEW orders \in Seq(Live), NEW prices, NEW next \in Nat,
           Follows(b, orders, prices, FALSE, next, k),
           NEW i \in 1 .. Len(orders), NEW shares \in Lots, NEW price \in Nat,
           NEW ref \in Nat, ref = orders[i].ref,
           NEW m, m = [type |-> "replace", ref |-> ref, new |-> next,
                       shares |-> shares, price |-> price],
           NEW os, os = [orders EXCEPT ![i] = [orders[i] EXCEPT !.ref = next]]
    PROVE  Follows(P!apply(b, m), os, prices, FALSE, next + 1, k + 1)
<1>1. PICK c : c = P!apply(b, m)
    OBVIOUS
<1>2. P!Good(b) /\ next \notin DOMAIN P!Orders(b)
    BY NextIsNew DEF Follows
<1>3. shares \in P!Shares
    BY FileAssumption DEF P!Shares
<1>4. m \in P!Message
    BY <1>3 DEF P!Message
<1>s. ASSUME P!Knows(b, ref) PROVE P!OrderOf(b, ref).side = orders[i].side
  <2>1. ref \in DOMAIN P!Orders(b) /\ P!Orders(b)[ref] = P!OrderOf(b, ref)
      BY <1>s, OrdersOf DEF P!Knows
  <2>2. PICK j \in 1 .. Len(orders) :
            orders[j].ref = ref /\ orders[j].side = P!Orders(b)[ref].side
      BY <2>1 DEF Follows, Tracks
  <2>3. j = i
      BY <2>2 DEF Follows, Fresh
  <2> QED BY <2>1, <2>2, <2>3
<1>t. orders[i].side \in Sides
  <2>1. orders[i] \in Live
      OBVIOUS
  <2> QED BY <2>1 DEF Live
<1>u. ~P!Knows(b, next)
    BY <1>2, OrdersOf
<1>5. P!Knows(b, ref) => P!At(P!LevelsAt(b, P!OrderOf(b, ref).side), price) + shares
                              < QtyMod + P!TakenOff(b, ref, price)
  <2>1. P!Knows(b, ref) => P!At(P!LevelsAt(b, P!OrderOf(b, ref).side), price) + shares < QtyMod
      BY <1>s, <1>t, LevelFits DEF Follows
  <2>2. shares \in Nat
      BY FileAssumption
  <2> QED BY <1>2, <2>1, <2>2, P!FitsReplaced, BookAssumptions
<1>6. P!ConformsTo(b, m)
    BY <1>5, <1>u DEF P!ConformsTo
<1>7. P!Good(c)
    BY <1>1, <1>2, <1>4, <1>6, P!ApplyGood, BookAssumptions
<1>8. Bounded(P!Orders(c), k + 1)
  <2>1. P!Brings(m) = shares
      BY DEF P!Brings
  <2> QED BY <1>1, <1>2, <1>4, <1>6, <2>1, BoundedAfter DEF Follows
<1>9. c = P!replace(b, ref, next, shares, price)
    BY <1>1 DEF P!apply
<1>10. PICK U : U = P!Orders(c)
    OBVIOUS
<1>11. PICK O : O = P!Orders(b)
    OBVIOUS
<1>12. /\ SomeOf(U, O, (DOMAIN O \ {ref}) \cup {next})
       /\ next \in DOMAIN U => U[next].side = orders[i].side
  <2>1. CASE ~P!Knows(b, ref)
    <3>1. U = O /\ ref \notin DOMAIN O
        BY <1>9, <1>10, <1>11, <2>1, OrdersOf DEF P!replace
    <3> QED BY <1>2, <1>11, <3>1 DEF SomeOf
  <2>2. CASE P!Knows(b, ref) /\ shares = 0
    <3>1. c = P!remove(b, ref)
        BY <1>9, <2>2 DEF P!replace, P!add
    <3>2. U = P!WithoutOrder(O, ref)
        BY <1>2, <1>10, <1>11, <2>2, <3>1, P!RemoveGood, BookAssumptions
    <3> QED BY <1>2, <1>11, <3>2 DEF SomeOf, P!WithoutOrder
  <2>3. CASE P!Knows(b, ref) /\ shares # 0
    <3>1. PICK o : o = [side |-> P!OrderOf(b, ref).side, price |-> price, shares |-> shares]
        OBVIOUS
    <3>2. U = P!WithOrder(P!WithoutOrder(O, ref), next, o)
      <4>1. shares \in P!Shares \ {0}
          BY <1>3, <2>3
      <4> QED BY <1>2, <1>5, <1>9, <1>10, <1>11, <1>u, <2>3, <3>1, <4>1, P!ReplaceGood,
                 BookAssumptions
    <3>3. o.side = orders[i].side
        BY <1>s, <2>3, <3>1
    <3>4. next \notin DOMAIN O
        BY <1>2, <1>11
    <3> QED BY <3>2, <3>3, <3>4 DEF SomeOf, P!WithOrder, P!WithoutOrder
  <2> QED BY <2>1, <2>2, <2>3
<1>14. Tracks(U, os, prices, FALSE) /\ Fresh(os, next + 1)
  <2>1. Tracks(O, orders, prices, FALSE) /\ Fresh(orders, next)
      BY <1>11 DEF Follows
  <2>2. SomeOf(U, O, (DOMAIN O \ {orders[i].ref}) \cup {next})
      BY <1>12
  <2> QED BY <1>12, <2>1, <2>2, TracksReplace
<1> QED BY <1>1, <1>7, <1>8, <1>10, <1>14 DEF Follows

-----------------------------------------------------------------------------
(* The list of live orders beside the book, step by step. *)

TrackInv ==
    gen # "file" =>
        /\ \A i \in 1 .. Len(data) : data[i].locate \in Locates(gen)
        /\ \A l \in Locates(gen) :
               Follows(GenBook(data, l), live[l], px, gen = "book", next_ref, Len(data))

\* The prices matter to the ladder only.
LEMMA FollowsUnpriced ==
    ASSUME NEW b, NEW orders, NEW prices, NEW priced, NEW next, NEW k,
           Follows(b, orders, prices, priced, next, k), ~priced,
           NEW other, NEW same, ~same
    PROVE  Follows(b, orders, other, same, next, k)
<1>1. Tracks(P!Orders(b), orders, other, same)
    BY DEF Follows, Tracks
<1> QED BY <1>1 DEF Follows

\* One more message, about the book of locate l.
LEMMA TrackWrite ==
    ASSUME TotalsFit, FeedInv, TrackInv, gen # "file", gen' = gen,
           NEW l \in Locates(gen), NEW r, data' = Append(data, r), decode(r).locate = l,
           next_ref' \in Nat, next_ref <= next_ref',
           \A j \in Locates(gen) \ {l} : live'[j] = live[j],
           NEW b, b = GenBook(data, l),
           Follows(IF ForBook(decode(r), l) THEN P!apply(b, OpOf(decode(r))) ELSE b,
                   live'[l], px', gen = "book", next_ref', Len(data) + 1)
    PROVE  TrackInv'
<1>1. PICK k \in Nat : k = Len(data)
    BY AppendList DEF FeedInv, DataInv
<1>2. IsList(data) /\ GenType
    BY DEF FeedInv, DataInv
<1>3. Len(data') = k + 1 /\ data'[k + 1] = r /\ \A i \in 1 .. k : data'[i] = data[i]
    BY <1>1, <1>2, AppendList
<1>4. \A i \in 1 .. Len(data') : data'[i].locate \in Locates(gen)
  <2>1. r.locate = l
      BY DecodeNumbers
  <2>2. \A i \in 1 .. k : data[i].locate \in Locates(gen)
      BY <1>1 DEF TrackInv
  <2> SUFFICES ASSUME NEW i \in 1 .. k + 1 PROVE data'[i].locate \in Locates(gen)
      BY <1>3
  <2>3. CASE i = k + 1
      BY <1>3, <2>1, <2>3
  <2>4. CASE i # k + 1
    <3>1. i \in 1 .. k
        BY <2>4
    <3> QED BY <1>3, <2>2, <3>1
  <2> QED BY <2>3, <2>4
<1>5. ASSUME NEW j \in Locates(gen)
      PROVE  Follows(GenBook(data', j), live'[j], px', gen = "book", next_ref', Len(data'))
  <2>1. GenBook(data', j) =
            IF ForBook(decode(r), j) THEN P!apply(GenBook(data, j), OpOf(decode(r)))
            ELSE GenBook(data, j)
      BY <1>2, GenBookStep
  <2>2. CASE j = l
      BY <1>1, <1>3, <2>1, <2>2
  <2>3. CASE j # l
    <3>1. GenBook(data', j) = GenBook(data, j)
        BY <2>1, <2>3 DEF ForBook
    <3>2. gen # "book"
        BY <2>3 DEF Locates
    <3>3. Follows(GenBook(data, j), live[j], px, gen = "book", next_ref, k)
        BY <1>1 DEF TrackInv
    <3>4. live[j] \in Seq(Live) /\ next_ref \in Nat
        BY <1>2 DEF GenType
    <3>5. Follows(GenBook(data, j), live[j], px, gen = "book", next_ref', k + 1)
        BY <3>3, <3>4, FollowsLater
    <3>6. Follows(GenBook(data, j), live[j], px', gen = "book", next_ref', k + 1)
        BY <3>2, <3>5, FollowsUnpriced
    <3> QED BY <1>3, <2>3, <3>1, <3>6
  <2> QED BY <2>2, <2>3
<1> QED BY <1>4, <1>5 DEF TrackInv

\* What a message is to the book.
LEMMA OpSays ==
    ASSUME NEW m, NEW type, NEW l, NEW t, NEW ref, NEW new, NEW side, NEW shares, NEW price,
           Says(m, type, l, t, ref, new, side, shares, price)
    PROVE  /\ m.locate = l
           /\ type = "A" => OpOf(m) = [type |-> "add", ref |-> ref, side |-> side,
                                       price |-> price, shares |-> shares]
           /\ type \in {"E", "X"} => OpOf(m) = [type |-> "reduce", ref |-> ref, shares |-> shares]
           /\ type = "D" => OpOf(m) = [type |-> "remove", ref |-> ref]
           /\ type = "U" => OpOf(m) = [type |-> "replace", ref |-> ref, new |-> new,
                                       shares |-> shares, price |-> price]
           /\ type \in {"A", "E", "X", "D", "U"} => ForBook(m, l)
           /\ type \in {"R", "P"} => ~ForBook(m, l)
<1>1. m.type = type /\ m.locate = l
    BY DEF Says
<1>2. type = "A" => OpOf(m) = [type |-> "add", ref |-> ref, side |-> side,
                               price |-> price, shares |-> shares]
    BY DEF Says, OpOf
<1>3. type \in {"E", "X"} => OpOf(m) = [type |-> "reduce", ref |-> ref, shares |-> shares]
    BY DEF Says, OpOf
<1>4. type = "D" => OpOf(m) = [type |-> "remove", ref |-> ref]
    BY DEF Says, OpOf
<1>5. type = "U" => OpOf(m) = [type |-> "replace", ref |-> ref, new |-> new,
                               shares |-> shares, price |-> price]
    BY DEF Says, OpOf
<1>6. /\ type \in {"A", "E", "X", "D", "U"} => ForBook(m, l)
      /\ type \in {"R", "P"} => ~ForBook(m, l)
    BY <1>1 DEF ForBook, Changes
<1> QED BY <1>1, <1>2, <1>3, <1>4, <1>5, <1>6

\* What the generator knows of one locate.
LEMMA TrackFacts ==
    ASSUME FeedInv, TrackInv, gen # "file", NEW l \in Locates(gen)
    PROVE  /\ Len(data) \in Nat /\ l \in 0 .. LocateMod - 1
           /\ ts \in Nat /\ next_ref \in Nat /\ gen \in Gens
           /\ live \in [Locates(gen) -> Seq(Live)] /\ live[l] \in Seq(Live)
           /\ Follows(GenBook(data, l), live[l], px, gen = "book", next_ref, Len(data))
           /\ (gen = "book") => px \in Seq(Int) /\ Len(px) = Len(live[l])
<1>1. Len(data) \in Nat
    BY AppendList DEF FeedInv, DataInv
<1>2. GenType
    BY DEF FeedInv, DataInv
<1>3. (gen = "book") => px \in Seq(Int) /\ Len(px) = Len(live[l])
    BY DEF FeedInv, LadderInv, LadderType, Locates
<1> QED BY <1>1, <1>2, <1>3, LocatesFit DEF GenType, TrackInv

LEMMA TrackAdd ==
    ASSUME TotalsFit, FeedInv, TrackInv, gen # "file", gen' = gen, Len(data) < N[gen],
           NEW l \in Locates(gen), NEW side \in Sides, NEW shares \in Lots,
           NEW price \in Nat, emit_add(l, side, shares, price),
           (gen = "book") => px' = Append(px, price)
    PROVE  TrackInv'
<1>1. /\ Len(data) \in Nat /\ l \in 0 .. LocateMod - 1
      /\ ts \in Nat /\ next_ref \in Nat /\ gen \in Gens
      /\ live \in [Locates(gen) -> Seq(Live)] /\ live[l] \in Seq(Live)
      /\ Follows(GenBook(data, l), live[l], px, gen = "book", next_ref, Len(data))
      /\ (gen = "book") => px \in Seq(Int) /\ Len(px) = Len(live[l])
    BY TrackFacts
<1>2. PICK r : r = Encode("A", l, ts, FieldsA(next_ref, side, shares, "SYNTH", price))
    OBVIOUS
<1>3. data' = Append(data, r)
    BY <1>2 DEF emit_add, Write, FieldsA
<1>4. Says(decode(r), "A", l, ts, next_ref, 0, side, shares, price)
  <2>1. shares \in 0 .. QtyMod - 1
      BY FileAssumption
  <2> QED BY <1>1, <1>2, <2>1, EncodeA
<1>5. PICK m : m = OpOf(decode(r))
    OBVIOUS
<1>6. /\ m = [type |-> "add", ref |-> next_ref, side |-> side, price |-> price, shares |-> shares]
      /\ ForBook(decode(r), l) /\ decode(r).locate = l
    BY <1>4, <1>5, OpSays
<1>7. PICK b : b = GenBook(data, l)
    OBVIOUS
<1>8. PICK os : os = Append(live[l], [ref |-> next_ref, side |-> side])
    OBVIOUS
<1>9. /\ live'[l] = os /\ next_ref' = next_ref + 1
      /\ \A j \in Locates(gen) \ {l} : live'[j] = live[j]
    BY <1>1, <1>8 DEF emit_add, RefAfter
<1>10. Follows(P!apply(b, m), os, px', gen = "book", next_ref + 1, Len(data) + 1)
    BY <1>1, <1>6, <1>7, <1>8, FollowsAdd
<1>11. next_ref' \in Nat /\ next_ref <= next_ref'
    BY <1>1, <1>9
<1>12. Follows(IF ForBook(decode(r), l) THEN P!apply(b, OpOf(decode(r))) ELSE b,
               live'[l], px', gen = "book", next_ref', Len(data) + 1)
    BY <1>5, <1>6, <1>9, <1>10
<1> QED BY <1>3, <1>6, <1>7, <1>9, <1>11, <1>12, TrackWrite

\* The adds of the ladder.
LEMMA LadderAdds ==
    ASSUME FeedInv, gen = "book", NEW side \in Sides, add(side)
    PROVE  \E shares \in Lots, price \in Nat :
               emit_add(1, side, shares, price) /\ px' = Append(px, price)
<1>1. PICK bb \in best("B"), ba \in best("S"), k \in 0 .. Depth - 1, shares \in Lots :
          /\ emit_add(1, side, shares, quote(side, bb, ba, k))
          /\ px' = Append(px, quote(side, bb, ba, k))
    BY DEF add
<1>2. bb \in Int /\ ba \in Int
    BY BestBounds DEF FeedInv, LadderInv, Sides
<1>3. quote(side, bb, ba, k) \in Nat
  <2>1. PICK d \in Int : d = k * C
      BY FeedAssumption
  <2>2. ba - C - d \in Int /\ bb + C + d \in Int /\ C \in Nat
      BY <1>2, FeedAssumption
  <2> QED BY <2>1, <2>2 DEF quote, AtLeastCent
<1> QED BY <1>1, <1>3

\* Messages about one live order.
LEMMA TrackOrder ==
    ASSUME TotalsFit, FeedInv, TrackInv, gen # "file", NEW l,
           Execute(l) \/ Cancel(l) \/ Delete(l) \/ Replace(l)
    PROVE  TrackInv'
<1>1. gen' = gen /\ l \in Locates(gen) /\ Len(data) < N[gen]
    BY DEF Execute, Cancel, Delete, Replace, Mixing
<1>2. /\ Len(data) \in Nat /\ l \in 0 .. LocateMod - 1
      /\ ts \in Nat /\ next_ref \in Nat /\ gen \in Gens
      /\ live \in [Locates(gen) -> Seq(Live)] /\ live[l] \in Seq(Live)
      /\ Follows(GenBook(data, l), live[l], px, gen = "book", next_ref, Len(data))
      /\ (gen = "book") => px \in Seq(Int) /\ Len(px) = Len(live[l])
    BY <1>1, TrackFacts
<1>3. PICK b : b = GenBook(data, l)
    OBVIOUS
<1>4. PICK i \in 1 .. Len(live[l]), ref \in Nat :
          /\ ref = live[l][i].ref
          /\ \/ \E shares \in Clips : Execute(l) /\ WriteExecute(l, i, shares)
             \/ \E shares \in Clips :
                    Cancel(l) /\ Write("X", l, << <<8, live[l][i].ref>>, <<4, shares>> >>)
             \/ /\ Delete(l) /\ Write("D", l, << <<8, live[l][i].ref>> >>)
                /\ live' = [live EXCEPT ![l] = SwapPop(@, i)]
                /\ px' = IF gen = "book" THEN PricesAfterDelete(i) ELSE px
             \/ \E k \in 1 .. Depth, shares \in Lots :
                    /\ Replace(l)
                    /\ Write("U", l, << <<8, live[l][i].ref>>, <<8, next_ref>>, <<4, shares>>,
                                        <<4, add_px(mid'[l], live[l][i].side, k)>> >>)
                    /\ live' = [live EXCEPT ![l][i].ref = next_ref]
  <2>1. ASSUME NEW i \in DOMAIN live[l]
        PROVE  i \in 1 .. Len(live[l]) /\ live[l][i].ref \in Nat
      BY <1>1, <2>1, ReferToKeeps DEF FeedInv
  <2>2. CASE Execute(l)
    <3>1. PICK i \in DOMAIN live[l], shares \in Clips : WriteExecute(l, i, shares)
        BY <2>2 DEF Execute
    <3> QED BY <2>1, <2>2, <3>1
  <2>3. CASE Cancel(l)
    <3>1. PICK i \in DOMAIN live[l], shares \in Clips :
              Write("X", l, << <<8, live[l][i].ref>>, <<4, shares>> >>)
        BY <2>3 DEF Cancel
    <3> QED BY <2>1, <2>3, <3>1
  <2>4. CASE Delete(l)
    <3>1. PICK i \in DOMAIN live[l] :
              /\ Write("D", l, << <<8, live[l][i].ref>> >>)
              /\ live' = [live EXCEPT ![l] = SwapPop(@, i)]
              /\ px' = IF gen = "book" THEN PricesAfterDelete(i) ELSE px
        BY <2>4 DEF Delete
    <3> QED BY <2>1, <2>4, <3>1
  <2>5. CASE Replace(l)
    <3>1. PICK i \in DOMAIN live[l], k \in 1 .. Depth, shares \in Lots :
              /\ Write("U", l, << <<8, live[l][i].ref>>, <<8, next_ref>>, <<4, shares>>,
                                  <<4, add_px(mid'[l], live[l][i].side, k)>> >>)
              /\ live' = [live EXCEPT ![l][i].ref = next_ref]
        BY <2>5 DEF Replace
    <3> QED BY <2>1, <2>5, <3>1
  <2> QED BY <2>2, <2>3, <2>4, <2>5
<1>5. ASSUME NEW r, data' = Append(data, r), decode(r).locate = l, ForBook(decode(r), l),
             next_ref' \in Nat, next_ref <= next_ref',
             \A j \in Locates(gen) \ {l} : live'[j] = live[j],
             Follows(P!apply(b, OpOf(decode(r))), live'[l], px', gen = "book", next_ref',
                     Len(data) + 1)
      PROVE  TrackInv'
  <2>1. Follows(IF ForBook(decode(r), l) THEN P!apply(b, OpOf(decode(r))) ELSE b,
                live'[l], px', gen = "book", next_ref', Len(data) + 1)
      BY <1>5
  <2> QED BY <1>1, <1>3, <1>5, <2>1, TrackWrite
<1>6. ASSUME NEW r, data' = Append(data, r), NEW shares \in 0 .. QtyMod - 1, NEW type \in {"E", "X"},
             Says(decode(r), type, l, ts, ref, 0, 0, shares, 0),
             UNCHANGED <<live, px, next_ref>>
      PROVE  TrackInv'
  <2>1. PICK m : m = OpOf(decode(r))
      OBVIOUS
  <2>2. /\ m = [type |-> "reduce", ref |-> ref, shares |-> shares]
        /\ ForBook(decode(r), l) /\ decode(r).locate = l
      BY <1>6, <2>1, OpSays
  <2>3. Follows(P!apply(b, m), live[l], px, gen = "book", next_ref, Len(data) + 1)
      BY <1>2, <1>3, <2>2, FollowsReduce
  <2>4. next_ref' \in Nat /\ next_ref <= next_ref'
      BY <1>2, <1>6
  <2> QED BY <1>5, <1>6, <2>1, <2>2, <2>3, <2>4
<1>7. ASSUME NEW shares \in Clips, Execute(l), WriteExecute(l, i, shares) PROVE TrackInv'
  <2>1. PICK r : r = Encode("E", l, ts, FieldsE(ref, shares, Len(data)))
      OBVIOUS
  <2>2. data' = Append(data, r)
      BY <1>4, <1>7, <2>1 DEF WriteExecute, Write, FieldsE
  <2>3. shares \in 0 .. QtyMod - 1
      BY FileAssumption
  <2>4. Says(decode(r), "E", l, ts, ref, 0, 0, shares, 0)
      BY <1>2, <2>1, <2>3, EncodeE
  <2>5. UNCHANGED <<live, px, next_ref>>
      BY <1>7 DEF Execute
  <2> QED BY <1>6, <2>2, <2>3, <2>4, <2>5
<1>8. ASSUME NEW shares \in Clips, Cancel(l),
             Write("X", l, << <<8, live[l][i].ref>>, <<4, shares>> >>)
      PROVE  TrackInv'
  <2>1. PICK r : r = Encode("X", l, ts, FieldsX(ref, shares))
      OBVIOUS
  <2>2. data' = Append(data, r)
      BY <1>4, <1>8, <2>1 DEF Write, FieldsX
  <2>3. shares \in 0 .. QtyMod - 1
      BY FileAssumption
  <2>4. Says(decode(r), "X", l, ts, ref, 0, 0, shares, 0)
      BY <1>2, <2>1, <2>3, EncodeX
  <2>5. UNCHANGED <<live, px, next_ref>>
      BY <1>8 DEF Cancel
  <2> QED BY <1>6, <2>2, <2>3, <2>4, <2>5
<1>9. ASSUME Delete(l), Write("D", l, << <<8, live[l][i].ref>> >>),
             live' = [live EXCEPT ![l] = SwapPop(@, i)],
             px' = IF gen = "book" THEN PricesAfterDelete(i) ELSE px
      PROVE  TrackInv'
  <2>1. PICK r : r = Encode("D", l, ts, FieldsD(ref))
      OBVIOUS
  <2>2. data' = Append(data, r)
      BY <1>4, <1>9, <2>1 DEF Write, FieldsD
  <2>3. Says(decode(r), "D", l, ts, ref, 0, 0, 0, 0)
      BY <1>2, <2>1, EncodeD
  <2>4. PICK m : m = OpOf(decode(r))
      OBVIOUS
  <2>5. /\ m = [type |-> "remove", ref |-> ref]
        /\ ForBook(decode(r), l) /\ decode(r).locate = l
      BY <2>3, <2>4, OpSays
  <2>6. (gen = "book") => px' = SwapPop(px, i)
      BY <1>9 DEF PricesAfterDelete
  <2>7. PICK os : os = SwapPop(live[l], i)
      OBVIOUS
  <2>8. Follows(P!apply(b, m), os, px', gen = "book", next_ref, Len(data) + 1)
      BY <1>2, <1>3, <1>4, <2>5, <2>6, <2>7, FollowsRemove
  <2>9. /\ live'[l] = os /\ \A j \in Locates(gen) \ {l} : live'[j] = live[j]
        /\ next_ref' = next_ref
      BY <1>1, <1>2, <1>9, <2>7 DEF Delete
  <2>10. next_ref' \in Nat /\ next_ref <= next_ref'
      BY <1>2, <2>9
  <2> QED BY <1>5, <2>2, <2>4, <2>5, <2>8, <2>9, <2>10
<1>10. ASSUME NEW k \in 1 .. Depth, NEW shares \in Lots, Replace(l),
              Write("U", l, << <<8, live[l][i].ref>>, <<8, next_ref>>, <<4, shares>>,
                               <<4, add_px(mid'[l], live[l][i].side, k)>> >>),
              live' = [live EXCEPT ![l][i].ref = next_ref]
       PROVE  TrackInv'
  <2>1. mid' \in [Locates(gen) -> Nat]
      BY <1>10, MixingKeeps DEF Replace, FeedInv, DataInv
  <2>2. mid'[l] \in Nat /\ k \in Nat
      BY <1>1, <2>1, FeedAssumption
  <2>3. PICK price \in Nat : price = add_px(mid'[l], live[l][i].side, k)
      BY <2>2, AddPxIsPrice
  <2>4. PICK new \in Nat : new = next_ref
      BY <1>2
  <2>5. PICK r : r = Encode("U", l, ts, FieldsU(ref, new, shares, price))
      OBVIOUS
  <2>6. data' = Append(data, r)
      BY <1>4, <1>10, <2>3, <2>4, <2>5 DEF Write, FieldsU
  <2>7. shares \in 0 .. QtyMod - 1
      BY FileAssumption
  <2>8. Says(decode(r), "U", l, ts, ref, new, 0, shares, price)
      BY <1>2, <2>5, <2>7, EncodeU
  <2>9. PICK m : m = OpOf(decode(r))
      OBVIOUS
  <2>10. /\ m = [type |-> "replace", ref |-> ref, new |-> new, shares |-> shares,
                 price |-> price]
         /\ ForBook(decode(r), l) /\ decode(r).locate = l
      BY <2>8, <2>9, OpSays
  <2>11. PICK os : os = [live[l] EXCEPT ![i] = [live[l][i] EXCEPT !.ref = new]]
      OBVIOUS
  <2>12. gen = "itch" /\ px' = px
      BY <1>10 DEF Replace
  <2>13. Follows(b, live[l], px, FALSE, new, Len(data))
      BY <1>2, <1>3, <2>4, <2>12, FollowsUnpriced
  <2>14. Follows(P!apply(b, m), os, px, FALSE, new + 1, Len(data) + 1)
      BY <1>1, <1>2, <1>4, <2>10, <2>11, <2>13, FollowsReplace
  <2>15. Follows(P!apply(b, m), os, px', gen = "book", new + 1, Len(data) + 1)
      BY <2>12, <2>14, FollowsUnpriced
  <2>16. /\ live'[l] = os /\ \A j \in Locates(gen) \ {l} : live'[j] = live[j]
         /\ next_ref' = new + 1
      BY <1>1, <1>2, <1>4, <1>10, <2>4, <2>11 DEF Replace, RefAfter
  <2>17. next_ref' \in Nat /\ next_ref <= next_ref'
      BY <2>4, <2>16
  <2> QED BY <1>5, <2>6, <2>9, <2>10, <2>15, <2>16, <2>17
<1> QED BY <1>4, <1>7, <1>8, <1>9, <1>10

\* Directory entries and trades, which no book is about.
LEMMA TrackOther ==
    ASSUME TotalsFit, FeedInv, TrackInv, gen # "file", gen' = gen,
           NEW l \in Locates(gen), NEW r, data' = Append(data, r), decode(r).locate = l,
           ~ForBook(decode(r), l), UNCHANGED <<live, px, next_ref>>
    PROVE  TrackInv'
<1>1. /\ Len(data) \in Nat /\ next_ref \in Nat /\ live[l] \in Seq(Live)
      /\ Follows(GenBook(data, l), live[l], px, gen = "book", next_ref, Len(data))
    BY TrackFacts
<1>2. PICK b : b = GenBook(data, l)
    OBVIOUS
<1>3. Follows(b, live[l], px, gen = "book", next_ref, Len(data) + 1)
  <2>1. next_ref <= next_ref
      BY <1>1
  <2> QED BY <1>1, <1>2, <2>1, FollowsLater
<1>4. Follows(IF ForBook(decode(r), l) THEN P!apply(b, OpOf(decode(r))) ELSE b,
              live'[l], px', gen = "book", next_ref', Len(data) + 1)
    BY <1>3
<1>5. next_ref' \in Nat /\ next_ref <= next_ref'
    BY <1>1
<1> QED BY <1>2, <1>4, <1>5, TrackWrite

LEMMA TrackDirectory ==
    ASSUME TotalsFit, FeedInv, TrackInv, Directory
    PROVE  TrackInv'
<1>1. gen = "multi" /\ UNCHANGED <<gen, live, px, next_ref>>
    BY DEF Directory
<1>2. PICK l : l = Len(data) + 1
    OBVIOUS
<1>3. Len(data) \in Nat /\ ts \in Nat
    BY <1>1, AppendList DEF FeedInv, DataInv, GenType
<1>4. l \in Locates(gen)
    BY <1>1, <1>2, <1>3, FeedAssumption DEF Directory, Warming, WarmUp, Locates
<1>5. PICK r : r = Encode("R", l, ts, FieldsR(<<"SYN", (l - 1) % 100>>, 0))
    OBVIOUS
<1>6. data' = Append(data, r)
    BY <1>2, <1>5 DEF Directory, Write, FieldsR
<1>7. Says(decode(r), "R", l, ts, 0, 0, 0, 0, 0)
  <2>1. l \in 0 .. LocateMod - 1
      BY <1>4, LocatesFit
  <2> QED BY <1>3, <1>5, <2>1, EncodeR
<1>8. decode(r).locate = l /\ ~ForBook(decode(r), l)
    BY <1>7, OpSays
<1> QED BY <1>1, <1>4, <1>6, <1>8, TrackOther

LEMMA TrackTrade ==
    ASSUME TotalsFit, FeedInv, TrackInv, gen # "file", NEW l, Trade(l)
    PROVE  TrackInv'
<1>1. gen' = gen /\ 1 \in Locates(gen) /\ UNCHANGED <<live, px, next_ref>>
    BY DEF Trade, Mixing, Locates
<1>c. PICK shares \in Clips : \E price : WriteTrade(shares, price)
    BY DEF Trade
<1>2. PICK price : WriteTrade(shares, price)
    BY <1>c
<1>a. PICK r : r = Encode("P", 1, ts, FieldsP(0, "any", shares, "SYNTH", price, Len(data)))
    OBVIOUS
<1>b. data' = Append(data, r)
    BY <1>2, <1>a DEF WriteTrade, Write, FieldsP
<1>3. decode(r).locate = 1 /\ decode(r).type = "P"
    BY <1>a, DecodeNumbers DEF Encode
<1>4. ~ForBook(decode(r), 1)
    BY <1>3 DEF ForBook, Changes
<1> QED BY <1>1, <1>b, <1>3, <1>4, TrackOther

LEMMA NewBookGood == P!Good(P!NewBook) /\ P!Orders(P!NewBook) = [r \in {} |-> 0]
<1>1. PICK b : b = P!NewBook
    OBVIOUS
<1>2. PICK O : O = P!Orders(b)
    OBVIOUS
<1>3. DOMAIN b.index = {} /\ b.bids = P!EmptyLevels /\ b.asks = P!EmptyLevels
    BY <1>1 DEF P!NewBook
<1>4. DOMAIN O = {} /\ O = [r \in {} |-> 0]
    BY <1>2, <1>3 DEF P!Orders
<1>5. P!Proper(O)
  <2>1. P!IsFiniteSet({})
      BY FS_EmptySet DEF P!IsFiniteSet, IsFiniteSet
  <2> QED BY <1>4, <2>1 DEF P!Proper
<1>6. \A s, p : P!Rests(O, s, p) = {} /\ P!LevelSum(O, s, p) = 0
  <2>1. \A s, p : P!Rests(O, s, p) = {}
      BY <1>4 DEF P!Rests
  <2> QED BY <1>5, <2>1, P!LevelSumType, BookAssumptions
<1>7. \A s : P!Quotes(P!EmptyLevels, O, s)
    BY <1>6 DEF P!Quotes, P!EmptyLevels, P!At
<1> QED BY <1>1, <1>2, <1>3, <1>4, <1>5, <1>7, NewBookSound DEF P!Good

LEMMA TrackInit == TotalsFit /\ Init => TrackInv
<1> SUFFICES ASSUME TotalsFit, Init, gen # "file" PROVE TrackInv
    BY DEF TrackInv
<1>1. GenInit
    BY DEF Init, InitFile
<1>2. data = <<>> /\ px = <<>> /\ Len(data) = 0 /\ next_ref = 1
    BY <1>1 DEF GenInit
<1>3. ASSUME NEW l \in Locates(gen)
      PROVE  Follows(GenBook(data, l), live[l], px, gen = "book", next_ref, Len(data))
  <2>1. PICK b : b = GenBook(data, l)
      OBVIOUS
  <2>2. b = P!NewBook
      BY <1>2, <2>1, GenBookEmpty
  <2>3. P!Good(b) /\ DOMAIN P!Orders(b) = {}
      BY <2>2, NewBookGood
  <2>4. live[l] = <<>> /\ Len(live[l]) = 0
      BY <1>1 DEF GenInit
  <2>5. Bounded(P!Orders(b), 0)
    <3>1. \A s, p : P!Rests(P!Orders(b), s, p) = {}
        BY <2>3 DEF P!Rests
    <3>2. \A s, p : P!LevelSum(P!Orders(b), s, p) = 0
        BY <2>3, <3>1, P!LevelSumType, BookAssumptions DEF P!Good
    <3>3. LotCap \in Nat
        BY LotsBounded
    <3> QED BY <3>2, <3>3 DEF Bounded
  <2>6. Tracks(P!Orders(b), live[l], px, gen = "book") /\ Fresh(live[l], next_ref)
      BY <2>3, <2>4 DEF Tracks, Fresh
  <2> QED BY <1>2, <2>1, <2>3, <2>5, <2>6 DEF Follows
<1> QED BY <1>2, <1>3 DEF TrackInv

LEMMA TrackStep == TotalsFit /\ FeedInv /\ TrackInv /\ [Next]_vars => TrackInv'
<1> SUFFICES ASSUME TotalsFit, FeedInv, TrackInv, [Next]_vars PROVE TrackInv'
    OBVIOUS
<1>1. CASE Generate
  <2>1. gen # "file" /\ GenNext
      BY <1>1 DEF Generate
  <2>2. CASE Directory
      BY <2>2, TrackDirectory
  <2>3. CASE SeedPool
    <3>1. PICK side \in Sides, k \in 1 .. Depth, shares \in Lots :
              emit_add(1, side, shares, add_px(mid[1], side, k))
        BY <2>3 DEF SeedPool
    <3>2. gen = "itch" /\ 1 \in Locates(gen) /\ gen' = gen /\ Len(data) < N[gen]
        BY <2>3 DEF SeedPool, Locates, Warming
    <3>3. mid[1] \in Nat /\ k \in Nat
        BY <2>1, <3>2, FeedAssumption DEF FeedInv, DataInv, GenType
    <3>4. PICK price \in Nat : price = add_px(mid[1], side, k)
        BY <3>3, AddPxIsPrice
    <3> QED BY <2>1, <3>1, <3>2, <3>4, TrackAdd
  <2>4. ASSUME NEW side \in Sides, add(side), gen = "book", gen' = gen, Len(data) < N[gen]
        PROVE  TrackInv'
    <3>1. PICK shares \in Lots, price \in Nat :
              emit_add(1, side, shares, price) /\ px' = Append(px, price)
        BY <2>4, LadderAdds
    <3>2. 1 \in Locates(gen)
        BY <2>4 DEF Locates
    <3> QED BY <2>1, <2>4, <3>1, <3>2, TrackAdd
  <2>5. CASE SeedLadder
    <3>1. gen = "book" /\ gen' = gen /\ Len(data) < N[gen] /\ \E side \in Sides : add(side)
        BY <2>5 DEF SeedLadder, Warming, Sides
    <3> QED BY <2>4, <3>1
  <2>6. ASSUME NEW l \in Locates(gen), MixAdd(l) PROVE TrackInv'
    <3>1. gen' = gen /\ Len(data) < N[gen] /\ mid' \in [Locates(gen) -> Nat]
      <4>1. mid' \in [Locates(gen) -> Nat]
          BY <2>1, <2>6, MixingKeeps DEF MixAdd, FeedInv, DataInv
      <4> QED BY <2>6, <4>1 DEF MixAdd, Mixing
    <3>2. CASE gen = "book"
        BY <2>4, <2>6, <3>1, <3>2 DEF MixAdd
    <3>3. CASE gen # "book"
      <4>1. PICK side \in Sides, k \in 1 .. Depth, shares \in Lots :
                emit_add(l, side, shares, add_px(mid'[l], side, k))
          BY <2>6, <3>3 DEF MixAdd
      <4>2. mid'[l] \in Nat /\ k \in Nat
          BY <3>1, FeedAssumption
      <4>3. PICK price \in Nat : price = add_px(mid'[l], side, k)
          BY <4>2, AddPxIsPrice
      <4>4. emit_add(l, side, shares, price)
          BY <4>1, <4>3
      <4> QED BY <2>1, <3>1, <3>3, <4>4, TrackAdd
    <3> QED BY <3>2, <3>3
  <2>7. ASSUME NEW l \in Locates(gen),
               Execute(l) \/ Cancel(l) \/ Delete(l) \/ Replace(l) \/ Trade(l)
        PROVE  TrackInv'
      BY <2>1, <2>7, TrackOrder, TrackTrade
  <2> QED BY <2>1, <2>2, <2>3, <2>5, <2>6, <2>7 DEF GenNext
<1>2. CASE UNCHANGED genVars
    BY <1>2 DEF genVars, TrackInv
<1>3. CASE Load \/ Pass1 \/ TapePass \/ Pass2 \/ Report \/ UNCHANGED vars
    BY <1>2, <1>3 DEF Load, Pass1, TapePass, Pass2, Report, vars
<1> QED BY <1>1, <1>3 DEF Next

\* The books of the timed replay are the ones the generator described.
LEMMA ReplayedTracks ==
    ASSUME TotalsFit, FeedInv, WalkInv, TrackInv, phase = "tape", Generated,
           NEW l \in DOMAIN book.books
    PROVE  /\ l \in Locates(gen) /\ live[l] \in Seq(Live)
           /\ P!Good(BookOf(l)) /\ Tracks(P!Orders(BookOf(l)), live[l], px, gen = "book")
<1>1. gen # "file" /\ book = Replayed(Messages) /\ Len(Messages) \in Nat
    BY MessagesProper DEF WalkInv, Generated
<1>2. /\ Len(Messages) = Len(data)
      /\ \A i \in 1 .. Len(data) : Messages[i] = decode(data[i])
    BY GeneratedMessages
<1>3. \A i \in 1 .. Len(data) : data[i].locate \in Locates(gen)
    BY <1>1 DEF TrackInv
<1>4. \A i \in 1 .. Len(Messages) : Messages[i].locate \in Locates(gen)
    BY <1>2, <1>3, DecodeNumbers
<1>5. BooksIn(book, Locates(gen))
    BY <1>1, <1>4, ReplayedBooksIn
<1>6. l \in Locates(gen)
    BY <1>5 DEF BooksIn
<1>7. BookOf(l) = GenBook(data, l)
  <2>1. BookOf(l) = SymbolBook(Messages, l, Len(Messages))
      BY <1>1, BookOfSymbol
  <2>2. \A i \in 1 .. Len(data) : Messages[i] = Written(data)[i]
      BY <1>2 DEF Written
  <2> QED BY <1>1, <1>2, <2>1, <2>2, SymbolSame DEF GenBook
<1>8. Follows(GenBook(data, l), live[l], px, gen = "book", next_ref, Len(data))
    BY <1>1, <1>6 DEF TrackInv
<1>9. live[l] \in Seq(Live)
    BY <1>1, <1>6 DEF FeedInv, DataInv, GenType
<1> QED BY <1>6, <1>7, <1>8, <1>9 DEF Follows

\* invariant_ok() of a book given as a value.
LEMMA OpsSum ==
    ASSUME NEW b
    PROVE  \A f, S : Ops(b)!SumFunctionOnSet(f, S) = P!SumFunctionOnSet(f, S)
BY DEF Ops!SumFunctionOnSet, Ops!FoldFunctionOnSet, Ops!MapThenFoldSet,
       P!SumFunctionOnSet, P!FoldFunctionOnSet, P!MapThenFoldSet

LEMMA OpsAgrees ==
    ASSUME NEW b, P!Good(b), NEW side, NEW L, P!LevelsOK(L), P!Quotes(L, P!Orders(b), side)
    PROVE  Ops(b)!Agrees(Ops(b)!Rebuilt(side), L)
<1>1. PICK O : O = P!Orders(b)
    OBVIOUS
<1>2. PICK R : R = Ops(b)!Rebuilt(side)
    OBVIOUS
<1>3. \A r : Ops(b)!OrderOf(b, r) = P!OrderOf(b, r)
    BY DEF Ops!OrderOf, P!OrderOf
<1>4. \A p : {r \in Ops(b)!OnSide(side) : Ops(b)!OrderOf(b, r).price = p} = P!Rests(O, side, p)
    BY <1>1, <1>3 DEF Ops!OnSide, P!Rests, P!Orders
<1>5. [r \in DOMAIN b.index |-> Ops(b)!OrderOf(b, r).shares] = P!Qty(O)
    BY <1>1, <1>3 DEF P!Qty, P!Orders
<1>6. DOMAIN R = {Ops(b)!OrderOf(b, r).price : r \in Ops(b)!OnSide(side)}
    BY <1>2 DEF Ops!Rebuilt
<1>7. \A p \in DOMAIN R : R[p] = P!LevelSum(O, side, p) % QtyMod
    BY <1>2, <1>4, <1>5, <1>6, OpsSum DEF Ops!Rebuilt, P!LevelSum
<1>8. \A p : p \in DOMAIN R <=> P!Rests(O, side, p) # {}
    BY <1>4, <1>6
<1>9. DOMAIN R = DOMAIN L
    BY <1>1, <1>8 DEF P!Quotes
<1>10. ASSUME NEW p \in DOMAIN R PROVE Ops(b)!At(L, p) = R[p]
  <2>1. P!At(L, p) = P!LevelSum(O, side, p) /\ P!At(L, p) = L[p]
      BY <1>1, <1>9 DEF P!Quotes, P!At
  <2>2. L[p] \in 0 .. QtyMod - 1
      BY <1>9 DEF P!LevelsOK
  <2>3. L[p] % QtyMod = L[p]
      BY <2>2, QtyModAssumption
  <2>4. Ops(b)!At(L, p) = P!At(L, p)
      BY DEF Ops!At, P!At
  <2> QED BY <1>7, <2>1, <2>3, <2>4
<1> QED BY <1>2, <1>9, <1>10 DEF Ops!Agrees

LEMMA GoodIsOk ==
    ASSUME NEW b, P!Good(b)
    PROVE  Ops(b)!invariant_ok
<1>1. \A r : Ops(b)!OrderOf(b, r) = P!OrderOf(b, r)
    BY DEF Ops!OrderOf, P!OrderOf
<1>2. \A r \in DOMAIN b.index : P!OrderOf(b, r).shares # 0 /\ P!OrderOf(b, r).side \in P!Side
    BY DEF P!Good, P!Proper, P!ProperOrder, P!Orders
<1>3. \A r \in DOMAIN b.index :
          Ops(b)!OrderOf(b, r).shares # 0 /\ Ops(b)!OrderOf(b, r).side \in Ops(b)!Side
    BY <1>1, <1>2 DEF Ops!Side, P!Side
<1>4. P!LevelsOK(b.bids) /\ P!LevelsOK(b.asks)
    BY DEF P!Good, P!Sound
<1>5. Ops(b)!Agrees(Ops(b)!Rebuilt("B"), b.bids) /\ Ops(b)!Agrees(Ops(b)!Rebuilt("S"), b.asks)
    BY <1>4, OpsAgrees DEF P!Good
<1> QED BY <1>3, <1>5 DEF Ops!invariant_ok

LEMMA TrackingMeans ==
    TotalsFit /\ FeedInv /\ WalkInv /\ TrackInv => GeneratorTracksBook
<1> SUFFICES ASSUME TotalsFit, FeedInv, WalkInv, TrackInv, phase = "tape", Generated,
                    NEW l \in DOMAIN book.books,
                    NEW b, b = BookOf(l)
             PROVE  /\ Ops(b)!invariant_ok
                    /\ \A r \in DOMAIN b.index :
                        \E i \in DOMAIN live[l] :
                            /\ live[l][i] = [ref |-> r, side |-> b.slots[b.index[r]].side]
                            /\ gen = "book" => px[i] = b.slots[b.index[r]].price
    BY DEF GeneratorTracksBook, Replayed1
<1>1. /\ live[l] \in Seq(Live) /\ P!Good(b)
      /\ Tracks(P!Orders(b), live[l], px, gen = "book")
    BY ReplayedTracks
<1>2. Ops(b)!invariant_ok
    BY <1>1, GoodIsOk
<1>3. ASSUME NEW r \in DOMAIN b.index
      PROVE  \E i \in DOMAIN live[l] :
                 /\ live[l][i] = [ref |-> r, side |-> b.slots[b.index[r]].side]
                 /\ gen = "book" => px[i] = b.slots[b.index[r]].price
  <2>1. PICK O : O = P!Orders(b)
      OBVIOUS
  <2>2. r \in DOMAIN O /\ O[r] = b.slots[b.index[r]]
      BY <2>1 DEF P!Orders, P!OrderOf
  <2>3. PICK i \in 1 .. Len(live[l]) :
            /\ live[l][i].ref = r /\ live[l][i].side = O[r].side
            /\ gen = "book" => px[i] = O[r].price
      BY <1>1, <2>1, <2>2 DEF Tracks
  <2>4. i \in DOMAIN live[l] /\ live[l][i] \in Live
      BY <1>1
  <2>5. live[l][i] = [ref |-> live[l][i].ref, side |-> live[l][i].side]
      BY <2>4 DEF Live
  <2> QED BY <2>2, <2>3, <2>4, <2>5
<1> QED BY <1>2, <1>3

LEMMA UncrossedMeans ==
    TotalsFit /\ FeedInv /\ WalkInv /\ TrackInv => NeverCrossed
<1> SUFFICES ASSUME TotalsFit, FeedInv, WalkInv, TrackInv, phase = "tape", gen = "book",
                    1 \in DOMAIN book.books, NEW b, b = BookOf(1),
                    NEW m, m = compute_metrics(b.bids, b.asks, 5), m.two_sided
             PROVE  m.spread > 0
    BY DEF NeverCrossed, Replayed1
<1>1. /\ live[1] \in Seq(Live) /\ P!Good(b)
      /\ Tracks(P!Orders(b), live[1], px, gen = "book")
    BY ReplayedTracks DEF Generated
<1>2. PICK O : O = P!Orders(b)
    OBVIOUS
<1>3. Side(b.bids) /\ Side(b.asks)
  <2>1. P!LevelsOK(b.bids) /\ P!LevelsOK(b.asks)
      BY <1>1 DEF P!Good, P!Sound
  <2>2. \A S : P!IsFiniteSet(S) => IsFiniteSet(S)
      BY DEF P!IsFiniteSet, IsFiniteSet
  <2> QED BY <2>1, <2>2, QtyModAssumption DEF P!LevelsOK, Side
<1>4. PICK bid : bid = Best("B", b.bids)
    OBVIOUS
<1>5. PICK ask : ask = Best("S", b.asks)
    OBVIOUS
<1>6. bid # NoLevel /\ ask # NoLevel
  <2>1. CASE bid = NoLevel \/ ask = NoLevel
    <3>1. m = NoMetrics
        BY <1>4, <1>5, <2>1 DEF compute_metrics
    <3> QED BY <3>1 DEF NoMetrics
  <2> QED BY <2>1
<1>7. PICK bp \in DOMAIN b.bids : bp = bid[1] /\ bp \in Nat
    BY <1>3, <1>4, <1>6, BestOf
<1>8. PICK ap \in DOMAIN b.asks : ap = ask[1] /\ ap \in Nat
    BY <1>3, <1>5, <1>6, BestOf
<1>9. m.spread = ap - bp
    BY <1>4, <1>5, <1>6, <1>7, <1>8 DEF compute_metrics
<1>10. PICK r \in DOMAIN O : O[r].side = "B" /\ O[r].price = bp
    BY <1>1, <1>2, <1>7 DEF P!Good, P!Quotes, P!Rests
<1>11. PICK q \in DOMAIN O : O[q].side = "S" /\ O[q].price = ap
    BY <1>1, <1>2, <1>8 DEF P!Good, P!Quotes, P!Rests
<1>12. PICK i \in 1 .. Len(live[1]) : live[1][i].side = "B" /\ px[i] = bp
    BY <1>1, <1>2, <1>10 DEF Tracks
<1>13. PICK j \in 1 .. Len(live[1]) : live[1][j].side = "S" /\ px[j] = ap
    BY <1>1, <1>2, <1>11 DEF Tracks
<1>14. bp < ap
    BY <1>12, <1>13 DEF FeedInv, LadderInv, Uncrossed
<1> QED BY <1>7, <1>8, <1>9, <1>14

\* The hypothesis does not change, so that it can go with the invariant.
LEMMA TrackAlways == TotalsFit /\ Spec => [](TotalsFit /\ FeedInv /\ WalkInv /\ TrackInv)
<1> DEFINE Given == TotalsFit
           Inv == Given /\ FeedInv /\ WalkInv /\ TrackInv
<1>1. Given /\ Init => Inv
    BY FeedInit, WalkInit, TrackInit
<1>2. Given => Given'
    BY DEF TotalsFit, Caps
<1>3. Inv /\ [Next]_vars => Inv'
    BY <1>2, FeedStep, WalkStep, TrackStep
<1>4. Given /\ Spec => []Inv
  <2> HIDE DEF Given
  <2> QED BY <1>1, <1>3, PTL DEF Spec
<1> QED BY <1>4

\* What the generators keep beside the book they describe is right: in the book that a
\* replay of the stream builds, every resting order is on the list of live orders of its
\* symbol, on its side and, in the ladder, at its price, and invariant_ok() holds; for
\* every draw of the random generator and every length of the stream for which a
\* level's total fits its 32 bits.
THEOREM GeneratorKeepsTrack == TotalsFit /\ Spec => []GeneratorTracksBook
BY TrackAlways, TrackingMeans, PTL

\* "so best_bid < best_ask always holds" is true of the book that is rebuilt from the
\* ladder, and not only of what its generator believes to be live.
THEOREM RebuiltNeverCrossed == TotalsFit /\ Spec => []NeverCrossed
BY TrackAlways, UncrossedMeans, PTL

\* make_synthetic_book never places a bid at or above a live ask, nor an ask at or
\* below a live bid, and its two vectors stay parallel, for every seed of the random
\* generator and every length of the stream.
THEOREM LadderNeverCrosses == GenSpec => []LiveUncrossed
<1>1. LadderInv => LiveUncrossed
  <2> SUFFICES ASSUME LadderInv, gen = "book"
               PROVE  /\ Len(px) = Len(live[1])
                      /\ Uncrossed(live[1], px) /\ DOMAIN live[1] = 1 .. Len(live[1])
      BY DEF LiveUncrossed, Uncrossed, Floor
  <2> QED BY DEF LadderInv, LadderType
<1> QED BY <1>1, LadderInit, LadderStep, PTL DEF GenSpec
=============================================================================
