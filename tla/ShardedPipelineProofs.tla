----------------------- MODULE ShardedPipelineProofs ------------------------
(***************************************************************************)
(* Proofs about replay_sharded for any number of workers, any ring         *)
(* capacity, any stream and any hash of the locate: a worker that has left *)
(* leaves nothing behind, no two shards ever hold the same symbol, and the *)
(* merged books are those of the single-threaded replay.                   *)
(***************************************************************************)
EXTENDS ShardedPipeline, NaturalsInduction, WellFoundedInduction, TLAPS

Msg == [id : Nat, kind : {"directory", "order", "other"}, locate : Locates]

\* The locates of shard w.
Own(w) == {l \in Locates : shardOf[l] = w}

\* A BookSet is a record of two partial functions.
SetOf(b) == [books |-> b.books, symbols |-> b.symbols]

\* What a set knows of.
Known(b) == DOMAIN b.books \cup DOMAIN b.symbols

ShardType ==
    /\ stream \in Seq(Msg) /\ shardOf \in [Locates -> Workers]
    /\ n \in 0 .. Len(stream) /\ done \in BOOLEAN /\ merged \in 0 .. W + 1
    /\ ring \in [Workers -> Seq(Msg)]
    /\ bound \in [Workers -> Nat]
    /\ loc \in [Workers -> {"loop", "check", "drain", "exited"}]
    /\ DOMAIN books = Workers
    /\ \A w \in Workers : Len(ring[w]) <= Cap /\ bound[w] <= Len(ring[w])

\* After done nothing is pushed; a worker that drains is bound to see all there is.
DoneInv ==
    /\ done => n = Len(stream)
    /\ \A w \in Workers :
        /\ loc[w] = "drain" => done /\ bound[w] = Len(ring[w])
        /\ loc[w] = "exited" => done /\ ring[w] = <<>>

\* Only messages of its own locates ever reach a shard.
RoutedInv ==
    \A w \in Workers :
        /\ \A i \in 1 .. Len(ring[w]) : ring[w][i].locate \in Own(w)
        /\ books[w] = SetOf(books[w]) /\ Known(books[w]) \subseteq Own(w)

ShardInv == ShardType /\ DoneInv /\ RoutedInv

-----------------------------------------------------------------------------
LEMMA NewKnowsNothing == NewBookSet = SetOf(NewBookSet) /\ Known(NewBookSet) = {}
    BY DEF NewBookSet, SetOf, Known

\* Applying a message makes a set know of no locate but the message's.
LEMMA ApplyKnows ==
    ASSUME NEW b, b = SetOf(b), NEW m \in Msg
    PROVE  /\ BookSetApply(b, m) = SetOf(BookSetApply(b, m))
           /\ Known(BookSetApply(b, m)) \subseteq Known(b) \cup {m.locate}
<1> DEFINE r == BookSetApply(b, m)
<1>1. CASE m.kind = "directory"
  <2>1. r = [books   |-> Put(b.books, m.locate, BookAt(b, m.locate)),
             symbols |-> Put(b.symbols, m.locate, m.id)]
      BY <1>1 DEF BookSetApply
  <2> QED BY <2>1 DEF SetOf, Known, Put
<1>2. CASE m.kind = "order"
  <2>1. r = [b EXCEPT !.books = Put(b.books, m.locate, Append(BookAt(b, m.locate), m.id))]
      BY <1>2 DEF BookSetApply
  <2>2. r.books = Put(b.books, m.locate, Append(BookAt(b, m.locate), m.id))
        /\ r.symbols = b.symbols /\ r = SetOf(r)
      BY <2>1 DEF SetOf
  <2> QED BY <2>2 DEF Known, Put
<1>3. CASE m.kind = "other"
    BY <1>3 DEF BookSetApply
<1> QED BY <1>1, <1>2, <1>3 DEF Msg
-----------------------------------------------------------------------------
(* The single-threaded replay.  Induction on the number of messages is the   *)
(* existence of a least counterexample.                                      *)

LEMMA LeastNat ==
    ASSUME NEW T, T \subseteq Nat, T # {}
    PROVE  \E x \in T : \A y \in T : x <= y
<1>1. IsWellFoundedOn(OpToRel(<, Nat), Nat)
    BY NatLessThanWellFounded
<1>2. PICK x \in T : \A y \in T : ~ (<<y, x>> \in OpToRel(<, Nat))
    BY <1>1, WFMin
<1>3. \A y \in T : ~ (y < x)
    BY <1>2 DEF OpToRel
<1> QED BY <1>3

LEMMA Induction ==
    ASSUME NEW T, 0 \in T, \A k \in Nat : k \in T => k + 1 \in T
    PROVE  Nat \subseteq T
<1> SUFFICES ASSUME Nat \ T # {} PROVE FALSE
    OBVIOUS
<1>1. PICK x \in Nat \ T : \A y \in Nat \ T : x <= y
    BY LeastNat
<1>2. x # 0 /\ x - 1 \in Nat
    BY <1>1
<1>3. x - 1 \in T
    BY <1>1, <1>2
<1> QED BY <1>1, <1>2, <1>3

\* f is the replay of the first k messages of s, as SingleThreaded defines it.
Replays(s, k, f) ==
    f = [i \in 0 .. k |-> IF i = 0 THEN NewBookSet ELSE BookSetApply(f[i - 1], s[i])]

LEMMA ReplaysUnfold ==
    ASSUME NEW s, NEW k, NEW f, Replays(s, k, f), NEW i \in 0 .. k
    PROVE  f[i] = IF i = 0 THEN NewBookSet ELSE BookSetApply(f[i - 1], s[i])
    BY DEF Replays

LEMMA ReplaysExist ==
    ASSUME NEW s, NEW k \in Nat
    PROVE  \E f : Replays(s, k, f)
<1> DEFINE T == {j \in Nat : \E f : Replays(s, j, f)}
<1>1. 0 \in T
  <2>1. Replays(s, 0, [i \in 0 .. 0 |-> NewBookSet])
      BY DEF Replays
  <2> QED BY <2>1
<1>2. ASSUME NEW j \in Nat, j \in T PROVE j + 1 \in T
  <2>1. PICK f : Replays(s, j, f)
      BY <1>2
  <2> DEFINE g == [i \in 0 .. j + 1 |-> IF i = j + 1 THEN BookSetApply(f[j], s[j + 1]) ELSE f[i]]
  <2>2. ASSUME NEW i \in 0 .. j + 1
        PROVE  g[i] = IF i = 0 THEN NewBookSet ELSE BookSetApply(g[i - 1], s[i])
    <3>1. CASE i = j + 1
      <4>1. i # 0 /\ i - 1 = j /\ j \in 0 .. j + 1 /\ j # j + 1
          BY <3>1
      <4>2. g[i] = BookSetApply(f[j], s[i]) /\ g[i - 1] = f[j]
          BY <3>1, <4>1
      <4> QED BY <4>1, <4>2
    <3>2. CASE i # j + 1
      <4>1. i \in 0 .. j /\ g[i] = f[i] /\ (i # 0 => g[i - 1] = f[i - 1])
          BY <3>2
      <4> HIDE DEF g
      <4> QED BY <2>1, <4>1, ReplaysUnfold
    <3> QED BY <3>1, <3>2
  <2>3. g = [i \in 0 .. j + 1 |-> g[i]]
      OBVIOUS
  <2> HIDE DEF g
  <2>4. Replays(s, j + 1, g)
      BY <2>2, <2>3 DEF Replays
  <2> QED BY <2>4
<1>3. Nat \subseteq T
  <2> HIDE DEF T
  <2> QED BY <1>1, <1>2, Induction
<1> QED BY <1>3

LEMMA ReplaysAgree ==
    ASSUME NEW s, NEW k \in Nat, NEW l \in Nat, NEW f, NEW g,
           Replays(s, k, f), Replays(s, l, g)
    PROVE  \A i \in Nat : i <= k /\ i <= l => f[i] = g[i]
<1> DEFINE T == {i \in Nat : i <= k /\ i <= l => f[i] = g[i]}
<1>1. 0 \in T
  <2>1. f[0] = NewBookSet /\ g[0] = NewBookSet
      BY ReplaysUnfold
  <2> QED BY <2>1
<1>2. ASSUME NEW i \in Nat, i \in T PROVE i + 1 \in T
  <2> SUFFICES ASSUME i + 1 <= k, i + 1 <= l PROVE f[i + 1] = g[i + 1]
      OBVIOUS
  <2>1. f[i] = g[i]
      BY <1>2
  <2>2. i + 1 \in 0 .. k /\ i + 1 \in 0 .. l /\ i + 1 # 0 /\ (i + 1) - 1 = i
      OBVIOUS
  <2>3. f[i + 1] = BookSetApply(f[i], s[i + 1])
      BY <2>2, ReplaysUnfold
  <2>4. g[i + 1] = BookSetApply(g[i], s[i + 1])
      BY <2>2, ReplaysUnfold
  <2> QED BY <2>1, <2>3, <2>4
<1>3. Nat \subseteq T
  <2> HIDE DEF T
  <2> QED BY <1>1, <1>2, Induction
<1> QED BY <1>3

\* What SingleThreaded computes, as a function of the stream.
Single(s, k) == (CHOOSE f : Replays(s, k, f))[k]

LEMMA SingleIsReference == \A k : SingleThreaded(k) = Single(stream, k)
    BY DEF SingleThreaded, Single, Replays

\* One message more.
LEMMA SingleThreadedStep ==
    /\ Single(stream, 0) = NewBookSet
    /\ \A k \in Nat : Single(stream, k + 1) = BookSetApply(Single(stream, k), stream[k + 1])
<1> DEFINE F(k) == CHOOSE f : Replays(stream, k, f)
<1>1. \A k \in Nat : Replays(stream, k, F(k))
    BY ReplaysExist
<1>2. \A k : Single(stream, k) = F(k)[k]
    BY DEF Single
<1> HIDE DEF F
<1>3. Single(stream, 0) = NewBookSet
    BY <1>1, <1>2, ReplaysUnfold
<1>4. ASSUME NEW k \in Nat
      PROVE  Single(stream, k + 1) = BookSetApply(Single(stream, k), stream[k + 1])
  <2>1. k + 1 \in 0 .. k + 1 /\ k + 1 # 0 /\ (k + 1) - 1 = k /\ k + 1 \in Nat /\ k <= k + 1
      OBVIOUS
  <2>2. F(k + 1)[k + 1] = BookSetApply(F(k + 1)[k], stream[k + 1])
      BY <1>1, <2>1, ReplaysUnfold
  <2>3. F(k + 1)[k] = F(k)[k]
      BY <1>1, <2>1, ReplaysAgree
  <2> QED BY <1>2, <2>1, <2>2, <2>3
<1> QED BY <1>3, <1>4
-----------------------------------------------------------------------------
(* The part of a set that concerns a set of locates. *)

Part(b, L) == [books   |-> [l \in DOMAIN b.books \cap L |-> b.books[l]],
               symbols |-> [l \in DOMAIN b.symbols \cap L |-> b.symbols[l]]]

\* Two maps, of locates.
Maps(b) ==
    /\ b = SetOf(b) /\ Known(b) \subseteq Locates
    /\ b.books = [l \in DOMAIN b.books |-> b.books[l]]
    /\ b.symbols = [l \in DOMAIN b.symbols |-> b.symbols[l]]

LEMMA ApplyMaps ==
    ASSUME NEW b, Maps(b), NEW m \in Msg
    PROVE  Maps(BookSetApply(b, m))
<1> DEFINE r == BookSetApply(b, m)
<1>0. m.locate \in Locates /\ m.kind \in {"directory", "order", "other"}
    BY DEF Msg
<1>1. r = SetOf(r) /\ Known(r) \subseteq Locates
    BY <1>0, ApplyKnows DEF Maps
<1>2. CASE m.kind = "directory"
  <2>1. r.books = Put(b.books, m.locate, BookAt(b, m.locate))
        /\ r.symbols = Put(b.symbols, m.locate, m.id)
      BY <1>2 DEF BookSetApply
  <2> HIDE DEF r
  <2> QED BY <1>1, <2>1 DEF Maps, Put, r
<1>3. CASE m.kind = "order"
  <2>1. r.books = Put(b.books, m.locate, Append(BookAt(b, m.locate), m.id))
        /\ r.symbols = b.symbols
      BY <1>3 DEF BookSetApply, Maps, SetOf
  <2> HIDE DEF r
  <2> QED BY <1>1, <2>1 DEF Maps, Put, r
<1>4. CASE m.kind = "other"
    BY <1>4 DEF BookSetApply
<1> QED BY <1>0, <1>2, <1>3, <1>4

\* A message of these locates changes this part as it would the whole.
LEMMA PartApply ==
    ASSUME NEW b, Maps(b), NEW m \in Msg, NEW L, m.locate \in L
    PROVE  Part(BookSetApply(b, m), L) = BookSetApply(Part(b, L), m)
<1> DEFINE r == BookSetApply(b, m)
           p == Part(b, L)
           q == BookSetApply(p, m)
<1>1. BookAt(p, m.locate) = BookAt(b, m.locate)
    BY DEF BookAt, Part
<1>2. /\ p.books = [l \in DOMAIN b.books \cap L |-> b.books[l]]
      /\ p.symbols = [l \in DOMAIN b.symbols \cap L |-> b.symbols[l]]
      /\ p = SetOf(p)
    BY DEF Part, SetOf
<1>3. CASE m.kind = "directory"
  <2>1. r.books = Put(b.books, m.locate, BookAt(b, m.locate))
        /\ r.symbols = Put(b.symbols, m.locate, m.id)
      BY <1>3 DEF BookSetApply
  <2>2. q = [books |-> Put(p.books, m.locate, BookAt(p, m.locate)),
             symbols |-> Put(p.symbols, m.locate, m.id)]
      BY <1>3 DEF BookSetApply
  <2> HIDE DEF r, p, q
  <2>3. [l \in DOMAIN r.books \cap L |-> r.books[l]] = Put(p.books, m.locate, BookAt(p, m.locate))
      BY <1>1, <1>2, <2>1 DEF Put
  <2>4. [l \in DOMAIN r.symbols \cap L |-> r.symbols[l]] = Put(p.symbols, m.locate, m.id)
      BY <1>2, <2>1 DEF Put
  <2>5. Part(r, L) = q
      BY <2>2, <2>3, <2>4 DEF Part
  <2> QED BY <2>5 DEF r, p, q
<1>4. CASE m.kind = "order"
  <2>1. r.books = Put(b.books, m.locate, Append(BookAt(b, m.locate), m.id))
        /\ r.symbols = b.symbols
      BY <1>4 DEF BookSetApply, Maps, SetOf
  <2> HIDE DEF p
  <2>2. q = [books |-> Put(p.books, m.locate, Append(BookAt(p, m.locate), m.id)),
             symbols |-> p.symbols]
      BY <1>2, <1>4 DEF BookSetApply, SetOf
  <2> HIDE DEF r, q
  <2>3. [l \in DOMAIN r.books \cap L |-> r.books[l]] =
            Put(p.books, m.locate, Append(BookAt(p, m.locate), m.id))
      BY <1>1, <1>2, <2>1 DEF Put
  <2>4. Part(r, L) = q
      BY <1>2, <2>1, <2>2, <2>3 DEF Part
  <2> QED BY <2>4 DEF r, p, q
<1>5. CASE m.kind = "other"
    BY <1>5 DEF BookSetApply
<1> QED BY <1>3, <1>4, <1>5 DEF Msg

\* A message of another locate does not touch this part.
LEMMA PartSkip ==
    ASSUME NEW b, Maps(b), NEW m \in Msg, NEW L, m.locate \notin L
    PROVE  Part(BookSetApply(b, m), L) = Part(b, L)
<1> DEFINE r == BookSetApply(b, m)
<1>1. CASE m.kind = "directory"
  <2>1. r.books = Put(b.books, m.locate, BookAt(b, m.locate))
        /\ r.symbols = Put(b.symbols, m.locate, m.id)
      BY <1>1 DEF BookSetApply
  <2> HIDE DEF r
  <2>2. /\ [l \in DOMAIN r.books \cap L |-> r.books[l]] = [l \in DOMAIN b.books \cap L |-> b.books[l]]
        /\ [l \in DOMAIN r.symbols \cap L |-> r.symbols[l]] =
               [l \in DOMAIN b.symbols \cap L |-> b.symbols[l]]
      BY <2>1 DEF Put
  <2> QED BY <2>2 DEF Part, r
<1>2. CASE m.kind = "order"
  <2>1. r.books = Put(b.books, m.locate, Append(BookAt(b, m.locate), m.id))
        /\ r.symbols = b.symbols
      BY <1>2 DEF BookSetApply, Maps, SetOf
  <2> HIDE DEF r
  <2>2. [l \in DOMAIN r.books \cap L |-> r.books[l]] = [l \in DOMAIN b.books \cap L |-> b.books[l]]
      BY <2>1 DEF Put
  <2> QED BY <2>1, <2>2 DEF Part, r
<1>3. CASE m.kind = "other"
    BY <1>3 DEF BookSetApply
<1> QED BY <1>1, <1>2, <1>3 DEF Msg

\* merge_from puts two parts together.
LEMMA PartMerge ==
    ASSUME NEW b, NEW L, NEW M, L \cap M = {}
    PROVE  MergeFrom(Part(b, L), Part(b, M)) = Part(b, L \cup M)
BY DEF MergeFrom, Part, Emplace

LEMMA PartAll ==
    ASSUME NEW b, Maps(b)
    PROVE  Part(b, Locates) = b
<1>1. DOMAIN b.books \cap Locates = DOMAIN b.books
      /\ DOMAIN b.symbols \cap Locates = DOMAIN b.symbols
    BY DEF Maps, Known
<1>2. Part(b, Locates) = SetOf(b)
    BY <1>1 DEF Part, Maps, SetOf
<1> QED BY <1>2 DEF Maps

LEMMA SingleThreadedMaps ==
    ASSUME stream \in Seq(Msg)
    PROVE  \A k \in 0 .. Len(stream) : Maps(Single(stream, k))
<1> DEFINE T == {k \in Nat : k <= Len(stream) => Maps(Single(stream, k))}
<1>1. 0 \in T
  <2>1. Maps(NewBookSet)
      BY NewKnowsNothing DEF Maps, NewBookSet
  <2> QED BY <2>1, SingleThreadedStep
<1>2. ASSUME NEW k \in Nat, k \in T PROVE k + 1 \in T
  <2> SUFFICES ASSUME k + 1 <= Len(stream) PROVE Maps(Single(stream, k + 1))
      OBVIOUS
  <2>1. Maps(Single(stream, k)) /\ stream[k + 1] \in Msg
      BY <1>2
  <2> QED BY <2>1, SingleThreadedStep, ApplyMaps
<1>3. Nat \subseteq T
  <2> HIDE DEF T
  <2> QED BY <1>1, <1>2, Induction
<1> QED BY <1>3

\* A run of messages of other locates leaves the part of these locates as it was.
LEMMA SkipOthers ==
    ASSUME stream \in Seq(Msg), NEW L, NEW a \in Nat, NEW c \in Nat, a <= c, c <= Len(stream),
           \A i \in a + 1 .. c : stream[i].locate \notin L
    PROVE  Part(Single(stream, c), L) = Part(Single(stream, a), L)
<1> DEFINE T == {d \in Nat : a + d <= c => Part(Single(stream, a + d), L) = Part(Single(stream, a), L)}
<1>1. 0 \in T
  <2>1. a + 0 = a
      OBVIOUS
  <2> QED BY <2>1
<1>2. ASSUME NEW d \in Nat, d \in T PROVE d + 1 \in T
  <2> SUFFICES ASSUME a + (d + 1) <= c
               PROVE  Part(Single(stream, a + (d + 1)), L) = Part(Single(stream, a), L)
      OBVIOUS
  <2>1. /\ a + (d + 1) = (a + d) + 1 /\ a + d \in Nat /\ a + d \in 0 .. Len(stream)
        /\ (a + d) + 1 \in a + 1 .. c /\ (a + d) + 1 \in 1 .. Len(stream) /\ a + d <= c
      OBVIOUS
  <2>2. Part(Single(stream, a + d), L) = Part(Single(stream, a), L)
      BY <1>2, <2>1
  <2>3. stream[(a + d) + 1] \in Msg /\ stream[(a + d) + 1].locate \notin L
      BY <2>1
  <2>4. Maps(Single(stream, a + d))
      BY <2>1, SingleThreadedMaps
  <2>5. Single(stream, (a + d) + 1) = BookSetApply(Single(stream, a + d), stream[(a + d) + 1])
      BY <2>1, SingleThreadedStep
  <2> QED BY <2>1, <2>2, <2>3, <2>4, <2>5, PartSkip
<1>3. Nat \subseteq T
  <2> HIDE DEF T
  <2> QED BY <1>1, <1>2, Induction
<1> DEFINE d == c - a
<1>4. d \in Nat /\ a + d = c
    OBVIOUS
<1>5. d \in T
  <2> HIDE DEF T, d
  <2> QED BY <1>3, <1>4
<1> HIDE DEF d
<1> QED BY <1>4, <1>5
-----------------------------------------------------------------------------
LEMMA ShardInit == Init => ShardInv
<1> SUFFICES ASSUME Init PROVE ShardInv
    OBVIOUS
<1>1. stream \in Seq(Msg) /\ Len(stream) = StreamLen
  <2>1. UNION {Messages(i) : i \in 1 .. StreamLen} \subseteq Msg
    <3>1. \A i \in 1 .. StreamLen : Messages(i) \subseteq Msg
        BY DEF Messages, Msg
    <3> QED BY <3>1
  <2>2. stream \in [1 .. StreamLen -> UNION {Messages(i) : i \in 1 .. StreamLen}]
      BY DEF Init
  <2>3. stream \in [1 .. StreamLen -> Msg]
      BY <2>1, <2>2
  <2> QED BY <2>3, ShardAssumption
<1>2. ShardType
  <2>1. <<>> \in Seq(Msg) /\ Len(<<>>) = 0
      OBVIOUS
  <2>2. \A w \in Workers : ring[w] = <<>> /\ bound[w] = 0
      BY DEF Init
  <2>3. ring \in [Workers -> Seq(Msg)]
      BY <2>1 DEF Init
  <2>4. /\ bound \in [Workers -> Nat] /\ DOMAIN books = Workers
        /\ loc \in [Workers -> {"loop", "check", "drain", "exited"}]
      BY DEF Init
  <2>5. shardOf \in [Locates -> Workers] /\ done \in BOOLEAN /\ n = 0 /\ merged = 0
      BY DEF Init
  <2>6. n \in 0 .. Len(stream) /\ merged \in 0 .. W + 1
      BY <1>1, <2>5, ShardAssumption
  <2>7. \A w \in Workers : Len(ring[w]) <= Cap /\ bound[w] <= Len(ring[w])
      BY <2>1, <2>2, ShardAssumption
  <2> QED BY <1>1, <2>3, <2>4, <2>5, <2>6, <2>7 DEF ShardType
<1>3. DoneInv
    BY DEF Init, DoneInv
<1>4. RoutedInv
    BY NewKnowsNothing DEF Init, RoutedInv
<1> QED BY <1>2, <1>3, <1>4 DEF ShardInv

LEMMA PushKeeps == ShardInv /\ Push => ShardInv'
<1> SUFFICES ASSUME ShardInv, Push PROVE ShardInv'
    OBVIOUS
<1> USE DEF ShardInv
<1>1. n + 1 \in 1 .. Len(stream) /\ stream[n + 1] \in Msg /\ Shard(n + 1) \in Workers
  <2>1. stream \in Seq(Msg) /\ n \in 0 .. Len(stream) /\ n < Len(stream)
      BY DEF ShardType, Push
  <2>2. n + 1 \in 1 .. Len(stream) /\ stream[n + 1] \in Msg
      BY <2>1
  <2>3. stream[n + 1].locate \in Locates
      BY <2>2 DEF Msg
  <2> QED BY <2>2, <2>3 DEF ShardType, Shard
<1> DEFINE w == Shard(n + 1)
           m == stream[n + 1]
<1>2. ring' = [ring EXCEPT ![w] = Append(ring[w], m)] /\ Len(ring[w]) < Cap
    BY DEF Push, HasRoom
<1>3. m.locate \in Own(w)
    BY <1>1 DEF Own, Shard, Msg
<1>4. ~done /\ \A v \in Workers : loc[v] \notin {"drain", "exited"}
    BY DEF Push, DoneInv, ShardType
<1> HIDE DEF w, m
<1>5. /\ w \in Workers /\ m \in Msg /\ ring[w] \in Seq(Msg)
      /\ ring'[w] = Append(ring[w], m) /\ Len(ring'[w]) = Len(ring[w]) + 1
      /\ \A v \in Workers : v # w => ring'[v] = ring[v]
    BY <1>1, <1>2 DEF w, m, ShardType
<1>6. ShardType'
  <2>1. ring' \in [Workers -> Seq(Msg)]
      BY <1>2, <1>5 DEF ShardType
  <2>2. \A v \in Workers : Len(ring'[v]) <= Cap /\ bound[v] <= Len(ring'[v])
      BY <1>2, <1>5, ShardAssumption DEF ShardType
  <2>3. UNCHANGED <<stream, shardOf, done, bound, loc, books, merged>> /\ n' = n + 1
      BY DEF Push
  <2> QED BY <1>1, <2>1, <2>2, <2>3 DEF ShardType
<1>7. DoneInv'
    BY <1>4 DEF Push, DoneInv
<1>8. RoutedInv'
  <2>1. UNCHANGED <<shardOf, books>>
      BY DEF Push
  <2>2. ASSUME NEW v \in Workers, NEW i \in 1 .. Len(ring'[v])
        PROVE  ring'[v][i].locate \in Own(v)
    <3>1. CASE v # w
        BY <1>5, <2>2, <3>1 DEF RoutedInv
    <3>2. CASE v = w
        BY <1>3, <1>5, <2>2, <3>2, SMTT(30) DEF RoutedInv
    <3> QED BY <3>1, <3>2
  <2> QED BY <2>1, <2>2 DEF RoutedInv, Own
<1> QED BY <1>6, <1>7, <1>8

\* The caller's other steps leave the rings alone; a merged shard starts anew.
LEMMA CallerKeeps ==
    ASSUME ShardInv, SetDone \/ Merge \/ Return \/ Terminated \/ UNCHANGED vars
    PROVE  ShardInv'
<1> USE DEF ShardInv
<1>1. CASE SetDone
    BY <1>1 DEF SetDone, StreamEnds, workerVars, ShardType, DoneInv, RoutedInv, Own
<1>2. CASE Merge
  <2>1. merged + 1 \in Workers /\ merged' = merged + 1
      BY <1>2, ShardAssumption DEF Merge, ShardType, Workers
  <2>2. books' = [books EXCEPT ![merged + 1] = NewBookSet]
      BY <1>2 DEF Merge
  <2>3. UNCHANGED <<stream, shardOf, n, done, ring, bound, loc>>
      BY <1>2 DEF Merge
  <2>4. ShardType'
      BY <2>1, <2>2, <2>3, ShardAssumption DEF ShardType, Workers
  <2>5. DoneInv'
      BY <2>3 DEF DoneInv
  <2>6. RoutedInv'
      BY <2>1, <2>2, <2>3, NewKnowsNothing DEF RoutedInv, ShardType, Own
  <2> QED BY <2>4, <2>5, <2>6
<1>3. CASE Return
    BY <1>3, ShardAssumption DEF Return, workerVars, ShardType, DoneInv, RoutedInv, Own
<1>4. CASE Terminated \/ UNCHANGED vars
    BY <1>4 DEF Terminated, vars, ShardType, DoneInv, RoutedInv, Own
<1> QED BY <1>1, <1>2, <1>3, <1>4
-----------------------------------------------------------------------------
LEMMA PopApplyKeeps ==
    ASSUME ShardInv, NEW w \in Workers, PopApply(w)
    PROVE  ShardInv'
<1> USE DEF ShardInv
<1>1. /\ ring[w] \in Seq(Msg) /\ ring[w] # <<>> /\ loc[w] \in {"loop", "drain"}
      /\ ring' = [ring EXCEPT ![w] = Tail(ring[w])]
      /\ bound' = [bound EXCEPT ![w] = IF bound[w] = 0 THEN 0 ELSE bound[w] - 1]
      /\ books' = [books EXCEPT ![w] = BookSetApply(books[w], Head(ring[w]))]
      /\ loc' = [loc EXCEPT ![w] = "loop"]
      /\ UNCHANGED <<stream, shardOf, n, done, merged>>
    BY DEF PopApply, ShardType
<1>2. /\ Head(ring[w]) \in Msg /\ Head(ring[w]) = ring[w][1] /\ 1 \in 1 .. Len(ring[w])
      /\ Tail(ring[w]) \in Seq(Msg) /\ Len(Tail(ring[w])) = Len(ring[w]) - 1
      /\ \A i \in 1 .. Len(ring[w]) - 1 : Tail(ring[w])[i] = ring[w][i + 1]
    BY <1>1
<1>3. ShardType'
  <2>1. ring' \in [Workers -> Seq(Msg)] /\ bound' \in [Workers -> Nat]
      BY <1>1, <1>2 DEF ShardType
  <2>2. ASSUME NEW v \in Workers PROVE Len(ring'[v]) <= Cap /\ bound'[v] <= Len(ring'[v])
      BY <1>1, <1>2, ShardAssumption DEF ShardType
  <2> QED BY <1>1, <2>1, <2>2 DEF ShardType
<1>4. DoneInv'
    BY <1>1 DEF DoneInv, ShardType
<1>5. RoutedInv'
  <2>1. ASSUME NEW i \in 1 .. Len(ring'[w]) PROVE ring'[w][i].locate \in Own(w)
    <3>1. i + 1 \in 1 .. Len(ring[w]) /\ ring'[w][i] = ring[w][i + 1]
        BY <1>1, <1>2 DEF ShardType
    <3> QED BY <3>1 DEF RoutedInv
  <2>2. /\ books'[w] = BookSetApply(books[w], Head(ring[w]))
        /\ Head(ring[w]).locate \in Own(w)
      BY <1>1, <1>2 DEF ShardType, RoutedInv
  <2>3. books'[w] = SetOf(books'[w]) /\ Known(books'[w]) \subseteq Own(w)
      BY <1>2, <2>2, ApplyKnows DEF RoutedInv
  <2>4. \A v \in Workers : v # w => ring'[v] = ring[v] /\ books'[v] = books[v]
      BY <1>1 DEF ShardType
  <2> QED BY <1>1, <2>1, <2>3, <2>4 DEF RoutedInv, Own
<1> QED BY <1>3, <1>4, <1>5

LEMMA WaitKeeps ==
    ASSUME ShardInv, NEW w \in Workers, PopFails(w) \/ SeesDone(w) \/ SeesNotDone(w)
    PROVE  ShardInv'
<1> USE DEF ShardInv
<1>1. UNCHANGED <<stream, shardOf, n, done, ring, books, merged>>
    BY DEF PopFails, SeesDone, SeesNotDone
<1>2. RoutedInv'
    BY <1>1 DEF RoutedInv, Own
<1>3. CASE PopFails(w)
  <2>1. loc[w] = "drain" => ring[w] = <<>>
      BY <1>3 DEF PopFails, DoneInv, ShardType
  <2>2. loc' = [loc EXCEPT ![w] = AfterFailedPop(loc[w])] /\ bound' = bound
      BY <1>3 DEF PopFails
  <2>3. loc[w] \in {"loop", "drain"} /\ AfterFailedPop(loc[w]) \in {"check", "exited"}
        /\ (AfterFailedPop(loc[w]) = "exited" => loc[w] = "drain")
      BY <1>3 DEF PopFails, AfterFailedPop
  <2>4. ShardType'
      BY <1>1, <2>2, <2>3 DEF ShardType
  <2>5. DoneInv'
      BY <1>1, <2>1, <2>2, <2>3 DEF DoneInv, ShardType
  <2> QED BY <1>2, <2>4, <2>5
<1>4. CASE SeesDone(w)
  <2>1. /\ done /\ loc' = [loc EXCEPT ![w] = "drain"]
        /\ bound' = [bound EXCEPT ![w] = Len(ring[w])]
      BY <1>4 DEF SeesDone, BoundAfterDone
  <2>2. ShardType'
      BY <1>1, <2>1 DEF ShardType
  <2>3. DoneInv'
      BY <1>1, <2>1 DEF DoneInv, ShardType
  <2> QED BY <1>2, <2>2, <2>3
<1>5. CASE SeesNotDone(w)
  <2>1. loc' = [loc EXCEPT ![w] = "loop"] /\ bound' = bound
      BY <1>5 DEF SeesNotDone
  <2>2. ShardType' /\ DoneInv'
      BY <1>1, <2>1 DEF ShardType, DoneInv
  <2> QED BY <1>2, <2>2
<1> QED BY <1>3, <1>4, <1>5

LEMMA ShardStep == ShardInv /\ [Next]_vars => ShardInv'
<1> SUFFICES ASSUME ShardInv, [Next]_vars PROVE ShardInv'
    OBVIOUS
<1>1. CASE Push
    BY <1>1, PushKeeps
<1>2. CASE SetDone \/ Merge \/ Return \/ Terminated \/ UNCHANGED vars
    BY <1>2, CallerKeeps
<1>3. ASSUME NEW w \in Workers, WorkerNext(w) PROVE ShardInv'
    BY <1>3, PopApplyKeeps, WaitKeeps DEF WorkerNext
<1> QED BY <1>1, <1>2, <1>3 DEF Next, CallerNext
-----------------------------------------------------------------------------
(* The sharded replay builds the same set.  A message is identified by its   *)
(* place in the stream, so a ring tells how far its worker has come.         *)

\* The place up to which worker w has applied what is its own.
Seen(w) == IF ring[w] = <<>> THEN n ELSE ring[w][1].id - 1

\* A ring holds, in stream order, all its shard's messages that were pushed and
\* not yet applied.
RingInv ==
    /\ \A i \in 1 .. Len(stream) : stream[i].id = i
    /\ \A w \in Workers :
        /\ \A j \in 1 .. Len(ring[w]) :
              ring[w][j].id \in 1 .. n /\ ring[w][j] = stream[ring[w][j].id]
        /\ \A j, k \in 1 .. Len(ring[w]) : j < k => ring[w][j].id < ring[w][k].id
        /\ \A i \in 1 .. n : i > Seen(w) /\ stream[i].locate \in Own(w) =>
              \E j \in 1 .. Len(ring[w]) : ring[w][j].id = i

\* A shard is the part of the single-threaded replay that concerns it.
AppliedInv ==
    \A w \in Workers :
        books[w] = IF w <= merged THEN NewBookSet
                   ELSE Part(Single(stream, Seen(w)), Own(w))

\* So is what has been merged; merging starts when every worker has left.
MergedInv ==
    /\ merged > 0 => n = Len(stream) /\ \A w \in Workers : loc[w] = "exited"
    /\ out = Part(Single(stream, Len(stream)), {l \in Locates : shardOf[l] <= merged})

SameInv == ShardInv /\ RingInv /\ AppliedInv /\ MergedInv

LEMMA PartNothing == \A b : Part(b, {}) = NewBookSet
    BY DEF Part, NewBookSet

LEMMA PartNew == \A L : Part(NewBookSet, L) = NewBookSet
    BY DEF Part, NewBookSet

LEMMA SameInit == Init => SameInv
<1> SUFFICES ASSUME Init PROVE RingInv /\ AppliedInv /\ MergedInv
    BY ShardInit DEF SameInv
<1>0. ShardInv
    BY ShardInit
<1>1. Len(stream) \in Nat /\ n = 0 /\ merged = 0 /\ \A w \in Workers : ring[w] = <<>>
    BY <1>0 DEF ShardInv, ShardType, Init
<1>2. \A i \in 1 .. Len(stream) : stream[i].id = i
  <2>1. stream \in [1 .. StreamLen -> UNION {Messages(i) : i \in 1 .. StreamLen}]
        /\ \A i \in 1 .. StreamLen : stream[i].id = i
      BY DEF Init
  <2>2. DOMAIN stream = 1 .. Len(stream) /\ DOMAIN stream = 1 .. StreamLen
      BY <1>0, <2>1 DEF ShardInv, ShardType
  <2> QED BY <2>1, <2>2
<1>3. RingInv
    BY <1>1, <1>2 DEF RingInv
<1>4. AppliedInv
  <2>1. ASSUME NEW w \in Workers PROVE books[w] = Part(Single(stream, Seen(w)), Own(w)) /\ ~(w <= merged)
    <3>1. Seen(w) = 0 /\ books[w] = NewBookSet /\ ~(w <= merged)
        BY <1>1 DEF Seen, Init, Workers
    <3> QED BY <3>1, SingleThreadedStep, PartNew
  <2> QED BY <2>1 DEF AppliedInv
<1>5. MergedInv
  <2>1. {l \in Locates : shardOf[l] <= merged} = {}
      BY <1>0, <1>1 DEF ShardInv, ShardType, Workers
  <2>2. out = NewBookSet /\ ~(merged > 0)
      BY <1>1 DEF Init
  <2> QED BY <2>1, <2>2, PartNothing DEF MergedInv
<1> QED BY <1>3, <1>4, <1>5

LEMMA PushSame ==
    ASSUME SameInv, Push
    PROVE  SameInv'
<1>0. ShardInv /\ ShardInv' /\ RingInv /\ AppliedInv /\ MergedInv
    BY PushKeeps DEF SameInv
<1>1. /\ n \in 0 .. Len(stream) /\ n < Len(stream) /\ stream \in Seq(Msg)
      /\ n + 1 \in 1 .. Len(stream) /\ stream[n + 1] \in Msg
    BY <1>0 DEF Push, ShardInv, ShardType
<1> DEFINE m == stream[n + 1]
<1>a. PICK w \in Workers : w = Shard(n + 1)
    BY <1>0, <1>1 DEF Shard, ShardInv, ShardType, Msg
<1>2. m.locate \in Own(w) /\ \A v \in Workers : v # w => m.locate \notin Own(v)
    BY <1>0, <1>1, <1>a DEF Shard, Own, ShardInv, ShardType, Msg
<1>3. /\ ring' = [ring EXCEPT ![w] = Append(ring[w], m)]
      /\ n' = n + 1 /\ UNCHANGED <<stream, shardOf, loc, books, out, merged>>
    BY <1>a DEF Push
<1>4. m.id = n + 1
    BY <1>0, <1>1 DEF RingInv
<1> HIDE DEF m
<1>5. /\ ring[w] \in Seq(Msg) /\ Len(ring[w]) \in Nat
      /\ ring'[w] = Append(ring[w], m) /\ Len(ring'[w]) = Len(ring[w]) + 1
      /\ ring'[w][Len(ring[w]) + 1] = m
      /\ \A j \in 1 .. Len(ring[w]) : ring'[w][j] = ring[w][j]
      /\ \A v \in Workers : v # w => ring'[v] = ring[v]
    BY <1>0, <1>1, <1>2, <1>3 DEF ShardInv, ShardType, m
<1>6. \A v : Own(v)' = Own(v)
    BY <1>3 DEF Own
<1>7. \A j \in 1 .. Len(ring'[w]) : j \in 1 .. Len(ring[w]) \/ j = Len(ring[w]) + 1
    BY <1>5
<1>8. Seen(w)' = Seen(w) /\ Seen(w) <= n
  <2>1. CASE ring[w] = <<>>
    <3>1. ring'[w] # <<>> /\ ring'[w][1] = m
        BY <1>5, <2>1
    <3> QED BY <1>1, <1>4, <2>1, <3>1 DEF Seen
  <2>2. CASE ring[w] # <<>>
    <3>1. 1 \in 1 .. Len(ring[w]) /\ ring'[w] # <<>> /\ ring'[w][1] = ring[w][1]
        BY <1>5, <2>2
    <3>2. ring[w][1].id \in 1 .. n
        BY <1>0, <1>2, <3>1 DEF RingInv
    <3> QED BY <1>1, <2>2, <3>1, <3>2 DEF Seen
  <2> QED BY <2>1, <2>2
<1>9. ASSUME NEW v \in Workers, v # w
      PROVE  Seen(v)' = IF ring[v] = <<>> THEN n + 1 ELSE Seen(v)
    BY <1>3, <1>5, <1>9 DEF Seen
<1>10. RingInv'
  <2>1. \A i \in 1 .. Len(stream') : stream'[i].id = i
      BY <1>0, <1>3 DEF RingInv
  <2>2. ASSUME NEW v \in Workers
        PROVE  /\ \A j \in 1 .. Len(ring'[v]) :
                    ring'[v][j].id \in 1 .. n' /\ ring'[v][j] = stream'[ring'[v][j].id]
               /\ \A j, k \in 1 .. Len(ring'[v]) : j < k => ring'[v][j].id < ring'[v][k].id
               /\ \A i \in 1 .. n' : i > Seen(v)' /\ stream'[i].locate \in Own(v)' =>
                    \E j \in 1 .. Len(ring'[v]) : ring'[v][j].id = i
    <3>1. CASE v = w
      <4>1. ASSUME NEW j \in 1 .. Len(ring'[w])
            PROVE  ring'[w][j].id \in 1 .. n + 1 /\ ring'[w][j] = stream[ring'[w][j].id]
        <5>1. CASE j = Len(ring[w]) + 1
            BY <1>1, <1>4, <1>5, <5>1 DEF m
        <5>2. CASE j \in 1 .. Len(ring[w])
          <6>1. ring[w][j].id \in 1 .. n /\ ring[w][j] = stream[ring[w][j].id]
              BY <1>0, <1>2, <5>2 DEF RingInv
          <6> QED BY <1>1, <1>5, <5>2, <6>1
        <5> QED BY <1>7, <5>1, <5>2
      <4>2. ASSUME NEW j \in 1 .. Len(ring'[w]), NEW k \in 1 .. Len(ring'[w]), j < k
            PROVE  ring'[w][j].id < ring'[w][k].id
        <5>1. j \in 1 .. Len(ring[w]) /\ ring[w][j].id \in 1 .. n /\ ring'[w][j] = ring[w][j]
            BY <1>0, <1>2, <1>5, <4>2 DEF RingInv
        <5>2. CASE k = Len(ring[w]) + 1
            BY <1>1, <1>4, <1>5, <5>1, <5>2
        <5>3. CASE k \in 1 .. Len(ring[w])
            BY <1>0, <1>2, <1>5, <4>2, <5>1, <5>3 DEF RingInv
        <5> QED BY <1>7, <5>2, <5>3
      <4>3. ASSUME NEW i \in 1 .. n + 1, i > Seen(w), stream[i].locate \in Own(w)
            PROVE  \E j \in 1 .. Len(ring'[w]) : ring'[w][j].id = i
        <5>1. CASE i = n + 1
          <6>1. Len(ring[w]) + 1 \in 1 .. Len(ring'[w])
              BY <1>5
          <6> QED BY <1>4, <1>5, <5>1, <6>1
        <5>2. CASE i # n + 1
          <6>1. i \in 1 .. n
              BY <1>1, <5>2
          <6>2. PICK j \in 1 .. Len(ring[w]) : ring[w][j].id = i
              BY <1>0, <1>2, <4>3, <6>1 DEF RingInv
          <6> QED BY <1>5, <6>2
        <5> QED BY <5>1, <5>2
      <4> QED BY <1>3, <1>6, <1>8, <3>1, <4>1, <4>2, <4>3
    <3>2. CASE v # w
      <4>1. ring'[v] = ring[v]
          BY <1>5, <3>2
      <4>2. ASSUME NEW i \in 1 .. n + 1, i > Seen(v)', stream[i].locate \in Own(v)
            PROVE  \E j \in 1 .. Len(ring[v]) : ring[v][j].id = i
        <5>1. i # n + 1
            BY <1>2, <3>2, <4>2 DEF m
        <5>2. i \in 1 .. n /\ i > Seen(v)
            BY <1>1, <1>9, <3>2, <4>2, <5>1 DEF Seen
        <5> QED BY <1>0, <4>2, <5>2 DEF RingInv
      <4>3. \A j \in 1 .. Len(ring[v]) :
               ring[v][j].id \in 1 .. n + 1 /\ ring[v][j] = stream[ring[v][j].id]
          BY <1>0, <1>1 DEF RingInv
      <4>4. \A j, k \in 1 .. Len(ring[v]) : j < k => ring[v][j].id < ring[v][k].id
          BY <1>0 DEF RingInv
      <4> QED BY <1>3, <1>6, <4>1, <4>2, <4>3, <4>4
    <3> QED BY <3>1, <3>2
  <2> QED BY <2>1, <2>2 DEF RingInv
<1>11. AppliedInv'
  <2> SUFFICES ASSUME NEW v \in Workers
               PROVE  books'[v] = IF v <= merged' THEN NewBookSet
                                  ELSE Part(Single(stream', Seen(v)'), Own(v)')
      BY DEF AppliedInv
  <2>1. stream' = stream
      BY <1>3
  <2>2. CASE v = w \/ ring[v] # <<>>
      BY <1>0, <1>3, <1>6, <1>8, <1>9, <2>1, <2>2 DEF AppliedInv
  <2>3. CASE v # w /\ ring[v] = <<>>
    <3>1. Seen(v) = n /\ Seen(v)' = n + 1
        BY <1>9, <2>3 DEF Seen
    <3>2. Part(Single(stream, n + 1), Own(v)) = Part(Single(stream, n), Own(v))
      <4>1. Maps(Single(stream, n))
          BY <1>1, SingleThreadedMaps
      <4>2. Single(stream, n + 1) = BookSetApply(Single(stream, n), m)
          BY <1>1, SingleThreadedStep DEF m
      <4> QED BY <1>1, <1>2, <2>3, <4>1, <4>2, PartSkip DEF m
    <3> QED BY <1>0, <1>3, <1>6, <2>1, <3>1, <3>2 DEF AppliedInv
  <2> QED BY <2>2, <2>3
<1>12. MergedInv'
  <2>1. stream' = stream
      BY <1>3
  <2>2. merged = 0
      BY <1>0, <1>1, ShardAssumption DEF MergedInv, ShardInv, ShardType
  <2> QED BY <1>0, <1>3, <2>1, <2>2 DEF MergedInv
<1> QED BY <1>0, <1>10, <1>11, <1>12 DEF SameInv

LEMMA PopApplySame ==
    ASSUME SameInv, NEW w \in Workers, PopApply(w)
    PROVE  SameInv'
<1>0. ShardInv /\ ShardInv' /\ RingInv /\ AppliedInv /\ MergedInv
    BY PopApplyKeeps DEF SameInv
<1> DEFINE m == ring[w][1]
           i == m.id
           r == Tail(ring[w])
<1>1. /\ ring[w] \in Seq(Msg) /\ ring[w] # <<>>
      /\ ring' = [ring EXCEPT ![w] = r]
      /\ books' = [books EXCEPT ![w] = BookSetApply(books[w], Head(ring[w]))]
      /\ UNCHANGED <<stream, shardOf, n, out, merged>>
      /\ n \in 0 .. Len(stream) /\ stream \in Seq(Msg)
    BY <1>0 DEF PopApply, ShardInv, ShardType
<1>2. /\ Head(ring[w]) = m /\ m \in Msg /\ 1 \in 1 .. Len(ring[w]) /\ Len(ring[w]) \in Nat
      /\ r \in Seq(Msg) /\ Len(r) = Len(ring[w]) - 1
      /\ \A j \in 1 .. Len(ring[w]) - 1 : r[j] = ring[w][j + 1] /\ j + 1 \in 1 .. Len(ring[w])
    BY <1>1
<1>3. i \in 1 .. n /\ m = stream[i] /\ m.locate \in Own(w)
    BY <1>0, <1>2 DEF RingInv, ShardInv, RoutedInv
<1>4. loc[w] # "exited" /\ merged = 0
    BY <1>0, ShardAssumption DEF PopApply, MergedInv, ShardInv, ShardType
<1> HIDE DEF m, i, r
<1>5. /\ ring'[w] = r /\ books'[w] = BookSetApply(books[w], m)
      /\ \A v \in Workers : v # w => ring'[v] = ring[v] /\ books'[v] = books[v]
    BY <1>0, <1>1, <1>2 DEF ShardInv, ShardType
<1>6. \A v : Own(v)' = Own(v)
    BY <1>1 DEF Own
<1> DEFINE c == IF r = <<>> THEN n ELSE r[1].id - 1
<1>7. Seen(w) = i - 1 /\ Seen(w)' = c /\ \A v \in Workers : v # w => Seen(v)' = Seen(v)
    BY <1>1, <1>5 DEF Seen, i, m
<1>8. i <= c /\ c <= n /\ c \in Nat
  <2>1. CASE r = <<>>
      BY <1>1, <1>3, <2>1
  <2>2. CASE r # <<>>
    <3>1. 1 \in 1 .. Len(ring[w]) - 1 /\ r[1] = ring[w][2] /\ 2 \in 1 .. Len(ring[w])
        BY <1>2, <2>2
    <3>2. i < r[1].id /\ r[1].id \in 1 .. n
        BY <1>0, <1>2, <3>1 DEF RingInv, i, m
    <3> QED BY <1>1, <1>3, <2>2, <3>2
  <2> QED BY <2>1, <2>2
<1>9. ASSUME NEW k \in 1 .. n, k > i, stream[k].locate \in Own(w)
      PROVE  \E j \in 1 .. Len(r) : r[j].id = k
  <2>1. k > Seen(w)
      BY <1>1, <1>3, <1>7, <1>9
  <2>2. PICK j \in 1 .. Len(ring[w]) : ring[w][j].id = k
      BY <1>0, <1>9, <2>1 DEF RingInv
  <2>3. j # 1
      BY <1>3, <1>9, <2>2 DEF i, m
  <2>4. j - 1 \in 1 .. Len(ring[w]) - 1 /\ (j - 1) + 1 = j
      BY <1>2, <2>3
  <2> QED BY <1>2, <2>2, <2>4
<1>10. \A k \in i + 1 .. c : stream[k].locate \notin Own(w)
  <2> SUFFICES ASSUME NEW k \in i + 1 .. c, stream[k].locate \in Own(w) PROVE FALSE
      OBVIOUS
  <2>1. k \in 1 .. n /\ k > i
      BY <1>1, <1>3, <1>8
  <2>2. PICK j \in 1 .. Len(r) : r[j].id = k
      BY <1>9, <2>1
  <2>3. r # <<>>
      BY <2>2
  <2>4. 1 \in 1 .. Len(ring[w]) - 1 /\ r[1] = ring[w][2] /\ r[j] = ring[w][j + 1]
        /\ 2 \in 1 .. Len(ring[w]) /\ j + 1 \in 1 .. Len(ring[w]) /\ (j = 1 \/ 2 < j + 1)
      BY <1>2, <2>2, <2>3, SMTT(30)
  <2>5. r[1].id \in 1 .. n /\ (j # 1 => r[1].id < r[j].id)
    <3>1. ring[w][2].id \in 1 .. n
        BY <1>0, <2>4 DEF RingInv
    <3>2. 2 < j + 1 => ring[w][2].id < ring[w][j + 1].id
        BY <1>0, <2>4 DEF RingInv
    <3> QED BY <2>4, <3>1, <3>2
  <2>6. r[1].id <= k /\ k < r[1].id
      BY <1>1, <1>3, <2>2, <2>3, <2>5
  <2> QED BY <1>1, <2>5, <2>6
<1>11. RingInv'
  <2>1. \A k \in 1 .. Len(stream') : stream'[k].id = k
      BY <1>0, <1>1 DEF RingInv
  <2>2. ASSUME NEW v \in Workers
        PROVE  /\ \A j \in 1 .. Len(ring'[v]) :
                    ring'[v][j].id \in 1 .. n' /\ ring'[v][j] = stream'[ring'[v][j].id]
               /\ \A j, k \in 1 .. Len(ring'[v]) : j < k => ring'[v][j].id < ring'[v][k].id
               /\ \A k \in 1 .. n' : k > Seen(v)' /\ stream'[k].locate \in Own(v)' =>
                    \E j \in 1 .. Len(ring'[v]) : ring'[v][j].id = k
    <3>1. CASE v = w
      <4>1. ASSUME NEW j \in 1 .. Len(r) PROVE r[j].id \in 1 .. n /\ r[j] = stream[r[j].id]
        <5>1. r[j] = ring[w][j + 1] /\ j + 1 \in 1 .. Len(ring[w])
            BY <1>2
        <5> QED BY <1>0, <5>1 DEF RingInv
      <4>2. ASSUME NEW j \in 1 .. Len(r), NEW k \in 1 .. Len(r), j < k PROVE r[j].id < r[k].id
        <5>1. /\ r[j] = ring[w][j + 1] /\ j + 1 \in 1 .. Len(ring[w]) /\ j + 1 < k + 1
              /\ r[k] = ring[w][k + 1] /\ k + 1 \in 1 .. Len(ring[w])
            BY <1>2, <4>2
        <5> QED BY <1>0, <5>1 DEF RingInv
      <4>3. ASSUME NEW k \in 1 .. n, k > c, stream[k].locate \in Own(w)
            PROVE  \E j \in 1 .. Len(r) : r[j].id = k
        <5>1. k > i
            BY <1>3, <1>8, <4>3
        <5> QED BY <1>9, <4>3, <5>1
      <4> QED BY <1>1, <1>5, <1>6, <1>7, <3>1, <4>1, <4>2, <4>3, SMTT(30)
    <3>2. CASE v # w
      <4>1. ring'[v] = ring[v] /\ Seen(v)' = Seen(v)
          BY <1>5, <1>7, <3>2
      <4>2. n' = n /\ stream' = stream /\ Own(v)' = Own(v)
          BY <1>1, <1>6
      <4>3. /\ \A j \in 1 .. Len(ring[v]) :
                 ring[v][j].id \in 1 .. n /\ ring[v][j] = stream[ring[v][j].id]
            /\ \A j, k \in 1 .. Len(ring[v]) : j < k => ring[v][j].id < ring[v][k].id
            /\ \A k \in 1 .. n : k > Seen(v) /\ stream[k].locate \in Own(v) =>
                 \E j \in 1 .. Len(ring[v]) : ring[v][j].id = k
          BY <1>0 DEF RingInv
      <4> QED BY <4>1, <4>2, <4>3
    <3> QED BY <3>1, <3>2
  <2> QED BY <2>1, <2>2 DEF RingInv
<1>12. books'[w] = Part(Single(stream, c), Own(w))
  <2>1. i - 1 \in Nat /\ i - 1 \in 0 .. Len(stream) /\ (i - 1) + 1 = i /\ i \in Nat /\ c <= Len(stream)
      BY <1>1, <1>3, <1>8
  <2>2. ~(w <= merged)
      BY <1>4 DEF Workers
  <2>3. books[w] = Part(Single(stream, i - 1), Own(w))
      BY <1>0, <1>7, <2>2 DEF AppliedInv
  <2>4. Single(stream, i) = BookSetApply(Single(stream, i - 1), m)
      BY <1>3, <2>1, SingleThreadedStep
  <2>5. Maps(Single(stream, i - 1))
      BY <1>1, <2>1, SingleThreadedMaps
  <2>6. books'[w] = Part(Single(stream, i), Own(w))
      BY <1>2, <1>3, <1>5, <2>3, <2>4, <2>5, PartApply
  <2> HIDE DEF c
  <2>7. Part(Single(stream, c), Own(w)) = Part(Single(stream, i), Own(w))
      BY <1>1, <1>8, <1>10, <2>1, SkipOthers
  <2> QED BY <2>6, <2>7
<1>13. AppliedInv'
  <2> SUFFICES ASSUME NEW v \in Workers
               PROVE  books'[v] = IF v <= merged' THEN NewBookSet
                                  ELSE Part(Single(stream', Seen(v)'), Own(v)')
      BY DEF AppliedInv
  <2>1. CASE v # w
      BY <1>0, <1>1, <1>5, <1>6, <1>7, <2>1 DEF AppliedInv
  <2>2. CASE v = w
    <3>1. ~(w <= merged')
        BY <1>1, <1>4 DEF Workers
    <3>2. stream' = stream /\ Own(w)' = Own(w) /\ Seen(w)' = c
        BY <1>1, <1>6, <1>7
    <3> HIDE DEF c
    <3> QED BY <1>12, <2>2, <3>1, <3>2
  <2> QED BY <2>1, <2>2
<1>14. MergedInv'
    BY <1>0, <1>1, <1>4, <1>6 DEF MergedInv
<1> QED BY <1>0, <1>11, <1>13, <1>14 DEF SameInv

\* The reference, the rings and the shards stay as they are.
LEMMA NothingAppliedSame ==
    ASSUME SameInv, ShardInv', UNCHANGED <<stream, shardOf, n, ring, books, out, merged>>,
           \A w \in Workers : loc[w] = "exited" => loc'[w] = "exited"
    PROVE  SameInv'
<1>1. RingInv'
    BY DEF SameInv, RingInv, Seen, Own
<1>2. \A v : Own(v)' = Own(v)
    BY DEF Own
<1>3. \A v : Seen(v)' = Seen(v)
    BY DEF Seen
<1>4. AppliedInv'
    BY <1>2, <1>3 DEF SameInv, AppliedInv
<1>5. MergedInv'
    BY <1>2 DEF SameInv, MergedInv
<1> QED BY <1>1, <1>4, <1>5 DEF SameInv

LEMMA MergeSame ==
    ASSUME SameInv, Merge
    PROVE  SameInv'
<1>0. ShardInv /\ ShardInv' /\ RingInv /\ AppliedInv /\ MergedInv
    BY CallerKeeps DEF SameInv
<1>a. PICK w \in Workers : w = merged + 1
    BY <1>0, ShardAssumption DEF Merge, ShardInv, ShardType, Workers
<1> DEFINE N == Len(stream)
           Upto == {l \in Locates : shardOf[l] <= merged}
<1>1. /\ w = merged + 1 /\ merged \in Nat /\ merged' = w /\ n = N
      /\ out' = MergeFrom(out, books[w]) /\ books' = [books EXCEPT ![w] = NewBookSet]
      /\ UNCHANGED <<stream, shardOf, n, ring, loc>>
      /\ \A v \in Workers : loc[v] = "exited"
    BY <1>0, <1>a, ShardAssumption DEF Merge, ShardInv, ShardType, Workers
<1>2. \A v \in Workers : ring[v] = <<>> /\ Seen(v) = N
    BY <1>0, <1>1 DEF ShardInv, DoneInv, Seen
<1>3. \A v : Own(v)' = Own(v)
    BY <1>1 DEF Own
<1>4. \A v : Seen(v)' = Seen(v)
    BY <1>1 DEF Seen
<1>5. RingInv'
    BY <1>0, <1>1, <1>3, <1>4 DEF RingInv
<1>6. AppliedInv'
  <2> SUFFICES ASSUME NEW v \in Workers
               PROVE  books'[v] = IF v <= merged' THEN NewBookSet
                                  ELSE Part(Single(stream', Seen(v)'), Own(v)')
      BY DEF AppliedInv
  <2>1. CASE v = w
      BY <1>0, <1>1, <2>1 DEF ShardInv, ShardType, Workers
  <2>2. CASE v # w
    <3>1. (v <= merged' <=> v <= merged) /\ books'[v] = books[v]
        BY <1>0, <1>1, <2>2 DEF ShardInv, ShardType, Workers
    <3>2. stream' = stream
        BY <1>1
    <3> QED BY <1>0, <1>3, <1>4, <3>1, <3>2 DEF AppliedInv
  <2> QED BY <2>1, <2>2
<1>7. MergedInv'
  <2>1. books[w] = Part(Single(stream, N), Own(w))
    <3>1. ~(w <= merged)
        BY <1>1
    <3> QED BY <1>0, <1>1, <1>2, <3>1 DEF AppliedInv
  <2>2. out = Part(Single(stream, N), Upto)
      BY <1>0 DEF MergedInv
  <2>3. shardOf \in [Locates -> Workers]
      BY <1>0 DEF ShardInv, ShardType
  <2>4. Upto \cap Own(w) = {} /\ Upto \cup Own(w) = {l \in Locates : shardOf[l] <= w}
      BY <1>1, <2>3 DEF Own, Workers
  <2> HIDE DEF N, Upto
  <2>5. out' = Part(Single(stream, N), {l \in Locates : shardOf[l] <= w})
      BY <1>1, <2>1, <2>2, <2>4, PartMerge
  <2> QED BY <1>1, <1>3, <2>5 DEF MergedInv, N
<1> QED BY <1>0, <1>5, <1>6, <1>7 DEF SameInv

LEMMA ReturnSame ==
    ASSUME SameInv, Return
    PROVE  SameInv'
<1>0. ShardInv /\ ShardInv' /\ RingInv /\ AppliedInv /\ MergedInv
    BY CallerKeeps DEF SameInv
<1>1. /\ merged = W /\ merged' = W + 1 /\ UNCHANGED <<stream, shardOf, n, ring, loc, books, out>>
      /\ W \in Nat \ {0}
    BY ShardAssumption DEF Return, workerVars
<1>2. \A v : Own(v)' = Own(v)
    BY <1>1 DEF Own
<1>3. \A v : Seen(v)' = Seen(v)
    BY <1>1 DEF Seen
<1>4. RingInv'
    BY <1>0, <1>1, <1>2, <1>3 DEF RingInv
<1>5. AppliedInv'
  <2>1. \A v \in Workers : v <= merged /\ v <= merged'
      BY <1>1 DEF Workers
  <2> QED BY <1>0, <1>1, <2>1 DEF AppliedInv
<1>6. MergedInv'
  <2>1. shardOf \in [Locates -> Workers]
      BY <1>0 DEF ShardInv, ShardType
  <2>2. {l \in Locates : shardOf[l] <= merged} = {l \in Locates : shardOf'[l] <= merged'}
      BY <1>1, <2>1 DEF Workers
  <2>3. /\ n = Len(stream) /\ \A w \in Workers : loc[w] = "exited"
        /\ out = Part(Single(stream, Len(stream)), {l \in Locates : shardOf[l] <= merged})
      BY <1>0, <1>1 DEF MergedInv
  <2>4. /\ n' = Len(stream') /\ \A w \in Workers : loc'[w] = "exited"
        /\ out' = Part(Single(stream', Len(stream')), {l \in Locates : shardOf'[l] <= merged'})
      BY <1>1, <2>2, <2>3
  <2> QED BY <2>4 DEF MergedInv
<1> QED BY <1>0, <1>4, <1>5, <1>6 DEF SameInv

LEMMA SameStep == SameInv /\ [Next]_vars => SameInv'
<1> SUFFICES ASSUME SameInv, [Next]_vars PROVE SameInv'
    OBVIOUS
<1>0. ShardInv'
    BY ShardStep DEF SameInv
<1>1. CASE Push
    BY <1>1, PushSame
<1>2. CASE Merge
    BY <1>2, MergeSame
<1>3. CASE Return
    BY <1>3, ReturnSame
<1>4. CASE SetDone \/ Terminated \/ UNCHANGED vars
    BY <1>0, <1>4, NothingAppliedSame DEF SetDone, workerVars, Terminated, vars
<1>5. ASSUME NEW w \in Workers, WorkerNext(w) PROVE SameInv'
  <2>1. CASE PopApply(w)
      BY <2>1, PopApplySame
  <2>2. CASE PopFails(w) \/ SeesDone(w) \/ SeesNotDone(w)
    <3>1. UNCHANGED <<stream, shardOf, n, ring, books, out, merged>>
        BY <2>2 DEF PopFails, SeesDone, SeesNotDone
    <3>2. ASSUME NEW v \in Workers, loc[v] = "exited" PROVE loc'[v] = "exited"
        BY <2>2, <3>2 DEF PopFails, SeesDone, SeesNotDone, SameInv, ShardInv, ShardType
    <3> QED BY <1>0, <3>1, <3>2, NothingAppliedSame
  <2> QED BY <1>5, <2>1, <2>2 DEF WorkerNext
<1> QED BY <1>1, <1>2, <1>3, <1>4, <1>5 DEF Next, CallerNext

LEMMA SameMeans == SameInv => SameAsSingleThreaded
<1> SUFFICES ASSUME SameInv, Returned
             PROVE  out = Single(stream, Len(stream)) /\ n = Len(stream)
    BY SingleIsReference DEF SameAsSingleThreaded
<1>1. merged = W + 1 /\ merged > 0 /\ shardOf \in [Locates -> Workers] /\ stream \in Seq(Msg)
    BY ShardAssumption DEF Returned, SameInv, ShardInv, ShardType
<1>2. {l \in Locates : shardOf[l] <= merged} = Locates
    BY <1>1, ShardAssumption DEF Workers
<1>3. Maps(Single(stream, Len(stream)))
    BY <1>1, SingleThreadedMaps
<1> QED BY <1>1, <1>2, <1>3, PartAll DEF SameInv, MergedInv
-----------------------------------------------------------------------------
\* The invariant the theorems share.
THEOREM ShardInvariant == Spec => []ShardInv
    BY ShardInit, ShardStep, PTL DEF Spec

\* No ring exceeds its capacity and no worker is bound to see what is not there.
THEOREM ShardTypeCorrect == Spec => []TypeOK
<1>1. ShardInv => TypeOK
    BY DEF ShardInv, ShardType, TypeOK
<1> QED BY <1>1, ShardInvariant, PTL

\* A worker leaves its loop only when the stream is exhausted and its ring empty: the
\* acquire load of done, between the two failed pops, covers every push.
THEOREM ExitedIsDrained == Spec => []ExitedMeansDrained
<1>1. ShardInv => ExitedMeansDrained
    BY DEF ShardInv, DoneInv, ExitedMeansDrained
<1> QED BY <1>1, ShardInvariant, PTL

\* The shards never share a symbol, so merge_from's emplace drops nothing.
THEOREM NoSharedSymbol == Spec => []ShardsDisjoint
<1>1. ASSUME ShardInv, NEW v \in Workers, NEW w \in Workers, v # w
      PROVE  Known(books[v]) \cap Known(books[w]) = {}
  <2>1. Known(books[v]) \subseteq Own(v) /\ Known(books[w]) \subseteq Own(w)
      BY <1>1 DEF ShardInv, RoutedInv
  <2>2. Own(v) \cap Own(w) = {}
      BY <1>1 DEF Own
  <2> QED BY <2>1, <2>2
<1>2. ShardInv => ShardsDisjoint
    BY <1>1 DEF ShardsDisjoint, Known
<1> QED BY <1>2, ShardInvariant, PTL
\* When the call returns, the merged set is the one a single-threaded replay of the
\* whole stream builds, symbol by symbol and message by message, and every message was
\* pushed: whatever the interleaving of the workers, the hash and the ring capacity.
THEOREM ShardedSameAsSingleThreaded == Spec => []SameAsSingleThreaded
    BY SameInit, SameStep, SameMeans, PTL DEF Spec
=============================================================================
