------------------------- MODULE LevelStoresProofs --------------------------
(***************************************************************************)
(* Proofs that the three level stores are interchangeable: after the same  *)
(* calls they hold the same levels, report the same best one and hand out  *)
(* the same top n, for every finite set of prices, every window size and   *)
(* every quantity width.                                                   *)
(*                                                                         *)
(* The map is the reference.  What the other two keep is an invariant of   *)
(* each by itself: the vector lists the levels of the map in Compare       *)
(* order; the window shows the levels between base_ and base_ + kWindow,   *)
(* the overflow the others, and best_idx_ is the first filled slot.        *)
(***************************************************************************)
EXTENDS LevelStores, FiniteSetTheorems, FunctionTheorems, NaturalsInduction,
        WellFoundedInduction, TLAPS

-----------------------------------------------------------------------------
(* Induction. *)

LEMMA LeastNat ==
    ASSUME NEW T, T \subseteq Nat, T # {}
    PROVE  \E x \in T : \A y \in T : x <= y
<1>1. IsWellFoundedOn(OpToRel(<, Nat), Nat)
    BY NatLessThanWellFounded
<1>2. PICK x \in T : \A y \in T : ~ (<<y, x>> \in OpToRel(<, Nat))
    BY <1>1, WFMin
<1>3. \A y \in T : ~ (y < x)
    BY <1>2 DEF OpToRel
<1> QED BY <1>3

LEMMA Induction ==
    ASSUME NEW T, 0 \in T, \A k \in Nat : k \in T => k + 1 \in T
    PROVE  Nat \subseteq T
<1> SUFFICES ASSUME Nat \ T # {} PROVE FALSE
    OBVIOUS
<1>1. PICK x \in Nat \ T : \A y \in Nat \ T : x <= y
    BY LeastNat
<1>2. x # 0 /\ x - 1 \in Nat
    BY <1>1
<1>3. x - 1 \in T
    BY <1>1, <1>2
<1> QED BY <1>1, <1>2, <1>3

-----------------------------------------------------------------------------
(* Compare order. *)

LEMMA BetterOrder ==
    ASSUME NEW s
    PROVE  /\ \A a \in Int : ~Better(s, a, a)
           /\ \A a, b \in Int : a # b => Better(s, a, b) \/ Better(s, b, a)
           /\ \A a, b \in Int : ~(Better(s, a, b) /\ Better(s, b, a))
           /\ \A a, b, c \in Int : Better(s, a, b) /\ Better(s, b, c) => Better(s, a, c)
           /\ \A a, b, d \in Int : Better(s, a, b) <=> Better(s, d + a, d + b)
    BY DEF Better

\* p is the first of the prices S.
IsFirst(s, S, p) == p \in S /\ \A r \in S : r # p => Better(s, p, r)

LEMMA FirstIs ==
    ASSUME NEW s, NEW S, S \subseteq Int, NEW p, IsFirst(s, S, p)
    PROVE  First(s, S) = p
<1>1. \A r \in S : ~Better(s, r, p)
    BY BetterOrder DEF IsFirst
<1>2. \A x \in S : (\A r \in S : ~Better(s, r, x)) => x = p
    BY DEF IsFirst
<1> QED BY <1>1, <1>2 DEF First, IsFirst

\* A finite set of prices has a first one.
LEMMA FirstOf ==
    ASSUME NEW s, NEW S, S \subseteq Int, IsFiniteSet(S), S # {}
    PROVE  IsFirst(s, S, First(s, S))
<1> DEFINE T == {U \in SUBSET S : U # {} => \E p : IsFirst(s, U, p)}
<1>1. S \in T
  <2> SUFFICES ASSUME (SUBSET S) \ T # {} PROVE FALSE
      OBVIOUS
  <2>1. PICK U \in (SUBSET S) \ T :
            \A Y \in (SUBSET S) \ T : ~ (<<Y, U>> \in StrictSubsetOrdering(S))
    <3>1. IsWellFoundedOn(StrictSubsetOrdering(S), FiniteSubsetsOf(S))
        BY FS_StrictSubsetOrderingWellFounded
    <3>2. (SUBSET S) \ T \subseteq FiniteSubsetsOf(S)
        BY FS_Subset DEF FiniteSubsetsOf
    <3> HIDE DEF T
    <3> QED BY <3>1, <3>2, WFMin
  <2>2. PICK x : x \in U
      BY <2>1
  <2>3. U \ {x} \in T
    <3>1. PICK Y \in SUBSET S : Y = U \ {x}
        BY <2>1
    <3>2. <<Y, U>> \in StrictSubsetOrdering(S)
        BY <2>1, <2>2, <3>1 DEF StrictSubsetOrdering
    <3> HIDE DEF T
    <3> QED BY <2>1, <3>1, <3>2
  <2>4. CASE U \ {x} = {}
    <3>1. IsFirst(s, U, x)
        BY <2>2, <2>4 DEF IsFirst
    <3> QED BY <2>1, <3>1
  <2>5. CASE U \ {x} # {}
    <3>1. PICK p : IsFirst(s, U \ {x}, p)
        BY <2>3, <2>5
    <3>2. p \in Int /\ x \in Int /\ p # x /\ p \in U /\ U \subseteq Int
        BY <2>1, <2>2, <3>1 DEF IsFirst
    <3>3. CASE Better(s, p, x)
      <4>1. IsFirst(s, U, p)
          BY <3>1, <3>2, <3>3 DEF IsFirst
      <4> QED BY <2>1, <4>1
    <3>4. CASE Better(s, x, p)
      <4>1. IsFirst(s, U, x)
          BY <2>2, <3>1, <3>2, <3>4, BetterOrder DEF IsFirst
      <4> QED BY <2>1, <4>1
    <3> QED BY <3>2, <3>3, <3>4, BetterOrder
  <2> QED BY <2>4, <2>5
<1>2. PICK p : IsFirst(s, S, p)
    BY <1>1
<1> QED BY <1>2, FirstIs

-----------------------------------------------------------------------------
(* The map. *)

Quantity == 1 .. QtyMod - 1

MapOK(L) ==
    /\ L = [p \in DOMAIN L |-> L[p]]
    /\ DOMAIN L \subseteq Prices
    /\ \A p \in DOMAIN L : L[p] \in Quantity

\* M is L with a total of a at price p, and no level there if that is 0.
Changed(L, M, p, a) ==
    /\ MapOK(L) /\ MapOK(M) /\ p \in Prices /\ a \in 0 .. QtyMod - 1
    /\ \A x : At(M, x) = IF x = p THEN a ELSE At(L, x)

LEMMA MapAt ==
    ASSUME NEW L, MapOK(L)
    PROVE  /\ \A p : At(L, p) \in 0 .. QtyMod - 1
           /\ \A p : p \in DOMAIN L <=> At(L, p) # 0
           /\ IsFiniteSet(DOMAIN L) /\ DOMAIN L \subseteq Int
<1>0. QtyMod \in Nat /\ QtyMod > 0
    BY QtyModAssumption
<1>1. \A p : At(L, p) \in 0 .. QtyMod - 1
    BY <1>0 DEF MapOK, At, Quantity
<1>2. \A p : p \in DOMAIN L <=> At(L, p) # 0
    BY <1>0 DEF MapOK, At, Quantity
<1>3. IsFiniteSet(DOMAIN L)
    BY StoresAssumption, FS_Subset DEF MapOK
<1> QED BY <1>1, <1>2, <1>3, StoresAssumption DEF MapOK

\* Maps with the same totals are the same.
LEMMA MapSame ==
    ASSUME NEW L, NEW M, MapOK(L), MapOK(M), \A p : At(L, p) = At(M, p)
    PROVE  L = M
<1>1. DOMAIN L = DOMAIN M
    BY MapAt
<1>2. \A p \in DOMAIN L : L[p] = M[p]
    BY <1>1 DEF At
<1> QED BY <1>1, <1>2 DEF MapOK

LEMMA Modulo == \A a \in Int : a % QtyMod \in 0 .. QtyMod - 1
    BY QtyModAssumption

LEMMA IncChanges ==
    ASSUME NEW L, MapOK(L), NEW p \in Prices, NEW q \in 0 .. MaxQty,
           (At(L, p) + q) % QtyMod # 0
    PROVE  Changed(L, Inc(L, p, q), p, (At(L, p) + q) % QtyMod)
<1> DEFINE a == (At(L, p) + q) % QtyMod
           M == Inc(L, p, q)
<1>1. a \in 0 .. QtyMod - 1 /\ a # 0
  <2>1. At(L, p) + q \in Int
      BY MapAt, QtyModAssumption, StoresAssumption
  <2> QED BY <2>1, Modulo
<1>2. a \in Quantity
    BY <1>1, QtyModAssumption DEF Quantity
<1>3. M = [x \in DOMAIN L \cup {p} |-> IF x = p THEN a ELSE L[x]]
    BY DEF Inc
<1> HIDE DEF a, M
<1>4. MapOK(M)
    BY <1>2, <1>3 DEF MapOK
<1>5. \A x : At(M, x) = IF x = p THEN a ELSE At(L, x)
    BY <1>3 DEF At
<1>6. Changed(L, M, p, a)
    BY <1>1, <1>4, <1>5 DEF Changed
<1> QED BY <1>6 DEF a, M

LEMMA DecChanges ==
    ASSUME NEW L, MapOK(L), NEW p \in Prices, NEW q \in 0 .. MaxQty
    PROVE  Changed(L, Dec(L, p, q), p,
                   IF p \in DOMAIN L THEN (At(L, p) - q) % QtyMod ELSE 0)
<1> DEFINE left == (At(L, p) - q) % QtyMod
           M == Dec(L, p, q)
<1>1. left \in 0 .. QtyMod - 1
  <2>1. At(L, p) - q \in Int
      BY MapAt, QtyModAssumption, StoresAssumption
  <2> QED BY <2>1, Modulo
<1>0. QtyMod \in Nat /\ QtyMod > 0
    BY QtyModAssumption
<1>2. M = IF p \in DOMAIN L /\ left = 0
            THEN [x \in DOMAIN L \ {p} |-> L[x]]
            ELSE [x \in DOMAIN L |-> IF x = p THEN left ELSE L[x]]
    BY DEF Dec
<1> HIDE DEF left, M
<1>3. CASE p \in DOMAIN L /\ left = 0
  <2>1. M = [x \in DOMAIN L \ {p} |-> L[x]]
      BY <1>2, <1>3
  <2>2. MapOK(M) /\ \A x : At(M, x) = IF x = p THEN left ELSE At(L, x)
      BY <1>3, <2>1 DEF MapOK, At
  <2>3. Changed(L, M, p, left)
      BY <1>1, <2>2 DEF Changed
  <2> QED BY <1>3, <2>3 DEF left, M
<1>4. CASE p \in DOMAIN L /\ left # 0
  <2>1. M = [x \in DOMAIN L |-> IF x = p THEN left ELSE L[x]]
      BY <1>2, <1>4
  <2>2. left \in Quantity
      BY <1>0, <1>1, <1>4 DEF Quantity
  <2>3. MapOK(M)
      BY <2>1, <2>2 DEF MapOK
  <2>4. \A x : At(M, x) = IF x = p THEN left ELSE At(L, x)
      BY <1>4, <2>1 DEF At
  <2>5. Changed(L, M, p, left)
      BY <1>1, <2>3, <2>4 DEF Changed
  <2> QED BY <1>4, <2>5 DEF left, M
<1>5. CASE p \notin DOMAIN L
  <2>1. M = [x \in DOMAIN L |-> L[x]]
      BY <1>2, <1>5
  <2>2. M = L /\ At(L, p) = 0
      BY <1>5, <2>1 DEF MapOK, At
  <2>3. 0 \in 0 .. QtyMod - 1
      BY <1>0
  <2>4. Changed(L, M, p, 0)
      BY <2>2, <2>3 DEF Changed
  <2> QED BY <1>5, <2>4 DEF M
<1> QED BY <1>3, <1>4, <1>5
-----------------------------------------------------------------------------
(* The vector. *)

Level == Prices \X Quantity

\* Its pairs are in Compare order.
Ordered(s, V) == \A i, j \in 1 .. Len(V) : i < j => Better(s, V[i][1], V[j][1])

\* V lists the levels of L.
Lists(s, V, L) ==
    /\ V \in Seq(Level) /\ Ordered(s, V)
    /\ \A i \in 1 .. Len(V) : V[i][2] = At(L, V[i][1])
    /\ \A p \in DOMAIN L : \E i \in 1 .. Len(V) : V[i][1] = p

LEMMA PairAt ==
    ASSUME NEW V \in Seq(Level), NEW i \in 1 .. Len(V)
    PROVE  /\ V[i][1] \in Prices /\ V[i][1] \in Int /\ V[i][2] \in Quantity /\ V[i][2] # 0
           /\ V[i] = <<V[i][1], V[i][2]>>
<1>1. V[i] \in Level
    OBVIOUS
<1>2. V[i][1] \in Prices /\ V[i][2] \in Quantity
    BY <1>1 DEF Level
<1>5. V[i] = <<V[i][1], V[i][2]>>
    BY <1>1 DEF Level
<1>0. Prices \subseteq Int
    BY StoresAssumption
<1>3. V[i][1] \in Int
    BY <1>0, <1>2
<1>4. \A a \in Quantity : a # 0
    BY QtyModAssumption DEF Quantity
<1> QED BY <1>2, <1>3, <1>4, <1>5

LEMMA ListsDomain ==
    ASSUME NEW s, NEW V, NEW L, MapOK(L), Lists(s, V, L)
    PROVE  \A i \in 1 .. Len(V) : V[i][1] \in DOMAIN L /\ V[i][2] = L[V[i][1]]
    BY PairAt, MapAt DEF Lists, At

\* Where lower_bound stops.
LEMMA FindIs ==
    ASSUME NEW s, NEW V \in Seq(Level), NEW p \in Int
    PROVE  LET i == Find(s, V, p)
           IN  /\ i \in 1 .. Len(V) + 1
               /\ i <= Len(V) => ~Better(s, V[i][1], p)
               /\ \A j \in 1 .. i - 1 : Better(s, V[j][1], p)
<1> DEFINE T == {i \in 1 .. Len(V) + 1 : i <= Len(V) => ~Better(s, V[i][1], p)}
           F(i) == /\ i <= Len(V) => ~Better(s, V[i][1], p)
                   /\ \A j \in 1 .. i - 1 : Better(s, V[j][1], p)
<1>0. Len(V) \in Nat
    OBVIOUS
<1>1. Len(V) + 1 \in T /\ T \subseteq Nat
    BY <1>0
<1>2. PICK i \in T : \A j \in T : i <= j
  <2> HIDE DEF T
  <2> QED BY <1>1, LeastNat
<1>3. i \in 1 .. Len(V) + 1
    OBVIOUS
<1>4. \A j \in 1 .. i - 1 : j \notin T /\ j \in 1 .. Len(V) + 1
  <2> HIDE DEF T
  <2> QED BY <1>0, <1>2, <1>3
<1>5. F(i)
    BY <1>2, <1>4
<1>6. Find(s, V, p) = CHOOSE k \in 1 .. Len(V) + 1 : F(k)
    BY DEF Find
<1> HIDE DEF F
<1>7. Find(s, V, p) \in 1 .. Len(V) + 1 /\ F(Find(s, V, p))
    BY <1>3, <1>5, <1>6
<1> QED BY <1>7 DEF F

\* It stops at the level of p, if there is one.
LEMMA FindLevel ==
    ASSUME NEW s, NEW V, NEW L, MapOK(L), Lists(s, V, L), NEW p \in Prices
    PROVE  LET i == Find(s, V, p)
           IN  /\ i \in 1 .. Len(V) + 1
               /\ Holds(V, i, p) <=> p \in DOMAIN L
               /\ \A j \in 1 .. i - 1 : Better(s, V[j][1], p)
               /\ \A j \in i .. Len(V) : V[j][1] # p => Better(s, p, V[j][1])
<1>0. V \in Seq(Level) /\ Ordered(s, V) /\ p \in Int /\ Len(V) \in Nat
    BY StoresAssumption DEF Lists
<1>1. PICK i : i = Find(s, V, p)
    OBVIOUS
<1>2. /\ i \in 1 .. Len(V) + 1
      /\ i <= Len(V) => ~Better(s, V[i][1], p)
      /\ \A j \in 1 .. i - 1 : Better(s, V[j][1], p)
    BY <1>0, <1>1, FindIs
<1>3. \A j \in 1 .. Len(V) : V[j][1] \in Int
    BY <1>0, PairAt
<1>4. ASSUME NEW j \in i .. Len(V), V[j][1] # p PROVE Better(s, p, V[j][1])
  <2>1. j \in 1 .. Len(V) /\ i \in 1 .. Len(V)
      BY <1>0, <1>2
  <2>2. ~Better(s, V[j][1], p)
    <3>1. CASE j = i
        BY <1>2, <2>1, <3>1
    <3>2. CASE j # i
      <4>1. Better(s, V[i][1], V[j][1])
          BY <1>0, <2>1, <3>2 DEF Ordered
      <4>2. PICK a \in Int, b \in Int : a = V[i][1] /\ b = V[j][1]
          BY <1>3, <2>1
      <4>3. Better(s, a, b) /\ ~Better(s, a, p)
          BY <1>2, <2>1, <4>1, <4>2
      <4> QED BY <1>0, <4>2, <4>3, BetterOrder, SMTT(30)
    <3> QED BY <3>1, <3>2
  <2> QED BY <1>0, <1>3, <1>4, <2>1, <2>2, BetterOrder
<1>5. ASSUME p \in DOMAIN L PROVE Holds(V, i, p)
  <2>1. PICK k \in 1 .. Len(V) : V[k][1] = p
      BY <1>5 DEF Lists
  <2>2. ~(k < i)
    <3>1. k < i => Better(s, p, p)
        BY <1>2, <2>1
    <3> QED BY <1>0, <3>1, BetterOrder
  <2>3. ~(i < k)
    <3>1. i < k => i \in 1 .. Len(V) /\ Better(s, V[i][1], p)
        BY <1>0, <1>2, <2>1 DEF Ordered
    <3> QED BY <1>0, <1>2, <3>1
  <2>4. k = i
      BY <1>0, <1>2, <2>1, <2>2, <2>3
  <2> QED BY <1>0, <2>1, <2>4 DEF Holds
<1>6. ASSUME Holds(V, i, p) PROVE p \in DOMAIN L
  <2>1. i \in 1 .. Len(V) /\ V[i][1] = p
      BY <1>0, <1>2, <1>6 DEF Holds
  <2> QED BY <2>1, ListsDomain
<1> QED BY <1>1, <1>2, <1>4, <1>5, <1>6

LEMMA FlatAtIs ==
    ASSUME NEW s, NEW V, NEW L, MapOK(L), Lists(s, V, L), NEW p \in Prices
    PROVE  FlatAt(s, V, p) = At(L, p)
<1>1. PICK i : i = Find(s, V, p)
    OBVIOUS
<1>2. i \in 1 .. Len(V) + 1 /\ (Holds(V, i, p) <=> p \in DOMAIN L)
    BY <1>1, FindLevel
<1>3. FlatAt(s, V, p) = IF Holds(V, i, p) THEN V[i][2] ELSE 0
    BY <1>1 DEF FlatAt
<1>4. CASE p \in DOMAIN L
  <2>1. i \in 1 .. Len(V) /\ V[i][1] = p
      BY <1>2, <1>4 DEF Holds
  <2> QED BY <1>2, <1>3, <1>4, <2>1 DEF Lists
<1>5. CASE p \notin DOMAIN L
    BY <1>2, <1>3, <1>5 DEF At
<1> QED BY <1>4, <1>5

-----------------------------------------------------------------------------
(* The three ways a vector changes. *)

\* The total of level i is replaced.
LEMMA ReplaceLevel ==
    ASSUME NEW s, NEW V, NEW L, NEW M, NEW p, NEW a, Lists(s, V, L), Changed(L, M, p, a),
           NEW i \in 1 .. Len(V), V[i][1] = p, a # 0
    PROVE  Lists(s, [V EXCEPT ![i] = <<p, a>>], M)
<1> DEFINE U == [V EXCEPT ![i] = <<p, a>>]
<1>0. V \in Seq(Level) /\ Ordered(s, V) /\ p \in Prices /\ Len(V) \in Nat
    BY DEF Lists, Changed
<1>1. <<p, a>> \in Level
    BY <1>0, QtyModAssumption DEF Level, Changed, Quantity
<1>2. U \in Seq(Level) /\ Len(U) = Len(V)
    BY <1>0, <1>1
<1>3. \A j \in 1 .. Len(V) : U[j] = IF j = i THEN <<p, a>> ELSE V[j]
    BY <1>0
<1>4. \A j \in 1 .. Len(V) : U[j][1] = V[j][1]
    BY <1>3
<1>5. \A j \in 1 .. Len(V) : j # i => V[j][1] # p
  <2> SUFFICES ASSUME NEW j \in 1 .. Len(V), j # i PROVE V[j][1] # p
      OBVIOUS
  <2>1. Better(s, V[j][1], V[i][1]) \/ Better(s, V[i][1], V[j][1])
      BY <1>0 DEF Ordered
  <2>2. ~Better(s, p, p)
      BY <1>0, StoresAssumption, BetterOrder
  <2> QED BY <2>1, <2>2
<1> HIDE DEF U
<1>6. Ordered(s, U)
    BY <1>0, <1>2, <1>4 DEF Ordered
<1>7. ASSUME NEW j \in 1 .. Len(U) PROVE U[j][2] = At(M, U[j][1])
  <2>1. CASE j = i
      BY <1>2, <1>3, <2>1 DEF Changed
  <2>2. CASE j # i
    <3>1. U[j] = V[j] /\ V[j][1] # p
        BY <1>2, <1>3, <1>5, <2>2
    <3>2. At(M, V[j][1]) = At(L, V[j][1])
        BY <3>1 DEF Changed
    <3> QED BY <1>2, <3>1, <3>2 DEF Lists
  <2> QED BY <2>1, <2>2
<1>8. ASSUME NEW r \in DOMAIN M PROVE \E j \in 1 .. Len(U) : U[j][1] = r
  <2>1. CASE r = p
      BY <1>2, <1>4, <2>1
  <2>2. CASE r # p
    <3>1. At(M, r) # 0
        BY MapAt DEF Changed
    <3>2. r \in DOMAIN L
        BY <2>2, <3>1, MapAt DEF Changed
    <3> QED BY <1>2, <1>4, <3>2 DEF Lists
  <2> QED BY <2>1, <2>2
<1>9. Lists(s, U, M)
    BY <1>2, <1>6, <1>7, <1>8 DEF Lists
<1> QED BY <1>9 DEF U

LEMMA InsertAtIs ==
    ASSUME NEW S, NEW V \in Seq(S), NEW i \in 1 .. Len(V) + 1, NEW e \in S
    PROVE  LET U == InsertAt(V, i, e)
           IN  /\ U \in Seq(S) /\ Len(U) = Len(V) + 1
               /\ \A j \in 1 .. Len(V) + 1 :
                     U[j] = IF j < i THEN V[j] ELSE IF j = i THEN e ELSE V[j - 1]
<1> DEFINE X == SubSeq(V, 1, i - 1)
           Y == SubSeq(V, i, Len(V))
           Z == X \o <<e>>
<1>0. Len(V) \in Nat
    OBVIOUS
<1>1. X \in Seq(S) /\ Len(X) = i - 1 /\ \A j \in 1 .. i - 1 : X[j] = V[j]
    BY <1>0
<1>2. Y \in Seq(S) /\ Len(Y) = Len(V) - i + 1 /\ \A j \in 1 .. Len(V) - i + 1 : Y[j] = V[i + j - 1]
    BY <1>0
<1> HIDE DEF X, Y
<1>3. Z \in Seq(S) /\ Len(Z) = i /\ (\A j \in 1 .. i - 1 : Z[j] = V[j]) /\ Z[i] = e
    BY <1>1
<1> HIDE DEF Z
<1>4. InsertAt(V, i, e) = Z \o Y
    BY DEF InsertAt, X, Y, Z
<1>5. Z \o Y \in Seq(S) /\ Len(Z \o Y) = Len(V) + 1
  <2>0. Z \in Seq(S) /\ Y \in Seq(S)
      BY <1>2, <1>3
  <2>1. Z \o Y \in Seq(S) /\ Len(Z \o Y) = Len(Z) + Len(Y)
      BY <2>0
  <2>2. Len(Z) + Len(Y) = Len(V) + 1
      BY <1>0, <1>2, <1>3
  <2> QED BY <2>1, <2>2
<1>6. ASSUME NEW j \in 1 .. Len(V) + 1
      PROVE  (Z \o Y)[j] = IF j < i THEN V[j] ELSE IF j = i THEN e ELSE V[j - 1]
  <2>1. CASE j < i
      BY <1>0, <1>2, <1>3, <2>1
  <2>2. CASE j = i
      BY <1>0, <1>2, <1>3, <2>2
  <2>3. CASE j > i
    <3>1. j - i \in 1 .. Len(V) - i + 1 /\ i + (j - i) - 1 = j - 1
        BY <1>0, <2>3
    <3>4. j \in 1 .. Len(Z) + Len(Y) /\ j > Len(Z) /\ j - Len(Z) = j - i
        BY <1>0, <1>2, <1>3, <2>3
    <3>2. (Z \o Y)[j] = Y[j - i]
        BY <1>2, <1>3, <3>4
    <3>3. Y[j - i] = V[j - 1]
        BY <1>2, <3>1
    <3> QED BY <2>3, <3>2, <3>3
  <2>4. j < i \/ j = i \/ j > i
      BY <1>0
  <2> QED BY <2>1, <2>2, <2>3, <2>4
<1> QED BY <1>4, <1>5, <1>6

LEMMA RemoveAtIs ==
    ASSUME NEW S, NEW V \in Seq(S), NEW i \in 1 .. Len(V)
    PROVE  LET U == RemoveAt(V, i)
           IN  /\ U \in Seq(S) /\ Len(U) = Len(V) - 1
               /\ \A j \in 1 .. Len(V) - 1 : U[j] = IF j < i THEN V[j] ELSE V[j + 1]
<1> DEFINE X == SubSeq(V, 1, i - 1)
           Y == SubSeq(V, i + 1, Len(V))
<1>0. Len(V) \in Nat
    OBVIOUS
<1>1. X \in Seq(S) /\ Len(X) = i - 1 /\ \A j \in 1 .. i - 1 : X[j] = V[j]
    BY <1>0
<1>2. Y \in Seq(S) /\ Len(Y) = Len(V) - i /\ \A j \in 1 .. Len(V) - i : Y[j] = V[i + j]
    BY <1>0
<1>3. RemoveAt(V, i) = X \o Y
    BY DEF RemoveAt
<1> HIDE DEF X, Y
<1>4. X \o Y \in Seq(S) /\ Len(X \o Y) = Len(V) - 1
  <2>0. X \in Seq(S) /\ Y \in Seq(S)
      BY <1>1, <1>2
  <2>1. X \o Y \in Seq(S) /\ Len(X \o Y) = Len(X) + Len(Y)
      BY <2>0
  <2>2. Len(X) + Len(Y) = Len(V) - 1
      BY <1>0, <1>1, <1>2
  <2> QED BY <2>1, <2>2
<1>5. ASSUME NEW j \in 1 .. Len(V) - 1
      PROVE  (X \o Y)[j] = IF j < i THEN V[j] ELSE V[j + 1]
  <2>1. CASE j < i
      BY <1>0, <1>1, <1>2, <2>1
  <2>2. CASE j >= i
    <3>1. j - i + 1 \in 1 .. Len(V) - i /\ i + (j - i + 1) = j + 1
        BY <1>0, <2>2
    <3>4. j \in 1 .. Len(X) + Len(Y) /\ j > Len(X) /\ j - Len(X) = j - i + 1
        BY <1>0, <1>1, <1>2, <2>2
    <3>2. (X \o Y)[j] = Y[j - i + 1]
        BY <1>1, <1>2, <3>4
    <3>3. Y[j - i + 1] = V[j + 1]
      <4>1. PICK q \in 1 .. Len(V) - i : q = j - i + 1 /\ i + q = j + 1
          BY <3>1
      <4>2. Y[q] = V[i + q]
          BY <1>2
      <4> QED BY <4>1, <4>2
    <3> QED BY <2>2, <3>2, <3>3
  <2>4. j < i \/ j >= i
      BY <1>0
  <2> QED BY <2>1, <2>2, <2>4
<1> QED BY <1>3, <1>4, <1>5

\* A new level is inserted where lower_bound stopped.
LEMMA InsertLevel ==
    ASSUME NEW s, NEW V, NEW L, NEW M, NEW p, NEW a, Lists(s, V, L), Changed(L, M, p, a), a # 0,
           NEW i \in 1 .. Len(V) + 1, p \notin DOMAIN L,
           \A j \in 1 .. i - 1 : Better(s, V[j][1], p),
           \A j \in i .. Len(V) : V[j][1] # p => Better(s, p, V[j][1])
    PROVE  Lists(s, InsertAt(V, i, <<p, a>>), M)
<1>0. V \in Seq(Level) /\ Ordered(s, V) /\ p \in Prices /\ Len(V) \in Nat
    BY DEF Lists, Changed
<1>1. PICK e \in Level : e = <<p, a>>
  <2>1. <<p, a>> \in Level
      BY <1>0, QtyModAssumption DEF Level, Changed, Quantity
  <2> QED BY <2>1
<1>2. PICK U : U = InsertAt(V, i, e)
    OBVIOUS
<1>3. U \in Seq(Level) /\ Len(U) = Len(V) + 1
    BY <1>0, <1>2, InsertAtIs
<1>4. \A j \in 1 .. Len(V) + 1 :
         U[j] = IF j < i THEN V[j] ELSE IF j = i THEN e ELSE V[j - 1]
    BY <1>0, <1>2, InsertAtIs, SMTT(30)
<1>5. \A j \in 1 .. Len(V) : V[j][1] # p
    BY ListsDomain DEF Changed
<1>6. ASSUME NEW j \in 1 .. Len(U), NEW k \in 1 .. Len(U), j < k
      PROVE  Better(s, U[j][1], U[k][1])
  <2>0. i \in Int /\ j \in Int /\ k \in Int
      BY <1>0
  <2>1. CASE k < i
    <3>1. U[j] = V[j] /\ U[k] = V[k] /\ j \in 1 .. Len(V) /\ k \in 1 .. Len(V)
        BY <1>0, <1>3, <1>4, <1>6, <2>1
    <3> QED BY <1>0, <1>6, <3>1 DEF Ordered
  <2>2. CASE k = i
    <3>1. U[j] = V[j] /\ U[k] = e /\ j \in 1 .. i - 1
        BY <1>0, <1>3, <1>4, <1>6, <2>2
    <3> QED BY <1>1, <3>1
  <2>3. CASE k > i /\ j = i
    <3>1. U[j] = e /\ U[k] = V[k - 1] /\ k - 1 \in i .. Len(V) /\ k - 1 \in 1 .. Len(V)
        BY <1>0, <1>3, <1>4, <1>6, <2>3
    <3> QED BY <1>1, <1>5, <3>1
  <2>4. CASE k > i /\ j < i
    <3>1. U[j] = V[j] /\ U[k] = V[k - 1] /\ j < k - 1 /\ j \in 1 .. Len(V) /\ k - 1 \in 1 .. Len(V)
        BY <1>0, <1>3, <1>4, <1>6, <2>4
    <3> QED BY <1>0, <3>1 DEF Ordered
  <2>5. CASE k > i /\ j > i
    <3>1. /\ U[j] = V[j - 1] /\ U[k] = V[k - 1] /\ j - 1 < k - 1
          /\ j - 1 \in 1 .. Len(V) /\ k - 1 \in 1 .. Len(V)
        BY <1>0, <1>3, <1>4, <1>6, <2>5
    <3> QED BY <1>0, <3>1 DEF Ordered
  <2>6. k < i \/ k = i \/ (k > i /\ j = i) \/ (k > i /\ j < i) \/ (k > i /\ j > i)
      BY <2>0
  <2> QED BY <2>1, <2>2, <2>3, <2>4, <2>5, <2>6
<1>7. \A j \in 1 .. Len(V) : V[j][2] = At(M, V[j][1])
    BY <1>5 DEF Lists, Changed
<1>8. ASSUME NEW j \in 1 .. Len(U) PROVE U[j][2] = At(M, U[j][1])
  <2>1. CASE j = i
      BY <1>1, <1>3, <1>4, <2>1 DEF Changed
  <2>2. CASE j < i
    <3>1. U[j] = V[j] /\ j \in 1 .. Len(V)
        BY <1>0, <1>3, <1>4, <2>2
    <3> QED BY <1>7, <3>1
  <2>3. CASE j > i
    <3>1. U[j] = V[j - 1] /\ j - 1 \in 1 .. Len(V)
        BY <1>0, <1>3, <1>4, <2>3
    <3> QED BY <1>7, <3>1
  <2>4. j < i \/ j = i \/ j > i
      BY <1>0
  <2> QED BY <2>1, <2>2, <2>3, <2>4
<1>9. ASSUME NEW r \in DOMAIN M PROVE \E j \in 1 .. Len(U) : U[j][1] = r
  <2>1. CASE r = p
    <3>1. i \in 1 .. Len(U) /\ U[i] = e
        BY <1>0, <1>3, <1>4
    <3> QED BY <1>1, <2>1, <3>1
  <2>2. CASE r # p
    <3>1. At(M, r) # 0
        BY MapAt DEF Changed
    <3>2. r \in DOMAIN L
        BY <2>2, <3>1, MapAt DEF Changed
    <3>3. PICK k \in 1 .. Len(V) : V[k][1] = r
        BY <3>2 DEF Lists
    <3>4. CASE k < i
      <4>1. k \in 1 .. Len(U) /\ U[k] = V[k]
          BY <1>0, <1>3, <1>4, <3>4
      <4> QED BY <3>3, <4>1
    <3>5. CASE k >= i
      <4>1. k + 1 \in 1 .. Len(U) /\ U[k + 1] = V[k]
          BY <1>0, <1>3, <1>4, <3>5
      <4> QED BY <3>3, <4>1
    <3>6. k < i \/ k >= i
        BY <1>0
    <3> QED BY <3>4, <3>5, <3>6
  <2> QED BY <2>1, <2>2
<1>10. Ordered(s, U)
    BY <1>6 DEF Ordered
<1>11. Lists(s, U, M)
    BY <1>3, <1>8, <1>9, <1>10 DEF Lists
<1> QED BY <1>1, <1>2, <1>11

\* A level is erased.
LEMMA RemoveLevel ==
    ASSUME NEW s, NEW V, NEW L, NEW M, NEW p, Lists(s, V, L), Changed(L, M, p, 0),
           NEW i \in 1 .. Len(V), V[i][1] = p
    PROVE  Lists(s, RemoveAt(V, i), M)
<1>0. V \in Seq(Level) /\ Ordered(s, V) /\ p \in Prices /\ Len(V) \in Nat
    BY DEF Lists, Changed
<1>1. PICK U : U = RemoveAt(V, i)
    OBVIOUS
<1>2. U \in Seq(Level) /\ Len(U) = Len(V) - 1
    BY <1>0, <1>1, RemoveAtIs
<1>3. \A j \in 1 .. Len(V) - 1 : U[j] = IF j < i THEN V[j] ELSE V[j + 1]
    BY <1>0, <1>1, RemoveAtIs
<1>4. \A j \in 1 .. Len(V) : j # i => V[j][1] # p
  <2> SUFFICES ASSUME NEW j \in 1 .. Len(V), j # i PROVE V[j][1] # p
      OBVIOUS
  <2>1. Better(s, V[j][1], V[i][1]) \/ Better(s, V[i][1], V[j][1])
      BY <1>0 DEF Ordered
  <2>2. ~Better(s, p, p)
      BY <1>0, StoresAssumption, BetterOrder
  <2> QED BY <2>1, <2>2
<1> DEFINE from(j) == IF j < i THEN j ELSE j + 1
<1>5. \A j \in 1 .. Len(U) : from(j) \in 1 .. Len(V) /\ from(j) # i /\ U[j] = V[from(j)]
    BY <1>0, <1>2, <1>3
<1>6. \A j, k \in 1 .. Len(U) : j < k => from(j) < from(k)
    BY <1>0, <1>2
<1>7. \A k \in 1 .. Len(V) : k # i => \E j \in 1 .. Len(U) : from(j) = k
  <2> SUFFICES ASSUME NEW k \in 1 .. Len(V), k # i PROVE \E j \in 1 .. Len(U) : from(j) = k
      OBVIOUS
  <2>1. CASE k < i
      BY <1>0, <1>2, <2>1
  <2>2. CASE k > i
    <3>1. k - 1 \in 1 .. Len(U) /\ from(k - 1) = k
        BY <1>0, <1>2, <2>2
    <3> QED BY <3>1
  <2> QED BY <1>0, <2>1, <2>2
<1> HIDE DEF from
<1>8. Ordered(s, U)
    BY <1>0, <1>5, <1>6 DEF Ordered
<1>9. \A j \in 1 .. Len(U) : U[j][2] = At(M, U[j][1])
    BY <1>4, <1>5 DEF Lists, Changed
<1>10. ASSUME NEW r \in DOMAIN M PROVE \E j \in 1 .. Len(U) : U[j][1] = r
  <2>1. At(M, r) # 0
      BY MapAt DEF Changed
  <2>2. r # p /\ r \in DOMAIN L
      BY <2>1, MapAt DEF Changed
  <2>3. PICK k \in 1 .. Len(V) : V[k][1] = r
      BY <2>2 DEF Lists
  <2>4. k # i
      BY <2>2, <2>3
  <2> QED BY <1>5, <1>7, <2>3, <2>4
<1>11. Lists(s, U, M)
    BY <1>2, <1>8, <1>9, <1>10 DEF Lists
<1> QED BY <1>1, <1>11

LEMMA FlatIncLists ==
    ASSUME NEW s, NEW V, NEW L, MapOK(L), Lists(s, V, L), NEW p \in Prices,
           NEW q \in 0 .. MaxQty, (At(L, p) + q) % QtyMod # 0
    PROVE  Lists(s, FlatInc(s, V, p, q), Inc(L, p, q))
<1>1. PICK a : a = (At(L, p) + q) % QtyMod
    OBVIOUS
<1>2. PICK i : i = Find(s, V, p)
    OBVIOUS
<1>3. /\ i \in 1 .. Len(V) + 1
      /\ Holds(V, i, p) <=> p \in DOMAIN L
      /\ \A j \in 1 .. i - 1 : Better(s, V[j][1], p)
      /\ \A j \in i .. Len(V) : V[j][1] # p => Better(s, p, V[j][1])
    BY <1>2, FindLevel
<1>4. Changed(L, Inc(L, p, q), p, a) /\ a # 0
    BY <1>1, IncChanges
<1>5. FlatInc(s, V, p, q) = IF Holds(V, i, p) THEN [V EXCEPT ![i] = <<p, (V[i][2] + q) % QtyMod>>]
                            ELSE InsertAt(V, i, <<p, q>>)
    BY <1>2 DEF FlatInc
<1>6. CASE p \in DOMAIN L
  <2>1. i \in 1 .. Len(V) /\ V[i][1] = p
      BY <1>3, <1>6 DEF Holds
  <2>2. (V[i][2] + q) % QtyMod = a
      BY <1>1, <2>1 DEF Lists
  <2>3. FlatInc(s, V, p, q) = [V EXCEPT ![i] = <<p, a>>]
      BY <1>3, <1>5, <1>6, <2>2
  <2>4. Lists(s, [V EXCEPT ![i] = <<p, a>>], Inc(L, p, q))
      BY <1>4, <2>1, ReplaceLevel
  <2> QED BY <2>3, <2>4
<1>7. CASE p \notin DOMAIN L
  <2>1. At(L, p) = 0 /\ q \in Nat /\ q < QtyMod
      BY <1>7, StoresAssumption, QtyModAssumption DEF At
  <2>2. a = q
      BY <1>1, <2>1, QtyModAssumption
  <2>3. FlatInc(s, V, p, q) = InsertAt(V, i, <<p, a>>)
      BY <1>3, <1>5, <1>7, <2>2
  <2> QED BY <1>3, <1>4, <1>7, <2>3, InsertLevel
<1> QED BY <1>6, <1>7

LEMMA FlatDecLists ==
    ASSUME NEW s, NEW V, NEW L, MapOK(L), Lists(s, V, L), NEW p \in Prices, NEW q \in 0 .. MaxQty
    PROVE  Lists(s, FlatDec(s, V, p, q), Dec(L, p, q))
<1>2. PICK i : i = Find(s, V, p)
    OBVIOUS
<1>3. i \in 1 .. Len(V) + 1 /\ (Holds(V, i, p) <=> p \in DOMAIN L)
    BY <1>2, FindLevel
<1>4. Changed(L, Dec(L, p, q), p, IF p \in DOMAIN L THEN (At(L, p) - q) % QtyMod ELSE 0)
    BY DecChanges
<1>5. PICK left : left = (V[i][2] - q) % QtyMod
    OBVIOUS
<1>6. FlatDec(s, V, p, q) = IF ~Holds(V, i, p) THEN V
                            ELSE IF left = 0 THEN RemoveAt(V, i)
                            ELSE [V EXCEPT ![i] = <<p, left>>]
    BY <1>2, <1>5 DEF FlatDec
<1>7. CASE p \in DOMAIN L
  <2>1. i \in 1 .. Len(V) /\ V[i][1] = p
      BY <1>3, <1>7 DEF Holds
  <2>2. left = (At(L, p) - q) % QtyMod
      BY <1>5, <2>1 DEF Lists
  <2>3. Changed(L, Dec(L, p, q), p, left)
      BY <1>4, <1>7, <2>2
  <2>4. CASE left = 0
      BY <1>3, <1>6, <1>7, <2>1, <2>3, <2>4, RemoveLevel
  <2>5. CASE left # 0
      BY <1>3, <1>6, <1>7, <2>1, <2>3, <2>5, ReplaceLevel
  <2> QED BY <2>4, <2>5
<1>8. CASE p \notin DOMAIN L
  <2>1. FlatDec(s, V, p, q) = V
      BY <1>3, <1>6, <1>8
  <2>2. \A x : At(Dec(L, p, q), x) = At(L, x)
      BY <1>4, <1>8 DEF Changed, At
  <2>3. Dec(L, p, q) = L
      BY <1>4, <2>2, MapSame DEF Changed
  <2> QED BY <2>1, <2>3
<1> QED BY <1>7, <1>8

-----------------------------------------------------------------------------
(* What the vector reports. *)

LEMMA FlatPrices ==
    ASSUME NEW s, NEW V, NEW L, MapOK(L), Lists(s, V, L)
    PROVE  /\ \A i, j \in 1 .. Len(V) : V[i][1] = V[j][1] => i = j
           /\ \A i, j \in 1 .. Len(V) : Better(s, V[i][1], V[j][1]) <=> i < j
<1>0. V \in Seq(Level) /\ Ordered(s, V) /\ Len(V) \in Nat
    BY DEF Lists
<1>1. \A i \in 1 .. Len(V) : V[i][1] \in Int
    BY <1>0, PairAt
<1> SUFFICES ASSUME NEW i \in 1 .. Len(V), NEW j \in 1 .. Len(V)
             PROVE  (V[i][1] = V[j][1] => i = j) /\ (Better(s, V[i][1], V[j][1]) <=> i < j)
    OBVIOUS
<1>2. PICK a \in Int, b \in Int : a = V[i][1] /\ b = V[j][1]
    BY <1>1
<1>3. CASE i < j
  <2>1. Better(s, a, b)
      BY <1>0, <1>2, <1>3 DEF Ordered
  <2>2. a # b
      BY <2>1, BetterOrder
  <2> QED BY <1>2, <1>3, <2>1, <2>2
<1>4. CASE j < i
  <2>1. Better(s, b, a)
      BY <1>0, <1>2, <1>4 DEF Ordered
  <2>2. a # b /\ ~Better(s, a, b)
      BY <2>1, BetterOrder
  <2>3. ~(i < j)
      BY <1>4
  <2> QED BY <1>2, <2>2, <2>3
<1>5. CASE i = j
  <2>1. ~Better(s, a, a)
      BY BetterOrder
  <2> QED BY <1>2, <1>5, <2>1
<1>6. i < j \/ j < i \/ i = j
    OBVIOUS
<1> QED BY <1>3, <1>4, <1>5, <1>6

LEMMA Counted ==
    ASSUME NEW n \in Nat, NEW S, NEW f \in [1 .. n -> S],
           \A i, j \in 1 .. n : f[i] = f[j] => i = j,
           \A x \in S : \E i \in 1 .. n : f[i] = x
    PROVE  Cardinality(S) = n
<1>1. f \in Bijection(1 .. n, S)
    BY DEF Bijection, Injection, IsInjective, Surjection
<1>2. ExistsBijection(1 .. n, S)
    BY <1>1 DEF ExistsBijection
<1> QED BY <1>2, FS_CountingElements

LEMMA FlatSize ==
    ASSUME NEW s, NEW V, NEW L, MapOK(L), Lists(s, V, L)
    PROVE  Len(V) = Size(L)
<1> DEFINE f == [i \in 1 .. Len(V) |-> V[i][1]]
<1>0. Len(V) \in Nat
    BY DEF Lists
<1>1. f \in [1 .. Len(V) -> DOMAIN L]
    BY ListsDomain
<1>2. \A i, j \in 1 .. Len(V) : f[i] = f[j] => i = j
    BY FlatPrices
<1>3. \A p \in DOMAIN L : \E i \in 1 .. Len(V) : f[i] = p
    BY DEF Lists
<1> HIDE DEF f
<1> QED BY <1>0, <1>1, <1>2, <1>3, Counted DEF Size

LEMMA FlatBestIs ==
    ASSUME NEW s, NEW V, NEW L, MapOK(L), Lists(s, V, L)
    PROVE  FlatBest(V) = Best(s, L)
<1>0. V \in Seq(Level) /\ Len(V) \in Nat
    BY DEF Lists
<1>1. CASE V = <<>>
  <2>1. DOMAIN L = {}
      BY <1>1 DEF Lists
  <2> QED BY <1>1, <2>1 DEF FlatBest, Best
<1>2. CASE V # <<>>
  <2>1. 1 \in 1 .. Len(V)
      BY <1>0, <1>2
  <2>2. V[1][1] \in DOMAIN L /\ V[1][2] = L[V[1][1]]
      BY <2>1, ListsDomain
  <2>3. ASSUME NEW r \in DOMAIN L, r # V[1][1] PROVE Better(s, V[1][1], r)
    <3>1. PICK k \in 1 .. Len(V) : V[k][1] = r
        BY DEF Lists
    <3>2. 1 < k
        BY <1>0, <2>3, <3>1
    <3> QED BY <2>1, <3>1, <3>2 DEF Lists, Ordered
  <2>4. IsFirst(s, DOMAIN L, V[1][1])
      BY <2>2, <2>3 DEF IsFirst
  <2>5. First(s, DOMAIN L) = V[1][1]
      BY <2>4, MapAt, FirstIs
  <2>6. Best(s, L) = <<V[1][1], V[1][2]>>
      BY <2>2, <2>5 DEF Best
  <2>7. FlatBest(V) = V[1]
      BY <1>2 DEF FlatBest
  <2> QED BY <1>0, <2>1, <2>6, <2>7, PairAt
<1> QED BY <1>1, <1>2

\* The i-th price of the vector has i - 1 better ones.
LEMMA IthIs ==
    ASSUME NEW s, NEW V, NEW L, MapOK(L), Lists(s, V, L), NEW i \in 1 .. Len(V)
    PROVE  Ith(s, DOMAIN L, i) = V[i][1]
<1> DEFINE Before(p) == {r \in DOMAIN L : Better(s, r, p)}
<1>0. Len(V) \in Nat
    BY DEF Lists
<1>1. ASSUME NEW k \in 1 .. Len(V) PROVE Cardinality(Before(V[k][1])) = k - 1
  <2> DEFINE f == [j \in 1 .. k - 1 |-> V[j][1]]
             S == Before(V[k][1])
  <2>1. k - 1 \in Nat /\ \A j \in 1 .. k - 1 : j \in 1 .. Len(V) /\ j < k
      BY <1>0
  <2>2. f \in [1 .. k - 1 -> S]
      BY <2>1, ListsDomain, FlatPrices
  <2>3. \A a, b \in 1 .. k - 1 : f[a] = f[b] => a = b
      BY <2>1, FlatPrices
  <2>4. ASSUME NEW r \in S PROVE \E j \in 1 .. k - 1 : f[j] = r
    <3>1. PICK j \in 1 .. Len(V) : V[j][1] = r
        BY DEF Lists
    <3>2. j < k
        BY <3>1, FlatPrices
    <3> QED BY <1>0, <3>1, <3>2
  <2> HIDE DEF f, S
  <2>5. Cardinality(S) = k - 1
      BY <2>1, <2>2, <2>3, <2>4, Counted
  <2> QED BY <2>5 DEF S
<1>2. V[i][1] \in DOMAIN L /\ Cardinality(Before(V[i][1])) = i - 1
    BY <1>1, ListsDomain
<1>3. ASSUME NEW p \in DOMAIN L, Cardinality(Before(p)) = i - 1 PROVE p = V[i][1]
  <2>1. PICK k \in 1 .. Len(V) : V[k][1] = p
      BY DEF Lists
  <2>2. k - 1 = i - 1
      BY <1>1, <1>3, <2>1
  <2>3. k = i
      BY <1>0, <2>2
  <2> QED BY <2>1, <2>3
<1>4. Ith(s, DOMAIN L, i) = CHOOSE p \in DOMAIN L : Cardinality(Before(p)) = i - 1
    BY DEF Ith
<1> HIDE DEF Before
<1> QED BY <1>2, <1>3, <1>4

LEMMA TopIs ==
    ASSUME NEW s, NEW V, NEW L, MapOK(L), Lists(s, V, L), NEW n \in Nat
    PROVE  Top(s, L, n) = [i \in 1 .. IF Len(V) < n THEN Len(V) ELSE n |-> V[i]]
<1>0. V \in Seq(Level) /\ Len(V) \in Nat /\ Len(V) = Size(L)
    BY FlatSize DEF Lists
<1>1. PICK len \in Nat : len = IF Len(V) < n THEN Len(V) ELSE n
    BY <1>0
<1>2. ASSUME NEW i \in 1 .. len
      PROVE  <<Ith(s, DOMAIN L, i), L[Ith(s, DOMAIN L, i)]>> = V[i]
  <2>1. i \in 1 .. Len(V)
      BY <1>0, <1>1
  <2>2. Ith(s, DOMAIN L, i) = V[i][1] /\ L[V[i][1]] = V[i][2]
      BY <2>1, IthIs, ListsDomain
  <2> QED BY <1>0, <2>1, <2>2, PairAt
<1>3. Top(s, L, n) = [i \in 1 .. len |-> <<Ith(s, DOMAIN L, i), L[Ith(s, DOMAIN L, i)]>>]
    BY <1>0, <1>1 DEF Top
<1> QED BY <1>1, <1>2, <1>3

LEMMA FlatTopIs ==
    ASSUME NEW s, NEW V, NEW L, MapOK(L), Lists(s, V, L), NEW n \in Nat
    PROVE  FlatTop(V, n) = Top(s, L, n)
<1>0. V \in Seq(Level) /\ Len(V) \in Nat
    BY DEF Lists
<1>1. PICK len \in Nat : len = (IF Len(V) < n THEN Len(V) ELSE n) /\ len <= Len(V)
    BY <1>0
<1>2. FlatTop(V, n) = SubSeq(V, 1, len)
    BY <1>1 DEF FlatTop
<1>3. SubSeq(V, 1, len) = [i \in 1 .. len |-> V[i]]
    BY <1>0, <1>1
<1>4. Top(s, L, n) = [i \in 1 .. len |-> V[i]]
    BY <1>1, TopIs
<1> QED BY <1>2, <1>3, <1>4

-----------------------------------------------------------------------------
(* The window. *)

Index == 0 .. KWindow - 1
InWindow(b, p) == p >= b /\ p - b < KWindow

\* The filled slots of a window at b, and the levels outside it.
Inside(b, L) == {i \in Index : At(L, b + i) # 0}
Outside(b, L) == [p \in {x \in DOMAIN L : ~InWindow(b, x)} |-> L[p]]

WindowFields == {"slots", "overflow", "base", "best_idx", "count", "has_base"}

\* The window and the overflow show the levels of L.
Shows(s, W, L) ==
    /\ DOMAIN W = WindowFields /\ W.has_base = TRUE /\ W.base \in Nat
    /\ W.slots = [i \in Index |-> At(L, W.base + i)]
    /\ W.overflow = Outside(W.base, L)
    /\ W.count = Cardinality(Inside(W.base, L))
    /\ Inside(W.base, L) # {} => W.best_idx = First(s, Inside(W.base, L))

WindowedOK(s, W, L) == (W = NewWindowed /\ DOMAIN L = {}) \/ Shows(s, W, L)

LEMMA WindowSize == KWindow \in Nat /\ KWindow > 0 /\ Index \subseteq Int /\ IsFiniteSet(Index)
    BY KWindowAssumption, FS_Interval DEF Index

LEMMA InsideFinite ==
    ASSUME NEW b, NEW L
    PROVE  /\ IsFiniteSet(Inside(b, L)) /\ Inside(b, L) \subseteq Int
           /\ Cardinality(Inside(b, L)) \in Nat
           /\ Cardinality(Inside(b, L)) = 0 <=> Inside(b, L) = {}
<1>1. Inside(b, L) \subseteq Index
    BY DEF Inside
<1>2. IsFiniteSet(Inside(b, L)) /\ Inside(b, L) \subseteq Int
    BY <1>1, WindowSize, FS_Subset
<1> QED BY <1>2, FS_CardinalityType, FS_EmptySet

LEMMA OutsideOK ==
    ASSUME NEW b, NEW L, MapOK(L)
    PROVE  /\ MapOK(Outside(b, L))
           /\ \A x : At(Outside(b, L), x) = IF InWindow(b, x) THEN 0 ELSE At(L, x)
           /\ DOMAIN Outside(b, L) = {x \in DOMAIN L : ~InWindow(b, x)}
<1>1. DOMAIN Outside(b, L) = {x \in DOMAIN L : ~InWindow(b, x)}
    BY DEF Outside
<1>2. \A x \in DOMAIN Outside(b, L) : Outside(b, L)[x] = L[x]
    BY DEF Outside
<1>3. Outside(b, L) = [p \in DOMAIN Outside(b, L) |-> Outside(b, L)[p]]
    BY DEF Outside
<1>4. MapOK(Outside(b, L))
    BY <1>1, <1>2, <1>3 DEF MapOK
<1>5. \A x : At(Outside(b, L), x) = IF InWindow(b, x) THEN 0 ELSE At(L, x)
    BY <1>1, <1>2 DEF At
<1> QED BY <1>1, <1>4, <1>5

\* A price in the window is base_ plus an index, and the other way round.
LEMMA WindowIndex ==
    ASSUME NEW b \in Nat
    PROVE  /\ \A p \in Int : InWindow(b, p) <=> p - b \in Index
           /\ \A i \in Index : InWindow(b, b + i) /\ (b + i) - b = i /\ b + i \in Nat
           /\ \A p \in Int : b + (p - b) = p
    BY WindowSize DEF InWindow, Index

LEMMA ShowsFilled ==
    ASSUME NEW s, NEW W, NEW L, Shows(s, W, L)
    PROVE  Filled(W) = Inside(W.base, L)
<1>1. DOMAIN W.slots = Index
    BY DEF Shows
<1>2. \A i \in Index : W.slots[i] = At(L, W.base + i)
    BY DEF Shows
<1> QED BY <1>1, <1>2 DEF Filled, Inside

LEMMA ShowsWindow ==
    ASSUME NEW s, NEW W, NEW L, Shows(s, W, L)
    PROVE  \A p : in_window(W, p) <=> InWindow(W.base, p)
    BY DEF Shows, in_window, InWindow

LEMMA NewIsOutside == \A p : ~in_window(NewWindowed, p)
    BY DEF in_window, NewWindowed

LEMMA WindowedAtIs ==
    ASSUME NEW s, NEW W, NEW L, MapOK(L), WindowedOK(s, W, L), NEW p \in Prices
    PROVE  WindowedAt(W, p) = At(L, p)
<1>0. p \in Int
    BY StoresAssumption
<1>1. CASE W = NewWindowed /\ DOMAIN L = {}
  <2>1. WindowedAt(W, p) = At(EmptyLevels, p)
      BY <1>1, NewIsOutside DEF WindowedAt, NewWindowed
  <2> QED BY <1>1, <2>1 DEF At, EmptyLevels
<1>2. CASE Shows(s, W, L)
  <2>1. W.base \in Nat /\ W.slots = [i \in Index |-> At(L, W.base + i)]
        /\ W.overflow = Outside(W.base, L)
      BY <1>2 DEF Shows
  <2>2. CASE InWindow(W.base, p)
    <3>1. p - W.base \in Index /\ W.base + (p - W.base) = p
        BY <1>0, <2>1, <2>2, WindowIndex
    <3>2. W.slots[p - W.base] = At(L, p)
        BY <2>1, <3>1
    <3> QED BY <1>2, <2>2, <3>2, ShowsWindow DEF WindowedAt
  <2>3. CASE ~InWindow(W.base, p)
    <3>1. WindowedAt(W, p) = At(Outside(W.base, L), p)
        BY <1>2, <2>1, <2>3, ShowsWindow DEF WindowedAt
    <3> QED BY <2>3, <3>1, OutsideOK
  <2> QED BY <2>2, <2>3
<1> QED BY <1>1, <1>2 DEF WindowedOK

\* The levels inside the window, as prices.
WindowPrices(b, L) == {b + i : i \in Inside(b, L)}

LEMMA WindowPricesAre ==
    ASSUME NEW b \in Nat, NEW L, MapOK(L)
    PROVE  /\ WindowPrices(b, L) = {p \in DOMAIN L : InWindow(b, p)}
           /\ WindowPrices(b, L) \subseteq Int
           /\ Cardinality(WindowPrices(b, L)) = Cardinality(Inside(b, L))
<1>0. DOMAIN L \subseteq Int
    BY MapAt
<1>1. ASSUME NEW p \in WindowPrices(b, L) PROVE p \in DOMAIN L /\ InWindow(b, p)
  <2>1. PICK i \in Index : p = b + i /\ At(L, b + i) # 0
      BY DEF WindowPrices, Inside
  <2> QED BY <2>1, WindowIndex, MapAt
<1>2. ASSUME NEW p \in DOMAIN L, InWindow(b, p) PROVE p \in WindowPrices(b, L)
  <2>1. p - b \in Index /\ b + (p - b) = p /\ At(L, p) # 0
      BY <1>0, <1>2, WindowIndex, MapAt
  <2>2. p - b \in Inside(b, L)
      BY <2>1 DEF Inside
  <2> QED BY <2>1, <2>2 DEF WindowPrices
<1>3. Cardinality(WindowPrices(b, L)) = Cardinality(Inside(b, L))
  <2> DEFINE f == [i \in Inside(b, L) |-> b + i]
  <2>1. f \in Bijection(Inside(b, L), WindowPrices(b, L))
    <3>0. \A i, j \in Inside(b, L) : b + i = b + j => i = j
        BY InsideFinite
    <3>1. f \in [Inside(b, L) -> WindowPrices(b, L)]
        BY DEF WindowPrices
    <3>2. \A i, j \in Inside(b, L) : f[i] = f[j] => i = j
        BY <3>0
    <3>3. \A p \in WindowPrices(b, L) : \E i \in Inside(b, L) : f[i] = p
        BY DEF WindowPrices
    <3> HIDE DEF f
    <3> QED BY <3>1, <3>2, <3>3 DEF Bijection, Injection, IsInjective, Surjection
  <2>2. ExistsBijection(Inside(b, L), WindowPrices(b, L))
      BY <2>1 DEF ExistsBijection
  <2> QED BY <2>2, InsideFinite, FS_Bijection
<1> QED BY <1>0, <1>1, <1>2, <1>3

\* The first level of the window is base_ plus the first filled slot.
LEMMA FirstShifted ==
    ASSUME NEW s, NEW b \in Nat, NEW L, MapOK(L), Inside(b, L) # {}
    PROVE  /\ IsFirst(s, Inside(b, L), First(s, Inside(b, L)))
           /\ IsFirst(s, WindowPrices(b, L), b + First(s, Inside(b, L)))
           /\ First(s, Inside(b, L)) \in Index
<1>1. PICK f : f = First(s, Inside(b, L))
    OBVIOUS
<1>2. IsFirst(s, Inside(b, L), f)
    BY <1>1, InsideFinite, FirstOf
<1>3. f \in Index /\ f \in Int
    BY <1>2, WindowSize DEF IsFirst, Inside
<1>4. ASSUME NEW r \in WindowPrices(b, L), r # b + f PROVE Better(s, b + f, r)
  <2>1. PICK i \in Inside(b, L) : r = b + i
      BY DEF WindowPrices
  <2>2. i \in Int /\ i # f
      BY <1>4, <2>1, InsideFinite
  <2>3. Better(s, f, i)
      BY <1>2, <2>2 DEF IsFirst
  <2>4. Better(s, b + f, b + i)
      BY <1>3, <2>2, <2>3 DEF Better
  <2> QED BY <2>1, <2>4
<1>5. b + f \in WindowPrices(b, L)
    BY <1>2 DEF IsFirst, WindowPrices
<1> QED BY <1>1, <1>2, <1>3, <1>4, <1>5 DEF IsFirst

-----------------------------------------------------------------------------
(* Re-centring. *)

LEMMA AllLevelsAre ==
    ASSUME NEW s, NEW W, NEW L, MapOK(L), WindowedOK(s, W, L)
    PROVE  AllLevels(W) = L
<1>1. CASE W = NewWindowed /\ DOMAIN L = {}
  <2>1. Filled(W) = {} /\ DOMAIN W.overflow = {}
      BY <1>1 DEF Filled, NewWindowed, EmptyLevels
  <2>2. {W.base + i : i \in Filled(W)} = {}
      BY <2>1
  <2>3. DOMAIN AllLevels(W) = {} /\ AllLevels(W) = [p \in DOMAIN AllLevels(W) |-> AllLevels(W)[p]]
      BY <2>1, <2>2 DEF AllLevels
  <2> QED BY <1>1, <2>3 DEF MapOK
<1>2. CASE Shows(s, W, L)
  <2> DEFINE inside == {W.base + i : i \in Filled(W)}
  <2>1. /\ W.base \in Nat /\ W.slots = [i \in Index |-> At(L, W.base + i)]
        /\ W.overflow = Outside(W.base, L)
      BY <1>2 DEF Shows
  <2>2. inside = {p \in DOMAIN L : InWindow(W.base, p)}
    <3>1. inside = WindowPrices(W.base, L)
        BY <1>2, ShowsFilled DEF WindowPrices
    <3> QED BY <2>1, <3>1, WindowPricesAre
  <2>3. DOMAIN W.overflow = {p \in DOMAIN L : ~InWindow(W.base, p)}
      BY <2>1, OutsideOK
  <2>4. AllLevels(W) = [p \in inside \cup DOMAIN W.overflow |->
                           IF p \in inside THEN W.slots[p - W.base] ELSE W.overflow[p]]
      BY DEF AllLevels
  <2>5. inside \cup DOMAIN W.overflow = DOMAIN L
      BY <2>2, <2>3
  <2>6. ASSUME NEW p \in DOMAIN L, p \in inside PROVE W.slots[p - W.base] = L[p]
    <3>1. p \in Int /\ InWindow(W.base, p)
        BY <2>2, <2>6, MapAt
    <3>2. p - W.base \in Index /\ W.base + (p - W.base) = p
        BY <2>1, <3>1, WindowIndex
    <3>3. W.slots[p - W.base] = At(L, p)
        BY <2>1, <3>2
    <3> QED BY <3>3 DEF At
  <2>7. ASSUME NEW p \in DOMAIN L, p \notin inside PROVE W.overflow[p] = L[p]
    <3>1. p \in DOMAIN Outside(W.base, L)
        BY <2>1, <2>5, <2>7
    <3> QED BY <2>1, <3>1 DEF Outside
  <2> HIDE DEF inside
  <2>8. AllLevels(W) = [p \in DOMAIN L |-> L[p]]
      BY <2>4, <2>5, <2>6, <2>7
  <2> QED BY <2>8 DEF MapOK
<1> QED BY <1>1, <1>2 DEF WindowedOK

LEMMA RecenterShows ==
    ASSUME NEW s, NEW W, NEW L, MapOK(L), WindowedOK(s, W, L), NEW p \in Prices
    PROVE  /\ Shows(s, recenter_to(s, W, p), L)
           /\ InWindow(recenter_to(s, W, p).base, p)
<1> DEFINE half == KWindow \div 2
<1>0. half \in Nat /\ half < KWindow /\ p \in Nat
    BY KWindowAssumption, StoresAssumption
<1> HIDE DEF half
<1>1. PICK b : b = IF p < half THEN 0 ELSE p - half
    OBVIOUS
<1>2. b \in Nat /\ InWindow(b, p)
  <2>0. KWindow \in Nat
      BY KWindowAssumption
  <2>1. CASE p < half
      BY <1>0, <1>1, <2>0, <2>1 DEF InWindow
  <2>2. CASE ~(p < half)
    <3>1. b = p - half /\ b \in Nat /\ p - b = half
        BY <1>0, <1>1, <2>2
    <3> QED BY <1>0, <2>0, <3>1 DEF InWindow
  <2> QED BY <2>1, <2>2
<1>3. PICK kept : kept = {x \in DOMAIN L : InWindow(b, x)}
    OBVIOUS
<1>4. PICK R : R = recenter_to(s, W, p)
    OBVIOUS
<1>5. R = [slots    |-> [i \in Index |-> At(L, b + i)],
           overflow |-> [x \in DOMAIN L \ kept |-> L[x]],
           base     |-> b,
           best_idx |-> IF kept = {} THEN 0 ELSE First(s, kept) - b,
           count    |-> Cardinality(kept),
           has_base |-> TRUE]
  <2>1. AllLevels(W) = L
      BY AllLevelsAre
  <2> QED BY <1>1, <1>3, <1>4, <2>1 DEF recenter_to, half, InWindow, Index
<1>6. kept = WindowPrices(b, L)
    BY <1>2, <1>3, WindowPricesAre
<1>7. DOMAIN R = WindowFields /\ R.has_base = TRUE /\ R.base = b
    BY <1>5 DEF WindowFields
<1>8. R.slots = [i \in Index |-> At(L, R.base + i)]
    BY <1>5, <1>7
<1>9. R.overflow = Outside(R.base, L)
  <2>1. DOMAIN L \ kept = {x \in DOMAIN L : ~InWindow(b, x)}
      BY <1>3
  <2> QED BY <1>5, <1>7, <2>1 DEF Outside
<1>10. R.count = Cardinality(Inside(R.base, L))
    BY <1>2, <1>5, <1>6, <1>7, WindowPricesAre
<1>11. ASSUME Inside(R.base, L) # {} PROVE R.best_idx = First(s, Inside(R.base, L))
  <2>1. PICK f : f = First(s, Inside(b, L))
      OBVIOUS
  <2>2. IsFirst(s, kept, b + f) /\ f \in Int
      BY <1>2, <1>6, <1>7, <1>11, <2>1, FirstShifted, WindowSize
  <2>3. kept # {} /\ kept \subseteq Int
      BY <1>2, <1>6, <2>2, WindowPricesAre DEF IsFirst
  <2>4. First(s, kept) = b + f
      BY <2>2, <2>3, FirstIs
  <2>5. R.best_idx = (b + f) - b
      BY <1>5, <2>3, <2>4
  <2> QED BY <1>2, <1>7, <2>1, <2>2, <2>5
<1> QED BY <1>2, <1>4, <1>7, <1>8, <1>9, <1>10, <1>11 DEF Shows

-----------------------------------------------------------------------------
(* A slot that changes. *)

\* M differs from L at slot i of the window at b: the total there is a.
SlotChanged(s, W, L, M, b, i, a) ==
    /\ Shows(s, W, L) /\ Changed(L, M, b + i, a)
    /\ b = W.base /\ b \in Nat /\ i \in Index /\ i \in Int

LEMMA SlotOf ==
    ASSUME NEW s, NEW W, NEW L, NEW M, NEW p, NEW a, Shows(s, W, L), Changed(L, M, p, a),
           InWindow(W.base, p)
    PROVE  /\ SlotChanged(s, W, L, M, W.base, p - W.base, a)
           /\ W.base + (p - W.base) = p
<1>0. p \in Int
    BY StoresAssumption DEF Changed
<1>1. PICK b \in Nat : b = W.base
    BY DEF Shows
<1>2. p - b \in Index /\ b + (p - b) = p /\ p - b \in Int
    BY <1>0, <1>1, WindowIndex, WindowSize
<1> QED BY <1>1, <1>2 DEF SlotChanged

\* What such a change leaves of the slots, the overflow and the filled slots.
SlotEffect(W, L, M, b, idx, a) ==
    /\ W.slots[idx] = At(L, b + idx)
    /\ [W.slots EXCEPT ![idx] = a] = [i \in Index |-> At(M, b + i)]
    /\ Outside(b, M) = Outside(b, L)
    /\ Inside(b, M) = IF a = 0 THEN Inside(b, L) \ {idx} ELSE Inside(b, L) \cup {idx}
    /\ idx \in Inside(b, L) <=> W.slots[idx] # 0

LEMMA SlotChanges ==
    ASSUME NEW s, NEW W, NEW L, NEW M, NEW b, NEW idx, NEW a,
           SlotChanged(s, W, L, M, b, idx, a)
    PROVE  SlotEffect(W, L, M, b, idx, a)
<1>0. b \in Nat /\ idx \in Index /\ idx \in Int /\ MapOK(L) /\ MapOK(M)
    BY DEF SlotChanged, Changed
<1>1. PICK p : p = b + idx
    OBVIOUS
<1>2. InWindow(b, p)
    BY <1>0, <1>1, WindowIndex
<1>4. W.slots = [i \in Index |-> At(L, b + i)]
    BY DEF SlotChanged, Shows
<1>5. \A x : At(M, x) = IF x = p THEN a ELSE At(L, x)
    BY <1>1 DEF SlotChanged, Changed
<1>6. \A i \in Index : b + i = p <=> i = idx
    BY <1>0, <1>1, WindowSize
<1>7. \A i \in Index : At(M, b + i) = IF i = idx THEN a ELSE At(L, b + i)
    BY <1>5, <1>6
<1>8. [W.slots EXCEPT ![idx] = a] = [i \in Index |-> At(M, b + i)]
  <2>1. [W.slots EXCEPT ![idx] = a] = [i \in Index |-> IF i = idx THEN a ELSE At(L, b + i)]
      BY <1>0, <1>4
  <2> QED BY <1>7, <2>1
<1>9. Outside(b, M) = Outside(b, L)
  <2>1. MapOK(Outside(b, M)) /\ MapOK(Outside(b, L))
      BY <1>0, OutsideOK
  <2>2. \A x : At(Outside(b, M), x) = IF InWindow(b, x) THEN 0 ELSE At(M, x)
      BY <1>0, OutsideOK
  <2>3. \A x : At(Outside(b, L), x) = IF InWindow(b, x) THEN 0 ELSE At(L, x)
      BY <1>0, OutsideOK
  <2>4. \A x : ~InWindow(b, x) => At(M, x) = At(L, x)
      BY <1>2, <1>5
  <2>5. \A x : At(Outside(b, M), x) = At(Outside(b, L), x)
      BY <2>2, <2>3, <2>4
  <2> QED BY <2>1, <2>5, MapSame
<1>10. Inside(b, M) = IF a = 0 THEN Inside(b, L) \ {idx} ELSE Inside(b, L) \cup {idx}
    BY <1>0, <1>7 DEF Inside
<1>11. W.slots[idx] = At(L, b + idx)
    BY <1>0, <1>4
<1>12. idx \in Inside(b, L) <=> W.slots[idx] # 0
    BY <1>0, <1>11 DEF Inside
<1> QED BY <1>8, <1>9, <1>10, <1>11, <1>12 DEF SlotEffect

\* The window after a call: the same base_, new slots, a new best_idx_ and count_.
After(s, W, M, b, idx, a, R) ==
    /\ DOMAIN R = WindowFields /\ R.has_base = W.has_base /\ R.base = W.base
    /\ R.overflow = W.overflow /\ R.slots = [W.slots EXCEPT ![idx] = a]
    /\ R.count = Cardinality(Inside(b, M))
    /\ Inside(b, M) # {} => R.best_idx = First(s, Inside(b, M))

LEMMA WindowChanges ==
    ASSUME NEW s, NEW W, NEW L, NEW M, NEW b, NEW idx, NEW a,
           SlotChanged(s, W, L, M, b, idx, a), NEW R, After(s, W, M, b, idx, a, R)
    PROVE  Shows(s, R, M)
<1>0. SlotEffect(W, L, M, b, idx, a)
    BY SlotChanges
<1>1. R.base = b /\ R.base \in Nat /\ R.has_base = TRUE /\ DOMAIN R = WindowFields
    BY DEF SlotChanged, Shows, After
<1>2. R.slots = [i \in Index |-> At(M, b + i)]
    BY <1>0 DEF SlotEffect, After
<1>3. Outside(b, M) = Outside(b, L)
    BY <1>0 DEF SlotEffect
<1>4. R.overflow = Outside(b, M)
    BY <1>3 DEF SlotChanged, Shows, After
<1>5. /\ R.count = Cardinality(Inside(b, M))
      /\ Inside(b, M) # {} => R.best_idx = First(s, Inside(b, M))
    BY DEF After
<1> QED BY <1>1, <1>2, <1>4, <1>5 DEF Shows

LEMMA PlaceShows ==
    ASSUME NEW s, NEW W, NEW L, NEW M, NEW p, NEW q, NEW a, Shows(s, W, L),
           a = (At(L, p) + q) % QtyMod, a # 0, Changed(L, M, p, a), InWindow(W.base, p)
    PROVE  Shows(s, place_in_window(s, W, p, q), M)
<1>0. PICK b \in Nat : b = W.base
    BY DEF Shows
<1>1. PICK idx : idx = p - b
    OBVIOUS
<1>2. PICK S : S = Inside(b, L)
    OBVIOUS
<1>c. SlotChanged(s, W, L, M, b, idx, a) /\ b + idx = p
    BY <1>0, <1>1, SlotOf
<1>e. SlotEffect(W, L, M, b, idx, a)
    BY <1>c, SlotChanges
<1>s. W.slots[idx] = At(L, b + idx)
    BY <1>e DEF SlotEffect
<1>3. idx \in Index /\ idx \in Int /\ b + idx = p /\ W.slots[idx] = At(L, p)
    BY <1>c, <1>s DEF SlotChanged
<1>i. Inside(b, M) = IF a = 0 THEN Inside(b, L) \ {idx} ELSE Inside(b, L) \cup {idx}
    BY <1>e DEF SlotEffect
<1>4. Inside(b, M) = S \cup {idx}
    BY <1>2, <1>i
<1>5. idx \in S <=> W.slots[idx] # 0
    BY <1>2, <1>e DEF SlotEffect
<1>6. S \subseteq Int /\ IsFiniteSet(S) /\ Cardinality(S) \in Nat
      /\ (Cardinality(S) = 0 <=> S = {})
    BY <1>2, InsideFinite
<1>7. W.count = Cardinality(S) /\ DOMAIN W = WindowFields
      /\ (S # {} => W.best_idx = First(s, S))
    BY <1>0, <1>2 DEF Shows
<1>8. PICK R : R = place_in_window(s, W, p, q)
    OBVIOUS
<1>9. PICK new_best : new_best = (W.count = 0 \/ Better(s, p, window_best_price(W)))
    OBVIOUS
<1>10. R = [W EXCEPT !.slots[idx] = (@ + q) % QtyMod,
                     !.best_idx = IF W.slots[idx] = 0 /\ new_best THEN idx ELSE @,
                     !.count    = IF W.slots[idx] = 0 THEN @ + 1 ELSE @]
    BY <1>0, <1>1, <1>8, <1>9 DEF place_in_window
<1>11. /\ DOMAIN R = WindowFields /\ R.has_base = W.has_base /\ R.base = W.base
       /\ R.overflow = W.overflow
    BY <1>7, <1>10 DEF WindowFields
<1>12. /\ R.best_idx = IF W.slots[idx] = 0 /\ new_best THEN idx ELSE W.best_idx
       /\ R.count = IF W.slots[idx] = 0 THEN W.count + 1 ELSE W.count
    BY <1>7, <1>10 DEF WindowFields
<1>13. R.slots = [W.slots EXCEPT ![idx] = a]
  <2>1. R.slots = [W.slots EXCEPT ![idx] = (W.slots[idx] + q) % QtyMod]
      BY <1>7, <1>10 DEF WindowFields
  <2> QED BY <1>3, <2>1
<1>14. R.count = Cardinality(Inside(b, M))
  <2>1. CASE idx \in S
    <3>1. S \cup {idx} = S
        BY <2>1
    <3> QED BY <1>4, <1>5, <1>7, <1>12, <2>1, <3>1
  <2>2. CASE idx \notin S
    <3>1. Cardinality(S \cup {idx}) = Cardinality(S) + 1
        BY <1>6, <2>2, FS_AddElement
    <3> QED BY <1>4, <1>5, <1>7, <1>12, <2>2, <3>1
  <2> QED BY <2>1, <2>2
<1>15. R.best_idx = First(s, Inside(b, M))
  <2>1. CASE idx \in S
    <3>1. S \cup {idx} = S
        BY <2>1
    <3> QED BY <1>4, <1>5, <1>7, <1>12, <2>1, <3>1
  <2>2. CASE idx \notin S /\ S = {}
    <3>1. new_best = TRUE
        BY <1>6, <1>7, <1>9, <2>2
    <3>2. IsFirst(s, S \cup {idx}, idx)
        BY <2>2 DEF IsFirst
    <3>3. First(s, S \cup {idx}) = idx
        BY <1>3, <1>6, <3>2, FirstIs
    <3> QED BY <1>4, <1>5, <1>12, <2>2, <3>1, <3>3
  <2>3. CASE idx \notin S /\ S # {}
    <3>1. PICK f : f = W.best_idx
        OBVIOUS
    <3>2. IsFirst(s, S, f)
        BY <1>6, <1>7, <2>3, <3>1, FirstOf
    <3>3. f \in Int /\ f \in S /\ f # idx
        BY <1>6, <2>3, <3>2 DEF IsFirst
    <3>4. new_best <=> Better(s, idx, f)
      <4>1. W.count # 0
          BY <1>6, <1>7, <2>3
      <4>2. new_best <=> Better(s, b + idx, b + f)
          BY <1>0, <1>3, <1>9, <3>1, <4>1 DEF window_best_price
      <4> QED BY <1>0, <1>3, <3>3, <4>2 DEF Better
    <3>5. CASE new_best
      <4>1. \A r \in S : Better(s, idx, r)
          BY <1>3, <1>6, <3>2, <3>3, <3>4, <3>5, BetterOrder DEF IsFirst
      <4>2. IsFirst(s, S \cup {idx}, idx)
          BY <4>1 DEF IsFirst
      <4>3. First(s, S \cup {idx}) = idx
          BY <1>3, <1>6, <4>2, FirstIs
      <4> QED BY <1>4, <1>5, <1>12, <2>3, <3>5, <4>3
    <3>6. CASE ~new_best
      <4>1. Better(s, f, idx)
          BY <1>3, <3>3, <3>4, <3>6, BetterOrder
      <4>2. IsFirst(s, S \cup {idx}, f)
          BY <3>2, <4>1 DEF IsFirst
      <4>3. First(s, S \cup {idx}) = f
          BY <1>3, <1>6, <4>2, FirstIs
      <4> QED BY <1>4, <1>5, <1>12, <2>3, <3>1, <3>6, <4>3
    <3> QED BY <3>5, <3>6
  <2> QED BY <2>1, <2>2, <2>3
<1>16. After(s, W, M, b, idx, a, R)
    BY <1>11, <1>13, <1>14, <1>15 DEF After
<1>17. Shows(s, R, M)
    BY <1>c, <1>16, WindowChanges
<1> QED BY <1>8, <1>17

LEMMA KeepShows ==
    ASSUME NEW s, NEW W, NEW L, NEW M, NEW b, NEW idx, NEW a,
           SlotChanged(s, W, L, M, b, idx, a), W.slots[idx] # 0, a # 0
    PROVE  Shows(s, [W EXCEPT !.slots[idx] = a], M)
<1>1. PICK R : R = [W EXCEPT !.slots[idx] = a]
    OBVIOUS
<1>2. DOMAIN W = WindowFields /\ b = W.base /\ W.count = Cardinality(Inside(b, L))
      /\ (Inside(b, L) # {} => W.best_idx = First(s, Inside(b, L)))
    BY DEF SlotChanged, Shows
<1>3. /\ DOMAIN R = WindowFields /\ R.has_base = W.has_base /\ R.base = W.base
      /\ R.overflow = W.overflow /\ R.count = W.count /\ R.best_idx = W.best_idx
    BY <1>1, <1>2 DEF WindowFields
<1>4. R.slots = [W.slots EXCEPT ![idx] = a]
    BY <1>1, <1>2 DEF WindowFields
<1>e. SlotEffect(W, L, M, b, idx, a)
    BY SlotChanges
<1>5. idx \in Inside(b, L)
    BY <1>e DEF SlotEffect
<1>6. Inside(b, M) = IF a = 0 THEN Inside(b, L) \ {idx} ELSE Inside(b, L) \cup {idx}
    BY <1>e DEF SlotEffect
<1>7. Inside(b, M) = Inside(b, L)
    BY <1>5, <1>6
<1>8. /\ R.count = Cardinality(Inside(b, M))
      /\ Inside(b, M) # {} => R.best_idx = First(s, Inside(b, M))
    BY <1>2, <1>3, <1>7
<1>9. After(s, W, M, b, idx, a, R)
    BY <1>3, <1>4, <1>8 DEF After
<1>10. Shows(s, R, M)
    BY <1>9, WindowChanges
<1> QED BY <1>1, <1>10

LEMMA ClearShows ==
    ASSUME NEW s, NEW W, NEW L, NEW M, NEW b, NEW idx,
           SlotChanged(s, W, L, M, b, idx, 0), W.slots[idx] # 0
    PROVE  Shows(s, ClearSlot(s, W, idx), M)
<1>1. b = W.base
    BY DEF SlotChanged
<1>2. PICK S : S = Inside(b, L)
    OBVIOUS
<1>3. PICK C : C = [W EXCEPT !.slots[idx] = 0, !.count = @ - 1]
    OBVIOUS
<1>4. PICK R : R = ClearSlot(s, W, idx)
    OBVIOUS
<1>5. R = [C EXCEPT !.best_idx = IF idx = @ THEN rescan_best(s, C) ELSE @]
    BY <1>3, <1>4 DEF ClearSlot
<1>6. DOMAIN W = WindowFields /\ W.count = Cardinality(S)
      /\ (S # {} => W.best_idx = First(s, S))
    BY <1>1, <1>2 DEF SlotChanged, Shows
<1>7. /\ DOMAIN C = WindowFields /\ C.has_base = W.has_base /\ C.base = W.base
      /\ C.overflow = W.overflow /\ C.count = W.count - 1 /\ C.best_idx = W.best_idx
      /\ C.slots = [W.slots EXCEPT ![idx] = 0]
    BY <1>3, <1>6 DEF WindowFields
<1>8. /\ DOMAIN R = WindowFields /\ R.has_base = C.has_base /\ R.base = C.base
      /\ R.overflow = C.overflow /\ R.count = C.count /\ R.slots = C.slots
      /\ R.best_idx = IF idx = C.best_idx THEN rescan_best(s, C) ELSE C.best_idx
    BY <1>5, <1>7 DEF WindowFields
<1>e. SlotEffect(W, L, M, b, idx, 0)
    BY SlotChanges
<1>i. Inside(b, M) = Inside(b, L) \ {idx}
    BY <1>e DEF SlotEffect
<1>m. idx \in S
    BY <1>2, <1>e DEF SlotEffect
<1>9. idx \in S /\ Inside(b, M) = S \ {idx}
    BY <1>2, <1>i, <1>m
<1>10. S \subseteq Int /\ IsFiniteSet(S) /\ Cardinality(S) \in Nat
    BY <1>2, InsideFinite
<1>11. C.count = Cardinality(S \ {idx})
    BY <1>6, <1>7, <1>9, <1>10, FS_RemoveElement
<1>12. Filled(C) = S \ {idx}
  <2>1. C.slots = [i \in Index |-> At(M, b + i)]
    <3>1. [W.slots EXCEPT ![idx] = 0] = [i \in Index |-> At(M, b + i)]
        BY <1>e DEF SlotEffect
    <3> QED BY <1>7, <3>1
  <2>2. Filled(C) = Inside(b, M)
      BY <2>1 DEF Filled, Inside
  <2> QED BY <1>9, <2>2
<1>13. ASSUME S \ {idx} # {} PROVE R.best_idx = First(s, S \ {idx})
  <2>0. S \ {idx} \subseteq Int /\ IsFiniteSet(S \ {idx})
      BY <1>10, FS_Subset
  <2>1. PICK f : f = C.best_idx
      OBVIOUS
  <2>2. IsFirst(s, S, f)
    <3>1. S # {} /\ f = First(s, S)
        BY <1>6, <1>7, <1>9, <2>1
    <3> QED BY <1>10, <3>1, FirstOf
  <2>3. CASE idx # f
    <3>1. IsFirst(s, S \ {idx}, f)
        BY <2>2, <2>3 DEF IsFirst
    <3>2. First(s, S \ {idx}) = f
        BY <2>0, <3>1, FirstIs
    <3> QED BY <1>8, <2>1, <2>3, <3>2
  <2>4. CASE idx = f
    <3>1. C.count # 0
        BY <1>11, <1>13, <2>0, FS_EmptySet
    <3>2. Worse(s, C, C.best_idx) = S \ {idx}
        BY <1>12, <2>1, <2>2, <2>4 DEF Worse, IsFirst
    <3>3. rescan_best(s, C) = First(s, S \ {idx})
        BY <1>13, <3>1, <3>2 DEF rescan_best, next_window_idx
    <3> QED BY <1>8, <2>1, <2>4, <3>3
  <2> QED BY <2>3, <2>4
<1>14. R.has_base = W.has_base /\ R.base = W.base /\ R.overflow = W.overflow
       /\ R.slots = [W.slots EXCEPT ![idx] = 0]
    BY <1>7, <1>8
<1>15. R.count = Cardinality(Inside(b, M))
    BY <1>8, <1>9, <1>11
<1>16. Inside(b, M) # {} => R.best_idx = First(s, Inside(b, M))
    BY <1>9, <1>13
<1>17. DOMAIN R = WindowFields
    BY <1>8
<1>18. After(s, W, M, b, idx, 0, R)
    BY <1>14, <1>15, <1>16, <1>17 DEF After
<1>19. Shows(s, R, M)
    BY <1>18, WindowChanges
<1> QED BY <1>4, <1>19

\* A level outside the window that changes.
LEMMA OverflowShows ==
    ASSUME NEW s, NEW W, NEW L, NEW M, NEW O, NEW p, NEW a, Shows(s, W, L),
           Changed(L, M, p, a), ~InWindow(W.base, p), Changed(W.overflow, O, p, a)
    PROVE  Shows(s, [W EXCEPT !.overflow = O], M)
<1>0. p \in Int /\ MapOK(L) /\ MapOK(M) /\ MapOK(O)
    BY StoresAssumption DEF Changed
<1>1. PICK b \in Nat : b = W.base
    BY DEF Shows
<1>2. PICK R : R = [W EXCEPT !.overflow = O]
    OBVIOUS
<1>3. DOMAIN W = WindowFields
    BY DEF Shows
<1>4. /\ DOMAIN R = WindowFields /\ R.has_base = W.has_base /\ R.base = b
      /\ R.slots = W.slots /\ R.count = W.count /\ R.best_idx = W.best_idx
      /\ R.overflow = O
    BY <1>1, <1>2, <1>3 DEF WindowFields
<1>5. \A x : At(M, x) = IF x = p THEN a ELSE At(L, x)
    BY DEF Changed
<1>6. \A i \in Index : b + i # p
    BY <1>1, WindowIndex
<1>7. \A i \in Index : At(M, b + i) = At(L, b + i)
    BY <1>5, <1>6
<1>8. R.slots = [i \in Index |-> At(M, b + i)]
  <2>1. W.slots = [i \in Index |-> At(L, b + i)]
      BY <1>1 DEF Shows
  <2> QED BY <1>4, <1>7, <2>1
<1>9. Inside(b, M) = Inside(b, L)
    BY <1>7 DEF Inside
<1>10. O = Outside(b, M)
  <2>1. \A x : At(Outside(b, M), x) = IF InWindow(b, x) THEN 0 ELSE At(M, x)
      BY <1>0, OutsideOK
  <2>2. \A x : At(Outside(b, L), x) = IF InWindow(b, x) THEN 0 ELSE At(L, x)
      BY <1>0, OutsideOK
  <2>3. \A x : At(O, x) = IF x = p THEN a ELSE At(Outside(b, L), x)
      BY <1>1 DEF Changed, Shows
  <2>4. \A x : At(O, x) = At(Outside(b, M), x)
      BY <1>1, <1>5, <2>1, <2>2, <2>3
  <2>5. MapOK(Outside(b, M))
      BY <1>0, OutsideOK
  <2> QED BY <1>0, <2>4, <2>5, MapSame
<1>11. /\ R.count = Cardinality(Inside(b, M)) /\ R.has_base = TRUE
       /\ Inside(b, M) # {} => R.best_idx = First(s, Inside(b, M))
    BY <1>1, <1>4, <1>9 DEF Shows
<1>12. Shows(s, R, M)
    BY <1>4, <1>8, <1>10, <1>11 DEF Shows
<1> QED BY <1>2, <1>12

LEMMA OverflowAt ==
    ASSUME NEW s, NEW W, NEW L, MapOK(L), Shows(s, W, L), NEW p, ~InWindow(W.base, p)
    PROVE  /\ MapOK(W.overflow) /\ At(W.overflow, p) = At(L, p)
           /\ p \in DOMAIN W.overflow <=> p \in DOMAIN L
<1>1. W.overflow = Outside(W.base, L)
    BY DEF Shows
<1>2. \A x : At(Outside(W.base, L), x) = IF InWindow(W.base, x) THEN 0 ELSE At(L, x)
    BY OutsideOK
<1>3. DOMAIN Outside(W.base, L) = {x \in DOMAIN L : ~InWindow(W.base, x)}
    BY OutsideOK
<1>4. MapOK(Outside(W.base, L))
    BY OutsideOK
<1> QED BY <1>1, <1>2, <1>3, <1>4

LEMMA WindowedIncOK ==
    ASSUME NEW s, NEW W, NEW L, MapOK(L), WindowedOK(s, W, L),
           NEW p \in Prices, NEW q \in 0 .. MaxQty, (At(L, p) + q) % QtyMod # 0
    PROVE  WindowedOK(s, WindowedInc(s, W, p, q), Inc(L, p, q))
<1>1. PICK a : a = (At(L, p) + q) % QtyMod
    OBVIOUS
<1>2. PICK M : M = Inc(L, p, q)
    OBVIOUS
<1>3. Changed(L, M, p, a) /\ a # 0
    BY <1>1, <1>2, IncChanges
<1>4. CASE q = 0
  <2>1. At(L, p) \in 0 .. QtyMod - 1
      BY MapAt
  <2>2. (At(L, p) + 0) % QtyMod = At(L, p)
      BY <2>1, QtyModAssumption
  <2>3. a = At(L, p)
      BY <1>1, <1>4, <2>2
  <2>4. MapOK(M) /\ \A x : At(L, x) = At(M, x)
      BY <1>3, <2>3 DEF Changed
  <2>5. L = M
      BY <2>4, MapSame
  <2>6. WindowedInc(s, W, p, q) = W
      BY <1>4 DEF WindowedInc
  <2> QED BY <1>2, <2>5, <2>6
<1>5. CASE q # 0 /\ NeedsRecenter(s, W, p)
  <2>1. PICK R : R = recenter_to(s, W, p)
      OBVIOUS
  <2>2. Shows(s, R, L) /\ InWindow(R.base, p)
      BY <2>1, RecenterShows
  <2>3. Shows(s, place_in_window(s, R, p, q), M)
      BY <1>1, <1>3, <2>2, PlaceShows
  <2>4. WindowedInc(s, W, p, q) = place_in_window(s, R, p, q)
      BY <1>5, <2>1 DEF WindowedInc
  <2> QED BY <1>2, <2>3, <2>4 DEF WindowedOK
<1>6. CASE q # 0 /\ ~NeedsRecenter(s, W, p)
  <2>1. Shows(s, W, L)
    <3>1. W.has_base
        BY <1>6 DEF NeedsRecenter
    <3>2. ~NewWindowed.has_base
        BY DEF NewWindowed
    <3> QED BY <3>1, <3>2 DEF WindowedOK
  <2>2. CASE in_window(W, p)
    <3>1. InWindow(W.base, p)
        BY <2>1, <2>2, ShowsWindow
    <3>2. Shows(s, place_in_window(s, W, p, q), M)
        BY <1>1, <1>3, <2>1, <3>1, PlaceShows
    <3>3. WindowedInc(s, W, p, q) = place_in_window(s, W, p, q)
        BY <1>6, <2>2 DEF WindowedInc
    <3> QED BY <1>2, <3>2, <3>3 DEF WindowedOK
  <2>3. CASE ~in_window(W, p)
    <3>1. ~InWindow(W.base, p)
        BY <2>1, <2>3, ShowsWindow
    <3>2. PICK O : O = Inc(W.overflow, p, q)
        OBVIOUS
    <3>3. MapOK(W.overflow) /\ At(W.overflow, p) = At(L, p)
        BY <2>1, <3>1, OverflowAt
    <3>4. (At(W.overflow, p) + q) % QtyMod = a
        BY <1>1, <3>3
    <3>5. Changed(W.overflow, Inc(W.overflow, p, q), p, (At(W.overflow, p) + q) % QtyMod)
        BY <1>3, <3>3, <3>4, IncChanges
    <3>6. Changed(W.overflow, O, p, a)
        BY <3>2, <3>4, <3>5
    <3>7. Shows(s, [W EXCEPT !.overflow = O], M)
        BY <1>3, <2>1, <3>1, <3>6, OverflowShows
    <3>8. WindowedInc(s, W, p, q) = [W EXCEPT !.overflow = O]
        BY <1>6, <2>3, <3>2 DEF WindowedInc
    <3> QED BY <1>2, <3>7, <3>8 DEF WindowedOK
  <2> QED BY <2>2, <2>3
<1> QED BY <1>4, <1>5, <1>6

LEMMA WindowedDecOK ==
    ASSUME NEW s, NEW W, NEW L, MapOK(L), WindowedOK(s, W, L),
           NEW p \in Prices, NEW q \in 0 .. MaxQty
    PROVE  WindowedOK(s, WindowedDec(s, W, p, q), Dec(L, p, q))
<1>1. PICK a : a = IF p \in DOMAIN L THEN (At(L, p) - q) % QtyMod ELSE 0
    OBVIOUS
<1>2. PICK M : M = Dec(L, p, q)
    OBVIOUS
<1>3. Changed(L, M, p, a)
    BY <1>1, <1>2, DecChanges
<1>4. CASE W = NewWindowed /\ DOMAIN L = {}
  <2>1. Dec(EmptyLevels, p, q) = EmptyLevels
      BY DEF Dec, EmptyLevels
  <2>2. ~in_window(W, p)
      BY <1>4, NewIsOutside
  <2>3. WindowedDec(s, W, p, q) = [W EXCEPT !.overflow = Dec(@, p, q)]
      BY <2>2 DEF WindowedDec
  <2>4. WindowedDec(s, W, p, q) = NewWindowed
      BY <1>4, <2>1, <2>3 DEF NewWindowed
  <2>5. DOMAIN M = {}
      BY <1>2, <1>4 DEF Dec
  <2> QED BY <1>2, <2>4, <2>5 DEF WindowedOK
<1>5. CASE Shows(s, W, L) /\ ~InWindow(W.base, p)
  <2>0. ~in_window(W, p)
      BY <1>5, ShowsWindow
  <2>1. PICK O : O = Dec(W.overflow, p, q)
      OBVIOUS
  <2>2. /\ MapOK(W.overflow) /\ At(W.overflow, p) = At(L, p)
        /\ p \in DOMAIN W.overflow <=> p \in DOMAIN L
      BY <1>5, OverflowAt
  <2>3. Changed(W.overflow, Dec(W.overflow, p, q), p,
                IF p \in DOMAIN W.overflow THEN (At(W.overflow, p) - q) % QtyMod ELSE 0)
      BY <2>2, DecChanges
  <2>4. Changed(W.overflow, O, p, a)
      BY <1>1, <2>1, <2>2, <2>3
  <2>5. Shows(s, [W EXCEPT !.overflow = O], M)
      BY <1>3, <1>5, <2>4, OverflowShows
  <2>6. WindowedDec(s, W, p, q) = [W EXCEPT !.overflow = O]
      BY <2>0, <2>1 DEF WindowedDec
  <2> QED BY <1>2, <2>5, <2>6 DEF WindowedOK
<1>6. CASE Shows(s, W, L) /\ InWindow(W.base, p)
  <2>0. in_window(W, p)
      BY <1>6, ShowsWindow
  <2>1. PICK idx : idx = p - W.base
      OBVIOUS
  <2>2. SlotChanged(s, W, L, M, W.base, idx, a) /\ W.base + idx = p
      BY <1>3, <1>6, <2>1, SlotOf
  <2>3. W.slots[idx] = At(L, p)
    <3>1. SlotEffect(W, L, M, W.base, idx, a)
        BY <2>2, SlotChanges
    <3>2. W.slots[idx] = At(L, W.base + idx)
        BY <3>1 DEF SlotEffect
    <3> QED BY <2>2, <3>2
  <2>4. CASE W.slots[idx] = 0
    <3>1. a = 0
        BY <1>1, <2>3, <2>4, MapAt
    <3>2. MapOK(M) /\ \A x : At(L, x) = At(M, x)
        BY <1>3, <2>3, <2>4, <3>1 DEF Changed
    <3>3. L = M
        BY <3>2, MapSame
    <3>4. WindowedDec(s, W, p, q) = W
        BY <2>0, <2>1, <2>4 DEF WindowedDec
    <3> QED BY <1>2, <3>3, <3>4
  <2>5. CASE W.slots[idx] # 0 /\ a = 0
    <3>0. a = (W.slots[idx] - q) % QtyMod
        BY <1>1, <2>3, <2>5, MapAt
    <3>1. SlotChanged(s, W, L, M, W.base, idx, 0)
        BY <2>2, <2>5
    <3>2. Shows(s, ClearSlot(s, W, idx), M)
        BY <2>5, <3>1, ClearShows
    <3>3. WindowedDec(s, W, p, q) = ClearSlot(s, W, idx)
        BY <2>0, <2>1, <2>5, <3>0 DEF WindowedDec
    <3> QED BY <1>2, <3>2, <3>3 DEF WindowedOK
  <2>6. CASE W.slots[idx] # 0 /\ a # 0
    <3>0. a = (W.slots[idx] - q) % QtyMod
        BY <1>1, <2>3, <2>6, MapAt
    <3>1. Shows(s, [W EXCEPT !.slots[idx] = a], M)
        BY <2>2, <2>6, KeepShows
    <3>2. WindowedDec(s, W, p, q) = [W EXCEPT !.slots[idx] = a]
        BY <2>0, <2>1, <2>6, <3>0 DEF WindowedDec
    <3> QED BY <1>2, <3>1, <3>2 DEF WindowedOK
  <2> QED BY <2>4, <2>5, <2>6
<1> QED BY <1>4, <1>5, <1>6 DEF WindowedOK

-----------------------------------------------------------------------------
(* What the window reports: size and best. *)

\* The levels are those of the window and those of the overflow.
LEMMA Parts ==
    ASSUME NEW s, NEW W, NEW L, MapOK(L), Shows(s, W, L), NEW P, NEW O,
           P = WindowPrices(W.base, L), O = DOMAIN W.overflow
    PROVE  /\ DOMAIN L = P \cup O /\ P \cap O = {} /\ P \subseteq Int /\ O \subseteq Int
           /\ IsFiniteSet(P) /\ IsFiniteSet(O) /\ W.count = Cardinality(P)
           /\ \A p \in O : W.overflow[p] = L[p]
<1>0. W.base \in Nat /\ W.overflow = Outside(W.base, L)
      /\ W.count = Cardinality(Inside(W.base, L))
    BY DEF Shows
<1>1. P = {p \in DOMAIN L : InWindow(W.base, p)}
    BY <1>0, WindowPricesAre
<1>2. O = {p \in DOMAIN L : ~InWindow(W.base, p)}
    BY <1>0, OutsideOK
<1>3. IsFiniteSet(DOMAIN L) /\ DOMAIN L \subseteq Int
    BY MapAt
<1>4. P \subseteq DOMAIN L /\ O \subseteq DOMAIN L
    BY <1>1, <1>2
<1>5. IsFiniteSet(P) /\ IsFiniteSet(O)
    BY <1>3, <1>4, FS_Subset
<1>6. W.count = Cardinality(P)
    BY <1>0, WindowPricesAre
<1>7. \A p \in O : W.overflow[p] = L[p]
    BY <1>0, <1>2 DEF Outside
<1>8. DOMAIN L = P \cup O /\ P \cap O = {}
    BY <1>1, <1>2
<1> QED BY <1>3, <1>4, <1>5, <1>6, <1>7, <1>8

LEMMA WindowedSizeIs ==
    ASSUME NEW s, NEW W, NEW L, MapOK(L), WindowedOK(s, W, L)
    PROVE  WindowedSize(W) = Size(L)
<1>1. CASE W = NewWindowed /\ DOMAIN L = {}
  <2>1. W.count = 0 /\ DOMAIN W.overflow = {}
      BY <1>1 DEF NewWindowed, EmptyLevels
  <2> QED BY <1>1, <2>1, FS_EmptySet DEF WindowedSize, Size
<1>2. CASE Shows(s, W, L)
  <2>1. PICK P, O : P = WindowPrices(W.base, L) /\ O = DOMAIN W.overflow
      OBVIOUS
  <2>2. /\ DOMAIN L = P \cup O /\ P \cap O = {}
        /\ IsFiniteSet(P) /\ IsFiniteSet(O) /\ W.count = Cardinality(P)
      BY <1>2, <2>1, Parts, SMTT(30)
  <2>3. Cardinality(P \cup O) = Cardinality(P) + Cardinality(O) - Cardinality(P \cap O)
      BY <2>2, FS_Union
  <2>4. Cardinality(P \cap O) = 0 /\ Cardinality(P) \in Nat /\ Cardinality(O) \in Nat
      BY <2>2, FS_EmptySet, FS_CardinalityType
  <2> QED BY <2>1, <2>2, <2>3, <2>4 DEF WindowedSize, Size
<1> QED BY <1>1, <1>2 DEF WindowedOK

\* The window's best price, when it has one.
LEMMA WindowBest ==
    ASSUME NEW s, NEW W, NEW L, MapOK(L), Shows(s, W, L), W.count # 0
    PROVE  /\ IsFirst(s, WindowPrices(W.base, L), window_best_price(W))
           /\ W.slots[W.best_idx] = L[window_best_price(W)]
           /\ window_best_price(W) \in Int
<1>1. PICK b \in Nat : b = W.base
    BY DEF Shows
<1>2. Inside(b, L) # {}
    BY <1>1, InsideFinite DEF Shows
<1>3. PICK f : f = W.best_idx
    OBVIOUS
<1>4. f = First(s, Inside(b, L))
    BY <1>1, <1>2, <1>3 DEF Shows
<1>5. IsFirst(s, WindowPrices(b, L), b + f) /\ f \in Index
    BY <1>2, <1>4, FirstShifted
<1>6. window_best_price(W) = b + f
    BY <1>1, <1>3 DEF window_best_price
<1>7. b + f \in DOMAIN L /\ b + f \in Int
    BY <1>5, WindowPricesAre DEF IsFirst
<1>8. W.slots[f] = At(L, b + f)
    BY <1>1, <1>5 DEF Shows
<1>9. W.slots[f] = L[b + f]
    BY <1>7, <1>8 DEF At
<1> QED BY <1>1, <1>3, <1>5, <1>6, <1>7, <1>9

LEMMA WindowedBestIs ==
    ASSUME NEW s, NEW W, NEW L, MapOK(L), WindowedOK(s, W, L)
    PROVE  WindowedBest(s, W) = Best(s, L)
<1>0. WindowedSize(W) = Size(L) /\ IsFiniteSet(DOMAIN L) /\ DOMAIN L \subseteq Int
    BY WindowedSizeIs, MapAt
<1>1. CASE DOMAIN L = {}
  <2>1. WindowedSize(W) = 0
      BY <1>0, <1>1, FS_EmptySet DEF Size
  <2> QED BY <1>1, <2>1 DEF WindowedBest, Best
<1>2. CASE DOMAIN L # {}
  <2>1. Shows(s, W, L)
      BY <1>2 DEF WindowedOK
  <2>2. WindowedSize(W) # 0
      BY <1>0, <1>2, FS_EmptySet DEF Size
  <2>3. PICK P, O : P = WindowPrices(W.base, L) /\ O = DOMAIN W.overflow
      OBVIOUS
  <2>4. /\ DOMAIN L = P \cup O /\ P \subseteq Int /\ O \subseteq Int
        /\ IsFiniteSet(P) /\ IsFiniteSet(O) /\ W.count = Cardinality(P)
        /\ \A p \in O : W.overflow[p] = L[p]
      BY <2>1, <2>3, Parts
  <2>5. W.count = 0 <=> P = {}
      BY <2>4, FS_EmptySet
  <2>6. PICK g : g = window_best_price(W)
      OBVIOUS
  <2>7. W.count # 0 => IsFirst(s, P, g) /\ W.slots[W.best_idx] = L[g] /\ g \in Int
      BY <2>1, <2>3, <2>6, WindowBest
  <2>8. PICK h : h = First(s, O)
      OBVIOUS
  <2>9. O # {} => IsFirst(s, O, h)
      BY <2>4, <2>8, FirstOf
  <2>10. OverflowIsInside(s, W) <=> O # {} /\ (W.count = 0 \/ Better(s, h, g))
      BY <2>3, <2>6, <2>8 DEF OverflowIsInside
  <2>11. CASE OverflowIsInside(s, W)
    <3>1. h \in O /\ h \in Int /\ \A r \in O : r # h => Better(s, h, r)
        BY <2>4, <2>9, <2>10, <2>11 DEF IsFirst
    <3>2. \A r \in P : Better(s, h, r)
      <4>1. CASE P = {}
          BY <4>1
      <4>2. CASE P # {}
        <5>1. Better(s, h, g) /\ IsFirst(s, P, g) /\ g \in Int
            BY <2>5, <2>7, <2>10, <2>11, <4>2
        <5> QED BY <2>4, <3>1, <5>1, BetterOrder DEF IsFirst
      <4> QED BY <4>1, <4>2
    <3>3. IsFirst(s, DOMAIN L, h)
        BY <2>4, <3>1, <3>2 DEF IsFirst
    <3>4. First(s, DOMAIN L) = h
        BY <1>0, <3>3, FirstIs
    <3>5. Best(s, L) = <<h, L[h]>>
        BY <1>2, <3>4 DEF Best
    <3>6. Best(s, W.overflow) = <<h, W.overflow[h]>>
        BY <2>3, <2>8, <2>10, <2>11 DEF Best
    <3>7. W.overflow[h] = L[h]
        BY <2>4, <3>1
    <3> QED BY <2>2, <2>11, <3>5, <3>6, <3>7 DEF WindowedBest
  <2>12. CASE ~OverflowIsInside(s, W)
    <3>1. W.count # 0
        BY <1>2, <2>4, <2>5, <2>10, <2>12
    <3>2. IsFirst(s, P, g) /\ W.slots[W.best_idx] = L[g] /\ g \in Int
        BY <2>7, <3>1
    <3>3. \A r \in O : r # g => Better(s, g, r)
      <4>1. CASE O = {}
          BY <4>1
      <4>2. CASE O # {}
        <5>1. IsFirst(s, O, h) /\ ~Better(s, h, g) /\ h \in Int
            BY <2>4, <2>9, <2>10, <2>12, <4>2 DEF IsFirst
        <5>2. h = g \/ Better(s, g, h)
            BY <3>2, <5>1, BetterOrder
        <5> QED BY <2>4, <3>2, <5>1, <5>2, BetterOrder DEF IsFirst
      <4> QED BY <4>1, <4>2
    <3>4. IsFirst(s, DOMAIN L, g)
        BY <2>4, <3>2, <3>3 DEF IsFirst
    <3>5. First(s, DOMAIN L) = g
        BY <1>0, <3>4, FirstIs
    <3>6. Best(s, L) = <<g, L[g]>>
        BY <1>2, <3>5 DEF Best
    <3> QED BY <2>2, <2>6, <2>12, <3>2, <3>6 DEF WindowedBest
  <2> QED BY <2>11, <2>12
<1> QED BY <1>1, <1>2

-----------------------------------------------------------------------------
(* top's merge.  R is the set of prices it has not handed out yet. *)

\* The filled slots that are left.
Left(b, L, R) == {i \in Inside(b, L) : b + i \in R}

MergeFields == {"out", "wi", "w_valid", "of"}

\* The two cursors of the loop, when the prices R are left.
Cursors(s, W, L, R, st) ==
    /\ DOMAIN st = MergeFields
    /\ st.of = R \cap DOMAIN W.overflow
    /\ st.w_valid = (Left(W.base, L, R) # {})
    /\ Left(W.base, L, R) # {} => st.wi = First(s, Left(W.base, L, R))

\* p is the first price of R, and every worse level is in R.
Upcoming(s, L, R, p) ==
    /\ R \subseteq DOMAIN L /\ IsFirst(s, R, p)
    /\ \A x \in DOMAIN L : Better(s, p, x) => x \in R

LEMMA LeftFinite ==
    ASSUME NEW b, NEW L, NEW R
    PROVE  IsFiniteSet(Left(b, L, R)) /\ Left(b, L, R) \subseteq Int
<1>1. Left(b, L, R) \subseteq Inside(b, L)
    BY DEF Left
<1> QED BY <1>1, InsideFinite, FS_Subset

\* An iteration that hands out the level of p.
HandsOut(s, W, L, R, p, st, T) ==
    Cursors(s, W, L, R \ {p}, T) /\ T.out = Append(st.out, <<p, L[p]>>)

LEMMA MergeTakesWindow ==
    ASSUME NEW s, NEW W, NEW L, MapOK(L), Shows(s, W, L), NEW R, NEW p, Upcoming(s, L, R, p),
           NEW st, Cursors(s, W, L, R, st), InWindow(W.base, p)
    PROVE  HandsOut(s, W, L, R, p, st, MergeStep(s, W, st))
<1>1. PICK b \in Nat : b = W.base
    BY DEF Shows
<1>2. p \in R /\ p \in DOMAIN L /\ p \in Int /\ (\A r \in R : r # p => Better(s, p, r))
      /\ DOMAIN L \subseteq Int
    BY MapAt DEF Upcoming, IsFirst
<1>3. PICK i : i = p - b
    OBVIOUS
<1>4. i \in Index /\ i \in Int /\ b + i = p
    BY <1>1, <1>2, <1>3, WindowIndex, WindowSize
<1>5. At(L, p) = L[p] /\ At(L, p) # 0
    BY <1>2, MapAt DEF At
<1>6. i \in Inside(b, L) /\ i \in Left(b, L, R)
    BY <1>2, <1>4, <1>5 DEF Inside, Left
<1>7. W.slots[i] = L[p]
    BY <1>1, <1>4, <1>5 DEF Shows
<1>8. Filled(W) = Inside(b, L)
    BY <1>1, ShowsFilled
<1>9. Inside(b, L) \subseteq Int /\ Left(b, L, R) \subseteq Int
    BY InsideFinite, LeftFinite
<1>10. \A j \in Inside(b, L) : b + j \in DOMAIN L
    BY MapAt DEF Inside
<1>11. \A j \in Int : Better(s, i, j) <=> Better(s, p, b + j)
    BY <1>1, <1>4 DEF Better
<1>12. IsFirst(s, Left(b, L, R), i)
  <2> SUFFICES ASSUME NEW j \in Left(b, L, R), j # i PROVE Better(s, i, j)
      BY <1>6 DEF IsFirst
  <2>1. j \in Int /\ b + j \in R
      BY <1>9 DEF Left
  <2>2. b + j # p
      BY <1>4, <2>1
  <2> QED BY <1>2, <1>11, <2>1, <2>2
<1>13. st.w_valid = TRUE /\ st.wi = i /\ DOMAIN st = MergeFields
    BY <1>1, <1>6, <1>9, <1>12, FirstIs DEF Cursors
<1>14. st.of = R \cap DOMAIN W.overflow
    BY DEF Cursors
<1>15. p \notin DOMAIN W.overflow
    BY OutsideOK DEF Shows
<1>16. TakeWindow(s, W, st)
  <2>1. CASE st.of = {}
      BY <1>13, <2>1 DEF TakeWindow
  <2>2. CASE st.of # {}
    <3>1. st.of \subseteq R /\ R \subseteq DOMAIN L
        BY <1>14 DEF Upcoming
    <3>2. st.of \subseteq Int /\ IsFiniteSet(st.of)
        BY <1>2, <3>1, MapAt, FS_Subset
    <3>3. PICK h : h = First(s, st.of)
        OBVIOUS
    <3>4. h \in st.of
        BY <2>2, <3>2, <3>3, FirstOf DEF IsFirst
    <3>5. h \in Int /\ h # p /\ Better(s, p, h)
        BY <1>2, <1>14, <1>15, <3>1, <3>2, <3>4
    <3>6. ~Better(s, h, p)
        BY <1>2, <3>5, BetterOrder
    <3> QED BY <1>1, <1>4, <1>13, <3>3, <3>6 DEF TakeWindow
  <2> QED BY <2>1, <2>2
<1>17. Worse(s, W, i) = Left(b, L, R) \ {i}
  <2>1. ASSUME NEW j \in Inside(b, L), Better(s, i, j) PROVE j \in Left(b, L, R) \ {i}
    <3>1. j \in Int /\ b + j \in DOMAIN L /\ Better(s, p, b + j)
        BY <1>9, <1>10, <1>11, <2>1
    <3>2. b + j \in R
        BY <3>1 DEF Upcoming
    <3>3. j # i
        BY <1>4, <2>1, BetterOrder
    <3> QED BY <3>2, <3>3 DEF Left
  <2>2. ASSUME NEW j \in Left(b, L, R), j # i PROVE j \in Inside(b, L) /\ Better(s, i, j)
      BY <1>12, <2>2 DEF Left, IsFirst
  <2> QED BY <1>8, <2>1, <2>2 DEF Worse
<1>18. Left(b, L, R \ {p}) = Left(b, L, R) \ {i}
  <2>1. \A j \in Inside(b, L) : b + j = p <=> j = i
      BY <1>4, <1>9
  <2> QED BY <2>1 DEF Left
<1>19. PICK T : T = MergeStep(s, W, st)
    OBVIOUS
<1>20. PICK more : more = (Worse(s, W, i) # {})
    OBVIOUS
<1>21. T = [st EXCEPT !.out     = Append(@, <<b + i, W.slots[i]>>),
                      !.w_valid = more,
                      !.wi      = IF more THEN next_window_idx(s, W, @) ELSE @]
    BY <1>1, <1>13, <1>16, <1>19, <1>20 DEF MergeStep
<1>22. /\ DOMAIN T = MergeFields /\ T.of = st.of /\ T.w_valid = more
       /\ T.out = Append(st.out, <<b + i, W.slots[i]>>)
    BY <1>13, <1>21 DEF MergeFields
<1>23. more => T.wi = next_window_idx(s, W, i)
    BY <1>13, <1>21 DEF MergeFields
<1>24. T.out = Append(st.out, <<p, L[p]>>)
    BY <1>4, <1>7, <1>22
<1>25. T.of = (R \ {p}) \cap DOMAIN W.overflow
    BY <1>14, <1>15, <1>22
<1>26. /\ T.w_valid = (Left(b, L, R \ {p}) # {})
       /\ Left(b, L, R \ {p}) # {} => T.wi = First(s, Left(b, L, R \ {p}))
    BY <1>17, <1>18, <1>20, <1>22, <1>23 DEF next_window_idx
<1>27. Cursors(s, W, L, R \ {p}, T)
    BY <1>1, <1>22, <1>25, <1>26 DEF Cursors
<1> QED BY <1>19, <1>24, <1>27 DEF HandsOut

LEMMA MergeTakesOverflow ==
    ASSUME NEW s, NEW W, NEW L, MapOK(L), Shows(s, W, L), NEW R, NEW p, Upcoming(s, L, R, p),
           NEW st, Cursors(s, W, L, R, st), ~InWindow(W.base, p)
    PROVE  HandsOut(s, W, L, R, p, st, MergeStep(s, W, st))
<1>1. PICK b \in Nat : b = W.base
    BY DEF Shows
<1>2. p \in R /\ p \in DOMAIN L /\ p \in Int /\ (\A r \in R : r # p => Better(s, p, r))
      /\ DOMAIN L \subseteq Int /\ R \subseteq DOMAIN L
    BY MapAt DEF Upcoming, IsFirst
<1>3. st.of = R \cap DOMAIN W.overflow /\ DOMAIN st = MergeFields
    BY DEF Cursors
<1>4. p \in DOMAIN W.overflow /\ W.overflow[p] = L[p]
  <2>1. p \in DOMAIN Outside(b, L)
      BY <1>1, <1>2, OutsideOK
  <2>2. Outside(b, L)[p] = L[p]
      BY <1>1, <1>2 DEF Outside
  <2> QED BY <1>1, <2>1, <2>2 DEF Shows
<1>5. st.of \subseteq Int /\ p \in st.of
    BY <1>2, <1>3, <1>4
<1>6. First(s, st.of) = p
  <2>1. IsFirst(s, st.of, p)
      BY <1>2, <1>3, <1>5 DEF IsFirst
  <2> QED BY <1>5, <2>1, FirstIs
<1>7. ~TakeWindow(s, W, st)
  <2> SUFFICES ASSUME st.w_valid PROVE Better(s, p, b + st.wi)
      BY <1>1, <1>5, <1>6 DEF TakeWindow
  <2>1. Left(b, L, R) # {} /\ st.wi = First(s, Left(b, L, R))
      BY <1>1 DEF Cursors
  <2>2. st.wi \in Left(b, L, R)
      BY <2>1, LeftFinite, FirstOf DEF IsFirst
  <2>3. b + st.wi \in R /\ st.wi \in Index
      BY <2>2 DEF Left, Inside
  <2>4. InWindow(b, b + st.wi)
      BY <2>3, WindowIndex
  <2> QED BY <1>1, <1>2, <2>3, <2>4
<1>8. PICK T : T = MergeStep(s, W, st)
    OBVIOUS
<1>9. T = [st EXCEPT !.out = Append(@, <<p, W.overflow[p]>>), !.of = @ \ {p}]
    BY <1>5, <1>6, <1>7, <1>8 DEF MergeStep
<1>10. /\ DOMAIN T = MergeFields /\ T.of = st.of \ {p} /\ T.w_valid = st.w_valid
       /\ T.wi = st.wi /\ T.out = Append(st.out, <<p, W.overflow[p]>>)
    BY <1>3, <1>9 DEF MergeFields
<1>11. Left(b, L, R \ {p}) = Left(b, L, R)
  <2>1. \A j \in Inside(b, L) : InWindow(b, b + j)
      BY WindowIndex DEF Inside
  <2> QED BY <1>1, <2>1 DEF Left
<1>12. T.of = (R \ {p}) \cap DOMAIN W.overflow
    BY <1>3, <1>10
<1>13. Cursors(s, W, L, R \ {p}, T)
    BY <1>1, <1>10, <1>11, <1>12 DEF Cursors
<1> QED BY <1>4, <1>8, <1>10, <1>13 DEF HandsOut

LEMMA MergeStops ==
    ASSUME NEW s, NEW W, NEW L, NEW st, Cursors(s, W, L, {}, st)
    PROVE  MergeStep(s, W, st) = st
<1>1. Left(W.base, L, {}) = {}
    BY DEF Left
<1>2. st.of = {} /\ st.w_valid = FALSE
    BY <1>1 DEF Cursors
<1> QED BY <1>2 DEF MergeStep, TakeWindow

\* The prices of the vector from place k + 1 on.
Rest(V, k) == {V[i][1] : i \in k + 1 .. Len(V)}

LEMMA RestIs ==
    ASSUME NEW s, NEW V, NEW L, MapOK(L), Lists(s, V, L)
    PROVE  /\ Rest(V, 0) = DOMAIN L
           /\ Rest(V, Len(V)) = {}
           /\ \A k \in Nat : k < Len(V) =>
                  /\ Upcoming(s, L, Rest(V, k), V[k + 1][1])
                  /\ Rest(V, k + 1) = Rest(V, k) \ {V[k + 1][1]}
<1>0. V \in Seq(Level) /\ Len(V) \in Nat
    BY DEF Lists
<1>1. \A i \in 1 .. Len(V) : V[i][1] \in DOMAIN L /\ V[i][1] \in Int
    BY <1>0, ListsDomain, PairAt
<1>2. \A i, j \in 1 .. Len(V) : i < j => Better(s, V[i][1], V[j][1])
    BY DEF Lists, Ordered
<1>3. \A p \in DOMAIN L : \E i \in 1 .. Len(V) : V[i][1] = p
    BY DEF Lists
<1>4. Rest(V, 0) = DOMAIN L
  <2>1. 0 + 1 .. Len(V) = 1 .. Len(V)
      BY <1>0
  <2> QED BY <1>1, <1>3, <2>1 DEF Rest
<1>5. Rest(V, Len(V)) = {}
  <2>1. Len(V) + 1 .. Len(V) = {}
      BY <1>0
  <2> QED BY <2>1 DEF Rest
<1>6. ASSUME NEW k \in Nat, k < Len(V)
      PROVE  /\ Upcoming(s, L, Rest(V, k), V[k + 1][1])
             /\ Rest(V, k + 1) = Rest(V, k) \ {V[k + 1][1]}
  <2>1. PICK p : p = V[k + 1][1]
      OBVIOUS
  <2>2. k + 1 \in 1 .. Len(V) /\ k + 1 \in k + 1 .. Len(V)
      BY <1>0, <1>6
  <2>3. p \in Int
      BY <1>1, <2>1, <2>2
  <2>4. ASSUME NEW i \in k + 1 .. Len(V), i # k + 1
        PROVE  i \in 1 .. Len(V) /\ Better(s, p, V[i][1]) /\ V[i][1] # p
    <3>1. i \in 1 .. Len(V) /\ k + 1 < i
        BY <1>0, <2>4
    <3>2. Better(s, p, V[i][1])
        BY <1>2, <2>1, <2>2, <3>1
    <3> QED BY <2>3, <3>1, <3>2, BetterOrder
  <2>5. \A i \in k + 1 .. Len(V) : i \in 1 .. Len(V)
      BY <1>0
  <2>6. Rest(V, k) \subseteq DOMAIN L
      BY <1>1, <2>5 DEF Rest
  <2>7. IsFirst(s, Rest(V, k), p)
      BY <2>1, <2>2, <2>4 DEF IsFirst, Rest
  <2>8. ASSUME NEW x \in DOMAIN L, Better(s, p, x) PROVE x \in Rest(V, k)
    <3>1. PICK i \in 1 .. Len(V) : V[i][1] = x
        BY <1>3
    <3>2. x \in Int /\ i \in Int
        BY <1>1, <3>1
    <3>3. ~Better(s, x, p) /\ x # p
        BY <2>3, <2>8, <3>2, BetterOrder
    <3>4. ~(i < k + 1) /\ i # k + 1
        BY <1>2, <2>1, <2>2, <3>1, <3>3
    <3>5. i \in k + 1 .. Len(V)
        BY <1>0, <3>2, <3>4
    <3> QED BY <3>1, <3>5 DEF Rest
  <2>9. Rest(V, k + 1) = Rest(V, k) \ {p}
    <3>1. k + 1 + 1 .. Len(V) = (k + 1 .. Len(V)) \ {k + 1}
        BY <1>0
    <3>2. \A i \in k + 1 .. Len(V) : V[i][1] = p <=> i = k + 1
        BY <2>1, <2>4
    <3> QED BY <3>1, <3>2 DEF Rest
  <2> QED BY <2>1, <2>6, <2>7, <2>8, <2>9 DEF Upcoming
<1> QED BY <1>4, <1>5, <1>6

\* The loop of top, as a function of the number of iterations.
MergeStart(W) == [out |-> <<>>, wi |-> W.best_idx, w_valid |-> W.count > 0,
                  of |-> DOMAIN W.overflow]

Merges(s, W, n, f) ==
    f = [k \in 0 .. n |-> IF k = 0 THEN MergeStart(W) ELSE MergeStep(s, W, f[k - 1])]

LEMMA MergesUnfold ==
    ASSUME NEW s, NEW W, NEW n, NEW f, Merges(s, W, n, f), NEW k \in 0 .. n
    PROVE  f[k] = IF k = 0 THEN MergeStart(W) ELSE MergeStep(s, W, f[k - 1])
    BY DEF Merges

LEMMA MergesExist ==
    ASSUME NEW s, NEW W, NEW n \in Nat
    PROVE  \E f : Merges(s, W, n, f)
<1> DEFINE T == {j \in Nat : \E f : Merges(s, W, j, f)}
<1>1. 0 \in T
  <2>1. Merges(s, W, 0, [k \in 0 .. 0 |-> MergeStart(W)])
      BY DEF Merges
  <2> QED BY <2>1
<1>2. ASSUME NEW j \in Nat, j \in T PROVE j + 1 \in T
  <2>1. PICK f : Merges(s, W, j, f)
      BY <1>2
  <2> DEFINE g == [k \in 0 .. j + 1 |-> IF k = j + 1 THEN MergeStep(s, W, f[j]) ELSE f[k]]
  <2>2. ASSUME NEW k \in 0 .. j + 1
        PROVE  g[k] = IF k = 0 THEN MergeStart(W) ELSE MergeStep(s, W, g[k - 1])
    <3>1. CASE k = j + 1
      <4>1. k # 0 /\ k - 1 = j /\ j \in 0 .. j + 1 /\ j # j + 1
          BY <3>1
      <4>2. g[k] = MergeStep(s, W, f[j]) /\ g[k - 1] = f[j]
          BY <3>1, <4>1
      <4> QED BY <4>1, <4>2
    <3>2. CASE k # j + 1
      <4>1. k \in 0 .. j /\ g[k] = f[k] /\ (k # 0 => g[k - 1] = f[k - 1])
          BY <3>2
      <4> HIDE DEF g
      <4> QED BY <2>1, <4>1, MergesUnfold
    <3> QED BY <3>1, <3>2
  <2>3. g = [k \in 0 .. j + 1 |-> g[k]]
      OBVIOUS
  <2> HIDE DEF g
  <2>4. Merges(s, W, j + 1, g)
      BY <2>2, <2>3 DEF Merges
  <2> QED BY <2>4
<1>3. Nat \subseteq T
  <2> HIDE DEF T
  <2> QED BY <1>1, <1>2, Induction
<1> QED BY <1>3

LEMMA TopMerges ==
    ASSUME NEW s, NEW W, NEW n \in Nat
    PROVE  \E f : Merges(s, W, n, f) /\ WindowedTop(s, W, n) = f[n].out
<1> DEFINE f == CHOOSE g : Merges(s, W, n, g)
<1>1. Merges(s, W, n, f)
    BY MergesExist
<1>2. WindowedTop(s, W, n) = f[n].out
    BY DEF WindowedTop, Merges, MergeStart
<1> QED BY <1>1, <1>2

\* The first k levels of the vector.
Prefix(V, k) == [i \in 1 .. k |-> V[i]]

LEMMA PrefixGrows ==
    ASSUME NEW V \in Seq(Level), NEW k \in Nat, k < Len(V)
    PROVE  Append(Prefix(V, k), V[k + 1]) = Prefix(V, k + 1)
<1>0. Len(V) \in Nat
    OBVIOUS
<1>1. \A i \in 1 .. k : i \in 1 .. Len(V)
    BY <1>0
<1>2. Prefix(V, k) \in Seq(Level) /\ Len(Prefix(V, k)) = k
    BY <1>1 DEF Prefix
<1> QED BY <1>0, <1>2 DEF Prefix

LEMMA MergeStarts ==
    ASSUME NEW s, NEW W, NEW L, MapOK(L), WindowedOK(s, W, L)
    PROVE  Cursors(s, W, L, DOMAIN L, MergeStart(W))
<1>1. Left(W.base, L, DOMAIN L) = Inside(W.base, L)
    BY MapAt DEF Left, Inside
<1>2. CASE W = NewWindowed /\ DOMAIN L = {}
  <2>1. W.count = 0 /\ DOMAIN W.overflow = {}
      BY <1>2 DEF NewWindowed, EmptyLevels
  <2>2. Inside(W.base, L) = {}
      BY <1>2 DEF Inside, At
  <2> QED BY <1>1, <1>2, <2>1, <2>2 DEF Cursors, MergeStart, MergeFields
<1>3. CASE Shows(s, W, L)
  <2>1. DOMAIN L \cap DOMAIN W.overflow = DOMAIN W.overflow
    <3>1. DOMAIN Outside(W.base, L) = {x \in DOMAIN L : ~InWindow(W.base, x)}
        BY OutsideOK
    <3>2. W.overflow = Outside(W.base, L)
        BY <1>3 DEF Shows
    <3> QED BY <3>1, <3>2
  <2>2. W.count > 0 <=> Inside(W.base, L) # {}
      BY <1>3, InsideFinite DEF Shows
  <2>3. Inside(W.base, L) # {} => W.best_idx = First(s, Inside(W.base, L))
      BY <1>3 DEF Shows
  <2> QED BY <1>1, <2>1, <2>2, <2>3 DEF Cursors, MergeStart, MergeFields
<1> QED BY <1>2, <1>3 DEF WindowedOK

LEMMA MergedSoFar ==
    ASSUME NEW s, NEW W, NEW L, MapOK(L), WindowedOK(s, W, L), NEW V, Lists(s, V, L),
           NEW n \in Nat, NEW f, Merges(s, W, n, f)
    PROVE  f[n].out = Prefix(V, IF Len(V) < n THEN Len(V) ELSE n)
<1>0. V \in Seq(Level) /\ Len(V) \in Nat
    BY DEF Lists
<1> DEFINE Done(k) == IF Len(V) < k THEN Len(V) ELSE k
           T == {k \in Nat : k <= n => /\ f[k].out = Prefix(V, Done(k))
                                       /\ Cursors(s, W, L, Rest(V, Done(k)), f[k])}
<1>1. 0 \in T
  <2>1. f[0] = MergeStart(W)
      BY MergesUnfold
  <2>2. Done(0) = 0 /\ Rest(V, 0) = DOMAIN L
      BY <1>0, RestIs
  <2>3. f[0].out = Prefix(V, 0)
      BY <2>1 DEF MergeStart, Prefix
  <2>8. Cursors(s, W, L, DOMAIN L, MergeStart(W))
      BY MergeStarts
  <2> QED BY <2>1, <2>2, <2>3, <2>8
<1>2. ASSUME NEW k \in Nat, k \in T PROVE k + 1 \in T
  <2> SUFFICES ASSUME k + 1 <= n
               PROVE  /\ f[k + 1].out = Prefix(V, Done(k + 1))
                      /\ Cursors(s, W, L, Rest(V, Done(k + 1)), f[k + 1])
      OBVIOUS
  <2>1. f[k].out = Prefix(V, Done(k)) /\ Cursors(s, W, L, Rest(V, Done(k)), f[k])
      BY <1>2
  <2>2. f[k + 1] = MergeStep(s, W, f[k])
    <3>1. k + 1 \in 0 .. n /\ k + 1 # 0 /\ (k + 1) - 1 = k
        OBVIOUS
    <3> QED BY <3>1, MergesUnfold
  <2>3. CASE k < Len(V)
    <3>1. Done(k) = k /\ Done(k + 1) = k + 1
        BY <1>0, <2>3
    <3>2. PICK R, p : R = Rest(V, k) /\ p = V[k + 1][1]
        OBVIOUS
    <3>3. Upcoming(s, L, R, p) /\ Rest(V, k + 1) = R \ {p}
        BY <2>3, <3>2, RestIs
    <3>4. Cursors(s, W, L, R, f[k])
        BY <2>1, <3>1, <3>2
    <3>5. /\ Cursors(s, W, L, R \ {p}, f[k + 1])
          /\ f[k + 1].out = Append(f[k].out, <<p, L[p]>>)
      <4>1. PICK st : st = f[k]
          OBVIOUS
      <4>2. Shows(s, W, L)
        <5>1. DOMAIN L # {}
            BY <3>3 DEF Upcoming, IsFirst
        <5> QED BY <5>1 DEF WindowedOK
      <4>3. HandsOut(s, W, L, R, p, st, MergeStep(s, W, st))
          BY <3>3, <3>4, <4>1, <4>2, MergeTakesWindow, MergeTakesOverflow
      <4> QED BY <2>2, <4>1, <4>3 DEF HandsOut
    <3>6. <<p, L[p]>> = V[k + 1]
      <4>1. k + 1 \in 1 .. Len(V)
          BY <1>0, <2>3
      <4> QED BY <1>0, <3>2, <4>1, ListsDomain, PairAt
    <3>7. f[k + 1].out = Prefix(V, k + 1)
      <4>1. Append(Prefix(V, k), V[k + 1]) = Prefix(V, k + 1)
          BY <1>0, <2>3, PrefixGrows
      <4> QED BY <2>1, <3>1, <3>5, <3>6, <4>1
    <3> QED BY <3>1, <3>3, <3>5, <3>7
  <2>4. CASE ~(k < Len(V))
    <3>1. Done(k) = Len(V) /\ Done(k + 1) = Len(V)
        BY <1>0, <2>4
    <3>2. Rest(V, Len(V)) = {}
        BY RestIs
    <3>3. Cursors(s, W, L, {}, f[k])
        BY <2>1, <3>1, <3>2
    <3>4. f[k + 1] = f[k]
        BY <2>2, <3>3, MergeStops
    <3> QED BY <2>1, <3>1, <3>4
  <2> QED BY <2>3, <2>4
<1>3. Nat \subseteq T
  <2> HIDE DEF T
  <2> QED BY <1>1, <1>2, Induction
<1>4. n \in T
    BY <1>3
<1> QED BY <1>4

LEMMA WindowedTopIs ==
    ASSUME NEW s, NEW W, NEW L, MapOK(L), WindowedOK(s, W, L), NEW V, Lists(s, V, L),
           NEW n \in Nat
    PROVE  WindowedTop(s, W, n) = Top(s, L, n)
<1>1. PICK f : Merges(s, W, n, f) /\ WindowedTop(s, W, n) = f[n].out
    BY TopMerges
<1>2. Top(s, L, n) = Prefix(V, IF Len(V) < n THEN Len(V) ELSE n)
    BY TopIs DEF Prefix
<1>3. f[n].out = Prefix(V, IF Len(V) < n THEN Len(V) ELSE n)
    BY <1>1, MergedSoFar
<1> QED BY <1>1, <1>2, <1>3

-----------------------------------------------------------------------------
(* The inductive invariant and the theorems. *)

StoresInv == side \in {"B", "S"} /\ MapOK(m) /\ Lists(side, v, m) /\ WindowedOK(side, w, m)

LEMMA StoresInit == Init => StoresInv
<1> SUFFICES ASSUME Init PROVE StoresInv
    OBVIOUS
<1>1. side \in {"B", "S"} /\ m = EmptyLevels /\ v = <<>> /\ w = NewWindowed
    BY DEF Init
<1>2. DOMAIN m = {} /\ MapOK(m)
    BY <1>1 DEF EmptyLevels, MapOK
<1>3. v \in Seq(Level) /\ Len(v) = 0
    BY <1>1
<1>4. Lists(side, v, m)
    BY <1>2, <1>3 DEF Lists, Ordered
<1> QED BY <1>1, <1>2, <1>4 DEF StoresInv, WindowedOK

LEMMA StoresNext == StoresInv /\ [Next]_vars => StoresInv'
<1> SUFFICES ASSUME StoresInv, [Next]_vars PROVE StoresInv'
    OBVIOUS
<1>0. side \in {"B", "S"} /\ MapOK(m) /\ Lists(side, v, m) /\ WindowedOK(side, w, m)
    BY DEF StoresInv
<1>1. ASSUME NEW p \in Prices, NEW q \in Inserted, Regular(p, q), inc(p, q)
      PROVE  StoresInv'
  <2>0. q \in 0 .. MaxQty
      BY StoresAssumption DEF Inserted
  <2>1. (At(m, p) + q) % QtyMod # 0
      BY <1>1 DEF Regular
  <2>2. MapOK(Inc(m, p, q))
      BY <1>0, <2>0, <2>1, IncChanges DEF Changed
  <2>3. Lists(side, FlatInc(side, v, p, q), Inc(m, p, q))
      BY <1>0, <2>0, <2>1, FlatIncLists
  <2>4. WindowedOK(side, WindowedInc(side, w, p, q), Inc(m, p, q))
      BY <1>0, <2>0, <2>1, WindowedIncOK
  <2>5. /\ m' = Inc(m, p, q) /\ v' = FlatInc(side, v, p, q)
        /\ w' = WindowedInc(side, w, p, q) /\ side' = side
      BY <1>1 DEF inc
  <2> QED BY <1>0, <2>2, <2>3, <2>4, <2>5 DEF StoresInv
<1>2. ASSUME NEW p \in Prices, NEW q \in 0 .. MaxQty, dec(p, q)
      PROVE  StoresInv'
  <2>1. MapOK(Dec(m, p, q))
      BY <1>0, DecChanges DEF Changed
  <2>2. Lists(side, FlatDec(side, v, p, q), Dec(m, p, q))
      BY <1>0, FlatDecLists
  <2>3. WindowedOK(side, WindowedDec(side, w, p, q), Dec(m, p, q))
      BY <1>0, WindowedDecOK
  <2>4. /\ m' = Dec(m, p, q) /\ v' = FlatDec(side, v, p, q)
        /\ w' = WindowedDec(side, w, p, q) /\ side' = side
      BY <1>2 DEF dec
  <2> QED BY <1>0, <2>1, <2>2, <2>3, <2>4 DEF StoresInv
<1>3. CASE UNCHANGED vars
    BY <1>0, <1>3 DEF StoresInv, vars
<1> QED BY <1>1, <1>2, <1>3 DEF Next

LEMMA StoresAlways == Spec => []StoresInv
    BY StoresInit, StoresNext, PTL DEF Spec

LEMMA InvSameLevels == StoresInv => SameLevels
<1> SUFFICES ASSUME StoresInv PROVE SameLevels
    OBVIOUS
<1>0. MapOK(m) /\ Lists(side, v, m) /\ WindowedOK(side, w, m)
    BY DEF StoresInv
<1>1. \A p \in Prices : FlatAt(side, v, p) = At(m, p)
    BY <1>0, FlatAtIs
<1>2. \A p \in Prices : WindowedAt(w, p) = At(m, p)
    BY <1>0, WindowedAtIs
<1>3. Len(v) = Size(m)
    BY <1>0, FlatSize
<1>4. WindowedSize(w) = Size(m)
    BY <1>0, WindowedSizeIs
<1> QED BY <1>1, <1>2, <1>3, <1>4 DEF SameLevels

LEMMA InvSameBest == StoresInv => SameBest
    BY FlatBestIs, WindowedBestIs DEF StoresInv, SameBest

LEMMA InvSameTop == StoresInv => SameTop
<1> SUFFICES ASSUME StoresInv, NEW n \in 0 .. Cardinality(Prices) + 1
             PROVE  FlatTop(v, n) = Top(side, m, n) /\ WindowedTop(side, w, n) = Top(side, m, n)
    BY DEF SameTop
<1>0. MapOK(m) /\ Lists(side, v, m) /\ WindowedOK(side, w, m)
    BY DEF StoresInv
<1>1. n \in Nat
    BY StoresAssumption, FS_CardinalityType
<1>2. FlatTop(v, n) = Top(side, m, n)
    BY <1>0, <1>1, FlatTopIs
<1>3. WindowedTop(side, w, n) = Top(side, m, n)
    BY <1>0, <1>1, WindowedTopIs
<1> QED BY <1>2, <1>3

LEMMA InvWindowSound == StoresInv => WindowSound
<1> SUFFICES ASSUME StoresInv PROVE WindowSound
    OBVIOUS
<1>0. MapOK(m) /\ WindowedOK(side, w, m)
    BY DEF StoresInv
<1>1. CASE w = NewWindowed
  <2>1. w.count = 0 /\ Filled(w) = {} /\ DOMAIN w.overflow = {}
      BY <1>1 DEF NewWindowed, Filled, EmptyLevels
  <2>2. w.count = Cardinality(Filled(w))
      BY <2>1, FS_EmptySet
  <2> QED BY <2>1, <2>2 DEF WindowSound
<1>2. CASE Shows(side, w, m)
  <2>1. Filled(w) = Inside(w.base, m)
      BY <1>2, ShowsFilled
  <2>2. w.count = Cardinality(Filled(w))
      BY <1>2, <2>1 DEF Shows
  <2>3. w.count > 0 => w.best_idx = First(side, Filled(w))
      BY <1>2, <2>1, <2>2, InsideFinite DEF Shows
  <2>4. ASSUME NEW p \in DOMAIN w.overflow PROVE ~in_window(w, p) /\ w.overflow[p] # 0
    <3>1. w.overflow = Outside(w.base, m)
        BY <1>2 DEF Shows
    <3>2. DOMAIN Outside(w.base, m) = {x \in DOMAIN m : ~InWindow(w.base, x)}
        BY <1>0, OutsideOK
    <3>3. p \in DOMAIN m /\ ~InWindow(w.base, p)
        BY <3>1, <3>2
    <3>4. w.overflow[p] = m[p]
        BY <3>1, <3>3 DEF Outside
    <3>5. m[p] # 0
        BY <1>0, <3>3, MapAt DEF At
    <3>6. ~in_window(w, p)
        BY <1>2, <3>3, ShowsWindow
    <3> QED BY <3>4, <3>5, <3>6
  <2> QED BY <2>2, <2>3, <2>4 DEF WindowSound
<1> QED BY <1>0, <1>1, <1>2 DEF WindowedOK

\* at() and size() of FlatLevels and WindowedLevels agree with MapLevels after any
\* calls of inc and dec, whatever was spilled, re-centred or erased on the way.
THEOREM StoresSameLevels == Spec => []SameLevels
    BY StoresAlways, InvSameLevels, PTL

\* best() of the three stores agrees: the front of the sorted vector and the better
\* of best_idx_ and the overflow's first level are the map's first level.
THEOREM StoresSameBest == Spec => []SameBest
    BY StoresAlways, InvSameBest, PTL

\* top(n) of the three stores agrees: the vector's prefix and the merge of window
\* and overflow are the first n levels of the map.
THEOREM StoresSameTop == Spec => []SameTop
    BY StoresAlways, InvSameTop, PTL

\* best_idx_ is the first filled slot whenever there is one, so the full scan of
\* rescan_best never decides; count_ is exact; no price is kept twice.
THEOREM StoresWindowSound == Spec => []WindowSound
    BY StoresAlways, InvWindowSound, PTL
=============================================================================
