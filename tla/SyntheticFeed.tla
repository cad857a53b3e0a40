---------------------------- MODULE SyntheticFeed ----------------------------
(***************************************************************************)
(* The three generators of include/feed/synthetic.hpp: make_synthetic_itch *)
(* ("itch", a stress mix), make_synthetic_multi ("multi", several symbols) *)
(* and make_synthetic_book ("book", a ladder that never crosses).  Each    *)
(* writes one message per step; what it draws from the random generator is *)
(* any value of the range it is reduced to.  live is what the generator    *)
(* believes to rest in the book; an executed order stays in it.            *)
(***************************************************************************)
EXTENDS Itch

CONSTANTS
    Gens,        \* the generators that run
    N,           \* bound: messages of a stream, by generator
    Symbols,     \* n_symbols of "multi"
    C,           \* one cent, in ticks
    MidFloor,    \* the walk of the mid stops here
    Mid0,        \* the first mid
    SeedBid, SeedAsk,
    Depth,       \* how many cents from the inside an order may be placed
    SeedAdds,    \* adds before the mix starts
    MinLive,     \* below it the mix only adds (4, 8 or 10, by generator; a run lowers it)
    Lots, Clips, \* shares of an add; shares taken off or printed by one message
    TsSteps      \* nanoseconds between messages

ASSUME FeedAssumption ==
    /\ Gens \subseteq {"itch", "multi", "book"}
    /\ N \in [Gens -> Nat] /\ Symbols \in Nat \ {0} /\ SeedAdds \in Nat /\ Depth \in Nat
    /\ C \in Nat \ {0} /\ MidFloor \in Nat /\ Mid0 \in Nat /\ MinLive \in Nat \ {0}
    /\ SeedBid \in Nat /\ SeedAsk \in Nat /\ SeedBid >= C /\ SeedAsk >= 2 * C
    /\ Lots \subseteq Nat /\ Clips \subseteq Nat /\ TsSteps \subseteq Nat

VARIABLES
    gen,         \* the generator
    live,        \* per locate: the orders (ref, side) it may still touch
    px,          \* "book": the price of each live order, in parallel to live
    mid,         \* per locate
    next_ref, ts,
    data         \* the records written so far

genVars == <<gen, live, px, mid, next_ref, ts, data>>

Sides == {"B", "S"}
Locates(g) == IF g = "multi" THEN 1 .. Symbols ELSE {1}

Write(type, locate, fields) == data' = Append(data, Encode(type, locate, ts, fields))

\* pct(8) == 0 walks the mid by a cent, never below its floor.
Walk(m) == {m} \cup {IF w < MidFloor THEN MidFloor ELSE w : w \in {m - C, m + C}}

AtLeastCent(p) == IF p < C THEN C ELSE p

add_px(m, side, k) == AtLeastCent(IF side = "B" THEN m - k * C ELSE m + k * C)

-----------------------------------------------------------------------------
(* One message of each kind. *)

RefAfter == next_ref + 1

emit_add(l, side, shares, price) ==
    /\ Write("A", l, << <<8, next_ref>>, <<1, side>>, <<4, shares>>, <<8, "SYNTH">>,
                        <<4, price>> >>)
    /\ live' = [live EXCEPT ![l] = Append(@, [ref |-> next_ref, side |-> side])]
    /\ next_ref' = RefAfter

WriteExecute(l, i, shares) ==
    Write("E", l, << <<8, live[l][i].ref>>, <<4, shares>>, <<8, Len(data)>> >>)

\* Nobody reads the side of a trade.
WriteTrade(shares, price) ==
    Write("P", 1, << <<8, 0>>, <<1, "any">>, <<4, shares>>, <<8, "SYNTH">>, <<4, price>>,
                     <<8, Len(data)>> >>)

\* Mutant: the last element is popped and the i-th is kept.
PopOnly(s, i) == SubSeq(s, 1, Len(s) - 1)

\* s[i] = s.back(); s.pop_back().
SwapPop(s, i) == [j \in 1 .. Len(s) - 1 |-> IF j = i THEN s[Len(s)] ELSE s[j]]

\* Mutant: the vector of prices is not kept in step with live.
PricesAfterDeleteKept(i) == px

PricesAfterDelete(i) == SwapPop(px, i)

-----------------------------------------------------------------------------
(* make_synthetic_book: the inside as the generator sees it. *)

OnSideOf(side) == {px[i] : i \in {j \in DOMAIN live[1] : live[1][j].side = side}}

\* What best(side) returns: the inside price of the live orders, or the seed.
best(side) ==
    IF OnSideOf(side) = {} THEN {IF side = "B" THEN SeedBid ELSE SeedAsk}
    ELSE {p \in OnSideOf(side) :
             \A q \in OnSideOf(side) : IF side = "B" THEN q <= p ELSE q >= p}

\* Mutant: a new bid may join the best ask.
quote_crossing(side, bb, ba, k) ==
    AtLeastCent(IF side = "B" THEN ba - k * C ELSE bb + C + k * C)

quote(side, bb, ba, k) ==
    AtLeastCent(IF side = "B" THEN ba - C - k * C ELSE bb + C + k * C)

add(side) ==
    \E bb \in best("B"), ba \in best("S"), k \in 0 .. Depth - 1, shares \in Lots :
        LET price == quote(side, bb, ba, k)
        IN  /\ emit_add(1, side, shares, price)
            /\ px' = Append(px, price)

-----------------------------------------------------------------------------
(* The streams: a warm-up that does not advance the clock, then the mix. *)

WarmUp == IF gen = "multi" THEN Symbols ELSE SeedAdds

Warming == Len(data) < N[gen] /\ Len(data) < WarmUp

\* SYNnn has two digits of the symbol's index.
Directory ==
    /\ gen = "multi" /\ Warming
    /\ LET l == Len(data) + 1
       IN  Write("R", l, << <<8, <<"SYN", (l - 1) % 100>>>>, <<20, 0>> >>)
    /\ UNCHANGED <<gen, live, px, mid, next_ref, ts>>

SeedPool ==
    /\ gen = "itch" /\ Warming
    /\ \E side \in Sides, k \in 1 .. Depth, shares \in Lots :
           emit_add(1, side, shares, add_px(mid[1], side, k))
    /\ UNCHANGED <<gen, px, mid, ts>>

SeedLadder ==
    /\ gen = "book" /\ Warming
    /\ add(IF Len(data) % 2 = 1 THEN "S" ELSE "B")
    /\ UNCHANGED <<gen, mid, ts>>

\* The head of the loop: a symbol, a walk of its mid, and the clock at its end.
Mixing(l) ==
    /\ Len(data) < N[gen] /\ Len(data) >= WarmUp
    /\ l \in Locates(gen)
    /\ IF gen = "book" THEN UNCHANGED mid
       ELSE \E m \in Walk(mid[l]) : mid' = [mid EXCEPT ![l] = m]
    /\ \E d \in TsSteps : ts' = ts + d
    /\ UNCHANGED gen

Deep(l) == Len(live[l]) >= MinLive

MixAdd(l) ==
    /\ Mixing(l)
    /\ \E side \in Sides :
        \/ /\ gen # "book"
           /\ \E k \in 1 .. Depth, shares \in Lots :
                  emit_add(l, side, shares, add_px(mid'[l], side, k))
           /\ UNCHANGED px
        \/ gen = "book" /\ add(side)

Execute(l) ==
    /\ Mixing(l) /\ Deep(l)
    /\ \E i \in DOMAIN live[l], shares \in Clips : WriteExecute(l, i, shares)
    /\ UNCHANGED <<live, px, next_ref>>

Cancel(l) ==
    /\ Mixing(l) /\ Deep(l) /\ gen # "book"
    /\ \E i \in DOMAIN live[l], shares \in Clips :
           Write("X", l, << <<8, live[l][i].ref>>, <<4, shares>> >>)
    /\ UNCHANGED <<live, px, next_ref>>

Delete(l) ==
    /\ Mixing(l) /\ Deep(l)
    /\ \E i \in DOMAIN live[l] :
        /\ Write("D", l, << <<8, live[l][i].ref>> >>)
        /\ live' = [live EXCEPT ![l] = SwapPop(@, i)]
        /\ px' = IF gen = "book" THEN PricesAfterDelete(i) ELSE px
    /\ UNCHANGED next_ref

Replace(l) ==
    /\ Mixing(l) /\ Deep(l) /\ gen = "itch"
    /\ \E i \in DOMAIN live[l], k \in 1 .. Depth, shares \in Lots :
        /\ Write("U", l, << <<8, live[l][i].ref>>, <<8, next_ref>>, <<4, shares>>,
                            <<4, add_px(mid'[l], live[l][i].side, k)>> >>)
        /\ live' = [live EXCEPT ![l][i].ref = next_ref]
    /\ next_ref' = RefAfter
    /\ UNCHANGED px

\* At the mid: of the walk, or of the inside that best() finds.
Trade(l) ==
    /\ Mixing(l) /\ Deep(l) /\ gen # "multi"
    /\ \E shares \in Clips :
        \/ gen = "itch" /\ WriteTrade(shares, mid'[1])
        \/ /\ gen = "book"
           /\ \E bb \in best("B"), ba \in best("S") :
                  WriteTrade(shares, (bb + ba) \div 2)
    /\ UNCHANGED <<live, px, next_ref>>

GenInit ==
    /\ gen \in Gens
    /\ live = [l \in Locates(gen) |-> <<>>]
    /\ px = <<>>
    /\ mid = [l \in Locates(gen) |-> Mid0 + (l - 1) * C]
    /\ next_ref = 1 /\ ts = 0 /\ data = <<>>

GenNext ==
    \/ Directory \/ SeedPool \/ SeedLadder
    \/ \E l \in Locates(gen) :
        MixAdd(l) \/ Execute(l) \/ Cancel(l) \/ Delete(l) \/ Replace(l) \/ Trade(l)

GenSpec == GenInit /\ [][GenNext]_genVars

-----------------------------------------------------------------------------
(* Properties *)

\* The generator of the ladder never places a bid at or above a live ask: px stays
\* in step with live, bids are at a cent or more and asks above two, so that the
\* floor on prices cannot lift a bid into an ask either.
LiveUncrossed ==
    gen = "book" =>
        /\ Len(px) = Len(live[1])
        /\ \A i \in DOMAIN live[1] : px[i] >= IF live[1][i].side = "B" THEN C ELSE 2 * C
        /\ \A i, j \in DOMAIN live[1] :
               live[1][i].side = "B" /\ live[1][j].side = "S" => px[i] < px[j]
=============================================================================
