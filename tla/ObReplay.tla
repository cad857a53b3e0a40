------------------------------ MODULE ObReplay ------------------------------
(***************************************************************************)
(* apps/obreplay.cpp: load a capture, or generate one, and walk it three   *)
(* times: a timed replay into a BookSet, a pass over the trades for the    *)
(* tapes, and a second replay that times every message.  Then report on    *)
(* one focal book.  A file may hold records of any type and length and may *)
(* be cut anywhere.  A book is the sequence of its messages (see BookSet). *)
(***************************************************************************)
EXTENDS SyntheticFeed, Tape, BookSet, Metrics

CONSTANTS FileRecords,   \* records a file may hold
          FileLen,       \* bound: records of a file
          LocateMod,     \* 2^16: a locate is an unsigned 16-bit integer
          Numbers        \* what strtol may make of --symbol

\* What a record of a file can be: the fields of a header are unsigned, and whatever
\* bytes are behind it, decode() finds numbers where it looks for them (shares have
\* 32 bits) and passes any byte on as a side.
Captured(r) ==
    /\ r.len \in Nat /\ r.ts \in Nat /\ r.locate \in 0 .. LocateMod - 1
    /\ decodes(r) => /\ FieldsFound(r)
                     /\ decode(r).ref \in Nat /\ decode(r).new \in Nat
                     /\ decode(r).shares \in 0 .. QtyMod - 1 /\ decode(r).price \in Nat
                     /\ r.type \in {"A", "F"} => decode(r).side \in Sides \cup {"?"}

\* A locate has 16 bits: with more symbols the generated ones would wrap.  The shares
\* of a message have 32.
ASSUME FileAssumption ==
    /\ FileLen \in Nat /\ LocateMod \in Nat \ {0} /\ Numbers \subseteq Int
    /\ Symbols < LocateMod /\ Lots \cup Clips \subseteq 0 .. QtyMod - 1
    /\ \A r \in FileRecords : Captured(r)

VARIABLES
    phase,     \* how far main() has come
    size,      \* bytes loaded
    n,         \* messages of the timed replay
    book,      \* its BookSet
    tapes,     \* the tape of each locate with a trade
    b2,        \* the BookSet of the second replay
    samples,   \* latencies recorded
    arg,       \* --symbol
    focus      \* the locate reported on, NoFocus for none

replayVars == <<size, n, book, tapes, b2, samples, arg, focus>>
vars == <<genVars, phase, replayVars>>

-----------------------------------------------------------------------------
(* Books of messages. *)

Messages == for_each_framed_message(data, size)

Changes == {"A", "F", "E", "C", "X", "D", "U"}

Routed(m, i) ==
    [id |-> i, locate |-> m.locate,
     kind |-> IF m.type = "R" THEN "directory"
              ELSE IF m.type \in Changes THEN "order" ELSE "other"]

Replayed(ms) ==
    LET set[i \in 0 .. Len(ms)] ==
            IF i = 0 THEN NewBookSet ELSE BookSetApply(set[i - 1], Routed(ms[i], i))
    IN  set[Len(ms)]

Ops(b) == INSTANCE OrderBook WITH
              book <- b, Ref <- Nat, Price <- Nat, MaxShares <- 0, MaxSlots <- 0

\* OrderBook::apply, on the message it is given.
OpOf(m) ==
    CASE m.type \in {"A", "F"} -> [type |-> "add", ref |-> m.ref, side |-> m.side,
                                   price |-> m.price, shares |-> m.shares]
      [] m.type \in {"E", "C", "X"} -> [type |-> "reduce", ref |-> m.ref, shares |-> m.shares]
      [] m.type = "D" -> [type |-> "remove", ref |-> m.ref]
      [] m.type = "U" -> [type |-> "replace", ref |-> m.ref, new |-> m.new,
                          shares |-> m.shares, price |-> m.price]

BookOf(l) ==
    LET ms == Messages
        b[i \in 0 .. Len(book.books[l])] ==
            IF i = 0 THEN Ops(0)!NewBook
            ELSE Ops(0)!apply(b[i - 1], OpOf(ms[book.books[l][i]]))
    IN  b[Len(book.books[l])]

order_count(l) == Cardinality(DOMAIN BookOf(l).index)

symbol(l) == IF l \in DOMAIN book.symbols THEN Messages[book.symbols[l]].stock ELSE <<>>

-----------------------------------------------------------------------------
(* main(). *)

\* The stream is complete (its length is an argument), or the file is read.
Load ==
    /\ phase = "source" /\ data # <<>>
    /\ size' \in IF gen = "file" THEN 0 .. End(data, Len(data)) ELSE {End(data, Len(data))}
    /\ phase' = IF size' = 0 THEN "error" ELSE "pass1"
    /\ UNCHANGED <<genVars, n, book, tapes, b2, samples, arg, focus>>

Pass1 ==
    /\ phase = "pass1"
    /\ n' = Len(Messages) /\ book' = Replayed(Messages)
    /\ phase' = "tape"
    /\ UNCHANGED <<genVars, size, tapes, b2, samples, arg, focus>>

TapeAt(ts_, l) == IF l \in DOMAIN ts_ THEN ts_[l] ELSE NewTape

TapePass ==
    /\ phase = "tape"
    /\ LET ms == Messages
           t[i \in 0 .. Len(ms)] ==
               IF i = 0 THEN [l \in {} |-> NewTape]
               ELSE IF ms[i].type \in {"P", "Q"}
                 THEN Put(t[i - 1], ms[i].locate,
                          on_trade(TapeAt(t[i - 1], ms[i].locate),
                                   ms[i].price, ms[i].shares, ms[i].ts))
               ELSE t[i - 1]
       IN  tapes' = t[Len(ms)]
    /\ phase' = "pass2"
    /\ UNCHANGED <<genVars, size, n, book, b2, samples, arg, focus>>

\* Mutant: a record that ends where the file ends is taken for truncated.
Stops2Early(k) ==
    \/ End(data, k) + Prefix > size
    \/ data[k + 1].len = 0 \/ End(data, k + 1) >= size

\* The second replay has its own walk over the records.
Stops2(k) ==
    \/ End(data, k) + Prefix > size
    \/ data[k + 1].len = 0 \/ End(data, k + 1) > size

Pass2 ==
    /\ phase = "pass2"
    /\ samples' = CHOOSE k \in 0 .. Len(data) : /\ k = Len(data) \/ Stops2(k)
                                               /\ \A i \in 0 .. k - 1 : ~Stops2(i)
    /\ b2' = Replayed(Decoded(data, samples'))
    /\ phase' = "report"
    /\ UNCHANGED <<genVars, size, n, book, tapes, arg, focus>>

Absent == <<>>
Args == {Absent} \cup ({"SYN"} \X (0 .. Symbols)) \cup ({"number"} \X Numbers)

Named(a) == IF a = Absent THEN {} ELSE {l \in DOMAIN book.books : symbol(l) = a}

\* Mutant: the number is taken as it is, whether there is such a book or not.
NumberedUnchecked(a) == IF a # Absent /\ a[1] = "number" THEN {a[2] % LocateMod} ELSE {}

\* strtol, truncated to 16 bits, if there is a book for it.
Numbered(a) == IF a # Absent /\ a[1] = "number"
                 THEN {a[2] % LocateMod} \cap DOMAIN book.books ELSE {}

\* The front of the symbols sorted by order count: ties are broken by no rule.
Busiest == {l \in DOMAIN book.books :
               \A k \in DOMAIN book.books : order_count(k) <= order_count(l)}

Focal(a) == IF Named(a) # {} THEN Named(a)
            ELSE IF Numbered(a) # {} THEN Numbered(a) ELSE Busiest

NoFocus == -1

Report ==
    /\ phase = "report"
    /\ arg' \in Args
    /\ LET f == Focal(arg') IN IF f = {} THEN focus' = NoFocus ELSE focus' \in f
    /\ phase' = "done"
    /\ UNCHANGED <<genVars, size, n, book, tapes, b2, samples>>

InitFile ==
    /\ gen = "file" /\ live = <<>> /\ px = <<>> /\ mid = <<>> /\ next_ref = 1 /\ ts = 0
    /\ data \in UNION {[1 .. k -> FileRecords] : k \in 1 .. FileLen}

Init ==
    /\ GenInit \/ InitFile
    /\ phase = "source" /\ size = 0 /\ n = 0 /\ samples = 0
    /\ book = NewBookSet /\ b2 = NewBookSet
    /\ tapes = [l \in {} |-> NewTape] /\ arg = Absent /\ focus = NoFocus

Generate == phase = "source" /\ gen # "file" /\ GenNext /\ UNCHANGED <<phase, replayVars>>

Next == Generate \/ Load \/ Pass1 \/ TapePass \/ Pass2 \/ Report

Spec == Init /\ [][Next]_vars

-----------------------------------------------------------------------------
(* Properties *)

Generated == gen # "file"

\* The timed replay has just ended, and the second one.
Replayed1 == phase = "tape"
Replayed2 == phase = "report"

\* decode() never looks behind the end of the record it was given, whatever the
\* record claims to be: the length it waits for covers every field it reads.  And a
\* generated stream is decoded to its last message, every field where it was written.
DecodeSound ==
    /\ phase = "pass1" => \A i \in DOMAIN data : decodes(data[i]) => InBounds(data[i])
    /\ Replayed1 /\ Generated => n = Len(data) /\ \A i \in 1 .. n : FieldsFound(data[i])

\* The two replays walk the same records, also in a capture that was cut or has
\* records no decoder knows: they end with the same books, and the latencies are
\* those of the records, decoded or not.
ReplaysAgree ==
    Replayed2 => b2 = book /\ samples = Framed(data, size) /\ samples >= n

\* Every book built from a generated stream is consistent, and whatever rests in it
\* is in the generator's list of live orders of that symbol, on its side and (ladder)
\* at its price: no swap-pop, replace or execution makes it lose track of an order.
GeneratorTracksBook ==
    Replayed1 /\ Generated =>
        \A l \in DOMAIN book.books : LET b == BookOf(l) IN
            /\ Ops(b)!invariant_ok
            /\ \A r \in DOMAIN b.index :
                \E i \in DOMAIN live[l] :
                    /\ live[l][i] = [ref |-> r, side |-> b.slots[b.index[r]].side]
                    /\ gen = "book" => px[i] = b.slots[b.index[r]].price

\* "so `best_bid < best_ask` always holds": in the book reconstructed from the
\* ladder, also when fully executed orders still count as live.
NeverCrossed ==
    Replayed1 /\ gen = "book" /\ 1 \in DOMAIN book.books =>
        LET m == compute_metrics(BookOf(1).bids, BookOf(1).asks, 5)
        IN  m.two_sided => m.spread > 0

\* Every trade is in exactly one bar: the bars add up to the volume and notional
\* of the tape, bound the prices of their trades, and the last one ends at the last
\* price, in whatever order the trades came.  While timestamps do not go back, a
\* bucket has one bar and the bars are in order.
BarsSound ==
    phase = "pass2" => \A l \in DOMAIN tapes :
        LET t == tapes[l]
            bs == bars(t)
            vol[i \in 0 .. Len(bs)] == IF i = 0 THEN 0 ELSE vol[i - 1] + bs[i].volume
            val[i \in 0 .. Len(bs)] == IF i = 0 THEN 0 ELSE val[i - 1] + bs[i].notional
        IN  /\ vol[Len(bs)] = t.volume /\ val[Len(bs)] = t.notional
            /\ \A i \in DOMAIN bs : /\ bs[i].low <= bs[i].open /\ bs[i].open <= bs[i].high
                                    /\ bs[i].low <= bs[i].close /\ bs[i].close <= bs[i].high
                                    /\ bs[i].low * bs[i].volume <= bs[i].notional
                                    /\ bs[i].notional <= bs[i].high * bs[i].volume
            /\ bs[Len(bs)].close = t.last
            /\ (\A i, j \in DOMAIN data : i < j => data[i].ts <= data[j].ts) =>
                   \A i, j \in DOMAIN bs : i < j => bs[i].start < bs[j].start

\* The report is on a book that exists, whatever --symbol says (main dereferences
\* it), on the symbol that was asked for if there is one, on the busiest if none
\* was, and on no book only if there is none at all.
FocusSound ==
    phase = "done" =>
        /\ focus = NoFocus <=> DOMAIN book.books = {}
        /\ focus # NoFocus => focus \in DOMAIN book.books
        /\ Named(arg) # {} => symbol(focus) = arg
        /\ arg = Absent => \A l \in DOMAIN book.books : order_count(l) <= order_count(focus)

\* "heavy bids pull fair value toward the ask": in an uncrossed book the
\* micro-price is inside the spread, and above the mid exactly when the best bid is larger.
MicroPriceLeans ==
    phase = "done" /\ focus # NoFocus =>
        LET m == compute_metrics(BookOf(focus).bids, BookOf(focus).asks, 5)
        IN  m.two_sided /\ m.spread > 0 =>
                /\ m.bid[1] * m.weight <= m.micro /\ m.micro <= m.ask[1] * m.weight
                /\ 2 * m.micro > m.mid * m.weight <=> m.imbalance > 0
                /\ m.bid_depth >= m.bid[2] /\ m.ask_depth >= m.ask[2]
=============================================================================
