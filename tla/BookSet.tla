------------------------------ MODULE BookSet -------------------------------
(***************************************************************************)
(* BookSet (include/book/book_set.hpp): one order book per stock_locate,   *)
(* and the symbols that StockDirectory messages announce.  A set is a      *)
(* record of two partial functions on locates.  A book is the sequence of  *)
(* messages applied to it: two books that were given the same messages in  *)
(* the same order are the same book (apply is a function, see OrderBook).  *)
(*                                                                         *)
(* A message is [id, kind, locate] where kind is "directory", "order" (the *)
(* seven types that change a book) or "other" (trades, system events).     *)
(***************************************************************************)
EXTENDS Naturals, Sequences

NewBookSet == [books |-> [l \in {} |-> <<>>], symbols |-> [l \in {} |-> 0]]

\* books_[locate]: a book is made when there is none.
BookAt(set, l) == IF l \in DOMAIN set.books THEN set.books[l] ELSE <<>>

\* f[l] = v on a map: an entry is made or overwritten.
Put(f, l, v) == [x \in DOMAIN f \cup {l} |-> IF x = l THEN v ELSE f[x]]

\* emplace keeps what is there already.
Emplace(f, g) == [x \in DOMAIN f \cup DOMAIN g |-> IF x \in DOMAIN f THEN f[x] ELSE g[x]]

BookSetApply(set, m) ==
    CASE m.kind = "directory" ->
            [books   |-> Put(set.books, m.locate, BookAt(set, m.locate)),
             symbols |-> Put(set.symbols, m.locate, m.id)]
      [] m.kind = "order" ->
            [set EXCEPT !.books = Put(@, m.locate, Append(BookAt(set, m.locate), m.id))]
      [] OTHER -> set

MergeFrom(set, other) == [books   |-> Emplace(set.books, other.books),
                          symbols |-> Emplace(set.symbols, other.symbols)]
=============================================================================
