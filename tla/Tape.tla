-------------------------------- MODULE Tape --------------------------------
(***************************************************************************)
(* Tape (include/book/tape.hpp): last price, volume, notional and OHLCV    *)
(* bars of the trades it is given.  A tape is a record; cur is the bar in  *)
(* progress when open.  A VWAP is notional over volume: both are kept.     *)
(***************************************************************************)
EXTENDS Integers, Sequences

CONSTANT Interval          \* bar_interval_ns

ASSUME IntervalAssumption == Interval \in Nat

interval == IF Interval = 0 THEN 1 ELSE Interval

NoBar == [start |-> 0, open |-> 0, high |-> 0, low |-> 0, close |-> 0,
          volume |-> 0, notional |-> 0]

NewTape == [has_last |-> FALSE, last |-> 0, volume |-> 0, notional |-> 0,
            bars |-> <<>>, open |-> FALSE, cur |-> NoBar, bucket |-> 0]

\* Mutant: the volume of the bar before is carried over.
start_bar_keeps(t, px, bucket) ==
    [t EXCEPT !.cur = [@ EXCEPT !.start = bucket * interval, !.open = px, !.high = px,
                                !.low = px, !.close = px],
              !.bucket = bucket, !.open = TRUE]

start_bar(t, px, bucket) ==
    [t EXCEPT !.cur = [NoBar EXCEPT !.start = bucket * interval, !.open = px, !.high = px,
                                    !.low = px, !.close = px],
              !.bucket = bucket, !.open = TRUE]

close_bar(t) == [t EXCEPT !.bars = Append(@, t.cur), !.open = FALSE]

InCurrent(t, bucket) == bucket = t.bucket

on_trade(t, px, qty, ts) ==
    LET bucket == ts \div interval
        total  == [t EXCEPT !.has_last = TRUE, !.last = px, !.volume = @ + qty,
                            !.notional = @ + px * qty]
        inBar  == IF ~t.open THEN start_bar(total, px, bucket)
                  ELSE IF ~InCurrent(t, bucket) THEN start_bar(close_bar(total), px, bucket)
                  ELSE total
    IN  [inBar EXCEPT !.cur.high = IF px > @ THEN px ELSE @,
                      !.cur.low = IF px < @ THEN px ELSE @,
                      !.cur.close = px,
                      !.cur.volume = @ + qty,
                      !.cur.notional = @ + px * qty]

bars(t) == IF t.open THEN Append(t.bars, t.cur) ELSE t.bars
=============================================================================
