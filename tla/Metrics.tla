------------------------------- MODULE Metrics -------------------------------
(***************************************************************************)
(* compute_metrics (include/book/metrics.hpp) on the levels of a book.     *)
(* Prices and quantities stay integers: mid is the sum of the two best     *)
(* prices, micro the numerator of the micro-price and weight its           *)
(* denominator, imbalance the numerator of the order imbalance.  Left out  *)
(* are spread_bps, weighted_mid and imbalance_n, which are further         *)
(* quotients of the spread, the levels and the depths.                     *)
(***************************************************************************)
EXTENDS LevelMap

\* The total quantity of the first n levels.
DepthOf(side, levels, n) ==
    LET top == Top(side, levels, n)
        sum[i \in 0 .. Len(top)] == IF i = 0 THEN 0 ELSE sum[i - 1] + top[i][2]
    IN  sum[Len(top)]

\* Mutant: each price is weighted by the size of its own side.
micro_own(bp, bq, ap, aq) == bp * bq + ap * aq

micro(bp, bq, ap, aq) == bp * aq + ap * bq

NoMetrics == [two_sided |-> FALSE]

compute_metrics(bids, asks, n) ==
    LET bid == Best("B", bids)
        ask == Best("S", asks)
        top == bid[2] + ask[2]
        mid == bid[1] + ask[1]
    IN  IF bid = NoLevel \/ ask = NoLevel THEN NoMetrics
        ELSE [two_sided |-> TRUE, bid |-> bid, ask |-> ask, mid |-> mid,
              spread |-> ask[1] - bid[1],
              micro |-> IF top > 0 THEN micro(bid[1], bid[2], ask[1], ask[2]) ELSE mid,
              weight |-> IF top > 0 THEN top ELSE 2,
              imbalance |-> IF top > 0 THEN bid[2] - ask[2] ELSE 0,
              bid_depth |-> DepthOf("B", bids, n), ask_depth |-> DepthOf("S", asks, n)]
=============================================================================
