---------------------------- MODULE MCNextCandle ----------------------------
(* Small markets for the next-candle drills.                               *)
EXTENDS NextCandle

Plain(colour)   == [colour |-> colour, size |-> 0]
Big(colour)     == [colour |-> colour, size |-> 2]

\* The table: two sizes of a green candle, a red one and a doji between a
\* first and a last candle of which only the colour is read.
TableMarkets ==
  {[task |-> "live_drill", listed |-> 1..7,
    candle |-> [t \in 1..7 |-> IF t = 1 THEN Plain(1) ELSE IF t = 7 THEN last ELSE c[t]]] :
     c \in [2..6 -> {Plain(1), Big(1), Plain(-1), Plain(0)}], last \in {Plain(1), Plain(-1)}}

\* The colours a classifier reads; those of its warm-up and of the candle that
\* is still forming are never read.
Read(n, c) == [t \in 1..n |-> IF t \in DOMAIN c THEN c[t] ELSE Plain(1)]

LiveMarkets ==
  {[task |-> "live_ml", listed |-> 1..8, candle |-> Read(8, c)] :
     c \in [4..7 -> {Plain(1), Plain(-1), Plain(0)}]}

\* More rows than the span needs, a gap, and a listing shorter than the span.
ScaleMarkets ==
  {[task |-> "scale_ml", listed |-> l, candle |-> Read(10, c)] :
     l \in {1..10, (1..10) \ {3}, 7..10},
     c \in [5..9 -> {Plain(1), Plain(-1), Plain(0)}]}

MCMarkets == TableMarkets \cup LiveMarkets \cup ScaleMarkets
=============================================================================
