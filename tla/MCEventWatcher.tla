--------------------------- MODULE MCEventWatcher ---------------------------
(* A small market for the event watcher. *)
EXTENDS EventWatcher

Tuned(period, swing, range, swings) ==
  [atr_period |-> period, swing_atr |-> swing, range_height |-> range, extension |-> 300,
   min_swings |-> swings, lookback_swings |-> 8, impulse_atr |-> 250]

\* The defaults, with a short ATR, and the tuning of test_market_context.py:145.
MCParamSets == {Tuned(3, 150, 120, 3), Tuned(2, 50, 200, 2)}

\* A cold start, and one-tick candles: one short of the first context.
Flat(prices) == [i \in DOMAIN prices |-> OpenCandle(prices[i])]

MCWarmups == {<<>>, Flat(<<6, 8, 6, 8>>), Flat(<<6, 6, 8, 6, 6>>)}
==============================================================================
