---------------------------- MODULE MarketContext ----------------------------
(***************************************************************************)
(* cortex/cortex/market_context.py: candles folded from ticks, the swing   *)
(* structure of a candle history and the context read off it.  A context   *)
(* keeps what the other modules and the properties tell apart; momentum    *)
(* enters through the phase, and ages and forecasts are left out.          *)
(*                                                                         *)
(* A tick's timestamp matters only through its bucket being that of the    *)
(* forming candle or another one, later or earlier.                        *)
(***************************************************************************)
EXTENDS PullbackTracker, Sequences, SequencesExt, FiniteSetsExt

CONSTANTS
  Prices,   \* the finite positive prices: floats, so finitely many
  Infinity  \* the price inf, which JSON lines may carry

ASSUME PriceAssumption ==
  /\ Prices \subseteq Nat \ {0} /\ Prices # {} /\ IsFiniteSet(Prices)
  /\ Infinity \in Nat \ {0} /\ Infinity \notin Prices

\* Finite and positive by construction, and the body within the range.
CandleSet ==
  {c \in [open : Prices, high : Prices, low : Prices, close : Prices] :
     /\ c.low <= c.open /\ c.open <= c.high
     /\ c.low <= c.close /\ c.close <= c.high}

NoCandle == [open |-> None, high |-> None, low |-> None, close |-> None]

Larger(a, b)  == IF a >= b THEN a ELSE b
Smaller(a, b) == IF a <= b THEN a ELSE b

LastN(s, n) == SubSeq(s, Larger(1, Len(s) - n + 1), Len(s))

------------------------------------------------------------------------------
(* CandleAggregator.  NoCandle stands for _bucket_open = None. *)

OpenCandle(p) == [open |-> p, high |-> p, low |-> p, close |-> p]

\* Feed one tick; closed is the candle it closes, or NoCandle.
Feed(forming, p, same) ==
  CASE p = Infinity ->
         [forming |-> forming, closed |-> NoCandle]
    [] p # Infinity /\ (forming = NoCandle \/ ~same) ->
         [forming |-> OpenCandle(p), closed |-> forming]
    [] OTHER ->
         [forming |-> [forming EXCEPT !.high = Larger(@, p), !.low = Smaller(@, p),
                                      !.close = p],
          closed |-> NoCandle]

------------------------------------------------------------------------------
TrueRange(c, before) ==
  Larger(c.high - c.low, Larger(Abs(c.high - before.close), Abs(c.low - before.close)))

NoAtr == [sum |-> 0, n |-> 1]

AtrOf(candles, period) ==
  LET w == LastN(candles, period + 1)
      total[i \in 0..(Len(w) - 1)] ==
        IF i = 0 THEN 0 ELSE total[i - 1] + TrueRange(w[i + 1], w[i])
  IN  IF Len(w) <= 1
      THEN NoAtr
      ELSE [sum |-> total[Len(w) - 1], n |-> Len(w) - 1]

Swing(kind, price) == [kind |-> kind, price |-> price]

\* The state of the loop of zigzag_swings.
Unturned == [direction |-> 0, high |-> None, low |-> None, swings |-> <<>>]

\* Looking for a high: it is confirmed when price falls far enough from it.
SeekHigh(z, c, atr, mult) ==
  LET high == IF z.high = None THEN c.high ELSE Larger(z.high, c.high) IN
  CASE z.direction < 0 -> z
    [] z.direction >= 0 /\ AtLeast(high - c.low, mult, atr) ->
         [direction |-> -1, high |-> None, low |-> c.low,
          swings |-> Append(z.swings, Swing("High", high))]
    [] OTHER -> [z EXCEPT !.high = high]

\* Mutant: any rise confirms a low.
SeekLow_AnyRise(z, c, atr, mult) ==
  LET low == IF z.low = None THEN c.low ELSE Smaller(z.low, c.low) IN
  CASE z.direction > 0 -> z
    [] z.direction <= 0 /\ c.high > low ->
         [direction |-> 1, high |-> c.high, low |-> None,
          swings |-> Append(z.swings, Swing("Low", low))]
    [] OTHER -> [z EXCEPT !.low = low]

SeekLow(z, c, atr, mult) ==
  LET low == IF z.low = None THEN c.low ELSE Smaller(z.low, c.low) IN
  CASE z.direction > 0 -> z
    [] z.direction <= 0 /\ AtLeast(c.high - low, mult, atr) ->
         [direction |-> 1, high |-> c.high, low |-> None,
          swings |-> Append(z.swings, Swing("Low", low))]
    [] OTHER -> [z EXCEPT !.low = low]

\* Mutant: any reversal of a hundredth of the ATR confirms a swing.
ZigzagSwings_AnyReversal(candles, atr, mult) ==
  LET turned[i \in 0..Len(candles)] ==
        IF i = 0
        THEN Unturned
        ELSE SeekLow(SeekHigh(turned[i - 1], candles[i], atr, 1), candles[i], atr, 1)
  IN turned[Len(candles)].swings

ZigzagSwings(candles, atr, mult) ==
  LET turned[i \in 0..Len(candles)] ==
        IF i = 0
        THEN Unturned
        ELSE SeekLow(SeekHigh(turned[i - 1], candles[i], atr, mult), candles[i], atr, mult)
  IN turned[Len(candles)].swings

PricesOf(swings, kind) ==
  LET of[i \in 0..Len(swings)] ==
        IF i = 0 THEN <<>>
        ELSE IF swings[i].kind = kind THEN Append(of[i - 1], swings[i].price) ELSE of[i - 1]
  IN of[Len(swings)]

\* +1 when the last two prices rise, -1 when they fall.
Drift(prices) ==
  LET n == Len(prices) IN
  CASE n >= 2 /\ prices[n] > prices[n - 1] -> 1
    [] n >= 2 /\ prices[n] < prices[n - 1] -> -1
    [] OTHER -> 0

Polarity(swings) ==
  LET vals == LastN(swings, 8)
  IN Drift(PricesOf(vals, "High")) + Drift(PricesOf(vals, "Low"))

------------------------------------------------------------------------------
Seeding(atr) ==
  [atr |-> atr, regime |-> "SEEDING", phase |-> "SEEDING", bias |-> "Flat",
   swing_high |-> None, swing_low |-> None, integrity |-> TRUE, break_level |-> None]

\* Price left the structure at level: the expansion of build_context.
Expansion(ctx, up, level) ==
  [ctx EXCEPT !.regime = "EXPANSION", !.phase = "EXPANSION",
              !.bias = IF up THEN "Long" ELSE "Short",
              !.integrity = FALSE, !.break_level = level]

\* The thesis of a trend holds until the close is beyond its structure.
Trend(ctx, up, last, prev, par) ==
  LET level     == IF up THEN ctx.swing_low ELSE ctx.swing_high
      broken    == level # None /\ (IF up THEN last < level ELSE last > level)
      extended  == level # None /\ AtLeast(Abs(last - level), par.extension, ctx.atr)
      slow      == 100 * Abs(last - prev) * ctx.atr.n < 25 * par.atr_period * ctx.atr.sum
  IN [ctx EXCEPT !.regime = IF up THEN "TREND_UP" ELSE "TREND_DOWN",
                 !.bias = IF up THEN "Long" ELSE "Short",
                 !.phase = IF extended /\ slow THEN "EXHAUSTION" ELSE "TREND",
                 !.integrity = ~broken,
                 !.break_level = IF broken THEN level ELSE None]

\* The part of build_context behind its early returns.
Structure(candles, ctx0, swings, par) ==
  LET n     == Len(candles)
      last  == candles[n].close
      highs == LastN(PricesOf(swings, "High"), (par.lookback_swings + 1) \div 2)
      lows  == LastN(PricesOf(swings, "Low"), (par.lookback_swings + 1) \div 2)
      hi    == IF highs = <<>> THEN None ELSE Max(ToSet(highs))
      lo    == IF lows = <<>> THEN None ELSE Min(ToSet(lows))
      coil  == hi # None /\ lo # None
               /\ ~AtLeast(hi - lo, par.range_height, ctx0.atr)
      score == Polarity(swings)
      ctx   == [ctx0 EXCEPT !.swing_high = hi, !.swing_low = lo,
                            !.bias = IF Last(swings).kind = "Low" THEN "Long" ELSE "Short"]
  IN
  CASE coil /\ (last > hi \/ last < lo) ->
         Expansion(ctx, last > hi, IF last > hi THEN hi ELSE lo)
    [] ~(coil /\ (last > hi \/ last < lo)) /\ score # 0 ->
         Trend(ctx, score > 0, last, candles[n - par.atr_period + 1].close, par)
    [] coil /\ ~(last > hi \/ last < lo) /\ score = 0 ->
         [ctx EXCEPT !.regime = "RANGE", !.phase = "COIL"]
    [] ~coil /\ score = 0 -> ctx

BuildContext(candles, par) ==
  LET n      == Len(candles)
      atr    == AtrOf(candles, par.atr_period)
      move   == candles[n].close - candles[n - 1].close
      swings == ZigzagSwings(candles, atr, par.swing_atr)
  IN
  CASE n < par.atr_period + 2 -> Seeding(NoAtr)
    [] n >= par.atr_period + 2 /\ atr.sum = 0 -> Seeding(NoAtr)
    [] OTHER ->
       IF AtLeast(Abs(move), par.impulse_atr, atr)
       THEN Expansion(Seeding(atr), move > 0, candles[n - 1].close)
       ELSE IF Len(swings) < par.min_swings
       THEN Seeding(atr)
       ELSE Structure(candles, Seeding(atr), swings, par)
==============================================================================
