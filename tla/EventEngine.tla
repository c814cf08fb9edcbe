----------------------------- MODULE EventEngine -----------------------------
(***************************************************************************)
(* The detectors of cortex/cortex/event_engine.py, reduced to which        *)
(* catalogued events they fire: only their ids reach the watcher's         *)
(* signature.  The ids of the seed candlestick patterns are not in the     *)
(* catalog, so a match never becomes a thesis and is left out.             *)
(***************************************************************************)
EXTENDS MarketContext

CONSTANTS
  Levels,         \* liquidity levels, a set: the first hit decides, all hits alike
  ReclaimWindow,  \* bars a sweep below a level may lie back
  CheckBack,      \* bars a failed break may lie back
  SqueezeShort, SqueezeLong,  \* windows of the squeeze
  PivotWindow, RocWindow      \* windows of the divergence

ASSUME EngineAssumption ==
  /\ ReclaimWindow \in Nat \ {0} /\ CheckBack \in Nat \ {0}
  /\ SqueezeShort \in Nat \ {0} /\ SqueezeLong \in Nat /\ SqueezeShort <= SqueezeLong
  /\ PivotWindow \in Nat \ {0} /\ RocWindow \in Nat \ {0}

\* Defaults of the detectors, in percent.
LevelFraction    == 30
SqueezeThreshold == 70
AccelMin         == 100
RangeMin         == 120
WickFactor       == 50

Height(c) == c.high - c.low

\* A sell-side sweep may be a few bars old, a buy-side sweep is the last bar.
SweepDetected(bars, level, atr) ==
  \/ \E i \in Larger(1, Len(bars) - ReclaimWindow + 1)..Len(bars) :
       /\ bars[i].low < level /\ AtLeast(level - bars[i].low, LevelFraction, atr)
       /\ bars[i].close > level
  \/ LET last == Last(bars) IN
       /\ last.high > level /\ AtLeast(last.high - level, LevelFraction, atr)
       /\ last.close < level

FakeoutDetected(bars, level) ==
  \E i \in Larger(1, Len(bars) - CheckBack + 1)..(Len(bars) - 1) :
    \/ bars[i].close > level /\ bars[i + 1].close < level
    \/ bars[i].close < level /\ bars[i + 1].close > level

AccelerationRejection(bars, atr) ==
  LET first   == bars[Len(bars) - 1]
      last    == Last(bars)
      impulse == first.close - first.open
      upper   == last.high - Larger(last.open, last.close)
      lower   == Smaller(last.open, last.close) - last.low
  IN
  /\ AtLeast(Abs(impulse), AccelMin, atr)
  /\ AtLeast(Height(last), RangeMin, atr)
  /\ IF impulse > 0
     THEN last.close \in first.open..first.close /\ 100 * upper >= WickFactor * Height(last)
     ELSE last.close \in first.close..first.open /\ 100 * lower >= WickFactor * Height(last)

SumHeights(bars) == SumFunction([i \in DOMAIN bars |-> Height(bars[i])])

\* The average height of the short window against that of the long one.
Compressed(bars) ==
  LET long  == SumHeights(LastN(bars, SqueezeLong))
      short == SumHeights(LastN(bars, SqueezeShort))
  IN /\ Len(bars) >= SqueezeLong
     /\ long > 0
     /\ 100 * short * SqueezeLong < SqueezeThreshold * long * SqueezeShort

------------------------------------------------------------------------------
Beside(vals, i) ==
  {vals[j] : j \in ((i - PivotWindow)..(i + PivotWindow)) \ {i}}

PivotHighs(vals) ==
  {i \in (PivotWindow + 1)..(Len(vals) - PivotWindow) : vals[i] > Max(Beside(vals, i))}

PivotLows(vals) ==
  {i \in (PivotWindow + 1)..(Len(vals) - PivotWindow) : vals[i] < Min(Beside(vals, i))}

\* The kinds of divergence between the last two pivots and the rate of change.
DivergenceAt(closes, pivots, rising) ==
  LET Osc(i) == IF i > RocWindow THEN closes[i] - closes[i - RocWindow] ELSE 0
      p2 == Max(pivots)
      p1 == Max(pivots \ {p2})
      price == closes[p2] - closes[p1]
      osc   == Osc(p2) - Osc(p1)
  IN
  CASE Cardinality(pivots) < 2 -> {}
    [] Cardinality(pivots) >= 2 /\ price > 0 /\ osc < 0 ->
         {IF rising THEN "divergence_regular" ELSE "divergence_hidden"}
    [] Cardinality(pivots) >= 2 /\ price < 0 /\ osc > 0 ->
         {IF rising THEN "divergence_hidden" ELSE "divergence_regular"}
    [] OTHER -> {}

Divergences(closes) ==
  IF Len(closes) < PivotWindow * 2 + RocWindow + 2
  THEN {}
  ELSE DivergenceAt(closes, PivotHighs(closes), TRUE)
       \cup DivergenceAt(closes, PivotLows(closes), FALSE)

------------------------------------------------------------------------------
Theses ==
  {"liquidity_sweep", "fakeout_failed_break", "accel_to_wick_rejection",
   "volatility_compression", "divergence_regular", "divergence_hidden"}

When(cond, id) == IF cond THEN {id} ELSE {}

\* The ids of the theses of EventEngine.analyze.
Analyze(candles, atr) ==
  IF Len(candles) < 2 \/ atr.sum = 0
  THEN {}
  ELSE When(\E l \in Levels : SweepDetected(candles, l, atr), "liquidity_sweep")
       \cup When(\E l \in Levels : FakeoutDetected(candles, l), "fakeout_failed_break")
       \cup When(AccelerationRejection(candles, atr), "accel_to_wick_rejection")
       \cup When(Compressed(candles), "volatility_compression")
       \cup Divergences([i \in DOMAIN candles |-> candles[i].close])
==============================================================================
