---------------------------- MODULE EventWatcher ----------------------------
(***************************************************************************)
(* The event watcher of cortex/cortex/event_watcher.py: it folds a stream  *)
(* of ticks into candles, analyses the forming candle on every tick and    *)
(* the history when a candle closes, drives the pullback tracker with both *)
(* and emits a report, unless a real-time report has the signature of the  *)
(* last one.                                                               *)
(*                                                                         *)
(* rt_interval_ms is 0 in every caller, so every tick is analysed.  The    *)
(* clock decides only whether a line without a report is answered by a     *)
(* heartbeat, on which nothing depends: both are the output "quiet".       *)
(***************************************************************************)
EXTENDS EventEngine

CONSTANTS
  ParamSets,   \* the MarketContextParams a watcher may be configured with
  Warmups,     \* histories gathered before: candles, the last one forming
  MaxCandles,  \* length of the bounded candle history
  MaxLines     \* bound: lines of the stream

\* MarketContextParams, multiples of the ATR in percent.
Params ==
  [atr_period : Nat, swing_atr : Nat, range_height : Nat, extension : Nat,
   min_swings : Nat, lookback_swings : Nat, impulse_atr : Nat]

ASSUME WatcherAssumption ==
  /\ MaxCandles \in Nat \ {0} /\ MaxLines \in Nat
  /\ ParamSets \subseteq Params
  /\ \A p \in ParamSets :
       p.atr_period >= 2 /\ p.min_swings >= 2 /\ p.lookback_swings >= 2
  /\ Warmups \subseteq Seq(CandleSet)

VARIABLES
  par,       \* params
  forming,   \* the aggregator's forming candle
  candles,   \* closed candles, the newest last
  tracker,   \* the pullback tracker
  last_sig,  \* _last_rt_sig, or NoSig
  out,       \* what the last line made the watcher write
  lines      \* lines read

watcherVars == <<par, forming, candles, tracker, last_sig, out, lines>>

NoSig == [theses |-> {}, regime |-> "none", phase |-> "none", integrity |-> TRUE]

Output(kind, theses) == [kind |-> kind, theses |-> theses]

\* With fewer candles than a context needs the tracker has not moved yet.
WatcherInit ==
  /\ par \in ParamSets
  /\ \E w \in Warmups :
       /\ Len(w) <= par.atr_period + 2
       /\ IF w = <<>> THEN candles = <<>> /\ forming = NoCandle
                      ELSE candles = Front(w) /\ forming = Last(w)
  /\ tracker = NewTracker
  /\ last_sig = NoSig
  /\ out = Output(IF candles = <<>> THEN "quiet" ELSE "close", {})
  /\ lines = 0

\* The thesis that _merge_pullback adds for a transition.
PullbackThesis(transition) ==
  CASE transition = "armed"   -> {"pullback_armed"}
    [] transition = "resumed" -> {"pullback_resumed"}
    [] transition = "broken"  -> {"pullback_broken"}
    [] OTHER -> {}

Report(history, ctx, transition) ==
  Analyze(history, ctx.atr) \cup PullbackThesis(transition)

\* Mutant: the signature is only the context's.
Signature_ContextOnly(theses, ctx) ==
  [theses |-> {}, regime |-> ctx.regime, phase |-> ctx.phase, integrity |-> ctx.integrity]

Signature(theses, ctx) ==
  [theses |-> theses, regime |-> ctx.regime, phase |-> ctx.phase, integrity |-> ctx.integrity]

\* A line without a report: nothing, or a heartbeat if the clock says so.
Pulse == out' = Output("quiet", {})

\* _analyze_closed, and the reset of the signature behind it.
AnalyzeClosed(closed) ==
  LET history == LastN(Append(candles, closed), MaxCandles)
      ctx     == BuildContext(history, par)
      step    == Update(tracker, closed, ctx.atr)
  IN /\ candles' = history
     /\ tracker' = step.tracker
     /\ out' = Output("close", Report(history, ctx, step.transition))
     /\ last_sig' = NoSig

\* _analyze_rt on the candle f, and the comparison of signatures behind it.
AnalyzeRt(f) ==
  LET history == Append(candles, f)
      ctx     == BuildContext(history, par)
      step    == Update(tracker, f, ctx.atr)
      theses  == Report(history, ctx, step.transition)
      sig     == Signature(theses, ctx)
  IN /\ tracker' = step.tracker
     /\ last_sig' = sig
     /\ IF sig # last_sig THEN out' = Output("rt", theses) ELSE Pulse
     /\ UNCHANGED candles

\* Whether there is history enough, and a candle f forming at the tick's time.
RtReady(f, same) ==
  /\ Len(candles) >= par.atr_period + 1
  /\ f # NoCandle /\ same

\* run() reads the next line.
Reading == lines < MaxLines /\ out.kind # "raised"

\* A tick that closes a candle.
CloseTick(p, same) ==
  LET fed == Feed(forming, p, same) IN
  /\ Reading
  /\ fed.closed # NoCandle
  /\ forming' = fed.forming
  /\ AnalyzeClosed(fed.closed)
  /\ lines' = lines + 1
  /\ UNCHANGED par

\* A tick that does not.  An infinite price passes the watcher's own test
\* and is ignored by the aggregator; the forming candle is analysed again
\* if the tick's time is in its bucket.
FormingTick(p, same) ==
  LET fed == Feed(forming, p, same) IN
  /\ Reading
  /\ fed.closed = NoCandle
  /\ forming' = fed.forming
  /\ IF RtReady(fed.forming, same \/ (forming = NoCandle /\ p # Infinity))
     THEN AnalyzeRt(fed.forming)
     ELSE Pulse /\ UNCHANGED <<candles, tracker, last_sig>>
  /\ lines' = lines + 1
  /\ UNCHANGED par

\* A line that is empty, not JSON, without price or time, or whose price is
\* NaN or not positive.
BadLine ==
  /\ Reading
  /\ Pulse
  /\ lines' = lines + 1
  /\ UNCHANGED <<par, forming, candles, tracker, last_sig>>

\* JSON that is no object, a price or time that is no number, or a time that is
\* NaN or infinite: watch_tick raises before it has changed anything, and run()
\* ends with the exception.
RaisingLine ==
  /\ Reading
  /\ out' = Output("raised", {})
  /\ lines' = lines + 1
  /\ UNCHANGED <<par, forming, candles, tracker, last_sig>>

WatcherNext ==
  \/ \E p \in Prices \cup {Infinity}, same \in BOOLEAN :
       CloseTick(p, same) \/ FormingTick(p, same)
  \/ BadLine \/ RaisingLine

WatcherSpec == WatcherInit /\ [][WatcherNext]_watcherVars

------------------------------------------------------------------------------
\* The tracker follows legs that point the right way and is armed only with a
\* retracement behind the extreme, although the same forming candle drives it
\* again and again (pullback.py:68-128).
TrackerAnchored == Anchored(tracker)

\* The history the watcher reads in real time; a forming candle closes as it
\* is, so this is also the history that is read when it closes.
History == IF forming = NoCandle THEN candles ELSE Append(candles, forming)

MirrorPrice(p) == IF p = None THEN None ELSE Max(Prices) + Min(Prices) - p

MirrorCandle(c) ==
  [open |-> MirrorPrice(c.open), high |-> MirrorPrice(c.low),
   low |-> MirrorPrice(c.high), close |-> MirrorPrice(c.close)]

MirrorTracker(t) ==
  [t EXCEPT !.direction = -@, !.origin = MirrorPrice(@),
            !.extreme = MirrorPrice(@), !.retrace = MirrorPrice(@)]

\* _step_bear is _step_bull seen in a mirror: on the mirrored candle a mirrored
\* tracker makes the same transition and stays the mirror image.
BearMirrorsBull ==
  History # <<>> =>
    LET atr  == BuildContext(History, par).atr
        here == Update(tracker, Last(History), atr)
    IN Update(MirrorTracker(tracker), MirrorCandle(Last(History)), atr)
         = Stepped(MirrorTracker(here.tracker), here.transition)

\* The suppression of repeated real-time reports never swallows a change of
\* the pullback: arming, resuming and breaking are written in the step in
\* which they happen (event_watcher.py:79, :87, :161).
PullbackChangesAreReported ==
  [][/\ tracker.state # "ARMED" /\ tracker'.state = "ARMED" => "pullback_armed" \in out'.theses
     /\ tracker.state = "ARMED" /\ tracker'.state = "ALIGNED" => "pullback_resumed" \in out'.theses
     /\ tracker.state # "BROKEN" /\ tracker'.state = "BROKEN" => "pullback_broken" \in out'.theses
    ]_watcherVars

\* Confirmed swings alternate between highs and lows, each a full reversal
\* away from the one before (zigzag_swings, market_context.py:182-207).
SwingsAlternate ==
  LET atr    == AtrOf(History, par.atr_period)
      swings == ZigzagSwings(History, atr, par.swing_atr)
  IN  atr.sum > 0 =>
         \A i \in 2..Len(swings) :
           /\ swings[i].kind # swings[i - 1].kind
           /\ AtLeast(IF swings[i].kind = "Low"
                      THEN swings[i - 1].price - swings[i].price
                      ELSE swings[i].price - swings[i - 1].price, par.swing_atr, atr)

\* A coil needs a range band wider than the reversal that confirms a swing:
\* with the defaults (range_height_atr 1.2, swing_atr_multiple 1.5) the
\* regime RANGE cannot occur (market_context.py:65-66, :276).
CoilNeedsWideBand ==
  BuildContext(History, par).regime = "RANGE" => par.range_height > par.swing_atr
==============================================================================
