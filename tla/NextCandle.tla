----------------------------- MODULE NextCandle -----------------------------
(***************************************************************************)
(* The next-candle drills: the table of conditional base rates             *)
(* (cortex/cortex/next_candle.py, run_live_drill) and the walk-forward     *)
(* classifier (cortex/cortex/ml.py, run_live_ml and run_scale_ml), over    *)
(* candles fetched through LiveFeed.  Of a candle they read its colour     *)
(* and, in the table, the size of its body in ATRs; prices are left out.   *)
(* The classifier is external: it learns which labels exist and its        *)
(* probability is free.                                                    *)
(*                                                                         *)
(* Candles are counted from 1, so position p is index p - 1 of the code.   *)
(* A call also carries the position it was made at and the newest position *)
(* its model had seen, for the properties only.                            *)
(***************************************************************************)
EXTENDS LiveFeed

CONSTANTS
  Markets,          \* what the venue may show: [task, listed, candle]
  HistoryCandles,   \* history_candles of the live drills
  ScoreCandles,     \* score_candles
  Slack,            \* candles beyond history_candles a live drill insists on
  ScaleSlack,       \* candles beyond warmup run_scale_ml insists on
  FitFrom,          \* where the fit of the table starts
  Confidence,       \* confidence_min, percent
  Warmup,           \* warmup, which is also where the walk starts
  MinTrain,         \* min_train
  RollingWindow,    \* rolling_window of run_scale_ml
  RetrainEvery      \* retrain_every of run_scale_ml

Colours == {-1, 0, 1}
Sizes   == 0..2

ASSUME DrillAssumption ==
  /\ \A c \in {HistoryCandles, ScoreCandles, Slack, ScaleSlack, FitFrom,
               Confidence, Warmup, MinTrain} : c \in Nat
  /\ RollingWindow \in Nat \ {0} /\ RetrainEvery \in Nat \ {0}
  /\ HistoryCandles > FitFrom
  /\ \A m \in Markets :
       /\ m.task \in {"live_drill", "live_ml", "scale_ml"}
       /\ m.listed \subseteq Nat /\ IsFiniteSet(m.listed) /\ m.listed # {}
       /\ \A t \in m.listed : m.candle[t] \in [colour : Colours, size : Sizes]

VARIABLES
  task,       \* "live_drill", "live_ml" or "scale_ml"
  candle,     \* the candle of each row
  phase,      \* "fetch", "fit", "walk", then "done", "error" or "raised"
  pos,        \* candles handed to the drill so far
  table,      \* _table of the drill
  clf,        \* _clf: the labels it knows and the last of them, or NoModel
  since,      \* _since_train
  pending,    \* _pending, or None
  decisions

marketVars == <<task, candle>>
mlVars     == <<clf, since, pending>>
drillVars  == <<feedVars, marketVars, phase, pos, table, mlVars, decisions>>

\* The colour of the candle at position p.
Colour(p) == candle[rows[p]].colour

Call(colour, made, model) == [call |-> colour, made |-> made, model |-> model]

None    == Call(0, 0, 0)
NoModel == [labels |-> {}, seen |-> 0]

\* A call meets the candle at position p; a doji scores nothing.
Scored(d, p) ==
  IF d = None \/ Colour(p) = 0 THEN <<>>
  ELSE <<[call |-> d.call, made |-> d.made, model |-> d.model, at |-> p]>>

DrillInit ==
  /\ \E m \in Markets : task = m.task /\ listed = m.listed /\ candle = m.candle
  /\ FeedInit /\ feed = IF task = "scale_ml" THEN "paging" ELSE "once"
  /\ phase = "fetch" /\ pos = 0
  /\ table = [key \in {-1, 1} \X (1..Cardinality(listed)) \X Sizes |-> [up |-> 0, down |-> 0]]
  /\ clf = NoModel /\ since = 0 /\ pending = None
  /\ decisions = <<>>

-----------------------------------------------------------------------------
(* The fetch.                                                              *)

Fetch ==
  /\ phase = "fetch"
  /\ FetchKlines(HistoryCandles + ScoreCandles) \/ FetchPage \/ HistoryCovered
  /\ UNCHANGED <<marketVars, phase, pos, table, mlVars, decisions>>

\* Nothing catches a LiveFeedError.
FetchRaises ==
  /\ phase = "fetch" /\ FeedFails
  /\ phase' = "raised"
  /\ UNCHANGED <<marketVars, pos, table, mlVars, decisions>>

Enough ==
  Len(rows) >= IF task = "scale_ml" THEN Warmup + ScaleSlack ELSE HistoryCandles + Slack

\* The drill is built and its first loop entered, or there is too little data.
Begin ==
  /\ phase = "fetch" /\ feed \in {"done", "paged"}
  /\ phase' = IF ~Enough THEN "error" ELSE IF task = "live_drill" THEN "fit" ELSE "walk"
  /\ pos' = IF task = "live_drill" THEN FitFrom ELSE Warmup
  /\ UNCHANGED <<feedVars, marketVars, table, mlVars, decisions>>

-----------------------------------------------------------------------------
(* NextCandleDrill.                                                        *)

\* Length of the run of candles of one colour that ends at p.
Streak(p) ==
  IF Colour(p) = 0 THEN 0
  ELSE Max({n \in 1..p : \A q \in p - n + 1..p : Colour(q) = Colour(p)})

Key(p) == <<Colour(p), Streak(p), candle[rows[p]].size>>

\* fit_accumulate on a history of `len` candles: nothing is known yet of what
\* follows the last of them.
FitAccumulate(p, len) ==
  IF p >= len \/ Colour(p) = 0 \/ Colour(p + 1) = 0 THEN UNCHANGED table
  ELSE IF Colour(p + 1) > 0
       THEN table' = [table EXCEPT ![Key(p)].up = @ + 1]
       ELSE table' = [table EXCEPT ![Key(p)].down = @ + 1]

\* predict: the Laplace-smoothed p_up against confidence_min.
Predict(p) ==
  IF Colour(p) = 0 THEN None
  ELSE LET stat  == table[Key(p)]
           count == stat.up + stat.down
           odds(pct) == pct * (count + 2)
       IN  IF count = 0 THEN None
           ELSE IF 100 * (stat.up + 1) >= odds(Confidence) THEN Call(1, p, HistoryCandles)
           ELSE IF 100 * (stat.up + 1) <= odds(100 - Confidence) THEN Call(-1, p, HistoryCandles)
           ELSE None

FitStep ==
  /\ phase = "fit"
  /\ IF pos < HistoryCandles - 1
       THEN FitAccumulate(pos + 1, Len(rows)) /\ pos' = pos + 1 /\ UNCHANGED phase
       ELSE UNCHANGED <<table, pos>> /\ phase' = "walk"
  /\ UNCHANGED <<feedVars, marketVars, mlVars, decisions>>

\* Mutant: fit_accumulate is handed the whole history while scoring.
DrillStep_WholeHistory ==
  /\ phase = "walk" /\ task = "live_drill" /\ pos < Len(rows) - 1
  /\ LET p == pos + 1 IN
       /\ FitAccumulate(p, Len(rows))
       /\ decisions' = decisions \o Scored(Predict(p), p + 1)
       /\ pos' = p
  /\ UNCHANGED <<feedVars, marketVars, phase, mlVars>>

\* One turn of the scoring loop: learn, call, meet the next candle.  The
\* history handed to fit_accumulate ends with the candle itself.
DrillStep ==
  /\ phase = "walk" /\ task = "live_drill" /\ pos < Len(rows) - 1
  /\ LET p == pos + 1 IN
       /\ FitAccumulate(p, p)
       /\ decisions' = decisions \o Scored(Predict(p), p + 1)
       /\ pos' = p
  /\ UNCHANGED <<feedVars, marketVars, phase, mlVars>>

-----------------------------------------------------------------------------
(* NextCandleML.                                                           *)

\* Mutant: the label of the last sample is the candle that has yet to close.
Labels_Ahead(p) ==
  LET n     == p - Warmup
      start == IF task = "scale_ml" THEN Max({0, n - RollingWindow}) ELSE 0
  IN  Warmup + Max({Warmup, start}) + 2 .. p + 1

\* _training_set at position p: the positions whose colours are its labels.
\* The class counts from the candle the walk started with and skips `warmup`
\* once more.
Labels(p) ==
  LET n     == p - Warmup
      start == IF task = "scale_ml" THEN Max({0, n - RollingWindow}) ELSE 0
  IN  Warmup + Max({Warmup, start}) + 2 .. p

LabelColours(p) == {Colour(q) : q \in Labels(p)}

\* Mutant: a classifier that knows three labels calls too.
Silent_Never(model) == FALSE

\* _proba_green with three labels.
Silent(model) == model.labels = Colours

\* Mutant: the clock is reset whether or not a model came out of the fit.
Untrained_ClockReset(p) ==
  /\ Cardinality(Labels(p)) < MinTrain \/ Cardinality(LabelColours(p)) < 2
  /\ since' = 0
  /\ clf' = clf /\ pending' = None

\* Too few samples, or _train returned None: one label cannot be fitted.
Untrained(p) ==
  /\ Cardinality(Labels(p)) < MinTrain \/ Cardinality(LabelColours(p)) < 2
  /\ since' = since + 1
  /\ clf' = clf /\ pending' = None

\* A model is at hand: it abstains, raises (classes.index(1)) or calls.
Query(model, p) ==
  \/ Silent(model) /\ pending' = None /\ UNCHANGED phase
  \/ ~Silent(model) /\ 1 \notin model.labels /\ pending' = None /\ phase' = "raised"
  \/ /\ ~Silent(model) /\ 1 \in model.labels
     /\ \E colour \in {-1, 1} : pending' = Call(colour, p, model.seen)
     /\ UNCHANGED phase

\* A re-fit is due.
Retrain == since + 1 >= (IF task = "scale_ml" THEN RetrainEvery ELSE 1) \/ clf = NoModel

Refit(p) ==
  /\ Cardinality(Labels(p)) >= MinTrain /\ Cardinality(LabelColours(p)) >= 2
  /\ clf' = [labels |-> LabelColours(p), seen |-> Max(Labels(p))]
  /\ since' = 0

\* step(): score the previous call, then issue the next one.
MLStep ==
  /\ phase = "walk" /\ task # "live_drill" /\ pos < Len(rows) - 1
  /\ LET p == pos + 1 IN
       /\ decisions' = decisions \o Scored(pending, p)
       /\ pos' = p
       /\ \/ p - Warmup < Warmup + 2 /\ pending' = None /\ UNCHANGED <<clf, since, phase>>
          \/ /\ p - Warmup >= Warmup + 2
             /\ \/ Retrain /\ Untrained(p) /\ UNCHANGED phase
                \/ Retrain /\ Refit(p) /\ Query(clf', p)
                \/ ~Retrain /\ UNCHANGED clf /\ since' = since + 1 /\ Query(clf, p)
  /\ UNCHANGED <<feedVars, marketVars, table>>

-----------------------------------------------------------------------------
Report ==
  /\ phase = "walk" /\ pos >= Len(rows) - 1
  /\ phase' = "done"
  /\ UNCHANGED <<feedVars, marketVars, pos, table, mlVars, decisions>>

DrillStepAny == Fetch \/ Begin \/ FitStep \/ DrillStep \/ MLStep \/ Report

DrillNext == DrillStepAny \/ FetchRaises

\* A drill is one thread that runs until it ends; requests may fail but need not.
DrillSpec == DrillInit /\ [][DrillNext]_drillVars /\ WF_drillVars(DrillStepAny)

-----------------------------------------------------------------------------
(* Properties.                                                             *)

\* Walk-forward, point-in-time: every call is scored by the candle right after
\* the one it was made at, at most one call per candle, by a model none of
\* whose samples reaches beyond the candle the call was made at; the classifier
\* is never scored by the candle that is still forming (ml.py:7-11, 154-185 and
\* the bounds of the loops at 231 and 265; next_candle.py:149-156).
WalkForward ==
  \A k \in DOMAIN decisions :
    LET d == decisions[k] IN
    /\ d.at = d.made + 1 /\ d.model <= d.made
    /\ k > 1 => decisions[k - 1].made < d.made
    /\ task # "live_drill" => rows[d.at] # Newest

\* A call never comes from a model older than the retrain interval, even when
\* re-fits that were due have failed (ml.py:169-179).
FreshModel ==
  pending # None =>
    pending.made - pending.model < (IF task = "scale_ml" THEN RetrainEvery ELSE 1)

\* The live classifier keeps all its history: once the labels hold a doji and
\* both colours it never calls again (ml.py:121-125, 187-196).
ThreeColoursSilence ==
  task = "live_ml" =>
    \A k \in DOMAIN decisions : LabelColours(decisions[k].made) # Colours

\* The number of observations of a context that were followed by a colour.
Followed(key, colour, upTo) ==
  Cardinality({p \in FitFrom + 1..upTo :
                 Colour(p) # 0 /\ Key(p) = key /\ Colour(p + 1) = colour})

\* The table is point-in-time: it counts every transition of the fit window
\* once, under the context it was made in, and a call is never made from a
\* table that counts a transition to a candle later than the one the call is
\* made at, or counts one twice (next_candle.py:5-7, 70-86, 149-156).
TableIsPointInTime ==
  phase \in {"fit", "walk", "done"} /\ task = "live_drill" =>
    \A key \in DOMAIN table :
      LET fitted == Min({pos, HistoryCandles - 1})
          seen   == Max({fitted, pos - 1})
      IN  /\ table[key].up   \in Followed(key, 1, fitted)..Followed(key, 1, seen)
          /\ table[key].down \in Followed(key, -1, fitted)..Followed(key, -1, seen)

\* Every drill comes to an end, with a report or an error: paging backwards
\* makes progress whatever the venue has listed (live_feed.py:120-125).
DrillEnds == <>(phase \in {"done", "error", "raised"})
=============================================================================
