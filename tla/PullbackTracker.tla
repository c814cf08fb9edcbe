--------------------------- MODULE PullbackTracker ---------------------------
(***************************************************************************)
(* The pullback lifecycle of cortex/cortex/pullback.py: an impulse leg     *)
(* from an origin to an extreme, a retracement into its healthy zone, and  *)
(* its resumption or break.  The tracker is a record; update and the two   *)
(* step methods are operators that return the next tracker and the         *)
(* transition they report.                                                 *)
(*                                                                         *)
(* Prices are positive integers.  An average true range is the record      *)
(* [sum |-> s, n |-> k] for s/k, so that a comparison with a percentage of *)
(* it stays in the integers.  None is 0: no price is.                      *)
(***************************************************************************)
EXTENDS Integers

None == 0

Abs(x) == IF x < 0 THEN -x ELSE x

\* x against percent/100 of the average true range.
AtLeast(x, percent, atr)  == 100 * x * atr.n >= percent * atr.sum
MoreThan(x, percent, atr) == 100 * x * atr.n > percent * atr.sum

\* Defaults of the dataclass, in percent.
MinImpulseAtr == 100
MinDepth      == 25
MaxDepth      == 65
BufferAtr     == 30
AliveCap      == 200

PullbackStates == {"ALIGNED", "ARMED", "RESUMED", "BROKEN"}

NewTracker ==
  [direction |-> 0, origin |-> 0, extreme |-> 0, retrace |-> None,
   state |-> "ALIGNED", alive |-> 0]

Leg(t) == Abs(t.extreme - t.origin)

\* Mutant: the depth of a bear leg is measured like that of a bull leg.
Behind_BullOnly(t, price) == t.extreme - price

\* How far price lies behind the extreme: the depth is Behind/Leg.
Behind(t, price) ==
  IF t.direction > 0 THEN t.extreme - price ELSE price - t.extreme

InHealthyZone(t, price) ==
  /\ MinDepth * Leg(t) <= 100 * Behind(t, price)
  /\ 100 * Behind(t, price) < MaxDepth * Leg(t)

\* The depths of survived pullbacks are only counted.
RecordAlive(t) ==
  IF 0 < Behind(t, t.retrace) /\ Behind(t, t.retrace) < Leg(t) /\ t.alive < AliveCap
  THEN t.alive + 1
  ELSE t.alive

Stepped(t, transition) == [tracker |-> t, transition |-> transition]

\* Mutant: the extreme is taken from the wrong side of the candle.
StartImpulse_SwappedSide(t, c, atr) ==
  IF AtLeast(Abs(c.close - c.open), 50, atr)
  THEN [t EXCEPT !.direction = IF c.close > c.open THEN 1 ELSE -1,
                 !.origin = c.open,
                 !.extreme = IF c.close > c.open THEN c.low ELSE c.high]
  ELSE t

\* The first body of half an ATR starts an impulse.
StartImpulse(t, c, atr) ==
  IF AtLeast(Abs(c.close - c.open), 50, atr)
  THEN [t EXCEPT !.direction = IF c.close > c.open THEN 1 ELSE -1,
                 !.origin = c.open,
                 !.extreme = IF c.close > c.open THEN c.high ELSE c.low]
  ELSE t

StepBull(t, c, atr) ==
  LET beyond == MoreThan(c.high - t.extreme, BufferAtr, atr)
      onward == [t EXCEPT !.state = "ALIGNED", !.extreme = c.high, !.retrace = None]
  IN
  CASE c.close < t.origin ->
         Stepped([t EXCEPT !.state = "BROKEN"], "broken")
    [] c.close >= t.origin /\ beyond /\ t.state = "ARMED" /\ t.retrace # None ->
         Stepped([onward EXCEPT !.origin = t.retrace, !.alive = RecordAlive(t)], "resumed")
    [] c.close >= t.origin /\ beyond /\ ~(t.state = "ARMED" /\ t.retrace # None) ->
         Stepped(onward, "none")
    [] c.close >= t.origin /\ ~beyond /\ t.state = "ALIGNED"
       /\ c.low < t.extreme /\ AtLeast(t.extreme - t.origin, MinImpulseAtr, atr)
       /\ InHealthyZone(t, c.low) ->
         Stepped([t EXCEPT !.state = "ARMED", !.retrace = c.low], "armed")
    [] c.close >= t.origin /\ ~beyond /\ t.state = "ARMED"
       /\ (t.retrace = None \/ c.low < t.retrace) ->
         Stepped([t EXCEPT !.retrace = c.low], "none")
    [] OTHER -> Stepped(t, "none")

StepBear(t, c, atr) ==
  LET beyond == MoreThan(t.extreme - c.low, BufferAtr, atr)
      onward == [t EXCEPT !.state = "ALIGNED", !.extreme = c.low, !.retrace = None]
  IN
  CASE c.close > t.origin ->
         Stepped([t EXCEPT !.state = "BROKEN"], "broken")
    [] c.close <= t.origin /\ beyond /\ t.state = "ARMED" /\ t.retrace # None ->
         Stepped([onward EXCEPT !.origin = t.retrace, !.alive = RecordAlive(t)], "resumed")
    [] c.close <= t.origin /\ beyond /\ ~(t.state = "ARMED" /\ t.retrace # None) ->
         Stepped(onward, "none")
    [] c.close <= t.origin /\ ~beyond /\ t.state = "ALIGNED"
       /\ c.high > t.extreme /\ AtLeast(t.origin - t.extreme, MinImpulseAtr, atr)
       /\ InHealthyZone(t, c.high) ->
         Stepped([t EXCEPT !.state = "ARMED", !.retrace = c.high], "armed")
    [] c.close <= t.origin /\ ~beyond /\ t.state = "ARMED"
       /\ (t.retrace = None \/ c.high > t.retrace) ->
         Stepped([t EXCEPT !.retrace = c.high], "none")
    [] OTHER -> Stepped(t, "none")

Update(t, c, atr) ==
  CASE atr.sum <= 0                     -> Stepped(t, "none")
    [] atr.sum > 0 /\ t.direction = 0 -> Stepped(StartImpulse(t, c, atr), "none")
    [] atr.sum > 0 /\ t.direction > 0 -> StepBull(t, c, atr)
    [] atr.sum > 0 /\ t.direction < 0 -> StepBear(t, c, atr)

------------------------------------------------------------------------------
\* Every leg runs from its origin to its extreme, and a pullback is armed
\* only with a retracement that lies behind the extreme.
Anchored(t) ==
  /\ t.direction > 0 => t.origin < t.extreme
  /\ t.direction < 0 => t.origin > t.extreme
  /\ t.direction = 0 => t.state = "ALIGNED"
  /\ t.state = "ARMED" => t.retrace # None /\ Behind(t, t.retrace) > 0

==============================================================================
