------------------------- MODULE EventWatcherProofs -------------------------
(***************************************************************************)
(* Proofs about the event watcher and its pullback tracker, for any set of *)
(* prices, any tuning, any liquidity levels and any length of history.     *)
(***************************************************************************)
EXTENDS EventWatcher, FiniteSetTheorems, TLAPS

-----------------------------------------------------------------------------
(* Recursive definitions over the places of a sequence.                    *)

\* Induction over the natural numbers, on a set instead of a predicate.
LEMMA NatSetInduction ==
  ASSUME NEW good \in SUBSET Nat, 0 \in good, \A n \in good : n + 1 \in good
  PROVE  good = Nat
<1> DEFINE bad  == Nat \ good
           less == OpToRel(<, Nat)
<1> SUFFICES ASSUME bad # {} PROVE FALSE
  OBVIOUS
<1>1. \A i, j \in Nat : i < j => <<i, j>> \in less
  BY DEF OpToRel
<1>2. IsWellFoundedOn(less, Nat)
  BY NatLessThanWellFounded
<1>3. bad \subseteq Nat
  OBVIOUS
<1> HIDE DEF less
<1>4. \E n \in bad : \A m \in bad : ~(<<m, n>> \in less)
  <2> HIDE DEF bad
  <2> QED BY <1>2, <1>3, WFMin
<1>5. PICK n \in bad : \A m \in bad : ~(<<m, n>> \in less)
  BY <1>4
<1>6. n \in Nat /\ n # 0 /\ n - 1 \in Nat /\ n - 1 < n /\ (n - 1) + 1 = n
  OBVIOUS
<1>7. n - 1 \in bad
  BY <1>6
<1> QED BY <1>1, <1>5, <1>6, <1>7

\* A function on 0..n may be defined by its value at 0 and a step.
Unfolds(f, X, n, base, step) ==
  /\ f \in [0..n -> X]
  /\ f[0] = base /\ \A i \in 1..n : f[i] = step[i][f[i - 1]]

LEMMA RecursionExists ==
  ASSUME NEW X, NEW base \in X, NEW n \in Nat, NEW step \in [1..n -> [X -> X]]
  PROVE  \E f : Unfolds(f, X, n, base, step)
<1> DEFINE Solves(f, m) ==
             \A i \in 0..n : i <= m => f[i] = IF i = 0 THEN base ELSE step[i][f[i - 1]]
           good == {m \in Nat : \E f \in [0..n -> X] : Solves(f, m)}
<1>1. 0 \in good
  <2> DEFINE f == [i \in 0..n |-> base]
  <2>1. f \in [0..n -> X] /\ Solves(f, 0)
    OBVIOUS
  <2> QED BY <2>1
<1>2. ASSUME NEW m \in good PROVE m + 1 \in good
  <2>1. PICK f \in [0..n -> X] : Solves(f, m)
    OBVIOUS
  <2>2. m \in Nat
    OBVIOUS
  <2> DEFINE g == [i \in 0..n |-> IF i = 0 THEN base ELSE step[i][f[i - 1]]]
  <2>3. g \in [0..n -> X]
    <3>1. \A i \in 0..n : i # 0 => step[i] \in [X -> X] /\ f[i - 1] \in X
      OBVIOUS
    <3>2. \A i \in 0..n : i # 0 => step[i][f[i - 1]] \in X
      BY <3>1
    <3> QED BY <3>2
  <2>4. ASSUME NEW i \in 0..n, i <= m + 1
        PROVE  g[i] = IF i = 0 THEN base ELSE step[i][g[i - 1]]
    <3>1. CASE i = 0
      BY <3>1
    <3>2. CASE i # 0
      <4>1. i - 1 \in 0..n /\ i - 1 <= m
        BY <2>2, <2>4, <3>2
      <4>2. g[i - 1] = f[i - 1]
        BY <2>1, <4>1
      <4> QED BY <3>2, <4>2
    <3> QED BY <3>1, <3>2
  <2> HIDE DEF g
  <2>5. Solves(g, m + 1)
    BY <2>4
  <2>6. m + 1 \in Nat
    BY <2>2
  <2> HIDE DEF Solves
  <2> QED BY <2>3, <2>5, <2>6
<1>3. good = Nat
  <2> HIDE DEF good
  <2>1. good \in SUBSET Nat
    BY DEF good
  <2> QED BY <1>1, <1>2, <2>1, NatSetInduction
<1>4. PICK f \in [0..n -> X] : Solves(f, n)
  <2> HIDE DEF Solves
  <2>1. n \in good
    BY <1>3
  <2> QED BY <2>1
<1> QED BY <1>4 DEF Unfolds

-----------------------------------------------------------------------------
(* Prices, candles and the average true range.                             *)

LEMMA PriceFacts ==
  /\ \A p \in Prices : p \in Nat /\ p > 0 /\ p # Infinity
  /\ \A c \in CandleSet : /\ c.open \in Prices /\ c.high \in Prices
                          /\ c.low \in Prices /\ c.close \in Prices
                          /\ c.low <= c.open /\ c.open <= c.high
                          /\ c.low <= c.close /\ c.close <= c.high
                          /\ c.low <= c.high
<1>1. \A p \in Prices : p \in Nat /\ p > 0 /\ p # Infinity
  BY PriceAssumption
<1>2. \A c \in CandleSet : /\ c.open \in Prices /\ c.high \in Prices
                           /\ c.low \in Prices /\ c.close \in Prices
                           /\ c.low <= c.open /\ c.open <= c.high
                           /\ c.low <= c.close /\ c.close <= c.high
  BY DEF CandleSet
<1>3. \A c \in CandleSet : c.low <= c.high
  BY <1>1, <1>2
<1> QED BY <1>1, <1>2, <1>3

\* Folding a tick into the forming candle gives a candle (market_context.py:108-131).
LEMMA FeedType ==
  ASSUME NEW f \in CandleSet \cup {NoCandle}, NEW p \in Prices \cup {Infinity},
         NEW same \in BOOLEAN
  PROVE  /\ Feed(f, p, same).forming \in CandleSet \cup {NoCandle}
         /\ Feed(f, p, same).closed \in CandleSet \cup {NoCandle}
<1>1. CASE p = Infinity
  BY <1>1 DEF Feed
<1>2. CASE p # Infinity /\ (f = NoCandle \/ ~same)
  <2>1. p \in Prices /\ OpenCandle(p) \in CandleSet
    BY <1>2, PriceFacts DEF OpenCandle, CandleSet
  <2> QED BY <1>2, <2>1 DEF Feed
<1>3. CASE p # Infinity /\ ~(f = NoCandle \/ ~same)
  <2>1. p \in Prices /\ f \in CandleSet
    BY <1>3
  <2>2. [f EXCEPT !.high = Larger(@, p), !.low = Smaller(@, p), !.close = p] \in CandleSet
    <3> DEFINE h == Larger(f.high, p)
               l == Smaller(f.low, p)
               c == [f EXCEPT !.high = h, !.low = l, !.close = p]
    <3>1. /\ h \in Prices /\ l \in Prices /\ f.open \in Prices
          /\ l <= f.open /\ f.open <= h /\ l <= p /\ p <= h
      BY <2>1, PriceFacts DEF Larger, Smaller
    <3> HIDE DEF h, l
    <3>2. f \in [open : Prices, high : Prices, low : Prices, close : Prices]
      BY <2>1 DEF CandleSet
    <3>3. /\ c \in [open : Prices, high : Prices, low : Prices, close : Prices]
          /\ c.open = f.open /\ c.high = h /\ c.low = l /\ c.close = p
      BY <2>1, <3>1, <3>2
    <3>4. c \in CandleSet
      BY <3>1, <3>3 DEF CandleSet
    <3> QED BY <3>4 DEF h, l
  <2> QED BY <1>3, <2>2 DEF Feed
<1> QED BY <1>1, <1>2, <1>3

\* The last candles of a history are a history, and the last one is its last.
LEMMA LastNType ==
  ASSUME NEW s \in Seq(CandleSet), NEW n \in Nat
  PROVE  LastN(s, n) \in Seq(CandleSet)
BY DEF LastN, Larger

AtrSet == [sum : Nat, n : Nat \ {0}]

\* A sum written as a recursive function of the place is a number.
LEMMA RecursiveSum ==
  ASSUME NEW n \in Nat, NEW v \in [1..n -> Nat],
         NEW g, (\E t : t = [i \in 0..n |-> IF i = 0 THEN 0 ELSE t[i - 1] + v[i]])
                  => g = [i \in 0..n |-> IF i = 0 THEN 0 ELSE g[i - 1] + v[i]]
  PROVE  \A i \in 0..n : g[i] \in Nat
<1> DEFINE Total(t) == [i \in 0..n |-> IF i = 0 THEN 0 ELSE t[i - 1] + v[i]]
           step == [i \in 1..n |-> [x \in Nat |-> x + v[i]]]
<1>1. step \in [1..n -> [Nat -> Nat]]
  OBVIOUS
<1>2. PICK f \in [0..n -> Nat] : f[0] = 0 /\ \A i \in 1..n : f[i] = step[i][f[i - 1]]
  <2> HIDE DEF step, Total
  <2>1. PICK zero \in Nat : zero = 0
    OBVIOUS
  <2>2. PICK f : Unfolds(f, Nat, n, zero, step)
    BY <1>1, RecursionExists
  <2> QED BY <2>1, <2>2 DEF Unfolds
<1>3. \A i \in 0..n : f[i] = IF i = 0 THEN 0 ELSE f[i - 1] + v[i]
  <2> SUFFICES ASSUME NEW i \in 0..n PROVE f[i] = IF i = 0 THEN 0 ELSE f[i - 1] + v[i]
    OBVIOUS
  <2>1. CASE i = 0
    BY <1>2, <2>1
  <2>2. CASE i # 0
    <3>1. i \in 1..n /\ i - 1 \in 0..n
      BY <2>2
    <3>2. step[i][f[i - 1]] = f[i - 1] + v[i]
      BY <3>1
    <3> QED BY <1>2, <2>2, <3>1, <3>2
  <2> QED BY <2>1, <2>2
<1>4. f = Total(f)
  <2>1. f = [i \in 0..n |-> f[i]]
    OBVIOUS
  <2>2. [i \in 0..n |-> f[i]] = Total(f)
    BY <1>3, Zenon
  <2> QED BY <2>1, <2>2
<1>5. g = Total(g)
  BY <1>4
<1>6. g = f
  <2> DEFINE same == {i \in Nat : i <= n => g[i] = f[i]}
  <2>1. \A i \in 0..n : g[i] = IF i = 0 THEN 0 ELSE g[i - 1] + v[i]
    BY <1>5
  <2>2. 0 \in same
    <3>1. 0 \in 0..n
      OBVIOUS
    <3>2. g[0] = 0 /\ f[0] = 0
      BY <1>3, <2>1, <3>1
    <3> QED BY <3>2
  <2>3. ASSUME NEW i \in same PROVE i + 1 \in same
    <3>1. CASE i + 1 <= n
      <4>1. i \in Nat /\ i + 1 \in 0..n /\ i + 1 # 0 /\ (i + 1) - 1 = i /\ g[i] = f[i]
        BY <3>1
      <4>2. g[i + 1] = g[i] + v[i + 1] /\ f[i + 1] = f[i] + v[i + 1]
        BY <1>3, <2>1, <4>1
      <4> QED BY <4>1, <4>2
    <3>2. CASE ~(i + 1 <= n)
      BY <3>2
    <3> QED BY <3>1, <3>2
  <2>4. same = Nat
    <3> HIDE DEF same
    <3>1. same \in SUBSET Nat
      BY DEF same
    <3> QED BY <2>2, <2>3, <3>1, NatSetInduction
  <2>5. \A i \in 0..n : g[i] = f[i]
    BY <2>4
  <2>6. g = [i \in 0..n |-> g[i]]
    BY <1>5
  <2> QED BY <2>5, <2>6
<1> QED BY <1>6

\* The average true range is a quotient of naturals (market_context.py:160-179).
LEMMA AtrType ==
  ASSUME NEW s \in Seq(CandleSet), NEW period \in Nat
  PROVE  AtrOf(s, period) \in AtrSet
<1>1. PICK w \in Seq(CandleSet) : w = LastN(s, period + 1)
  BY LastNType
<1>2. CASE Len(w) <= 1
  BY <1>1, <1>2 DEF AtrOf, NoAtr, AtrSet
<1>3. CASE ~(Len(w) <= 1)
  <2>1. PICK n \in Nat : n = Len(w) - 1 /\ n # 0 /\ Len(w) = n + 1
    BY <1>3
  <2>2. \A i \in 1..n : TrueRange(w[i + 1], w[i]) \in Nat
    <3> SUFFICES ASSUME NEW i \in 1..n PROVE TrueRange(w[i + 1], w[i]) \in Nat
      OBVIOUS
    <3>1. w[i + 1] \in CandleSet /\ w[i] \in CandleSet
      BY <2>1
    <3>2. PICK h \in Int, l \in Int, c \in Int :
            h = w[i + 1].high /\ l = w[i + 1].low /\ c = w[i].close /\ l <= h
      <4>1. /\ w[i + 1].high \in Prices /\ w[i + 1].low \in Prices /\ w[i].close \in Prices
            /\ w[i + 1].low <= w[i + 1].high /\ \A p \in Prices : p \in Int
        BY <3>1, PriceFacts
      <4> QED BY <4>1
    <3>3. Larger(h - l, Larger(Abs(h - c), Abs(l - c))) \in Nat
      <4>0. l <= h
        BY <3>2
      <4>1. Abs(h - c) \in Nat /\ Abs(l - c) \in Nat /\ h - l \in Nat
        BY <4>0 DEF Abs
      <4>2. \A a, b \in Nat : Larger(a, b) \in Nat
        BY DEF Larger
      <4> QED BY <4>1, <4>2
    <3> QED BY <3>2, <3>3 DEF TrueRange
  <2>3. PICK v : v = [i \in 1..n |-> TrueRange(w[i + 1], w[i])]
    OBVIOUS
  <2>4. v \in [1..n -> Nat]
    BY <2>2, <2>3
  <2>5. PICK total : total = CHOOSE t : t = [i \in 0..n |-> IF i = 0 THEN 0 ELSE t[i - 1] + v[i]]
    OBVIOUS
  <2>6. total[n] \in Nat
    <3> DEFINE Total(t) == [i \in 0..n |-> IF i = 0 THEN 0 ELSE t[i - 1] + v[i]]
    <3>0. (\E t : t = Total(t)) => total = Total(total)
      <4>1. total = CHOOSE t : t = Total(t)
        BY <2>5
      <4> HIDE DEF Total
      <4> QED BY <4>1
    <3>1. \A i \in 0..n : total[i] \in Nat
      BY <2>4, <3>0, RecursiveSum
    <3> QED BY <3>1
  <2>7. total = CHOOSE t : t = [i \in 0..n |-> IF i = 0 THEN 0
                                               ELSE t[i - 1] + TrueRange(w[i + 1], w[i])]
    <3>1. \A t : [i \in 0..n |-> IF i = 0 THEN 0 ELSE t[i - 1] + v[i]]
               = [i \in 0..n |-> IF i = 0 THEN 0 ELSE t[i - 1] + TrueRange(w[i + 1], w[i])]
      BY <2>3
    <3> QED BY <2>5, <3>1
  <2>8. AtrOf(s, period) = [sum |-> total[n], n |-> n]
    BY <1>1, <1>3, <2>1, <2>7, Zenon DEF AtrOf
  <2> QED BY <2>1, <2>6, <2>8 DEF AtrSet
<1> QED BY <1>2, <1>3

\* A context carries the average true range of its history, or none.
LEMMA ContextAtr ==
  ASSUME NEW s \in Seq(CandleSet), NEW p \in Params
  PROVE  BuildContext(s, p).atr \in AtrSet
<1>1. AtrOf(s, p.atr_period) \in AtrSet /\ NoAtr \in AtrSet
  BY AtrType DEF Params, AtrSet, NoAtr
<1>2. \A a : Seeding(a).atr = a
  BY DEF Seeding
<1>3. \A a, up, level : Expansion(Seeding(a), up, level).atr = a
  BY DEF Seeding, Expansion
<1>4. \A a, sw : Structure(s, Seeding(a), sw, p).atr = a
  <2> SUFFICES ASSUME NEW a, NEW sw PROVE Structure(s, Seeding(a), sw, p).atr = a
    OBVIOUS
  <2> QED BY DEF Structure, Seeding, Expansion, Trend
<1> QED
  BY <1>1, <1>2, <1>3, <1>4 DEF BuildContext
-----------------------------------------------------------------------------
(* The pullback tracker.                                                   *)

\* A move of a positive share of a positive average true range is a move.
LEMMA MovesArePositive ==
  ASSUME NEW x \in Int, NEW percent \in Nat, NEW atr \in AtrSet, atr.sum > 0
  PROVE  /\ MoreThan(x, percent, atr) => x > 0
         /\ AtLeast(x, percent, atr) /\ percent > 0 => x > 0
<1>1. PICK s \in Int, n \in Nat : s = atr.sum /\ n = atr.n /\ s > 0 /\ n > 0
  BY DEF AtrSet
<1>2. percent * s >= 0 /\ (percent > 0 => percent * s > 0)
  BY <1>1
<1>3. x <= 0 => 100 * x * n <= 0
  BY <1>1
<1>4. 100 * x * n \in Int /\ percent * s \in Int
  BY <1>1
<1>5. CASE x <= 0
  <2>1. PICK lhs \in Int, rhs \in Int : lhs = 100 * x * n /\ rhs = percent * s
    BY <1>4
  <2>2. /\ lhs <= 0 /\ rhs >= 0 /\ (percent > 0 => rhs > 0)
    BY <1>2, <1>3, <1>5, <2>1
  <2>3. ~(lhs > rhs) /\ (percent > 0 => ~(lhs >= rhs))
    BY <2>2
  <2> QED BY <1>1, <2>1, <2>3 DEF MoreThan, AtLeast
<1>6. CASE ~(x <= 0)
  BY <1>6
<1> QED BY <1>5, <1>6

TrackerSet ==
  [direction : {-1, 0, 1}, origin : Prices \cup {None}, extreme : Prices \cup {None},
   retrace : Prices \cup {None}, state : PullbackStates, alive : Nat]

\* What the tracker's fields have to do with one another; Anchored alone does
\* not say that a leg, once begun, has prices at both ends.
TrackerOK(t) ==
  /\ t \in TrackerSet
  /\ t.direction # 0 => t.origin # None /\ t.extreme # None
  /\ t.direction = 0 => t.origin = None /\ t.extreme = None /\ t.retrace = None
  /\ Anchored(t)

\* The transition a step of the tracker from t to u reports is the one it makes.
Reports(t, u, transition) ==
  /\ transition = "armed" => u.state = "ARMED"
  /\ transition = "resumed" => u.state = "ALIGNED"
  /\ transition = "broken" => u.state = "BROKEN"
  /\ t.state # "ARMED" /\ u.state = "ARMED" => transition = "armed"
  /\ t.state = "ARMED" /\ u.state = "ALIGNED" => transition = "resumed"
  /\ t.state # "BROKEN" /\ u.state = "BROKEN" => transition = "broken"

GoodStep(t, step) == TrackerOK(step.tracker) /\ Reports(t, step.tracker, step.transition)

LEMMA NoPriceIsNone == None \notin Prices /\ None \in Int /\ \A p \in Prices : p \in Int
BY PriceAssumption DEF None

LEMMA StartImpulseOK ==
  ASSUME NEW t, TrackerOK(t), NEW c \in CandleSet, NEW atr \in AtrSet, atr.sum > 0,
         t.direction = 0
  PROVE  GoodStep(t, Stepped(StartImpulse(t, c, atr), "none"))
<1>1. t \in TrackerSet /\ t.state = "ALIGNED" /\ t.retrace = None
  BY DEF TrackerOK, Anchored
<1>2. CASE ~AtLeast(Abs(c.close - c.open), 50, atr)
  BY <1>2 DEF StartImpulse, Stepped, GoodStep, Reports
<1>3. CASE AtLeast(Abs(c.close - c.open), 50, atr)
  <2>1. /\ c.open \in Prices /\ c.close \in Prices /\ c.high \in Prices /\ c.low \in Prices
        /\ c.low <= c.open /\ c.open <= c.high /\ c.low <= c.close /\ c.close <= c.high
    BY PriceFacts
  <2>2. c.close # c.open
    <3>1. Abs(c.close - c.open) \in Int
      BY <2>1, NoPriceIsNone DEF Abs
    <3>2. Abs(c.close - c.open) > 0
      BY <1>3, <3>1, MovesArePositive
    <3> QED BY <2>1, <3>2, NoPriceIsNone DEF Abs
  <2> DEFINE d == IF c.close > c.open THEN 1 ELSE -1
             e == IF c.close > c.open THEN c.high ELSE c.low
  <2>3. /\ d \in {-1, 1} /\ e \in Prices
        /\ d > 0 => c.open < e
        /\ d < 0 => c.open > e
    BY <2>1, <2>2, NoPriceIsNone
  <2>4. StartImpulse(t, c, atr) = [t EXCEPT !.direction = d, !.origin = c.open, !.extreme = e]
    BY <1>3 DEF StartImpulse
  <2> HIDE DEF d, e
  <2>5. PICK u : u = [t EXCEPT !.direction = d, !.origin = c.open, !.extreme = e]
    OBVIOUS
  <2>6. /\ u \in TrackerSet /\ u.direction = d /\ u.origin = c.open /\ u.extreme = e
        /\ u.retrace = None /\ u.state = "ALIGNED"
    BY <1>1, <2>1, <2>3, <2>5 DEF TrackerSet
  <2>7. TrackerOK(u)
    BY <2>1, <2>3, <2>6, NoPriceIsNone DEF TrackerOK, Anchored
  <2> QED BY <1>1, <2>4, <2>5, <2>6, <2>7 DEF GoodStep, Reports, Stepped
<1> QED BY <1>2, <1>3
LEMMA StepBullOK ==
  ASSUME NEW t, TrackerOK(t), NEW c \in CandleSet, NEW atr \in AtrSet, atr.sum > 0,
         t.direction = 1
  PROVE  GoodStep(t, StepBull(t, c, atr))
<1> DEFINE beyond == MoreThan(c.high - t.extreme, BufferAtr, atr)
           onward == [t EXCEPT !.state = "ALIGNED", !.extreme = c.high, !.retrace = None]
<1>1. /\ t \in TrackerSet /\ t.origin \in Prices /\ t.extreme \in Prices
      /\ t.origin < t.extreme
      /\ t.state = "ARMED" => t.retrace \in Prices /\ t.retrace < t.extreme
  BY NoPriceIsNone DEF TrackerOK, Anchored, TrackerSet, Behind
<1>2. c.high \in Prices /\ c.low \in Prices /\ c.close \in Prices
  BY PriceFacts
<1>3. beyond => c.high > t.extreme
  <2>1. c.high - t.extreme \in Int /\ BufferAtr \in Nat
    BY <1>1, <1>2, NoPriceIsNone DEF BufferAtr
  <2>2. beyond => c.high - t.extreme > 0
    BY <2>1, MovesArePositive
  <2> QED BY <1>1, <1>2, <2>2, NoPriceIsNone
<1>4. RecordAlive(t) \in Nat
  BY <1>1 DEF RecordAlive, TrackerSet
<1>5. ASSUME NEW u, u \in TrackerSet, u.direction = 1, u.origin \in Prices, u.extreme \in Prices,
             u.origin < u.extreme,
             u.state = "ARMED" => u.retrace \in Prices /\ u.retrace < u.extreme
      PROVE  TrackerOK(u)
  BY <1>5, NoPriceIsNone DEF TrackerOK, Anchored, Behind
<1> HIDE DEF beyond
<1>6. CASE c.close < t.origin
  <2>1. PICK u : u = [t EXCEPT !.state = "BROKEN"]
    OBVIOUS
  <2>2. /\ u \in TrackerSet /\ u.direction = 1 /\ u.origin = t.origin /\ u.extreme = t.extreme
        /\ u.state = "BROKEN"
    BY <1>1, <2>1 DEF TrackerSet, PullbackStates
  <2>3. TrackerOK(u)
    BY <1>1, <1>5, <2>2
  <2>4. StepBull(t, c, atr) = Stepped(u, "broken")
    <3>1. ~(c.close >= t.origin)
      BY <1>1, <1>2, <1>6, NoPriceIsNone
    <3> QED BY <1>6, <2>1, <3>1 DEF StepBull
  <2> QED BY <2>2, <2>3, <2>4 DEF GoodStep, Reports, Stepped
<1>7. CASE c.close >= t.origin /\ beyond /\ t.state = "ARMED" /\ t.retrace # None
  <2>1. PICK u : u = [onward EXCEPT !.origin = t.retrace, !.alive = RecordAlive(t)]
    OBVIOUS
  <2>2. /\ u \in TrackerSet /\ u.direction = 1 /\ u.origin = t.retrace
        /\ u.extreme = c.high /\ u.state = "ALIGNED"
    BY <1>1, <1>2, <1>4, <2>1 DEF TrackerSet, PullbackStates
  <2>3. t.retrace \in Prices /\ t.retrace < c.high
    BY <1>1, <1>2, <1>3, <1>7, NoPriceIsNone
  <2>4. TrackerOK(u)
    BY <1>2, <1>5, <2>2, <2>3
  <2>5. StepBull(t, c, atr) = Stepped(u, "resumed")
    <3>1. ~(c.close < t.origin)
      BY <1>1, <1>2, <1>7, NoPriceIsNone
    <3> QED BY <1>7, <2>1, <3>1 DEF StepBull, beyond
  <2> QED BY <1>7, <2>2, <2>4, <2>5 DEF GoodStep, Reports, Stepped
<1>8. CASE c.close >= t.origin /\ beyond /\ ~(t.state = "ARMED" /\ t.retrace # None)
  <2>1. PICK u : u = onward
    OBVIOUS
  <2>2. /\ u \in TrackerSet /\ u.direction = 1 /\ u.origin = t.origin
        /\ u.extreme = c.high /\ u.state = "ALIGNED"
    BY <1>1, <1>2, <2>1 DEF TrackerSet, PullbackStates
  <2>3. t.origin < c.high
    BY <1>1, <1>2, <1>3, <1>8, NoPriceIsNone
  <2>4. TrackerOK(u)
    BY <1>1, <1>2, <1>5, <2>2, <2>3
  <2>5. StepBull(t, c, atr) = Stepped(u, "none")
    <3>1. ~(c.close < t.origin)
      BY <1>1, <1>2, <1>8, NoPriceIsNone
    <3> QED BY <1>8, <2>1, <3>1 DEF StepBull, beyond
  <2>6. t.state # "ARMED"
    BY <1>1, <1>8, NoPriceIsNone
  <2> QED BY <2>2, <2>4, <2>5, <2>6 DEF GoodStep, Reports, Stepped
<1>9. CASE c.close >= t.origin /\ ~beyond
  <2>1. ~(c.close < t.origin)
    BY <1>1, <1>2, <1>9, NoPriceIsNone
  <2>2. CASE /\ t.state = "ALIGNED" /\ c.low < t.extreme
             /\ AtLeast(t.extreme - t.origin, MinImpulseAtr, atr) /\ InHealthyZone(t, c.low)
    <3>1. PICK u : u = [t EXCEPT !.state = "ARMED", !.retrace = c.low]
      OBVIOUS
    <3>2. /\ u \in TrackerSet /\ u.direction = 1 /\ u.origin = t.origin
          /\ u.extreme = t.extreme /\ u.state = "ARMED" /\ u.retrace = c.low
      BY <1>1, <1>2, <3>1 DEF TrackerSet, PullbackStates
    <3>3. TrackerOK(u)
      BY <1>1, <1>2, <1>5, <2>2, <3>2
    <3>4. StepBull(t, c, atr) = Stepped(u, "armed")
      BY <1>9, <2>1, <2>2, <3>1 DEF StepBull, beyond
    <3> QED BY <2>2, <3>2, <3>3, <3>4 DEF GoodStep, Reports, Stepped
  <2>3. CASE t.state = "ARMED" /\ (t.retrace = None \/ c.low < t.retrace)
    <3>1. PICK u : u = [t EXCEPT !.retrace = c.low]
      OBVIOUS
    <3>2. /\ u \in TrackerSet /\ u.direction = 1 /\ u.origin = t.origin
          /\ u.extreme = t.extreme /\ u.state = "ARMED" /\ u.retrace = c.low
      BY <1>1, <1>2, <2>3, <3>1 DEF TrackerSet
    <3>3. c.low < t.extreme
      BY <1>1, <1>2, <2>3, NoPriceIsNone
    <3>4. TrackerOK(u)
      BY <1>1, <1>2, <1>5, <3>2, <3>3
    <3>5. StepBull(t, c, atr) = Stepped(u, "none")
      BY <1>9, <2>1, <2>3, <3>1 DEF StepBull, beyond
    <3> QED BY <2>3, <3>2, <3>4, <3>5 DEF GoodStep, Reports, Stepped
  <2>4. CASE /\ ~(/\ t.state = "ALIGNED" /\ c.low < t.extreme
                  /\ AtLeast(t.extreme - t.origin, MinImpulseAtr, atr) /\ InHealthyZone(t, c.low))
             /\ ~(t.state = "ARMED" /\ (t.retrace = None \/ c.low < t.retrace))
    <3>1. StepBull(t, c, atr) = Stepped(t, "none")
      BY <1>9, <2>1, <2>4 DEF StepBull, beyond
    <3> QED BY <3>1 DEF GoodStep, Reports, Stepped
  <2> QED BY <2>2, <2>3, <2>4
<1> QED
  <2>1. c.close < t.origin \/ c.close >= t.origin
    BY <1>1, <1>2, NoPriceIsNone
  <2> QED BY <1>6, <1>7, <1>8, <1>9, <2>1

LEMMA StepBearOK ==
  ASSUME NEW t, TrackerOK(t), NEW c \in CandleSet, NEW atr \in AtrSet, atr.sum > 0,
         t.direction = -1
  PROVE  GoodStep(t, StepBear(t, c, atr))
<1> DEFINE beyond == MoreThan(t.extreme - c.low, BufferAtr, atr)
           onward == [t EXCEPT !.state = "ALIGNED", !.extreme = c.low, !.retrace = None]
<1>1. /\ t \in TrackerSet /\ t.origin \in Prices /\ t.extreme \in Prices
      /\ t.origin > t.extreme
      /\ t.state = "ARMED" => t.retrace \in Prices /\ t.retrace > t.extreme
  BY NoPriceIsNone DEF TrackerOK, Anchored, TrackerSet, Behind
<1>2. c.high \in Prices /\ c.low \in Prices /\ c.close \in Prices
  BY PriceFacts
<1>3. beyond => c.low < t.extreme
  <2>1. t.extreme - c.low \in Int /\ BufferAtr \in Nat
    BY <1>1, <1>2, NoPriceIsNone DEF BufferAtr
  <2>2. beyond => t.extreme - c.low > 0
    BY <2>1, MovesArePositive
  <2> QED BY <1>1, <1>2, <2>2, NoPriceIsNone
<1>4. RecordAlive(t) \in Nat
  BY <1>1 DEF RecordAlive, TrackerSet
<1>5. ASSUME NEW u, u \in TrackerSet, u.direction = -1, u.origin \in Prices, u.extreme \in Prices,
             u.origin > u.extreme,
             u.state = "ARMED" => u.retrace \in Prices /\ u.retrace > u.extreme
      PROVE  TrackerOK(u)
  BY <1>5, NoPriceIsNone DEF TrackerOK, Anchored, Behind
<1> HIDE DEF beyond
<1>6. CASE c.close > t.origin
  <2>1. PICK u : u = [t EXCEPT !.state = "BROKEN"]
    OBVIOUS
  <2>2. /\ u \in TrackerSet /\ u.direction = -1 /\ u.origin = t.origin /\ u.extreme = t.extreme
        /\ u.state = "BROKEN"
    BY <1>1, <2>1 DEF TrackerSet, PullbackStates
  <2>3. TrackerOK(u)
    BY <1>1, <1>5, <2>2
  <2>4. StepBear(t, c, atr) = Stepped(u, "broken")
    <3>1. ~(c.close <= t.origin)
      BY <1>1, <1>2, <1>6, NoPriceIsNone
    <3> QED BY <1>6, <2>1, <3>1 DEF StepBear
  <2> QED BY <2>2, <2>3, <2>4 DEF GoodStep, Reports, Stepped
<1>7. CASE c.close <= t.origin /\ beyond /\ t.state = "ARMED" /\ t.retrace # None
  <2>1. PICK u : u = [onward EXCEPT !.origin = t.retrace, !.alive = RecordAlive(t)]
    OBVIOUS
  <2>2. /\ u \in TrackerSet /\ u.direction = -1 /\ u.origin = t.retrace
        /\ u.extreme = c.low /\ u.state = "ALIGNED"
    BY <1>1, <1>2, <1>4, <2>1 DEF TrackerSet, PullbackStates
  <2>3. t.retrace \in Prices /\ t.retrace > c.low
    BY <1>1, <1>2, <1>3, <1>7, NoPriceIsNone
  <2>4. TrackerOK(u)
    BY <1>2, <1>5, <2>2, <2>3
  <2>5. StepBear(t, c, atr) = Stepped(u, "resumed")
    <3>1. ~(c.close > t.origin)
      BY <1>1, <1>2, <1>7, NoPriceIsNone
    <3> QED BY <1>7, <2>1, <3>1 DEF StepBear, beyond
  <2> QED BY <1>7, <2>2, <2>4, <2>5 DEF GoodStep, Reports, Stepped
<1>8. CASE c.close <= t.origin /\ beyond /\ ~(t.state = "ARMED" /\ t.retrace # None)
  <2>1. PICK u : u = onward
    OBVIOUS
  <2>2. /\ u \in TrackerSet /\ u.direction = -1 /\ u.origin = t.origin
        /\ u.extreme = c.low /\ u.state = "ALIGNED"
    BY <1>1, <1>2, <2>1 DEF TrackerSet, PullbackStates
  <2>3. t.origin > c.low
    BY <1>1, <1>2, <1>3, <1>8, NoPriceIsNone
  <2>4. TrackerOK(u)
    BY <1>1, <1>2, <1>5, <2>2, <2>3
  <2>5. StepBear(t, c, atr) = Stepped(u, "none")
    <3>1. ~(c.close > t.origin)
      BY <1>1, <1>2, <1>8, NoPriceIsNone
    <3> QED BY <1>8, <2>1, <3>1 DEF StepBear, beyond
  <2>6. t.state # "ARMED"
    BY <1>1, <1>8, NoPriceIsNone
  <2> QED BY <2>2, <2>4, <2>5, <2>6 DEF GoodStep, Reports, Stepped
<1>9. CASE c.close <= t.origin /\ ~beyond
  <2>1. ~(c.close > t.origin)
    BY <1>1, <1>2, <1>9, NoPriceIsNone
  <2>2. CASE /\ t.state = "ALIGNED" /\ c.high > t.extreme
             /\ AtLeast(t.origin - t.extreme, MinImpulseAtr, atr) /\ InHealthyZone(t, c.high)
    <3>1. PICK u : u = [t EXCEPT !.state = "ARMED", !.retrace = c.high]
      OBVIOUS
    <3>2. /\ u \in TrackerSet /\ u.direction = -1 /\ u.origin = t.origin
          /\ u.extreme = t.extreme /\ u.state = "ARMED" /\ u.retrace = c.high
      BY <1>1, <1>2, <3>1 DEF TrackerSet, PullbackStates
    <3>3. TrackerOK(u)
      BY <1>1, <1>2, <1>5, <2>2, <3>2
    <3>4. StepBear(t, c, atr) = Stepped(u, "armed")
      BY <1>9, <2>1, <2>2, <3>1 DEF StepBear, beyond
    <3> QED BY <2>2, <3>2, <3>3, <3>4 DEF GoodStep, Reports, Stepped
  <2>3. CASE t.state = "ARMED" /\ (t.retrace = None \/ c.high > t.retrace)
    <3>1. PICK u : u = [t EXCEPT !.retrace = c.high]
      OBVIOUS
    <3>2. /\ u \in TrackerSet /\ u.direction = -1 /\ u.origin = t.origin
          /\ u.extreme = t.extreme /\ u.state = "ARMED" /\ u.retrace = c.high
      BY <1>1, <1>2, <2>3, <3>1 DEF TrackerSet
    <3>3. c.high > t.extreme
      BY <1>1, <1>2, <2>3, NoPriceIsNone
    <3>4. TrackerOK(u)
      BY <1>1, <1>2, <1>5, <3>2, <3>3
    <3>5. StepBear(t, c, atr) = Stepped(u, "none")
      BY <1>9, <2>1, <2>3, <3>1 DEF StepBear, beyond
    <3> QED BY <2>3, <3>2, <3>4, <3>5 DEF GoodStep, Reports, Stepped
  <2>4. CASE /\ ~(/\ t.state = "ALIGNED" /\ c.high > t.extreme
                  /\ AtLeast(t.origin - t.extreme, MinImpulseAtr, atr) /\ InHealthyZone(t, c.high))
             /\ ~(t.state = "ARMED" /\ (t.retrace = None \/ c.high > t.retrace))
    <3>1. StepBear(t, c, atr) = Stepped(t, "none")
      BY <1>9, <2>1, <2>4 DEF StepBear, beyond
    <3> QED BY <3>1 DEF GoodStep, Reports, Stepped
  <2> QED BY <2>2, <2>3, <2>4
<1> QED
  <2>1. c.close > t.origin \/ c.close <= t.origin
    BY <1>1, <1>2, NoPriceIsNone
  <2> QED BY <1>6, <1>7, <1>8, <1>9, <2>1

\* A step of the tracker keeps it anchored and reports what it did.
LEMMA UpdateOK ==
  ASSUME NEW t, TrackerOK(t), NEW c \in CandleSet, NEW atr \in AtrSet
  PROVE  GoodStep(t, Update(t, c, atr))
<1>1. atr.sum \in Int /\ t.direction \in {-1, 0, 1}
  BY DEF AtrSet, TrackerOK, TrackerSet
<1>2. CASE atr.sum <= 0
  <2>1. ~(atr.sum > 0)
    BY <1>1, <1>2
  <2>2. Update(t, c, atr) = Stepped(t, "none")
    BY <1>2, <2>1 DEF Update
  <2> QED BY <2>2 DEF GoodStep, Reports, Stepped
<1>3. CASE atr.sum > 0 /\ t.direction = 0
  <2>1. Update(t, c, atr) = Stepped(StartImpulse(t, c, atr), "none")
    BY <1>1, <1>3 DEF Update
  <2> QED BY <1>3, <2>1, StartImpulseOK
<1>4. CASE atr.sum > 0 /\ t.direction = 1
  <2>1. Update(t, c, atr) = StepBull(t, c, atr)
    BY <1>1, <1>4 DEF Update
  <2> QED BY <1>4, <2>1, StepBullOK
<1>5. CASE atr.sum > 0 /\ t.direction = -1
  <2>1. Update(t, c, atr) = StepBear(t, c, atr)
    BY <1>1, <1>5 DEF Update
  <2> QED BY <1>5, <2>1, StepBearOK
<1> QED BY <1>1, <1>2, <1>3, <1>4, <1>5
-----------------------------------------------------------------------------
(* The watcher.                                                            *)

\* The engine's own theses are never the pullback's (event_engine.py:404-474).
LEMMA AnalyzeIsCatalogued ==
  ASSUME NEW h, NEW atr
  PROVE  Analyze(h, atr) \subseteq Theses
<1>1. \A cond, id : When(cond, id) \subseteq {id}
  BY DEF When
<1>2. \A closes, pivots, rising :
        DivergenceAt(closes, pivots, rising) \subseteq {"divergence_regular", "divergence_hidden"}
  BY DEF DivergenceAt
<1>3. \A closes : Divergences(closes) \subseteq {"divergence_regular", "divergence_hidden"}
  BY <1>2 DEF Divergences
<1> QED BY <1>1, <1>3, Zenon DEF Analyze, Theses

\* What the signature of the last real-time report still says of the tracker:
\* a transition it mentions is the tracker's present state.  Without this a
\* second transition of the same kind could have the signature of the first.
SignatureIsCurrent ==
  /\ "pullback_armed" \in last_sig.theses => tracker.state = "ARMED"
  /\ "pullback_resumed" \in last_sig.theses => tracker.state = "ALIGNED"
  /\ "pullback_broken" \in last_sig.theses => tracker.state = "BROKEN"

WatcherInv ==
  /\ par \in ParamSets
  /\ forming \in CandleSet \cup {NoCandle}
  /\ candles \in Seq(CandleSet)
  /\ TrackerOK(tracker)
  /\ SignatureIsCurrent

LEMMA NoCandleIsNone == NoCandle \notin CandleSet
BY NoPriceIsNone DEF NoCandle, CandleSet

\* The theses of a report are the engine's and the one of the transition.
LEMMA ReportSays ==
  ASSUME NEW h, NEW ctx, NEW transition
  PROVE  /\ "pullback_armed" \in Report(h, ctx, transition) <=> transition = "armed"
         /\ "pullback_resumed" \in Report(h, ctx, transition) <=> transition = "resumed"
         /\ "pullback_broken" \in Report(h, ctx, transition) <=> transition = "broken"
<1>1. \A id \in {"pullback_armed", "pullback_resumed", "pullback_broken"} :
        id \in Report(h, ctx, transition) <=> id \in PullbackThesis(transition)
  BY AnalyzeIsCatalogued DEF Report, Theses
<1> QED BY <1>1 DEF PullbackThesis

LEMMA WatcherInitOK == WatcherInit => WatcherInv
<1> SUFFICES ASSUME WatcherInit PROVE WatcherInv
  OBVIOUS
<1>1. PICK w \in Warmups :
        IF w = <<>> THEN candles = <<>> /\ forming = NoCandle
                    ELSE candles = Front(w) /\ forming = Last(w)
  BY DEF WatcherInit
<1>2. w \in Seq(CandleSet)
  BY WatcherAssumption
<1>3. w # <<>> => Front(w) \in Seq(CandleSet) /\ Last(w) \in CandleSet
  <2> SUFFICES ASSUME w # <<>> PROVE Front(w) \in Seq(CandleSet) /\ Last(w) \in CandleSet
    OBVIOUS
  <2>1. PICK n \in Nat : n = Len(w) /\ n # 0
    BY <1>2
  <2>2. w[n] \in CandleSet
    BY <1>2, <2>1
  <2>3. 1 \in 1..n + 1 /\ n - 1 \in 0..n
    BY <2>1
  <2>4. SubSeq(w, 1, n - 1) \in Seq(CandleSet)
    BY <1>2, <2>1, <2>3
  <2> QED BY <2>1, <2>2, <2>4 DEF Front, Last
<1>4. candles \in Seq(CandleSet) /\ forming \in CandleSet \cup {NoCandle}
  <2>1. CASE w = <<>>
    BY <1>1, <2>1
  <2>2. CASE w # <<>>
    BY <1>1, <1>3, <2>2, Zenon
  <2> QED BY <2>1, <2>2
<1>5. TrackerOK(tracker)
  BY NoPriceIsNone DEF WatcherInit, NewTracker, TrackerOK, TrackerSet, Anchored, PullbackStates, None
<1>6. SignatureIsCurrent
  BY DEF WatcherInit, NoSig, SignatureIsCurrent
<1> QED BY <1>4, <1>5, <1>6 DEF WatcherInit, WatcherInv

\* What both analyses do to the tracker.
LEMMA AnalysisOK ==
  ASSUME WatcherInv, NEW h \in Seq(CandleSet), NEW c \in CandleSet
  PROVE  GoodStep(tracker, Update(tracker, c, BuildContext(h, par).atr))
<1>1. par \in Params
  BY WatcherAssumption DEF WatcherInv
<1>2. BuildContext(h, par).atr \in AtrSet
  BY <1>1, ContextAtr
<1> QED BY <1>2, UpdateOK DEF WatcherInv

\* The step of the tracker in an analysis, its report and its signature.
Noted ==
  /\ tracker.state # "ARMED" /\ tracker'.state = "ARMED" => "pullback_armed" \in out'.theses
  /\ tracker.state = "ARMED" /\ tracker'.state = "ALIGNED" => "pullback_resumed" \in out'.theses
  /\ tracker.state # "BROKEN" /\ tracker'.state = "BROKEN" => "pullback_broken" \in out'.theses

LEMMA AnalyzeClosedOK ==
  ASSUME WatcherInv, NEW closed \in CandleSet, AnalyzeClosed(closed)
  PROVE  candles' \in Seq(CandleSet) /\ TrackerOK(tracker') /\ SignatureIsCurrent' /\ Noted
<1>1. PICK h : h = LastN(Append(candles, closed), MaxCandles)
  OBVIOUS
<1>2. h \in Seq(CandleSet)
  <2>1. Append(candles, closed) \in Seq(CandleSet) /\ MaxCandles \in Nat
    BY WatcherAssumption DEF WatcherInv
  <2> QED BY <1>1, <2>1, LastNType
<1>3. PICK ctx : ctx = BuildContext(h, par)
  OBVIOUS
<1>4. PICK step : step = Update(tracker, closed, ctx.atr)
  OBVIOUS
<1>5. /\ candles' = h /\ tracker' = step.tracker
      /\ out' = Output("close", Report(h, ctx, step.transition)) /\ last_sig' = NoSig
  BY <1>1, <1>3, <1>4 DEF AnalyzeClosed
<1>6. TrackerOK(step.tracker) /\ Reports(tracker, step.tracker, step.transition)
  BY <1>2, <1>3, <1>4, AnalysisOK DEF GoodStep
<1>7. SignatureIsCurrent'
  BY <1>5 DEF SignatureIsCurrent, NoSig
<1>8. Noted
  <2>1. out'.theses = Report(h, ctx, step.transition)
    BY <1>5 DEF Output
  <2> QED BY <1>5, <1>6, <2>1, ReportSays DEF Reports, Noted
<1> QED BY <1>2, <1>5, <1>6, <1>7, <1>8

LEMMA AnalyzeRtOK ==
  ASSUME WatcherInv, NEW f \in CandleSet, AnalyzeRt(f)
  PROVE  candles' \in Seq(CandleSet) /\ TrackerOK(tracker') /\ SignatureIsCurrent' /\ Noted
<1>1. PICK h : h = Append(candles, f)
  OBVIOUS
<1>2. h \in Seq(CandleSet)
  BY <1>1 DEF WatcherInv
<1>3. PICK ctx : ctx = BuildContext(h, par)
  OBVIOUS
<1>4. PICK step : step = Update(tracker, f, ctx.atr)
  OBVIOUS
<1>5. PICK theses : theses = Report(h, ctx, step.transition)
  OBVIOUS
<1>6. /\ candles' = candles /\ tracker' = step.tracker
      /\ last_sig' = Signature(theses, ctx)
      /\ IF Signature(theses, ctx) # last_sig THEN out' = Output("rt", theses) ELSE Pulse
  BY <1>1, <1>3, <1>4, <1>5 DEF AnalyzeRt
<1>7. TrackerOK(step.tracker) /\ Reports(tracker, step.tracker, step.transition)
  BY <1>2, <1>3, <1>4, AnalysisOK DEF GoodStep
<1>8. last_sig'.theses = theses
  BY <1>6 DEF Signature
<1>9. SignatureIsCurrent'
  BY <1>5, <1>6, <1>7, <1>8, ReportSays DEF Reports, SignatureIsCurrent
<1>10. Noted
  <2>1. CASE Signature(theses, ctx) # last_sig
    <3>1. out'.theses = theses
      BY <1>6, <2>1 DEF Output
    <3> QED BY <1>5, <1>6, <1>7, <3>1, ReportSays DEF Reports, Noted
  <2>2. CASE Signature(theses, ctx) = last_sig
    <3>1. theses = last_sig.theses
      BY <2>2 DEF Signature
    <3>2. SignatureIsCurrent
      BY DEF WatcherInv
    <3> QED BY <1>5, <1>6, <1>7, <3>1, <3>2, ReportSays DEF Reports, Noted, SignatureIsCurrent
  <2> QED BY <2>1, <2>2
<1> QED BY <1>6, <1>7, <1>9, <1>10 DEF WatcherInv

LEMMA WatcherStepOK ==
  ASSUME WatcherInv, [WatcherNext]_watcherVars
  PROVE  WatcherInv' /\ [Noted]_watcherVars
<1>1. CASE UNCHANGED watcherVars
  BY <1>1 DEF watcherVars, WatcherInv, SignatureIsCurrent
<1>2. CASE BadLine \/ RaisingLine
  BY <1>2 DEF BadLine, RaisingLine, WatcherInv, SignatureIsCurrent, Noted
<1>3. ASSUME NEW p \in Prices \cup {Infinity}, NEW same \in BOOLEAN,
             CloseTick(p, same) \/ FormingTick(p, same)
      PROVE  WatcherInv' /\ Noted
  <2>1. /\ Feed(forming, p, same).forming \in CandleSet \cup {NoCandle}
        /\ Feed(forming, p, same).closed \in CandleSet \cup {NoCandle}
    BY FeedType DEF WatcherInv
  <2>2. par' = par /\ par' \in ParamSets /\ forming' \in CandleSet \cup {NoCandle}
    BY <1>3, <2>1 DEF CloseTick, FormingTick, WatcherInv
  <2>3. CASE CloseTick(p, same)
    <3>1. PICK closed \in CandleSet : AnalyzeClosed(closed)
      BY <2>1, <2>3 DEF CloseTick
    <3> QED BY <2>2, <3>1, AnalyzeClosedOK DEF WatcherInv
  <2>4. CASE FormingTick(p, same)
    <3>1. \/ \E f \in CandleSet : AnalyzeRt(f)
          \/ UNCHANGED <<candles, tracker, last_sig>>
      BY <2>1, <2>4 DEF FormingTick, RtReady
    <3>2. CASE UNCHANGED <<candles, tracker, last_sig>>
      BY <2>2, <3>2 DEF WatcherInv, SignatureIsCurrent, Noted
    <3>3. CASE \E f \in CandleSet : AnalyzeRt(f)
      BY <2>2, <3>3, AnalyzeRtOK DEF WatcherInv
    <3> QED BY <3>1, <3>2, <3>3
  <2> QED BY <1>3, <2>3, <2>4
<1> QED BY <1>1, <1>2, <1>3 DEF WatcherNext

\* The invariant that the theorems below rest on: candles are candles, the
\* tracker's fields fit one another, and the last signature names only the
\* tracker's present state (event_watcher.py:60-98, pullback.py:68-128).
THEOREM WatcherInvariant == WatcherSpec => []WatcherInv
<1>1. WatcherInv /\ [WatcherNext]_watcherVars => WatcherInv'
  BY WatcherStepOK
<1> QED BY <1>1, WatcherInitOK, PTL DEF WatcherSpec

\* The tracker follows legs that point the right way and is armed only with a
\* retracement behind the extreme, for every stream of ticks (pullback.py:68-128).
THEOREM WatcherTrackerAnchored == WatcherSpec => []TrackerAnchored
<1>1. WatcherInv => TrackerAnchored
  BY DEF WatcherInv, TrackerOK, TrackerAnchored
<1> QED BY <1>1, WatcherInvariant, PTL

\* No change of the pullback is swallowed by the suppression of repeated
\* real-time reports (event_watcher.py:79, :87, :161).
THEOREM WatcherReportsPullback == WatcherSpec => PullbackChangesAreReported
<1>1. WatcherInv /\ [WatcherNext]_watcherVars => [Noted]_watcherVars
  BY WatcherStepOK
<1>2. WatcherSpec => [][Noted]_watcherVars
  BY <1>1, WatcherInvariant, PTL DEF WatcherSpec
<1> QED BY <1>2 DEF PullbackChangesAreReported, Noted
-----------------------------------------------------------------------------
(* The mirror.                                                             *)

\* A finite set of numbers that is not empty has a least and a largest one.
LEMMA ExtremesExist ==
  ASSUME NEW S \in SUBSET Nat, IsFiniteSet(S), S # {}
  PROVE  /\ \E x \in S : \A y \in S : x >= y
         /\ \E x \in S : \A y \in S : x <= y
<1> DEFINE ends(T) == /\ \E x \in T : \A y \in T : x >= y
                      /\ \E x \in T : \A y \in T : x <= y
           good == {n \in Nat : \A T \in SUBSET S : Cardinality(T) = n + 1 => ends(T)}
<1>1. \A T \in SUBSET S : IsFiniteSet(T) /\ Cardinality(T) \in Nat
  BY FS_Subset, FS_CardinalityType
<1>2. 0 \in good
  <2> SUFFICES ASSUME NEW T \in SUBSET S, Cardinality(T) = 1 PROVE ends(T)
    OBVIOUS
  <2>1. PICK x : T = {x}
    BY <1>1, FS_Singleton
  <2> QED BY <2>1
<1>3. ASSUME NEW n \in good PROVE n + 1 \in good
  <2>1. n \in Nat /\ \A T \in SUBSET S : Cardinality(T) = n + 1 => ends(T)
    OBVIOUS
  <2> SUFFICES ASSUME NEW T \in SUBSET S, Cardinality(T) = n + 2 PROVE ends(T)
    BY <2>1
  <2>2. T # {}
    BY <2>1, FS_EmptySet
  <2>3. PICK a \in T : TRUE
    BY <2>2
  <2>4. Cardinality(T \ {a}) = n + 1
    BY <1>1, <2>1, FS_RemoveElement
  <2>5. ends(T \ {a})
    BY <2>1, <2>4
  <2>6. PICK x \in T \ {a} : \A y \in T \ {a} : x >= y
    BY <2>5
  <2>7. PICK z \in T \ {a} : \A y \in T \ {a} : z <= y
    BY <2>5
  <2>8. a \in Nat /\ \A y \in T : y \in Nat
    OBVIOUS
  <2>9. \E w \in T : \A y \in T : w >= y
    <3>1. CASE a >= x
      BY <2>6, <2>8, <3>1
    <3>2. CASE ~(a >= x)
      BY <2>6, <2>8, <3>2
    <3> QED BY <3>1, <3>2
  <2>10. \E w \in T : \A y \in T : w <= y
    <3>1. CASE a <= z
      BY <2>7, <2>8, <3>1
    <3>2. CASE ~(a <= z)
      BY <2>7, <2>8, <3>2
    <3> QED BY <3>1, <3>2
  <2> QED BY <2>9, <2>10
<1>4. good = Nat
  <2> HIDE DEF good
  <2>1. good \in SUBSET Nat
    BY DEF good
  <2> QED BY <1>2, <1>3, <2>1, NatSetInduction
<1>5. Cardinality(S) \in Nat /\ Cardinality(S) # 0
  BY <1>1, FS_EmptySet
<1>6. PICK n \in Nat : Cardinality(S) = n + 1
  BY <1>5
<1> QED BY <1>4, <1>6

MirrorsBy(k) == \A p \in Prices : MirrorPrice(p) = k - p /\ k - p \in Nat \ {0}

\* The mirror turns every price into a price: a positive number.
LEMMA MirrorBounds == \E k \in Int : MirrorsBy(k)
<1>1. PICK hi \in Prices : \A p \in Prices : hi >= p
  BY PriceAssumption, ExtremesExist
<1>2. PICK lo \in Prices : \A p \in Prices : lo <= p
  BY PriceAssumption, ExtremesExist
<1>3. Max(Prices) \in Prices /\ \A p \in Prices : Max(Prices) >= p
  BY <1>1 DEF Max
<1>4. Min(Prices) \in Prices /\ \A p \in Prices : Min(Prices) <= p
  BY <1>2 DEF Min
<1>5. PICK a \in Int, b \in Int : a = Max(Prices) /\ b = Min(Prices) /\ b > 0
  BY <1>3, <1>4, PriceFacts
<1>6. \A p \in Prices : p \in Int /\ a + b - p > 0 /\ p # None
  BY <1>3, <1>5, PriceFacts, NoPriceIsNone
<1>7. \A p \in Prices : MirrorPrice(p) = a + b - p
  BY <1>5, <1>6 DEF MirrorPrice
<1>8. PICK k \in Int : k = a + b
  OBVIOUS
<1>9. MirrorsBy(k)
  BY <1>6, <1>7, <1>8 DEF MirrorsBy
<1> QED BY <1>9

\* Trackers with any numbers for prices.
AnyTracker ==
  [direction : Int, origin : Int, extreme : Int, retrace : Int,
   state : PullbackStates, alive : Nat]

LEMMA SameTracker ==
  ASSUME NEW u \in AnyTracker, NEW v \in AnyTracker,
         u.direction = v.direction, u.origin = v.origin, u.extreme = v.extreme,
         u.retrace = v.retrace, u.state = v.state, u.alive = v.alive
  PROVE  u = v
BY DEF AnyTracker

\* The fields of a mirrored tracker.
LEMMA MirrorFields ==
  ASSUME NEW t \in TrackerSet
  PROVE  /\ MirrorTracker(t) \in AnyTracker
         /\ MirrorTracker(t).direction = -t.direction
         /\ MirrorTracker(t).origin = MirrorPrice(t.origin)
         /\ MirrorTracker(t).extreme = MirrorPrice(t.extreme)
         /\ MirrorTracker(t).retrace = MirrorPrice(t.retrace)
         /\ MirrorTracker(t).state = t.state /\ MirrorTracker(t).alive = t.alive
         /\ MirrorPrice(None) = None
<1>1. PICK k \in Int : MirrorsBy(k)
  BY MirrorBounds
<1>2. MirrorPrice(None) = None /\ None \in Int
  BY DEF MirrorPrice, None
<1>3. \A p \in Prices \cup {None} : MirrorPrice(p) \in Int
  BY <1>1, <1>2 DEF MirrorsBy
<1>4. PICK d, o, e, r : /\ d = -t.direction /\ o = MirrorPrice(t.origin)
                        /\ e = MirrorPrice(t.extreme) /\ r = MirrorPrice(t.retrace)
  OBVIOUS
<1>5. MirrorTracker(t) = [t EXCEPT !.direction = d, !.origin = o, !.extreme = e, !.retrace = r]
  BY <1>4 DEF MirrorTracker
<1>6. d \in Int /\ o \in Int /\ e \in Int /\ r \in Int
  BY <1>3, <1>4 DEF TrackerSet
<1>7. PICK m : m = [t EXCEPT !.direction = d, !.origin = o, !.extreme = e, !.retrace = r]
  OBVIOUS
<1>8. /\ m.direction = d /\ m.origin = o /\ m.extreme = e /\ m.retrace = r
      /\ m.state = t.state /\ m.alive = t.alive
  BY <1>7 DEF TrackerSet
<1>9. m \in AnyTracker
  BY <1>6, <1>7 DEF TrackerSet, AnyTracker
<1> QED BY <1>2, <1>4, <1>5, <1>7, <1>8, <1>9

\* What it takes to be the mirror image of a tracker.
LEMMA MirrorIs ==
  ASSUME NEW u \in TrackerSet, NEW v \in AnyTracker,
         v.direction = -u.direction, v.origin = MirrorPrice(u.origin),
         v.extreme = MirrorPrice(u.extreme), v.retrace = MirrorPrice(u.retrace),
         v.state = u.state, v.alive = u.alive
  PROVE  v = MirrorTracker(u)
BY MirrorFields, SameTracker

MirrorStep(step) == Stepped(MirrorTracker(step.tracker), step.transition)
\* A falling step is the mirror image of a rising one.
LEMMA MirrorOfBull ==
  ASSUME NEW t, TrackerOK(t), NEW c \in CandleSet, NEW atr \in AtrSet, atr.sum > 0,
         t.direction = 1
  PROVE  StepBear(MirrorTracker(t), MirrorCandle(c), atr) = MirrorStep(StepBull(t, c, atr))
<1>1. PICK m, d : m = MirrorTracker(t) /\ d = MirrorCandle(c)
  OBVIOUS
<1>2. PICK k \in Int : MirrorsBy(k)
  BY MirrorBounds
<1>3. /\ t \in TrackerSet /\ t.origin \in Prices /\ t.extreme \in Prices
      /\ t.retrace \in Prices \cup {None} /\ t.alive \in Nat /\ t.state \in PullbackStates
  BY NoPriceIsNone DEF TrackerOK, TrackerSet
<1>4. c.high \in Prices /\ c.low \in Prices /\ c.close \in Prices
  BY PriceFacts
<1>5. /\ d.high = k - c.low /\ d.low = k - c.high /\ d.close = k - c.close
      /\ d.high = MirrorPrice(c.low) /\ d.low = MirrorPrice(c.high)
      /\ d.high \in Int /\ d.low \in Int
  BY <1>1, <1>2, <1>4, NoPriceIsNone DEF MirrorCandle, MirrorsBy
<1>6. /\ m \in AnyTracker /\ m.direction = -t.direction /\ m.origin = k - t.origin
      /\ m.extreme = k - t.extreme /\ m.state = t.state /\ m.alive = t.alive
      /\ m.retrace = MirrorPrice(t.retrace)
      /\ t.retrace = None => m.retrace = None
      /\ MirrorPrice(None) = None /\ None \in Int
      /\ m.origin = MirrorPrice(t.origin) /\ m.extreme = MirrorPrice(t.extreme)
      /\ t.retrace # None => t.retrace \in Prices /\ m.retrace = k - t.retrace /\ m.retrace # None
  BY <1>1, <1>2, <1>3, MirrorFields DEF MirrorsBy, None
<1>7. /\ d.close > m.origin <=> c.close < t.origin
      /\ d.close <= m.origin <=> c.close >= t.origin
      /\ d.high > m.extreme <=> c.low < t.extreme
      /\ t.retrace # None => (d.high > m.retrace <=> c.low < t.retrace)
      /\ m.extreme - d.low = c.high - t.extreme
      /\ m.origin - m.extreme = t.extreme - t.origin
      /\ m.retrace = None <=> t.retrace = None
      /\ c.close < t.origin <=> ~(c.close >= t.origin)
  BY <1>2, <1>3, <1>4, <1>5, <1>6, NoPriceIsNone
<1>8. Leg(m) = Leg(t)
  BY <1>3, <1>6, NoPriceIsNone DEF Leg, Abs
<1>9. /\ Behind(m, d.high) = Behind(t, c.low)
      /\ t.retrace # None => Behind(m, m.retrace) = Behind(t, t.retrace)
  BY <1>3, <1>4, <1>5, <1>6, NoPriceIsNone DEF Behind
<1>10. InHealthyZone(m, d.high) <=> InHealthyZone(t, c.low)
  BY <1>8, <1>9 DEF InHealthyZone
<1>11. t.retrace # None => RecordAlive(m) = RecordAlive(t)
  BY <1>6, <1>8, <1>9 DEF RecordAlive
<1>12. RecordAlive(t) \in Nat
  BY <1>3 DEF RecordAlive
<1> DEFINE beyond == MoreThan(c.high - t.extreme, BufferAtr, atr)
           healthy == /\ t.state = "ALIGNED" /\ c.low < t.extreme
                      /\ AtLeast(t.extreme - t.origin, MinImpulseAtr, atr)
                      /\ InHealthyZone(t, c.low)
           deeper == t.state = "ARMED" /\ (t.retrace = None \/ c.low < t.retrace)
<1>13. /\ MoreThan(m.extreme - d.low, BufferAtr, atr) <=> beyond
       /\ AtLeast(m.origin - m.extreme, MinImpulseAtr, atr)
            <=> AtLeast(t.extreme - t.origin, MinImpulseAtr, atr)
  BY <1>7
<1>14. /\ (/\ m.state = "ALIGNED" /\ d.high > m.extreme
           /\ AtLeast(m.origin - m.extreme, MinImpulseAtr, atr)
           /\ InHealthyZone(m, d.high)) <=> healthy
       /\ (m.state = "ARMED" /\ (m.retrace = None \/ d.high > m.retrace)) <=> deeper
  BY <1>6, <1>7, <1>10, <1>13
<1> HIDE DEF beyond, healthy, deeper
<1>15. CASE c.close < t.origin
  <2>1. PICK u, v : u = [t EXCEPT !.state = "BROKEN"] /\ v = [m EXCEPT !.state = "BROKEN"]
    OBVIOUS
  <2>2. StepBull(t, c, atr) = Stepped(u, "broken")
    BY <1>7, <1>15, <2>1 DEF StepBull
  <2>3. StepBear(m, d, atr) = Stepped(v, "broken")
    BY <1>7, <1>15, <2>1 DEF StepBear
  <2>4. u \in TrackerSet /\ v = MirrorTracker(u)
    <3>1. u \in TrackerSet /\ v \in AnyTracker
      BY <1>3, <1>6, <2>1 DEF TrackerSet, AnyTracker, PullbackStates
    <3>2. /\ v.direction = -u.direction /\ v.origin = MirrorPrice(u.origin)
          /\ v.extreme = MirrorPrice(u.extreme) /\ v.retrace = MirrorPrice(u.retrace)
          /\ v.state = u.state /\ v.alive = u.alive
      BY <1>3, <1>6, <2>1 DEF TrackerSet, AnyTracker
    <3> QED BY <3>1, <3>2, MirrorIs
  <2> QED BY <1>1, <2>2, <2>3, <2>4 DEF MirrorStep, Stepped
<1>seed. CASE c.close >= t.origin /\ beyond /\ t.state = "ARMED" /\ t.retrace # None
  <2>1. PICK u, v :
          /\ u = [[t EXCEPT !.state = "ALIGNED", !.extreme = c.high, !.retrace = None]
                    EXCEPT !.origin = t.retrace, !.alive = RecordAlive(t)]
          /\ v = [[m EXCEPT !.state = "ALIGNED", !.extreme = d.low, !.retrace = None]
                    EXCEPT !.origin = m.retrace, !.alive = RecordAlive(m)]
    OBVIOUS
  <2>2. StepBull(t, c, atr) = Stepped(u, "resumed")
    BY <1>7, <1>seed, <2>1 DEF StepBull, beyond
  <2>3. StepBear(m, d, atr) = Stepped(v, "resumed")
    BY <1>6, <1>7, <1>13, <1>seed, <2>1 DEF StepBear
  <2>4. u \in TrackerSet /\ v \in AnyTracker
    BY <1>3, <1>4, <1>5, <1>6, <1>11, <1>12, <1>seed, <2>1
       DEF TrackerSet, AnyTracker, PullbackStates
  <2>5. v = MirrorTracker(u)
    <3>1. /\ v.direction = -u.direction /\ v.origin = MirrorPrice(u.origin)
          /\ v.extreme = MirrorPrice(u.extreme) /\ v.retrace = MirrorPrice(u.retrace)
          /\ v.state = u.state /\ v.alive = u.alive
      BY <1>3, <1>5, <1>6, <1>11, <1>seed, <2>1 DEF TrackerSet, AnyTracker
    <3> QED BY <2>4, <3>1, MirrorIs
  <2> QED BY <1>1, <2>2, <2>3, <2>5 DEF MirrorStep, Stepped
<1>17. CASE c.close >= t.origin /\ beyond /\ ~(t.state = "ARMED" /\ t.retrace # None)
  <2>1. PICK u, v :
          /\ u = [t EXCEPT !.state = "ALIGNED", !.extreme = c.high, !.retrace = None]
          /\ v = [m EXCEPT !.state = "ALIGNED", !.extreme = d.low, !.retrace = None]
    OBVIOUS
  <2>2. StepBull(t, c, atr) = Stepped(u, "none")
    BY <1>7, <1>17, <2>1 DEF StepBull, beyond
  <2>3. StepBear(m, d, atr) = Stepped(v, "none")
    BY <1>6, <1>7, <1>13, <1>17, <2>1 DEF StepBear
  <2>4. u \in TrackerSet /\ v \in AnyTracker
    BY <1>3, <1>4, <1>5, <1>6, <2>1 DEF TrackerSet, AnyTracker, PullbackStates
  <2>5. v = MirrorTracker(u)
    <3>1. /\ v.direction = -u.direction /\ v.origin = MirrorPrice(u.origin)
          /\ v.extreme = MirrorPrice(u.extreme) /\ v.retrace = MirrorPrice(u.retrace)
          /\ v.state = u.state /\ v.alive = u.alive
      BY <1>3, <1>5, <1>6, <2>1 DEF TrackerSet, AnyTracker
    <3> QED BY <2>4, <3>1, MirrorIs
  <2> QED BY <1>1, <2>2, <2>3, <2>5 DEF MirrorStep, Stepped
<1>18. CASE c.close >= t.origin /\ ~beyond /\ healthy
  <2>1. PICK u, v : /\ u = [t EXCEPT !.state = "ARMED", !.retrace = c.low]
                    /\ v = [m EXCEPT !.state = "ARMED", !.retrace = d.high]
    OBVIOUS
  <2>2. StepBull(t, c, atr) = Stepped(u, "armed")
    BY <1>7, <1>18, <2>1 DEF StepBull, beyond, healthy
  <2>3. StepBear(m, d, atr) = Stepped(v, "armed")
    BY <1>7, <1>13, <1>14, <1>18, <2>1 DEF StepBear
  <2>4. u \in TrackerSet /\ v \in AnyTracker
    BY <1>3, <1>4, <1>5, <1>6, <2>1 DEF TrackerSet, AnyTracker, PullbackStates
  <2>5. v = MirrorTracker(u)
    <3>1. /\ v.direction = -u.direction /\ v.origin = MirrorPrice(u.origin)
          /\ v.extreme = MirrorPrice(u.extreme) /\ v.retrace = MirrorPrice(u.retrace)
          /\ v.state = u.state /\ v.alive = u.alive
      BY <1>3, <1>5, <1>6, <2>1 DEF TrackerSet, AnyTracker
    <3> QED BY <2>4, <3>1, MirrorIs
  <2> QED BY <1>1, <2>2, <2>3, <2>5 DEF MirrorStep, Stepped
<1>19. CASE c.close >= t.origin /\ ~beyond /\ ~healthy /\ deeper
  <2>1. PICK u, v : /\ u = [t EXCEPT !.retrace = c.low]
                    /\ v = [m EXCEPT !.retrace = d.high]
    OBVIOUS
  <2>2. StepBull(t, c, atr) = Stepped(u, "none")
    BY <1>7, <1>19, <2>1 DEF StepBull, beyond, healthy, deeper
  <2>3. StepBear(m, d, atr) = Stepped(v, "none")
    BY <1>7, <1>13, <1>14, <1>19, <2>1 DEF StepBear
  <2>4. u \in TrackerSet /\ v \in AnyTracker
    BY <1>3, <1>4, <1>5, <1>6, <2>1 DEF TrackerSet, AnyTracker
  <2>5. v = MirrorTracker(u)
    <3>1. /\ v.direction = -u.direction /\ v.origin = MirrorPrice(u.origin)
          /\ v.extreme = MirrorPrice(u.extreme) /\ v.retrace = MirrorPrice(u.retrace)
          /\ v.state = u.state /\ v.alive = u.alive
      BY <1>3, <1>5, <1>6, <2>1 DEF TrackerSet, AnyTracker
    <3> QED BY <2>4, <3>1, MirrorIs
  <2> QED BY <1>1, <2>2, <2>3, <2>5 DEF MirrorStep, Stepped
<1>20. CASE c.close >= t.origin /\ ~beyond /\ ~healthy /\ ~deeper
  <2>1. StepBull(t, c, atr) = Stepped(t, "none")
    BY <1>7, <1>20 DEF StepBull, beyond, healthy, deeper
  <2>2. StepBear(m, d, atr) = Stepped(m, "none")
    BY <1>7, <1>13, <1>14, <1>20 DEF StepBear
  <2> QED BY <1>1, <2>1, <2>2 DEF MirrorStep, Stepped
<1> QED BY <1>7, <1>15, <1>seed, <1>17, <1>18, <1>19, <1>20

\* A rising step is the mirror image of a falling one.
LEMMA MirrorOfBear ==
  ASSUME NEW t, TrackerOK(t), NEW c \in CandleSet, NEW atr \in AtrSet, atr.sum > 0,
         t.direction = -1
  PROVE  StepBull(MirrorTracker(t), MirrorCandle(c), atr) = MirrorStep(StepBear(t, c, atr))
<1>1. PICK m, d : m = MirrorTracker(t) /\ d = MirrorCandle(c)
  OBVIOUS
<1>2. PICK k \in Int : MirrorsBy(k)
  BY MirrorBounds
<1>3. /\ t \in TrackerSet /\ t.origin \in Prices /\ t.extreme \in Prices
      /\ t.retrace \in Prices \cup {None} /\ t.alive \in Nat /\ t.state \in PullbackStates
  BY NoPriceIsNone DEF TrackerOK, TrackerSet
<1>4. c.high \in Prices /\ c.low \in Prices /\ c.close \in Prices
  BY PriceFacts
<1>5. /\ d.high = k - c.low /\ d.low = k - c.high /\ d.close = k - c.close
      /\ d.high = MirrorPrice(c.low) /\ d.low = MirrorPrice(c.high)
      /\ d.high \in Int /\ d.low \in Int
  BY <1>1, <1>2, <1>4, NoPriceIsNone DEF MirrorCandle, MirrorsBy
<1>6. /\ m \in AnyTracker /\ m.direction = -t.direction /\ m.origin = k - t.origin
      /\ m.extreme = k - t.extreme /\ m.state = t.state /\ m.alive = t.alive
      /\ m.retrace = MirrorPrice(t.retrace)
      /\ t.retrace = None => m.retrace = None
      /\ MirrorPrice(None) = None /\ None \in Int
      /\ m.origin = MirrorPrice(t.origin) /\ m.extreme = MirrorPrice(t.extreme)
      /\ t.retrace # None => t.retrace \in Prices /\ m.retrace = k - t.retrace /\ m.retrace # None
  BY <1>1, <1>2, <1>3, MirrorFields DEF MirrorsBy, None
<1>7. /\ d.close < m.origin <=> c.close > t.origin
      /\ d.close >= m.origin <=> c.close <= t.origin
      /\ d.low < m.extreme <=> c.high > t.extreme
      /\ t.retrace # None => (d.low < m.retrace <=> c.high > t.retrace)
      /\ d.high - m.extreme = t.extreme - c.low
      /\ m.extreme - m.origin = t.origin - t.extreme
      /\ m.retrace = None <=> t.retrace = None
      /\ c.close > t.origin <=> ~(c.close <= t.origin)
  BY <1>2, <1>3, <1>4, <1>5, <1>6, NoPriceIsNone
<1>8. Leg(m) = Leg(t)
  BY <1>3, <1>6, NoPriceIsNone DEF Leg, Abs
<1>9. /\ Behind(m, d.low) = Behind(t, c.high)
      /\ t.retrace # None => Behind(m, m.retrace) = Behind(t, t.retrace)
  BY <1>3, <1>4, <1>5, <1>6, NoPriceIsNone DEF Behind
<1>10. InHealthyZone(m, d.low) <=> InHealthyZone(t, c.high)
  BY <1>8, <1>9 DEF InHealthyZone
<1>11. t.retrace # None => RecordAlive(m) = RecordAlive(t)
  BY <1>6, <1>8, <1>9 DEF RecordAlive
<1>12. RecordAlive(t) \in Nat
  BY <1>3 DEF RecordAlive
<1> DEFINE beyond == MoreThan(t.extreme - c.low, BufferAtr, atr)
           healthy == /\ t.state = "ALIGNED" /\ c.high > t.extreme
                      /\ AtLeast(t.origin - t.extreme, MinImpulseAtr, atr)
                      /\ InHealthyZone(t, c.high)
           deeper == t.state = "ARMED" /\ (t.retrace = None \/ c.high > t.retrace)
<1>13. /\ MoreThan(d.high - m.extreme, BufferAtr, atr) <=> beyond
       /\ AtLeast(m.extreme - m.origin, MinImpulseAtr, atr)
            <=> AtLeast(t.origin - t.extreme, MinImpulseAtr, atr)
  BY <1>7
<1>14. /\ (/\ m.state = "ALIGNED" /\ d.low < m.extreme
           /\ AtLeast(m.extreme - m.origin, MinImpulseAtr, atr)
           /\ InHealthyZone(m, d.low)) <=> healthy
       /\ (m.state = "ARMED" /\ (m.retrace = None \/ d.low < m.retrace)) <=> deeper
  BY <1>6, <1>7, <1>10, <1>13
<1> HIDE DEF beyond, healthy, deeper
<1>15. CASE c.close > t.origin
  <2>1. PICK u, v : u = [t EXCEPT !.state = "BROKEN"] /\ v = [m EXCEPT !.state = "BROKEN"]
    OBVIOUS
  <2>2. StepBear(t, c, atr) = Stepped(u, "broken")
    BY <1>7, <1>15, <2>1 DEF StepBear
  <2>3. StepBull(m, d, atr) = Stepped(v, "broken")
    BY <1>7, <1>15, <2>1 DEF StepBull
  <2>4. u \in TrackerSet /\ v = MirrorTracker(u)
    <3>1. u \in TrackerSet /\ v \in AnyTracker
      BY <1>3, <1>6, <2>1 DEF TrackerSet, AnyTracker, PullbackStates
    <3>2. /\ v.direction = -u.direction /\ v.origin = MirrorPrice(u.origin)
          /\ v.extreme = MirrorPrice(u.extreme) /\ v.retrace = MirrorPrice(u.retrace)
          /\ v.state = u.state /\ v.alive = u.alive
      BY <1>3, <1>6, <2>1 DEF TrackerSet, AnyTracker
    <3> QED BY <3>1, <3>2, MirrorIs
  <2> QED BY <1>1, <2>2, <2>3, <2>4 DEF MirrorStep, Stepped
<1>seed. CASE c.close <= t.origin /\ beyond /\ t.state = "ARMED" /\ t.retrace # None
  <2>1. PICK u, v :
          /\ u = [[t EXCEPT !.state = "ALIGNED", !.extreme = c.low, !.retrace = None]
                    EXCEPT !.origin = t.retrace, !.alive = RecordAlive(t)]
          /\ v = [[m EXCEPT !.state = "ALIGNED", !.extreme = d.high, !.retrace = None]
                    EXCEPT !.origin = m.retrace, !.alive = RecordAlive(m)]
    OBVIOUS
  <2>2. StepBear(t, c, atr) = Stepped(u, "resumed")
    BY <1>7, <1>seed, <2>1 DEF StepBear, beyond
  <2>3. StepBull(m, d, atr) = Stepped(v, "resumed")
    BY <1>6, <1>7, <1>13, <1>seed, <2>1 DEF StepBull
  <2>4. u \in TrackerSet /\ v \in AnyTracker
    BY <1>3, <1>4, <1>5, <1>6, <1>11, <1>12, <1>seed, <2>1
       DEF TrackerSet, AnyTracker, PullbackStates
  <2>5. v = MirrorTracker(u)
    <3>1. /\ v.direction = -u.direction /\ v.origin = MirrorPrice(u.origin)
          /\ v.extreme = MirrorPrice(u.extreme) /\ v.retrace = MirrorPrice(u.retrace)
          /\ v.state = u.state /\ v.alive = u.alive
      BY <1>3, <1>5, <1>6, <1>11, <1>seed, <2>1 DEF TrackerSet, AnyTracker
    <3> QED BY <2>4, <3>1, MirrorIs
  <2> QED BY <1>1, <2>2, <2>3, <2>5 DEF MirrorStep, Stepped
<1>17. CASE c.close <= t.origin /\ beyond /\ ~(t.state = "ARMED" /\ t.retrace # None)
  <2>1. PICK u, v :
          /\ u = [t EXCEPT !.state = "ALIGNED", !.extreme = c.low, !.retrace = None]
          /\ v = [m EXCEPT !.state = "ALIGNED", !.extreme = d.high, !.retrace = None]
    OBVIOUS
  <2>2. StepBear(t, c, atr) = Stepped(u, "none")
    BY <1>7, <1>17, <2>1 DEF StepBear, beyond
  <2>3. StepBull(m, d, atr) = Stepped(v, "none")
    BY <1>6, <1>7, <1>13, <1>17, <2>1 DEF StepBull
  <2>4. u \in TrackerSet /\ v \in AnyTracker
    BY <1>3, <1>4, <1>5, <1>6, <2>1 DEF TrackerSet, AnyTracker, PullbackStates
  <2>5. v = MirrorTracker(u)
    <3>1. /\ v.direction = -u.direction /\ v.origin = MirrorPrice(u.origin)
          /\ v.extreme = MirrorPrice(u.extreme) /\ v.retrace = MirrorPrice(u.retrace)
          /\ v.state = u.state /\ v.alive = u.alive
      BY <1>3, <1>5, <1>6, <2>1 DEF TrackerSet, AnyTracker
    <3> QED BY <2>4, <3>1, MirrorIs
  <2> QED BY <1>1, <2>2, <2>3, <2>5 DEF MirrorStep, Stepped
<1>18. CASE c.close <= t.origin /\ ~beyond /\ healthy
  <2>1. PICK u, v : /\ u = [t EXCEPT !.state = "ARMED", !.retrace = c.high]
                    /\ v = [m EXCEPT !.state = "ARMED", !.retrace = d.low]
    OBVIOUS
  <2>2. StepBear(t, c, atr) = Stepped(u, "armed")
    BY <1>7, <1>18, <2>1 DEF StepBear, beyond, healthy
  <2>3. StepBull(m, d, atr) = Stepped(v, "armed")
    BY <1>7, <1>13, <1>14, <1>18, <2>1 DEF StepBull
  <2>4. u \in TrackerSet /\ v \in AnyTracker
    BY <1>3, <1>4, <1>5, <1>6, <2>1 DEF TrackerSet, AnyTracker, PullbackStates
  <2>5. v = MirrorTracker(u)
    <3>1. /\ v.direction = -u.direction /\ v.origin = MirrorPrice(u.origin)
          /\ v.extreme = MirrorPrice(u.extreme) /\ v.retrace = MirrorPrice(u.retrace)
          /\ v.state = u.state /\ v.alive = u.alive
      BY <1>3, <1>5, <1>6, <2>1 DEF TrackerSet, AnyTracker
    <3> QED BY <2>4, <3>1, MirrorIs
  <2> QED BY <1>1, <2>2, <2>3, <2>5 DEF MirrorStep, Stepped
<1>19. CASE c.close <= t.origin /\ ~beyond /\ ~healthy /\ deeper
  <2>1. PICK u, v : /\ u = [t EXCEPT !.retrace = c.high]
                    /\ v = [m EXCEPT !.retrace = d.low]
    OBVIOUS
  <2>2. StepBear(t, c, atr) = Stepped(u, "none")
    BY <1>7, <1>19, <2>1 DEF StepBear, beyond, healthy, deeper
  <2>3. StepBull(m, d, atr) = Stepped(v, "none")
    BY <1>7, <1>13, <1>14, <1>19, <2>1 DEF StepBull
  <2>4. u \in TrackerSet /\ v \in AnyTracker
    BY <1>3, <1>4, <1>5, <1>6, <2>1 DEF TrackerSet, AnyTracker
  <2>5. v = MirrorTracker(u)
    <3>1. /\ v.direction = -u.direction /\ v.origin = MirrorPrice(u.origin)
          /\ v.extreme = MirrorPrice(u.extreme) /\ v.retrace = MirrorPrice(u.retrace)
          /\ v.state = u.state /\ v.alive = u.alive
      BY <1>3, <1>5, <1>6, <2>1 DEF TrackerSet, AnyTracker
    <3> QED BY <2>4, <3>1, MirrorIs
  <2> QED BY <1>1, <2>2, <2>3, <2>5 DEF MirrorStep, Stepped
<1>20. CASE c.close <= t.origin /\ ~beyond /\ ~healthy /\ ~deeper
  <2>1. StepBear(t, c, atr) = Stepped(t, "none")
    BY <1>7, <1>20 DEF StepBear, beyond, healthy, deeper
  <2>2. StepBull(m, d, atr) = Stepped(m, "none")
    BY <1>7, <1>13, <1>14, <1>20 DEF StepBull
  <2> QED BY <1>1, <2>1, <2>2 DEF MirrorStep, Stepped
<1> QED BY <1>7, <1>15, <1>seed, <1>17, <1>18, <1>19, <1>20

LEMMA MirrorOfStart ==
  ASSUME NEW t, TrackerOK(t), NEW c \in CandleSet, NEW atr \in AtrSet, atr.sum > 0,
         t.direction = 0
  PROVE  StartImpulse(MirrorTracker(t), MirrorCandle(c), atr) = MirrorTracker(StartImpulse(t, c, atr))
<1>1. PICK m, d : m = MirrorTracker(t) /\ d = MirrorCandle(c)
  OBVIOUS
<1>2. PICK k \in Int : MirrorsBy(k)
  BY MirrorBounds
<1>3. t \in TrackerSet
  BY DEF TrackerOK
<1>4. c.open \in Prices /\ c.high \in Prices /\ c.low \in Prices /\ c.close \in Prices
  BY PriceFacts
<1>5. /\ d.open = k - c.open /\ d.close = k - c.close
      /\ d.high = MirrorPrice(c.low) /\ d.low = MirrorPrice(c.high) /\ d.open = MirrorPrice(c.open)
      /\ d.high \in Int /\ d.low \in Int /\ d.open \in Int
  BY <1>1, <1>2, <1>4, NoPriceIsNone DEF MirrorCandle, MirrorsBy
<1>6. /\ m \in AnyTracker /\ m.direction = -t.direction /\ m.retrace = MirrorPrice(t.retrace)
      /\ m.state = t.state /\ m.alive = t.alive
  BY <1>1, <1>3, MirrorFields
<1>7. /\ Abs(d.close - d.open) = Abs(c.close - c.open)
      /\ d.close > d.open <=> c.close < c.open
  BY <1>4, <1>5, NoPriceIsNone DEF Abs
<1>8. CASE ~AtLeast(Abs(c.close - c.open), 50, atr)
  BY <1>1, <1>7, <1>8 DEF StartImpulse
<1>9. CASE AtLeast(Abs(c.close - c.open), 50, atr)
  <2>1. c.close > c.open <=> ~(c.close < c.open)
    <3>1. Abs(c.close - c.open) \in Int
      BY <1>4, NoPriceIsNone DEF Abs
    <3>2. Abs(c.close - c.open) > 0
      BY <1>9, <3>1, MovesArePositive
    <3> QED BY <1>4, <3>2, NoPriceIsNone DEF Abs
  <2>2. PICK s \in {-1, 1}, e \in Prices :
          /\ s = IF c.close > c.open THEN 1 ELSE -1
          /\ e = IF c.close > c.open THEN c.high ELSE c.low
    BY <1>4
  <2>3. PICK r, f : /\ r = IF d.close > d.open THEN 1 ELSE -1
                    /\ f = IF d.close > d.open THEN d.high ELSE d.low
    OBVIOUS
  <2>4. r = -s /\ f = MirrorPrice(e) /\ f \in Int /\ r \in Int
    BY <1>5, <1>7, <2>1, <2>2, <2>3
  <2>5. PICK u, v : /\ u = [t EXCEPT !.direction = s, !.origin = c.open, !.extreme = e]
                    /\ v = [m EXCEPT !.direction = r, !.origin = d.open, !.extreme = f]
    OBVIOUS
  <2>6. StartImpulse(t, c, atr) = u
    BY <1>9, <2>2, <2>5 DEF StartImpulse
  <2>7. StartImpulse(m, d, atr) = v
    BY <1>7, <1>9, <2>3, <2>5 DEF StartImpulse
  <2>8. u \in TrackerSet /\ v \in AnyTracker
    BY <1>3, <1>4, <1>5, <1>6, <2>2, <2>4, <2>5 DEF TrackerSet, AnyTracker
  <2>9. /\ v.direction = -u.direction /\ v.origin = MirrorPrice(u.origin)
        /\ v.extreme = MirrorPrice(u.extreme) /\ v.retrace = MirrorPrice(u.retrace)
        /\ v.state = u.state /\ v.alive = u.alive
    BY <1>3, <1>5, <1>6, <2>4, <2>5 DEF TrackerSet, AnyTracker
  <2>10. v = MirrorTracker(u)
    BY <2>8, <2>9, MirrorIs
  <2> QED BY <1>1, <2>6, <2>7, <2>10
<1> QED BY <1>8, <1>9

\* On the mirrored candle a mirrored tracker makes the mirrored step.
LEMMA MirrorOfUpdate ==
  ASSUME NEW t, TrackerOK(t), NEW c \in CandleSet, NEW atr \in AtrSet
  PROVE  Update(MirrorTracker(t), MirrorCandle(c), atr) = MirrorStep(Update(t, c, atr))
<1>1. PICK m, d : m = MirrorTracker(t) /\ d = MirrorCandle(c)
  OBVIOUS
<1>2. atr.sum \in Int /\ t.direction \in {-1, 0, 1} /\ m.direction = -t.direction
  BY <1>1, MirrorFields DEF AtrSet, TrackerOK, TrackerSet
<1>3. CASE atr.sum <= 0
  <2>1. ~(atr.sum > 0)
    BY <1>2, <1>3
  <2>2. \A x, y : Update(x, y, atr) = Stepped(x, "none")
    BY <1>3, <2>1 DEF Update
  <2> QED BY <2>2 DEF MirrorStep, Stepped
<1>4. CASE atr.sum > 0 /\ t.direction = 0
  <2>1. /\ Update(t, c, atr) = Stepped(StartImpulse(t, c, atr), "none")
        /\ Update(m, d, atr) = Stepped(StartImpulse(m, d, atr), "none")
    <3>1. \A x, z \in Int : x = -z /\ ~(z > 0) /\ ~(z < 0) => x = 0
      OBVIOUS
    <3>2. m.direction = 0
      <4>1. /\ t.direction \in Int /\ m.direction \in Int
            /\ ~(t.direction > 0) /\ ~(t.direction < 0)
        BY <1>2, <1>4
      <4> QED BY <1>2, <3>1, <4>1
    <3>3. ~(atr.sum <= 0)
      BY <1>2, <1>4
    <3> QED BY <1>4, <3>2, <3>3 DEF Update
  <2> QED BY <1>1, <1>4, <2>1, MirrorOfStart DEF MirrorStep, Stepped
<1>5. CASE atr.sum > 0 /\ t.direction = 1
  <2>1. Update(t, c, atr) = StepBull(t, c, atr) /\ Update(m, d, atr) = StepBear(m, d, atr)
    BY <1>2, <1>5 DEF Update
  <2> QED BY <1>1, <1>5, <2>1, MirrorOfBull
<1>6. CASE atr.sum > 0 /\ t.direction = -1
  <2>1. Update(t, c, atr) = StepBear(t, c, atr) /\ Update(m, d, atr) = StepBull(m, d, atr)
    BY <1>2, <1>6 DEF Update
  <2> QED BY <1>1, <1>6, <2>1, MirrorOfBear
<1> QED BY <1>2, <1>3, <1>4, <1>5, <1>6

\* _step_bear is _step_bull seen in a mirror, in every state the watcher
\* reaches (pullback.py:85-128).
THEOREM WatcherMirror == WatcherSpec => []BearMirrorsBull
<1>1. WatcherInv => BearMirrorsBull
  <2> SUFFICES ASSUME WatcherInv, History # <<>> PROVE
        LET atr  == BuildContext(History, par).atr
            here == Update(tracker, Last(History), atr)
        IN Update(MirrorTracker(tracker), MirrorCandle(Last(History)), atr)
             = Stepped(MirrorTracker(here.tracker), here.transition)
    BY DEF BearMirrorsBull
  <2>1. PICK h : h = History
    OBVIOUS
  <2>2. h \in Seq(CandleSet) /\ h # <<>>
    BY <2>1 DEF WatcherInv, History
  <2>3. PICK c \in CandleSet : c = Last(h)
    <3>1. PICK n \in Nat : n = Len(h) /\ n # 0
      BY <2>2
    <3>2. h[n] \in CandleSet
      BY <2>2, <3>1
    <3> QED BY <3>1, <3>2 DEF Last
  <2>4. PICK atr \in AtrSet : atr = BuildContext(h, par).atr
    BY <2>2, WatcherAssumption, ContextAtr DEF WatcherInv
  <2>5. Update(MirrorTracker(tracker), MirrorCandle(c), atr) = MirrorStep(Update(tracker, c, atr))
    BY MirrorOfUpdate DEF WatcherInv
  <2> QED BY <2>1, <2>3, <2>4, <2>5 DEF MirrorStep
<1> QED BY <1>1, WatcherInvariant, PTL
-----------------------------------------------------------------------------
(* The swings of a history.                                                *)

SwingSet == [kind : {"High", "Low"}, price : Prices]

\* Consecutive swings differ in kind and lie a full reversal apart.
Alternating(swings, atr, mult) ==
  \A i \in 2..Len(swings) :
    /\ swings[i].kind # swings[i - 1].kind
    /\ AtLeast(IF swings[i].kind = "Low"
               THEN swings[i - 1].price - swings[i].price
               ELSE swings[i].price - swings[i - 1].price, mult, atr)

\* What the loop of zigzag_swings keeps: while it looks for a low, the lowest
\* price so far is already a reversal below the last high, and conversely.
LoopStates(atr, mult) ==
  {z \in [direction : {-1, 0, 1}, high : Prices \cup {None}, low : Prices \cup {None},
          swings : Seq(SwingSet)] :
     /\ Alternating(z.swings, atr, mult)
     /\ z.direction = 0 => z.swings = <<>>
     /\ z.direction = -1 => /\ z.swings # <<>> /\ z.low \in Prices
                            /\ z.swings[Len(z.swings)].kind = "High"
                            /\ AtLeast(z.swings[Len(z.swings)].price - z.low, mult, atr)
     /\ z.direction = 1 => /\ z.swings # <<>> /\ z.high \in Prices
                           /\ z.swings[Len(z.swings)].kind = "Low"
                           /\ AtLeast(z.high - z.swings[Len(z.swings)].price, mult, atr)}

LEMMA AtLeastGrows ==
  ASSUME NEW x \in Int, NEW y \in Int, x <= y, NEW mult \in Nat, NEW atr \in AtrSet,
         AtLeast(x, mult, atr)
  PROVE  AtLeast(y, mult, atr)
<1>1. PICK s \in Int, n \in Nat : s = atr.sum /\ n = atr.n /\ n > 0
  BY DEF AtrSet
<1>2. PICK k \in Nat : k = y - x
  OBVIOUS
<1>3. PICK a \in Int, b \in Nat, c \in Int : a = 100 * x * n /\ b = 100 * k * n /\ c = mult * s
  BY <1>1
<1>4. 100 * y * n = a + b
  <2>1. y = x + k
    BY <1>2
  <2>2. 100 * (x + k) * n = 100 * x * n + 100 * k * n
    BY <1>1
  <2> QED BY <1>3, <2>1, <2>2
<1>5. a >= c
  BY <1>1, <1>3 DEF AtLeast
<1>6. a + b >= c
  BY <1>5
<1> QED BY <1>1, <1>3, <1>4, <1>6 DEF AtLeast

\* A swing of the other kind, a reversal away, keeps the swings alternating.
LEMMA AlternatingAppend ==
  ASSUME NEW swings \in Seq(SwingSet), NEW s \in SwingSet, NEW atr, NEW mult,
         Alternating(swings, atr, mult),
         swings # <<>> => /\ s.kind # swings[Len(swings)].kind
                          /\ AtLeast(IF s.kind = "Low"
                                     THEN swings[Len(swings)].price - s.price
                                     ELSE s.price - swings[Len(swings)].price, mult, atr)
  PROVE  Alternating(Append(swings, s), atr, mult)
<1>1. PICK n \in Nat : n = Len(swings)
  OBVIOUS
<1>2. PICK next : next = Append(swings, s)
  OBVIOUS
<1>3. /\ Len(next) = n + 1 /\ next[n + 1] = s
      /\ \A i \in 1..n : next[i] = swings[i]
  BY <1>1, <1>2
<1>4. ASSUME NEW i \in 2..(n + 1)
      PROVE  /\ next[i].kind # next[i - 1].kind
             /\ AtLeast(IF next[i].kind = "Low"
                        THEN next[i - 1].price - next[i].price
                        ELSE next[i].price - next[i - 1].price, mult, atr)
  <2>1. CASE i = n + 1
    <3>1. n # 0 /\ i - 1 = n /\ n \in 1..n
      BY <2>1
    <3>2. next[i] = s /\ next[i - 1] = swings[n]
      BY <1>3, <2>1, <3>1
    <3>3. swings # <<>>
      BY <1>1, <3>1
    <3> QED BY <1>1, <3>2, <3>3
  <2>2. CASE i # n + 1
    <3>1. i \in 2..n /\ i \in 1..n /\ i - 1 \in 1..n
      BY <2>2
    <3>2. next[i] = swings[i] /\ next[i - 1] = swings[i - 1]
      BY <1>3, <3>1
    <3> QED BY <1>1, <3>1, <3>2 DEF Alternating
  <2> QED BY <2>1, <2>2
<1> QED BY <1>2, <1>3, <1>4 DEF Alternating

LEMMA AppendIsLast ==
  ASSUME NEW S, NEW q \in Seq(S), NEW s \in S
  PROVE  /\ Append(q, s) \in Seq(S) /\ Append(q, s) # <<>>
         /\ Append(q, s)[Len(Append(q, s))] = s
OBVIOUS

LEMMA SeekHighOK ==
  ASSUME NEW atr \in AtrSet, NEW mult \in Nat, NEW z \in LoopStates(atr, mult), NEW c \in CandleSet
  PROVE  SeekHigh(z, c, atr, mult) \in LoopStates(atr, mult)
<1>1. PICK n \in Nat : n = Len(z.swings)
  BY DEF LoopStates
<1>2. c.high \in Prices /\ c.low \in Prices
  BY PriceFacts
<1>3. /\ z.direction \in {-1, 0, 1} /\ z.high \in Prices \cup {None} /\ z.swings \in Seq(SwingSet)
      /\ z.low \in Prices \cup {None} /\ Alternating(z.swings, atr, mult)
      /\ z \in [direction : {-1, 0, 1}, high : Prices \cup {None}, low : Prices \cup {None},
                swings : Seq(SwingSet)]
  BY DEF LoopStates
<1>4. PICK high : high = IF z.high = None THEN c.high ELSE Larger(z.high, c.high)
  OBVIOUS
<1>5. high \in Prices /\ (z.high \in Prices => z.high <= high)
  BY <1>2, <1>3, <1>4, NoPriceIsNone DEF Larger
<1>6. CASE z.direction = -1
  <2>1. z.direction < 0 /\ ~(z.direction >= 0)
    BY <1>6
  <2>2. SeekHigh(z, c, atr, mult) = z
    BY <2>1 DEF SeekHigh
  <2> QED BY <2>2
<1>7. CASE z.direction # -1
  <2>1. z.direction >= 0 /\ ~(z.direction < 0)
    BY <1>3, <1>7
  <2>2. z.direction = 1 => /\ z.swings # <<>> /\ z.swings[n].kind = "Low"
                           /\ AtLeast(high - z.swings[n].price, mult, atr)
    <3> SUFFICES ASSUME z.direction = 1
                 PROVE  /\ z.swings # <<>> /\ z.swings[n].kind = "Low"
                        /\ AtLeast(high - z.swings[n].price, mult, atr)
      OBVIOUS
    <3>1. /\ z.swings # <<>> /\ z.high \in Prices /\ z.swings[n].kind = "Low"
          /\ AtLeast(z.high - z.swings[n].price, mult, atr)
      BY <1>1 DEF LoopStates
    <3>2. n # 0 /\ n \in 1..n
      BY <1>1, <1>3, <3>1
    <3>3. z.swings[n] \in SwingSet
      BY <1>1, <1>3, <3>2
    <3>4. PICK p \in Int, x \in Int, y \in Int :
            /\ p = z.swings[n].price /\ x = z.high - p /\ y = high - p /\ x <= y
      <4>1. z.swings[n].price \in Prices
        BY <3>3 DEF SwingSet
      <4> QED BY <1>5, <3>1, <4>1, NoPriceIsNone
    <3>5. AtLeast(y, mult, atr)
      BY <3>1, <3>4, AtLeastGrows
    <3> QED BY <3>1, <3>4, <3>5
  <2>3. CASE AtLeast(high - c.low, mult, atr)
    <3>0. PICK s : s = Swing("High", high)
      OBVIOUS
    <3>1. s \in SwingSet /\ s = Swing("High", high) /\ s.kind = "High" /\ s.price = high
      BY <1>5, <3>0 DEF Swing, SwingSet
    <3>2. PICK u : u = [direction |-> -1, high |-> None, low |-> c.low,
                        swings |-> Append(z.swings, s)]
      OBVIOUS
    <3>3. SeekHigh(z, c, atr, mult) = u
      BY <1>4, <2>1, <2>3, <3>1, <3>2 DEF SeekHigh
    <3>4. Alternating(Append(z.swings, s), atr, mult)
      <4>1. z.swings # <<>> => z.direction = 1
        BY <1>3, <1>7 DEF LoopStates
      <4> QED BY <1>1, <1>3, <2>2, <3>1, <4>1, AlternatingAppend
    <3>5. PICK next \in Seq(SwingSet) : /\ next = Append(z.swings, s) /\ next # <<>>
                                        /\ next[Len(next)] = s
      <4>1. PICK q \in Seq(SwingSet) : q = z.swings
        BY <1>3
      <4>2. /\ Append(q, s) \in Seq(SwingSet) /\ Append(q, s) # <<>>
            /\ Append(q, s)[Len(Append(q, s))] = s
        BY <3>1, AppendIsLast
      <4> QED BY <4>1, <4>2, Zenon
    <3>6. /\ u.direction = -1 /\ u.high = None /\ u.low = c.low /\ u.swings = next
          /\ u \in [direction : {-1, 0, 1}, high : Prices \cup {None}, low : Prices \cup {None},
                    swings : Seq(SwingSet)]
      BY <1>2, <3>2, <3>5
    <3>7. u \in LoopStates(atr, mult)
      <4>1. u.direction # 0 /\ u.direction # 1
        BY <3>6
      <4>2. AtLeast(s.price - u.low, mult, atr)
        BY <2>3, <3>1, <3>6
      <4> QED BY <1>2, <3>1, <3>4, <3>5, <3>6, <4>1, <4>2 DEF LoopStates
    <3> QED BY <3>3, <3>7
  <2>4. CASE ~AtLeast(high - c.low, mult, atr)
    <3>1. PICK u : u = [z EXCEPT !.high = high]
      OBVIOUS
    <3>2. SeekHigh(z, c, atr, mult) = u
      BY <1>4, <2>1, <2>4, <3>1 DEF SeekHigh
    <3>3. /\ u.direction = z.direction /\ u.high = high /\ u.swings = z.swings
          /\ u \in [direction : {-1, 0, 1}, high : Prices \cup {None}, low : Prices \cup {None},
                    swings : Seq(SwingSet)]
      BY <1>3, <1>5, <3>1
    <3>4. z.direction = 0 => z.swings = <<>>
      BY DEF LoopStates
    <3>5. u \in LoopStates(atr, mult)
      BY <1>1, <1>3, <1>5, <1>7, <2>2, <3>3, <3>4 DEF LoopStates
    <3> QED BY <3>2, <3>5
  <2> QED BY <2>3, <2>4
<1> QED BY <1>6, <1>7
LEMMA SeekLowOK ==
  ASSUME NEW atr \in AtrSet, NEW mult \in Nat, NEW z \in LoopStates(atr, mult), NEW c \in CandleSet
  PROVE  SeekLow(z, c, atr, mult) \in LoopStates(atr, mult)
<1>1. PICK n \in Nat : n = Len(z.swings)
  BY DEF LoopStates
<1>2. c.high \in Prices /\ c.low \in Prices
  BY PriceFacts
<1>3. /\ z.direction \in {-1, 0, 1} /\ z.high \in Prices \cup {None} /\ z.swings \in Seq(SwingSet)
      /\ z.low \in Prices \cup {None} /\ Alternating(z.swings, atr, mult)
      /\ z \in [direction : {-1, 0, 1}, high : Prices \cup {None}, low : Prices \cup {None},
                swings : Seq(SwingSet)]
  BY DEF LoopStates
<1>4. PICK low : low = IF z.low = None THEN c.low ELSE Smaller(z.low, c.low)
  OBVIOUS
<1>5. low \in Prices /\ (z.low \in Prices => low <= z.low)
  BY <1>2, <1>3, <1>4, NoPriceIsNone DEF Smaller
<1>6. CASE z.direction = 1
  <2>1. z.direction > 0 /\ ~(z.direction <= 0)
    BY <1>6
  <2>2. SeekLow(z, c, atr, mult) = z
    BY <2>1 DEF SeekLow
  <2> QED BY <2>2
<1>7. CASE z.direction # 1
  <2>1. z.direction <= 0 /\ ~(z.direction > 0)
    BY <1>3, <1>7
  <2>2. z.direction = -1 => /\ z.swings # <<>> /\ z.swings[n].kind = "High"
                           /\ AtLeast(z.swings[n].price - low, mult, atr)
    <3> SUFFICES ASSUME z.direction = -1
                 PROVE  /\ z.swings # <<>> /\ z.swings[n].kind = "High"
                        /\ AtLeast(z.swings[n].price - low, mult, atr)
      OBVIOUS
    <3>1. /\ z.swings # <<>> /\ z.low \in Prices /\ z.swings[n].kind = "High"
          /\ AtLeast(z.swings[n].price - z.low, mult, atr)
      BY <1>1 DEF LoopStates
    <3>2. n # 0 /\ n \in 1..n
      BY <1>1, <1>3, <3>1
    <3>3. z.swings[n] \in SwingSet
      BY <1>1, <1>3, <3>2
    <3>4. PICK p \in Int, x \in Int, y \in Int :
            /\ p = z.swings[n].price /\ x = p - z.low /\ y = p - low /\ x <= y
      <4>1. z.swings[n].price \in Prices
        BY <3>3 DEF SwingSet
      <4> QED BY <1>5, <3>1, <4>1, NoPriceIsNone
    <3>5. AtLeast(y, mult, atr)
      BY <3>1, <3>4, AtLeastGrows
    <3> QED BY <3>1, <3>4, <3>5
  <2>3. CASE AtLeast(c.high - low, mult, atr)
    <3>0. PICK s : s = Swing("Low", low)
      OBVIOUS
    <3>1. s \in SwingSet /\ s = Swing("Low", low) /\ s.kind = "Low" /\ s.price = low
      BY <1>5, <3>0 DEF Swing, SwingSet
    <3>2. PICK u : u = [direction |-> 1, high |-> c.high, low |-> None,
                        swings |-> Append(z.swings, s)]
      OBVIOUS
    <3>3. SeekLow(z, c, atr, mult) = u
      BY <1>4, <2>1, <2>3, <3>1, <3>2 DEF SeekLow
    <3>4. Alternating(Append(z.swings, s), atr, mult)
      <4>1. z.swings # <<>> => z.direction = -1
        BY <1>3, <1>7 DEF LoopStates
      <4> QED BY <1>1, <1>3, <2>2, <3>1, <4>1, AlternatingAppend
    <3>5. PICK next \in Seq(SwingSet) : /\ next = Append(z.swings, s) /\ next # <<>>
                                        /\ next[Len(next)] = s
      <4>1. PICK q \in Seq(SwingSet) : q = z.swings
        BY <1>3
      <4>2. /\ Append(q, s) \in Seq(SwingSet) /\ Append(q, s) # <<>>
            /\ Append(q, s)[Len(Append(q, s))] = s
        BY <3>1, AppendIsLast
      <4> QED BY <4>1, <4>2, Zenon
    <3>6. /\ u.direction = 1 /\ u.high = c.high /\ u.low = None /\ u.swings = next
          /\ u \in [direction : {-1, 0, 1}, high : Prices \cup {None}, low : Prices \cup {None},
                    swings : Seq(SwingSet)]
      BY <1>2, <3>2, <3>5
    <3>7. u \in LoopStates(atr, mult)
      <4>1. u.direction # 0 /\ u.direction # -1
        BY <3>6
      <4>2. AtLeast(u.high - s.price, mult, atr)
        BY <2>3, <3>1, <3>6
      <4> QED BY <1>2, <3>1, <3>4, <3>5, <3>6, <4>1, <4>2 DEF LoopStates
    <3> QED BY <3>3, <3>7
  <2>4. CASE ~AtLeast(c.high - low, mult, atr)
    <3>1. PICK u : u = [z EXCEPT !.low = low]
      OBVIOUS
    <3>2. SeekLow(z, c, atr, mult) = u
      BY <1>4, <2>1, <2>4, <3>1 DEF SeekLow
    <3>3. /\ u.direction = z.direction /\ u.low = low /\ u.swings = z.swings
          /\ u \in [direction : {-1, 0, 1}, high : Prices \cup {None}, low : Prices \cup {None},
                    swings : Seq(SwingSet)]
      BY <1>3, <1>5, <3>1
    <3>4. z.direction = 0 => z.swings = <<>>
      BY DEF LoopStates
    <3>5. u \in LoopStates(atr, mult)
      BY <1>1, <1>3, <1>5, <1>7, <2>2, <3>3, <3>4 DEF LoopStates
    <3> QED BY <3>2, <3>5
  <2> QED BY <2>3, <2>4
<1> QED BY <1>6, <1>7
\* The swings of a history come from a state of the loop.
LEMMA ZigzagAlternates ==
  ASSUME NEW s \in Seq(CandleSet), NEW atr \in AtrSet, NEW mult \in Nat
  PROVE  /\ ZigzagSwings(s, atr, mult) \in Seq(SwingSet)
         /\ Alternating(ZigzagSwings(s, atr, mult), atr, mult)
<1>1. PICK n \in Nat : n = Len(s)
  OBVIOUS
<1>2. PICK X : X = LoopStates(atr, mult)
  OBVIOUS
<1> DEFINE Turn(z, i) == SeekLow(SeekHigh(z, s[i], atr, mult), s[i], atr, mult)
           Turned(g) == [i \in 0..n |-> IF i = 0 THEN Unturned ELSE Turn(g[i - 1], i)]
           step == [i \in 1..n |-> [z \in X |-> Turn(z, i)]]
<1>3. \A i \in 1..n : \A z \in X : Turn(z, i) \in X
  <2> SUFFICES ASSUME NEW i \in 1..n, NEW z \in X PROVE Turn(z, i) \in X
    OBVIOUS
  <2>1. s[i] \in CandleSet
    BY <1>1
  <2>2. SeekHigh(z, s[i], atr, mult) \in LoopStates(atr, mult)
    BY <1>2, <2>1, SeekHighOK
  <2> QED BY <1>2, <2>1, <2>2, SeekLowOK
<1>4. Unturned \in X
  <2>1. Alternating(<<>>, atr, mult)
    BY DEF Alternating
  <2>2. Unturned \in [direction : {-1, 0, 1}, high : Prices \cup {None}, low : Prices \cup {None},
                      swings : Seq(SwingSet)]
    BY DEF Unturned
  <2>3. Unturned.direction = 0 /\ Unturned.swings = <<>>
    BY DEF Unturned
  <2> QED BY <1>2, <2>1, <2>2, <2>3 DEF LoopStates
<1> HIDE DEF Turn
<1>5. step \in [1..n -> [X -> X]]
  BY <1>3
<1>6. PICK f : Unfolds(f, X, n, Unturned, step)
  <2> HIDE DEF step
  <2> QED BY <1>4, <1>5, RecursionExists
<1>7. f \in [0..n -> X] /\ \A i \in 0..n : f[i] = IF i = 0 THEN Unturned ELSE Turn(f[i - 1], i)
  <2>1. f \in [0..n -> X]
    BY <1>6 DEF Unfolds
  <2> SUFFICES ASSUME NEW i \in 0..n PROVE f[i] = IF i = 0 THEN Unturned ELSE Turn(f[i - 1], i)
    BY <2>1
  <2>2. CASE i = 0
    BY <1>6, <2>2 DEF Unfolds
  <2>3. CASE i # 0
    <3>1. i \in 1..n /\ i - 1 \in 0..n /\ f[i - 1] \in X
      BY <2>1, <2>3
    <3>2. step[i][f[i - 1]] = Turn(f[i - 1], i)
      BY <3>1
    <3> QED BY <1>6, <2>3, <3>1, <3>2 DEF Unfolds
  <2> QED BY <2>2, <2>3
<1>8. f = Turned(f)
  <2>1. f = [i \in 0..n |-> f[i]]
    BY <1>7
  <2>2. [i \in 0..n |-> f[i]] = Turned(f)
    BY <1>7, Zenon
  <2> QED BY <2>1, <2>2
<1>9. PICK g : g = CHOOSE h : h = Turned(h)
  OBVIOUS
<1>10. g = Turned(g)
  <2> HIDE DEF Turned
  <2> QED BY <1>8, <1>9
<1>11. \A i \in 0..n : g[i] = IF i = 0 THEN Unturned ELSE Turn(g[i - 1], i)
  BY <1>10
<1> HIDE DEF Turned
<1>12. \A i \in 0..n : g[i] = f[i]
  <2> DEFINE same == {i \in Nat : i <= n => g[i] = f[i]}
  <2>1. 0 \in same
    <3>1. 0 \in 0..n
      OBVIOUS
    <3> QED BY <1>7, <1>11, <3>1
  <2>2. ASSUME NEW i \in same PROVE i + 1 \in same
    <3>1. CASE i + 1 <= n
      <4>1. i \in Nat /\ i + 1 \in 0..n /\ i + 1 # 0 /\ (i + 1) - 1 = i /\ g[i] = f[i]
        BY <3>1
      <4>2. g[i + 1] = Turn(g[i], i + 1) /\ f[i + 1] = Turn(f[i], i + 1)
        BY <1>7, <1>11, <4>1
      <4> QED BY <4>1, <4>2
    <3>2. CASE ~(i + 1 <= n)
      BY <3>2
    <3> QED BY <3>1, <3>2
  <2>3. same = Nat
    <3> HIDE DEF same
    <3>1. same \in SUBSET Nat
      BY DEF same
    <3> QED BY <2>1, <2>2, <3>1, NatSetInduction
  <2> QED BY <2>3
<1>13. g[n] \in LoopStates(atr, mult)
  <2>1. n \in 0..n
    OBVIOUS
  <2> QED BY <1>2, <1>7, <1>12, <2>1
<1>14. ZigzagSwings(s, atr, mult) = g[n].swings
  BY <1>1, <1>9, Zenon DEF ZigzagSwings, Turned, Turn
<1> QED BY <1>13, <1>14 DEF LoopStates

\* Confirmed swings alternate and lie a full reversal apart, for every history
\* and every tuning (zigzag_swings, market_context.py:182-207).
THEOREM WatcherSwings == WatcherSpec => []SwingsAlternate
<1>1. WatcherInv => SwingsAlternate
  <2> SUFFICES ASSUME WatcherInv PROVE SwingsAlternate
    OBVIOUS
  <2>1. PICK h \in Seq(CandleSet) : h = History
    <3>1. forming # NoCandle => Append(candles, forming) \in Seq(CandleSet)
      BY DEF WatcherInv
    <3> QED BY <3>1 DEF WatcherInv, History
  <2>2. par.atr_period \in Nat /\ par.swing_atr \in Nat
    BY WatcherAssumption DEF WatcherInv, Params
  <2>3. PICK atr \in AtrSet : atr = AtrOf(h, par.atr_period)
    BY <2>1, <2>2, AtrType
  <2>4. Alternating(ZigzagSwings(h, atr, par.swing_atr), atr, par.swing_atr)
    BY <2>2, ZigzagAlternates
  <2> QED BY <2>1, <2>3, <2>4 DEF SwingsAlternate, Alternating
<1> QED BY <1>1, WatcherInvariant, PTL
-----------------------------------------------------------------------------
(* The coil.                                                               *)

\* The prices of one kind end with that of the last swing of the kind.
LEMMA PricesOfEnd ==
  ASSUME NEW q \in Seq(SwingSet), NEW kind, NEW n \in Nat, n = Len(q), n >= 2
  PROVE  /\ PricesOf(q, kind) \in Seq(Prices)
         /\ q[n].kind = kind => /\ PricesOf(q, kind) # <<>>
                                /\ Last(PricesOf(q, kind)) = q[n].price
         /\ q[n].kind # kind /\ q[n - 1].kind = kind =>
              /\ PricesOf(q, kind) # <<>>
              /\ Last(PricesOf(q, kind)) = q[n - 1].price
<1> DEFINE Add(p, i) == IF q[i].kind = kind THEN Append(p, q[i].price) ELSE p
           Of(g) == [i \in 0..n |-> IF i = 0 THEN <<>> ELSE Add(g[i - 1], i)]
<1>1. PICK X : X = Seq(Prices)
  OBVIOUS
<1> DEFINE step == [i \in 1..n |-> [p \in X |-> Add(p, i)]]
<1>2. \A i \in 1..n : q[i].price \in Prices
  <2>1. \A i \in 1..n : q[i] \in SwingSet
    OBVIOUS
  <2> QED BY <2>1 DEF SwingSet
<1>3. \A i \in 1..n : \A p \in X : Add(p, i) \in X
  <2> SUFFICES ASSUME NEW i \in 1..n, NEW p \in X PROVE Add(p, i) \in X
    OBVIOUS
  <2>1. PICK x \in Prices : x = q[i].price
    BY <1>2
  <2>2. Append(p, x) \in X
    BY <1>1
  <2> QED BY <2>1, <2>2
<1>4. PICK empty \in X : empty = <<>>
  <2>1. <<>> \in Seq(Prices)
    OBVIOUS
  <2> QED BY <1>1, <2>1
<1> HIDE DEF Add
<1>5. step \in [1..n -> [X -> X]]
  BY <1>3
<1>6. PICK f : Unfolds(f, X, n, empty, step)
  <2> HIDE DEF step
  <2> QED BY <1>5, RecursionExists
<1>7. f \in [0..n -> X] /\ \A i \in 0..n : f[i] = IF i = 0 THEN <<>> ELSE Add(f[i - 1], i)
  <2>1. f \in [0..n -> X]
    BY <1>6 DEF Unfolds
  <2> SUFFICES ASSUME NEW i \in 0..n PROVE f[i] = IF i = 0 THEN <<>> ELSE Add(f[i - 1], i)
    BY <2>1
  <2>2. CASE i = 0
    BY <1>4, <1>6, <2>2 DEF Unfolds
  <2>3. CASE i # 0
    <3>1. i \in 1..n /\ i - 1 \in 0..n /\ f[i - 1] \in X
      BY <2>1, <2>3
    <3>2. step[i][f[i - 1]] = Add(f[i - 1], i)
      BY <3>1
    <3> QED BY <1>6, <2>3, <3>1, <3>2 DEF Unfolds
  <2> QED BY <2>2, <2>3
<1>8. f = Of(f)
  <2>1. f = [i \in 0..n |-> f[i]]
    BY <1>7
  <2>2. [i \in 0..n |-> f[i]] = Of(f)
    BY <1>7, Zenon
  <2> QED BY <2>1, <2>2
<1>9. PICK g : g = CHOOSE h : h = Of(h)
  OBVIOUS
<1>10. g = Of(g)
  <2> HIDE DEF Of
  <2> QED BY <1>8, <1>9
<1>11. \A i \in 0..n : g[i] = IF i = 0 THEN <<>> ELSE Add(g[i - 1], i)
  BY <1>10
<1> HIDE DEF Of
<1>12. \A i \in 0..n : g[i] \in X
  <2> DEFINE typed == {i \in Nat : i <= n => g[i] \in X}
  <2>1. 0 \in typed
    <3>1. 0 \in 0..n
      OBVIOUS
    <3> QED BY <1>4, <1>11, <3>1
  <2>2. ASSUME NEW i \in typed PROVE i + 1 \in typed
    <3>1. CASE i + 1 <= n
      <4>1. /\ i \in Nat /\ i + 1 \in 0..n /\ i + 1 \in 1..n /\ i + 1 # 0 /\ (i + 1) - 1 = i
            /\ g[i] \in X
        BY <3>1
      <4>2. g[i + 1] = Add(g[i], i + 1)
        BY <1>11, <4>1
      <4> QED BY <1>3, <4>1, <4>2
    <3>2. CASE ~(i + 1 <= n)
      BY <3>2
    <3> QED BY <3>1, <3>2
  <2>3. typed = Nat
    <3> HIDE DEF typed
    <3>1. typed \in SUBSET Nat
      BY DEF typed
    <3> QED BY <2>1, <2>2, <3>1, NatSetInduction
  <2> QED BY <2>3
<1>13. PricesOf(q, kind) = g[n]
  BY <1>9, Zenon DEF PricesOf, Of, Add
<1>14. /\ n \in 0..n /\ n - 1 \in 0..n /\ (n - 1) - 1 \in 0..n /\ n \in 1..n /\ n - 1 \in 1..n
       /\ n # 0 /\ n - 1 # 0
  OBVIOUS
<1>15. g[n] = Add(g[n - 1], n) /\ g[n - 1] = Add(g[(n - 1) - 1], n - 1)
  BY <1>11, <1>14
<1>seed. PICK u \in X, v \in X, a \in Prices, b \in Prices :
         u = g[n - 1] /\ v = g[(n - 1) - 1] /\ a = q[n].price /\ b = q[n - 1].price
  BY <1>2, <1>12, <1>14
<1>17. g[n] \in Seq(Prices)
  BY <1>1, <1>12, <1>14
<1>18. ASSUME q[n].kind = kind
       PROVE  PricesOf(q, kind) # <<>> /\ Last(PricesOf(q, kind)) = q[n].price
  <2>1. g[n] = Append(u, a)
    BY <1>15, <1>seed, <1>18 DEF Add
  <2>2. Append(u, a) # <<>> /\ Append(u, a)[Len(Append(u, a))] = a
    BY <1>1, AppendIsLast
  <2> QED BY <1>13, <1>seed, <2>1, <2>2, Zenon DEF Last
<1>19. ASSUME q[n].kind # kind, q[n - 1].kind = kind
       PROVE  PricesOf(q, kind) # <<>> /\ Last(PricesOf(q, kind)) = q[n - 1].price
  <2>1. g[n] = Append(v, b)
    BY <1>15, <1>seed, <1>19 DEF Add
  <2>2. Append(v, b) # <<>> /\ Append(v, b)[Len(Append(v, b))] = b
    BY <1>1, AppendIsLast
  <2> QED BY <1>13, <1>seed, <2>1, <2>2, Zenon DEF Last
<1> QED BY <1>13, <1>17, <1>18, <1>19
\* The last prices of a sequence contain its last price.
LEMMA EndIsAmongLast ==
  ASSUME NEW p \in Seq(Prices), p # <<>>, NEW k \in Nat, k >= 1
  PROVE  /\ LastN(p, k) # <<>> /\ Last(p) \in ToSet(LastN(p, k))
         /\ ToSet(LastN(p, k)) \subseteq Prices
<1>1. PICK n \in Nat : n = Len(p) /\ n # 0
  OBVIOUS
<1>2. PICK lo \in Nat : lo = Larger(1, n - k + 1) /\ lo >= 1 /\ lo <= n
  <2>1. n \in Nat /\ n >= 1
    BY <1>1
  <2>2. CASE 1 >= n - k + 1
    BY <2>1, <2>2 DEF Larger
  <2>3. CASE ~(1 >= n - k + 1)
    <3>1. n - k + 1 \in Nat /\ n - k + 1 >= 1 /\ n - k + 1 <= n
      BY <2>1, <2>3
    <3>2. Larger(1, n - k + 1) = n - k + 1
      BY <2>3 DEF Larger
    <3> QED BY <3>1, <3>2
  <2> QED BY <2>2, <2>3
<1>3. PICK w : w = SubSeq(p, lo, n)
  OBVIOUS
<1>4. /\ w \in Seq(Prices) /\ Len(w) = n - lo + 1
      /\ \A i \in 1..(n - lo + 1) : w[i] = p[lo + i - 1]
  BY <1>1, <1>2, <1>3
<1>5. PICK m \in Nat : m = n - lo + 1 /\ m >= 1 /\ lo + m - 1 = n /\ m \in 1..m
  BY <1>2
<1>6. w[m] = p[n]
  BY <1>4, <1>5
<1>7. w # <<>>
  BY <1>4, <1>5
<1>8. ToSet(w) \subseteq Prices /\ w[m] \in ToSet(w)
  BY <1>4, <1>5 DEF ToSet
<1>9. LastN(p, k) = w /\ Last(p) = p[n]
  BY <1>1, <1>2, <1>3 DEF LastN, Last
<1> QED BY <1>6, <1>7, <1>8, <1>9

\* The band between the highest of the last highs and the lowest of the last
\* lows is at least as wide as the last reversal.
LEMMA BandHoldsReversal ==
  ASSUME NEW q \in Seq(SwingSet), NEW n \in Nat, n = Len(q), n >= 2, NEW k \in Nat, k >= 1,
         NEW atr \in AtrSet, NEW mult \in Nat, Alternating(q, atr, mult)
  PROVE  \E x \in Int : /\ x = Max(ToSet(LastN(PricesOf(q, "High"), k)))
                               - Min(ToSet(LastN(PricesOf(q, "Low"), k)))
                        /\ AtLeast(x, mult, atr)
<1>1. n \in 2..n /\ n \in 1..n /\ n - 1 \in 1..n
  OBVIOUS
<1>2. PICK a \in SwingSet, b \in SwingSet : a = q[n] /\ b = q[n - 1]
  BY <1>1
<1>3. /\ a.kind \in {"High", "Low"} /\ b.kind \in {"High", "Low"}
      /\ a.price \in Prices /\ b.price \in Prices /\ a.kind # b.kind
      /\ AtLeast(IF a.kind = "Low" THEN b.price - a.price ELSE a.price - b.price, mult, atr)
  BY <1>1, <1>2 DEF Alternating, SwingSet
<1>4. PICK high \in Prices, low \in Prices :
        /\ AtLeast(high - low, mult, atr)
        /\ PricesOf(q, "High") # <<>> /\ Last(PricesOf(q, "High")) = high
        /\ PricesOf(q, "Low") # <<>> /\ Last(PricesOf(q, "Low")) = low
  <2>1. CASE a.kind = "Low"
    <3>1. AtLeast(b.price - a.price, mult, atr)
      BY <1>3, <2>1
    <3>2. /\ PricesOf(q, "High") # <<>> /\ Last(PricesOf(q, "High")) = b.price
          /\ PricesOf(q, "Low") # <<>> /\ Last(PricesOf(q, "Low")) = a.price
      BY <1>2, <1>3, <2>1, PricesOfEnd
    <3> QED BY <1>3, <3>1, <3>2
  <2>2. CASE a.kind = "High"
    <3>1. AtLeast(a.price - b.price, mult, atr)
      BY <1>3, <2>2
    <3>2. /\ PricesOf(q, "High") # <<>> /\ Last(PricesOf(q, "High")) = a.price
          /\ PricesOf(q, "Low") # <<>> /\ Last(PricesOf(q, "Low")) = b.price
      BY <1>2, <1>3, <2>2, PricesOfEnd
    <3> QED BY <1>3, <3>1, <3>2
  <2> QED BY <1>3, <2>1, <2>2
<1>5. PricesOf(q, "High") \in Seq(Prices) /\ PricesOf(q, "Low") \in Seq(Prices)
  BY PricesOfEnd
<1>6. PICK H, L : H = ToSet(LastN(PricesOf(q, "High"), k)) /\ L = ToSet(LastN(PricesOf(q, "Low"), k))
  OBVIOUS
<1>7. H \subseteq Prices /\ high \in H /\ L \subseteq Prices /\ low \in L
  BY <1>4, <1>5, <1>6, EndIsAmongLast
<1>8. \A S \in SUBSET Prices : S # {} =>
        /\ Max(S) \in S /\ \A y \in S : Max(S) >= y
        /\ Min(S) \in S /\ \A y \in S : Min(S) <= y
  <2> SUFFICES ASSUME NEW S \in SUBSET Prices, S # {}
               PROVE  /\ Max(S) \in S /\ \A y \in S : Max(S) >= y
                      /\ Min(S) \in S /\ \A y \in S : Min(S) <= y
    OBVIOUS
  <2>1. S \in SUBSET Nat /\ IsFiniteSet(S)
    BY PriceAssumption, FS_Subset
  <2>2. /\ \E x \in S : \A y \in S : x >= y
        /\ \E x \in S : \A y \in S : x <= y
    BY <2>1, ExtremesExist
  <2> QED BY <2>2 DEF Max, Min
<1>9. PICK x \in Prices, y \in Prices : x = Max(H) /\ y = Min(L) /\ x >= high /\ y <= low
  BY <1>7, <1>8
<1>10. high - low \in Int /\ x - y \in Int /\ high - low <= x - y
  BY <1>9, NoPriceIsNone
<1>11. AtLeast(x - y, mult, atr)
  BY <1>4, <1>10, AtLeastGrows
<1> QED BY <1>6, <1>9, <1>10, <1>11

\* A range no wider than a band, and no narrower than a reversal.
LEMMA BandAboveReversal ==
  ASSUME NEW x \in Int, NEW band \in Nat, NEW mult \in Nat, NEW atr \in AtrSet, atr.sum > 0,
         AtLeast(x, mult, atr), ~AtLeast(x, band, atr)
  PROVE  band > mult
<1>1. PICK s \in Int : s = atr.sum /\ s > 0
  BY DEF AtrSet
<1>2. PICK a \in Int : a = 100 * x * atr.n
  BY DEF AtrSet
<1>3. a >= mult * s /\ ~(a >= band * s)
  BY <1>1, <1>2 DEF AtLeast
<1>4. mult * s < band * s
  <2>1. PICK m \in Int, b \in Int : m = mult * s /\ b = band * s
    BY <1>1
  <2> QED BY <1>3, <2>1
<1>5. CASE band <= mult
  <2>1. PICK d \in Nat : mult = band + d
    BY <1>5
  <2>2. mult * s = band * s + d * s
    BY <1>1, <2>1
  <2>3. d * s >= 0
    BY <1>1
  <2>4. PICK m \in Int, b \in Int, e \in Int : m = mult * s /\ b = band * s /\ e = d * s
    BY <1>1
  <2> QED BY <1>4, <2>2, <2>3, <2>4
<1> QED BY <1>5
\* Only the structure read off the swings gives the regime RANGE, and only if
\* its band is a coil (market_context.py:276-317).
LEMMA RangeIsCoil ==
  ASSUME NEW s \in Seq(CandleSet), NEW p \in Params, BuildContext(s, p).regime = "RANGE"
  PROVE  LET atr    == AtrOf(s, p.atr_period)
             swings == ZigzagSwings(s, atr, p.swing_atr)
             k      == (p.lookback_swings + 1) \div 2
         IN /\ atr.sum # 0 /\ ~(Len(swings) < p.min_swings)
            /\ ~AtLeast(Max(ToSet(LastN(PricesOf(swings, "High"), k)))
                          - Min(ToSet(LastN(PricesOf(swings, "Low"), k))), p.range_height, atr)
<1>1. PICK atr : atr = AtrOf(s, p.atr_period)
  OBVIOUS
<1>2. PICK swings : swings = ZigzagSwings(s, atr, p.swing_atr)
  OBVIOUS
<1>3. PICK k : k = (p.lookback_swings + 1) \div 2
  OBVIOUS
<1>4. PICK highs, lows : /\ highs = LastN(PricesOf(swings, "High"), k)
                         /\ lows = LastN(PricesOf(swings, "Low"), k)
  OBVIOUS
<1>5. PICK hi, lo : /\ hi = IF highs = <<>> THEN None ELSE Max(ToSet(highs))
                    /\ lo = IF lows = <<>> THEN None ELSE Min(ToSet(lows))
  OBVIOUS
<1>6. \A a : Seeding(a).regime = "SEEDING"
  BY DEF Seeding
<1>7. \A a, up, level : Expansion(Seeding(a), up, level).regime = "EXPANSION"
  BY DEF Seeding, Expansion
<1>8. /\ ~(atr.sum = 0) /\ ~(Len(swings) < p.min_swings)
      /\ Structure(s, Seeding(atr), swings, p).regime = "RANGE"
  <2>1. \/ BuildContext(s, p) = Seeding(NoAtr)
        \/ BuildContext(s, p) = Seeding(atr)
        \/ \E up, level : BuildContext(s, p) = Expansion(Seeding(atr), up, level)
        \/ /\ ~(atr.sum = 0) /\ ~(Len(swings) < p.min_swings)
           /\ BuildContext(s, p) = Structure(s, Seeding(atr), swings, p)
    <3> DEFINE n    == Len(s)
               move == s[n].close - s[n - 1].close
    <3>1. BuildContext(s, p) =
            CASE n < p.atr_period + 2 -> Seeding(NoAtr)
              [] n >= p.atr_period + 2 /\ atr.sum = 0 -> Seeding(NoAtr)
              [] OTHER ->
                 IF AtLeast(Abs(move), p.impulse_atr, atr)
                 THEN Expansion(Seeding(atr), move > 0, s[n - 1].close)
                 ELSE IF Len(swings) < p.min_swings
                 THEN Seeding(atr)
                 ELSE Structure(s, Seeding(atr), swings, p)
      BY <1>1, <1>2, Zenon DEF BuildContext
    <3>2. PICK m \in Nat, a \in Nat : m = n /\ a = p.atr_period
      BY DEF Params
    <3> HIDE DEF n, move
    <3>3. CASE m < a + 2
      <4>1. ~(m >= a + 2)
        BY <3>3
      <4> QED BY <3>1, <3>2, <3>3, <4>1
    <3>4. CASE ~(m < a + 2)
      <4>1. m >= a + 2
        BY <3>4
      <4>2. CASE atr.sum = 0
        BY <3>1, <3>2, <3>4, <4>1, <4>2
      <4>3. CASE atr.sum # 0
        <5>1. BuildContext(s, p) =
                 IF AtLeast(Abs(move), p.impulse_atr, atr)
                 THEN Expansion(Seeding(atr), move > 0, s[n - 1].close)
                 ELSE IF Len(swings) < p.min_swings
                 THEN Seeding(atr)
                 ELSE Structure(s, Seeding(atr), swings, p)
          BY <3>1, <3>2, <3>4, <4>3
        <5> QED BY <4>3, <5>1, Zenon
      <4> QED BY <4>2, <4>3
    <3> QED BY <3>3, <3>4
  <2> QED BY <1>6, <1>7, <2>1
<1>9. PICK ctx0 : ctx0 = Seeding(atr)
  OBVIOUS
<1>seed. ctx0.atr = atr
  BY <1>9 DEF Seeding
<1>10. PICK b : b = IF Last(swings).kind = "Low" THEN "Long" ELSE "Short"
  OBVIOUS
<1>11. PICK ctx : ctx = [ctx0 EXCEPT !.swing_high = hi, !.swing_low = lo, !.bias = b]
  OBVIOUS
<1>12. /\ ctx.regime = "SEEDING"
       /\ \A up, level : Expansion(ctx, up, level).regime = "EXPANSION"
       /\ \A up, last, prev : Trend(ctx, up, last, prev, p).regime \in {"TREND_UP", "TREND_DOWN"}
  <2>1. ctx = [atr |-> atr, regime |-> "SEEDING", phase |-> "SEEDING", bias |-> b,
               swing_high |-> hi, swing_low |-> lo, integrity |-> TRUE, break_level |-> None]
    BY <1>9, <1>11 DEF Seeding
  <2>2. ctx.regime = "SEEDING"
    BY <2>1
  <2>3. \A up, level : Expansion(ctx, up, level).regime = "EXPANSION"
    BY <2>1 DEF Expansion
  <2>4. \A r, x, ph, i, l : [ctx EXCEPT !.regime = r, !.bias = x, !.phase = ph, !.integrity = i,
                                        !.break_level = l].regime = r
    BY <2>1
  <2>5. \A up, last, prev : Trend(ctx, up, last, prev, p).regime \in {"TREND_UP", "TREND_DOWN"}
    <3> SUFFICES ASSUME NEW up, NEW last, NEW prev
                 PROVE  Trend(ctx, up, last, prev, p).regime \in {"TREND_UP", "TREND_DOWN"}
      OBVIOUS
    <3>1. \E x, ph, i, l :
            Trend(ctx, up, last, prev, p)
              = [ctx EXCEPT !.regime = IF up THEN "TREND_UP" ELSE "TREND_DOWN",
                            !.bias = x, !.phase = ph, !.integrity = i, !.break_level = l]
      BY Zenon DEF Trend
    <3>2. PICK x, ph, i, l :
            Trend(ctx, up, last, prev, p)
              = [ctx EXCEPT !.regime = IF up THEN "TREND_UP" ELSE "TREND_DOWN",
                            !.bias = x, !.phase = ph, !.integrity = i, !.break_level = l]
      BY <3>1, Zenon
    <3>3. CASE up
      <4>1. Trend(ctx, up, last, prev, p)
              = [ctx EXCEPT !.regime = "TREND_UP", !.bias = x, !.phase = ph, !.integrity = i,
                            !.break_level = l]
        BY <3>2, <3>3
      <4> QED BY <2>4, <4>1
    <3>4. CASE ~up
      <4>1. Trend(ctx, up, last, prev, p)
              = [ctx EXCEPT !.regime = "TREND_DOWN", !.bias = x, !.phase = ph, !.integrity = i,
                            !.break_level = l]
        BY <3>2, <3>4
      <4> QED BY <2>4, <4>1
    <3> QED BY <3>3, <3>4
  <2> QED BY <2>2, <2>3, <2>5
<1> DEFINE last  == s[Len(s)].close
           coil  == hi # None /\ lo # None /\ ~AtLeast(hi - lo, p.range_height, ctx0.atr)
           left  == last > hi \/ last < lo
           score == Polarity(swings)
<1>13. hi # None /\ lo # None /\ ~AtLeast(hi - lo, p.range_height, atr)
  <2>1. Structure(s, ctx0, swings, p) =
          CASE coil /\ left -> Expansion(ctx, last > hi, IF last > hi THEN hi ELSE lo)
            [] ~(coil /\ left) /\ score # 0 ->
                 Trend(ctx, score > 0, last, s[Len(s) - p.atr_period + 1].close, p)
            [] coil /\ ~left /\ score = 0 -> [ctx EXCEPT !.regime = "RANGE", !.phase = "COIL"]
            [] ~coil /\ score = 0 -> ctx
    BY <1>3, <1>4, <1>5, <1>10, <1>11, Zenon DEF Structure
  <2> HIDE DEF coil, left, score, last
  <2>2. CASE ~coil
    <3>1. \/ \E up, x, y : Structure(s, ctx0, swings, p) = Trend(ctx, up, x, y, p)
          \/ Structure(s, ctx0, swings, p) = ctx
      BY <2>1, <2>2
    <3> QED BY <1>8, <1>9, <1>12, <3>1
  <2> QED BY <1>seed, <2>2 DEF coil
<1>14. hi = Max(ToSet(highs)) /\ lo = Min(ToSet(lows))
  BY <1>5, <1>13
<1> QED BY <1>1, <1>2, <1>3, <1>4, <1>8, <1>13, <1>14
\* The regime RANGE needs a range band wider than the reversal that confirms a
\* swing: with the defaults of MarketContextParams it cannot occur, whatever
\* the market does (market_context.py:65-66, :276).
THEOREM WatcherCoil == WatcherSpec => []CoilNeedsWideBand
<1>1. WatcherInv => CoilNeedsWideBand
  <2> SUFFICES ASSUME WatcherInv, BuildContext(History, par).regime = "RANGE"
               PROVE  par.range_height > par.swing_atr
    BY DEF CoilNeedsWideBand
  <2>1. PICK h \in Seq(CandleSet) : h = History
    <3>1. forming # NoCandle => Append(candles, forming) \in Seq(CandleSet)
      BY DEF WatcherInv
    <3> QED BY <3>1 DEF WatcherInv, History
  <2>2. PICK p \in Params : p = par /\ p.min_swings >= 2 /\ p.lookback_swings >= 2
    BY WatcherAssumption DEF WatcherInv
  <2>3. /\ p.atr_period \in Nat /\ p.swing_atr \in Nat /\ p.min_swings \in Nat
        /\ p.lookback_swings \in Nat /\ p.range_height \in Nat
    BY DEF Params
  <2>4. PICK atr \in AtrSet : atr = AtrOf(h, p.atr_period)
    BY <2>1, <2>3, AtrType
  <2>5. PICK k : k = (p.lookback_swings + 1) \div 2
    OBVIOUS
  <2>6. k \in Nat /\ k >= 1
    <3>1. PICK b \in Nat : b = p.lookback_swings /\ b >= 2
      BY <2>2, <2>3
    <3>2. (b + 1) \div 2 \in Nat /\ (b + 1) \div 2 >= 1
      BY <3>1
    <3> QED BY <2>5, <3>1, <3>2
  <2>7. PICK q : q = ZigzagSwings(h, atr, p.swing_atr)
    OBVIOUS
  <2>8. Alternating(q, atr, p.swing_atr)
    BY <2>3, <2>7, ZigzagAlternates
  <2>9. q \in Seq(SwingSet)
    BY <2>3, <2>7, ZigzagAlternates
  <2>10. /\ atr.sum # 0 /\ ~(Len(q) < p.min_swings)
         /\ ~AtLeast(Max(ToSet(LastN(PricesOf(q, "High"), k)))
                       - Min(ToSet(LastN(PricesOf(q, "Low"), k))), p.range_height, atr)
    <3>1. BuildContext(h, p).regime = "RANGE"
      BY <2>1, <2>2
    <3> QED BY <2>4, <2>5, <2>7, <3>1, RangeIsCoil
  <2>11. PICK n \in Nat : n = Len(q) /\ n >= 2
    BY <2>2, <2>3, <2>9, <2>10
  <2>12. PICK x \in Int : /\ x = Max(ToSet(LastN(PricesOf(q, "High"), k)))
                                 - Min(ToSet(LastN(PricesOf(q, "Low"), k)))
                          /\ AtLeast(x, p.swing_atr, atr)
    BY <2>3, <2>6, <2>8, <2>9, <2>11, BandHoldsReversal
  <2>13. atr.sum > 0
    BY <2>10 DEF AtrSet
  <2>14. ~AtLeast(x, p.range_height, atr)
    BY <2>10, <2>12
  <2> QED BY <2>2, <2>3, <2>12, <2>13, <2>14, BandAboveReversal
<1> QED BY <1>1, WatcherInvariant, PTL
=============================================================================
