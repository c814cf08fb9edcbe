-------------------------- MODULE NextCandleProofs --------------------------
(***************************************************************************)
(* Proofs about the fetch of candle histories and the next-candle drills,  *)
(* for any venue, any page size, any thresholds and any number of candles. *)
(***************************************************************************)
EXTENDS NextCandle, FiniteSetTheorems, TLAPS

-----------------------------------------------------------------------------
(* Numbers.                                                                *)

\* Induction over the natural numbers, on a set instead of a predicate.
LEMMA NatSetInduction ==
  ASSUME NEW good \in SUBSET Nat, 0 \in good, \A n \in good : n + 1 \in good
  PROVE  good = Nat
<1> DEFINE bad  == Nat \ good
           less == OpToRel(<, Nat)
<1> SUFFICES ASSUME bad # {} PROVE FALSE
  OBVIOUS
<1>1. \A i, j \in Nat : i < j => <<i, j>> \in less
  BY DEF OpToRel
<1>2. IsWellFoundedOn(less, Nat)
  BY NatLessThanWellFounded
<1>3. bad \subseteq Nat
  OBVIOUS
<1> HIDE DEF less
<1>4. \E n \in bad : \A m \in bad : ~(<<m, n>> \in less)
  <2> HIDE DEF bad
  <2> QED BY <1>2, <1>3, WFMin
<1>5. PICK n \in bad : \A m \in bad : ~(<<m, n>> \in less)
  BY <1>4
<1>6. n \in Nat /\ n # 0 /\ n - 1 \in Nat /\ n - 1 < n /\ (n - 1) + 1 = n
  OBVIOUS
<1>7. n - 1 \in bad
  BY <1>6
<1> QED BY <1>1, <1>5, <1>6, <1>7

\* A finite set of numbers that is not empty has a least and a largest one.
LEMMA ExtremesExist ==
  ASSUME NEW S \in SUBSET Nat, IsFiniteSet(S), S # {}
  PROVE  /\ \E x \in S : \A y \in S : x >= y
         /\ \E x \in S : \A y \in S : x <= y
<1> DEFINE ends(T) == /\ \E x \in T : \A y \in T : x >= y
                      /\ \E x \in T : \A y \in T : x <= y
           good == {n \in Nat : \A T \in SUBSET S : Cardinality(T) = n + 1 => ends(T)}
<1>1. \A T \in SUBSET S : IsFiniteSet(T) /\ Cardinality(T) \in Nat
  BY FS_Subset, FS_CardinalityType
<1>2. 0 \in good
  <2> SUFFICES ASSUME NEW T \in SUBSET S, Cardinality(T) = 1 PROVE ends(T)
    OBVIOUS
  <2>1. PICK x : T = {x}
    BY <1>1, FS_Singleton
  <2> QED BY <2>1
<1>3. ASSUME NEW n \in good PROVE n + 1 \in good
  <2>1. n \in Nat /\ \A T \in SUBSET S : Cardinality(T) = n + 1 => ends(T)
    OBVIOUS
  <2> SUFFICES ASSUME NEW T \in SUBSET S, Cardinality(T) = n + 2 PROVE ends(T)
    BY <2>1
  <2>2. T # {}
    BY <2>1, FS_EmptySet
  <2>3. PICK a \in T : TRUE
    BY <2>2
  <2>4. Cardinality(T \ {a}) = n + 1
    BY <1>1, <2>1, FS_RemoveElement
  <2>5. ends(T \ {a})
    BY <2>1, <2>4
  <2>6. PICK x \in T \ {a} : \A y \in T \ {a} : x >= y
    BY <2>5
  <2>7. PICK z \in T \ {a} : \A y \in T \ {a} : z <= y
    BY <2>5
  <2>8. a \in Nat /\ \A y \in T : y \in Nat
    OBVIOUS
  <2>9. \E w \in T : \A y \in T : w >= y
    <3>1. CASE a >= x
      BY <2>6, <2>8, <3>1
    <3>2. CASE ~(a >= x)
      BY <2>6, <2>8, <3>2
    <3> QED BY <3>1, <3>2
  <2>10. \E w \in T : \A y \in T : w <= y
    <3>1. CASE a <= z
      BY <2>7, <2>8, <3>1
    <3>2. CASE ~(a <= z)
      BY <2>7, <2>8, <3>2
    <3> QED BY <3>1, <3>2
  <2> QED BY <2>9, <2>10
<1>4. good = Nat
  <2> HIDE DEF good
  <2>1. good \in SUBSET Nat
    BY DEF good
  <2> QED BY <1>2, <1>3, <2>1, NatSetInduction
<1>5. Cardinality(S) \in Nat /\ Cardinality(S) # 0
  BY <1>1, FS_EmptySet
<1>6. PICK n \in Nat : Cardinality(S) = n + 1
  BY <1>5
<1> QED BY <1>4, <1>6

\* Max is the largest member.
LEMMA MaxOf ==
  ASSUME NEW S \in SUBSET Nat, IsFiniteSet(S), S # {}
  PROVE  Max(S) \in S /\ \A x \in S : Max(S) >= x
BY ExtremesExist DEF Max

-----------------------------------------------------------------------------
(* Sorting a page.                                                         *)

\* The rows of a set of open times, each at the place of its rank.
Ranked(P) ==
  [k \in 1..Cardinality(P) |-> CHOOSE t \in P : Cardinality({u \in P : u <= t}) = k]

\* They are the set in increasing order: ranks are a bijection.
LEMMA RankedSorts ==
  ASSUME NEW P \in SUBSET Nat, IsFiniteSet(P)
  PROVE  /\ Ranked(P) \in Seq(P) /\ Len(Ranked(P)) = Cardinality(P)
         /\ \A j, k \in 1..Cardinality(P) : j < k => Ranked(P)[j] < Ranked(P)[k]
         /\ \A t \in P : \E k \in 1..Cardinality(P) : Ranked(P)[k] = t
<1>1. PICK n \in Nat : n = Cardinality(P)
  BY FS_CardinalityType
<1> DEFINE below(t) == {u \in P : u <= t}
           rank == [t \in P |-> Cardinality(below(t))]
<1>2. \A t \in P : below(t) \in SUBSET P /\ IsFiniteSet(below(t)) /\ Cardinality(below(t)) \in Nat
  BY FS_Subset, FS_CardinalityType
<1>3. \A t \in P : Cardinality(below(t)) \in 1..n
  <2> SUFFICES ASSUME NEW t \in P PROVE Cardinality(below(t)) \in 1..n
    OBVIOUS
  <2>1. t \in below(t)
    OBVIOUS
  <2>2. Cardinality(below(t)) # 0
    BY <1>2, <2>1, FS_EmptySet
  <2>3. Cardinality(below(t)) <= Cardinality(P)
    BY <1>2, FS_Subset
  <2> HIDE DEF below
  <2> QED BY <1>1, <1>2, <2>2, <2>3
<1>4. \A t, u \in P : t < u => Cardinality(below(t)) < Cardinality(below(u))
  <2> SUFFICES ASSUME NEW t \in P, NEW u \in P, t < u
               PROVE  Cardinality(below(t)) < Cardinality(below(u))
    OBVIOUS
  <2>1. below(t) \in SUBSET below(u) /\ u \in below(u) /\ u \notin below(t)
    <3>1. t \in Nat /\ u \in Nat
      OBVIOUS
    <3>2. \A x \in P : x \in Nat /\ (x <= t => x <= u)
      BY <3>1
    <3>3. \A x \in below(t) : x \in below(u)
      BY <3>2
    <3>4. u \in below(u) /\ u \notin below(t)
      BY <3>1
    <3> HIDE DEF below
    <3> QED BY <3>3, <3>4
  <2> HIDE DEF below
  <2>2. Cardinality(below(t)) <= Cardinality(below(u))
    BY <1>2, <2>1, FS_Subset
  <2>3. Cardinality(below(t)) # Cardinality(below(u))
    BY <1>2, <2>1, FS_Subset
  <2> QED BY <1>2, <2>2, <2>3
<1>5. rank \in Injection(P, 1..n)
  <2>1. rank \in [P -> 1..n]
    BY <1>3
  <2>2. ASSUME NEW t \in P, NEW u \in P, rank[t] = rank[u] PROVE t = u
    <3>1. t \in Nat /\ u \in Nat
      OBVIOUS
    <3>2. ~(t < u) /\ ~(u < t)
      BY <1>2, <1>4, <2>2
    <3> QED BY <3>1, <3>2
  <2> HIDE DEF rank
  <2> QED BY <2>1, <2>2 DEF Injection, IsInjective
<1>6. rank \in Surjection(P, 1..n)
  <2>1. IsFiniteSet(1..n) /\ Cardinality(1..n) = n
    <3>1. PICK one \in Int : one = 1
      OBVIOUS
    <3>2. IsFiniteSet(one..n) /\ Cardinality(one..n) = IF one > n THEN 0 ELSE n - one + 1
      BY FS_Interval
    <3> QED BY <3>1, <3>2
  <2> HIDE DEF rank
  <2> QED BY <1>1, <1>5, <2>1, FS_Injection
<1>7. \A k \in 1..n : \E t \in P : Cardinality(below(t)) = k
  <2>1. \A k \in 1..n : \E t \in P : rank[t] = k
    <3> HIDE DEF rank
    <3> QED BY <1>6 DEF Surjection
  <2> QED BY <2>1
<1>8. \A k \in 1..n : Ranked(P)[k] \in P /\ Cardinality(below(Ranked(P)[k])) = k
  <2> SUFFICES ASSUME NEW k \in 1..n PROVE Ranked(P)[k] \in P /\ Cardinality(below(Ranked(P)[k])) = k
    OBVIOUS
  <2>1. Ranked(P)[k] = CHOOSE t \in P : Cardinality(below(t)) = k
    BY <1>1 DEF Ranked
  <2> HIDE DEF below
  <2> QED BY <1>7, <2>1
<1>9. Ranked(P) \in Seq(P) /\ Len(Ranked(P)) = n
  <2>1. Ranked(P) \in [1..n -> P]
    BY <1>1, <1>8 DEF Ranked
  <2> HIDE DEF below
  <2> QED BY <2>1
<1> HIDE DEF below
<1>10. ASSUME NEW j \in 1..n, NEW k \in 1..n, j < k PROVE Ranked(P)[j] < Ranked(P)[k]
  <2>1. PICK t \in P, u \in P : /\ t = Ranked(P)[j] /\ u = Ranked(P)[k]
                                /\ Cardinality(below(t)) = j /\ Cardinality(below(u)) = k
    BY <1>8
  <2>2. t \in Nat /\ u \in Nat /\ ~(u < t) /\ u # t
    BY <1>2, <1>4, <1>10, <2>1
  <2> QED BY <2>1, <2>2
<1>11. ASSUME NEW t \in P PROVE \E k \in 1..n : Ranked(P)[k] = t
  <2>1. PICK k \in 1..n : k = Cardinality(below(t))
    BY <1>3
  <2>2. PICK u \in P : u = Ranked(P)[k] /\ Cardinality(below(u)) = k
    BY <1>8
  <2>3. t \in Nat /\ u \in Nat /\ ~(u < t) /\ ~(t < u)
    BY <1>2, <1>4, <2>1, <2>2
  <2> QED BY <2>2, <2>3
<1> QED BY <1>1, <1>9, <1>10, <1>11

-----------------------------------------------------------------------------
(* The fetch.                                                              *)

\* What the venue shows.
MarketOK ==
  /\ task \in {"live_drill", "live_ml", "scale_ml"}
  /\ listed \in SUBSET Nat /\ IsFiniteSet(listed) /\ listed # {}
  /\ \A t \in listed : candle[t] \in [colour : Colours, size : Sizes]

Have == {rows[k] : k \in DOMAIN rows}

\* What is fetched is the venue's history from some row on; while paging it is
\* exactly what lies beyond the cursor, which is what makes the next page fit.
FeedOK ==
  /\ feed \in {"once", "paging", "done", "paged", "failed"}
  /\ cursor \in Int /\ cursor <= Newest
  /\ rows \in Seq(listed)
  /\ \A j, k \in 1..Len(rows) : j < k => rows[j] < rows[k]
  /\ rows # <<>> => Have = {t \in listed : t >= rows[1]}
  /\ feed = "once" => rows = <<>> /\ cursor = Newest
  /\ feed = "paging" => Have = {t \in listed : t > cursor}
  /\ feed = "paged" => {t \in listed : t > Newest - HistoryMs} \subseteq Have

\* A page is sorted, has no hole, and is empty only if there is nothing left.
GoodPage(s, end) ==
  /\ s \in Seq(listed)
  /\ \A j, k \in 1..Len(s) : j < k => s[j] < s[k]
  /\ s = <<>> => \A t \in listed : ~(t <= end)
  /\ s # <<>> => {s[k] : k \in 1..Len(s)} = {t \in listed : s[1] <= t /\ t <= end}

\* What the venue answers is such a page.
LEMMA PageOK ==
  ASSUME MarketOK, NEW end \in Int, NEW limit \in Nat \ {0}
  PROVE  GoodPage(Page(end, limit), end)
<1>1. PICK upTo : upTo = {t \in listed : t <= end}
  OBVIOUS
<1> DEFINE above(t) == {u \in upTo : u > t}
<1>2. PICK P : P = {t \in upTo : Cardinality(above(t)) < limit}
  OBVIOUS
<1>3. /\ listed \in SUBSET Nat /\ upTo \in SUBSET listed /\ P \in SUBSET upTo
      /\ IsFiniteSet(upTo) /\ IsFiniteSet(P)
  <2>1. listed \in SUBSET Nat /\ IsFiniteSet(listed)
    BY DEF MarketOK
  <2>2. upTo \in SUBSET listed /\ P \in SUBSET upTo
    BY <1>1, <1>2
  <2>3. IsFiniteSet(upTo)
    BY <2>1, <2>2, FS_Subset
  <2> QED BY <2>1, <2>2, <2>3, FS_Subset
<1>4. \A t : above(t) \in SUBSET upTo /\ IsFiniteSet(above(t)) /\ Cardinality(above(t)) \in Nat
  BY <1>3, FS_Subset, FS_CardinalityType
<1>5. ASSUME NEW t \in P, NEW u \in upTo, t < u PROVE u \in P
  <2>1. t \in Nat /\ u \in Nat /\ \A x \in upTo : x \in Nat
    BY <1>3
  <2>2. \A x \in upTo : x > u => x > t
    BY <1>5, <2>1
  <2>3. above(u) \in SUBSET above(t)
    BY <2>2
  <2>4. Cardinality(above(u)) <= Cardinality(above(t))
    <3> HIDE DEF above
    <3> QED BY <1>4, <2>3, FS_Subset
  <2>5. Cardinality(above(t)) < limit
    BY <1>2
  <2>6. Cardinality(above(u)) < limit
    <3> HIDE DEF above
    <3> QED BY <1>4, <2>4, <2>5
  <2> QED BY <1>2, <2>6
<1>6. upTo # {} => P # {}
  <2> SUFFICES ASSUME upTo # {} PROVE P # {}
    OBVIOUS
  <2>1. PICK t \in upTo : \A x \in upTo : t >= x
    BY <1>3, ExtremesExist
  <2>2. t \in Nat /\ \A x \in upTo : x \in Nat
    BY <1>3
  <2>3. above(t) = {}
    <3>1. \A x \in upTo : ~(x > t)
      BY <2>1, <2>2
    <3> QED BY <3>1
  <2>4. Cardinality(above(t)) = 0
    BY <2>3, FS_EmptySet
  <2> HIDE DEF above
  <2> QED BY <1>2, <2>4 DEF above
<1>7. PICK s : s = Ranked(P)
  OBVIOUS
<1>8. Page(end, limit) = s
  <2>1. Page(end, limit) =
          LET up   == {t \in listed : t <= end}
              page == {t \in up : Cardinality({u \in up : u > t}) < limit}
          IN  Ranked(page)
    BY Zenon DEF Page, Ranked
  <2> QED BY <1>1, <1>2, <1>7, <2>1
<1>9. PICK n \in Nat : n = Cardinality(P)
  BY <1>3, FS_CardinalityType
<1>10. /\ s \in Seq(P) /\ Len(s) = n
       /\ \A j, k \in 1..n : j < k => s[j] < s[k]
       /\ \A t \in P : \E k \in 1..n : s[k] = t
  <2>1. P \in SUBSET Nat
    BY <1>3
  <2> QED BY <1>3, <1>7, <1>9, <2>1, RankedSorts
<1> HIDE DEF above
<1>11. s \in Seq(listed)
  <2>1. P \in SUBSET listed
    BY <1>3
  <2>2. s \in [1..n -> P]
    BY <1>10
  <2>3. s \in [1..n -> listed]
    BY <2>1, <2>2
  <2> QED BY <2>3
<1>12. s = <<>> => \A t \in listed : ~(t <= end)
  <2> SUFFICES ASSUME s = <<>> PROVE upTo = {}
    BY <1>1
  <2>1. n = 0
    BY <1>10
  <2>2. P = {}
    BY <1>3, <1>9, <2>1, FS_EmptySet
  <2> QED BY <1>6, <2>2
<1>13. s # <<>> => {s[k] : k \in 1..Len(s)} = {t \in listed : s[1] <= t /\ t <= end}
  <2> SUFFICES ASSUME s # <<>> PROVE {s[k] : k \in 1..n} = {t \in listed : s[1] <= t /\ t <= end}
    BY <1>10
  <2>1. 1 \in 1..n
    BY <1>10
  <2>2. PICK first \in P : first = s[1]
    BY <1>10, <2>1
  <2>3. \A k \in 1..n : s[k] \in P
    BY <1>10
  <2>4. \A t \in listed : t \in Nat
    BY <1>3
  <2>5. ASSUME NEW k \in 1..n PROVE s[k] \in listed /\ first <= s[k] /\ s[k] <= end
    <3>1. s[k] \in upTo /\ s[k] \in listed /\ s[k] \in Nat /\ first \in Nat
      BY <1>3, <2>3
    <3>2. s[k] <= end
      BY <1>1, <3>1
    <3>3. k = 1 \/ 1 < k
      OBVIOUS
    <3>4. k = 1 \/ s[1] < s[k]
      BY <1>10, <2>1, <3>3
    <3> QED BY <2>2, <3>1, <3>2, <3>4
  <2>6. ASSUME NEW t \in listed, first <= t, t <= end PROVE \E k \in 1..n : s[k] = t
    <3>1. t \in upTo /\ t \in Nat /\ first \in Nat
      BY <1>1, <1>3, <2>6
    <3>2. t = first \/ first < t
      BY <2>6, <3>1
    <3>3. t \in P
      BY <1>5, <3>1, <3>2
    <3> QED BY <1>10, <3>3
  <2> QED BY <2>2, <2>5, <2>6
<1> QED BY <1>8, <1>10, <1>11, <1>12, <1>13 DEF GoodPage

\* The newest row is listed and nothing is listed after it.
LEMMA NewestOK ==
  ASSUME MarketOK
  PROVE  Newest \in listed /\ Newest \in Nat /\ \A t \in listed : t \in Nat /\ t <= Newest
<1>1. listed \in SUBSET Nat /\ IsFiniteSet(listed) /\ listed # {}
  BY DEF MarketOK
<1>2. Newest \in listed /\ \A t \in listed : Newest >= t
  BY <1>1, MaxOf DEF Newest
<1> QED BY <1>1, <1>2

\* A fetch starts with no rows and the cursor at the newest row (live_feed.py:116-118).
LEMMA FeedInitOK ==
  ASSUME MarketOK, FeedInit
  PROVE  FeedOK
<1>1. rows = <<>> /\ cursor = Newest /\ feed \in {"once", "paging"}
  BY DEF FeedInit
<1>2. Have = {}
  BY <1>1 DEF Have
<1>3. {t \in listed : t > cursor} = {}
  BY <1>1, NewestOK
<1>4. rows \in Seq(listed) /\ Len(rows) = 0
  BY <1>1
<1>5. \A j, k \in 1..Len(rows) : j < k => rows[j] < rows[k]
  BY <1>4
<1>6. cursor \in Int /\ cursor <= Newest
  BY <1>1, NewestOK
<1> QED BY <1>1, <1>2, <1>3, <1>4, <1>5, <1>6 DEF FeedOK

\* The feed of the next state, from the facts about its rows and its cursor.
LEMMA FeedSuccessor ==
  ASSUME MarketOK, listed' = listed,
         feed' \in {"done", "paged", "failed", "paging"}, cursor' \in Int, cursor' <= Newest,
         rows' \in Seq(listed),
         \A j, k \in 1..Len(rows') : j < k => rows'[j] < rows'[k],
         rows' # <<>> => Have' = {t \in listed : t >= rows'[1]},
         feed' = "paging" => Have' = {t \in listed : t > cursor'},
         feed' = "paged" => {t \in listed : t > Newest - HistoryMs} \subseteq Have'
  PROVE  FeedOK'
<1>1. Newest' = Newest
  BY DEF Newest
<1> QED BY <1>1 DEF FeedOK

\* One request for the newest rows (fetch_klines).
LEMMA FetchKlinesOK ==
  ASSUME MarketOK, FeedOK, NEW limit \in Nat \ {0}, FetchKlines(limit)
  PROVE  FeedOK'
<1>1. PICK s : s = Page(Newest, limit)
  OBVIOUS
<1>2. listed' = listed /\ cursor' = cursor /\ rows' = s /\ feed' = "done" /\ cursor = Newest
  BY <1>1 DEF FetchKlines, FeedOK
<1>3. /\ s \in Seq(listed)
      /\ \A j, k \in 1..Len(s) : j < k => s[j] < s[k]
      /\ s # <<>> => {s[k] : k \in 1..Len(s)} = {t \in listed : s[1] <= t /\ t <= Newest}
  <2>1. GoodPage(s, Newest)
    BY <1>1, NewestOK, PageOK
  <2> QED BY <2>1 DEF GoodPage
<1>4. ASSUME s # <<>> PROVE Have' = {t \in listed : t >= s[1]}
  <2>1. Have' = {s[k] : k \in 1..Len(s)}
    BY <1>2, <1>3 DEF Have
  <2>2. s[1] \in listed
    BY <1>3, <1>4
  <2>3. \A t \in listed : (s[1] <= t /\ t <= Newest) <=> t >= s[1]
    BY <2>2, NewestOK
  <2> QED BY <1>3, <1>4, <2>1, <2>3
<1>5. cursor' \in Int /\ cursor' <= Newest
  BY <1>2, NewestOK
<1> QED BY <1>2, <1>3, <1>4, <1>5, FeedSuccessor

\* A page in front of what has been fetched: its rows are the ones up to the cursor
\* (live_feed.py:120-125).
LEMMA FetchPageOK ==
  ASSUME MarketOK, FeedOK, FetchPage
  PROVE  FeedOK'
<1>1. PICK s : s = Page(cursor, Batch)
  OBVIOUS
<1>2. /\ listed' = listed /\ feed = "paging" /\ rows' = s \o rows
      /\ feed' = IF s = <<>> THEN "paged" ELSE "paging"
      /\ cursor' = IF s = <<>> THEN cursor ELSE s[1] - 1
  BY <1>1 DEF FetchPage
<1>3. cursor \in Int /\ cursor <= Newest /\ Have = {t \in listed : t > cursor} /\ rows \in Seq(listed)
  BY <1>2 DEF FeedOK
<1>4. /\ s \in Seq(listed)
      /\ \A j, k \in 1..Len(s) : j < k => s[j] < s[k]
      /\ s # <<>> => {s[k] : k \in 1..Len(s)} = {t \in listed : s[1] <= t /\ t <= cursor}
      /\ s = <<>> => \A t \in listed : ~(t <= cursor)
  <2>1. GoodPage(s, cursor)
    BY <1>1, <1>3, FeedAssumption, PageOK
  <2> QED BY <2>1 DEF GoodPage
<1>5. CASE s = <<>>
  <2>1. rows' = rows /\ cursor' = cursor /\ feed' = "paged"
    BY <1>2, <1>3, <1>5
  <2>2. Have' = Have
    BY <2>1 DEF Have
  <2>3. listed \subseteq Have
    <3>1. \A t \in listed : t \in Nat
      BY NewestOK
    <3> QED BY <1>3, <1>4, <1>5, <3>1
  <2>4. {t \in listed : t > Newest - HistoryMs} \subseteq Have'
    BY <2>2, <2>3
  <2> QED BY <1>2, <1>3, <2>1, <2>2, <2>4, FeedSuccessor DEF FeedOK
<1>6. CASE s # <<>>
  <2>1. PICK n \in Nat, m \in Nat : n = Len(s) /\ m = Len(rows) /\ n # 0
    BY <1>3, <1>4, <1>6
  <2>2. PICK next : next = s \o rows
    OBVIOUS
  <2>3. /\ next \in Seq(listed) /\ Len(next) = n + m
        /\ \A k \in 1..(n + m) : next[k] = IF k <= n THEN s[k] ELSE rows[k - n]
    BY <1>3, <1>4, <2>1, <2>2
  <2>4. 1 \in 1..n /\ 1 \in 1..(n + m) /\ next[1] = s[1] /\ s[1] \in listed
    BY <1>4, <2>1, <2>3
  <2>5. PICK first \in Nat : first = s[1] /\ first <= cursor
    <3>1. s[1] \in {t \in listed : s[1] <= t /\ t <= cursor}
      BY <1>4, <1>6, <2>1, <2>4
    <3> QED BY <3>1, NewestOK
  <2>6. \A k \in 1..n : s[k] \in listed /\ s[k] >= first /\ s[k] <= cursor
    <3>1. \A k \in 1..n : s[k] \in {t \in listed : s[1] <= t /\ t <= cursor}
      BY <1>4, <1>6, <2>1
    <3>2. \A t \in listed : t \in Nat
      BY NewestOK
    <3> QED BY <2>5, <3>1, <3>2
  <2>7. \A k \in 1..m : rows[k] \in listed /\ rows[k] > cursor
    <3>1. \A k \in 1..m : rows[k] \in Have
      BY <1>3, <2>1 DEF Have
    <3> QED BY <1>3, <3>1
  <2>8. \A t \in listed : t \in Nat
    BY NewestOK
  <2>9. Have' = {t \in listed : t >= first}
    <3>1. Have' = {next[k] : k \in 1..(n + m)}
      BY <1>2, <2>2, <2>3 DEF Have
    <3>2. ASSUME NEW k \in 1..(n + m) PROVE next[k] \in listed /\ next[k] >= first
      <4>1. CASE k <= n
        <5>1. k \in 1..n /\ next[k] = s[k]
          BY <2>3, <4>1
        <5> QED BY <2>6, <5>1
      <4>2. CASE ~(k <= n)
        <5>1. k - n \in 1..m /\ next[k] = rows[k - n]
          BY <2>1, <2>3, <4>2
        <5>2. next[k] \in listed /\ next[k] > cursor
          BY <2>7, <5>1
        <5> QED BY <1>3, <2>5, <2>8, <5>2
      <4> QED BY <4>1, <4>2
    <3>3. ASSUME NEW t \in listed, t >= first PROVE \E k \in 1..(n + m) : next[k] = t
      <4>1. CASE t <= cursor
        <5>1. t \in {s[k] : k \in 1..Len(s)}
          BY <1>4, <1>6, <2>5, <2>8, <3>3, <4>1
        <5>2. PICK k \in 1..n : s[k] = t
          BY <2>1, <5>1
        <5>3. k \in 1..(n + m) /\ k <= n
          BY <2>1
        <5> QED BY <2>3, <5>2, <5>3
      <4>2. CASE ~(t <= cursor)
        <5>1. t > cursor
          BY <1>3, <2>8, <4>2
        <5>2. t \in Have
          BY <1>3, <5>1
        <5>3. PICK k \in 1..m : rows[k] = t
          BY <1>3, <2>1, <5>2 DEF Have
        <5>4. k + n \in 1..(n + m) /\ ~(k + n <= n) /\ (k + n) - n = k
          BY <2>1
        <5> QED BY <2>3, <5>3, <5>4
      <4> QED BY <4>1, <4>2
    <3> QED BY <3>1, <3>2, <3>3
  <2>10. ASSUME NEW j \in 1..(n + m), NEW k \in 1..(n + m), j < k PROVE next[j] < next[k]
    <3>1. CASE k <= n
      <4>1. j \in 1..n /\ k \in 1..n /\ j <= n
        BY <2>1, <2>10, <3>1
      <4> QED BY <1>4, <2>1, <2>3, <2>10, <3>1, <4>1
    <3>2. CASE j <= n /\ ~(k <= n)
      <4>1. j \in 1..n /\ k - n \in 1..m
        BY <2>1, <3>2
      <4>2. next[j] = s[j] /\ next[k] = rows[k - n]
        BY <2>3, <3>2
      <4>3. next[j] \in Nat /\ next[k] \in Nat /\ next[j] <= cursor /\ next[k] > cursor
        BY <2>6, <2>7, <2>8, <4>1, <4>2
      <4> QED BY <1>3, <4>3
    <3>3. CASE ~(j <= n) /\ ~(k <= n)
      <4>1. j - n \in 1..m /\ k - n \in 1..m /\ j - n < k - n
        BY <2>1, <2>10, <3>3
      <4>2. next[j] = rows[j - n] /\ next[k] = rows[k - n]
        BY <2>3, <3>3
      <4>3. \A x, y \in 1..m : x < y => rows[x] < rows[y]
        BY <2>1 DEF FeedOK
      <4> QED BY <4>1, <4>2, <4>3
    <3>4. k <= n => j <= n
      BY <2>1, <2>10
    <3> QED BY <3>1, <3>2, <3>3, <3>4
  <2>11. /\ rows' = next /\ rows'[1] = first /\ feed' = "paging" /\ cursor' = first - 1
         /\ cursor' \in Int /\ cursor' <= Newest
    <3>1. first - 1 \in Int /\ first - 1 <= Newest
      BY <1>3, <2>5, NewestOK
    <3> QED BY <1>2, <1>6, <2>2, <2>4, <2>5, <3>1
  <2>12. {t \in listed : t >= first} = {t \in listed : t > first - 1}
    BY <2>5, <2>8
  <2> QED BY <1>2, <2>3, <2>9, <2>10, <2>11, <2>12, FeedSuccessor
<1> QED BY <1>5, <1>6

\* The loop ends because the span is covered.
LEMMA HistoryCoveredOK ==
  ASSUME MarketOK, FeedOK, HistoryCovered
  PROVE  FeedOK'
<1>1. /\ listed' = listed /\ rows' = rows /\ cursor' = cursor /\ feed' = "paged"
      /\ feed = "paging" /\ cursor <= Newest - HistoryMs
  BY DEF HistoryCovered
<1>2. Have' = Have
  BY <1>1 DEF Have
<1>3. {t \in listed : t > Newest - HistoryMs} \subseteq Have'
  <2>1. /\ cursor \in Int /\ Newest \in Nat /\ HistoryMs \in Nat
        /\ \A t \in listed : t \in Nat
    BY NewestOK, FeedAssumption DEF FeedOK
  <2>2. \A t \in listed : t > Newest - HistoryMs => t > cursor
    BY <1>1, <2>1
  <2> QED BY <1>1, <1>2, <2>2 DEF FeedOK
<1> QED BY <1>1, <1>2, <1>3, FeedSuccessor DEF FeedOK

\* A request that fails loses the rows fetched so far.
LEMMA FeedFailsOK ==
  ASSUME MarketOK, FeedOK, FeedFails
  PROVE  FeedOK'
<1>1. listed' = listed /\ rows' = <<>> /\ cursor' = cursor /\ feed' = "failed"
  BY DEF FeedFails
<1>2. rows' \in Seq(listed) /\ Len(rows') = 0
  BY <1>1
<1>3. \A j, k \in 1..Len(rows') : j < k => rows'[j] < rows'[k]
  BY <1>2
<1>4. cursor' \in Int /\ cursor' <= Newest
  BY <1>1 DEF FeedOK
<1> QED BY <1>1, <1>2, <1>3, <1>4, FeedSuccessor

\* The property of the feed follows from its invariant.
LEMMA FeedIsContiguous ==
  ASSUME MarketOK, FeedOK
  PROVE  HistoryIsContiguous
<1>1. \A k \in 1..Len(rows) - 1 : rows[k] < rows[k + 1]
  <2> SUFFICES ASSUME NEW k \in 1..Len(rows) - 1 PROVE rows[k] < rows[k + 1]
    OBVIOUS
  <2>1. PICK n \in Nat : n = Len(rows)
    BY DEF FeedOK
  <2>2. k \in 1..n /\ k + 1 \in 1..n /\ k < k + 1
    BY <2>1
  <2> QED BY <2>1, <2>2 DEF FeedOK
<1> QED BY <1>1 DEF HistoryIsContiguous, Have, FeedOK

-----------------------------------------------------------------------------
(* The drills: the inductive invariant.                                    *)

\* How many candles a model may be old.
Every == IF task = "scale_ml" THEN RetrainEvery ELSE 1

\* How far a score may be ahead of the candle the drill is at.
Ahead == IF task = "live_drill" THEN 1 ELSE 0

\* Where the drill is: enough rows once it runs, the fit within the history.
PhaseOK ==
  /\ phase \in {"fetch", "fit", "walk", "done", "error", "raised"}
  /\ pos \in Nat
  /\ phase \in {"fit", "walk", "done"} => Enough
  /\ phase = "fit" => task = "live_drill" /\ FitFrom <= pos /\ pos <= HistoryCandles - 1
  /\ phase \in {"walk", "done"} /\ task = "live_drill" => pos >= HistoryCandles - 1

CallRecords == [call : Colours, made : Nat, model : Nat]

\* Calls by a model that looked no further than the candle they were made at,
\* and that did not know all three labels.
SoundCalls ==
  {c \in CallRecords : /\ c.model <= c.made
                       /\ task = "live_ml" => LabelColours(c.made) # Colours}

\* The same calls, once the candle after them has scored them.
SoundScores ==
  {d \in [call : Colours, made : Nat, model : Nat, at : Nat] :
     /\ d.model <= d.made /\ d.at = d.made + 1
     /\ task = "live_ml" => LabelColours(d.made) # Colours}

\* The clock since the last fit is exactly the age of the model.
ModelOK ==
  /\ clf \in [labels : SUBSET Colours, seen : Nat] /\ since \in Nat
  /\ phase = "fetch" \/ task = "live_drill" => clf = NoModel /\ pending = None
  /\ clf # NoModel => pos - clf.seen = since /\ pos - Warmup >= Warmup + 2
  /\ pending \in CallRecords
  /\ pending # None => /\ pending \in SoundCalls /\ pending.made = pos
                       /\ pos - pending.model < Every

\* Scores are in order and none is ahead of the walk or of the closed candles.
DecisionsOK ==
  /\ decisions \in Seq(SoundScores)
  /\ phase = "fetch" => decisions = <<>>
  /\ \A k \in 1..Len(decisions) :
       /\ decisions[k].at <= pos + Ahead
       /\ task # "live_drill" => decisions[k].at < Len(rows)
       /\ k > 1 => decisions[k - 1].made < decisions[k].made

Keys == {-1, 1} \X (1..Cardinality(listed)) \X Sizes

\* The last candle the table has learned from.
Learned == IF pos <= HistoryCandles - 1 THEN pos ELSE HistoryCandles - 1

TableOK ==
  /\ table \in [Keys -> [up : Nat, down : Nat]]
  /\ phase = "fetch" => \A key \in Keys : table[key].up = 0 /\ table[key].down = 0
  /\ phase \in {"fit", "walk", "done"} /\ task = "live_drill" =>
       \A key \in Keys, upTo \in Nat : upTo = Learned =>
         /\ table[key].up = Followed(key, 1, upTo)
         /\ table[key].down = Followed(key, -1, upTo)

DrillInv == MarketOK /\ FeedOK /\ PhaseOK /\ ModelOK /\ DecisionsOK /\ TableOK

-----------------------------------------------------------------------------
(* Candles and labels.                                                     *)

\* What the assumption says of each parameter.
LEMMA Parameters ==
  /\ HistoryCandles \in Nat /\ ScoreCandles \in Nat /\ Slack \in Nat /\ ScaleSlack \in Nat
  /\ FitFrom \in Nat /\ Confidence \in Nat /\ Warmup \in Nat /\ MinTrain \in Nat
  /\ RollingWindow \in Nat \ {0} /\ RetrainEvery \in Nat \ {0} /\ HistoryCandles > FitFrom
BY DrillAssumption

\* Every fetched row has a candle.
LEMMA ColourOK ==
  ASSUME MarketOK, FeedOK, NEW p \in 1..Len(rows)
  PROVE  Colour(p) \in Colours /\ candle[rows[p]].size \in Sizes /\ rows[p] \in listed
<1>1. rows \in Seq(listed)
  BY DEF FeedOK
<1>2. rows[p] \in listed
  BY <1>1
<1>3. candle[rows[p]] \in [colour : Colours, size : Sizes]
  BY <1>2 DEF MarketOK
<1> QED BY <1>2, <1>3 DEF Colour

\* The larger of two numbers.
LEMMA MaxOfTwo ==
  ASSUME NEW a \in Int, NEW b \in Int
  PROVE  Max({a, b}) \in Int /\ Max({a, b}) >= a /\ Max({a, b}) >= b /\ Max({a, b}) \in {a, b}
<1>1. \E x \in {a, b} : \A y \in {a, b} : x >= y
  <2>1. CASE a >= b
    BY <2>1
  <2>2. CASE ~(a >= b)
    BY <2>2
  <2> QED BY <2>1, <2>2
<1>2. Max({a, b}) \in {a, b} /\ \A y \in {a, b} : Max({a, b}) >= y
  BY <1>1 DEF Max
<1> QED BY <1>2

\* The labels at a position are an interval that ends there.
LEMMA LabelsOK ==
  ASSUME NEW p \in Nat
  PROVE  \E a \in Nat : a >= 2 /\ Labels(p) = a..p
<1>1. PICK n \in Int : n = p - Warmup
  BY Parameters
<1>2. PICK start \in Int : start = IF task = "scale_ml" THEN Max({0, n - RollingWindow}) ELSE 0
  <2>1. n - RollingWindow \in Int
    BY <1>1, Parameters
  <2>2. Max({0, n - RollingWindow}) \in Int
    <3>1. PICK zero \in Int : zero = 0
      OBVIOUS
    <3>2. Max({zero, n - RollingWindow}) \in Int
      BY <2>1, MaxOfTwo
    <3> QED BY <3>1, <3>2
  <2> QED BY <2>2
<1>3. PICK top \in Int : top = Max({Warmup, start}) /\ top >= Warmup
  <2>1. Warmup \in Int
    BY Parameters
  <2> QED BY <1>2, <2>1, MaxOfTwo
<1>4. Labels(p) = Warmup + top + 2 .. p
  BY <1>1, <1>2, <1>3 DEF Labels
<1>5. Warmup + top + 2 \in Nat /\ Warmup + top + 2 >= 2
  BY <1>3, Parameters
<1> QED BY <1>4, <1>5

\* The last label is the candle at the position itself.
LEMMA NewestLabel ==
  ASSUME NEW p \in Nat, Labels(p) # {}
  PROVE  Max(Labels(p)) = p
<1>1. PICK a \in Nat : Labels(p) = a..p
  BY LabelsOK
<1>2. p \in a..p
  BY <1>1
<1>3. \E x \in a..p : \A y \in a..p : x >= y
  BY <1>2
<1>4. Max(a..p) \in a..p /\ \A y \in a..p : Max(a..p) >= y
  BY <1>3 DEF Max
<1>5. PICK m : m = Max(a..p)
  OBVIOUS
<1>6. m \in a..p /\ m >= p
  BY <1>2, <1>4, <1>5
<1>7. m = p
  BY <1>6
<1> QED BY <1>1, <1>5, <1>7

\* Labels are colours of fetched candles.
LEMMA LabelColoursOK ==
  ASSUME MarketOK, FeedOK, NEW p \in Nat, p <= Len(rows)
  PROVE  LabelColours(p) \in SUBSET Colours
<1>1. PICK a \in Nat : a >= 2 /\ Labels(p) = a..p
  BY LabelsOK
<1>2. PICK n \in Nat : n = Len(rows)
  BY DEF FeedOK
<1>3. \A q \in Labels(p) : q \in 1..Len(rows)
  BY <1>1, <1>2
<1>4. \A q \in Labels(p) : Colour(q) \in Colours
  BY <1>3, ColourOK
<1> QED BY <1>4 DEF LabelColours

\* What is said of the candles is the same while candles and task are.
LEMMA SameCandles ==
  ASSUME listed' = listed, rows' = rows, candle' = candle, task' = task
  PROVE  /\ MarketOK => MarketOK'
         /\ SoundCalls' = SoundCalls /\ SoundScores' = SoundScores
         /\ Keys' = Keys /\ Every' = Every /\ Ahead' = Ahead /\ Enough' = Enough
         /\ \A key, colour, upTo : Followed(key, colour, upTo)' = Followed(key, colour, upTo)
<1>1. MarketOK => MarketOK'
  BY DEF MarketOK
<1>2. \A p : Colour(p)' = Colour(p)
  BY DEF Colour
<1>3. \A p : LabelColours(p)' = LabelColours(p)
  <2>1. \A p : Labels(p)' = Labels(p)
    BY DEF Labels
  <2> QED BY <1>2, <2>1 DEF LabelColours
<1>4. SoundCalls' = SoundCalls
  BY <1>3 DEF SoundCalls
<1>5. SoundScores' = SoundScores
  BY <1>3 DEF SoundScores
<1>6. \A p : Streak(p)' = Streak(p)
  BY <1>2 DEF Streak
<1>7. \A p : Key(p)' = Key(p)
  BY <1>2, <1>6 DEF Key
<1>8. \A key, colour, upTo : Followed(key, colour, upTo)' = Followed(key, colour, upTo)
  BY <1>2, <1>7 DEF Followed
<1>9. Keys' = Keys /\ Every' = Every /\ Ahead' = Ahead /\ Enough' = Enough
  BY DEF Keys, Every, Ahead, Enough
<1> QED BY <1>1, <1>4, <1>5, <1>8, <1>9

\* A position is never beyond the number of candles the venue has listed.
LEMMA RowsBounded ==
  ASSUME MarketOK, FeedOK
  PROVE  Len(rows) \in Nat /\ Cardinality(listed) \in Nat /\ Len(rows) <= Cardinality(listed)
<1>1. PICK n \in Nat : n = Len(rows)
  BY DEF FeedOK
<1>2. IsFiniteSet(listed) /\ Cardinality(listed) \in Nat /\ \A t \in listed : t \in Nat
  BY FS_CardinalityType DEF MarketOK
<1>3. rows \in [1..n -> listed]
  BY <1>1 DEF FeedOK
<1>4. \A j, k \in 1..n : j < k => rows[j] < rows[k]
  BY <1>1 DEF FeedOK
<1>5. ASSUME NEW j \in 1..n, NEW k \in 1..n, rows[j] = rows[k] PROVE j = k
  <2>1. rows[j] \in Nat /\ rows[k] \in Nat
    BY <1>2, <1>3
  <2>2. ~(j < k) /\ ~(k < j)
    BY <1>4, <1>5, <2>1
  <2> QED BY <2>2
<1>6. rows \in Injection(1..n, listed)
  BY <1>3, <1>5 DEF Injection, IsInjective
<1>7. IsFiniteSet(1..n) /\ Cardinality(1..n) = n
  <2>1. PICK one \in Int : one = 1
    OBVIOUS
  <2>2. IsFiniteSet(one..n) /\ Cardinality(one..n) = IF one > n THEN 0 ELSE n - one + 1
    BY FS_Interval
  <2> QED BY <2>1, <2>2
<1>8. Cardinality(1..n) <= Cardinality(listed)
  BY <1>2, <1>6, <1>7, FS_Injection
<1> QED BY <1>1, <1>2, <1>7, <1>8

\* The context of a candle is a row of the table.
LEMMA KeyOK ==
  ASSUME MarketOK, FeedOK, NEW p \in 1..Len(rows), Colour(p) # 0
  PROVE  Key(p) \in Keys
<1>1. p \in Nat /\ p >= 1 /\ p <= Cardinality(listed) /\ Cardinality(listed) \in Nat
  BY RowsBounded
<1>2. Colour(p) \in {-1, 1} /\ candle[rows[p]].size \in Sizes
  BY ColourOK DEF Colours
<1>3. PICK R : R = {n \in 1..p : \A q \in p - n + 1..p : Colour(q) = Colour(p)}
  OBVIOUS
<1>4. Streak(p) = Max(R)
  BY <1>3 DEF Streak
<1>5. 1 \in R
  <2>1. 1 \in 1..p
    BY <1>1
  <2>2. \A q \in p - 1 + 1..p : q = p
    BY <1>1
  <2> QED BY <1>3, <2>1, <2>2
<1>6. R \in SUBSET Nat /\ R \in SUBSET (1..p) /\ IsFiniteSet(R)
  <2>1. R \in SUBSET (1..p)
    BY <1>3
  <2>2. R \in SUBSET Nat
    BY <2>1
  <2>3. IsFiniteSet(1..p)
    <3>1. PICK one \in Int : one = 1
      OBVIOUS
    <3>2. IsFiniteSet(one..p)
      BY <1>1, FS_Interval
    <3> QED BY <3>1, <3>2
  <2> QED BY <2>1, <2>2, <2>3, FS_Subset
<1>7. Max(R) \in R
  BY <1>5, <1>6, MaxOf
<1>8. Streak(p) \in 1..Cardinality(listed)
  <2>1. Streak(p) \in 1..p
    BY <1>4, <1>6, <1>7
  <2> QED BY <1>1, <2>1
<1> QED BY <1>2, <1>8 DEF Key, Keys

\* One more candle adds what it was followed by to its context, and nothing else.
LEMMA FollowedStep ==
  ASSUME NEW key, NEW colour, NEW upTo \in Nat, FitFrom <= upTo
  PROVE  /\ Followed(key, colour, upTo) \in Nat
         /\ Followed(key, colour, upTo + 1) =
              IF /\ Colour(upTo + 1) # 0 /\ Key(upTo + 1) = key
                 /\ Colour((upTo + 1) + 1) = colour
              THEN Followed(key, colour, upTo) + 1
              ELSE Followed(key, colour, upTo)
<1> DEFINE counts(p) == Colour(p) # 0 /\ Key(p) = key /\ Colour(p + 1) = colour
           window(n) == {p \in FitFrom + 1..n : counts(p)}
<1>1. \A n : Followed(key, colour, n) = Cardinality(window(n))
  BY Zenon DEF Followed
<1>2. PICK next \in Nat : next = upTo + 1
  OBVIOUS
<1>3. FitFrom \in Nat
  BY Parameters
<1> HIDE DEF counts
<1>4. IsFiniteSet(window(upTo)) /\ Cardinality(window(upTo)) \in Nat
  <2>1. PICK lo \in Int, hi \in Int : lo = FitFrom + 1 /\ hi = upTo
    BY <1>3
  <2>2. IsFiniteSet(lo..hi)
    BY FS_Interval
  <2>3. window(upTo) \in SUBSET (lo..hi)
    BY <2>1
  <2>4. IsFiniteSet(window(upTo))
    BY <2>2, <2>3, FS_Subset
  <2> QED BY <2>4, FS_CardinalityType
<1>5. next \notin window(upTo)
  BY <1>2, <1>3
<1>6. CASE counts(next)
  <2>1. window(next) = window(upTo) \cup {next}
    BY <1>2, <1>3, <1>6
  <2> HIDE DEF window
  <2>2. Cardinality(window(next)) = Cardinality(window(upTo)) + 1
    BY <1>4, <1>5, <2>1, FS_AddElement
  <2> QED BY <1>1, <1>2, <1>4, <1>6, <2>2 DEF counts
<1>7. CASE ~counts(next)
  <2>1. window(next) = window(upTo)
    BY <1>2, <1>3, <1>7
  <2> HIDE DEF window
  <2> QED BY <1>1, <1>2, <1>4, <1>7, <2>1 DEF counts
<1> QED BY <1>6, <1>7

-----------------------------------------------------------------------------
(* The steps of a drill.                                                   *)

\* A drill starts with an empty table, no model and no call.
LEMMA DrillInitOK ==
  ASSUME DrillInit
  PROVE  DrillInv
<1>1. PICK m \in Markets : task = m.task /\ listed = m.listed /\ candle = m.candle
  BY DEF DrillInit
<1>2. /\ FeedInit /\ phase = "fetch" /\ pos = 0
      /\ table = [key \in Keys |-> [up |-> 0, down |-> 0]]
      /\ clf = NoModel /\ since = 0 /\ pending = None /\ decisions = <<>>
  BY DEF DrillInit, Keys
<1>3. MarketOK
  BY <1>1, DrillAssumption DEF MarketOK
<1>4. FeedOK
  BY <1>2, <1>3, FeedInitOK
<1>5. PhaseOK
  BY <1>2 DEF PhaseOK
<1>6. ModelOK
  BY <1>2 DEF ModelOK, NoModel, None, Call, CallRecords, Colours
<1>7. DecisionsOK
  <2>1. decisions \in Seq(SoundScores) /\ Len(decisions) = 0 /\ decisions = <<>>
    BY <1>2
  <2> QED BY <2>1 DEF DecisionsOK
<1>8. TableOK
  BY <1>2 DEF TableOK
<1> QED BY <1>3, <1>4, <1>5, <1>6, <1>7, <1>8 DEF DrillInv

\* While the rows are being fetched nothing else has happened yet.
LEMMA FetchingOK ==
  ASSUME DrillInv, phase = "fetch", listed' = listed, FeedOK', phase' \in {"fetch", "raised"},
         UNCHANGED <<marketVars, pos, table, mlVars, decisions>>
  PROVE  DrillInv'
<1>1. /\ task' = task /\ candle' = candle /\ pos' = pos /\ table' = table /\ clf' = clf
      /\ since' = since /\ pending' = pending /\ decisions' = decisions
  BY DEF marketVars, mlVars
<1>2. MarketOK'
  BY <1>1 DEF DrillInv, MarketOK
<1>3. PhaseOK'
  BY <1>1 DEF DrillInv, PhaseOK
<1>4. clf = NoModel /\ pending = None /\ decisions = <<>>
  BY DEF DrillInv, ModelOK, DecisionsOK
<1>5. ModelOK'
  BY <1>1, <1>4 DEF DrillInv, ModelOK, CallRecords, None, NoModel
<1>6. DecisionsOK'
  <2>1. decisions' \in Seq(SoundScores') /\ Len(decisions') = 0 /\ decisions' = <<>>
    BY <1>1, <1>4
  <2> QED BY <2>1 DEF DecisionsOK
<1>7. TableOK'
  <2>1. Keys' = Keys
    BY DEF Keys
  <2> QED BY <1>1, <2>1 DEF DrillInv, TableOK
<1> QED BY <1>2, <1>3, <1>5, <1>6, <1>7 DEF DrillInv

\* The fetch of a drill.
LEMMA FetchOK ==
  ASSUME DrillInv, Fetch
  PROVE  DrillInv'
<1>1. MarketOK /\ FeedOK
  BY DEF DrillInv
<1>2. PICK limit \in Nat \ {0} : limit = HistoryCandles + ScoreCandles
  BY Parameters
<1>3. FeedOK'
  BY <1>1, <1>2, FetchKlinesOK, FetchPageOK, HistoryCoveredOK DEF Fetch
<1>4. listed' = listed
  BY DEF Fetch, FetchKlines, FetchPage, HistoryCovered
<1> QED BY <1>3, <1>4, FetchingOK DEF Fetch

\* A fetch that raises ends the drill.
LEMMA FetchRaisesOK ==
  ASSUME DrillInv, FetchRaises
  PROVE  DrillInv'
<1>1. MarketOK /\ FeedOK
  BY DEF DrillInv
<1>2. FeedOK' /\ listed' = listed
  BY <1>1, FeedFailsOK DEF FetchRaises, FeedFails
<1> QED BY <1>2, FetchingOK DEF FetchRaises

\* The feed is left alone after the fetch.
LEMMA SameFeed ==
  ASSUME FeedOK, UNCHANGED feedVars
  PROVE  FeedOK'
<1>1. listed' = listed /\ feed' = feed /\ cursor' = cursor /\ rows' = rows
  BY DEF feedVars
<1>2. Newest' = Newest /\ Have' = Have
  BY <1>1 DEF Newest, Have
<1> QED BY <1>1, <1>2 DEF FeedOK

\* What every later step keeps.
LEMMA Running ==
  ASSUME DrillInv, UNCHANGED <<feedVars, marketVars>>
  PROVE  /\ MarketOK' /\ FeedOK'
         /\ listed' = listed /\ rows' = rows /\ candle' = candle /\ task' = task
         /\ SoundCalls' = SoundCalls /\ SoundScores' = SoundScores
         /\ Keys' = Keys /\ Every' = Every /\ Ahead' = Ahead /\ Enough' = Enough
         /\ \A key, colour, upTo : Followed(key, colour, upTo)' = Followed(key, colour, upTo)
<1>1. listed' = listed /\ rows' = rows /\ candle' = candle /\ task' = task
  BY DEF feedVars, marketVars
<1>2. FeedOK'
  BY SameFeed DEF DrillInv
<1>3. MarketOK'
  BY <1>1, SameCandles DEF DrillInv
<1> QED BY <1>1, <1>2, <1>3, SameCandles

\* Nothing changes.
LEMMA StutterOK ==
  ASSUME DrillInv, UNCHANGED drillVars
  PROVE  DrillInv'
<1>1. /\ UNCHANGED <<feedVars, marketVars>> /\ phase' = phase /\ pos' = pos /\ table' = table
      /\ clf' = clf /\ since' = since /\ pending' = pending /\ decisions' = decisions
  BY DEF drillVars, mlVars
<1>2. PhaseOK'
  BY <1>1, Running DEF DrillInv, PhaseOK
<1>3. ModelOK'
  BY <1>1, Running DEF DrillInv, ModelOK, CallRecords
<1>4. DecisionsOK'
  BY <1>1, Running DEF DrillInv, DecisionsOK
<1>5. TableOK'
  <2>1. Learned' = Learned
    BY <1>1 DEF Learned
  <2> QED BY <1>1, <2>1, Running DEF DrillInv, TableOK
<1> QED BY <1>1, <1>2, <1>3, <1>4, <1>5, Running DEF DrillInv

\* The drill starts with what was fetched, or ends for lack of data.
LEMMA BeginOK ==
  ASSUME DrillInv, Begin
  PROVE  DrillInv'
<1>1. /\ phase = "fetch"
      /\ phase' = IF ~Enough THEN "error" ELSE IF task = "live_drill" THEN "fit" ELSE "walk"
      /\ pos' = IF task = "live_drill" THEN FitFrom ELSE Warmup
      /\ UNCHANGED <<feedVars, marketVars>>
      /\ table' = table /\ clf' = clf /\ since' = since /\ pending' = pending
      /\ decisions' = decisions
  BY DEF Begin, mlVars
<1>2. clf = NoModel /\ pending = None /\ decisions = <<>>
  BY <1>1 DEF DrillInv, ModelOK, DecisionsOK
<1>3. task' = task /\ Enough' = Enough /\ Keys' = Keys
  BY <1>1, Running
<1>4. PhaseOK'
  <2>1. pos' \in Nat
    BY <1>1, Parameters
  <2>2. task = "live_drill" => pos' = FitFrom /\ FitFrom <= pos' /\ pos' <= HistoryCandles - 1
    BY <1>1, Parameters
  <2>3. /\ phase' \in {"error", "fit", "walk"}
        /\ phase' # "error" => Enough
        /\ phase' = "fit" => task = "live_drill"
        /\ phase' = "walk" => task # "live_drill"
    BY <1>1
  <2> QED BY <1>3, <2>1, <2>2, <2>3 DEF PhaseOK
<1>5. ModelOK'
  BY <1>1, <1>2 DEF DrillInv, ModelOK, CallRecords, None, NoModel
<1>6. DecisionsOK'
  <2>1. decisions' \in Seq(SoundScores') /\ Len(decisions') = 0 /\ decisions' = <<>>
    BY <1>1, <1>2
  <2> QED BY <2>1 DEF DecisionsOK
<1>7. TableOK'
  <2>1. ASSUME task = "live_drill", NEW key \in Keys, NEW upTo \in Nat, upTo = Learned'
        PROVE  Followed(key, 1, upTo) = 0 /\ Followed(key, -1, upTo) = 0
    <3>1. upTo = FitFrom
      BY <1>1, <2>1, Parameters DEF Learned
    <3>2. FitFrom + 1..upTo = {}
      BY <3>1
    <3>3. \A colour : Followed(key, colour, upTo) = Cardinality({})
      BY <3>2 DEF Followed
    <3> QED BY <3>3, FS_EmptySet
  <2>2. \A key \in Keys : table'[key].up = 0 /\ table'[key].down = 0
    BY <1>1 DEF DrillInv, TableOK
  <2>3. table' \in [Keys' -> [up : Nat, down : Nat]]
    BY <1>1, <1>3 DEF DrillInv, TableOK
  <2>4. phase' # "fetch"
    BY <1>1
  <2> QED BY <1>1, <1>3, <2>1, <2>2, <2>3, <2>4, Running DEF TableOK
<1> QED BY <1>1, <1>4, <1>5, <1>6, <1>7, Running DEF DrillInv

\* A candle of the fit window adds one observation to its context.
LEMMA FitAccumulateOK ==
  ASSUME DrillInv, phase = "fit", pos < HistoryCandles - 1,
         FitAccumulate(pos + 1, Len(rows))
  PROVE  /\ table' \in [Keys -> [up : Nat, down : Nat]]
         /\ \A key \in Keys : /\ table'[key].up = Followed(key, 1, pos + 1)
                              /\ table'[key].down = Followed(key, -1, pos + 1)
<1>1. MarketOK /\ FeedOK /\ table \in [Keys -> [up : Nat, down : Nat]]
  BY DEF DrillInv, TableOK
<1>2. task = "live_drill" /\ FitFrom <= pos /\ pos \in Nat /\ Enough
  BY DEF DrillInv, PhaseOK
<1>3. PICK len \in Nat : len = Len(rows) /\ len >= HistoryCandles
  BY <1>1, <1>2, RowsBounded, Parameters DEF Enough
<1>4. PICK p \in Nat : p = pos + 1
  BY <1>2
<1>5. ~(p >= len) /\ p \in 1..Len(rows) /\ p + 1 \in 1..Len(rows)
  BY <1>2, <1>3, <1>4, Parameters
<1>6. \A key \in Keys : /\ table[key].up = Followed(key, 1, pos)
                        /\ table[key].down = Followed(key, -1, pos)
  <2>1. pos = Learned
    BY <1>2, Parameters DEF Learned
  <2> QED BY <1>2, <2>1 DEF DrillInv, TableOK
<1> DEFINE counts(key, colour) == Colour(p) # 0 /\ Key(p) = key /\ Colour(p + 1) = colour
<1>7. \A key, colour : /\ Followed(key, colour, pos) \in Nat
                       /\ counts(key, colour) =>
                            Followed(key, colour, p) = Followed(key, colour, pos) + 1
                       /\ ~counts(key, colour) =>
                            Followed(key, colour, p) = Followed(key, colour, pos)
  BY <1>2, <1>4, FollowedStep
<1>8. Colour(p) \in Colours /\ Colour(p + 1) \in Colours
  BY <1>1, <1>5, ColourOK
<1>9. CASE Colour(p) = 0 \/ Colour(p + 1) = 0
  <2>1. table' = table
    BY <1>4, <1>9 DEF FitAccumulate
  <2>2. \A key : ~counts(key, 1) /\ ~counts(key, -1)
    BY <1>9
  <2> HIDE DEF counts
  <2>3. ASSUME NEW key \in Keys
        PROVE  /\ table'[key].up = Followed(key, 1, p)
               /\ table'[key].down = Followed(key, -1, p)
    BY <1>6, <1>7, <2>1, <2>2
  <2> QED BY <1>1, <1>4, <2>1, <2>3
<1>10. CASE Colour(p) # 0 /\ Colour(p + 1) # 0
  <2>1. PICK own \in Keys : own = Key(p)
    BY <1>1, <1>5, <1>10, KeyOK
  <2>2. CASE Colour(p + 1) > 0
    <3>1. Colour(p + 1) = 1
      BY <1>8, <2>2 DEF Colours
    <3>2. table' = [table EXCEPT ![own].up = @ + 1]
      BY <1>3, <1>4, <1>5, <1>10, <2>1, <2>2 DEF FitAccumulate
    <3>3. \A key : ~counts(key, -1) /\ (counts(key, 1) <=> key = own)
      BY <1>10, <2>1, <3>1
    <3> HIDE DEF counts
    <3>4. table' \in [Keys -> [up : Nat, down : Nat]]
      BY <1>1, <3>2
    <3>5. ASSUME NEW key \in Keys
          PROVE  /\ table'[key].up = Followed(key, 1, p)
                 /\ table'[key].down = Followed(key, -1, p)
      <4>1. table[key] \in [up : Nat, down : Nat]
        BY <1>1
      <4>2. CASE key = own
        <5>1. table'[key].up = table[key].up + 1 /\ table'[key].down = table[key].down
          BY <1>1, <3>2, <4>1, <4>2
        <5> QED BY <1>6, <1>7, <3>3, <4>2, <5>1
      <4>3. CASE key # own
        <5>1. table'[key] = table[key]
          BY <1>1, <3>2, <4>3
        <5> QED BY <1>6, <1>7, <3>3, <4>3, <5>1
      <4> QED BY <4>2, <4>3
    <3> QED BY <1>4, <3>4, <3>5
  <2>3. CASE ~(Colour(p + 1) > 0)
    <3>1. Colour(p + 1) = -1
      BY <1>8, <1>10, <2>3 DEF Colours
    <3>2. table' = [table EXCEPT ![own].down = @ + 1]
      BY <1>3, <1>4, <1>5, <1>10, <2>1, <2>3 DEF FitAccumulate
    <3>3. \A key : ~counts(key, 1) /\ (counts(key, -1) <=> key = own)
      BY <1>10, <2>1, <3>1
    <3> HIDE DEF counts
    <3>4. table' \in [Keys -> [up : Nat, down : Nat]]
      BY <1>1, <3>2
    <3>5. ASSUME NEW key \in Keys
          PROVE  /\ table'[key].up = Followed(key, 1, p)
                 /\ table'[key].down = Followed(key, -1, p)
      <4>1. table[key] \in [up : Nat, down : Nat]
        BY <1>1
      <4>2. CASE key = own
        <5>1. table'[key].down = table[key].down + 1 /\ table'[key].up = table[key].up
          BY <1>1, <3>2, <4>1, <4>2
        <5> QED BY <1>6, <1>7, <3>3, <4>2, <5>1
      <4>3. CASE key # own
        <5>1. table'[key] = table[key]
          BY <1>1, <3>2, <4>3
        <5> QED BY <1>6, <1>7, <3>3, <4>3, <5>1
      <4> QED BY <4>2, <4>3
    <3> QED BY <1>4, <3>4, <3>5
  <2> QED BY <2>2, <2>3
<1> QED BY <1>9, <1>10

\* The scores so far stay in order while the drill moves on.
LEMMA DecisionsKept ==
  ASSUME DrillInv, UNCHANGED <<feedVars, marketVars>>, decisions' = decisions,
         phase' # "fetch", pos' \in Nat, pos' >= pos
  PROVE  DecisionsOK'
<1>1. SoundScores' = SoundScores /\ Ahead' = Ahead /\ task' = task /\ rows' = rows
  BY Running
<1>2. DecisionsOK /\ pos \in Nat /\ Ahead \in Nat
  BY DEF DrillInv, PhaseOK, Ahead
<1>3. ASSUME NEW k \in 1..Len(decisions) PROVE decisions[k].at <= pos' + Ahead
  <2>1. decisions[k] \in SoundScores /\ decisions[k].at <= pos + Ahead
    BY <1>2 DEF DecisionsOK
  <2>2. PICK at \in Nat : at = decisions[k].at
    BY <2>1 DEF SoundScores
  <2> QED BY <1>2, <2>1, <2>2
<1> QED BY <1>1, <1>2, <1>3 DEF DecisionsOK

\* One turn of the fit, or its end (next_candle.py:149-150).
LEMMA FitStepOK ==
  ASSUME DrillInv, FitStep
  PROVE  DrillInv'
<1>1. /\ phase = "fit" /\ UNCHANGED <<feedVars, marketVars>>
      /\ clf' = clf /\ since' = since /\ pending' = pending /\ decisions' = decisions
  BY DEF FitStep, mlVars
<1>2. /\ MarketOK' /\ FeedOK' /\ task' = task /\ rows' = rows /\ Enough' = Enough /\ Keys' = Keys
      /\ \A key, colour, upTo : Followed(key, colour, upTo)' = Followed(key, colour, upTo)
  BY <1>1, Running
<1>3. /\ task = "live_drill" /\ FitFrom <= pos /\ pos <= HistoryCandles - 1 /\ pos \in Nat
      /\ Enough /\ HistoryCandles \in Nat /\ FitFrom \in Nat
  BY <1>1, Parameters DEF DrillInv, PhaseOK
<1>4. clf = NoModel /\ pending = None
  BY <1>3 DEF DrillInv, ModelOK
<1>5. ModelOK'
  BY <1>1, <1>4 DEF DrillInv, ModelOK, CallRecords
<1>6. CASE pos < HistoryCandles - 1
  <2>1. FitAccumulate(pos + 1, Len(rows)) /\ pos' = pos + 1 /\ phase' = "fit"
    BY <1>1, <1>6 DEF FitStep
  <2>2. PhaseOK'
    BY <1>2, <1>3, <1>6, <2>1 DEF PhaseOK
  <2>3. TableOK'
    <3>1. Learned' = pos + 1
      BY <1>3, <1>6, <2>1 DEF Learned
    <3>2. /\ table' \in [Keys -> [up : Nat, down : Nat]]
          /\ \A key \in Keys : /\ table'[key].up = Followed(key, 1, pos + 1)
                               /\ table'[key].down = Followed(key, -1, pos + 1)
      BY <1>1, <1>6, <2>1, FitAccumulateOK
    <3>3. ASSUME NEW key \in Keys, NEW upTo \in Nat, upTo = Learned'
          PROVE  /\ table'[key].up = Followed(key, 1, upTo)'
                 /\ table'[key].down = Followed(key, -1, upTo)'
      BY <1>2, <3>1, <3>2, <3>3
    <3> QED BY <1>2, <2>1, <3>2, <3>3 DEF TableOK
  <2>4. DecisionsOK'
    BY <1>1, <1>3, <2>1, DecisionsKept
  <2> QED BY <1>2, <1>5, <2>2, <2>3, <2>4 DEF DrillInv
<1>7. CASE ~(pos < HistoryCandles - 1)
  <2>1. table' = table /\ pos' = pos /\ phase' = "walk"
    BY <1>1, <1>7 DEF FitStep
  <2>2. PhaseOK'
    BY <1>2, <1>3, <1>7, <2>1 DEF PhaseOK
  <2>3. TableOK'
    <3>1. Learned' = Learned
      BY <2>1 DEF Learned
    <3> QED BY <1>1, <1>2, <1>3, <2>1, <3>1 DEF DrillInv, TableOK
  <2>4. DecisionsOK'
    BY <1>1, <1>3, <2>1, DecisionsKept
  <2> QED BY <1>2, <1>5, <2>2, <2>3, <2>4 DEF DrillInv
<1> QED BY <1>6, <1>7

\* The walk has reached the last row.
LEMMA ReportOK ==
  ASSUME DrillInv, Report
  PROVE  DrillInv'
<1>1. /\ phase = "walk" /\ phase' = "done" /\ UNCHANGED <<feedVars, marketVars>>
      /\ pos' = pos /\ table' = table
      /\ clf' = clf /\ since' = since /\ pending' = pending /\ decisions' = decisions
  BY DEF Report, mlVars
<1>2. PhaseOK'
  BY <1>1, Running DEF DrillInv, PhaseOK
<1>3. ModelOK'
  BY <1>1, Running DEF DrillInv, ModelOK, CallRecords
<1>4. DecisionsOK'
  BY <1>1, DecisionsKept DEF DrillInv, PhaseOK
<1>5. TableOK'
  <2>1. Learned' = Learned
    BY <1>1 DEF Learned
  <2> QED BY <1>1, <2>1, Running DEF DrillInv, TableOK
<1> QED BY <1>1, <1>2, <1>3, <1>4, <1>5, Running DEF DrillInv

\* A call is scored: by the candle after the one it was made at, which comes
\* after every candle that has scored a call before.
LEMMA ScoredOK ==
  ASSUME DrillInv, UNCHANGED <<feedVars, marketVars>>, phase' # "fetch",
         pos' \in Nat, pos' >= pos,
         NEW p \in Nat, p > pos + Ahead, p <= pos' + Ahead,
         task # "live_drill" => p < Len(rows),
         NEW d \in CallRecords, d # None => d \in SoundCalls /\ d.made + 1 = p,
         decisions' = decisions \o Scored(d, p)
  PROVE  DecisionsOK'
<1>1. SoundScores' = SoundScores /\ Ahead' = Ahead /\ task' = task /\ rows' = rows
  BY Running
<1>2. DecisionsOK /\ pos \in Nat /\ Ahead \in Nat
  BY DEF DrillInv, PhaseOK, Ahead
<1>3. decisions \in Seq(SoundScores)
  BY <1>2 DEF DecisionsOK
<1>4. CASE d = None \/ Colour(p) = 0
  <2>1. Scored(d, p) = <<>>
    BY <1>4 DEF Scored
  <2>2. decisions' = decisions
    BY <1>3, <2>1
  <2> QED BY <2>2, DecisionsKept
<1>5. CASE ~(d = None \/ Colour(p) = 0)
  <2>1. PICK x : x = [call |-> d.call, made |-> d.made, model |-> d.model, at |-> p]
    OBVIOUS
  <2>2. Scored(d, p) = <<x>>
    BY <1>5, <2>1 DEF Scored
  <2>3. d \in SoundCalls /\ d.made + 1 = p
    BY <1>5
  <2>4. x \in SoundScores
    BY <2>1, <2>3 DEF SoundScores, SoundCalls, CallRecords
  <2>5. PICK n \in Nat : n = Len(decisions)
    BY <1>3
  <2>6. PICK next : next = decisions \o <<x>>
    OBVIOUS
  <2>7. /\ next \in Seq(SoundScores) /\ Len(next) = n + 1 /\ next[n + 1] = x
        /\ \A k \in 1..n : next[k] = decisions[k]
    BY <1>3, <2>4, <2>5, <2>6
  <2>8. \A k \in 1..n : /\ decisions[k] \in SoundScores /\ decisions[k].at <= pos + Ahead
                        /\ task # "live_drill" => decisions[k].at < Len(rows)
                        /\ k > 1 => decisions[k - 1].made < decisions[k].made
    BY <1>2, <2>5 DEF DecisionsOK
  <2>9. \A y \in SoundScores : y.at \in Nat /\ y.made \in Nat /\ y.at = y.made + 1
    BY DEF SoundScores
  <2>10. x.at = p /\ x.made = d.made /\ d.made \in Nat /\ p = d.made + 1
    BY <2>1, <2>3 DEF CallRecords
  <2>11. ASSUME NEW k \in 1..(n + 1)
         PROVE  /\ next[k].at <= pos' + Ahead
                /\ task # "live_drill" => next[k].at < Len(rows)
                /\ k > 1 => next[k - 1].made < next[k].made
    <3>1. CASE k \in 1..n
      <4>1. next[k] = decisions[k] /\ next[k].at \in Nat
        BY <2>7, <2>8, <2>9, <3>1
      <4>2. next[k].at <= pos' + Ahead
        BY <1>2, <2>8, <3>1, <4>1
      <4>3. k > 1 => k - 1 \in 1..n
        BY <3>1
      <4> QED BY <2>7, <2>8, <3>1, <4>1, <4>2, <4>3
    <3>2. CASE k = n + 1
      <4>1. next[k] = x
        BY <2>7, <3>2
      <4>2. ASSUME k > 1 PROVE next[k - 1].made < x.made
        <5>1. k - 1 \in 1..n
          BY <3>2, <4>2
        <5>2. PICK y \in SoundScores : y = next[k - 1] /\ y.at <= pos + Ahead
          BY <2>7, <2>8, <5>1
        <5>3. PICK at \in Nat, made \in Nat : at = y.at /\ made = y.made /\ at = made + 1
          BY <2>9
        <5>4. PICK bound \in Nat : bound = pos + Ahead
          BY <1>2
        <5>5. at <= bound /\ p > bound
          BY <5>2, <5>3, <5>4
        <5>6. made < d.made
          BY <2>10, <5>3, <5>5
        <5> QED BY <2>10, <5>2, <5>3, <5>6
      <4> QED BY <2>10, <4>1, <4>2
    <3> QED BY <3>1, <3>2
  <2>12. decisions' = next
    BY <2>2, <2>6
  <2> QED BY <1>1, <2>7, <2>11, <2>12 DEF DecisionsOK
<1> QED BY <1>4, <1>5

\* A call of the table drill: the table ends with the history it was fitted on.
LEMMA PredictOK ==
  ASSUME NEW p \in Nat, task = "live_drill", HistoryCandles <= p
  PROVE  /\ Predict(p) \in CallRecords
         /\ Predict(p) # None => Predict(p) \in SoundCalls /\ Predict(p).made = p
<1>1. Predict(p) \in {None, Call(1, p, HistoryCandles), Call(-1, p, HistoryCandles)}
  BY Zenon DEF Predict
<1>2. None \in CallRecords
  BY DEF None, Call, CallRecords, Colours
<1>3. \A colour \in {-1, 1} : /\ Call(colour, p, HistoryCandles) \in CallRecords
                              /\ Call(colour, p, HistoryCandles).made = p
                              /\ Call(colour, p, HistoryCandles).model = HistoryCandles
  BY Parameters DEF Call, CallRecords, Colours
<1>4. \A colour \in {-1, 1} : Call(colour, p, HistoryCandles) \in SoundCalls
  BY <1>3 DEF SoundCalls
<1> QED BY <1>1, <1>2, <1>3, <1>4

\* One turn of the scoring loop of the table drill (next_candle.py:152-156).
LEMMA DrillStepOK ==
  ASSUME DrillInv, DrillStep
  PROVE  DrillInv'
<1>1. /\ phase = "walk" /\ task = "live_drill" /\ UNCHANGED <<feedVars, marketVars>>
      /\ phase' = phase /\ clf' = clf /\ since' = since /\ pending' = pending
      /\ pos' = pos + 1 /\ FitAccumulate(pos + 1, pos + 1)
      /\ decisions' = decisions \o Scored(Predict(pos + 1), (pos + 1) + 1)
  BY DEF DrillStep, mlVars
<1>2. /\ MarketOK' /\ FeedOK' /\ task' = task /\ rows' = rows /\ Enough' = Enough /\ Keys' = Keys
      /\ \A key, colour, upTo : Followed(key, colour, upTo)' = Followed(key, colour, upTo)
  BY <1>1, Running
<1>3. pos \in Nat /\ pos >= HistoryCandles - 1 /\ Enough /\ HistoryCandles \in Nat
  BY <1>1, Parameters DEF DrillInv, PhaseOK
<1>4. PhaseOK'
  BY <1>1, <1>2, <1>3 DEF PhaseOK
<1>5. ModelOK'
  <2>1. clf = NoModel /\ pending = None
    BY <1>1 DEF DrillInv, ModelOK
  <2> QED BY <1>1, <2>1 DEF DrillInv, ModelOK, CallRecords
<1>6. TableOK'
  <2>1. table' = table
    BY <1>1, <1>3 DEF FitAccumulate
  <2>2. Learned = HistoryCandles - 1 /\ Learned' = HistoryCandles - 1
    BY <1>1, <1>3 DEF Learned
  <2>3. Learned' = Learned
    BY <2>2
  <2> QED BY <1>1, <1>2, <2>1, <2>3 DEF DrillInv, TableOK
<1>7. DecisionsOK'
  <2>1. PICK p \in Nat : p = pos + 1
    BY <1>3
  <2>2. PICK q \in Nat : q = p + 1
    BY <2>1
  <2>3. HistoryCandles <= p
    BY <1>3, <2>1
  <2>4. PICK d : d = Predict(p)
    OBVIOUS
  <2>5. d \in CallRecords /\ (d # None => d \in SoundCalls /\ d.made = p)
    BY <1>1, <2>3, <2>4, PredictOK
  <2>6. Ahead = 1
    BY <1>1 DEF Ahead
  <2>7. q > pos + Ahead /\ q <= pos' + Ahead /\ pos' \in Nat /\ pos' >= pos
    BY <1>1, <1>3, <2>1, <2>2, <2>6
  <2>8. decisions' = decisions \o Scored(d, q)
    BY <1>1, <2>1, <2>2, <2>4
  <2> QED BY <1>1, <2>2, <2>5, <2>7, <2>8, ScoredOK
<1> QED BY <1>2, <1>4, <1>5, <1>6, <1>7 DEF DrillInv

\* A call of a model that has been asked at p: what becomes of `pending`.
LEMMA QueryOK ==
  ASSUME NEW p \in Nat, NEW model \in [labels : SUBSET Colours, seen : Nat],
         Query(model, p), model.seen <= p,
         task = "live_ml" => model.labels = LabelColours(p)
  PROVE  /\ pending' \in CallRecords
         /\ pending' # None => /\ pending' \in SoundCalls /\ pending'.made = p
                               /\ pending'.model = model.seen
         /\ phase' \in {phase, "raised"}
<1>1. None \in CallRecords
  BY DEF None, Call, CallRecords, Colours
<1>2. CASE pending' = None
  BY <1>1, <1>2 DEF Query
<1>3. CASE pending' # None
  <2>1. PICK colour \in {-1, 1} : pending' = Call(colour, p, model.seen)
    BY <1>3 DEF Query
  <2>2. ~Silent(model) /\ phase' = phase
    BY <1>3 DEF Query
  <2>3. /\ pending' \in CallRecords /\ pending'.made = p /\ pending'.model = model.seen
    BY <2>1 DEF Call, CallRecords, Colours
  <2>4. task = "live_ml" => LabelColours(p) # Colours
    BY <2>2 DEF Silent
  <2>5. pending' \in SoundCalls
    BY <2>3, <2>4 DEF SoundCalls
  <2> QED BY <2>2, <2>3, <2>5
<1> QED BY <1>2, <1>3

\* One step of the classifier: warm-up, a fit that fails, a fit that succeeds, or no fit
\* due (ml.py:154-185).
LEMMA MLStepOK ==
  ASSUME DrillInv, MLStep
  PROVE  DrillInv'
<1>1. PICK p : p = pos + 1
  OBVIOUS
<1>2. /\ phase = "walk" /\ task # "live_drill" /\ pos < Len(rows) - 1
      /\ UNCHANGED <<feedVars, marketVars>> /\ table' = table
      /\ decisions' = decisions \o Scored(pending, p) /\ pos' = p
      /\ \/ p - Warmup < Warmup + 2 /\ pending' = None /\ UNCHANGED <<clf, since, phase>>
         \/ /\ p - Warmup >= Warmup + 2
            /\ \/ Retrain /\ Untrained(p) /\ UNCHANGED phase
               \/ Retrain /\ Refit(p) /\ Query(clf', p)
               \/ ~Retrain /\ UNCHANGED clf /\ since' = since + 1 /\ Query(clf, p)
  BY <1>1 DEF MLStep
<1>3. /\ MarketOK /\ FeedOK /\ MarketOK' /\ FeedOK'
      /\ task' = task /\ rows' = rows /\ Enough' = Enough /\ Keys' = Keys
      /\ SoundCalls' = SoundCalls /\ Every' = Every
  BY <1>2, Running DEF DrillInv
<1>4. PICK n \in Nat : n = Len(rows)
  BY <1>3, RowsBounded
<1>5. /\ pos \in Nat /\ Enough /\ p \in Nat /\ p < n /\ p <= n
  BY <1>1, <1>2, <1>4 DEF DrillInv, PhaseOK
<1>6. /\ clf \in [labels : SUBSET Colours, seen : Nat] /\ since \in Nat
      /\ clf # NoModel => pos - clf.seen = since /\ pos - Warmup >= Warmup + 2
      /\ pending \in CallRecords
      /\ pending # None => pending \in SoundCalls /\ pending.made = pos
  BY DEF DrillInv, ModelOK
<1>7. Warmup \in Nat /\ RetrainEvery \in Nat \ {0}
  BY Parameters
<1>8. Every \in Nat /\ Every >= 1 /\ (task = "live_ml" => Every = 1)
  BY <1>7 DEF Every
<1>9. None \in CallRecords
  BY DEF None, Call, CallRecords, Colours
<1> DEFINE goal == /\ phase' \in {"walk", "raised"}
                   /\ clf' \in [labels : SUBSET Colours, seen : Nat] /\ since' \in Nat
                   /\ clf' # NoModel => p - clf'.seen = since' /\ p - Warmup >= Warmup + 2
                   /\ pending' \in CallRecords
                   /\ pending' # None => /\ pending' \in SoundCalls /\ pending'.made = p
                                         /\ p - pending'.model < Every
<1>10. ASSUME p - Warmup < Warmup + 2, pending' = None, UNCHANGED <<clf, since, phase>>
       PROVE  goal
  <2>1. clf = NoModel
    BY <1>1, <1>5, <1>6, <1>7, <1>10
  <2> QED BY <1>2, <1>6, <1>9, <1>10, <2>1
<1>11. ASSUME p - Warmup >= Warmup + 2, Untrained(p), UNCHANGED phase
       PROVE  goal
  <2>1. clf' = clf /\ since' = since + 1 /\ pending' = None
    BY <1>11 DEF Untrained
  <2>2. clf # NoModel => p - clf.seen = since + 1
    <3>1. clf.seen \in Nat
      BY <1>6
    <3> QED BY <1>1, <1>5, <1>6, <3>1
  <2> QED BY <1>2, <1>6, <1>9, <1>11, <2>1, <2>2
<1>12. ASSUME p - Warmup >= Warmup + 2, Refit(p), Query(clf', p)
       PROVE  goal
  <2>1. /\ Cardinality(LabelColours(p)) >= 2 /\ since' = 0
        /\ clf' = [labels |-> LabelColours(p), seen |-> Max(Labels(p))]
    BY <1>12 DEF Refit
  <2>2. Labels(p) # {}
    <3> SUFFICES ASSUME Labels(p) = {} PROVE FALSE
      OBVIOUS
    <3>1. LabelColours(p) = {}
      BY DEF LabelColours
    <3>2. Cardinality(LabelColours(p)) = 0
      BY <3>1, FS_EmptySet
    <3> QED BY <2>1, <3>2
  <2>3. Max(Labels(p)) = p
    BY <1>5, <2>2, NewestLabel
  <2>4. LabelColours(p) \in SUBSET Colours
    BY <1>3, <1>4, <1>5, LabelColoursOK
  <2>5. PICK model : model = [labels |-> LabelColours(p), seen |-> p]
    OBVIOUS
  <2>6. /\ model \in [labels : SUBSET Colours, seen : Nat] /\ model = clf'
        /\ model.seen = p /\ model.labels = LabelColours(p)
    BY <1>5, <2>1, <2>3, <2>4, <2>5
  <2>7. Query(model, p)
    BY <1>12, <2>6
  <2>8. /\ pending' \in CallRecords
        /\ pending' # None => /\ pending' \in SoundCalls /\ pending'.made = p
                              /\ pending'.model = p
        /\ phase' \in {phase, "raised"}
    BY <1>5, <2>6, <2>7, QueryOK
  <2>9. p - p = 0 /\ p - p < Every
    BY <1>5, <1>8
  <2> QED BY <1>2, <1>12, <2>1, <2>6, <2>8, <2>9
<1>13. ASSUME p - Warmup >= Warmup + 2, ~Retrain, clf' = clf, since' = since + 1, Query(clf, p)
       PROVE  goal
  <2>1. clf # NoModel /\ ~(since + 1 >= Every)
    BY <1>13 DEF Retrain, Every
  <2>2. PICK seen \in Nat : seen = clf.seen
    BY <1>6
  <2>3. p - seen = since + 1 /\ seen <= p /\ p - seen < Every /\ since + 1 \in Nat
    BY <1>1, <1>5, <1>6, <1>8, <2>1, <2>2
  <2>4. task # "live_ml"
    BY <1>6, <1>8, <2>1
  <2>5. /\ pending' \in CallRecords
        /\ pending' # None => /\ pending' \in SoundCalls /\ pending'.made = p
                              /\ pending'.model = seen
        /\ phase' \in {phase, "raised"}
    BY <1>5, <1>6, <1>13, <2>2, <2>3, <2>4, QueryOK
  <2> QED BY <1>2, <1>6, <1>13, <2>2, <2>3, <2>5
<1>14. goal
  BY <1>2, <1>10, <1>11, <1>12, <1>13
<1>15. PhaseOK'
  BY <1>2, <1>3, <1>5, <1>14 DEF PhaseOK
<1>16. ModelOK'
  BY <1>2, <1>3, <1>14 DEF ModelOK, CallRecords
<1>17. DecisionsOK'
  <2>1. Ahead = 0
    BY <1>2 DEF Ahead
  <2>2. p > pos + Ahead /\ p <= pos' + Ahead /\ pos' \in Nat /\ pos' >= pos
    BY <1>1, <1>2, <1>5, <2>1
  <2>3. PICK d \in CallRecords : d = pending
    BY <1>6
  <2>4. d # None => d \in SoundCalls /\ d.made + 1 = p
    BY <1>1, <1>6, <2>3
  <2>5. decisions' = decisions \o Scored(d, p) /\ phase' # "fetch" /\ p < Len(rows)
    BY <1>2, <1>4, <1>5, <1>14, <2>3
  <2> QED BY <1>2, <1>5, <2>2, <2>4, <2>5, ScoredOK
<1>18. TableOK'
  BY <1>2, <1>3, <1>14 DEF DrillInv, TableOK
<1> QED BY <1>3, <1>15, <1>16, <1>17, <1>18 DEF DrillInv

-----------------------------------------------------------------------------
(* The theorems.                                                           *)

\* The inductive invariant of a drill, whatever the venue has listed
\* (live_feed.py:80-126, next_candle.py:61-164, ml.py:100-278).
THEOREM DrillInvariant == DrillSpec => []DrillInv
<1>1. DrillInit => DrillInv
  BY DrillInitOK
<1>2. DrillInv /\ [DrillNext]_drillVars => DrillInv'
  <2> SUFFICES ASSUME DrillInv, [DrillNext]_drillVars PROVE DrillInv'
    OBVIOUS
  <2>1. CASE Fetch
    BY <2>1, FetchOK
  <2>2. CASE Begin
    BY <2>2, BeginOK
  <2>3. CASE FitStep
    BY <2>3, FitStepOK
  <2>4. CASE DrillStep
    BY <2>4, DrillStepOK
  <2>5. CASE MLStep
    BY <2>5, MLStepOK
  <2>6. CASE Report
    BY <2>6, ReportOK
  <2>7. CASE FetchRaises
    BY <2>7, FetchRaisesOK
  <2>8. CASE UNCHANGED drillVars
    BY <2>8, StutterOK
  <2> QED BY <2>1, <2>2, <2>3, <2>4, <2>5, <2>6, <2>7, <2>8 DEF DrillNext, DrillStepAny
<1> QED BY <1>1, <1>2, PTL DEF DrillSpec

\* What a drill has fetched is the venue's history without a hole or a repeated
\* row, and a paged fetch that has ended, on an empty page or past its span, has
\* every listed row of the span, for every page size, span and pattern of
\* outages (live_feed.py:98-126).
THEOREM DrillHistory == DrillSpec => []HistoryIsContiguous
<1>1. DrillInv => HistoryIsContiguous
  BY FeedIsContiguous DEF DrillInv
<1> QED BY <1>1, DrillInvariant, PTL

\* No drill looks ahead: every score is of a call by a model that had seen
\* nothing beyond the candle the call was made at, and the classifier is never
\* scored by the candle that is still forming (ml.py:154-185, 231, 265;
\* next_candle.py:149-156).
THEOREM DrillWalkForward == DrillSpec => []WalkForward
<1>1. DrillInv => WalkForward
  <2> SUFFICES ASSUME DrillInv, NEW k \in DOMAIN decisions
               PROVE  /\ decisions[k].at = decisions[k].made + 1
                      /\ decisions[k].model <= decisions[k].made
                      /\ k > 1 => decisions[k - 1].made < decisions[k].made
                      /\ task # "live_drill" => rows[decisions[k].at] # Newest
    BY DEF WalkForward
  <2>1. /\ decisions \in Seq(SoundScores) /\ MarketOK /\ FeedOK
        /\ \A j \in 1..Len(decisions) :
             /\ task # "live_drill" => decisions[j].at < Len(rows)
             /\ j > 1 => decisions[j - 1].made < decisions[j].made
    BY DEF DrillInv, DecisionsOK
  <2>2. k \in 1..Len(decisions)
    BY <2>1
  <2>3. decisions[k] \in SoundScores
    BY <2>1, <2>2
  <2>4. PICK at \in Nat : at = decisions[k].at /\ at >= 1
    BY <2>3 DEF SoundScores
  <2>5. ASSUME task # "live_drill" PROVE rows[at] # Newest
    <3>1. PICK n \in Nat : n = Len(rows)
      BY <2>1, RowsBounded
    <3>2. at < n
      BY <2>1, <2>2, <2>4, <2>5, <3>1
    <3>3. at \in 1..n /\ n \in 1..n
      BY <2>4, <3>1, <3>2
    <3>4. rows[at] < rows[n]
      BY <2>1, <3>1, <3>2, <3>3 DEF FeedOK
    <3>5. rows[at] \in listed /\ rows[n] \in listed
      BY <2>1, <3>1, <3>3, ColourOK
    <3>6. rows[at] \in Nat /\ rows[n] \in Nat /\ rows[n] <= Newest /\ Newest \in Nat
      BY <2>1, <3>5, NewestOK
    <3> QED BY <3>4, <3>6
  <2> QED BY <2>1, <2>2, <2>3, <2>4, <2>5 DEF SoundScores
<1> QED BY <1>1, DrillInvariant, PTL

\* No call comes from a model older than the retrain interval, whichever of the
\* re-fits that were due have failed (ml.py:169-179).
THEOREM DrillFreshModel == DrillSpec => []FreshModel
<1>1. DrillInv => FreshModel
  BY DEF DrillInv, ModelOK, FreshModel, Every
<1> QED BY <1>1, DrillInvariant, PTL

\* The live classifier never scores a call made when its labels held a doji and
\* both colours (ml.py:121-125, 187-196).
THEOREM DrillThreeColours == DrillSpec => []ThreeColoursSilence
<1>1. DrillInv => ThreeColoursSilence
  <2> SUFFICES ASSUME DrillInv, task = "live_ml", NEW k \in DOMAIN decisions
               PROVE  LabelColours(decisions[k].made) # Colours
    BY DEF ThreeColoursSilence
  <2>1. decisions[k] \in SoundScores
    BY DEF DrillInv, DecisionsOK
  <2> QED BY <2>1 DEF SoundScores
<1> QED BY <1>1, DrillInvariant, PTL

\* Observations only add up.
LEMMA FollowedGrows ==
  ASSUME NEW key, NEW colour, NEW a \in Nat, NEW b \in Nat, a <= b
  PROVE  /\ Followed(key, colour, a) \in Nat /\ Followed(key, colour, b) \in Nat
         /\ Followed(key, colour, a) <= Followed(key, colour, b)
<1> DEFINE upTo(n) == {p \in FitFrom + 1..n :
                         Colour(p) # 0 /\ Key(p) = key /\ Colour(p + 1) = colour}
<1>1. FitFrom + 1 \in Nat
  BY Parameters
<1>2. IsFiniteSet(FitFrom + 1..b)
  BY <1>1, FS_Interval
<1>3. upTo(a) \in SUBSET upTo(b) /\ upTo(b) \in SUBSET (FitFrom + 1..b)
  BY <1>1
<1>4. IsFiniteSet(upTo(b))
  BY <1>2, <1>3, FS_Subset
<1> HIDE DEF upTo
<1>5. /\ Cardinality(upTo(a)) \in Nat /\ Cardinality(upTo(b)) \in Nat
      /\ Cardinality(upTo(a)) <= Cardinality(upTo(b))
  BY <1>3, <1>4, FS_Subset, FS_CardinalityType
<1> QED BY <1>5 DEF Followed, upTo

\* The table counts every transition of the fit window once, and no call is
\* made from a table that counts a candle later than the one it is made at
\* (next_candle.py:5-7, 70-86, 149-156).
THEOREM DrillTable == DrillSpec => []TableIsPointInTime
<1>1. DrillInv => TableIsPointInTime
  <2> SUFFICES ASSUME DrillInv, phase \in {"fit", "walk", "done"}, task = "live_drill",
                      NEW key \in DOMAIN table, NEW fitted, NEW seen,
                      fitted = Min({pos, HistoryCandles - 1}), seen = Max({fitted, pos - 1})
               PROVE  /\ table[key].up   \in Followed(key, 1, fitted)..Followed(key, 1, seen)
                      /\ table[key].down \in Followed(key, -1, fitted)..Followed(key, -1, seen)
    BY DEF TableIsPointInTime
  <2>1. pos \in Nat /\ HistoryCandles - 1 \in Nat
    BY Parameters DEF DrillInv, PhaseOK
  <2>2. key \in Keys /\ table[key] \in [up : Nat, down : Nat]
    BY DEF DrillInv, TableOK
  <2>3. fitted = Learned /\ fitted \in Nat
    <3>1. Learned \in {pos, HistoryCandles - 1} /\ \A y \in {pos, HistoryCandles - 1} : Learned <= y
      BY <2>1 DEF Learned
    <3>2. fitted \in {pos, HistoryCandles - 1} /\ \A y \in {pos, HistoryCandles - 1} : fitted <= y
      BY <2>1, <3>1 DEF Min
    <3> QED BY <2>1, <3>1, <3>2
  <2>4. seen \in Nat /\ fitted <= seen
    <3>1. PICK top \in {fitted, pos - 1} : \A y \in {fitted, pos - 1} : top >= y
      BY <2>1, <2>3
    <3>2. seen \in {fitted, pos - 1} /\ \A y \in {fitted, pos - 1} : seen >= y
      BY <3>1 DEF Max
    <3> QED BY <2>1, <2>3, <3>2
  <2>5. table[key].up = Followed(key, 1, fitted) /\ table[key].down = Followed(key, -1, fitted)
    BY <2>2, <2>3 DEF DrillInv, TableOK
  <2>6. /\ Followed(key, 1, fitted) \in Nat /\ Followed(key, 1, seen) \in Nat
        /\ Followed(key, 1, fitted) <= Followed(key, 1, seen)
    BY <2>3, <2>4, FollowedGrows
  <2>7. PICK red : red = -1
    OBVIOUS
  <2>8. /\ Followed(key, red, fitted) \in Nat /\ Followed(key, red, seen) \in Nat
        /\ Followed(key, red, fitted) <= Followed(key, red, seen)
    BY <2>3, <2>4, FollowedGrows
  <2> QED BY <2>5, <2>6, <2>7, <2>8
<1> QED BY <1>1, DrillInvariant, PTL

-----------------------------------------------------------------------------
(* Progress.  DrillEnds itself needs fairness and stays with TLC; that a   *)
(* drill cannot go on for ever is a fact about its steps.                  *)

\* The stages ahead of a drill: fetch, fit, walk.
StagesLeft ==
  IF phase = "fetch" THEN 3 ELSE IF phase = "fit" THEN 2 ELSE IF phase = "walk" THEN 1 ELSE 0

\* A bound on the requests ahead of a fetch: a page that is not empty moves the
\* cursor back by at least one candle.
RequestsLeft ==
  IF feed = "once" THEN 1
  ELSE IF feed # "paging" THEN 0
  ELSE IF cursor <= Newest - HistoryMs THEN 1 ELSE cursor - (Newest - HistoryMs) + 1

\* The turns ahead of the loop the drill is in.
TurnsLeft ==
  IF phase = "fetch" THEN RequestsLeft
  ELSE IF phase = "fit" THEN HistoryCandles - 1 - pos
  ELSE IF pos <= Len(rows) THEN Len(rows) - pos ELSE 0

\* A step ends a stage or takes one turn of its loop.
Advances == StagesLeft' < StagesLeft \/ (StagesLeft' = StagesLeft /\ TurnsLeft' < TurnsLeft)

\* Both counts are natural numbers, so neither can fall for ever.
LEMMA CountsOK ==
  ASSUME DrillInv
  PROVE  StagesLeft \in Nat /\ TurnsLeft \in Nat
<1>1. /\ cursor \in Int /\ pos \in Nat /\ Newest \in Nat /\ HistoryMs \in Nat /\ HistoryCandles \in Nat
      /\ phase = "fit" => pos <= HistoryCandles - 1
  BY NewestOK, FeedAssumption, Parameters DEF DrillInv, FeedOK, PhaseOK
<1>2. PICK n \in Nat : n = Len(rows)
  BY DEF DrillInv, FeedOK
<1>3. RequestsLeft \in Nat
  BY <1>1 DEF RequestsLeft
<1>4. StagesLeft \in Nat
  BY DEF StagesLeft
<1>5. CASE phase = "fetch"
  BY <1>3, <1>4, <1>5 DEF TurnsLeft
<1>6. CASE phase = "fit"
  BY <1>1, <1>4, <1>6 DEF TurnsLeft
<1>7. CASE phase \notin {"fetch", "fit"}
  <2>1. TurnsLeft = IF pos <= n THEN n - pos ELSE 0
    BY <1>2, <1>7 DEF TurnsLeft
  <2> QED BY <1>1, <1>2, <1>4, <2>1
<1> QED BY <1>5, <1>6, <1>7

\* A request of the fetch: it is the last one, or the page moves the cursor
\* back (live_feed.py:118-126).
LEMMA FetchAdvances ==
  ASSUME DrillInv, Fetch
  PROVE  Advances
<1>1. phase = "fetch" /\ phase' = "fetch"
  BY DEF Fetch
<1>2. /\ cursor \in Int /\ Newest \in Nat /\ HistoryMs \in Nat
      /\ \A t \in listed : t \in Nat
  BY NewestOK, FeedAssumption DEF DrillInv, FeedOK
<1>3. /\ StagesLeft = 3 /\ StagesLeft' = 3
      /\ TurnsLeft = RequestsLeft /\ TurnsLeft' = RequestsLeft'
  BY <1>1 DEF StagesLeft, TurnsLeft
<1>4. SUFFICES RequestsLeft' < RequestsLeft
  BY <1>3 DEF Advances
<1>5. CASE FetchKlines(HistoryCandles + ScoreCandles)
  BY <1>5 DEF FetchKlines, RequestsLeft
<1>6. CASE HistoryCovered
  BY <1>6 DEF HistoryCovered, RequestsLeft
<1>7. CASE FetchPage
  <2>1. PICK s : s = Page(cursor, Batch)
    OBVIOUS
  <2>2. /\ listed' = listed /\ feed = "paging" /\ cursor > Newest - HistoryMs
        /\ feed' = IF s = <<>> THEN "paged" ELSE "paging"
        /\ cursor' = IF s = <<>> THEN cursor ELSE s[1] - 1
    BY <1>7, <2>1 DEF FetchPage
  <2>3. Newest' = Newest
    BY <2>2 DEF Newest
  <2>4. CASE s = <<>>
    BY <1>2, <2>2, <2>4 DEF RequestsLeft
  <2>5. CASE s # <<>>
    <3>1. GoodPage(s, cursor)
      BY <1>2, <2>1, FeedAssumption, PageOK DEF DrillInv
    <3>2. /\ s \in Seq(listed)
          /\ {s[k] : k \in 1..Len(s)} = {t \in listed : s[1] <= t /\ t <= cursor}
      BY <2>5, <3>1 DEF GoodPage
    <3>3. 1 \in 1..Len(s)
      BY <2>5, <3>2
    <3>4. PICK first \in Nat : first = s[1] /\ first <= cursor
      <4>1. s[1] \in {t \in listed : s[1] <= t /\ t <= cursor}
        BY <3>2, <3>3
      <4> QED BY <1>2, <4>1
    <3>5. feed' = "paging" /\ cursor' = first - 1
      BY <2>2, <2>5, <3>4
    <3>6. RequestsLeft = cursor - (Newest - HistoryMs) + 1
      BY <1>2, <2>2 DEF RequestsLeft
    <3>7. RequestsLeft' = IF first - 1 <= Newest - HistoryMs THEN 1
                          ELSE first - 1 - (Newest - HistoryMs) + 1
      BY <2>3, <3>5 DEF RequestsLeft
    <3> QED BY <1>2, <2>2, <3>4, <3>6, <3>7
  <2> QED BY <2>4, <2>5
<1> QED BY <1>5, <1>6, <1>7 DEF Fetch

\* A turn of a loop over the candles (next_candle.py:145-156; ml.py:231-236,
\* 265-270).
LEMMA TurnAdvances ==
  ASSUME DrillInv, FitStep \/ DrillStep \/ MLStep
  PROVE  Advances
<1>1. pos \in Nat /\ HistoryCandles \in Nat
  BY Parameters DEF DrillInv, PhaseOK
<1>2. PICK n \in Nat : n = Len(rows)
  BY DEF DrillInv, FeedOK
<1>3. rows' = rows
  BY DEF FitStep, DrillStep, MLStep, feedVars
<1>4. CASE FitStep
  <2>1. phase = "fit" /\ StagesLeft = 2 /\ TurnsLeft = HistoryCandles - 1 - pos
    BY <1>4 DEF FitStep, StagesLeft, TurnsLeft
  <2>2. CASE pos < HistoryCandles - 1
    <3>1. phase' = "fit" /\ pos' = pos + 1
      BY <1>4, <2>1, <2>2 DEF FitStep
    <3>2. StagesLeft' = 2 /\ TurnsLeft' = HistoryCandles - 1 - (pos + 1)
      BY <3>1 DEF StagesLeft, TurnsLeft
    <3> QED BY <1>1, <2>1, <3>2 DEF Advances
  <2>3. CASE ~(pos < HistoryCandles - 1)
    <3>1. phase' = "walk"
      BY <1>4, <2>3 DEF FitStep
    <3>2. StagesLeft' = 1
      BY <3>1 DEF StagesLeft
    <3> QED BY <2>1, <3>2 DEF Advances
  <2> QED BY <2>2, <2>3
<1>5. CASE DrillStep \/ MLStep
  <2>1. phase = "walk" /\ pos < n - 1 /\ pos' = pos + 1
    BY <1>2, <1>5 DEF DrillStep, MLStep
  <2>2. phase' \in {"walk", "raised"}
    BY <1>5, <2>1 DEF DrillStep, MLStep, Query
  <2>3. StagesLeft = 1 /\ TurnsLeft = n - pos
    BY <1>1, <1>2, <2>1 DEF StagesLeft, TurnsLeft
  <2>4. CASE phase' = "walk"
    <3>1. StagesLeft' = 1 /\ TurnsLeft' = n - (pos + 1)
      BY <1>1, <1>2, <1>3, <2>1, <2>4 DEF StagesLeft, TurnsLeft
    <3> QED BY <1>1, <2>3, <3>1 DEF Advances
  <2>5. CASE phase' = "raised"
    <3>1. StagesLeft' = 0
      BY <2>5 DEF StagesLeft
    <3> QED BY <2>3, <3>1 DEF Advances
  <2> QED BY <2>2, <2>4, <2>5
<1> QED BY <1>4, <1>5

\* A drill takes finitely many steps whatever the venue has listed, for every
\* page size, span and length of history: each step ends a stage or brings the
\* end of its loop nearer, paging backwards included (live_feed.py:118-126;
\* next_candle.py:145-156; ml.py:231-236, 265-270).
THEOREM DrillProgress ==
  DrillSpec => [](StagesLeft \in Nat /\ TurnsLeft \in Nat) /\ [][Advances]_drillVars
<1>1. DrillInv /\ [DrillNext]_drillVars => [Advances]_drillVars
  <2> SUFFICES ASSUME DrillInv, DrillNext PROVE Advances
    OBVIOUS
  <2>1. CASE Fetch
    BY <2>1, FetchAdvances
  <2>2. CASE FitStep \/ DrillStep \/ MLStep
    BY <2>2, TurnAdvances
  <2>3. CASE Begin
    <3>1. phase = "fetch" /\ phase' \in {"error", "fit", "walk"}
      BY <2>3 DEF Begin
    <3> QED BY <3>1 DEF Advances, StagesLeft
  <2>4. CASE FetchRaises
    BY <2>4 DEF FetchRaises, Advances, StagesLeft
  <2>5. CASE Report
    BY <2>5 DEF Report, Advances, StagesLeft
  <2> QED BY <2>1, <2>2, <2>3, <2>4, <2>5 DEF DrillNext, DrillStepAny
<1>2. DrillInv => StagesLeft \in Nat /\ TurnsLeft \in Nat
  BY CountsOK
<1> QED BY <1>1, <1>2, DrillInvariant, PTL DEF DrillSpec
=============================================================================
