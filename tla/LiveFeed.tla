------------------------------ MODULE LiveFeed ------------------------------
(***************************************************************************)
(* Candle history from the venue (adapters/adapters/live_feed.py): one     *)
(* request for the newest rows, or pages walked backwards with endTime.    *)
(* Time is counted in candle intervals and a row is named by its open      *)
(* time; the newest row is the candle that is still forming.               *)
(***************************************************************************)
EXTENDS Integers, Sequences, FiniteSets, FiniteSetsExt

CONSTANTS
  Batch,      \* rows of one page of fetch_history
  HistoryMs   \* history_ms, in candle intervals

ASSUME FeedAssumption == Batch \in Nat \ {0} /\ HistoryMs \in Nat

VARIABLES
  listed,   \* open times the venue has a row for; an outage leaves a gap
  feed,     \* "once" or "paging" while fetching, then "done", "paged" or "failed"
  cursor,   \* endTime of the next page
  rows      \* what has been fetched, oldest first

feedVars == <<listed, feed, cursor, rows>>

Newest == Max(listed)

FeedInit ==
  /\ feed \in {"once", "paging"}
  /\ cursor = Newest
  /\ rows = <<>>

\* The venue's answer: the last `limit` rows that open by `end`, sorted.
Page(end, limit) ==
  LET upTo == {t \in listed : t <= end}
      page == {t \in upTo : Cardinality({u \in upTo : u > t}) < limit}
  IN  [k \in 1..Cardinality(page) |->
         CHOOSE t \in page : Cardinality({u \in page : u <= t}) = k]

\* fetch_klines without endTime.
FetchKlines(limit) ==
  /\ feed = "once"
  /\ rows' = Page(Newest, limit)
  /\ feed' = "done"
  /\ UNCHANGED <<listed, cursor>>

\* Mutant: a page of at most `batch` rows, as every page is, is taken for the
\* last one.
FetchPage_EndsEarly ==
  LET page == Page(cursor, Batch) IN
  /\ feed = "paging" /\ cursor > Newest - HistoryMs
  /\ feed' = IF Len(page) <= Batch THEN "paged" ELSE "paging"
  /\ rows' = page \o rows
  /\ cursor' = IF page = <<>> THEN cursor ELSE page[1] - 1
  /\ UNCHANGED listed

\* Mutant: an empty page is asked for again.
FetchPage_NoBreak ==
  LET page == Page(cursor, Batch) IN
  /\ feed = "paging" /\ cursor > Newest - HistoryMs
  /\ rows' = page \o rows
  /\ cursor' = IF page = <<>> THEN cursor ELSE page[1] - 1
  /\ UNCHANGED <<listed, feed>>

\* One turn of the loop of fetch_history; an empty page ends it.
FetchPage ==
  LET page == Page(cursor, Batch) IN
  /\ feed = "paging" /\ cursor > Newest - HistoryMs
  /\ feed' = IF page = <<>> THEN "paged" ELSE "paging"
  /\ rows' = page \o rows
  /\ cursor' = IF page = <<>> THEN cursor ELSE page[1] - 1
  /\ UNCHANGED listed

\* The loop's condition is false.
HistoryCovered ==
  /\ feed = "paging" /\ cursor <= Newest - HistoryMs
  /\ feed' = "paged"
  /\ UNCHANGED <<listed, cursor, rows>>

\* A request fails or a row is refused (_to_float: a price or a volume that is
\* not positive): LiveFeedError, and the pages fetched so far are lost.
FeedFails ==
  /\ feed \in {"once", "paging"}
  /\ feed' = "failed"
  /\ rows' = <<>>
  /\ UNCHANGED <<listed, cursor>>

-----------------------------------------------------------------------------
(* Properties.                                                             *)

\* Whatever the page size, the span and the gaps of the venue, what has been
\* fetched is the venue's history without a hole or a repeated row, up to the
\* newest row; and a paged fetch, however its loop ends, has every row of its
\* span that the venue lists (live_feed.py:116-126).
HistoryIsContiguous ==
  LET have == {rows[k] : k \in DOMAIN rows} IN
  /\ \A k \in 1..Len(rows) - 1 : rows[k] < rows[k + 1]
  /\ rows # <<>> => have = {t \in listed : t >= rows[1]}
  /\ feed = "paged" => {t \in listed : t > Newest - HistoryMs} \subseteq have
=============================================================================
