--------------------------- MODULE CandleHistory ---------------------------
(***************************************************************************)
(* getHistoricalPrices() of bybit_rest_client.cpp: the download of the     *)
(* candles of one symbol between `from' and `to', batch by batch, across   *)
(* the gaps in which the symbol was not listed.                            *)
(*                                                                         *)
(* A candle is its start time.  Candles start at multiples of Interval;    *)
(* `from' and `to' are any times.                                          *)
(***************************************************************************)
EXTENDS Integers, Sequences, FiniteSets, FiniteSetsExt, SequencesExt, Sorted

CONSTANTS
  Interval,  \* numberOfMsForCandleInterval()
  limit,     \* candles of one answer
  Slots      \* bound: the number of candle slots

ASSUME HistoryAssumption ==
  Interval \in Nat \ {0} /\ limit \in Nat \ {0} /\ Slots \in Nat \ {0}

VARIABLES
  listed,    \* the candles the venue has
  start,     \* the `from' the caller passed
  from,      \* the parameter, moved along
  to,
  candles,   \* the batch in hand
  retVal, written,  \* what is returned, and what the writer was given
  at

vars == <<listed, start, from, to, candles, retVal, written, at>>
request == <<listed, start, to>>

Times == 0..(Slots * Interval)
Slot(i) == i * Interval
nextCandleStart(c) == c + Interval

Init ==
  /\ listed \in SUBSET {Slot(i) : i \in 0..(Slots - 1)}
  /\ start \in Times /\ to \in Times /\ start < to
  /\ from = start /\ candles = {} /\ retVal = <<>> /\ written = <<>> /\ at = "fetch"

\* The venue: its newest candles at or before the end of the window, `limit' of them,
\* whether or not they are in the window.
Answer(end) == Newest({c \in listed : c <= end}, limit)

\* A window of exactly `limit' slots, both ends included.
WindowEnd_Mutant(begin) == begin + limit * Interval
WindowEnd(begin) == begin + (limit - 1) * Interval

\* The candles that predate `from' are dropped.
Trim(batch) == {c \in batch : c >= from}

\* The next batch, without an end.
Fetch ==
  /\ at = "fetch"
  /\ LET batch == Answer(from + (limit - 1) * Interval)  \* the venue's own window
     IN  /\ at' = CASE batch = {}                  -> "done"
                    [] batch # {} /\ Max(batch) < from -> "probe"
                    [] OTHER                       -> "batch"
         /\ candles' = Trim(batch)
  /\ UNCHANGED <<request, from, retVal, written>>

\* A batch from before `from' is the end of the history or a gap: look at the windows
\* up to `to', one by one.
StepPast_Mutant(end) == end
StepPast(end) == end + 1
Probe ==
  /\ at = "probe"
  /\ LET end   == Min({to, WindowEnd(from)})
         batch == Answer(end)
     IN  IF from > to
         THEN at' = "done" /\ UNCHANGED <<from, candles>>
         ELSE IF batch # {} /\ Max(batch) >= from
              THEN at' = "batch" /\ candles' = Trim(batch) /\ UNCHANGED from
              ELSE from' = StepPast(end) /\ UNCHANGED <<at, candles>>
  /\ UNCHANGED <<request, retVal, written>>

\* The batch, without a last candle that reaches beyond `to', is added; one that
\* goes on after `to' is the last.
Take ==
  /\ at = "batch"
  /\ LET batch == IF nextCandleStart(Max(candles)) > to THEN candles \ {Max(candles)} ELSE candles
     IN  IF batch = {}
         THEN at' = "done" /\ UNCHANGED <<from, retVal, written>>
         ELSE /\ written' = written \o Ascending(batch)
              /\ retVal' = retVal \o Ascending({c \in batch : c <= to})
              /\ IF to < Max(batch)
                 THEN at' = "done" /\ UNCHANGED from
                 ELSE at' = "fetch" /\ from' = nextCandleStart(Max(batch))
  /\ candles' = {}
  /\ UNCHANGED request

\* A request throws, and so does the download.
RequestFails ==
  /\ at \in {"fetch", "probe"} /\ at' = "failed"
  /\ UNCHANGED <<request, from, candles, retVal, written>>

Next == Fetch \/ Probe \/ Take \/ RequestFails

Spec == Init /\ [][Next]_vars
\* The download is a loop of one thread, and every request ends.
FairSpec == Spec /\ WF_vars(Fetch \/ Probe \/ Take)

-----------------------------------------------------------------------------
InOrder ==
  /\ \A i \in DOMAIN written : /\ written[i] >= start
                               /\ \A j \in 1..(i - 1) : written[j] < written[i]
  /\ IsPrefix(retVal, written)

\* A download that ends normally returns every candle that lies between `from' and
\* `to', whatever gaps there are and however the batches fall.  The first answer must
\* not be empty: an empty one, for a `from' well before the listing, is taken for the
\* end of the history.  At every moment the candles returned, and handed to the writer,
\* are in order, none twice, and none from before `from'; the writer's begin with the
\* returned ones.
Complete ==
  /\ InOrder
  /\ at = "done" /\ (\E c \in listed : c <= start + (limit - 1) * Interval) =>
       \A c \in listed : start <= c /\ nextCandleStart(c) <= to => Contains(retVal, c)

\* The download ends, also where the venue answers with old candles for ever.
Terminates == <>(at \in {"done", "failed"})

============================================================================
