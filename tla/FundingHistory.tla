--------------------------- MODULE FundingHistory ---------------------------
(***************************************************************************)
(* getFundingRates() of bybit_rest_client.cpp: the funding rates between   *)
(* two times, newest page first, each page ending where the last began.    *)
(* A rate is its time stamp.                                               *)
(***************************************************************************)
EXTENDS Integers, Sequences, FiniteSets, SequencesExt, Sorted

CONSTANTS
  limit,    \* rates of one answer
  Spacing,  \* the least time between two rates: hours, where a time is in ms
  Begin,    \* startTime
  Ends,     \* the values of endTime
  MaxTime   \* bound: the last time

FundingAssumption ==
  limit \in Nat \ {0} /\ Spacing \in Nat \ {0, 1} /\ Begin \in Nat /\ MaxTime \in Nat /\ Ends \subseteq 0..MaxTime

VARIABLES
  rates,             \* the venue's
  upto,              \* the endTime the caller passed
  endTime, retVal, at

vars == <<rates, upto, endTime, retVal, at>>

Init ==
  /\ rates \in SUBSET (0..MaxTime)
  /\ \A a, b \in rates : a < b => b - a >= Spacing
  /\ upto \in Ends
  /\ endTime = upto /\ retVal = <<>> /\ at = "fetch"

\* The venue: the newest rates of the period, `limit' of them, newest first.
Answer == Reverse(Ascending(Newest({r \in rates : Begin <= r /\ r <= endTime}, limit)))

Worthwhile == Begin < endTime
Before_Mutant(r) == r
Before(r) == r - 1

Fetch ==
  /\ at = "fetch"
  /\ IF Worthwhile /\ Answer # <<>>
     THEN /\ retVal' = retVal \o Answer
          /\ endTime' = Before(Last(Answer))
          /\ UNCHANGED at
     ELSE at' = "done" /\ retVal' = Reverse(retVal) /\ UNCHANGED endTime
  /\ UNCHANGED <<rates, upto>>

RequestFails ==
  /\ at = "fetch" /\ Worthwhile /\ at' = "failed"
  /\ UNCHANGED <<rates, upto, endTime, retVal>>

Next == Fetch \/ RequestFails
Spec == Init /\ [][Next]_vars

-----------------------------------------------------------------------------
\* The rates come back in the order of time, all of those between startTime and
\* endTime, both INCLUSIVE as bybit_rest_client.h says, and none twice.
AllRates ==
  /\ at = "fetch" => IsInjective(retVal)
  /\ at = "done"  => retVal = Ascending({r \in rates : Begin <= r /\ r <= upto})

============================================================================
