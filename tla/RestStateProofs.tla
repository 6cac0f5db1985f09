-------------------------- MODULE RestStateProofs --------------------------
(* Machine-checked facts about what the threads of a REST client share, as MCRestState
   puts it together: the request throttle and the clock offset of the signed requests. *)
EXTENDS MCRestState, TLAPS, FiniteSetTheorems, SequenceTheorems, WellFoundedInduction

-----------------------------------------------------------------------------
(* The request throttle *)

\* A set of numbers has a least one, and Min is it.
LEMMA LeastNumber ==
  ASSUME NEW S \in SUBSET Nat, S # {} PROVE Min(S) \in S /\ \A j \in S : Min(S) <= j
  <1> DEFINE less == OpToRel(<, Nat)
  <1>1. \E i \in S : \A j \in S : ~(<<j, i>> \in less)
    BY NatLessThanWellFounded, WFMin, Zenon
  <1>2. PICK i \in S : \A j \in S : ~(<<j, i>> \in less)
    BY <1>1
  <1>3. \A j \in S : ~(j < i)
    BY <1>2 DEF OpToRel
  <1>4. \A j \in S : i <= j
    BY <1>3
  <1> QED BY <1>4 DEF Min

\* The window never grows by being cleaned, and shrinks when its first entry left it.
LEMMA Popped ==
  ASSUME NEW times \in Seq(Nat), NEW now \in Nat
  PROVE  /\ PopExpired(times, now) \in Seq(Nat)
         /\ Len(PopExpired(times, now)) <= Len(times)
         /\ times # <<>> /\ now - times[1] > windowSizeMs => Len(PopExpired(times, now)) < Len(times)
  <1> DEFINE kept == {i \in DOMAIN times : ~Expired(times[i], now)}
             popped == SubSeq(times, Min(kept), Len(times))
  <1>1. PopExpired(times, now) = IF kept = {} THEN <<>> ELSE popped
    BY DEF PopExpired, From
  <1>2. Len(times) \in Nat /\ DOMAIN times = 1..Len(times) /\ (times # <<>> => Len(times) > 0)
    BY EmptySeq, LenProperties
  <1>3. CASE kept = {}
    <2>1. <<>> \in Seq(Nat) /\ Len(<<>>) = 0
      OBVIOUS
    <2> QED BY <1>1, <1>2, <1>3, <2>1
  <1>4. CASE kept # {}
    <2>1. kept \in SUBSET Nat
      BY <1>2
    <2>2. Min(kept) \in kept
      BY <1>4, <2>1, LeastNumber
    <2>3. Min(kept) \in 1..Len(times) /\ ~(now - times[Min(kept)] > windowSizeMs)
      BY <1>2, <2>2 DEF Expired
    <2> HIDE DEF kept
    <2>4. popped \in Seq(Nat) /\ Len(popped) = Len(times) - Min(kept) + 1
      BY <1>2, <2>3, SubSeqProperties
    <2>5. times # <<>> /\ now - times[1] > windowSizeMs => Min(kept) # 1
      BY <2>3
    <2> QED BY <1>1, <1>2, <1>4, <2>3, <2>4, <2>5
  <1> QED BY <1>3, <1>4

ThreadRecord == [at : {"idle", "asleep", "requesting"}, now : Nat, wake : Nat]

\* A sleeper holds the mutex alone.  One that waits for the venue's reset wakes after it,
\* one that waits for the window wakes when its oldest request has left it.
Sleeper(t) ==
  /\ mutex = {t}
  /\ serverHeadersFound => thread[t].wake >= resetTime
  /\ ~serverHeadersFound => requestTimes # <<>> /\ thread[t].wake > requestTimes[1] + windowSizeMs
PauseInv ==
  /\ clock \in Nat /\ resetTime \in Nat /\ remaining \in Nat /\ serverHeadersFound \in BOOLEAN
  /\ requestTimes \in Seq(Nat) /\ Len(requestTimes) <= localLimit
  /\ thread \in [Threads -> ThreadRecord]
  /\ \A t \in Threads : thread[t].at = "asleep" => Sleeper(t)

\* What is known at the start.
LEMMA PauseInit == Init => PauseInv
  <1> SUFFICES ASSUME Init PROVE PauseInv  OBVIOUS
  <1>1. requestTimes \in Seq(Nat) /\ Len(requestTimes) <= localLimit
    BY LimiterAssumption DEF Init
  <1> QED BY <1>1 DEF Init, Idle, PauseInv, ThreadRecord

\* A thread that leaves wait(), and what its request adds to the window.
LEMMA ReleaseStep ==
  ASSUME PauseInv, NEW t \in Threads, Release(t),
         UNCHANGED <<clock, resetTime, remaining, serverHeadersFound>>,
         mutex = {} \/ mutex = {t},
         requestTimes' \in Seq(Nat), Len(requestTimes') <= localLimit
  PROVE  PauseInv' /\ \A u \in Threads : u # t => thread'[u] = thread[u]
  <1>0. [Idle EXCEPT !.at = "requesting"] = [at |-> "requesting", now |-> 0, wake |-> 0]
    BY DEF Idle
  <1>1. thread' = [thread EXCEPT ![t] = [at |-> "requesting", now |-> 0, wake |-> 0]]
    BY <1>0 DEF Release
  <1>2. \A u \in Threads : u # t => thread'[u] = thread[u] /\ thread[u].at # "asleep"
    <2>1. \A u \in Threads : u # t => mutex # {u}
      OBVIOUS
    <2> QED BY <1>1, <2>1 DEF PauseInv, Sleeper
  <1>3. thread'[t] = [at |-> "requesting", now |-> 0, wake |-> 0]
    BY <1>1 DEF PauseInv
  <1>4. thread' \in [Threads -> ThreadRecord]
    BY <1>1 DEF PauseInv, ThreadRecord
  <1> QED BY <1>2, <1>3, <1>4 DEF PauseInv

\* A thread that goes to sleep.
LEMMA SleepStep ==
  ASSUME PauseInv, NEW t \in Threads, NEW until \in Nat, Sleep(t, until), mutex = {},
         serverHeadersFound => until >= resetTime,
         ~serverHeadersFound => requestTimes' # <<>> /\ until > requestTimes'[1] + windowSizeMs,
         UNCHANGED <<clock, resetTime, remaining, serverHeadersFound>>,
         requestTimes' \in Seq(Nat), Len(requestTimes') <= localLimit
  PROVE  PauseInv' /\ \A u \in Threads : thread'[u].at = "requesting" => thread[u].at = "requesting"
  <1>1. thread' = [thread EXCEPT ![t] = [at |-> "asleep", now |-> clock, wake |-> until]] /\ mutex' = {t}
    BY DEF Sleep
  <1>2. \A u \in Threads : u # t => thread'[u] = thread[u] /\ thread[u].at # "asleep"
    BY <1>1 DEF PauseInv, Sleeper
  <1>3. thread'[t] = [at |-> "asleep", now |-> clock, wake |-> until]
    BY <1>1 DEF PauseInv
  <1>4. thread' \in [Threads -> ThreadRecord]
    BY <1>1 DEF PauseInv, ThreadRecord
  <1>5. Sleeper(t)'
    BY <1>1, <1>3 DEF Sleeper
  <1> QED BY <1>2, <1>3, <1>4, <1>5 DEF PauseInv

\* No request leaves while the budget is nearly spent and the reset ahead.
Paced ==
  serverHeadersFound /\ (\E t \in Threads : thread[t].at # "requesting" /\ thread'[t].at = "requesting")
    => remaining > 2 \/ resetTime <= clock

\* wait() with the venue's headers.
LEMMA WaitServerStep == ASSUME PauseInv, NEW t \in Threads, WaitServer(t) PROVE PauseInv' /\ Paced
  <1>1. /\ mutex = {} /\ serverHeadersFound
        /\ UNCHANGED <<clock, resetTime, remaining, serverHeadersFound, requestTimes>>
    BY DEF WaitServer, limiter
  <1>2. CASE MustPause /\ Sleep(t, resetTime + ServerBuffer)
    <2>1. resetTime + ServerBuffer \in Nat /\ resetTime + ServerBuffer >= resetTime
      BY LimiterAssumption DEF PauseInv
    <2> QED BY <1>1, <1>2, <2>1, SleepStep DEF PauseInv, Paced
  <1>3. CASE ~MustPause /\ Release(t)
    <2>1. PauseInv'
      BY <1>1, <1>3, ReleaseStep DEF PauseInv
    <2> QED BY <1>3, <2>1 DEF MustPause, Paced, PauseInv
  <1> QED BY <1>2, <1>3 DEF WaitServer

\* wait() without them.
LEMMA WaitLocalStep == ASSUME PauseInv, NEW t \in Threads, WaitLocal(t) PROVE PauseInv' /\ Paced
  <1> DEFINE times == PopExpired(requestTimes, clock)
  <1>1. /\ mutex = {} /\ ~serverHeadersFound
        /\ UNCHANGED <<clock, resetTime, remaining, serverHeadersFound>>
    BY DEF WaitLocal
  <1>2. times \in Seq(Nat) /\ Len(times) <= Len(requestTimes) /\ Len(times) <= localLimit
    BY Popped, LimiterAssumption DEF PauseInv
  <1>3. \/ WindowFull(times) /\ requestTimes' = times /\ Sleep(t, Head(times) + windowSizeMs + LocalBuffer)
        \/ ~WindowFull(times) /\ requestTimes' = Append(times, clock) /\ Release(t)
    BY DEF WaitLocal
  <1> HIDE DEF times
  <1>4. CASE WindowFull(times) /\ requestTimes' = times /\ Sleep(t, Head(times) + windowSizeMs + LocalBuffer)
    <2>1. times # <<>> /\ Head(times) = times[1] /\ times[1] \in Nat
      BY <1>2, <1>4, LimiterAssumption, EmptySeq, HeadTailProperties DEF WindowFull
    <2>2. /\ Head(times) + windowSizeMs + LocalBuffer \in Nat
          /\ Head(times) + windowSizeMs + LocalBuffer > times[1] + windowSizeMs
      BY <2>1, LimiterAssumption
    <2> QED BY <1>1, <1>2, <1>4, <2>1, <2>2, SleepStep DEF Paced
  <1>5. CASE ~WindowFull(times) /\ requestTimes' = Append(times, clock) /\ Release(t)
    <2>1. Append(times, clock) \in Seq(Nat) /\ Len(Append(times, clock)) <= localLimit
      BY <1>2, <1>5, LimiterAssumption, AppendProperties DEF WindowFull, PauseInv
    <2> QED BY <1>1, <1>5, <2>1, ReleaseStep DEF Paced
  <1> QED BY <1>3, <1>4, <1>5

\* The end of a sleep.
LEMMA WakeStep == ASSUME PauseInv, NEW t \in Threads, Wake(t) PROVE PauseInv' /\ Paced
  <1> DEFINE popped == PopExpired(requestTimes, clock)
  <1>1. /\ thread[t].at = "asleep" /\ clock >= thread[t].wake /\ Release(t)
        /\ UNCHANGED <<clock, resetTime, remaining, serverHeadersFound>>
        /\ requestTimes' = IF serverHeadersFound THEN requestTimes ELSE Append(popped, thread[t].now)
    BY DEF Wake
  <1>2. Sleeper(t) /\ thread[t].wake \in Nat /\ thread[t].now \in Nat
    BY <1>1 DEF PauseInv, ThreadRecord
  <1>3. popped \in Seq(Nat) /\ (~serverHeadersFound => Len(popped) < Len(requestTimes))
    <2>1. ~serverHeadersFound => requestTimes # <<>> /\ clock - requestTimes[1] > windowSizeMs
      <3>1. requestTimes # <<>> => requestTimes[1] \in Nat
        BY EmptySeq, HeadTailProperties DEF PauseInv
      <3> QED BY <1>1, <1>2, <3>1, LimiterAssumption DEF PauseInv, Sleeper
    <2> QED BY <2>1, Popped DEF PauseInv
  <1> HIDE DEF popped
  <1>4. requestTimes' \in Seq(Nat) /\ Len(requestTimes') <= localLimit
    BY <1>1, <1>2, <1>3, LimiterAssumption, AppendProperties DEF PauseInv
  <1>5. PauseInv' /\ \A u \in Threads : u # t => thread'[u] = thread[u]
    BY <1>1, <1>2, <1>4, ReleaseStep DEF Sleeper
  <1>6. serverHeadersFound => resetTime <= clock
    BY <1>1, <1>2 DEF Sleeper, PauseInv
  <1> QED BY <1>5, <1>6 DEF Paced

\* Every step of the throttle.
LEMMA LimiterStep == ASSUME PauseInv, [Next]_vars PROVE PauseInv' /\ Paced
  <1>1. ASSUME NEW t \in Threads, Respond(t) \/ Fail(t) PROVE PauseInv' /\ Paced
    <2>1. /\ thread' = [thread EXCEPT ![t] = Idle] /\ UNCHANGED <<requestTimes, clock, mutex>>
          /\ thread[t].at = "requesting"
      BY <1>1 DEF Respond, Fail, limiter
    <2>2. thread' \in [Threads -> ThreadRecord]
      BY <2>1 DEF PauseInv, ThreadRecord, Idle
    <2>3. \A u \in Threads : u # t => thread'[u] = thread[u]
      BY <2>1 DEF PauseInv
    <2>4. thread'[t].at = "idle"
      BY <2>1 DEF PauseInv, Idle
    <2>5. Paced
      BY <2>3, <2>4 DEF Paced
    <2>6. CASE mutex = {}
      <3>1. remaining' \in Nat /\ resetTime' \in Nat /\ serverHeadersFound' \in BOOLEAN
        <4>1. CASE UNCHANGED <<remaining, resetTime, serverHeadersFound>>
          BY <4>1 DEF PauseInv
        <4>2. ASSUME NEW h \in Headers, remaining' = h.status, resetTime' = clock + h.reset,
                     serverHeadersFound' = TRUE
              PROVE  remaining' \in Nat /\ resetTime' \in Nat /\ serverHeadersFound' \in BOOLEAN
          <5>1. h.status \in Nat /\ h.reset \in Nat
            BY LimiterAssumption
          <5> QED BY <4>2, <5>1 DEF PauseInv
        <4>3. ASSUME NEW h \in Headers, remaining' = h.status, UNCHANGED <<resetTime, serverHeadersFound>>
              PROVE  remaining' \in Nat /\ resetTime' \in Nat /\ serverHeadersFound' \in BOOLEAN
          <5>1. h.status \in Nat
            BY LimiterAssumption
          <5> QED BY <4>3, <5>1 DEF PauseInv
        <4> QED BY <1>1, <4>1, <4>2, <4>3 DEF Respond, Fail, limiter
      <3>2. \A u \in Threads : thread'[u].at # "asleep"
        BY <2>3, <2>4, <2>6 DEF PauseInv, Sleeper
      <3> QED BY <2>1, <2>2, <2>5, <3>1, <3>2 DEF PauseInv
    <2>7. CASE mutex # {}
      <3>1. UNCHANGED limiter
        BY <1>1, <2>7 DEF Respond, Fail
      <3>2. \A u \in Threads : thread'[u].at = "asleep" => Sleeper(u)'
        BY <2>1, <2>3, <2>4, <3>1 DEF PauseInv, Sleeper, limiter
      <3> QED BY <2>1, <2>2, <2>5, <3>1, <3>2 DEF PauseInv, limiter
    <2> QED BY <2>6, <2>7
  <1>2. CASE Tick \/ UNCHANGED vars
    BY <1>2 DEF Tick, vars, limiter, PauseInv, Sleeper, Paced
  <1> QED BY <1>1, <1>2, WaitServerStep, WaitLocalStep, WakeStep DEF Next

\* Every step of the REST client's state.
LEMMA PauseStep == ASSUME PauseInv, [StateNext]_stateVars PROVE PauseInv' /\ Paced
  <1>1. [Next]_vars
    BY DEF StateNext, stateVars, limiterVars
  <1> QED BY <1>1, LimiterStep

\* The throttle's data are what they should be: one sleeper holds the mutex, and the
\* window's deque never holds more time stamps than its limit.
THEOREM ThrottleInvariant == StateSpec => []PauseInv
  <1>1. StateInit => PauseInv
    BY PauseInit DEF StateInit
  <1>2. PauseInv /\ [StateNext]_stateVars => PauseInv'
    BY PauseStep
  <1> QED BY <1>1, <1>2, PTL DEF StateSpec

\* For any number of threads, limits and headers: no request leaves while the budget last
\* reported is nearly spent and its reset has not come.
THEOREM BudgetIsRespected == StateSpec => ServerPause
  <1>1. PauseInv /\ [StateNext]_stateVars => [Paced]_vars
    BY PauseStep
  <1>2. [Paced]_vars <=>
          [serverHeadersFound /\ (\E t \in Threads : thread[t].at # "requesting"
                                                     /\ thread'[t].at = "requesting")
             => remaining > 2 \/ resetTime <= clock]_vars
    BY DEF Paced
  <1> QED BY <1>1, <1>2, ThrottleInvariant, PTL DEF StateSpec, ServerPause

-----------------------------------------------------------------------------
(* The rate in local mode *)

\* `short' is `long' without its first d entries.
Suffix(long, short, d) ==
  /\ short \in Seq(Nat) /\ Len(short) = Len(long) - d
  /\ \A i \in 1..Len(short) : short[i] = long[i + d]

\* Requests are noted no earlier than the one before them left wait().  Counted from the
\* back, the note after that of a request which is still in the window is there, and no
\* older than that request.
Covers(rec, rel) ==
  \A i \in 1..(Len(rel) - 1) :
    Recent(rel[i]) => /\ Len(rec) - Len(rel) + i + 1 >= 1
                      /\ rec[Len(rec) - Len(rel) + i + 1] >= rel[i]

\* What is dropped from a queue of times is a prefix that has none of those to keep.
LEMMA FromDrops ==
  ASSUME NEW times \in Seq(Nat), NEW kept \in SUBSET DOMAIN times
  PROVE  \E d \in 0..Len(times) : Suffix(times, From(times, kept), d) /\ \A k \in kept : k > d
  <1>0. Len(times) \in Nat /\ DOMAIN times = 1..Len(times) /\ \A i \in 1..Len(times) : times[i] \in Nat
    BY LenProperties
  <1>1. CASE kept = {}
    <2>1. From(times, kept) = <<>>
      BY <1>1 DEF From
    <2>2. Suffix(times, <<>>, Len(times))
      <3>1. <<>> \in Seq(Nat) /\ Len(<<>>) = 0
        OBVIOUS
      <3> QED BY <1>0, <3>1 DEF Suffix
    <2>3. Len(times) \in 0..Len(times)
      BY <1>0
    <2> QED BY <1>1, <2>1, <2>2, <2>3
  <1>2. CASE kept # {}
    <2> DEFINE a == Min(kept)
               s == SubSeq(times, a, Len(times))
    <2>1. a \in kept /\ \A j \in kept : a <= j
      <3>1. kept \in SUBSET Nat
        BY <1>0
      <3> QED BY <1>2, <3>1, LeastNumber
    <2>2. From(times, kept) = s
      BY <1>2 DEF From
    <2>3. a \in 1..Len(times)
      BY <1>0, <2>1
    <2> HIDE DEF a
    <2>4. /\ s \in Seq(Nat) /\ Len(s) = Len(times) - a + 1
          /\ \A i \in 1..(Len(times) - a + 1) : s[i] = times[a + i - 1]
      <3>1. a \in Int /\ Len(times) \in Int /\ a <= Len(times) /\ \A i \in a..Len(times) : times[i] \in Nat
        BY <1>0, <2>3
      <3> QED BY <3>1, SubSeqProperties
    <2> HIDE DEF s
    <2>5. Suffix(times, s, a - 1)
      <3>1. \A i \in 1..Len(s) : s[i] = times[i + (a - 1)]
        <4> SUFFICES ASSUME NEW i \in 1..Len(s) PROVE s[i] = times[i + (a - 1)]
          OBVIOUS
        <4>1. i \in 1..(Len(times) - a + 1) /\ a + i - 1 = i + (a - 1)
          BY <1>0, <2>3, <2>4
        <4> QED BY <2>4, <4>1
      <3>2. Len(s) = Len(times) - (a - 1)
        BY <1>0, <2>3, <2>4
      <3> QED BY <2>4, <3>1, <3>2 DEF Suffix
    <2>6. a - 1 \in 0..Len(times) /\ \A k \in kept : k > a - 1
      BY <1>0, <2>1, <2>3
    <2> QED BY <2>2, <2>5, <2>6
  <1> QED BY <1>1, <1>2

\* What is noted of the window stays when the notes that left it are dropped.
LEMMA CoversPop ==
  ASSUME NEW rec \in Seq(Nat), NEW rel \in Seq(Nat), NEW short, NEW d \in Nat, clock \in Nat,
         Covers(rec, rel), Suffix(rec, short, d), \A k \in 1..Len(rec) : Recent(rec[k]) => k > d
  PROVE  Covers(short, rel)
  <1>0. Len(rec) \in Nat /\ Len(rel) \in Nat /\ windowSizeMs \in Nat /\ Len(short) = Len(rec) - d
    BY LimiterAssumption DEF Suffix
  <1> SUFFICES ASSUME NEW i \in 1..(Len(rel) - 1), Recent(rel[i])
               PROVE  /\ Len(short) - Len(rel) + i + 1 >= 1
                      /\ short[Len(short) - Len(rel) + i + 1] >= rel[i]
    BY DEF Covers
  <1> DEFINE k == Len(rec) - Len(rel) + i + 1
  <1>1. i \in 1..Len(rel) /\ i < Len(rel) /\ k \in Int /\ k = Len(rec) - Len(rel) + i + 1
    BY <1>0
  <1>2. k >= 1 /\ rec[k] >= rel[i]
    BY DEF Covers
  <1> HIDE DEF k
  <1>3. k \in 1..Len(rec)
    BY <1>0, <1>1, <1>2
  <1>4. rec[k] \in Nat /\ rel[i] \in Nat
    <2>1. (\A j \in 1..Len(rec) : rec[j] \in Nat) /\ (\A j \in 1..Len(rel) : rel[j] \in Nat)
      BY ElementOfSeq
    <2> QED BY <1>1, <1>3, <2>1
  <1>5. Recent(rec[k])
    <2>1. clock - rel[i] <= windowSizeMs
      BY DEF Recent
    <2>2. clock - rec[k] <= windowSizeMs
      BY <1>0, <1>2, <1>4, <2>1
    <2> QED BY <2>2 DEF Recent
  <1>6. k - d \in 1..Len(short) /\ (k - d) + d = k /\ k - d = Len(short) - Len(rel) + i + 1
    <2>1. k > d
      BY <1>3, <1>5
    <2> QED BY <1>0, <1>1, <1>3, <2>1
  <1>7. short[k - d] = rec[k]
    BY <1>6 DEF Suffix
  <1> QED BY <1>0, <1>2, <1>6, <1>7

\* Forgetting the oldest requests changes nothing for the others.
LEMMA CoversDrop ==
  ASSUME NEW rec \in Seq(Nat), NEW rel \in Seq(Nat), NEW short, NEW e \in Nat,
         Covers(rec, rel), Suffix(rel, short, e)
  PROVE  Covers(rec, short)
  <1>0. Len(rec) \in Nat /\ Len(rel) \in Nat /\ Len(short) = Len(rel) - e
    BY DEF Suffix
  <1> SUFFICES ASSUME NEW i \in 1..(Len(short) - 1), Recent(short[i])
               PROVE  /\ Len(rec) - Len(short) + i + 1 >= 1
                      /\ rec[Len(rec) - Len(short) + i + 1] >= short[i]
    BY DEF Covers
  <1>1. /\ i + e \in 1..(Len(rel) - 1) /\ i \in 1..Len(short)
        /\ Len(rec) - Len(short) + i + 1 = Len(rec) - Len(rel) + (i + e) + 1
    BY <1>0
  <1>2. short[i] = rel[i + e]
    BY <1>1 DEF Suffix
  <1> QED BY <1>1, <1>2 DEF Covers

\* A request that leaves at c, noted at a time no earlier than the last release.
LEMMA CoversAppend ==
  ASSUME NEW rec \in Seq(Nat), NEW rel \in Seq(Nat), NEW now \in Nat, NEW c \in Nat,
         Covers(rec, rel), \A i \in 1..Len(rel) : rel[i] <= now
  PROVE  Covers(Append(rec, now), Append(rel, c))
  <1> DEFINE rec2 == Append(rec, now)
             rel2 == Append(rel, c)
  <1>0. Len(rec) \in Nat /\ Len(rel) \in Nat
    OBVIOUS
  <1>1. /\ Len(rec2) = Len(rec) + 1 /\ rec2[Len(rec) + 1] = now
        /\ \A i \in 1..Len(rec) : rec2[i] = rec[i]
    BY AppendProperties
  <1>2. Len(rel2) = Len(rel) + 1 /\ \A i \in 1..Len(rel) : rel2[i] = rel[i]
    BY AppendProperties
  <1> HIDE DEF rec2, rel2
  <1>3. ASSUME NEW i \in 1..(Len(rel2) - 1), Recent(rel2[i])
        PROVE  /\ Len(rec2) - Len(rel2) + i + 1 >= 1
               /\ rec2[Len(rec2) - Len(rel2) + i + 1] >= rel2[i]
    <2> DEFINE k == Len(rec) - Len(rel) + i + 1
    <2>1. i \in Nat /\ k \in Int /\ k = Len(rec) - Len(rel) + i + 1
      BY <1>0, <1>2
    <2> HIDE DEF k
    <2>2. i \in 1..Len(rel) /\ rel2[i] = rel[i] /\ Len(rec2) - Len(rel2) + i + 1 = k
      BY <1>0, <1>1, <1>2, <2>1
    <2>3. CASE i = Len(rel)
      <3>1. k = Len(rec) + 1 /\ rel[i] <= now /\ rel[i] \in Nat
        BY <1>0, <2>1, <2>2, <2>3
      <3> QED BY <1>0, <1>1, <2>2, <3>1
    <2>4. CASE i # Len(rel)
      <3>1. i \in 1..(Len(rel) - 1)
        BY <1>0, <2>2, <2>4
      <3>2. k >= 1 /\ rec[k] >= rel[i]
        BY <1>3, <2>1, <2>2, <3>1 DEF Covers
      <3>3. k \in 1..Len(rec)
        BY <1>0, <2>1, <3>1, <3>2
      <3> QED BY <1>1, <2>2, <3>2, <3>3
    <2> QED BY <2>3, <2>4
  <1>4. Covers(rec2, rel2)
    BY <1>3 DEF Covers
  <1> QED BY <1>4 DEF rec2, rel2

\* In local mode the requests left wait() in the past, none since a sleeper looked at the
\* clock, and those of the window are covered by the deque.
Past == \A i \in 1..Len(released) :
          /\ released[i] <= clock
          /\ \A t \in Threads : thread[t].at = "asleep" => released[i] <= thread[t].now
RateInv ==
  ~serverHeadersFound => released \in Seq(Nat) /\ Past /\ Covers(requestTimes, released)

\* The deque after it was cleaned still covers the window.
LEMMA PoppedCovers ==
  ASSUME PauseInv, RateInv, ~serverHeadersFound
  PROVE  Covers(PopExpired(requestTimes, clock), released) /\ PopExpired(requestTimes, clock) \in Seq(Nat)
  <1> DEFINE kept == {i \in DOMAIN requestTimes : ~Expired(requestTimes[i], clock)}
  <1>0. /\ requestTimes \in Seq(Nat) /\ released \in Seq(Nat) /\ clock \in Nat
        /\ Len(requestTimes) \in Nat /\ DOMAIN requestTimes = 1..Len(requestTimes)
        /\ Covers(requestTimes, released)
    BY LenProperties DEF PauseInv, RateInv
  <1>1. PICK d \in 0..Len(requestTimes) :
          Suffix(requestTimes, From(requestTimes, kept), d) /\ \A k \in kept : k > d
    BY <1>0, FromDrops
  <1>2. \A k \in 1..Len(requestTimes) : Recent(requestTimes[k]) => k \in kept
    <2> SUFFICES ASSUME NEW k \in 1..Len(requestTimes), Recent(requestTimes[k]) PROVE k \in kept
      OBVIOUS
    <2>1. requestTimes[k] \in Nat
      BY <1>0
    <2> QED BY <1>0, <2>1, LimiterAssumption DEF Recent, Expired
  <1> DEFINE short == From(requestTimes, kept)
  <1>3. PopExpired(requestTimes, clock) = short
    BY DEF PopExpired
  <1>4. d \in Nat /\ Suffix(requestTimes, short, d) /\ \A k \in 1..Len(requestTimes) : Recent(requestTimes[k]) => k > d
    BY <1>0, <1>1, <1>2
  <1> HIDE DEF short
  <1>5. Covers(short, released)
    BY <1>0, <1>4, CoversPop
  <1> QED BY <1>3, <1>4, <1>5 DEF Suffix

\* A request that leaves wait() in local mode, noted as of `now'.
LEMMA ReleaseRate ==
  ASSUME PauseInv, RateInv, ~serverHeadersFound, NEW t \in Threads, NEW now \in Nat,
         requestTimes' = Append(PopExpired(requestTimes, clock), now), Release(t),
         \A i \in 1..Len(released) : released[i] <= now,
         \A u \in Threads : thread'[u].at # "asleep", UNCHANGED <<clock, serverHeadersFound>>
  PROVE  RateInv'
  <1> DEFINE rest  == From(released, InWindow)
             times == PopExpired(requestTimes, clock)
  <1>0. /\ released \in Seq(Nat) /\ Len(released) \in Nat /\ DOMAIN released = 1..Len(released)
        /\ clock \in Nat /\ Past
    BY LenProperties DEF PauseInv, RateInv
  <1>1. PICK e \in 0..Len(released) : Suffix(released, rest, e)
    <2>1. InWindow \in SUBSET DOMAIN released
      BY DEF InWindow
    <2> QED BY <1>0, <2>1, FromDrops
  <1>2. times \in Seq(Nat) /\ Covers(times, released)
    BY PoppedCovers
  <1>3. released' = Append(rest, clock) /\ requestTimes' = Append(times, now)
    BY DEF Release
  <1> HIDE DEF rest, times
  <1>4. e \in Nat /\ rest \in Seq(Nat) /\ Len(rest) = Len(released) - e
    BY <1>0, <1>1 DEF Suffix
  <1>5. Covers(times, rest)
    BY <1>0, <1>1, <1>2, <1>4, CoversDrop
  <1>6. \A i \in 1..Len(rest) : rest[i] <= now /\ rest[i] <= clock
    <2> SUFFICES ASSUME NEW i \in 1..Len(rest) PROVE rest[i] <= now /\ rest[i] <= clock
      OBVIOUS
    <2>1. i + e \in 1..Len(released) /\ rest[i] = released[i + e]
      BY <1>0, <1>1, <1>4 DEF Suffix
    <2> QED BY <1>0, <2>1 DEF Past
  <1>7. Covers(Append(times, now), Append(rest, clock))
    BY <1>0, <1>2, <1>4, <1>5, <1>6, CoversAppend
  <1>8. Covers(requestTimes', released')
    BY <1>3, <1>7
  <1>9. Covers(requestTimes, released)'
    BY <1>8 DEF Covers, Recent
  <1>10. released' \in Seq(Nat) /\ \A i \in 1..Len(released') : released'[i] <= clock
    <2>1. /\ released' \in Seq(Nat) /\ Len(released') = Len(rest) + 1
          /\ released'[Len(rest) + 1] = clock
          /\ \A i \in 1..Len(rest) : released'[i] = rest[i]
      BY <1>0, <1>3, <1>4, AppendProperties
    <2>2. ASSUME NEW i \in 1..Len(released') PROVE released'[i] <= clock
      <3>1. CASE i = Len(rest) + 1
        BY <1>0, <2>1, <3>1
      <3>2. CASE i # Len(rest) + 1
        <4>0. Len(rest) \in Nat /\ i \in 1..(Len(rest) + 1)
          BY <1>4, <2>1, LenProperties
        <4>1. i \in 1..Len(rest)
          BY <3>2, <4>0
        <4> QED BY <1>6, <2>1, <4>1
      <3> QED BY <3>1, <3>2
    <2> QED BY <2>1, <2>2
  <1> QED BY <1>9, <1>10 DEF RateInv, Past

\* No step lets a request leave that the deque does not account for.
LEMMA RateStep ==
  ASSUME PauseInv, PauseInv', RateInv, [Next]_vars
  PROVE  RateInv'
  <1>0. thread \in [Threads -> ThreadRecord] /\ clock \in Nat
    BY DEF PauseInv
  <1>1. CASE serverHeadersFound'
    BY <1>1 DEF RateInv
  <1>2. ASSUME ~serverHeadersFound', NEW t \in Threads, WaitLocal(t) PROVE RateInv'
    <2> DEFINE times == PopExpired(requestTimes, clock)
    <2>1. ~serverHeadersFound /\ mutex = {} /\ UNCHANGED <<clock, serverHeadersFound>>
      BY <1>2 DEF WaitLocal
    <2>2. \A u \in Threads : thread[u].at # "asleep"
      BY <2>1 DEF PauseInv, Sleeper
    <2>3. CASE requestTimes' = times /\ Sleep(t, Head(times) + windowSizeMs + LocalBuffer)
      <3>1. /\ UNCHANGED released
            /\ thread' = [thread EXCEPT ![t] = [at |-> "asleep", now |-> clock,
                                                wake |-> Head(times) + windowSizeMs + LocalBuffer]]
        BY <2>3 DEF Sleep
      <3>2. Covers(times, released)
        BY <2>1, PoppedCovers
      <3> HIDE DEF times
      <3>3. Covers(requestTimes, released)'
        BY <2>1, <2>3, <3>1, <3>2 DEF Covers, Recent
      <3>4. \A u \in Threads : thread'[u].at = "asleep" => thread'[u].now = clock
        BY <1>0, <2>2, <3>1
      <3>5. released \in Seq(Nat) /\ Past
        BY <2>1 DEF RateInv
      <3> QED BY <2>1, <3>1, <3>3, <3>4, <3>5 DEF RateInv, Past
    <2>4. CASE requestTimes' = Append(times, clock) /\ Release(t)
      <3>1. \A u \in Threads : thread'[u].at # "asleep"
        BY <1>0, <2>2, <2>4 DEF Release, Idle
      <3>2. \A i \in 1..Len(released) : released[i] <= clock
        BY <2>1 DEF RateInv, Past
      <3> QED BY <1>0, <2>1, <2>4, <3>1, <3>2, ReleaseRate
    <2> QED BY <1>2, <2>3, <2>4 DEF WaitLocal
  <1>3. ASSUME ~serverHeadersFound', NEW t \in Threads, Wake(t) PROVE RateInv'
    <2>1. /\ ~serverHeadersFound /\ Release(t) /\ thread[t].at = "asleep" /\ mutex' = {}
          /\ requestTimes' = Append(PopExpired(requestTimes, clock), thread[t].now)
          /\ UNCHANGED <<clock, serverHeadersFound>>
      BY <1>3 DEF Wake
    <2>2. thread[t].now \in Nat /\ \A i \in 1..Len(released) : released[i] <= thread[t].now
      BY <1>0, <2>1 DEF RateInv, Past, ThreadRecord
    <2>3. \A u \in Threads : thread'[u].at # "asleep"
      BY <2>1 DEF PauseInv, Sleeper
    <2> QED BY <2>1, <2>2, <2>3, ReleaseRate
  <1>4. ASSUME ~serverHeadersFound', NEW t \in Threads, Respond(t) \/ Fail(t) PROVE RateInv'
    <2>1. /\ ~serverHeadersFound /\ UNCHANGED <<clock, requestTimes, released, serverHeadersFound>>
          /\ thread' = [thread EXCEPT ![t] = Idle]
      BY <1>4 DEF Respond, Fail, limiter
    <2>2. \A u \in Threads : thread'[u].at = "asleep" => thread[u].at = "asleep" /\ thread'[u] = thread[u]
      BY <1>0, <2>1 DEF Idle
    <2> QED BY <2>1, <2>2 DEF RateInv, Past, Covers, Recent
  <1>5. CASE Tick
    <2>1. clock' = clock + 1 /\ UNCHANGED <<limiter, thread, released>>
      BY <1>5 DEF Tick
    <2> SUFFICES ASSUME ~serverHeadersFound
                 PROVE  released \in Seq(Nat) /\ Past' /\ Covers(requestTimes, released)'
      BY <2>1 DEF RateInv, limiter
    <2>2. released \in Seq(Nat) /\ Past /\ Covers(requestTimes, released) /\ windowSizeMs \in Nat
      BY LimiterAssumption DEF RateInv
    <2>3. Len(released) \in Nat /\ \A i \in 1..Len(released) : released[i] \in Nat
      BY <2>2, ElementOfSeq
    <2>4. Past'
      BY <1>0, <2>1, <2>2, <2>3 DEF Past
    <2>5. \A i \in 1..(Len(released) - 1) : Recent(released[i])' => Recent(released[i])
      BY <1>0, <2>1, <2>2, <2>3 DEF Recent
    <2>6. Covers(requestTimes, released)'
      BY <2>1, <2>2, <2>5 DEF Covers, limiter
    <2> QED BY <2>2, <2>4, <2>6
  <1>6. CASE UNCHANGED vars
    BY <1>6 DEF vars, limiter, RateInv, Past, Covers, Recent
  <1>7. ASSUME NEW t \in Threads, WaitServer(t) PROVE RateInv'
    BY <1>1, <1>7 DEF WaitServer, limiter
  <1> QED BY <1>1, <1>2, <1>3, <1>4, <1>5, <1>6, <1>7 DEF Next

\* For any number of threads and any limit and window: without the venue's headers, at
\* most one request more than the limit leaves wait() within a window.  The time noted
\* after a sleep is too old, yet no older than the release before it.
THEOREM RateIsNearlyKept == StateSpec => []LocalRateNearly
  <1>1. StateInit => RateInv
    <2> SUFFICES ASSUME Init PROVE RateInv
      BY DEF StateInit
    <2>1. released = <<>> /\ <<>> \in Seq(Nat) /\ Len(<<>>) = 0
      BY DEF Init
    <2> QED BY <2>1 DEF RateInv, Past, Covers
  <1>2. ASSUME PauseInv, PauseInv', RateInv, [StateNext]_stateVars PROVE RateInv'
    <2>1. [Next]_vars
      BY <1>2 DEF StateNext, stateVars, limiterVars
    <2> QED BY <1>2, <2>1, RateStep
  <1>3. PauseInv /\ RateInv => LocalRateNearly
    <2> SUFFICES ASSUME PauseInv, RateInv, ~serverHeadersFound
                 PROVE  Cardinality(InWindow) <= localLimit + 1
      BY DEF LocalRateNearly
    <2>0. /\ released \in Seq(Nat) /\ Len(released) \in Nat /\ DOMAIN released = 1..Len(released)
          /\ Len(requestTimes) \in Nat /\ Len(requestTimes) <= localLimit /\ localLimit \in Nat
          /\ Covers(requestTimes, released)
      BY LenProperties, LimiterAssumption DEF RateInv, PauseInv
    <2>1. CASE InWindow = {}
      BY <2>0, <2>1, FS_EmptySet
    <2>2. CASE InWindow # {}
      <3> DEFINE a == Min(InWindow)
      <3>1. a \in InWindow /\ \A j \in InWindow : a <= j
        <4>1. InWindow \in SUBSET Nat
          BY <2>0 DEF InWindow
        <4> QED BY <2>2, <4>1, LeastNumber
      <3> HIDE DEF a
      <3>2. a \in 1..Len(released) /\ Recent(released[a])
        BY <2>0, <3>1 DEF InWindow
      <3>3. InWindow \subseteq a..Len(released)
        BY <2>0, <3>1, <3>2 DEF InWindow
      <3>4. /\ IsFiniteSet(a..Len(released))
            /\ Cardinality(a..Len(released)) = Len(released) - a + 1
        BY <2>0, <3>2, FS_Interval
      <3>5. Cardinality(InWindow) \in Nat /\ Cardinality(InWindow) <= Len(released) - a + 1
        <4>1. IsFiniteSet(InWindow) /\ Cardinality(InWindow) <= Cardinality(a..Len(released))
          BY <3>3, <3>4, FS_Subset
        <4> QED BY <3>4, <4>1, FS_CardinalityType
      <3>6. Len(released) - a <= localLimit
        <4>1. CASE a = Len(released)
          BY <2>0, <4>1
        <4>2. CASE a # Len(released)
          <5>0. Len(released) \in Nat /\ a \in Nat /\ a >= 1 /\ a <= Len(released)
            BY <2>0, <3>2
          <5>1. a \in 1..(Len(released) - 1)
            BY <4>2, <5>0
          <5>2. Len(requestTimes) - Len(released) + a + 1 >= 1
            BY <2>0, <3>2, <5>1 DEF Covers
          <5> QED BY <2>0, <3>2, <5>2
        <4> QED BY <4>1, <4>2
      <3> QED BY <2>0, <3>2, <3>5, <3>6
    <2> QED BY <2>1, <2>2
  <1> QED BY <1>1, <1>2, <1>3, ThrottleInvariant, PTL DEF StateSpec

-----------------------------------------------------------------------------
(* The clock offset of the signed requests *)

\* Sets of threads.
Size(S) == Cardinality(S)

\* What the proofs use of the cardinality of a set of calls when one is added or removed.
LEMMA SizeFacts ==
  /\ Size(Threads) \in Nat /\ Size({}) = 0
  /\ \A S \in SUBSET Threads :
       /\ Size(S) \in Nat /\ Size(S) <= Size(Threads)
       /\ \A T \in SUBSET S : Size(T) <= Size(S)
       /\ \A t \in S : Size(S \ {t}) = Size(S) - 1
       /\ \A t \in Threads : t \notin S => Size(S) < Size(Threads)
  <1>1. IsFiniteSet(Threads)
    BY SyncAssumption
  <1>2. Size(Threads) \in Nat /\ Size({}) = 0
    BY <1>1, FS_CardinalityType, FS_EmptySet DEF Size
  <1> SUFFICES ASSUME NEW S \in SUBSET Threads
               PROVE  /\ Size(S) \in Nat /\ Size(S) <= Size(Threads)
                      /\ \A T \in SUBSET S : Size(T) <= Size(S)
                      /\ \A t \in S : Size(S \ {t}) = Size(S) - 1
                      /\ \A t \in Threads : t \notin S => Size(S) < Size(Threads)
    BY <1>2
  <1>3. IsFiniteSet(S) /\ Size(S) <= Size(Threads) /\ (Size(Threads) = Size(S) => S = Threads)
    BY <1>1, FS_Subset DEF Size
  <1>4. Size(S) \in Nat
    BY <1>3, FS_CardinalityType DEF Size
  <1>5. \A T \in SUBSET S : Size(T) <= Size(S)
    BY <1>3, FS_Subset DEF Size
  <1>6. \A t \in S : Size(S \ {t}) = Size(S) - 1
    BY <1>3, FS_RemoveElement DEF Size
  <1>7. \A t \in Threads : t \notin S => Size(S) < Size(Threads)
    BY <1>2, <1>3, <1>4
  <1> QED BY <1>3, <1>4, <1>5, <1>6, <1>7

SessionType ==
  [timeOffset : Int, lastTimeSync : Int, measured : BOOLEAN, tried : Int, triedSkew : Int,
   seen : Int, tries : Nat]
SignerType ==
  [at : {"idle", "check", "mark", "stamp", "asking", "answered", "sent", "judged"},
   sess : Nat, depth : Nat, seen : Int, now : Int, answer : Int, since : Int, stamp : Int,
   measured : BOOLEAN, accepted : BOOLEAN]

\* The types; the clock is past its epoch.
SyncType ==
  /\ time \in Nat /\ SyncStart <= time /\ skew \in Skews /\ jumps \in Nat
  /\ session \in Seq(SessionType) /\ Len(session) >= 1
  /\ signer \in [Threads -> SignerType]
  /\ \A t \in Threads : signer[t].sess \in 1..Len(session)

\* A measured offset errs by the time the answer took; the note is the local time of an
\* attempt, and not what those who noted it had read.
SessionInv(i) ==
  /\ session[i].measured = TRUE =>
       session[i].timeOffset + skew <= 0 /\ session[i].timeOffset + skew >= 0 - Lag
  /\ session[i].lastTimeSync # 0 => session[i].lastTimeSync - session[i].triedSkew <= session[i].tried
  /\ session[i].tries > 0 => session[i].lastTimeSync # session[i].seen
  /\ session[i].tried <= time

\* What a thread knows at each of its steps.
SignerInv(t) ==
  LET th == signer[t]
      se == session[signer[t].sess]
  IN  /\ th.at = "mark" => /\ th.now > 0 /\ (th.seen = 0 \/ th.now > th.seen)
                           /\ jumps = 0 => th.now = time + skew
      /\ th.at \in {"asking", "answered"} => th.depth >= 1
      /\ th.at = "answered" => /\ th.since = th.answer
                               /\ th.answer <= time /\ time <= th.answer + Lag
      /\ th.at = "sent" => /\ th.since <= time /\ time <= th.since + Lag
                           /\ th.measured = TRUE => th.since - Lag <= th.stamp /\ th.stamp <= th.since
      /\ th.at = "judged" /\ th.measured = TRUE => th.accepted = TRUE
      /\ th.at = "stamp" =>
           \/ time - se.tried < TIME_SYNC_INTERVAL
           \/ time - se.tried < TIME_SYNC_INTERVAL + se.triedSkew - (th.now - time)

\* The threads about to note an attempt that read what the last ones to note it had read:
\* they and the attempts noted since are no more than there are threads.
Pending(i) == {t \in Threads : signer[t].at = "mark" /\ signer[t].sess = i /\ signer[t].seen = session[i].seen}
StormInv(i) == session[i].tries + Size(Pending(i)) <= Size(Threads)

\* The notes that will not be recent when they are read: the session's, and those about to
\* be made.  Only such a note lets a thread nest one request more, and only the setting of
\* the clock makes more of them while a thread is on its way to the stamp.
Old(i)   == IF Sync!Recent(session[i].lastTimeSync) THEN 0 ELSE 1
Stale(i) == {t \in Threads : signer[t].at = "mark" /\ signer[t].sess = i /\ ~Sync!Recent(signer[t].now)}
Deepest  == 1 + jumps * Size(Threads)
DepthInv(t) ==
  LET th == signer[t]
  IN  /\ th.depth <= Deepest
      /\ th.at = "check" => th.depth + Size(Stale(th.sess)) + Old(th.sess) <= Deepest
      /\ th.at = "mark" => th.depth + 1 + Size(Stale(th.sess)) <= Deepest

SyncInv ==
  /\ SyncType
  /\ \A i \in 1..Len(session) : SessionInv(i) /\ StormInv(i)
  /\ \A t \in Threads : SignerInv(t) /\ DepthInv(t)

\* The depth a thread may reach.
LEMMA DeepestFacts ==
  ASSUME SyncType
  PROVE  Deepest \in Nat /\ Deepest >= 1 /\ (jumps # 0 => Deepest >= 1 + Size(Threads))
  <1> DEFINE n == Size(Threads)
  <1>1. n \in Nat /\ jumps \in Nat
    BY SizeFacts DEF SyncType
  <1> HIDE DEF n
  <1>2. jumps * n \in Nat
    BY <1>1
  <1>3. ASSUME jumps # 0 PROVE jumps * n >= n
    <2>1. PICK k \in Nat : jumps = k + 1
      BY <1>1, <1>3
    <2>2. jumps * n = k * n + n /\ k * n >= 0
      BY <1>1, <2>1
    <2> QED BY <1>1, <2>2
  <1>4. Deepest = 1 + jumps * n
    BY DEF Deepest, n
  <1> QED BY <1>1, <1>2, <1>3, <1>4 DEF n

\* What is known at the start.
LEMMA SyncInit == Sync!Init => SyncInv
  <1> SUFFICES ASSUME Sync!Init PROVE SyncInv  OBVIOUS
  <1>1. /\ time = SyncStart /\ skew \in Skews /\ jumps = 0
        /\ session = <<[timeOffset |-> 0, lastTimeSync |-> 0, measured |-> FALSE,
                        tried |-> SyncStart, triedSkew |-> 0, seen |-> 0, tries |-> 0]>>
    BY DEF Sync!Init, Sync!NewSession, Sync!Session
  <1>2. \A t \in Threads : signer[t] =
          [at |-> "idle", sess |-> 1, depth |-> 0, seen |-> 0, now |-> 0, answer |-> 0,
           since |-> 0, stamp |-> 0, measured |-> FALSE, accepted |-> TRUE]
    BY DEF Sync!Init, Sync!NoThread, Sync!Signing
  <1>3. DOMAIN signer = Threads /\ signer = [t \in Threads |-> signer[t]]
    BY DEF Sync!Init
  <1>4. SyncType
    <2>1. signer \in [Threads -> SignerType] /\ \A t \in Threads : signer[t].sess = 1
      <3>0. [at |-> "idle", sess |-> 1, depth |-> 0, seen |-> 0, now |-> 0, answer |-> 0,
             since |-> 0, stamp |-> 0, measured |-> FALSE, accepted |-> TRUE] \in SignerType
        BY DEF SignerType
      <3>1. \A t \in Threads : signer[t] \in SignerType /\ signer[t].sess = 1
        BY <1>2, <3>0
      <3> QED BY <1>3, <3>1
    <2>2. session \in Seq(SessionType) /\ Len(session) = 1
      BY <1>1, SyncAssumption DEF SessionType
    <2> QED BY <1>1, <2>1, <2>2, SyncAssumption DEF SyncType
  <1>5. \A i \in 1..Len(session) : SessionInv(i) /\ StormInv(i)
    <2> SUFFICES ASSUME NEW i \in 1..Len(session) PROVE SessionInv(i) /\ StormInv(i)  OBVIOUS
    <2>1. i = 1
      BY <1>1
    <2>2. SessionInv(i)
      BY <1>1, <2>1, SyncAssumption DEF SessionInv
    <2>3. Pending(i) = {}
      BY <1>2 DEF Pending
    <2> QED BY <1>1, <2>1, <2>2, <2>3, SizeFacts DEF StormInv
  <1>6. \A t \in Threads : SignerInv(t) /\ DepthInv(t)
    BY <1>2, <1>4, DeepestFacts DEF SignerInv, DepthInv
  <1> QED BY <1>4, <1>5, <1>6 DEF SyncInv

\* A step of a thread that neither was nor will be about to note an attempt, and that
\* leaves the notes as they are, disturbs no other thread.
LEMMA ThreadMoves ==
  ASSUME SyncInv, NEW t \in Threads, NEW r \in SignerType, signer' = [signer EXCEPT ![t] = r],
         UNCHANGED <<time, skew, jumps>>, signer[t].at # "mark", r.at # "mark", r.sess \in 1..Len(session),
         session' \in Seq(SessionType), Len(session') = Len(session),
         \A i \in 1..Len(session) :
           /\ session'[i].lastTimeSync = session[i].lastTimeSync /\ session'[i].seen = session[i].seen
           /\ session'[i].tries = session[i].tries /\ session'[i].triedSkew = session[i].triedSkew
           /\ session'[i].tried \in {session[i].tried, time} /\ SessionInv(i)',
         SignerInv(t)', r.depth <= Deepest,
         r.at = "check" => r.depth + Size(Stale(r.sess)) + Old(r.sess) <= Deepest
  PROVE  SyncInv'
  <1>1. signer'[t] = r /\ \A u \in Threads : u # t => signer'[u] = signer[u]
    BY DEF SyncInv, SyncType
  <1>2. \A x : Sync!Recent(x)' <=> Sync!Recent(x)
    BY DEF Sync!Recent, Sync!currentTime
  <1>3. SyncType'
    BY <1>1 DEF SyncInv, SyncType
  <1>4. \A i \in 1..Len(session) : Pending(i)' = Pending(i) /\ Stale(i)' = Stale(i) /\ Old(i)' = Old(i)
    <2> SUFFICES ASSUME NEW i \in 1..Len(session)
                 PROVE  Pending(i)' = Pending(i) /\ Stale(i)' = Stale(i) /\ Old(i)' = Old(i)
      OBVIOUS
    <2>1. Pending(i)' = Pending(i)
      BY <1>1 DEF Pending
    <2>2. Stale(i)' = Stale(i)
      BY <1>1, <1>2 DEF Stale
    <2>3. Old(i)' = Old(i)
      BY <1>2 DEF Old
    <2> QED BY <2>1, <2>2, <2>3
  <1>5. \A i \in 1..Len(session) : StormInv(i)'
    BY <1>4 DEF SyncInv, StormInv, Size
  <1>6. Deepest' = Deepest
    BY DEF Deepest, Size
  <1>7. DepthInv(t)'
    BY <1>1, <1>4, <1>6 DEF DepthInv, Size
  <1>8. ASSUME NEW u \in Threads, u # t PROVE SignerInv(u)' /\ DepthInv(u)'
    <2>1. signer[u].sess \in 1..Len(session) /\ SignerInv(u) /\ DepthInv(u) /\ signer'[u] = signer[u]
      BY <1>1, <1>8 DEF SyncInv, SyncType
    <2>2. DepthInv(u)'
      BY <1>4, <1>6, <2>1 DEF DepthInv, Size
    <2>3. SignerInv(u)'
      <3>1. time - time = 0 /\ 0 < TIME_SYNC_INTERVAL
        BY SyncAssumption DEF SyncInv, SyncType
      <3> QED BY <2>1, <3>1 DEF SignerInv
    <2> QED BY <2>2, <2>3
  <1> QED BY <1>3, <1>5, <1>7, <1>8 DEF SyncInv

\* The same, where the sessions stay as they are.
LEMMA ThreadMovesOnly ==
  ASSUME SyncInv, NEW t \in Threads, NEW r \in SignerType, signer' = [signer EXCEPT ![t] = r],
         UNCHANGED <<session, time, skew, jumps>>, signer[t].at # "mark", r.at # "mark",
         r.sess \in 1..Len(session), SignerInv(t)', r.depth <= Deepest,
         r.at = "check" => r.depth + Size(Stale(r.sess)) + Old(r.sess) <= Deepest
  PROVE  SyncInv'
  <1>1. \A i \in 1..Len(session) : SessionInv(i)'
    BY DEF SyncInv, SessionInv
  <1> QED BY <1>1, ThreadMoves DEF SyncInv, SyncType

\* The local time can be read, and is recent.
LEMMA NowIsRecent == ASSUME SyncInv PROVE time + skew \in Int /\ time + skew > 0 /\ Sync!Recent(time + skew)
  BY SyncAssumption DEF SyncInv, SyncType, Sync!Recent, Sync!currentTime

\* A request begins.
LEMMA SyncBeginStep == ASSUME SyncInv, NEW t \in Threads, Sync!Begin(t) PROVE SyncInv'
  <1> DEFINE r == [at |-> "check", sess |-> Len(session), depth |-> 0, seen |-> 0, now |-> 0, answer |-> 0,
                   since |-> 0, stamp |-> 0, measured |-> FALSE, accepted |-> TRUE]
  <1>1. signer[t].at = "idle" /\ signer' = [signer EXCEPT ![t] = r] /\ UNCHANGED <<session, time, skew, jumps>>
    BY DEF Sync!Begin, Sync!At, Sync!Signing
  <1>2. r \in SignerType /\ r.sess \in 1..Len(session)
    <2>1. Len(session) \in Nat /\ Len(session) \in 1..Len(session)
      BY LenProperties DEF SyncInv, SyncType
    <2> QED BY <2>1 DEF SignerType
  <1>3. signer'[t] = r
    BY <1>1 DEF SyncInv, SyncType
  <1>4. SignerInv(t)'
    BY <1>3 DEF SignerInv
  <1>5. Size(Stale(Len(session))) + Old(Len(session)) <= Deepest
    <2>1. Deepest \in Nat /\ Deepest >= 1 /\ (jumps # 0 => Deepest >= 1 + Size(Threads))
      BY DeepestFacts DEF SyncInv
    <2>2. Old(Len(session)) \in {0, 1}
      BY DEF Old
    <2>3. Stale(Len(session)) \in SUBSET Threads
      BY DEF Stale
    <2>4. Size(Stale(Len(session))) \in Nat /\ Size(Stale(Len(session))) <= Size(Threads)
      BY <2>3, SizeFacts
    <2>5. ASSUME jumps = 0 PROVE Size(Stale(Len(session))) = 0
      <3>1. \A u \in Threads : signer[u].at = "mark" => Sync!Recent(signer[u].now)
        BY <2>5, NowIsRecent DEF SyncInv, SignerInv
      <3>2. Stale(Len(session)) = {}
        BY <3>1 DEF Stale
      <3> QED BY <3>2, SizeFacts
    <2> QED BY <2>1, <2>2, <2>4, <2>5, SizeFacts
  <1>6. 0 <= Deepest /\ 0 + Size(Stale(Len(session))) + Old(Len(session)) <= Deepest
    <2>1. Deepest \in Nat
      BY DeepestFacts DEF SyncInv
    <2>2. Size(Stale(Len(session))) \in Nat
      BY SizeFacts DEF Stale
    <2> QED BY <1>5, <2>1, <2>2
  <1> QED BY <1>1, <1>2, <1>4, <1>6, ThreadMovesOnly

\* A thread's session is one of the sessions, and what is known of it.
LEMMA OwnSession ==
  ASSUME SyncInv, NEW t \in Threads
  PROVE  /\ signer[t] \in SignerType /\ signer[t].sess \in 1..Len(session) /\ Len(session) \in Nat
         /\ session[signer[t].sess] \in SessionType /\ SessionInv(signer[t].sess) /\ StormInv(signer[t].sess)
         /\ SignerInv(t) /\ DepthInv(t)
  BY LenProperties, ElementOfSeq DEF SyncInv, SyncType

\* ensureTimeSync() finds a recent note, or goes on to make one.
LEMMA SyncCheckStep == ASSUME SyncInv, NEW t \in Threads, Sync!Check(t) PROVE SyncInv'
  <1>2. /\ signer[t] \in SignerType /\ signer[t].sess \in 1..Len(session) /\ Len(session) \in Nat
        /\ session[signer[t].sess] \in SessionType
        /\ SessionInv(signer[t].sess) /\ StormInv(signer[t].sess) /\ DepthInv(t)
    BY OwnSession
  <1>i. PICK i0 \in 1..Len(session) : i0 = signer[t].sess
    BY <1>2
  <1>d. PICK depth \in Nat : depth = signer[t].depth
    BY <1>2 DEF SignerType
  <1>l. PICK last \in Int : last = session[i0].lastTimeSync
    BY <1>2, <1>i DEF SessionType
  <1>3. i0 \in Nat /\ time \in Nat /\ skew \in Int /\ time + skew \in Int /\ TIME_SYNC_INTERVAL \in Nat \ {0}
    BY <1>2, <1>i, SyncAssumption DEF SyncInv, SyncType
  <1>n. PICK now \in Int : now = time + skew
    BY <1>3
  <1> DEFINE r(where) == [at |-> where, sess |-> i0, depth |-> depth, seen |-> last, now |-> now,
                          answer |-> 0, since |-> 0, stamp |-> 0, measured |-> FALSE, accepted |-> TRUE]
  <1>1. /\ signer[t].at = "check" /\ UNCHANGED <<session, time, skew, jumps>>
        /\ \/ Sync!Recent(last) /\ signer' = [signer EXCEPT ![t] = r("stamp")]
           \/ ~Sync!Recent(last) /\ signer' = [signer EXCEPT ![t] = r("mark")]
    BY <1>i, <1>d, <1>l, <1>n DEF Sync!Check, Sync!At, Sync!Mine, Sync!Signing, Sync!currentTime
  <1>4. r("stamp") \in SignerType /\ r("mark") \in SignerType
    BY <1>3 DEF SignerType
  <1>5. CASE Sync!Recent(last) /\ signer' = [signer EXCEPT ![t] = r("stamp")]
    <2>1. signer'[t] = r("stamp")
      BY <1>5 DEF SyncInv, SyncType
    <2>2. last # 0 /\ now - last < TIME_SYNC_INTERVAL
      BY <1>n, <1>5 DEF Sync!Recent, Sync!currentTime
    <2>3. last - session[i0].triedSkew <= session[i0].tried
      BY <1>2, <1>i, <1>l, <2>2 DEF SessionInv
    <2>4. time - session[i0].tried < TIME_SYNC_INTERVAL + session[i0].triedSkew - (now - time)
      <3>1. PICK a \in Int, b \in Int : a = session[i0].triedSkew /\ b = session[i0].tried
        BY <1>2, <1>i DEF SessionType
      <3>2. PICK tm \in Nat : tm = time
        BY <1>3
      <3>3. last - a <= b
        BY <2>3, <3>1
      <3>4. tm - b < TIME_SYNC_INTERVAL + a - (now - tm)
        BY <1>3, <2>2, <3>3
      <3> QED BY <3>1, <3>2, <3>4
    <2>5. SignerInv(t)'
      BY <1>1, <1>i, <2>1, <2>4 DEF SignerInv
    <2>6. depth <= Deepest
      BY <1>2, <1>d DEF DepthInv
    <2> QED BY <1>1, <1>2, <1>4, <1>5, <2>5, <2>6, ThreadMovesOnly
  <1>6. CASE ~Sync!Recent(last) /\ signer' = [signer EXCEPT ![t] = r("mark")]
    <2>1. signer'[t] = r("mark") /\ \A u \in Threads : u # t => signer'[u] = signer[u]
      BY <1>6 DEF SyncInv, SyncType
    <2> HIDE DEF r
    <2>2. r("mark").at = "mark" /\ r("mark").sess = i0 /\ r("mark").seen = last /\ r("mark").now = now
          /\ r("mark").depth = depth
      BY DEF r
    <2>3. SyncType'
      BY <1>1, <1>2, <1>4, <1>6, <2>1, <2>2 DEF SyncInv, SyncType
    <2>4. \A x : Sync!Recent(x)' <=> Sync!Recent(x)
      BY <1>1 DEF Sync!Recent, Sync!currentTime
    <2>5. \A i \in 1..Len(session) : Stale(i)' = Stale(i) /\ Old(i)' = Old(i)
      <3> SUFFICES ASSUME NEW i \in 1..Len(session) PROVE Stale(i)' = Stale(i) /\ Old(i)' = Old(i)  OBVIOUS
      <3>1. Stale(i)' = Stale(i)
        BY <1>1, <1>n, <2>1, <2>2, <2>4, NowIsRecent DEF Stale
      <3>2. Old(i)' = Old(i)
        BY <1>1, <2>4 DEF Old
      <3> QED BY <3>1, <3>2
    <2>6. ASSUME NEW i \in 1..Len(session) PROVE SessionInv(i)' /\ StormInv(i)'
      <3>1. SessionInv(i)'
        BY <1>1 DEF SyncInv, SessionInv
      <3>2. session[i] \in SessionType /\ StormInv(i) /\ SessionInv(i)
        BY ElementOfSeq DEF SyncInv, SyncType
      <3>3. CASE i # i0 \/ session[i].tries > 0
        <4>1. i = i0 => last # session[i].seen
          BY <1>l, <3>2, <3>3 DEF SessionInv
        <4>2. Pending(i)' = Pending(i)
          BY <1>1, <2>1, <2>2, <4>1 DEF Pending
        <4> QED BY <1>1, <3>1, <3>2, <4>2 DEF StormInv, Size
      <3>4. CASE i = i0 /\ ~(session[i].tries > 0)
        <4>1. session[i].tries = 0
          BY <3>2, <3>4 DEF SessionType
        <4>2. Pending(i)' \in SUBSET Threads
          BY DEF Pending
        <4>3. Size(Pending(i)') \in Nat /\ Size(Pending(i)') <= Size(Threads)
          BY <4>2, SizeFacts
        <4> QED BY <1>1, <3>1, <4>1, <4>3 DEF StormInv, Size
      <3> QED BY <3>3, <3>4
    <2>7. SignerInv(t)'
      <3>1. last = 0 \/ now > last
        BY <1>3, <1>n, <1>6 DEF Sync!Recent, Sync!currentTime
      <3> QED BY <1>1, <1>n, <2>1, <2>2, <3>1, NowIsRecent DEF SignerInv
    <2>8. DepthInv(t)'
      <3>1. depth + Size(Stale(i0)) + 1 <= Deepest /\ depth <= Deepest
        BY <1>1, <1>2, <1>i, <1>d, <1>l, <1>6 DEF DepthInv, Old
      <3>2. Size(Stale(i0)) \in Nat /\ Deepest \in Nat
        BY SizeFacts, DeepestFacts DEF Stale, SyncInv
      <3>3. depth + 1 + Size(Stale(i0)) <= Deepest
        BY <1>3, <3>1, <3>2
      <3>4. Deepest' = Deepest /\ Stale(i0)' = Stale(i0)
        <4>1. Deepest' = Deepest
          BY <1>1 DEF Deepest, Size
        <4> QED BY <2>5, <4>1
      <3> QED BY <2>1, <2>2, <3>1, <3>3, <3>4 DEF DepthInv, Size
    <2>9. ASSUME NEW u \in Threads, u # t PROVE SignerInv(u)' /\ DepthInv(u)'
      <3>1. SignerInv(u) /\ DepthInv(u) /\ signer[u].sess \in 1..Len(session) /\ signer'[u] = signer[u]
        BY <2>1, <2>9, OwnSession
      <3>2. SignerInv(u)'
        BY <1>1, <3>1 DEF SignerInv
      <3>3. DepthInv(u)'
        BY <1>1, <2>5, <3>1 DEF DepthInv, Size, Deepest
      <3> QED BY <3>2, <3>3
    <2> QED BY <1>1, <2>3, <2>6, <2>7, <2>8, <2>9 DEF SyncInv
  <1> QED BY <1>1, <1>5, <1>6

\* The attempt is noted.
LEMMA SyncMarkStep == ASSUME SyncInv, NEW t \in Threads, Sync!Mark(t) PROVE SyncInv'
  <1>2. /\ signer[t] \in SignerType /\ signer[t].sess \in 1..Len(session) /\ Len(session) \in Nat
        /\ session[signer[t].sess] \in SessionType
        /\ SessionInv(signer[t].sess) /\ StormInv(signer[t].sess) /\ SignerInv(t) /\ DepthInv(t)
    BY OwnSession
  <1>i. PICK i0 \in 1..Len(session) : i0 = signer[t].sess
    BY <1>2
  <1>d. PICK depth \in Nat, now \in Int, seen \in Int :
          depth = signer[t].depth /\ now = signer[t].now /\ seen = signer[t].seen
    BY <1>2 DEF SignerType
  <1>m. PICK measured \in BOOLEAN : measured = session[i0].measured
    BY <1>2, <1>i DEF SessionType
  <1>o. PICK offset \in Int, tried0 \in Nat, seen0 \in Int :
          offset = session[i0].timeOffset /\ tried0 = session[i0].tries /\ seen0 = session[i0].seen
    BY <1>2, <1>i DEF SessionType
  <1>s. PICK tm \in Nat : tm = time
    BY DEF SyncInv, SyncType
  <1> DEFINE tries == IF tried0 > 0 /\ seen0 = seen THEN tried0 + 1 ELSE 1
             r == [at |-> "check", sess |-> i0, depth |-> depth + 1, seen |-> 0, now |-> 0,
                   answer |-> 0, since |-> 0, stamp |-> 0, measured |-> FALSE, accepted |-> TRUE]
             se == [timeOffset |-> offset, lastTimeSync |-> now, measured |-> measured,
                    tried |-> tm, triedSkew |-> now - tm, seen |-> seen, tries |-> tries]
  <1>1. /\ signer[t].at = "mark" /\ UNCHANGED <<time, skew, jumps>>
        /\ session' = [session EXCEPT ![i0] = se] /\ signer' = [signer EXCEPT ![t] = r]
    BY <1>i, <1>d, <1>m, <1>o, <1>s DEF Sync!Mark, Sync!At, Sync!Note, Sync!Session, Sync!Signing
  <1>3. tries \in Nat
    OBVIOUS
  <1> HIDE DEF tries
  <1>4. r \in SignerType /\ i0 \in Nat
    BY <1>2 DEF SignerType
  <1>5. se \in SessionType
    BY <1>3 DEF SessionType
  <1>6. r.at = "check" /\ r.sess = i0 /\ r.depth = depth + 1
    OBVIOUS
  <1>7. /\ se.lastTimeSync = now /\ se.tried = tm /\ se.triedSkew = now - tm /\ se.seen = seen
        /\ se.tries = tries /\ se.timeOffset = offset /\ se.measured = measured
    OBVIOUS
  <1> HIDE DEF r, se
  <1>8. signer'[t] = r /\ \A u \in Threads : u # t => signer'[u] = signer[u]
    BY <1>1 DEF SyncInv, SyncType
  <1>9. /\ session' \in Seq(SessionType) /\ Len(session') = Len(session) /\ session'[i0] = se
        /\ \A i \in 1..Len(session) : i # i0 => session'[i] = session[i]
    BY <1>1, <1>5, ExceptSeq DEF SyncInv, SyncType
  <1>10. SyncType'
    BY <1>1, <1>2, <1>4, <1>6, <1>8, <1>9 DEF SyncInv, SyncType
  <1>11. now > 0 /\ (seen = 0 \/ now > seen)
    BY <1>1, <1>2, <1>d DEF SignerInv
  <1>12. SessionInv(i0)'
    <2>1. measured = TRUE => offset + skew <= 0 /\ offset + skew >= 0 - Lag
      BY <1>2, <1>i, <1>m, <1>o DEF SessionInv
    <2>2. now - (now - tm) <= tm /\ now # seen
      BY <1>11
    <2> QED BY <1>1, <1>7, <1>9, <1>s, <2>1, <2>2 DEF SessionInv
  <1>13. StormInv(i0)'
    <2>1. Pending(i0)' \in SUBSET (Threads \ {t})
      BY <1>6, <1>8 DEF Pending
    <2>2. CASE tried0 > 0 /\ seen0 = seen
      <3>1. Pending(i0)' = Pending(i0) \ {t} /\ t \in Pending(i0)
        BY <1>1, <1>6, <1>7, <1>8, <1>9, <1>i, <1>d, <1>o, <2>2 DEF Pending
      <3>2. Pending(i0) \in SUBSET Threads
        BY DEF Pending
      <3>3. Size(Pending(i0)) \in Nat /\ Size(Pending(i0)') = Size(Pending(i0)) - 1
        BY <3>1, <3>2, SizeFacts
      <3>4. tried0 + Size(Pending(i0)) <= Size(Threads) /\ tries = tried0 + 1 /\ Size(Threads) \in Nat
        BY <1>2, <1>i, <1>o, <2>2, SizeFacts DEF StormInv, tries
      <3>5. tries + Size(Pending(i0)') <= Size(Threads)
        BY <3>3, <3>4
      <3> QED BY <1>7, <1>9, <3>5 DEF StormInv, Size
    <2>3. CASE ~(tried0 > 0 /\ seen0 = seen)
      <3>1. tries = 1
        BY <2>3 DEF tries
      <3>2. Size(Pending(i0)') \in Nat /\ Size(Pending(i0)') < Size(Threads) /\ Size(Threads) \in Nat
        BY <2>1, SizeFacts
      <3>3. tries + Size(Pending(i0)') <= Size(Threads)
        BY <3>1, <3>2
      <3> QED BY <1>7, <1>9, <3>3 DEF StormInv, Size
    <2> QED BY <2>2, <2>3
  <1>14. ASSUME NEW i \in 1..Len(session), i # i0 PROVE SessionInv(i)' /\ StormInv(i)' /\ Stale(i)' = Stale(i) /\ Old(i)' = Old(i)
    <2>0. session'[i] = session[i] /\ signer[t].sess # i /\ r.sess # i
      BY <1>6, <1>9, <1>14, <1>i
    <2>1. Pending(i)' = Pending(i)
      BY <1>8, <2>0 DEF Pending
    <2>2. Stale(i)' = Stale(i)
      BY <1>1, <1>8, <2>0 DEF Stale, Sync!Recent, Sync!currentTime
    <2>3. Old(i)' = Old(i)
      BY <1>1, <2>0 DEF Old, Sync!Recent, Sync!currentTime
    <2>4. SessionInv(i)'
      BY <1>1, <2>0 DEF SyncInv, SessionInv
    <2>5. StormInv(i)'
      BY <2>0, <2>1 DEF SyncInv, StormInv, Size
    <2> QED BY <2>2, <2>3, <2>4, <2>5
  <1>15. /\ Size(Stale(i0)') \in Nat /\ Size(Stale(i0)) \in Nat /\ Old(i0)' \in {0, 1} /\ Old(i0) \in {0, 1}
         /\ Size(Stale(i0)') + Old(i0)' <= Size(Stale(i0))
    <2>1. Stale(i0)' = Stale(i0) \ {t}
      BY <1>1, <1>6, <1>8 DEF Stale, Sync!Recent, Sync!currentTime
    <2>2. Stale(i0) \in SUBSET Threads /\ Stale(i0)' \in SUBSET Threads
      BY DEF Stale
    <2>3. Old(i0) \in {0, 1} /\ Old(i0)' \in {0, 1}
      BY DEF Old
    <2>4. Size(Stale(i0)) \in Nat /\ Size(Stale(i0)') \in Nat
      BY <2>2, SizeFacts
    <2>5. CASE t \in Stale(i0)
      <3>1. Size(Stale(i0)') = Size(Stale(i0)) - 1
        BY <2>1, <2>2, <2>5, SizeFacts
      <3> QED BY <2>3, <2>4, <3>1
    <2>6. CASE t \notin Stale(i0)
      <3>1. Stale(i0)' = Stale(i0)
        BY <2>1, <2>6
      <3>2. Sync!Recent(now)
        BY <1>1, <1>i, <1>d, <2>6 DEF Stale
      <3>3. Old(i0)' = 0
        BY <1>1, <1>7, <1>9, <3>2 DEF Old, Sync!Recent, Sync!currentTime
      <3> QED BY <2>3, <2>4, <3>1, <3>3
    <2> QED BY <2>5, <2>6
  <1>16. Deepest' = Deepest /\ Deepest \in Nat
    BY <1>1, DeepestFacts DEF Deepest, Size, SyncInv
  <1>17. SignerInv(t)' /\ DepthInv(t)'
    <2>1. depth + 1 + Size(Stale(i0)) <= Deepest
      BY <1>1, <1>2, <1>i, <1>d DEF DepthInv
    <2>2. depth + 1 <= Deepest /\ depth + 1 + Size(Stale(i0)') + Old(i0)' <= Deepest
      BY <1>15, <1>16, <2>1
    <2>3. DepthInv(t)'
      BY <1>6, <1>8, <1>16, <2>2 DEF DepthInv, Size
    <2> QED BY <1>6, <1>8, <2>3 DEF SignerInv
  <1>18. ASSUME NEW u \in Threads, u # t PROVE SignerInv(u)' /\ DepthInv(u)'
    <2>1. /\ signer[u] \in SignerType /\ signer[u].sess \in 1..Len(session)
          /\ SignerInv(u) /\ DepthInv(u) /\ signer'[u] = signer[u]
      BY <1>8, <1>18, OwnSession
    <2>2. PICK j \in 1..Len(session) : j = signer[u].sess
      BY <2>1
    <2>3. SignerInv(u)'
      <3>1. tm - tm < TIME_SYNC_INTERVAL
        BY SyncAssumption
      <3>2. CASE j = i0
        <4>1. session'[signer'[u].sess] = se
          BY <1>9, <2>1, <2>2, <3>2
        <4>2. time' - session'[signer'[u].sess].tried < TIME_SYNC_INTERVAL
          BY <1>1, <1>7, <1>s, <3>1, <4>1
        <4> QED BY <1>1, <2>1, <4>2 DEF SignerInv
      <3>3. CASE j # i0
        BY <1>1, <1>9, <2>1, <2>2, <3>3 DEF SignerInv
      <3> QED BY <3>2, <3>3
    <2>4. DepthInv(u)'
      <3>1. CASE j # i0
        BY <1>14, <1>16, <2>1, <2>2, <3>1 DEF DepthInv, Size
      <3>2. CASE j = i0
        <4>1. PICK d \in Nat : d = signer[u].depth
          BY <2>1 DEF SignerType
        <4>2. /\ d <= Deepest
              /\ signer[u].at = "check" => d + Size(Stale(i0)) + Old(i0) <= Deepest
              /\ signer[u].at = "mark" => d + 1 + Size(Stale(i0)) <= Deepest
          BY <2>1, <2>2, <3>2, <4>1 DEF DepthInv
        <4>3. /\ signer[u].at = "check" => d + Size(Stale(i0)') + Old(i0)' <= Deepest
              /\ signer[u].at = "mark" => d + 1 + Size(Stale(i0)') <= Deepest
          BY <1>15, <1>16, <4>2
        <4> QED BY <1>16, <2>1, <2>2, <3>2, <4>1, <4>2, <4>3 DEF DepthInv, Size
      <3> QED BY <3>1, <3>2
    <2> QED BY <2>3, <2>4
  <1> QED BY <1>9, <1>10, <1>12, <1>13, <1>14, <1>17, <1>18 DEF SyncInv

\* The request is stamped and leaves.
LEMMA SyncStampStep == ASSUME SyncInv, NEW t \in Threads, Sync!Stamp(t) PROVE SyncInv'
  <1>2. /\ signer[t] \in SignerType /\ signer[t].sess \in 1..Len(session) /\ Len(session) \in Nat
        /\ session[signer[t].sess] \in SessionType /\ SessionInv(signer[t].sess) /\ DepthInv(t)
    BY OwnSession
  <1>i. PICK i0 \in 1..Len(session), depth \in Nat : i0 = signer[t].sess /\ depth = signer[t].depth
    BY <1>2 DEF SignerType
  <1>m. PICK measured \in BOOLEAN, offset \in Int : measured = session[i0].measured /\ offset = session[i0].timeOffset
    BY <1>2, <1>i DEF SessionType
  <1>s. PICK tm \in Nat, sk \in Int : tm = time /\ sk = skew
    BY SyncAssumption DEF SyncInv, SyncType
  <1> DEFINE where == IF depth = 0 THEN "sent" ELSE "asking"
             r == [at |-> where, sess |-> i0, depth |-> depth, seen |-> 0, now |-> 0, answer |-> 0,
                   since |-> tm, stamp |-> (tm + sk) + offset, measured |-> measured, accepted |-> TRUE]
  <1>1. /\ signer[t].at = "stamp" /\ UNCHANGED <<session, time, skew, jumps>>
        /\ signer' = [signer EXCEPT ![t] = r]
    BY <1>i, <1>m, <1>s DEF Sync!Stamp, Sync!At, Sync!Mine, Sync!Waiting, Sync!signingTimestamp,
       Sync!currentTime
  <1>3. where \in {"sent", "asking"} /\ (where = "asking" => depth >= 1)
    OBVIOUS
  <1> HIDE DEF where
  <1>4. r \in SignerType /\ r.at # "mark" /\ r.at # "check" /\ r.sess \in 1..Len(session) /\ r.depth = depth
    BY <1>2, <1>3 DEF SignerType
  <1>5. signer'[t] = r
    BY <1>1 DEF SyncInv, SyncType
  <1>6. measured = TRUE => tm - Lag <= (tm + sk) + offset /\ (tm + sk) + offset <= tm
    <2>1. measured = TRUE => offset + sk <= 0 /\ offset + sk >= 0 - Lag
      BY <1>2, <1>i, <1>m, <1>s DEF SessionInv
    <2> QED BY <2>1, SyncAssumption
  <1>7. tm <= tm /\ tm <= tm + Lag
    BY SyncAssumption
  <1>8. SignerInv(t)'
    BY <1>1, <1>3, <1>5, <1>6, <1>7, <1>s DEF SignerInv
  <1>9. depth <= Deepest
    BY <1>2, <1>i DEF DepthInv
  <1> QED BY <1>1, <1>4, <1>8, <1>9, ThreadMovesOnly

\* The venue tells its time.
LEMMA SyncVenueTellsStep == ASSUME SyncInv, NEW t \in Threads, Sync!VenueTells(t) PROVE SyncInv'
  <1>2. /\ signer[t] \in SignerType /\ signer[t].sess \in 1..Len(session) /\ Len(session) \in Nat
        /\ SignerInv(t) /\ DepthInv(t)
    BY OwnSession
  <1>i. PICK i0 \in 1..Len(session), depth \in Nat : i0 = signer[t].sess /\ depth = signer[t].depth
    BY <1>2 DEF SignerType
  <1>s. PICK tm \in Nat : tm = time
    BY DEF SyncInv, SyncType
  <1> DEFINE r == [at |-> "answered", sess |-> i0, depth |-> depth, seen |-> 0, now |-> 0, answer |-> tm,
                   since |-> tm, stamp |-> 0, measured |-> FALSE, accepted |-> TRUE]
  <1>1. /\ signer[t].at = "asking" /\ UNCHANGED <<session, time, skew, jumps>>
        /\ signer' = [signer EXCEPT ![t] = r]
    BY <1>i, <1>s DEF Sync!VenueTells, Sync!At, Sync!Waiting
  <1>4. r \in SignerType
    BY <1>2 DEF SignerType
  <1>5. signer'[t] = r
    BY <1>1 DEF SyncInv, SyncType
  <1>6. depth >= 1 /\ tm <= tm /\ tm <= tm + Lag
    BY <1>1, <1>2, <1>i, SyncAssumption DEF SignerInv
  <1>8. SignerInv(t)'
    BY <1>1, <1>5, <1>6, <1>s DEF SignerInv
  <1>9. depth <= Deepest
    BY <1>2, <1>i DEF DepthInv
  <1> QED BY <1>1, <1>4, <1>8, <1>9, ThreadMovesOnly

\* An attempt ends: nothing changes but the offset, if the venue's time came.
LEMMA SyncAttemptEnds ==
  ASSUME SyncInv, NEW t \in Threads, Sync!SyncFails(t) \/ Sync!Measure(t) PROVE SyncInv'
  <1>2. /\ signer[t] \in SignerType /\ signer[t].sess \in 1..Len(session) /\ Len(session) \in Nat
        /\ session[signer[t].sess] \in SessionType /\ SessionInv(signer[t].sess)
        /\ SignerInv(t) /\ DepthInv(t)
    BY OwnSession
  <1>i. PICK i0 \in 1..Len(session), depth \in Nat, answer \in Int :
          i0 = signer[t].sess /\ depth = signer[t].depth /\ answer = signer[t].answer
    BY <1>2 DEF SignerType
  <1>m. PICK m0 \in BOOLEAN, off0 \in Int, last \in Int, seen \in Int, tries \in Nat, triedSkew \in Int, tried \in Int :
          /\ m0 = session[i0].measured /\ off0 = session[i0].timeOffset
          /\ last = session[i0].lastTimeSync /\ seen = session[i0].seen /\ tries = session[i0].tries
          /\ triedSkew = session[i0].triedSkew /\ tried = session[i0].tried
    BY <1>2, <1>i DEF SessionType
  <1>s. PICK tm \in Nat, sk \in Int : tm = time /\ sk = skew
    BY SyncAssumption DEF SyncInv, SyncType
  <1>0. /\ signer[t].at \in {"asking", "answered"} /\ UNCHANGED <<time, skew, jumps>>
        /\ Sync!Measure(t) => signer[t].at = "answered"
    BY DEF Sync!SyncFails, Sync!Measure, Sync!At
  <1>3. PICK measured \in BOOLEAN, offset \in Int :
          /\ session' = [session EXCEPT ![i0] =
               [timeOffset |-> offset, lastTimeSync |-> last, measured |-> measured, tried |-> tm,
                triedSkew |-> triedSkew, seen |-> seen, tries |-> tries]]
          /\ measured = TRUE => offset + sk <= 0 /\ offset + sk >= 0 - Lag
    <2>1. CASE Sync!SyncFails(t)
      <3>1. session' = [session EXCEPT ![i0] =
               [timeOffset |-> off0, lastTimeSync |-> last, measured |-> m0, tried |-> tm,
                triedSkew |-> triedSkew, seen |-> seen, tries |-> tries]]
        BY <1>i, <1>m, <1>s, <2>1 DEF Sync!SyncFails, Sync!Session, Sync!AfterFailure
      <3>2. m0 = TRUE => off0 + sk <= 0 /\ off0 + sk >= 0 - Lag
        BY <1>2, <1>i, <1>m, <1>s DEF SessionInv
      <3> QED BY <3>1, <3>2
    <2>2. CASE Sync!Measure(t)
      <3>1. session' = [session EXCEPT ![i0] =
               [timeOffset |-> answer - (tm + sk), lastTimeSync |-> last, measured |-> TRUE, tried |-> tm,
                triedSkew |-> triedSkew, seen |-> seen, tries |-> tries]]
        BY <1>i, <1>m, <1>s, <2>2 DEF Sync!Measure, Sync!Session, Sync!Offset, Sync!currentTime
      <3>2. answer <= tm /\ tm <= answer + Lag
        BY <1>0, <1>2, <1>i, <1>s, <2>2 DEF SignerInv
      <3>3. (answer - (tm + sk)) + sk <= 0 /\ (answer - (tm + sk)) + sk >= 0 - Lag /\ answer - (tm + sk) \in Int
        BY <3>2, SyncAssumption
      <3> QED BY <3>1, <3>3
    <2> QED BY <2>1, <2>2
  <1> DEFINE r == [at |-> "stamp", sess |-> i0, depth |-> depth - 1, seen |-> 0, now |-> 0, answer |-> 0,
                   since |-> 0, stamp |-> 0, measured |-> FALSE, accepted |-> TRUE]
             se == [timeOffset |-> offset, lastTimeSync |-> last, measured |-> measured, tried |-> tm,
                    triedSkew |-> triedSkew, seen |-> seen, tries |-> tries]
  <1>4. signer' = [signer EXCEPT ![t] = r]
    BY <1>i DEF Sync!SyncFails, Sync!Measure, Sync!Signing
  <1>5. depth - 1 \in Nat /\ i0 \in Nat
    BY <1>0, <1>2, <1>i DEF SignerInv
  <1>6. r \in SignerType /\ se \in SessionType
    BY <1>5 DEF SignerType, SessionType
  <1>7. r.at = "stamp" /\ r.sess = i0 /\ r.depth = depth - 1
    OBVIOUS
  <1>8. /\ se.lastTimeSync = last /\ se.tried = tm /\ se.triedSkew = triedSkew /\ se.seen = seen
        /\ se.tries = tries /\ se.timeOffset = offset /\ se.measured = measured
    OBVIOUS
  <1>9. session' = [session EXCEPT ![i0] = se]
    BY <1>3
  <1> HIDE DEF r, se
  <1>10. signer'[t] = r
    BY <1>4 DEF SyncInv, SyncType
  <1>11. /\ session' \in Seq(SessionType) /\ Len(session') = Len(session) /\ session'[i0] = se
         /\ \A i \in 1..Len(session) : i # i0 => session'[i] = session[i]
    BY <1>6, <1>9, ExceptSeq DEF SyncInv, SyncType
  <1>12. SessionInv(i0)'
    <2>1. /\ last # 0 => last - triedSkew <= tried
          /\ tries > 0 => last # seen
          /\ tried <= tm
      BY <1>2, <1>i, <1>m, <1>s DEF SessionInv
    <2>2. last # 0 => last - triedSkew <= tm
      BY <2>1
    <2> QED BY <1>0, <1>3, <1>8, <1>11, <1>s, <2>1, <2>2 DEF SessionInv
  <1>13. ASSUME NEW i \in 1..Len(session)
         PROVE  /\ session'[i].lastTimeSync = session[i].lastTimeSync /\ session'[i].seen = session[i].seen
                /\ session'[i].tries = session[i].tries /\ session'[i].triedSkew = session[i].triedSkew
                /\ session'[i].tried \in {session[i].tried, time} /\ SessionInv(i)'
    <2>1. CASE i = i0
      BY <1>8, <1>11, <1>12, <1>m, <1>s, <2>1
    <2>2. CASE i # i0
      <3>1. SessionInv(i)'
        BY <1>0, <1>11, <2>2 DEF SyncInv, SessionInv
      <3> QED BY <1>11, <2>2, <3>1
    <2> QED BY <2>1, <2>2
  <1>14. SignerInv(t)'
    <2>1. session'[signer'[t].sess] = se /\ signer'[t].at = "stamp"
      BY <1>7, <1>10, <1>11
    <2>2. time' - se.tried < TIME_SYNC_INTERVAL
      <3>1. tm - tm < TIME_SYNC_INTERVAL
        BY SyncAssumption
      <3> QED BY <1>0, <1>8, <1>s, <3>1
    <2> QED BY <2>1, <2>2 DEF SignerInv
  <1>15. depth - 1 <= Deepest
    BY <1>2, <1>i, DeepestFacts DEF DepthInv, SyncInv
  <1> QED BY <1>0, <1>4, <1>6, <1>7, <1>11, <1>13, <1>14, <1>15, ThreadMoves

\* The request arrives and is judged by its stamp.
LEMMA SyncArriveStep == ASSUME SyncInv, NEW t \in Threads, Sync!Arrive(t) PROVE SyncInv'
  <1>2. /\ signer[t] \in SignerType /\ signer[t].sess \in 1..Len(session) /\ Len(session) \in Nat
        /\ SignerInv(t) /\ DepthInv(t)
    BY OwnSession
  <1>i. PICK i0 \in 1..Len(session), since \in Int, stamp \in Int, measured \in BOOLEAN :
          /\ i0 = signer[t].sess /\ since = signer[t].since /\ stamp = signer[t].stamp
          /\ measured = signer[t].measured
    BY <1>2 DEF SignerType
  <1>s. PICK tm \in Nat : tm = time
    BY DEF SyncInv, SyncType
  <1>a. PICK accepted \in BOOLEAN : accepted = (tm - receiveWindow <= stamp /\ stamp <= tm)
    OBVIOUS
  <1> DEFINE r == [at |-> "judged", sess |-> i0, depth |-> 0, seen |-> 0, now |-> 0, answer |-> 0,
                   since |-> 0, stamp |-> 0, measured |-> measured, accepted |-> accepted]
  <1>0. signer[t].at = "sent" /\ UNCHANGED <<session, time, skew, jumps>>
    BY DEF Sync!Arrive, Sync!At
  <1>1. signer' = [signer EXCEPT ![t] = r]
    BY <1>i, <1>s, <1>a, Zenon DEF Sync!Arrive
  <1>3. r \in SignerType
    BY <1>2 DEF SignerType
  <1>4. signer'[t] = r
    BY <1>1 DEF SyncInv, SyncType
  <1>5. measured = TRUE => tm - receiveWindow <= stamp /\ stamp <= tm
    <2>1. since <= tm /\ tm <= since + Lag /\ (measured = TRUE => since - Lag <= stamp /\ stamp <= since)
      BY <1>0, <1>2, <1>i, <1>s DEF SignerInv
    <2> QED BY <2>1, SyncAssumption
  <1>6. measured = TRUE => accepted = TRUE
    BY <1>5, <1>a, Zenon
  <1>7. SignerInv(t)'
    BY <1>4, <1>6 DEF SignerInv
  <1>8. 0 <= Deepest
    BY DeepestFacts DEF SyncInv
  <1> QED BY <1>0, <1>1, <1>3, <1>7, <1>8, ThreadMovesOnly

\* The call returns.
LEMMA SyncReturnStep == ASSUME SyncInv, NEW t \in Threads, Sync!Return(t) PROVE SyncInv'
  <1> DEFINE r == [at |-> "idle", sess |-> 1, depth |-> 0, seen |-> 0, now |-> 0, answer |-> 0,
                   since |-> 0, stamp |-> 0, measured |-> FALSE, accepted |-> TRUE]
  <1>1. /\ signer[t].at = "judged" /\ UNCHANGED <<session, time, skew, jumps>>
        /\ signer' = [signer EXCEPT ![t] = r]
    BY DEF Sync!Return, Sync!At, Sync!NoThread, Sync!Signing
  <1>2. r \in SignerType
    BY DEF SignerType
  <1>3. signer'[t] = r /\ 1 \in 1..Len(session)
    BY <1>1, LenProperties DEF SyncInv, SyncType
  <1>4. SignerInv(t)'
    BY <1>3 DEF SignerInv
  <1>5. 0 <= Deepest
    BY DeepestFacts DEF SyncInv
  <1> QED BY <1>1, <1>2, <1>3, <1>4, <1>5, ThreadMovesOnly

\* A new session, which no thread uses yet.
LEMMA SetCredentialsStep == ASSUME SyncInv, Sync!SetCredentials PROVE SyncInv'
  <1> DEFINE se == [timeOffset |-> 0, lastTimeSync |-> 0, measured |-> FALSE,
                    tried |-> SyncStart, triedSkew |-> 0, seen |-> 0, tries |-> 0]
             n == Len(session)
  <1>1. session' = Append(session, se) /\ UNCHANGED <<signer, time, skew, jumps>>
    BY DEF Sync!SetCredentials, Sync!NewSession, Sync!Session
  <1>2. se \in SessionType
    BY SyncAssumption DEF SessionType
  <1>3. /\ n \in Nat /\ session' \in Seq(SessionType) /\ Len(session') = n + 1 /\ session'[n + 1] = se
        /\ \A i \in 1..n : session'[i] = session[i]
    BY <1>1, <1>2, AppendProperties, LenProperties DEF SyncInv, SyncType
  <1>4. SyncType'
    BY <1>1, <1>3 DEF SyncInv, SyncType
  <1>5. ASSUME NEW i \in 1..n
        PROVE  SessionInv(i)' /\ StormInv(i)' /\ Stale(i)' = Stale(i) /\ Old(i)' = Old(i)
    <2>1. session'[i] = session[i]
      BY <1>3
    <2>2. Pending(i)' = Pending(i)
      BY <1>1, <2>1 DEF Pending
    <2>3. Stale(i)' = Stale(i)
      BY <1>1 DEF Stale, Sync!Recent, Sync!currentTime
    <2>4. Old(i)' = Old(i)
      BY <1>1, <2>1 DEF Old, Sync!Recent, Sync!currentTime
    <2>5. SessionInv(i)' /\ StormInv(i)'
      BY <1>1, <2>1, <2>2 DEF SyncInv, SessionInv, StormInv, Size
    <2> QED BY <2>3, <2>4, <2>5
  <1>k. PICK k \in Nat : k = n + 1
    BY <1>3
  <1>6. SessionInv(k)' /\ StormInv(k)'
    <2>0. session'[k] = se /\ UNCHANGED <<time, skew>>
      BY <1>1, <1>3, <1>k
    <2>2. SessionInv(k)'
      BY <2>0 DEF SessionInv, SyncInv, SyncType
    <2>3. Pending(k)' = {}
      <3>1. \A t \in Threads : signer[t].sess # k
        BY <1>3, <1>k DEF SyncInv, SyncType
      <3> QED BY <1>1, <3>1 DEF Pending
    <2>4. session'[k].tries + Size(Pending(k)') <= Size(Threads)
      <3>1. session'[k].tries = 0
        BY <2>0
      <3> QED BY <2>3, <3>1, SizeFacts
    <2>5. StormInv(k)'
      BY <2>4 DEF StormInv, Size
    <2> QED BY <2>2, <2>5
  <1>7. \A t \in Threads : SignerInv(t)' /\ DepthInv(t)'
    <2> SUFFICES ASSUME NEW t \in Threads PROVE SignerInv(t)' /\ DepthInv(t)'  OBVIOUS
    <2>1. signer[t].sess \in 1..n /\ SignerInv(t) /\ DepthInv(t) /\ signer'[t] = signer[t]
      BY <1>1, OwnSession
    <2>2. session'[signer[t].sess] = session[signer[t].sess]
      BY <1>3, <2>1
    <2>3. SignerInv(t)'
      BY <1>1, <2>1, <2>2 DEF SignerInv
    <2>4. DepthInv(t)'
      BY <1>1, <1>5, <2>1 DEF DepthInv, Size, Deepest
    <2> QED BY <2>3, <2>4
  <1>8. Len(session)' = k /\ \A i \in 1..k : i \in 1..n \/ i = k
    BY <1>3, <1>k
  <1> HIDE DEF n
  <1>9. \A i \in 1..k : SessionInv(i)' /\ StormInv(i)'
    BY <1>5, <1>6, <1>8
  <1> QED BY <1>4, <1>7, <1>8, <1>9 DEF SyncInv

\* The local clock is set: no offset is a measured one any more, and every thread may find
\* its note old.
LEMMA ClockIsSetStep == ASSUME SyncInv, Sync!ClockIsSet PROVE SyncInv'
  <1> DEFINE S(i) == [timeOffset |-> session[i].timeOffset, lastTimeSync |-> session[i].lastTimeSync,
                      measured |-> FALSE, tried |-> session[i].tried, triedSkew |-> session[i].triedSkew,
                      seen |-> session[i].seen, tries |-> session[i].tries]
             N == Size(Threads)
  <1>1. /\ jumps' = jumps + 1 /\ skew' \in Skews /\ UNCHANGED <<signer, time>>
        /\ session' = [i \in DOMAIN session |-> S(i)]
    BY DEF Sync!ClockIsSet, Sync!Session
  <1>2. DOMAIN session = 1..Len(session) /\ Len(session) \in Nat /\ N \in Nat /\ jumps \in Nat
    BY LenProperties, SizeFacts DEF SyncInv, SyncType
  <1>3. \A i \in 1..Len(session) : S(i) \in SessionType
    <2> SUFFICES ASSUME NEW i \in 1..Len(session) PROVE S(i) \in SessionType  OBVIOUS
    <2>1. session[i] \in SessionType
      BY ElementOfSeq DEF SyncInv, SyncType
    <2> QED BY <2>1 DEF SessionType
  <1>4. session' = [i \in 1..Len(session) |-> S(i)]
    BY <1>1, <1>2
  <1>5. /\ session' \in Seq(SessionType) /\ Len(session') = Len(session)
        /\ \A i \in 1..Len(session) : session'[i] = S(i)
    <2> HIDE DEF S
    <2>1. session' \in [1..Len(session) -> SessionType]
      BY <1>3, <1>4
    <2>2. session' \in Seq(SessionType)
      BY <1>2, <2>1
    <2>3. Len(session') = Len(session)
      BY <1>2, <1>4, <2>2, LenProperties
    <2> QED BY <1>4, <2>2, <2>3
  <1>6. SyncType'
    BY <1>1, <1>2, <1>5 DEF SyncInv, SyncType
  <1>s. \A i : /\ S(i).measured = FALSE /\ S(i).lastTimeSync = session[i].lastTimeSync
               /\ S(i).tried = session[i].tried /\ S(i).triedSkew = session[i].triedSkew
               /\ S(i).seen = session[i].seen /\ S(i).tries = session[i].tries
    OBVIOUS
  <1> HIDE DEF S
  <1>7. ASSUME NEW i \in 1..Len(session) PROVE SessionInv(i)' /\ StormInv(i)'
    <2>1. /\ session'[i].measured = FALSE /\ session'[i].lastTimeSync = session[i].lastTimeSync
          /\ session'[i].tried = session[i].tried /\ session'[i].triedSkew = session[i].triedSkew
          /\ session'[i].seen = session[i].seen /\ session'[i].tries = session[i].tries
      BY <1>5, <1>s
    <2>2. Pending(i)' = Pending(i)
      BY <1>1, <2>1 DEF Pending
    <2>3. SessionInv(i)'
      BY <1>1, <2>1 DEF SyncInv, SessionInv
    <2>4. StormInv(i)'
      BY <2>1, <2>2 DEF SyncInv, StormInv, Size
    <2> QED BY <2>3, <2>4
  <1>8. Deepest \in Nat /\ Deepest' = Deepest + N
    <2>1. (jumps + 1) * N = jumps * N + N /\ jumps * N \in Nat
      BY <1>2
    <2>2. Deepest' = 1 + (jumps + 1) * N /\ Deepest = 1 + jumps * N
      BY <1>1 DEF Deepest, Size
    <2> QED BY <1>2, <2>1, <2>2
  <1>9. ASSUME NEW t \in Threads PROVE SignerInv(t)' /\ DepthInv(t)'
    <2>1. /\ signer[t] \in SignerType /\ signer[t].sess \in 1..Len(session)
          /\ SignerInv(t) /\ DepthInv(t) /\ signer'[t] = signer[t]
      BY <1>1, OwnSession
    <2>2. PICK i0 \in 1..Len(session), d \in Nat : i0 = signer[t].sess /\ d = signer[t].depth
      BY <2>1 DEF SignerType
    <2>3. SignerInv(t)'
      <3>1. jumps' # 0
        BY <1>1, <1>2
      <3>2. session'[i0].tried = session[i0].tried /\ session'[i0].triedSkew = session[i0].triedSkew
        BY <1>5, <1>s
      <3> QED BY <1>1, <2>1, <2>2, <3>1, <3>2 DEF SignerInv
    <2>4. Stale(i0)' \in SUBSET Threads /\ Stale(i0) \in SUBSET Threads /\ Old(i0)' \in {0, 1}
      BY DEF Stale, Old
    <2>5. /\ Size(Stale(i0)') \in Nat /\ Size(Stale(i0)) \in Nat /\ Size(Stale(i0)') <= N
          /\ signer[t].at # "mark" => Size(Stale(i0)') < N
      <3>1. signer[t].at # "mark" => Stale(i0)' \in SUBSET (Threads \ {t})
        BY <2>1, <2>4 DEF Stale
      <3> QED BY <2>4, <3>1, SizeFacts
    <2>6. d <= Deepest /\ (signer[t].at = "mark" => d + 1 + Size(Stale(i0)) <= Deepest)
      BY <2>1, <2>2 DEF DepthInv
    <2>7. /\ d <= Deepest'
          /\ signer[t].at # "mark" => d + Size(Stale(i0)') + Old(i0)' <= Deepest'
          /\ signer[t].at = "mark" => d + 1 + Size(Stale(i0)') <= Deepest'
      <3> HIDE DEF N
      <3> QED BY <1>2, <1>8, <2>4, <2>5, <2>6
    <2>8. DepthInv(t)'
      BY <2>1, <2>2, <2>7 DEF DepthInv, Size
    <2> QED BY <2>3, <2>8
  <1> QED BY <1>5, <1>6, <1>7, <1>9 DEF SyncInv

\* Time passes, while no thread is on its way to the stamp.
LEMMA SyncTickStep == ASSUME SyncInv, Sync!Tick PROVE SyncInv'
  <1>1. /\ time' = time + 1 /\ UNCHANGED <<session, signer, skew, jumps>>
        /\ \A t \in Threads :
             \/ signer[t].at = "idle"
             \/ signer[t].at \in {"asking", "answered", "sent"} /\ time - signer[t].since < Lag
    BY DEF Sync!Tick
  <1>2. SyncType'
    BY <1>1, SyncAssumption DEF SyncInv, SyncType
  <1>3. ASSUME NEW i \in 1..Len(session) PROVE SessionInv(i)' /\ StormInv(i)'
    <2>1. session[i] \in SessionType /\ SessionInv(i) /\ StormInv(i) /\ time \in Nat
      BY ElementOfSeq DEF SyncInv, SyncType
    <2>2. session[i].tried <= time + 1
      BY <2>1 DEF SessionInv, SessionType
    <2>3. SessionInv(i)'
      BY <1>1, <2>1, <2>2 DEF SessionInv
    <2>4. Pending(i)' = Pending(i)
      BY <1>1 DEF Pending
    <2>5. StormInv(i)'
      BY <1>1, <2>1, <2>4 DEF StormInv, Size
    <2> QED BY <2>3, <2>5
  <1>4. ASSUME NEW t \in Threads PROVE SignerInv(t)' /\ DepthInv(t)'
    <2>1. signer[t] \in SignerType /\ SignerInv(t) /\ DepthInv(t) /\ signer'[t] = signer[t] /\ time \in Nat
      BY <1>1, OwnSession DEF SyncInv, SyncType
    <2>2. PICK since \in Int, answer \in Int : since = signer[t].since /\ answer = signer[t].answer
      BY <2>1 DEF SignerType
    <2>3. signer[t].at \in {"idle", "asking", "answered", "sent"}
      BY <1>1
    <2>4. signer[t].at = "answered" => answer <= time + 1 /\ time + 1 <= answer + Lag
      BY <1>1, <2>1, <2>2, SyncAssumption DEF SignerInv
    <2>5. signer[t].at = "sent" => since <= time + 1 /\ time + 1 <= since + Lag
      BY <1>1, <2>1, <2>2, SyncAssumption DEF SignerInv
    <2>6. SignerInv(t)'
      BY <1>1, <2>1, <2>2, <2>3, <2>4, <2>5 DEF SignerInv
    <2>7. DepthInv(t)'
      BY <1>1, <2>1, <2>3 DEF DepthInv, Deepest, Size
    <2> QED BY <2>6, <2>7
  <1> QED BY <1>1, <1>2, <1>3, <1>4 DEF SyncInv

\* Every step of the clock part preserves the invariant.
LEMMA SyncNextInv == SyncInv /\ [Sync!Next]_syncVars => SyncInv'
  <1> SUFFICES ASSUME SyncInv, [Sync!Next]_syncVars PROVE SyncInv'  OBVIOUS
  <1>1. ASSUME NEW t \in Threads, Sync!Begin(t) \/ Sync!Check(t) \/ Sync!Mark(t) \/ Sync!VenueTells(t)
               \/ Sync!SyncFails(t) \/ Sync!Measure(t) \/ Sync!Stamp(t) \/ Sync!Arrive(t) \/ Sync!Return(t)
        PROVE  SyncInv'
    BY <1>1, SyncBeginStep, SyncCheckStep, SyncMarkStep, SyncVenueTellsStep, SyncAttemptEnds,
       SyncStampStep, SyncArriveStep, SyncReturnStep
  <1>2. CASE Sync!SetCredentials
    BY <1>2, SetCredentialsStep
  <1>3. CASE Sync!ClockIsSet
    BY <1>3, ClockIsSetStep
  <1>4. CASE Sync!Tick
    BY <1>4, SyncTickStep
  <1>5. CASE UNCHANGED syncVars
    <2>1. UNCHANGED <<session, signer, time, skew, jumps>>
      BY <1>5 DEF syncVars
    <2>2. SyncType'
      BY <2>1 DEF SyncInv, SyncType
    <2>3. \A i \in 1..Len(session) : SessionInv(i)' /\ StormInv(i)'
      BY <2>1 DEF SyncInv, SessionInv, StormInv, Pending, Size
    <2>4. \A t \in Threads : SignerInv(t)' /\ DepthInv(t)'
      <3>1. \A i : Stale(i)' = Stale(i) /\ Old(i)' = Old(i)
        BY <2>1 DEF Stale, Old, Sync!Recent, Sync!currentTime
      <3> QED BY <2>1, <3>1 DEF SyncInv, SignerInv, DepthInv, Deepest, Size
    <2> QED BY <2>1, <2>2, <2>3, <2>4 DEF SyncInv
  <1> QED BY <1>1, <1>2, <1>3, <1>4, <1>5 DEF Sync!Next

\* The instance's cardinality is this module's.
LEMMA SameSize == Sync!Cardinality(Threads) = Size(Threads)
  BY Zenon DEF Sync!Cardinality, Sync!IsFiniteSet, Size, Cardinality, IsFiniteSet

\* The invariant holds while the clocks are the part that moves.
THEOREM ClockInvariant == StateSpec => [](part = "clock" => SyncInv)
  <1>1. StateInit => (part = "clock" => SyncInv)
    BY SyncInit DEF StateInit
  <1>2. (part = "clock" => SyncInv) /\ [StateNext]_stateVars => (part = "clock" => SyncInv)'
    <2> SUFFICES ASSUME part = "clock" => SyncInv, [StateNext]_stateVars, part' = "clock" PROVE SyncInv'
      OBVIOUS
    <2>1. part = "clock" /\ [Sync!Next]_syncVars
      BY DEF StateNext, stateVars
    <2> QED BY <2>1, SyncNextInv
  <1> QED BY <1>1, <1>2, PTL DEF StateSpec

\* For any number of threads, any clocks and any session changes: a stamp with an offset
\* measured since the local clock was last set is never refused.
THEOREM MeasuredStampsAreAccepted == StateSpec => []MeasuredIsAccepted
  <1>1. (part = "clock" => SyncInv) => MeasuredIsAccepted
    BY DEF MeasuredIsAccepted, Sync!MeasuredIsAccepted, Sync!At, SyncInv, SignerInv
  <1> QED BY <1>1, ClockInvariant, PTL

\* No request is stamped with an offset nobody has tried to measure for longer than the
\* interval, and the time by which the local clock was set back.
THEOREM OffsetsAreTried == StateSpec => []SyncDue
  <1>1. (part = "clock" => SyncInv) => SyncDue
    <2> SUFFICES ASSUME SyncInv, NEW t \in Threads, signer[t].at = "stamp"
                 PROVE  LET setBack == session[signer[t].sess].triedSkew - (signer[t].now - time)
                        IN  time - session[signer[t].sess].tried
                              < TIME_SYNC_INTERVAL + (IF setBack > 0 THEN setBack ELSE 0)
      BY DEF SyncDue, Sync!SyncDue, Sync!At, Sync!Mine
    <2>1. signer[t] \in SignerType /\ session[signer[t].sess] \in SessionType /\ SignerInv(t) /\ time \in Nat
      BY OwnSession DEF SyncInv, SyncType
    <2>2. PICK tried \in Int, triedSkew \in Int, now \in Int, tm \in Nat :
            /\ tried = session[signer[t].sess].tried /\ triedSkew = session[signer[t].sess].triedSkew
            /\ now = signer[t].now /\ tm = time
      BY <2>1 DEF SignerType, SessionType
    <2>3. \/ tm - tried < TIME_SYNC_INTERVAL
          \/ tm - tried < TIME_SYNC_INTERVAL + triedSkew - (now - tm)
      BY <2>1, <2>2 DEF SignerInv
    <2>4. LET setBack == triedSkew - (now - tm)
          IN  tm - tried < TIME_SYNC_INTERVAL + (IF setBack > 0 THEN setBack ELSE 0)
      BY <2>3, SyncAssumption
    <2> QED BY <2>2, <2>4
  <1> QED BY <1>1, ClockInvariant, PTL

\* Threads that read the same note make one attempt each at the most, and the request for
\* the venue's time asks for it itself only when the clock is set in between.
THEOREM NoStorm == StateSpec => []NoSyncStorm
  <1>1. (part = "clock" => SyncInv) => NoSyncStorm
    <2> SUFFICES ASSUME SyncInv PROVE Sync!NoSyncStorm
      BY DEF NoSyncStorm
    <2>1. DOMAIN session = 1..Len(session)
      BY LenProperties DEF SyncInv, SyncType
    <2>2. ASSUME NEW i \in 1..Len(session) PROVE session[i].tries <= Size(Threads)
      <3>1. session[i] \in SessionType /\ StormInv(i)
        BY ElementOfSeq DEF SyncInv, SyncType
      <3>2. Size(Pending(i)) \in Nat /\ Size(Threads) \in Nat
        BY SizeFacts DEF Pending
      <3>3. session[i].tries \in Nat
        BY <3>1 DEF SessionType
      <3> QED BY <3>1, <3>2, <3>3 DEF StormInv
    <2>3. \A t \in Threads : signer[t].depth <= 1 + jumps * Size(Threads)
      BY DEF SyncInv, DepthInv, Deepest
    <2> QED BY <2>1, <2>2, <2>3, SameSize DEF Sync!NoSyncStorm
  <1> QED BY <1>1, ClockInvariant, PTL

============================================================================
