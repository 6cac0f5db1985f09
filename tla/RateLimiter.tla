---------------------------- MODULE RateLimiter ----------------------------
(***************************************************************************)
(* The REST client's request throttle (RateLimiter in                      *)
(* bybit_rest_client.cpp), called by every thread that issues a request:   *)
(* wait() before it, update() with the response's headers after it.  Until *)
(* a response carries the venue's limit headers a sliding window over      *)
(* local timestamps limits the rate; afterwards the venue's own budget     *)
(* does.  Both methods hold `mutex' throughout, and wait() sleeps with it. *)
(***************************************************************************)
EXTENDS Integers, Sequences, FiniteSets, FiniteSetsExt

CONSTANTS
  Threads,       \* threads issuing requests
  localLimit,    \* requests per window without headers
  windowSizeMs,  \* the window, in ticks of the clock
  LocalBuffer,   \* what the local wait adds (10 ms)
  ServerBuffer,  \* what the wait for the reset adds (50 ms)
  Headers,       \* the (status, reset) pairs responses may carry, reset relative to now
  MaxClock       \* bound: the last tick of the clock

ASSUME LimiterAssumption ==
  /\ localLimit \in Nat \ {0} /\ windowSizeMs \in Nat \ {0}
  /\ LocalBuffer \in Nat \ {0} /\ ServerBuffer \in Nat \ {0}
  /\ MaxClock \in Nat
  /\ Headers \subseteq [status : Nat, reset : Nat]

VARIABLES
  remaining, resetTime, serverHeadersFound, requestTimes,  \* RateLimiter
  clock,      \* the system clock
  mutex,      \* the sleeper that holds the mutex, as {} or {thread}
  thread,     \* per thread: what it does, the `now' it read, when its sleep ends
  released    \* when the requests of the last window left wait(), in local mode

limiter == <<remaining, resetTime, serverHeadersFound, requestTimes>>
vars == <<limiter, clock, mutex, thread, released>>

Idle == [at |-> "idle", now |-> 0, wake |-> 0]

Init ==
  /\ remaining = 50 /\ resetTime = 0 /\ serverHeadersFound = FALSE /\ requestTimes = <<>>
  /\ clock = 0 /\ mutex = {} /\ released = <<>>
  /\ thread = [t \in Threads |-> Idle]

\* The pop_front() loops: drop what left the window by `now', up to the first that has not.
Expired_Mutant(x, now) == now - x >= windowSizeMs
Expired(x, now) == now - x > windowSizeMs
From(times, kept) == IF kept = {} THEN <<>> ELSE SubSeq(times, Min(kept), Len(times))
PopExpired(times, now) == From(times, {i \in DOMAIN times : ~Expired(times[i], now)})

\* The requests that left wait() within the last window.
Recent(x) == clock - x <= windowSizeMs
InWindow == {i \in DOMAIN released : Recent(released[i])}

\* A thread leaves wait(): its request is on its way.
Release(t) ==
  /\ released' = IF serverHeadersFound THEN <<>>
                 ELSE Append(From(released, InWindow), clock)
  /\ thread' = [thread EXCEPT ![t] = [Idle EXCEPT !.at = "requesting"]]

\* A thread goes to sleep inside wait(), holding the mutex.
Sleep(t, until) ==
  /\ thread' = [thread EXCEPT ![t] = [at |-> "asleep", now |-> clock, wake |-> until]]
  /\ mutex' = {t}
  /\ UNCHANGED released

\* wait() with headers: pause until the reset when the budget is nearly spent.
MustPause_Mutant == remaining <= 2 /\ resetTime < clock
MustPause == remaining <= 2 /\ resetTime > clock
WaitServer(t) ==
  /\ thread[t].at = "idle" /\ mutex = {} /\ serverHeadersFound
  /\ \/ MustPause /\ Sleep(t, resetTime + ServerBuffer)
     \/ ~MustPause /\ Release(t) /\ UNCHANGED mutex
  /\ UNCHANGED <<limiter, clock>>

\* wait() without headers: the sliding window.
WindowFull(times) == Len(times) >= localLimit
WaitLocal(t) ==
  /\ thread[t].at = "idle" /\ mutex = {} /\ ~serverHeadersFound
  /\ LET times == PopExpired(requestTimes, clock)
     IN  \/ /\ WindowFull(times)
            /\ requestTimes' = times
            /\ Sleep(t, Head(times) + windowSizeMs + LocalBuffer)
         \/ /\ ~WindowFull(times)
            /\ requestTimes' = Append(times, clock)
            /\ Release(t) /\ UNCHANGED mutex
  /\ UNCHANGED <<remaining, resetTime, serverHeadersFound, clock>>

\* The sleep is over.  The local branch records the `now' of before the sleep.
Wake(t) ==
  /\ thread[t].at = "asleep" /\ clock >= thread[t].wake
  /\ requestTimes' = IF serverHeadersFound THEN requestTimes
                     ELSE Append(PopExpired(requestTimes, clock), thread[t].now)
  /\ Release(t)
  /\ mutex' = {}
  /\ UNCHANGED <<remaining, resetTime, serverHeadersFound, clock>>

\* update(): the response came, with both headers or without; of a pair whose reset does
\* not parse the status is taken all the same.
Respond(t) ==
  /\ thread[t].at = "requesting" /\ mutex = {}
  /\ \/ \E h \in Headers : /\ remaining' = h.status
                           /\ resetTime' = clock + h.reset
                           /\ serverHeadersFound' = TRUE
     \/ (\E h \in Headers : remaining' = h.status) /\ UNCHANGED <<resetTime, serverHeadersFound>>
     \/ UNCHANGED <<remaining, resetTime, serverHeadersFound>>
  /\ thread' = [thread EXCEPT ![t] = Idle]
  /\ UNCHANGED <<requestTimes, clock, mutex, released>>

\* The request fails before a response: update() is not called.
Fail(t) ==
  /\ thread[t].at = "requesting"
  /\ thread' = [thread EXCEPT ![t] = Idle]
  /\ UNCHANGED <<limiter, clock, mutex, released>>

Tick ==
  /\ clock < MaxClock /\ clock' = clock + 1
  /\ UNCHANGED <<limiter, mutex, thread, released>>

Next ==
  \/ \E t \in Threads : WaitServer(t) \/ WaitLocal(t) \/ Wake(t) \/ Respond(t) \/ Fail(t)
  \/ Tick

Spec == Init /\ [][Next]_vars

-----------------------------------------------------------------------------
\* Every variable stays in its type, one sleeper at most holds the mutex, and the
\* window never holds more timestamps than its limit (the deque does not grow).
TypeOK ==
  /\ remaining \in Nat /\ resetTime \in Nat /\ serverHeadersFound \in BOOLEAN
  /\ requestTimes \in Seq(Nat) /\ Len(requestTimes) <= localLimit
  /\ clock \in Nat /\ released \in Seq(Nat)
  /\ thread \in [Threads -> [at : {"idle", "asleep", "requesting"}, now : Nat, wake : Nat]]
  /\ mutex = {t \in Threads : thread[t].at = "asleep"} /\ Cardinality(mutex) <= 1

\* What the local mode guarantees whatever the threads do: in any window at most one
\* request more than the limit, the one whose sleep ended in it.
LocalRateNearly ==
  ~serverHeadersFound => Cardinality(InWindow) <= localLimit + 1

\* The documented rate, "10 requests per second": at most localLimit in any window.
LocalRate == ~serverHeadersFound => Cardinality(InWindow) <= localLimit

\* With the venue's headers, no request leaves while the budget last reported is
\* nearly spent and its reset has not come, even by a thread that went to sleep before
\* the headers it waits for were replaced.
ServerPause ==
  [][serverHeadersFound /\ (\E t \in Threads : thread[t].at # "requesting"
                                              /\ thread'[t].at = "requesting")
       => remaining > 2 \/ resetTime <= clock]_vars

============================================================================
