------------------------------ MODULE TimeSync ------------------------------
(***************************************************************************)
(* The time stamps of signed requests (bybit_http_session.cpp).  The venue *)
(* refuses a request whose stamp is too old, so the session measures the   *)
(* offset of the venue's clock from the local one, again when the last     *)
(* attempt is TIME_SYNC_INTERVAL_MS ago, by a request nested in the one    *)
(* being signed.  The nested request is signed too: only the note of the   *)
(* attempt, made before it, keeps it from asking again.  Offset and note   *)
(* are atomics shared by all threads of the session.  The local clock may  *)
(* be set, and setCredentials() replaces the session.                      *)
(***************************************************************************)
EXTENDS Integers, Sequences, FiniteSets

CONSTANTS
  Threads,
  TIME_SYNC_INTERVAL,
  receiveWindow,
  Lag,         \* bound: ticks a request, or an answer, may take
  Skews,       \* by how much the local clock may be ahead of the venue's, or behind it
  Start,       \* the first tick
  MaxClock,    \* bound: the last tick
  MaxJumps,    \* bound: how often the local clock is set
  MaxSessions, \* bound: sessions of the client
  MaxCalls     \* bound: requests

VARIABLES
  session,     \* the sessions the client has had: their offset and note; and, for the
               \* properties, whether the offset was measured since the clock was last
               \* set, when an attempt was last under way, and how often one was noted
               \* by threads that had read the same note
  thread,
  time,        \* the venue's clock
  skew,        \* local time less venue's time
  jumps, requests

vars == <<session, thread, time, skew, jumps, requests>>

\* A session, given its offset, its note and what its attempts left.
Session(offset, last, measured, at, atSkew, seen, tries) ==
  [timeOffset |-> offset, lastTimeSync |-> last, measured |-> measured,
   tried |-> at, triedSkew |-> atSkew, seen |-> seen, tries |-> tries]
NewSession == Session(0, 0, FALSE, Start, 0, 0, 0)

\* A thread on its way to the stamp, and one whose request is under way.
Signing(where, sess, depth, seen, now) ==
  [at |-> where, sess |-> sess, depth |-> depth, seen |-> seen, now |-> now, answer |-> 0,
   since |-> 0, stamp |-> 0, measured |-> FALSE, accepted |-> TRUE]
Waiting(where, sess, depth, answer, stamp, measured) ==
  [at |-> where, sess |-> sess, depth |-> depth, seen |-> 0, now |-> 0, answer |-> answer,
   since |-> time, stamp |-> stamp, measured |-> measured, accepted |-> TRUE]
NoThread == Signing("idle", 1, 0, 0, 0)

Init ==
  /\ session = <<NewSession>> /\ thread = [t \in Threads |-> NoThread]
  /\ time = Start /\ skew \in Skews /\ jumps = 0 /\ requests = 0

At(t, where) == thread[t].at = where
Mine(t) == session[thread[t].sess]
currentTime == time + skew

-----------------------------------------------------------------------------
(* authenticatePost() and authenticateNonPost(), to signingTimestamp() *)

\* session(): a request goes on with the session it began with.
Begin(t) ==
  /\ At(t, "idle") /\ requests < MaxCalls /\ requests' = requests + 1
  /\ thread' = [thread EXCEPT ![t] = Signing("check", Len(session), 0, 0, 0)]
  /\ UNCHANGED <<session, time, skew, jumps>>

\* ensureTimeSync(): is there a recent attempt?
Recent_Mutant(last) == last # 0
Recent(last) == last # 0 /\ currentTime - last < TIME_SYNC_INTERVAL
Check(t) ==
  /\ At(t, "check")
  /\ LET last == Mine(t).lastTimeSync
     IN  thread' = [thread EXCEPT ![t] = Signing(IF Recent(last) THEN "stamp" ELSE "mark",
                                                 @.sess, @.depth, last, currentTime)]
  /\ UNCHANGED <<session, time, skew, jumps, requests>>

\* The attempt is noted; then the request for the venue's time is signed.
Note(t) == thread[t].now
Mark(t) ==
  /\ At(t, "mark")
  /\ session' = [session EXCEPT ![thread[t].sess] =
       Session(@.timeOffset, Note(t), @.measured, time, thread[t].now - time, thread[t].seen,
               IF @.tries > 0 /\ @.seen = thread[t].seen THEN @.tries + 1 ELSE 1)]
  /\ thread' = [thread EXCEPT ![t] = Signing("check", @.sess, @.depth + 1, 0, 0)]
  /\ UNCHANGED <<time, skew, jumps, requests>>

\* The request gets its stamp, is signed and leaves.
signingTimestamp(t) == currentTime + Mine(t).timeOffset
Stamp(t) ==
  /\ At(t, "stamp")
  /\ thread' = [thread EXCEPT ![t] =
       Waiting(IF @.depth = 0 THEN "sent" ELSE "asking", @.sess, @.depth, 0,
               signingTimestamp(t), Mine(t).measured)]
  /\ UNCHANGED <<session, time, skew, jumps, requests>>

VenueTells(t) ==
  /\ At(t, "asking")
  /\ thread' = [thread EXCEPT ![t] = Waiting("answered", @.sess, @.depth, time, 0, FALSE)]
  /\ UNCHANGED <<session, time, skew, jumps, requests>>

\* No answer, or none that can be used: the old offset stays.
AfterFailure_Mutant(last) == 0
AfterFailure(last) == last
SyncFails(t) ==
  /\ At(t, "asking") \/ At(t, "answered")
  /\ session' = [session EXCEPT ![thread[t].sess] =
       Session(@.timeOffset, AfterFailure(@.lastTimeSync), @.measured, time, @.triedSkew, @.seen, @.tries)]
  /\ thread' = [thread EXCEPT ![t] = Signing("stamp", @.sess, @.depth - 1, 0, 0)]
  /\ UNCHANGED <<time, skew, jumps, requests>>

Offset_Mutant(t) == currentTime - thread[t].answer
Offset(t) == thread[t].answer - currentTime
Measure(t) ==
  /\ At(t, "answered")
  /\ session' = [session EXCEPT ![thread[t].sess] =
       Session(Offset(t), @.lastTimeSync, TRUE, time, @.triedSkew, @.seen, @.tries)]
  /\ thread' = [thread EXCEPT ![t] = Signing("stamp", @.sess, @.depth - 1, 0, 0)]
  /\ UNCHANGED <<time, skew, jumps, requests>>

\* The venue accepts a stamp that is at most receiveWindow old and not of the future.
Arrive(t) ==
  /\ At(t, "sent")
  /\ thread' = [thread EXCEPT ![t] =
       [at |-> "judged", sess |-> @.sess, depth |-> 0, seen |-> 0, now |-> 0, answer |-> 0,
        since |-> 0, stamp |-> 0, measured |-> @.measured,
        accepted |-> time - receiveWindow <= @.stamp /\ @.stamp <= time]]
  /\ UNCHANGED <<session, time, skew, jumps, requests>>

Return(t) ==
  /\ At(t, "judged")
  /\ thread' = [thread EXCEPT ![t] = NoThread]
  /\ UNCHANGED <<session, time, skew, jumps, requests>>

-----------------------------------------------------------------------------
\* setCredentials(): a new session, which knows nothing of the clocks.
SetCredentials ==
  /\ Len(session) < MaxSessions
  /\ session' = Append(session, NewSession)
  /\ UNCHANGED <<thread, time, skew, jumps, requests>>

\* The local clock is set.
ClockIsSet ==
  /\ jumps < MaxJumps /\ jumps' = jumps + 1
  /\ skew' \in Skews \ {skew}
  /\ session' = [i \in DOMAIN session |->
       LET s == session[i]
       IN  Session(s.timeOffset, s.lastTimeSync, FALSE, s.tried, s.triedSkew, s.seen, s.tries)]
  /\ UNCHANGED <<thread, time, requests>>

\* Time passes only while every thread waits: for the network, at most Lag ticks, or
\* for its next request.
Tick ==
  /\ time < MaxClock /\ time' = time + 1
  /\ \A t \in Threads :
       \/ thread[t].at = "idle"
       \/ thread[t].at \in {"asking", "answered", "sent"} /\ time - thread[t].since < Lag
  /\ UNCHANGED <<session, thread, skew, jumps, requests>>

Next ==
  \/ \E t \in Threads : \/ Begin(t) \/ Check(t) \/ Mark(t) \/ VenueTells(t) \/ SyncFails(t)
                        \/ Measure(t) \/ Stamp(t) \/ Arrive(t) \/ Return(t)
  \/ SetCredentials \/ ClockIsSet \/ Tick

Spec == Init /\ [][Next]_vars

-----------------------------------------------------------------------------
\* A request stamped with an offset measured since the local clock was last set is never
\* refused for its stamp: the measurement errs by the time its answer took, never into
\* the future, and the receive window has room for that and for the way to the venue.
MeasuredIsAccepted ==
  \A t \in Threads : At(t, "judged") /\ thread[t].measured => thread[t].accepted

\* No request is stamped with an offset nobody has tried to measure for longer than the
\* interval; a local clock found set back when the note is checked makes the interval
\* longer by as much, and setting it again before the stamp makes no difference.
SyncDue ==
  \A t \in Threads :
    At(t, "stamp") =>
      LET setBack == Mine(t).triedSkew - (thread[t].now - time)
      IN  time - Mine(t).tried < TIME_SYNC_INTERVAL + (IF setBack > 0 THEN setBack ELSE 0)

\* "a failing endpoint is not hammered on every single signed request": until the note
\* changes, no thread tries more than once, although checking and noting are two steps.
\* "Recursion through the signing path is prevented by lastTimeSyncMs being set": the
\* request for the time asks for the time itself only when the local clock is set in
\* between: once, and once more for every other thread that notes what it read before.
NoSyncStorm ==
  /\ \A i \in DOMAIN session : session[i].tries <= Cardinality(Threads)
  /\ \A t \in Threads : thread[t].depth <= 1 + jumps * Cardinality(Threads)

============================================================================
