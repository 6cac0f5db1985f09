---------------------------- MODULE StreamClient ----------------------------
(***************************************************************************)
(* A WebSocket client and its users: WebSocketClient (bybit_ws_client.cpp) *)
(* owns one session, created by the first subscribe(), and the io thread   *)
(* that runs the session's context; the stream managers and the execution  *)
(* gateway subscribe topics, start the thread, ask whether the stream is   *)
(* live, and destroy the client in the end.  Every method of the client    *)
(* holds clientLocker, run() also while it joins the thread that is over.  *)
(*                                                                         *)
(* The session is what module SubscriptionBook promises of it (WsSession   *)
(* implements it), moved by the io thread only.                            *)
(***************************************************************************)
EXTENDS SubscriptionBook, Naturals, Sequences, FiniteSets

CONSTANTS
  Users,       \* threads that use the client
  topics,      \* what a user subscribes, in order (ORDER_TOPIC, EXECUTION_TOPIC)
  MaxLosses,   \* bound: lost connections
  MaxRejects,  \* bound: subscribes the venue rejects
  MaxThrows    \* bound: exceptions out of a handler

\* Every topic of the session is one of those a user subscribes.
ASSUME ClientAssumption ==
  /\ topics \in Seq(Topics) /\ topics # <<>> /\ \A t \in Topics : \E i \in 1..Len(topics) : topics[i] = t
  /\ MaxLosses \in Nat /\ MaxRejects \in Nat /\ MaxThrows \in Nat

VARIABLES
  sessions,    \* the sessions created
  isRunning,
  ioThread,    \* "none", "starting", "running", "returned", "leaving", "exited"
  stopped,     \* of the io context
  clientLocker,
  closing,     \* of the session: "open", "posted", "closed"
  driver,      \* of the session: what will move it on (below)
  destructor,  \* "none", "close", "stop", "join", "freed"
  user,
  losses, rejects, throws

\* The driver.
\* "sound": it reads and has its heartbeat, or a connect or a timer is under way.
\* "deaf":  nothing is read any more; the heartbeat will give the connection up.
\* "lame":  it reads, but has no heartbeat: only the peer can end the connection.
\* "none":  no handler and no timer is left.

book   == <<up, phase>>
client == <<sessions, isRunning, ioThread, stopped, closing, destructor, driver>>
faults == <<losses, rejects, throws>>
vars   == <<book, client, clientLocker, user, faults>>

\* A user: its call and where it is in it, the topic it is at, isLive()'s answer so far,
\* and the connections lost when the call began.
NoCall == [call |-> "none", at |-> "idle", i |-> 1, live |-> FALSE, lost |-> 0]

Init ==
  /\ BookInit
  /\ sessions = 0 /\ isRunning = FALSE /\ ioThread = "none" /\ stopped = FALSE
  /\ clientLocker = {} /\ closing = "open" /\ destructor = "none" /\ driver = "sound"
  /\ user = [u \in Users |-> NoCall]
  /\ losses = 0 /\ rejects = 0 /\ throws = 0

At(u, where) == user[u].at = where
Go(u, where) == user' = [user EXCEPT ![u].at = where]
topic(u) == topics[user[u].i]
Exists == sessions > 0
MayLock_Mutant == TRUE
MayLock == clientLocker = {}

-----------------------------------------------------------------------------
(* The users' calls *)

Begin(u, call, where) ==
  /\ At(u, "idle") /\ destructor = "none"
  /\ user' = [user EXCEPT ![u] = [call |-> call, at |-> where, i |-> 1, live |-> FALSE, lost |-> losses]]
  /\ UNCHANGED <<book, client, clientLocker, faults>>

\* connect(), subscribeTickerStream(), subscribeCandlestickStream(): the topics, then run().
Connect(u) == Begin(u, "connect", "has")
\* isLive(), as the gateway's start() polls it and requireEventStream() asks it.
IsLive(u) == Begin(u, "isLive", "auth")

IsAuthenticated(u) ==
  /\ At(u, "auth") /\ MayLock
  /\ user' = [user EXCEPT ![u] = [call |-> @.call, at |-> "has", i |-> @.i, live |-> Exists /\ up,
                                  lost |-> @.lost]]
  /\ UNCHANGED <<book, client, clientLocker, faults>>

\* Both go on with the next topic; when there is none connect() runs the client.
NextTopic(u, live) ==
  LET last == user[u].i = Len(topics)
  IN  user' = [user EXCEPT ![u] =
        [call |-> @.call, live |-> live, lost |-> @.lost,
         i  |-> IF last THEN 1 ELSE @.i + 1,
         at |-> IF ~last THEN "has" ELSE IF user[u].call = "connect" THEN "run" ELSE "told"]]
AfterAsking(u) == IF user[u].call = "connect" THEN NextTopic(u, FALSE) ELSE Go(u, "confirmed?")

\* isSubscribed(): a topic in none of the session's books is subscribed.
MustAsk_Mutant(t) == ~Exists
MustAsk(t) == ~Exists \/ phase[t] = "absent"
IsSubscribed(u) ==
  /\ At(u, "has") /\ MayLock
  /\ IF MustAsk(topic(u)) THEN Go(u, "ask") ELSE AfterAsking(u)
  /\ UNCHANGED <<book, client, clientLocker, faults>>

\* subscribe(): on the session there is, or on a new one.
Subscribe(u) ==
  /\ At(u, "ask") /\ MayLock
  /\ IF Exists
     THEN /\ Request(topic(u)) \/ (phase[topic(u)] # "absent" /\ UNCHANGED book)
          /\ AfterAsking(u) /\ UNCHANGED clientLocker
     ELSE Go(u, "creating") /\ clientLocker' = {u} /\ UNCHANGED book
  /\ UNCHANGED <<client, faults>>

CreateSession(u) ==
  /\ At(u, "creating")
  /\ sessions' = sessions + 1
  /\ Request(topic(u)) \/ (phase[topic(u)] # "absent" /\ UNCHANGED book)
  /\ AfterAsking(u) /\ clientLocker' = {}
  /\ UNCHANGED <<isRunning, ioThread, stopped, closing, destructor, driver, faults>>

\* isSubscriptionConfirmed(); the answer stays FALSE once it is.
Confirmed_Mutant(t) == phase[t] # "absent"
Confirmed(t) == phase[t] = "confirmed"
IsConfirmed(u) ==
  /\ At(u, "confirmed?") /\ MayLock
  /\ NextTopic(u, user[u].live /\ Confirmed(topic(u)))
  /\ UNCHANGED <<book, client, clientLocker, faults>>

Return(u) ==
  /\ At(u, "told")
  /\ user' = [user EXCEPT ![u] = NoCall]
  /\ UNCHANGED <<book, client, clientLocker, faults>>

\* run(): nothing to do, or the old thread, if there was one, is joined first.
AlreadyRunning_Mutant == FALSE
AlreadyRunning == isRunning
Run(u) ==
  /\ At(u, "run") /\ MayLock
  /\ IF AlreadyRunning
     THEN user' = [user EXCEPT ![u] = NoCall] /\ UNCHANGED <<isRunning, clientLocker>>
     ELSE Go(u, "joining") /\ isRunning' = TRUE /\ clientLocker' = {u}
  /\ UNCHANGED <<book, sessions, ioThread, stopped, closing, destructor, driver, faults>>

StartThread(u) ==
  /\ At(u, "joining") /\ ioThread \in {"none", "exited"}
  /\ ioThread' = "starting" /\ clientLocker' = {}
  /\ user' = [user EXCEPT ![u] = NoCall]
  /\ UNCHANGED <<book, sessions, isRunning, stopped, closing, destructor, driver, faults>>

-----------------------------------------------------------------------------
(* The io thread *)

Io(from, to) == ioThread = from /\ ioThread' = to

\* The top of the loop: a context that was stopped is restarted, by whomever it was
\* stopped.
EnterRun ==
  /\ Io("starting", "running")
  /\ isRunning' = TRUE /\ stopped' = FALSE
  /\ UNCHANGED <<book, sessions, closing, destructor, driver, clientLocker, user, faults>>

\* The context's run() returns when it is stopped or has nothing left to do: the flush a
\* subscribe() posts is over at once when nothing drives the session.
HasWork == Exists /\ closing # "closed" /\ (driver # "none" \/ closing = "posted")
RunReturns ==
  /\ Io("running", "returned") /\ (stopped \/ ~HasWork)
  /\ stopped' = TRUE
  /\ UNCHANGED <<book, sessions, isRunning, closing, destructor, driver, clientLocker, user, faults>>

\* isRunning is cleared in the loop and once more behind it.
LeaveLoop ==
  /\ Io("returned", "leaving") \/ Io("leaving", "exited")
  /\ isRunning' = FALSE
  /\ UNCHANGED <<book, sessions, stopped, closing, destructor, driver, clientLocker, user, faults>>

\* What may be left of the driver when the log callback throws: out of onRead(), or out of
\* handleError() before it has changed anything, called by a read or a write (deaf), by
\* the heartbeat (lame) or while connecting (none).
Left ==
  CASE driver = "sound" -> {"deaf", "lame"} \cup (IF up THEN {} ELSE {"none"})
    [] OTHER            -> {driver, "none"}

\* Out of onRead(), with what the frame had changed by then; out of handleError() behind
\* its changes, before the timer of the reconnect is armed; or after the close.
ThrowInHandler ==
  /\ HasWork /\ driver # "none" /\ driver' \in Left
  /\ \/ UNCHANGED book
     \/ driver \in {"sound", "lame"} /\ driver' # "lame" /\ (GoUp \/ \E t \in Topics : Reject({t}))
  /\ UNCHANGED losses
ThrowBeforeTimer == HasWork /\ driver # "none" /\ driver' = "none" /\ Lose /\ losses' = losses + 1
ThrowAfterClose == closing = "closed" /\ UNCHANGED <<book, driver, losses>>

\* The io thread is back at the top of its loop.
HandlerThrows ==
  /\ Io("running", "starting") /\ throws < MaxThrows /\ throws' = throws + 1
  /\ ThrowInHandler \/ ThrowBeforeTimer \/ ThrowAfterClose
  /\ UNCHANGED <<sessions, isRunning, stopped, closing, destructor, clientLocker, user, rejects>>

\* A handler of the session.  Only a session that reads hears from the venue.
Handles ==
  /\ ioThread = "running" /\ ~stopped /\ HasWork
  /\ UNCHANGED <<sessions, isRunning, ioThread, stopped, destructor, clientLocker, user, throws>>
Reads == driver \in {"sound", "lame"} /\ UNCHANGED driver
Comes == Handles /\ Reads /\ GoUp /\ UNCHANGED <<closing, losses, rejects>>
Flush ==
  /\ Handles /\ up /\ driver # "none" /\ In({"pending"}) # {} /\ SendAll
  /\ UNCHANGED <<closing, driver, losses, rejects>>
Acked == Handles /\ Reads /\ In({"sent"}) # {} /\ Ack(In({"sent"})) /\ UNCHANGED <<closing, losses, rejects>>
Rejected(t) ==
  /\ Handles /\ Reads /\ phase[t] = "sent" /\ Reject({t})
  /\ rejects < MaxRejects /\ rejects' = rejects + 1 /\ UNCHANGED <<closing, losses>>
\* The connection is lost, or given up by the heartbeat; the timer will reconnect.
Lost ==
  /\ Handles /\ \/ driver = "deaf"
                \/ driver # "none" /\ up /\ losses < MaxLosses
  /\ Lose /\ driver' = "sound" /\ losses' = losses + 1 /\ UNCHANGED <<closing, rejects>>
\* closeByUser(); what the session still has under way ends without further ado.
CloseByUser == Handles /\ closing = "posted" /\ closing' = "closed" /\ UNCHANGED <<book, driver, losses, rejects>>

-----------------------------------------------------------------------------
(* ~WebSocketClient(), when nobody uses the client any more *)

Destroy(from, to) ==
  /\ destructor = from /\ destructor' = to
  /\ UNCHANGED <<book, sessions, isRunning, ioThread, driver, clientLocker, user, faults>>

BeginDestroy == (\A u \in Users : At(u, "idle")) /\ Destroy("none", "close") /\ UNCHANGED <<stopped, closing>>
PostsClose_Mutant == FALSE
PostsClose == Exists
PostClose ==
  /\ Destroy("close", "stop")
  /\ closing' = IF PostsClose THEN "posted" ELSE closing
  /\ UNCHANGED stopped
Stop == Destroy("stop", "join") /\ stopped' = TRUE /\ UNCHANGED closing
Join == ioThread \in {"none", "exited"} /\ Destroy("join", "freed") /\ UNCHANGED <<stopped, closing>>

-----------------------------------------------------------------------------
InCall(u) ==
  \/ IsAuthenticated(u) \/ IsSubscribed(u) \/ Subscribe(u) \/ CreateSession(u) \/ IsConfirmed(u)
  \/ Return(u) \/ Run(u) \/ StartThread(u)
IoStep == EnterRun \/ RunReturns \/ LeaveLoop
DestructorStep == PostClose \/ Stop \/ Join

Next ==
  \/ \E u \in Users : Connect(u) \/ IsLive(u) \/ InCall(u)
  \/ IoStep \/ HandlerThrows
  \/ Comes \/ Flush \/ Acked \/ Lost \/ CloseByUser \/ \E t \in Topics : Rejected(t)
  \/ BeginDestroy \/ DestructorStep

\* Threads run and the mutex is granted in turn; a session with its driver gets its
\* connection up again and is answered, and its heartbeat gives up a connection that
\* nothing is read from (SilentPeerDetected and EventuallySettles of WsSession).
Spec ==
  /\ Init /\ [][Next]_vars
  /\ \A u \in Users : SF_vars(InCall(u))
  /\ WF_vars(IoStep) /\ WF_vars(DestructorStep) /\ WF_vars(CloseByUser)
  /\ WF_vars(driver = "sound" /\ Comes) /\ WF_vars(driver = "sound" /\ Flush)
  /\ WF_vars(driver = "sound" /\ Acked) /\ WF_vars(driver = "deaf" /\ Lost)

-----------------------------------------------------------------------------
\* However many threads subscribe first, one session is created ("two racing threads
\* could each create a session").
OneSession == sessions <= 1

\* isLive() answers yes only if, unless the connection was lost meanwhile, every topic is
\* confirmed on the connection there is.
ToldLive ==
  \A u \in Users : At(u, "told") /\ user[u].live /\ user[u].lost = losses =>
    up /\ \A t \in Topics : phase[t] = "confirmed"

\* Every call of u returns.
Returns(u) == ~At(u, "idle") ~> At(u, "idle")

\* As long as the log callback does not throw out of a handleError() that was to
\* reconnect, a thread that keeps asking is told again and again that the stream is live.
NeverUndriven == [](driver \notin {"lame", "none"})
SeesLive(u) ==
  NeverUndriven /\ <>(ioThread # "none") /\ []<>At(u, "auth") => []<>(At(u, "told") /\ user[u].live)

\* The destructor returns, also when the io thread restarts the context the destructor
\* has just stopped.
DestructorReturns == destructor = "close" ~> destructor = "freed"

============================================================================
