----------------------------- MODULE WsSession -----------------------------
(***************************************************************************)
(* One WebSocket session of the client (bybit_ws_session.cpp): its         *)
(* connect chain, outbound write pump, topic books, heartbeat and          *)
(* reconnect logic, running as handlers of one Boost.Asio strand, together *)
(* with the user threads that call it and the venue at the other end.      *)
(*                                                                         *)
(* Concurrency.  Everything a handler does is one step: handlers of the    *)
(* strand never overlap, and what they share with user threads is guarded  *)
(* by `locker'.  User calls are serialised by WebSocketClient's            *)
(* clientLocker; a call is one step because the handler it posts may wait  *)
(* on the strand for as long as it likes.  An asynchronous operation is a  *)
(* member of `ops': started ("armed"), finished by the outside world with  *)
(* a result ("ok" or "err"), handled by the strand.  Finishing and         *)
(* handling are separate steps, so a handler can run after the connection  *)
(* it belongs to was torn down.                                            *)
(***************************************************************************)
EXTENDS Naturals, Sequences, FiniteSets

CONSTANTS
  Topics,               \* the topics a user may ask for
  AuthRequired,         \* credentials are set: a private session
  Unsubscribable,       \* the topics a user may withdraw
  Closable,             \* the user may close the session
  RECONNECT_DELAY_MAX,  \* RECONNECT_DELAY_MAX_IN_S
  PONG_TIMEOUT_TICKS,   \* PONG_TIMEOUT_IN_S / PING_INTERVAL_IN_S
  MaxGen,               \* bound: the network misbehaves before this generation only
  MaxCalls,             \* bound: calls the user threads make
  MaxLag                \* bound: frames a slow connection may leave waiting at a ping tick

ASSUME ConstantsAssumption ==
  /\ AuthRequired \in BOOLEAN
  /\ Closable \in BOOLEAN
  /\ Unsubscribable \subseteq Topics
  /\ RECONNECT_DELAY_MAX \in Nat \ {0}
  /\ PONG_TIMEOUT_TICKS \in Nat
  /\ MaxGen \in Nat
  /\ MaxCalls \in Nat
  /\ MaxLag \in Nat

VARIABLES
  \* WebSocketSession::P
  generation, connected, authenticated, reconnectScheduled, reconnectDelayS,
  userClosed, writeInFlight, outboundQueue,
  subscriptions, pendingTopics,  \* lists of topics, as how often each occurs
  inflightSubscribes, reqIdCounter,
  pongAge,                       \* ping ticks since lastPongTime
  \* Boost.Asio and Beast
  posted,                        \* handlers posted to the strand, oldest first
  ops,                           \* asynchronous operations not yet handled
  overlapped,                    \* two reads, or two writes, on one stream
  sock,                          \* the state of the current stream
  \* the venue's side of the current connection, and the users
  inbox, venueSubs, calls

books == <<subscriptions, pendingTopics, inflightSubscribes, reqIdCounter>>
link  == <<generation, connected, authenticated, reconnectScheduled>>
out   == <<outboundQueue, writeInFlight>>
net   == <<sock, inbox, venueSubs>>
vars  == <<books, link, out, net, reconnectDelayS, userClosed, pongAge,
           posted, ops, overlapped, calls>>

-----------------------------------------------------------------------------
(* Values *)

Bag == [Topics -> Nat]
NoTopics == [t \in Topics |-> 0]
Listed(b) == {t \in Topics : b[t] > 0}

\* A frame, in either direction.  req_id 0 stands for a frame without one; `about' is
\* not in the frame and read by no handler: the request that it is or that it answers.
Packet == [op : {"none", "auth", "subscribe", "unsubscribe", "ping", "pong", "push", "bad"},
           success : BOOLEAN, req_id : Nat, about : Nat, topics : SUBSET Topics]
Request(op, id, topics) ==
  [op |-> op, success |-> TRUE, req_id |-> id, about |-> id, topics |-> topics]
Reply(op, success, id, about) ==
  [op |-> op, success |-> success, req_id |-> id, about |-> about, topics |-> {}]
NoPacket == Reply("none", TRUE, 0, 0)

DialKinds == {"resolve", "connect", "tls", "upgrade"}
Op == [kind : DialKinds \cup {"read", "write", "close", "ping", "reconnect"},
       gen : Nat, res : {"armed", "ok", "err"}, pkt : Packet]
Armed(kind, gen, pkt) == [kind |-> kind, gen |-> gen, res |-> "armed", pkt |-> pkt]
Finished(o, res, pkt) == [kind |-> o.kind, gen |-> o.gen, res |-> res, pkt |-> pkt]

Job == [kind : {"connect", "flush", "unsubscribe", "close"}, topics : SUBSET Topics]

\* "dead": the peer is gone but the stream has not noticed; "aborted": the
\* transport was closed under a stream Beast still reports as open.
SockStates == {"none", "open", "dead", "aborted", "closing", "closed"}
IsOpen == sock \in {"open", "dead", "aborted"}

\* The network and the venue may misbehave only before the last generation.
Faulty == generation < MaxGen

Init ==
  /\ generation = 0 /\ connected = FALSE /\ authenticated = FALSE
  /\ reconnectScheduled = FALSE /\ reconnectDelayS = 1 /\ userClosed = FALSE
  /\ writeInFlight = FALSE /\ outboundQueue = <<>>
  /\ subscriptions = NoTopics /\ pendingTopics = NoTopics
  /\ inflightSubscribes = {} /\ reqIdCounter = 0 /\ pongAge = 0
  /\ posted = <<>> /\ ops = {} /\ overlapped = FALSE
  /\ sock = "none" /\ inbox = <<>> /\ venueSubs = {} /\ calls = 0

-----------------------------------------------------------------------------
(* What several handlers share.  A definition named ..._Mutant is a plausible  *)
(* mistake in the code the definition after it models; no specification uses it. *)

IsUserClosed_Mutant == FALSE
IsUserClosed == userClosed

\* Two operations Beast does not allow on one stream at a time.
Collide(a, b) ==
  /\ a.gen = b.gen
  /\ \/ a.kind = "read" /\ b.kind = "read"
     \/ {a.kind, b.kind} \subseteq {"write", "close"}

\* The operations are `rest' and the newly started ones.
Start(rest, new) ==
  /\ ops' = rest \cup new
  /\ overlapped' = (overlapped \/ \E n \in new, o \in rest : Collide(n, o))

\* One more wait of the heartbeat.
HeartbeatWait_Mutant == {}
HeartbeatWait == {Armed("ping", generation, NoPacket)}

\* The waits a cancel() or expires_after() of the ping timer aborts.
PingWaits == {o \in ops : o.kind = "ping" /\ o.res = "armed"}

\* pump(): with queue q, start a write of its head unless one is in flight.
MayWrite_Mutant(q, inFlight, up) == up /\ IsOpen /\ q # <<>>
MayWrite(q, inFlight, up) == ~inFlight /\ up /\ IsOpen /\ q # <<>>
Pump(q, inFlight, up, rest, new) ==
  LET go == MayWrite(q, inFlight, up)
  IN  /\ outboundQueue' = IF go THEN Tail(q) ELSE q
      /\ writeInFlight' = (inFlight \/ go)
      /\ Start(rest, new \cup (IF go THEN {Armed("write", generation, Head(q))} ELSE {}))

\* Topics may be sent: the connection is up and, if need be, authenticated.
MayFlush(up, auth) == up /\ (AuthRequired => auth)

\* flushTopics(): all pending topics leave in one subscribe op.
FlushTopics(up, auth, rest, new) ==
  IF MayFlush(up, auth) /\ pendingTopics # NoTopics
  THEN /\ subscriptions' = [t \in Topics |-> subscriptions[t] + pendingTopics[t]]
       /\ pendingTopics' = NoTopics
       /\ reqIdCounter' = reqIdCounter + 1
       /\ inflightSubscribes' = inflightSubscribes
                                  \cup {[id |-> reqIdCounter + 1, args |-> pendingTopics]}
       /\ Pump(Append(outboundQueue,
                      Request("subscribe", reqIdCounter + 1, Listed(pendingTopics))),
               writeInFlight, up, rest, new)
  ELSE /\ UNCHANGED <<books, out>>
       /\ Start(rest, new)

\* startConnect(): a fresh stream under a new generation.
StartConnect(rest) ==
  IF IsUserClosed
  THEN /\ ops' = rest
       /\ UNCHANGED <<generation, connected, authenticated, writeInFlight, net>>
  ELSE /\ generation' = generation + 1
       /\ connected' = FALSE /\ authenticated' = FALSE /\ writeInFlight' = FALSE
       /\ sock' = "none" /\ inbox' = <<>> /\ venueSubs' = {}
       /\ ops' = rest \cup {Armed("resolve", generation + 1, NoPacket)}

\* The next delay of the reconnect timer.
NextDelay_Mutant == reconnectDelayS + RECONNECT_DELAY_MAX
NextDelay == IF 2 * reconnectDelayS < RECONNECT_DELAY_MAX
             THEN 2 * reconnectDelayS ELSE RECONNECT_DELAY_MAX

\* The topics the next connection has to send: those that wait and those the
\* lost connection carried.
Replayed_Mutant == subscriptions
Replayed == [t \in Topics |-> pendingTopics[t] + subscriptions[t]]

\* What is left of the frames that were queued for the lost connection.
KeptQueue_Mutant == outboundQueue
KeptQueue == <<>>

\* handleError() does nothing for a burst of errors off one socket, nor after close.
IgnoresError_Mutant == IsUserClosed
IgnoresError_Mutant2 == reconnectScheduled \/ IsUserClosed \/ ~connected
IgnoresError == reconnectScheduled \/ IsUserClosed

\* handleError() of the current generation.  `failed' says that an operation of
\* the stream reported the error, after which Beast no longer calls it open;
\* `inFlight' is writeInFlight as the caller left it.
HandleError(rest, inFlight, failed) ==
  IF IgnoresError
  THEN /\ ops' = rest
       /\ writeInFlight' = inFlight
       /\ sock' = IF failed THEN "closed" ELSE sock
       /\ UNCHANGED <<link, reconnectDelayS, books, outboundQueue, inbox, venueSubs>>
  ELSE /\ reconnectScheduled' = TRUE
       /\ connected' = FALSE /\ authenticated' = FALSE /\ writeInFlight' = FALSE
       /\ outboundQueue' = KeptQueue /\ inflightSubscribes' = {}
       /\ pendingTopics' = Replayed
       /\ subscriptions' = NoTopics
       /\ sock' = IF failed \/ ~IsOpen THEN "closed" ELSE "aborted"
       /\ inbox' = <<>> /\ venueSubs' = {}
       /\ ops' = (rest \ PingWaits) \cup {Armed("reconnect", generation, NoPacket)}
       /\ reconnectDelayS' = NextDelay
       /\ UNCHANGED <<generation, reqIdCounter>>

-----------------------------------------------------------------------------
(* User threads *)

\* addTopic(): noted once, whether it was sent already or still waits.
AddTopic_Mutant(t) ==
  pendingTopics' = IF pendingTopics[t] = 0
                   THEN [pendingTopics EXCEPT ![t] = 1] ELSE pendingTopics
AddTopic(t) ==
  pendingTopics' = IF subscriptions[t] = 0 /\ pendingTopics[t] = 0
                   THEN [pendingTopics EXCEPT ![t] = 1] ELSE pendingTopics

PostJob(kind, topics) == posted' = Append(posted, [kind |-> kind, topics |-> topics])

\* subscribe(); the first one creates the session and becomes run().
Subscribe(t) ==
  /\ calls < MaxCalls /\ calls' = calls + 1
  /\ AddTopic(t)
  /\ PostJob(IF calls = 0 THEN "connect" ELSE "flush", {})
  /\ UNCHANGED <<subscriptions, inflightSubscribes, reqIdCounter, link, out, net,
                 reconnectDelayS, userClosed, pongAge, ops, overlapped>>

\* removeTopic(): out of both books.
RemoveTopic(t) ==
  /\ pendingTopics' = [pendingTopics EXCEPT ![t] = 0]
  /\ subscriptions' = IF subscriptions[t] > 0
                      THEN [subscriptions EXCEPT ![t] = @ - 1] ELSE subscriptions

\* unsubscribe(): the venue hears of it only if the subscribe was sent.
Unsubscribe(t) ==
  /\ calls \in 1 .. MaxCalls - 1 /\ calls' = calls + 1
  /\ RemoveTopic(t)
  /\ IF subscriptions[t] > 0 THEN PostJob("unsubscribe", {t}) ELSE UNCHANGED posted
  /\ UNCHANGED <<inflightSubscribes, reqIdCounter, link, out, net,
                 reconnectDelayS, userClosed, pongAge, ops, overlapped>>

\* close().
Close ==
  /\ Closable
  /\ calls \in 1 .. MaxCalls - 1 /\ calls' = calls + 1
  /\ PostJob("close", {})
  /\ UNCHANGED <<books, link, out, net, reconnectDelayS, userClosed, pongAge,
                 ops, overlapped>>

-----------------------------------------------------------------------------
(* Handlers the user threads post *)

NextJob(kind) == posted # <<>> /\ Head(posted).kind = kind /\ posted' = Tail(posted)

JobConnect ==
  /\ NextJob("connect")
  /\ StartConnect(ops)
  /\ UNCHANGED <<books, reconnectScheduled, outboundQueue, reconnectDelayS, userClosed,
                 pongAge, overlapped, calls>>

JobFlush ==
  /\ NextJob("flush")
  /\ FlushTopics(connected, authenticated, ops, {})
  /\ UNCHANGED <<link, net, reconnectDelayS, userClosed, pongAge, calls>>

JobUnsubscribe ==
  /\ NextJob("unsubscribe")
  /\ IF connected
     THEN Pump(Append(outboundQueue, Request("unsubscribe", 0, Head(posted).topics)),
               writeInFlight, connected, ops, {})
     ELSE UNCHANGED <<out, ops, overlapped>>
  /\ UNCHANGED <<books, link, net, reconnectDelayS, userClosed, pongAge, calls>>

\* closeByUser(): aborted waits and lookups finish with an error; an open,
\* idle stream is closed gracefully, any other transport is dropped.
JobClose ==
  /\ NextJob("close")
  /\ IF IsUserClosed
     THEN UNCHANGED <<userClosed, ops, overlapped, sock, venueSubs>>
     ELSE LET rest == {IF o.res = "armed" /\ o.kind \in DialKinds \cup {"reconnect"}
                       THEN Finished(o, "err", NoPacket) ELSE o : o \in ops \ PingWaits}
          IN  /\ userClosed' = TRUE
              /\ venueSubs' = {}
              /\ IF IsOpen /\ ~writeInFlight
                 THEN /\ sock' = "closing"
                      /\ Start(rest, {Armed("close", generation, NoPacket)})
                 ELSE /\ sock' = IF generation = 0 THEN "none" ELSE "closed"
                      /\ Start(rest, {})
  /\ UNCHANGED <<books, link, out, inbox, reconnectDelayS, pongAge, calls>>

-----------------------------------------------------------------------------
(* Completion handlers *)

\* A finished operation whose handler finds its own generation.
Ready(o, kind) == o.kind = kind /\ o.gen = generation /\ o.res # "armed"

\* onResolve(), onConnect(), onSSLHandshake(): each starts the next stage.
NextStage == [resolve |-> "connect", connect |-> "tls", tls |-> "upgrade"]
OnDial(o) ==
  /\ o.kind \in DialKinds \ {"upgrade"} /\ Ready(o, o.kind)
  /\ IF o.res = "err"
     THEN HandleError(ops \ {o}, writeInFlight, TRUE)
     ELSE /\ ops' = (ops \ {o}) \cup {Armed(NextStage[o.kind], generation, NoPacket)}
          /\ UNCHANGED <<books, link, out, net, reconnectDelayS>>
  /\ UNCHANGED <<userClosed, pongAge, posted, overlapped, calls>>

\* A handshake proves nothing yet: a wrong API key passes it.
HandshakeBackoff_Mutant == reconnectDelayS' = 1
HandshakeBackoff == UNCHANGED reconnectDelayS

\* onHandshake(): the connection is up; authenticate or subscribe, then read.
OnHandshake(o) ==
  /\ Ready(o, "upgrade")
  /\ \/ /\ o.res = "err"
        /\ HandleError(ops \ {o}, writeInFlight, TRUE)
        /\ UNCHANGED <<pongAge, overlapped>>
     \/ /\ o.res = "ok" /\ IsUserClosed
        /\ ops' = ops \ {o}
        /\ UNCHANGED <<books, link, out, net, reconnectDelayS, pongAge, overlapped>>
     \/ /\ o.res = "ok" /\ ~IsUserClosed
        /\ connected' = TRUE /\ pongAge' = 0
        /\ LET rest == (ops \ {o}) \ PingWaits
               new  == HeartbeatWait \cup {Armed("read", generation, NoPacket)}
           IN  IF AuthRequired
               THEN /\ Pump(Append(outboundQueue, Request("auth", 0, {})), writeInFlight,
                            TRUE, rest, new)
                    /\ UNCHANGED books
               ELSE FlushTopics(TRUE, authenticated, rest, new)
        /\ HandshakeBackoff
        /\ UNCHANGED <<generation, authenticated, reconnectScheduled, net>>
  /\ UNCHANGED <<userClosed, posted, calls>>

\* The write completion handler.
OnWrite(o) ==
  /\ Ready(o, "write")
  /\ IF o.res = "err"
     THEN /\ HandleError(ops \ {o}, FALSE, TRUE)
          /\ UNCHANGED overlapped
     ELSE /\ Pump(outboundQueue, FALSE, connected, ops \ {o}, {})
          /\ UNCHANGED <<books, link, net, reconnectDelayS>>
  /\ UNCHANGED <<userClosed, pongAge, posted, calls>>

\* The end of onRead(): read on unless the connection is being recycled, and
\* reset the backoff once the connection proved operational.
Rearm == IF connected /\ ~reconnectScheduled THEN {Armed("read", generation, NoPacket)} ELSE {}
ResetBackoff(auth) ==
  reconnectDelayS' = IF Rearm # {} /\ (AuthRequired => auth) THEN 1 ELSE reconnectDelayS

ReadyFrame(o, op) == Ready(o, "read") /\ o.res = "ok" /\ o.pkt.op = op

\* onRead() with an error, or with a frame that is not JSON: no further read.
OnReadFailure(o) ==
  /\ \/ Ready(o, "read") /\ o.res = "err"
     \/ ReadyFrame(o, "bad")
  /\ HandleError(ops \ {o}, writeInFlight, o.res = "err")
  /\ UNCHANGED <<userClosed, pongAge, posted, overlapped, calls>>

\* A rejected auth recycles the connection, unless the user closed it: then
\* handleError() does nothing and the read goes on.
OnAuthRejected(o) ==
  /\ ReadyFrame(o, "auth") /\ ~o.pkt.success
  /\ HandleError((ops \ {o}) \cup (IF IsUserClosed THEN Rearm ELSE {}), writeInFlight, FALSE)
  /\ UNCHANGED <<userClosed, pongAge, posted, overlapped, calls>>

OnPong(o) ==
  /\ ReadyFrame(o, "pong")
  /\ pongAge' = 0
  /\ ResetBackoff(authenticated)
  /\ Start(ops \ {o}, Rearm)
  /\ UNCHANGED <<books, link, out, net, userClosed, posted, calls>>

\* A topic push, or the answer to an unsubscribe: no book changes.
OnPush(o) ==
  /\ ReadyFrame(o, "push") \/ ReadyFrame(o, "unsubscribe")
  /\ ResetBackoff(authenticated)
  /\ Start(ops \ {o}, Rearm)
  /\ UNCHANGED <<books, link, out, net, userClosed, pongAge, posted, calls>>

OnAuthAck(o) ==
  /\ ReadyFrame(o, "auth") /\ o.pkt.success
  /\ authenticated' = TRUE
  /\ reconnectDelayS' = 1
  /\ FlushTopics(connected, TRUE, ops \ {o}, Rearm)
  /\ UNCHANGED <<generation, connected, reconnectScheduled, net, userClosed, pongAge,
                 posted, calls>>

\* The op in flight an ack answers: by req_id, else the oldest one.
Attributed_Mutant(p) ==
  {op \in inflightSubscribes :
     \/ op.id = p.req_id
     \/ p.req_id = 0 /\ \A other \in inflightSubscribes : op.id >= other.id}
Attributed(p) ==
  {op \in inflightSubscribes :
     \/ op.id = p.req_id
     \/ p.req_id = 0 /\ \A other \in inflightSubscribes : op.id <= other.id}

\* handleApiControlMsg() on a subscribe ack; a rejected op takes one
\* occurrence of each of its topics out of `subscriptions'.
OnSubscribeAck(o) ==
  /\ ReadyFrame(o, "subscribe")
  /\ inflightSubscribes' = inflightSubscribes \ Attributed(o.pkt)
  /\ IF o.pkt.success \/ Attributed(o.pkt) = {}
     THEN UNCHANGED subscriptions
     ELSE \E op \in Attributed(o.pkt) :
            subscriptions' = [t \in Topics |-> IF subscriptions[t] > op.args[t]
                                               THEN subscriptions[t] - op.args[t] ELSE 0]
  /\ ResetBackoff(authenticated)
  /\ Start(ops \ {o}, Rearm)
  /\ UNCHANGED <<pendingTopics, reqIdCounter, link, out, net, userClosed, pongAge,
                 posted, calls>>

\* onPingTimer(): a tick.  PING_INTERVAL exceeds AUTH_ACK_TIMEOUT, so a tick
\* without the auth ack is past the auth deadline.
OnPingTimer(o) ==
  /\ Ready(o, "ping")
  /\ \/ /\ IsUserClosed
        /\ ops' = ops \ {o}
        /\ UNCHANGED <<books, link, out, net, reconnectDelayS, pongAge, overlapped>>
     \/ /\ ~IsUserClosed /\ ~connected
        /\ Start((ops \ {o}) \ PingWaits, HeartbeatWait)
        /\ UNCHANGED <<books, link, out, net, reconnectDelayS, pongAge>>
     \/ /\ ~IsUserClosed /\ connected
        /\ pongAge >= PONG_TIMEOUT_TICKS \/ (AuthRequired /\ ~authenticated)
        /\ HandleError(ops \ {o}, writeInFlight, FALSE)
        /\ UNCHANGED <<pongAge, overlapped>>
     \/ /\ ~IsUserClosed /\ connected
        /\ pongAge < PONG_TIMEOUT_TICKS /\ (AuthRequired => authenticated)
        /\ pongAge' = pongAge + 1
        /\ Pump(Append(outboundQueue, Request("ping", 0, {})), writeInFlight, connected,
                (ops \ {o}) \ PingWaits, HeartbeatWait)
        /\ UNCHANGED <<books, link, net, reconnectDelayS>>
  /\ UNCHANGED <<userClosed, posted, calls>>

\* The reconnect timer's handler.
OnReconnectTimer(o) ==
  /\ Ready(o, "reconnect")
  /\ reconnectScheduled' = FALSE
  /\ IF o.res = "err"
     THEN /\ ops' = ops \ {o}
          /\ UNCHANGED <<generation, connected, authenticated, writeInFlight, net>>
     ELSE StartConnect(ops \ {o})
  /\ UNCHANGED <<books, outboundQueue, reconnectDelayS, userClosed, pongAge, posted,
                 overlapped, calls>>

\* async_close() finished: nothing but a log line.
OnClosed(o) ==
  /\ Ready(o, "close")
  /\ ops' = ops \ {o}
  /\ UNCHANGED <<books, link, out, net, reconnectDelayS, userClosed, pongAge, posted,
                 overlapped, calls>>

\* A handler of an older generation returns at once; its operation could only
\* finish on a stream that was closed before.
OnStale(o) ==
  /\ o.gen # generation
  /\ ops' = ops \ {o}
  /\ UNCHANGED <<books, link, out, net, reconnectDelayS, userClosed, pongAge, posted,
                 overlapped, calls>>

-----------------------------------------------------------------------------
(* The outside world finishes operations of the current stream *)

Finish(o, res, pkt) == ops' = (ops \ {o}) \cup {Finished(o, res, pkt)}
ArmedNow(o, kind) == o.kind = kind /\ o.gen = generation /\ o.res = "armed"
Idle == <<books, link, out, reconnectDelayS, userClosed, pongAge, posted, overlapped, calls>>

DialSucceeds(o) ==
  /\ o.kind \in DialKinds /\ ArmedNow(o, o.kind)
  /\ Finish(o, "ok", NoPacket)
  /\ sock' = IF o.kind = "upgrade" THEN "open" ELSE sock
  /\ UNCHANGED <<Idle, inbox, venueSubs>>

DialFails(o) ==
  /\ Faulty
  /\ o.kind \in DialKinds /\ ArmedNow(o, o.kind)
  /\ Finish(o, "err", NoPacket)
  /\ UNCHANGED <<Idle, net>>

ReadArrives(o) ==
  /\ ArmedNow(o, "read") /\ sock \in {"open", "dead", "closing"} /\ inbox # <<>>
  /\ Finish(o, "ok", Head(inbox))
  /\ inbox' = Tail(inbox)
  /\ UNCHANGED <<Idle, sock, venueSubs>>

\* What the venue does with a frame, in the order frames were written.
VenueHandles(p) ==
  \/ /\ p.op = "auth"
     /\ \E success \in {TRUE, ~Faulty} : inbox' = Append(inbox, Reply("auth", success, 0, 0))
     /\ UNCHANGED venueSubs
  \/ /\ p.op = "subscribe"
     /\ \E success \in {TRUE, ~Faulty}, id \in {0, p.req_id} :
          /\ inbox' = Append(inbox, Reply("subscribe", success, id, p.req_id))
          /\ venueSubs' = IF success THEN venueSubs \cup p.topics ELSE venueSubs
  \/ /\ p.op = "unsubscribe"
     /\ inbox' = Append(inbox, Reply("unsubscribe", TRUE, 0, 0))
     /\ venueSubs' = venueSubs \ p.topics
  \/ /\ p.op = "ping"
     /\ inbox' = Append(inbox, Reply("pong", TRUE, 0, 0))
     /\ UNCHANGED venueSubs

WriteSent(o) ==
  /\ ArmedNow(o, "write") /\ sock = "open"
  /\ Finish(o, "ok", NoPacket)
  /\ VenueHandles(o.pkt)
  /\ UNCHANGED <<Idle, sock>>

\* Into the buffers of a peer that is gone.
WriteLost(o) ==
  /\ ArmedNow(o, "write") /\ sock = "dead"
  /\ Finish(o, "ok", NoPacket)
  /\ UNCHANGED <<Idle, net>>

\* An operation on a stream that is gone fails; on a dead one it may.
StreamFails(o) ==
  /\ \E kind \in {"read", "write", "close"} : ArmedNow(o, kind)
  /\ sock \in {"dead", "aborted", "closing", "closed"}
  /\ Finish(o, "err", NoPacket)
  /\ UNCHANGED <<Idle, net>>

\* Once the faults are over, a round trip takes less than a ping interval; before
\* that a tick may find up to MaxLag frames still on their way.
Quiet == /\ inbox = <<>> /\ outboundQueue = <<>> /\ posted = <<>>
         /\ \A o \in ops : o.kind # "write" /\ (o.kind = "read" => o.res = "armed")

PingFires(o) ==
  /\ ArmedNow(o, "ping")
  /\ sock = "open" => Quiet \/ (Faulty /\ Len(inbox) + Len(outboundQueue) <= MaxLag)
  /\ Finish(o, "ok", NoPacket)
  /\ UNCHANGED <<Idle, net>>

ReconnectFires(o) ==
  /\ ArmedNow(o, "reconnect")
  /\ Finish(o, "ok", NoPacket)
  /\ UNCHANGED <<Idle, net>>

(* The venue on its own *)

VenuePushes ==
  /\ sock = "open" /\ inbox = <<>> /\ venueSubs # {}
  /\ inbox' = <<Reply("push", TRUE, 0, 0)>>
  /\ UNCHANGED <<Idle, ops, sock, venueSubs>>

VenueBabbles ==
  /\ Faulty /\ sock = "open" /\ inbox = <<>>
  /\ inbox' = <<Reply("bad", TRUE, 0, 0)>>
  /\ UNCHANGED <<Idle, ops, sock, venueSubs>>

VenueDies ==
  /\ Faulty /\ sock = "open"
  /\ sock' = "dead" /\ venueSubs' = {}
  /\ UNCHANGED <<Idle, ops, inbox>>

-----------------------------------------------------------------------------
RunJob == JobConnect \/ JobFlush \/ JobUnsubscribe \/ JobClose

Handle(o) ==
  \/ OnDial(o) \/ OnHandshake(o) \/ OnWrite(o) \/ OnReadFailure(o) \/ OnAuthRejected(o)
  \/ OnPong(o) \/ OnPush(o) \/ OnAuthAck(o) \/ OnSubscribeAck(o) \/ OnPingTimer(o)
  \/ OnReconnectTimer(o) \/ OnClosed(o) \/ OnStale(o)

Completes(o) ==
  \/ DialSucceeds(o) \/ DialFails(o) \/ ReadArrives(o) \/ WriteSent(o) \/ WriteLost(o)
  \/ StreamFails(o) \/ PingFires(o) \/ ReconnectFires(o)

Next ==
  \/ \E t \in Topics : Subscribe(t)
  \/ \E t \in Unsubscribable : Unsubscribe(t)
  \/ Close
  \/ RunJob
  \/ \E o \in ops : Handle(o) \/ Completes(o)
  \/ VenuePushes \/ VenueBabbles \/ VenueDies

Spec == Init /\ [][Next]_vars

-----------------------------------------------------------------------------
(* Invariants *)

\* Every variable stays in its type, and the backoff within 1 s and its maximum
\* (handleError() doubles it, onRead() resets it).
TypeOK ==
  /\ generation \in Nat /\ connected \in BOOLEAN /\ authenticated \in BOOLEAN
  /\ reconnectScheduled \in BOOLEAN /\ reconnectDelayS \in 1 .. RECONNECT_DELAY_MAX
  /\ userClosed \in BOOLEAN /\ writeInFlight \in BOOLEAN /\ outboundQueue \in Seq(Packet)
  /\ subscriptions \in Bag /\ pendingTopics \in Bag
  /\ inflightSubscribes \in SUBSET [id : Nat, args : Bag] /\ reqIdCounter \in Nat
  /\ pongAge \in Nat /\ posted \in Seq(Job) /\ ops \in SUBSET Op /\ overlapped \in BOOLEAN
  /\ sock \in SockStates /\ inbox \in Seq(Packet) /\ venueSubs \subseteq Topics /\ calls \in Nat

\* A topic is noted at most once over both books, so that a replay after a
\* reconnect never subscribes it twice and one unsubscribe removes it for good
\* (addTopic(), flushTopics(), handleError()).
BooksDisjoint == \A t \in Topics : subscriptions[t] + pendingTopics[t] <= 1

\* Until the user closes the session at most one read and one write is outstanding on a
\* stream, as Beast demands (the write pump, the re-arming of the read in onRead()).  The
\* close may overlap with a write an error aborted that has not completed yet.
NoOverlap == userClosed \/ ~overlapped

\* isSubscriptionConfirmed().
Confirmed(t) == subscriptions[t] > 0 /\ \A op \in inflightSubscribes : op.args[t] = 0

\* While the connection lives, a topic the session calls confirmed is one the venue
\* delivers, unless the user may withdraw it: acks are attributed to the right op, on
\* the right connection (handleApiControlMsg(), handleError()).
ConfirmedIsFlowing ==
  \A t \in Topics \ Unsubscribable : Confirmed(t) /\ sock = "open" => t \in venueSubs

\* A session with credentials never has a subscribe on its way to the venue on
\* a connection the venue has not authenticated, across any reconnect.
SubscribesOnlyAuthenticated ==
  \A o \in ops : (ArmedNow(o, "write") /\ o.pkt.op = "subscribe" /\ sock = "open")
                   => (AuthRequired => authenticated)

\* What keeps a started session going: a stage of the connect chain, the read
\* of a connection that is up, or the reconnect timer.
Driver(o) ==
  /\ o.gen = generation
  /\ o.kind \in DialKinds \cup {"reconnect"} \/ (o.kind = "read" /\ connected)

\* A session that was started and not closed always has exactly one driver: it
\* is never abandoned (deaf, with nothing left that could reconnect it) and never
\* runs two connect attempts or read loops at once, whatever failed in which order.
\* While it is up the heartbeat that detects a silent peer is running too.
ExactlyOneDriver ==
  generation > 0 /\ ~userClosed =>
    /\ \E o \in ops : Driver(o) /\ \A p \in ops : Driver(p) => p = o
    /\ connected => \E o \in ops : o.kind = "ping" /\ o.gen = generation

\* Why ExactlyOneDriver holds: the session is in one of three situations, told
\* apart by its flags and by the operations of its generation.
Mine == {o \in ops : o.gen = generation}
Dialing == /\ ~connected /\ ~reconnectScheduled
           /\ \E o \in Mine : o.kind \in DialKinds /\ Mine = {o}
Up      == /\ connected /\ ~reconnectScheduled
           /\ \E o \in Mine : o.kind = "read" /\ \A p \in Mine : p.kind = "read" => p = o
           /\ \E o \in Mine : o.kind = "ping"
           /\ \A o \in Mine : o.kind \in {"read", "write", "ping"}
Waiting == /\ ~connected /\ reconnectScheduled
           /\ \E o \in Mine : o.kind = "reconnect" /\ \A p \in Mine : p.kind = "reconnect" => p = o
           /\ \A o \in Mine : o.kind \in {"read", "write", "ping", "reconnect"}

\* startConnect() is posted once, by run(), before anything else.
ConnectsOnce ==
  /\ calls = 0 => posted = <<>> /\ generation = 0
  /\ \A i \in 1 .. Len(posted) : posted[i].kind = "connect" => i = 1 /\ generation = 0
  /\ generation = 0 => /\ ops = {} /\ ~userClosed /\ ~reconnectScheduled
                       /\ calls > 0 => posted # <<>> /\ posted[1].kind = "connect"

\* No operation is of a generation yet to come; only close() aborts a reconnect wait.
OpsInv ==
  /\ \A o \in ops : o.gen <= generation
  /\ \A o \in ops : o.kind = "reconnect" /\ o.res = "err" => userClosed

Situation == Dialing \/ Up \/ Waiting

DriverInv ==
  /\ OpsInv
  /\ ConnectsOnce
  /\ generation > 0 /\ ~userClosed => Situation

-----------------------------------------------------------------------------
(* Action properties *)

\* The reconnect backoff shrinks only when a frame was received, and on a private
\* session only once it is authenticated: a handshake alone (a wrong API key) never
\* turns the backoff into a 1 s connect storm.
BackoffEarned ==
  [][reconnectDelayS' < reconnectDelayS =>
       /\ \E o \in ops \ ops' : o.kind = "read" /\ o.res = "ok"
       /\ AuthRequired => authenticated']_vars

\* After the user's close has run, no handler still queued on the strand starts a
\* connection or brings one up.
ClosedIsFinal ==
  [][userClosed => generation' = generation /\ (connected' => connected) /\ userClosed']_vars

-----------------------------------------------------------------------------
(* The phase of a topic in the abstract specification, SubscriptionBook *)

Phase(t) == IF pendingTopics[t] > 0 THEN "pending"
            ELSE IF subscriptions[t] = 0 THEN "absent"
            ELSE IF Confirmed(t) THEN "confirmed" ELSE "sent"
usable == connected /\ (AuthRequired => authenticated)
phases == [t \in Topics |-> Phase(t)]
Book == INSTANCE SubscriptionBook WITH up <- usable, phase <- phases

\* The session implements the subscription book: every handler moves topics between
\* pending, sent, confirmed and absent as the book allows, and none but the topics the
\* user may withdraw is ever dropped by an error path, a reconnect or a late answer.
SessionRefinesBook ==
  /\ Book!BookInit
  /\ [][Book!BookNext(Unsubscribable)]_<<usable, phases>>

-----------------------------------------------------------------------------
(* Liveness *)

Settled ==
  /\ connected /\ sock = "open" /\ (AuthRequired => authenticated)
  /\ pendingTopics = NoTopics /\ inflightSubscribes = {}

\* Once the network behaves, a session that was started ends up connected with
\* every topic confirmed, for good (unless the user closed it): no fault leaves it
\* half-open, unauthenticated or with a topic it will never send.
EventuallySettles == <>[](calls = 0 \/ userClosed \/ Settled)

\* A peer that vanishes without an error is noticed: the missing pong (or auth ack)
\* makes the session drop the connection.
SilentPeerDetected == (sock = "dead") ~> (sock # "dead" \/ userClosed)

============================================================================
