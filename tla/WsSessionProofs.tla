-------------------------- MODULE WsSessionProofs --------------------------
(* Machine-checked facts about WsSession, for every value of its constants. *)
EXTENDS WsSession, TLAPS, SequenceTheorems

-----------------------------------------------------------------------------
(* What the record constructors and the queue operations return. *)

\* The requests and the replies of the protocol are packets.
LEMMA PacketTypes ==
  /\ NoPacket \in Packet
  /\ \A id \in Nat, S \in SUBSET Topics :
       /\ Request("auth", id, S) \in Packet
       /\ Request("subscribe", id, S) \in Packet
       /\ Request("unsubscribe", id, S) \in Packet
       /\ Request("ping", id, S) \in Packet
  /\ \A id, k \in Nat, b \in BOOLEAN :
       /\ Reply("auth", b, id, k) \in Packet
       /\ Reply("subscribe", b, id, k) \in Packet
       /\ Reply("unsubscribe", b, id, k) \in Packet
       /\ Reply("pong", b, id, k) \in Packet
       /\ Reply("push", b, id, k) \in Packet
       /\ Reply("bad", b, id, k) \in Packet
  BY DEF Packet, Request, Reply, NoPacket

\* An operation that was just started is an operation.
LEMMA ArmedTypes ==
  ASSUME NEW gen \in Nat, NEW pkt \in Packet,
         NEW kind \in DialKinds \cup {"read", "write", "close", "ping", "reconnect"}
  PROVE  Armed(kind, gen, pkt) \in Op
  BY DEF Op, Armed

\* A completed operation keeps its kind and generation and carries the result.
LEMMA FinishedTypes ==
  ASSUME NEW o \in Op, NEW pkt \in Packet, NEW res \in {"ok", "err"}
  PROVE  /\ Finished(o, res, pkt) \in Op
         /\ Finished(o, res, pkt).kind = o.kind
         /\ Finished(o, res, pkt).gen = o.gen
         /\ Finished(o, res, pkt).res = res
         /\ Finished(o, res, pkt).pkt = pkt
  BY DEF Op, Finished

\* The empty book is a book.
LEMMA NoTopicsType == NoTopics \in Bag
  BY DEF NoTopics, Bag

\* A single frame makes a queue.
LEMMA OneFrame ==
  ASSUME NEW S, NEW x \in S PROVE <<x>> \in Seq(S)
  OBVIOUS

\* Appending to a queue and taking its head stay within its elements.
LEMMA QueueTypes ==
  ASSUME NEW S, NEW q \in Seq(S)
  PROVE  /\ \A x \in S : Append(q, x) \in Seq(S)
         /\ q # <<>> => Head(q) \in S /\ Tail(q) \in Seq(S)
  BY HeadTailProperties, AppendProperties

-----------------------------------------------------------------------------
(* Type correctness *)

\* pump() keeps the queue, the write flag and the operations in their types.
LEMMA PumpTypes ==
  ASSUME TypeOK, NEW q \in Seq(Packet), NEW inFlight \in BOOLEAN, NEW up \in BOOLEAN,
         NEW rest \in SUBSET Op, NEW new \in SUBSET Op,
         Pump(q, inFlight, up, rest, new)
  PROVE  /\ outboundQueue' \in Seq(Packet) /\ writeInFlight' \in BOOLEAN
         /\ ops' \in SUBSET Op /\ overlapped' \in BOOLEAN
  <1> DEFINE go == MayWrite(q, inFlight, up)
  <1>1. go => q # <<>>
    BY DEF MayWrite
  <1>2. outboundQueue' \in Seq(Packet)
    BY <1>1, QueueTypes DEF Pump
  <1>3. writeInFlight' \in BOOLEAN /\ overlapped' \in BOOLEAN
    BY DEF Pump, Start, MayWrite
  <1>4. ops' \in SUBSET Op
    <2>1. CASE go
      <3>1. Head(q) \in Packet
        BY <2>1, <1>1, QueueTypes
      <3>2. Armed("write", generation, Head(q)) \in Op
        BY <3>1, ArmedTypes DEF TypeOK
      <3> QED BY <2>1, <3>2 DEF Pump, Start
    <2>2. CASE ~go
      BY <2>2 DEF Pump, Start
    <2> QED BY <2>1, <2>2
  <1> QED BY <1>2, <1>3, <1>4

\* flushTopics() keeps the books, the request counter and what it pumps in their types.
LEMMA FlushTypes ==
  ASSUME TypeOK, NEW up \in BOOLEAN, NEW auth \in BOOLEAN,
         NEW rest \in SUBSET Op, NEW new \in SUBSET Op,
         FlushTopics(up, auth, rest, new)
  PROVE  /\ outboundQueue' \in Seq(Packet) /\ writeInFlight' \in BOOLEAN
         /\ ops' \in SUBSET Op /\ overlapped' \in BOOLEAN
         /\ subscriptions' \in Bag /\ pendingTopics' \in Bag
         /\ inflightSubscribes' \in SUBSET [id : Nat, args : Bag] /\ reqIdCounter' \in Nat
  <1> DEFINE frame == Request("subscribe", reqIdCounter + 1, Listed(pendingTopics))
  <1>1. CASE MayFlush(up, auth) /\ pendingTopics # NoTopics
    <2>1. frame \in Packet
      BY PacketTypes DEF Listed, TypeOK
    <2>2. Append(outboundQueue, frame) \in Seq(Packet)
      BY <2>1, QueueTypes DEF TypeOK
    <2>3. Pump(Append(outboundQueue, frame), writeInFlight, up, rest, new)
      BY <1>1 DEF FlushTopics
    <2>4. /\ outboundQueue' \in Seq(Packet) /\ writeInFlight' \in BOOLEAN
          /\ ops' \in SUBSET Op /\ overlapped' \in BOOLEAN
      <3>1. writeInFlight \in BOOLEAN
        BY DEF TypeOK
      <3> HIDE DEF frame
      <3> QED BY <2>2, <2>3, <3>1, PumpTypes, Zenon
    <2>5. subscriptions' \in Bag /\ pendingTopics' \in Bag
      BY <1>1, NoTopicsType DEF FlushTopics, TypeOK, Bag
    <2>6. inflightSubscribes' \in SUBSET [id : Nat, args : Bag] /\ reqIdCounter' \in Nat
      BY <1>1 DEF FlushTopics, TypeOK
    <2> QED BY <2>4, <2>5, <2>6
  <1>2. CASE ~(MayFlush(up, auth) /\ pendingTopics # NoTopics)
    BY <1>2 DEF FlushTopics, Start, TypeOK, books, out
  <1> QED BY <1>1, <1>2

\* startConnect() keeps the generation, the flags and the operations in their types.
LEMMA StartConnectTypes ==
  ASSUME TypeOK, NEW rest \in SUBSET Op, StartConnect(rest)
  PROVE  /\ generation' \in Nat /\ connected' \in BOOLEAN /\ authenticated' \in BOOLEAN
         /\ writeInFlight' \in BOOLEAN /\ ops' \in SUBSET Op
         /\ sock' \in SockStates /\ inbox' \in Seq(Packet) /\ venueSubs' \subseteq Topics
  <1>1. CASE IsUserClosed
    BY <1>1 DEF StartConnect, TypeOK, net
  <1>2. CASE ~IsUserClosed
    <2>1. Armed("resolve", generation + 1, NoPacket) \in Op
      BY ArmedTypes, PacketTypes DEF TypeOK, DialKinds
    <2>2. <<>> \in Seq(Packet)
      BY EmptySeq
    <2>3. ops' \in SUBSET Op
      BY <1>2, <2>1 DEF StartConnect
    <2>4. sock' \in SockStates /\ inbox' \in Seq(Packet) /\ venueSubs' \subseteq Topics
      BY <1>2, <2>2 DEF StartConnect, SockStates
    <2>5. generation' \in Nat
      BY <1>2 DEF StartConnect, TypeOK
    <2> QED BY <1>2, <2>3, <2>4, <2>5 DEF StartConnect
  <1> QED BY <1>1, <1>2

\* handleError() keeps the books, the delay and the flags in their types.
LEMMA HandleErrorTypes ==
  ASSUME TypeOK, NEW rest \in SUBSET Op, NEW inFlight \in BOOLEAN, NEW failed \in BOOLEAN,
         HandleError(rest, inFlight, failed)
  PROVE  /\ generation' \in Nat /\ connected' \in BOOLEAN /\ authenticated' \in BOOLEAN
         /\ reconnectScheduled' \in BOOLEAN /\ reconnectDelayS' \in 1 .. RECONNECT_DELAY_MAX
         /\ writeInFlight' \in BOOLEAN /\ outboundQueue' \in Seq(Packet)
         /\ subscriptions' \in Bag /\ pendingTopics' \in Bag
         /\ inflightSubscribes' \in SUBSET [id : Nat, args : Bag] /\ reqIdCounter' \in Nat
         /\ ops' \in SUBSET Op
         /\ sock' \in SockStates /\ inbox' \in Seq(Packet) /\ venueSubs' \subseteq Topics
  <1>1. CASE IgnoresError
    BY <1>1 DEF HandleError, TypeOK, link, books, SockStates
  <1>2. CASE ~IgnoresError
    <2>1. Armed("reconnect", generation, NoPacket) \in Op
      BY ArmedTypes, PacketTypes DEF TypeOK
    <2>2. <<>> \in Seq(Packet)
      BY EmptySeq
    <2>3. reconnectDelayS' \in 1 .. RECONNECT_DELAY_MAX
      BY <1>2, ConstantsAssumption DEF HandleError, TypeOK, NextDelay
    <2>4. subscriptions' \in Bag /\ pendingTopics' \in Bag
      BY <1>2, NoTopicsType DEF HandleError, TypeOK, Bag, Replayed
    <2>5. ops' \in SUBSET Op
      BY <1>2, <2>1 DEF HandleError
    <2>6. sock' \in SockStates
      BY <1>2 DEF HandleError, SockStates
    <2> QED BY <1>2, <2>2, <2>3, <2>4, <2>5, <2>6 DEF HandleError, KeptQueue, TypeOK
  <1> QED BY <1>1, <1>2

\* Every completion handler keeps the types.
LEMMA HandleTypes ==
  ASSUME TypeOK, NEW o \in ops, Handle(o)
  PROVE  TypeOK'
  <1> USE PacketTypes
  <1> DEFINE rest == ops \ {o}
  <1>0. /\ rest \in SUBSET Op /\ o \in Op /\ {} \in SUBSET Op
        /\ writeInFlight \in BOOLEAN /\ connected \in BOOLEAN /\ authenticated \in BOOLEAN
        /\ FALSE \in BOOLEAN /\ TRUE \in BOOLEAN
    BY DEF TypeOK
  <1>r. Rearm \in SUBSET Op /\ HeartbeatWait \in SUBSET Op
    BY ArmedTypes DEF TypeOK, Rearm, HeartbeatWait
  <1>b. ASSUME NEW auth \in BOOLEAN, ResetBackoff(auth)
        PROVE  reconnectDelayS' \in 1 .. RECONNECT_DELAY_MAX
    BY <1>b, ConstantsAssumption DEF ResetBackoff, TypeOK
  <1>s. ASSUME NEW r \in SUBSET Op, NEW new \in SUBSET Op, Start(r, new)
        PROVE  ops' \in SUBSET Op /\ overlapped' \in BOOLEAN
    BY <1>s DEF Start
  <1> HIDE DEF rest
  <1>1. CASE OnDial(o)
    <2>1. CASE o.res = "err"
      <3>1. HandleError(rest, writeInFlight, TRUE)
        BY <1>1, <2>1 DEF OnDial, rest
      <3> QED BY <1>0, <1>1, <3>1, HandleErrorTypes DEF OnDial, TypeOK
    <2>2. CASE o.res # "err"
      <3>1. NextStage[o.kind] \in DialKinds
        BY <1>1 DEF OnDial, NextStage, DialKinds
      <3>2. Armed(NextStage[o.kind], generation, NoPacket) \in Op
        BY <3>1, ArmedTypes DEF TypeOK
      <3>3. ops' \in SUBSET Op
        BY <1>0, <1>1, <2>2, <3>2 DEF OnDial, rest
      <3> QED BY <1>1, <2>2, <3>3 DEF OnDial, TypeOK, books, link, out, net
    <2> QED BY <2>1, <2>2
  <1>2. CASE OnHandshake(o)
    <2>1. CASE o.res = "err"
      <3>1. HandleError(rest, writeInFlight, TRUE) /\ UNCHANGED <<pongAge, overlapped>>
        BY <1>2, <2>1 DEF OnHandshake, rest
      <3> QED BY <1>0, <1>2, <3>1, HandleErrorTypes DEF OnHandshake, TypeOK
    <2>2. CASE o.res # "err" /\ IsUserClosed
      <3>1. ops' = rest /\ UNCHANGED <<books, link, out, net, reconnectDelayS, pongAge, overlapped>>
        BY <1>2, <2>2 DEF OnHandshake, rest
      <3> QED BY <1>0, <1>2, <3>1 DEF OnHandshake, TypeOK, books, link, out, net
    <2>3. CASE o.res # "err" /\ ~IsUserClosed
      <3> DEFINE rst == rest \ PingWaits
                 new == HeartbeatWait \cup {Armed("read", generation, NoPacket)}
      <3>1. rst \in SUBSET Op /\ new \in SUBSET Op
        BY <1>0, <1>r, ArmedTypes DEF TypeOK
      <3>2. /\ connected' = TRUE /\ pongAge' = 0 /\ HandshakeBackoff
            /\ UNCHANGED <<generation, authenticated, reconnectScheduled, net>>
            /\ IF AuthRequired
               THEN /\ Pump(Append(outboundQueue, Request("auth", 0, {})), writeInFlight,
                            TRUE, rst, new)
                    /\ UNCHANGED books
               ELSE FlushTopics(TRUE, authenticated, rst, new)
        BY <1>2, <2>3 DEF OnHandshake, rest
      <3> HIDE DEF rst, new
      <3>3. /\ outboundQueue' \in Seq(Packet) /\ writeInFlight' \in BOOLEAN
            /\ ops' \in SUBSET Op /\ overlapped' \in BOOLEAN
            /\ subscriptions' \in Bag /\ pendingTopics' \in Bag
            /\ inflightSubscribes' \in SUBSET [id : Nat, args : Bag] /\ reqIdCounter' \in Nat
        <4>1. CASE AuthRequired
          <5>1. Request("auth", 0, {}) \in Packet
            OBVIOUS
          <5>2. Append(outboundQueue, Request("auth", 0, {})) \in Seq(Packet)
            BY <5>1, QueueTypes DEF TypeOK
          <5>3. /\ outboundQueue' \in Seq(Packet) /\ writeInFlight' \in BOOLEAN
                /\ ops' \in SUBSET Op /\ overlapped' \in BOOLEAN
            BY <1>0, <3>1, <3>2, <4>1, <5>2, PumpTypes, Zenon
          <5> QED BY <3>2, <4>1, <5>3 DEF TypeOK, books
        <4>2. CASE ~AuthRequired
          BY <1>0, <3>1, <3>2, <4>2, FlushTypes, Zenon
        <4> QED BY <4>1, <4>2
      <3> QED BY <1>2, <3>2, <3>3 DEF OnHandshake, TypeOK, net, HandshakeBackoff
    <2> QED BY <2>1, <2>2, <2>3
  <1>3. CASE OnWrite(o)
    <2>1. CASE o.res = "err"
      <3>1. HandleError(rest, FALSE, TRUE) /\ UNCHANGED overlapped
        BY <1>3, <2>1 DEF OnWrite, rest
      <3> QED BY <1>0, <1>3, <3>1, HandleErrorTypes DEF OnWrite, TypeOK
    <2>2. CASE o.res # "err"
      <3>1. Pump(outboundQueue, FALSE, connected, rest, {})
        BY <1>3, <2>2 DEF OnWrite, rest
      <3>2. outboundQueue \in Seq(Packet)
        BY DEF TypeOK
      <3>3. /\ outboundQueue' \in Seq(Packet) /\ writeInFlight' \in BOOLEAN
            /\ ops' \in SUBSET Op /\ overlapped' \in BOOLEAN
        BY <1>0, <3>1, <3>2, PumpTypes, Zenon
      <3> QED BY <1>3, <2>2, <3>3 DEF OnWrite, TypeOK, books, link, net
    <2> QED BY <2>1, <2>2
  <1>4. CASE OnReadFailure(o)
    <2>1. HandleError(rest, writeInFlight, o.res = "err") /\ (o.res = "err") \in BOOLEAN
      BY <1>4 DEF OnReadFailure, rest
    <2> QED BY <1>0, <1>4, <2>1, HandleErrorTypes DEF OnReadFailure, TypeOK
  <1>5. CASE OnAuthRejected(o)
    <2>1. /\ HandleError(rest \cup (IF IsUserClosed THEN Rearm ELSE {}), writeInFlight, FALSE)
          /\ rest \cup (IF IsUserClosed THEN Rearm ELSE {}) \in SUBSET Op
      BY <1>0, <1>5, <1>r DEF OnAuthRejected, rest
    <2> QED BY <1>0, <1>5, <2>1, HandleErrorTypes DEF OnAuthRejected, TypeOK
  <1>6. CASE OnPong(o)
    <2>1. ResetBackoff(authenticated) /\ Start(rest, Rearm)
      BY <1>6 DEF OnPong, rest
    <2>2. reconnectDelayS' \in 1 .. RECONNECT_DELAY_MAX /\ ops' \in SUBSET Op /\ overlapped' \in BOOLEAN
      BY <1>0, <1>b, <1>s, <1>r, <2>1
    <2> QED BY <1>6, <2>2 DEF OnPong, TypeOK, books, link, out, net
  <1>7. CASE OnPush(o)
    <2>1. ResetBackoff(authenticated) /\ Start(rest, Rearm)
      BY <1>7 DEF OnPush, rest
    <2>2. reconnectDelayS' \in 1 .. RECONNECT_DELAY_MAX /\ ops' \in SUBSET Op /\ overlapped' \in BOOLEAN
      BY <1>0, <1>b, <1>s, <1>r, <2>1
    <2> QED BY <1>7, <2>2 DEF OnPush, TypeOK, books, link, out, net
  <1>8. CASE OnAuthAck(o)
    <2>1. FlushTopics(connected, TRUE, rest, Rearm)
      BY <1>8 DEF OnAuthAck, rest
    <2>2. reconnectDelayS' \in 1 .. RECONNECT_DELAY_MAX
      BY <1>8, ConstantsAssumption DEF OnAuthAck
    <2>3. /\ outboundQueue' \in Seq(Packet) /\ writeInFlight' \in BOOLEAN
          /\ ops' \in SUBSET Op /\ overlapped' \in BOOLEAN
          /\ subscriptions' \in Bag /\ pendingTopics' \in Bag
          /\ inflightSubscribes' \in SUBSET [id : Nat, args : Bag] /\ reqIdCounter' \in Nat
      BY <1>0, <1>r, <2>1, FlushTypes, Zenon
    <2> QED BY <1>8, <2>2, <2>3 DEF OnAuthAck, TypeOK, net
  <1>9. CASE OnSubscribeAck(o)
    <2>1. ResetBackoff(authenticated) /\ Start(rest, Rearm)
      BY <1>9 DEF OnSubscribeAck, rest
    <2>2. reconnectDelayS' \in 1 .. RECONNECT_DELAY_MAX /\ ops' \in SUBSET Op /\ overlapped' \in BOOLEAN
      BY <1>0, <1>b, <1>s, <1>r, <2>1
    <2>3. subscriptions' \in Bag
      <3>1. \A op \in Attributed(o.pkt) : op.args \in Bag
        BY DEF Attributed, TypeOK
      <3>2. CASE o.pkt.success \/ Attributed(o.pkt) = {}
        BY <1>9, <3>2 DEF OnSubscribeAck, TypeOK
      <3>3. CASE ~(o.pkt.success \/ Attributed(o.pkt) = {})
        <4>1. PICK op \in Attributed(o.pkt) :
                subscriptions' = [t \in Topics |-> IF subscriptions[t] > op.args[t]
                                                   THEN subscriptions[t] - op.args[t] ELSE 0]
          BY <1>9, <3>3 DEF OnSubscribeAck
        <4>2. op.args \in [Topics -> Nat] /\ subscriptions \in [Topics -> Nat]
          BY <3>1 DEF TypeOK, Bag
        <4>3. \A t \in Topics : (IF subscriptions[t] > op.args[t]
                                 THEN subscriptions[t] - op.args[t] ELSE 0) \in Nat
          BY <4>2
        <4> QED BY <4>1, <4>3 DEF Bag
      <3> QED BY <3>2, <3>3
    <2>4. inflightSubscribes' \in SUBSET [id : Nat, args : Bag]
      BY <1>9 DEF OnSubscribeAck, TypeOK
    <2> QED BY <1>9, <2>2, <2>3, <2>4 DEF OnSubscribeAck, TypeOK, link, out, net
  <1>10. CASE OnPingTimer(o)
    <2>1. CASE IsUserClosed
      <3>1. ops' = rest /\ UNCHANGED <<books, link, out, net, reconnectDelayS, pongAge, overlapped>>
        BY <1>10, <2>1 DEF OnPingTimer, rest
      <3> QED BY <1>0, <1>10, <3>1 DEF OnPingTimer, TypeOK, books, link, out, net
    <2>2. CASE ~IsUserClosed /\ ~connected
      <3>1. /\ Start(rest \ PingWaits, HeartbeatWait)
            /\ UNCHANGED <<books, link, out, net, reconnectDelayS, pongAge>>
        BY <1>10, <2>2 DEF OnPingTimer, rest
      <3>2. ops' \in SUBSET Op /\ overlapped' \in BOOLEAN
        BY <1>0, <1>r, <1>s, <3>1
      <3> QED BY <1>10, <3>1, <3>2 DEF OnPingTimer, TypeOK, books, link, out, net
    <2>3. CASE /\ ~IsUserClosed /\ connected
               /\ HandleError(rest, writeInFlight, FALSE) /\ UNCHANGED <<pongAge, overlapped>>
      BY <1>0, <1>10, <2>3, HandleErrorTypes DEF OnPingTimer, TypeOK
    <2>4. CASE /\ ~IsUserClosed /\ connected
               /\ pongAge' = pongAge + 1
               /\ Pump(Append(outboundQueue, Request("ping", 0, {})), writeInFlight, connected,
                       rest \ PingWaits, HeartbeatWait)
               /\ UNCHANGED <<books, link, net, reconnectDelayS>>
      <3>1. Request("ping", 0, {}) \in Packet
        OBVIOUS
      <3>2. Append(outboundQueue, Request("ping", 0, {})) \in Seq(Packet)
        BY <3>1, QueueTypes DEF TypeOK
      <3>3. rest \ PingWaits \in SUBSET Op
        BY <1>0
      <3>4. /\ outboundQueue' \in Seq(Packet) /\ writeInFlight' \in BOOLEAN
            /\ ops' \in SUBSET Op /\ overlapped' \in BOOLEAN
        BY <1>0, <1>r, <2>4, <3>2, <3>3, PumpTypes, Zenon
      <3> QED BY <1>10, <2>4, <3>4 DEF OnPingTimer, TypeOK, books, link, net
    <2> QED BY <1>10, <2>1, <2>2, <2>3, <2>4 DEF OnPingTimer, rest
  <1>11. CASE OnReconnectTimer(o)
    <2>1. CASE o.res = "err"
      <3>1. ops' = rest /\ UNCHANGED <<generation, connected, authenticated, writeInFlight, net>>
        BY <1>11, <2>1 DEF OnReconnectTimer, rest
      <3> QED BY <1>0, <1>11, <3>1 DEF OnReconnectTimer, TypeOK, books, net
    <2>2. CASE o.res # "err"
      <3>1. StartConnect(rest)
        BY <1>11, <2>2 DEF OnReconnectTimer, rest
      <3> QED BY <1>0, <1>11, <3>1, StartConnectTypes DEF OnReconnectTimer, TypeOK, books
    <2> QED BY <2>1, <2>2
  <1>12. CASE OnClosed(o)
    BY <1>12 DEF OnClosed, TypeOK, books, link, out, net
  <1>13. CASE OnStale(o)
    BY <1>13 DEF OnStale, TypeOK, books, link, out, net
  <1> QED BY <1>1, <1>2, <1>3, <1>4, <1>5, <1>6, <1>7, <1>8, <1>9, <1>10, <1>11, <1>12, <1>13
          DEF Handle

\* So does every completion of an asynchronous operation.
LEMMA CompletesTypes ==
  ASSUME TypeOK, NEW o \in ops, Completes(o)
  PROVE  TypeOK'
  <1> USE PacketTypes
  <1>1. o \in Op
    BY DEF TypeOK
  <1>2. ASSUME NEW res \in {"ok", "err"}, NEW pkt \in Packet, Finish(o, res, pkt)
        PROVE  ops' \in SUBSET Op
    <2>1. Finished(o, res, pkt) \in Op
      BY <1>1, FinishedTypes
    <2> QED BY <1>2, <2>1 DEF Finish, TypeOK
  <1>3. CASE DialSucceeds(o)
    <2>1. ops' \in SUBSET Op
      BY <1>2, <1>3 DEF DialSucceeds
    <2> QED BY <1>3, <2>1 DEF DialSucceeds, TypeOK, Idle, books, link, out, SockStates
  <1>4. CASE DialFails(o)
    <2>1. ops' \in SUBSET Op
      BY <1>2, <1>4 DEF DialFails
    <2> QED BY <1>4, <2>1 DEF DialFails, TypeOK, Idle, books, link, out, net
  <1>5. CASE ReadArrives(o)
    <2>1. Head(inbox) \in Packet /\ Tail(inbox) \in Seq(Packet)
      BY <1>5, QueueTypes DEF ReadArrives, TypeOK
    <2>2. ops' \in SUBSET Op
      BY <1>2, <1>5, <2>1 DEF ReadArrives
    <2> QED BY <1>5, <2>1, <2>2 DEF ReadArrives, TypeOK, Idle, books, link, out
  <1>6. CASE WriteSent(o)
    <2>1. ops' \in SUBSET Op
      BY <1>2, <1>6 DEF WriteSent
    <2>2. o.pkt.req_id \in Nat /\ o.pkt.topics \in SUBSET Topics
      BY <1>1 DEF Op, Packet
    <2>3. \A x \in Packet : Append(inbox, x) \in Seq(Packet)
      BY QueueTypes DEF TypeOK
    <2>4. inbox' \in Seq(Packet) /\ venueSubs' \subseteq Topics
      <3>1. VenueHandles(o.pkt)
        BY <1>6 DEF WriteSent
      <3> QED BY <2>2, <2>3, <3>1 DEF VenueHandles, TypeOK, Faulty
    <2> QED BY <1>6, <2>1, <2>4 DEF WriteSent, TypeOK, Idle, books, link, out
  <1>7. CASE WriteLost(o)
    <2>1. ops' \in SUBSET Op
      BY <1>2, <1>7 DEF WriteLost
    <2> QED BY <1>7, <2>1 DEF WriteLost, TypeOK, Idle, books, link, out, net
  <1>8. CASE StreamFails(o)
    <2>1. ops' \in SUBSET Op
      BY <1>2, <1>8 DEF StreamFails
    <2> QED BY <1>8, <2>1 DEF StreamFails, TypeOK, Idle, books, link, out, net
  <1>9. CASE PingFires(o)
    <2>1. ops' \in SUBSET Op
      BY <1>2, <1>9 DEF PingFires
    <2> QED BY <1>9, <2>1 DEF PingFires, TypeOK, Idle, books, link, out, net
  <1>10. CASE ReconnectFires(o)
    <2>1. ops' \in SUBSET Op
      BY <1>2, <1>10 DEF ReconnectFires
    <2> QED BY <1>10, <2>1 DEF ReconnectFires, TypeOK, Idle, books, link, out, net
  <1> QED BY <1>3, <1>4, <1>5, <1>6, <1>7, <1>8, <1>9, <1>10 DEF Completes

\* Every handler, completion and user call keeps every variable in its type.
THEOREM TypeCorrect == Spec => []TypeOK
  <1>1. Init => TypeOK
    <2>1. <<>> \in Seq(Packet) /\ <<>> \in Seq(Job)
      BY EmptySeq
    <2>2. 1 \in 1 .. RECONNECT_DELAY_MAX
      BY ConstantsAssumption
    <2>3. {} \in SUBSET [id : Nat, args : Bag] /\ {} \in SUBSET Op /\ {} \subseteq Topics
      OBVIOUS
    <2>4. 0 \in Nat /\ "none" \in SockStates
      BY DEF SockStates
    <2> QED BY <2>1, <2>2, <2>3, <2>4, NoTopicsType, Zenon DEF Init, TypeOK
  <1>2. ASSUME TypeOK, [Next]_vars PROVE TypeOK'
    <2> USE <1>2
    <2> USE PacketTypes, NoTopicsType, ConstantsAssumption
    <2>1. ASSUME NEW t \in Topics, Subscribe(t) PROVE TypeOK'
      <3>1. [kind |-> IF calls = 0 THEN "connect" ELSE "flush", topics |-> {}] \in Job
        BY DEF Job
      <3>2. posted' \in Seq(Job)
        BY <2>1, <3>1, QueueTypes DEF TypeOK, Subscribe, PostJob
      <3>3. pendingTopics' \in Bag
        BY <2>1 DEF TypeOK, Subscribe, AddTopic, Bag
      <3> QED BY <2>1, <3>2, <3>3 DEF TypeOK, Subscribe, link, out, net
    <2>2. ASSUME NEW t \in Unsubscribable, Unsubscribe(t) PROVE TypeOK'
      <3>1. [kind |-> "unsubscribe", topics |-> {t}] \in Job
        BY DEF Job
      <3>2. posted' \in Seq(Job)
        <4>1. Append(posted, [kind |-> "unsubscribe", topics |-> {t}]) \in Seq(Job)
          BY <3>1, QueueTypes DEF TypeOK
        <4> QED BY <2>2, <4>1 DEF TypeOK, Unsubscribe, RemoveTopic, PostJob
      <3>3. pendingTopics' \in Bag /\ subscriptions' \in Bag
        <4>1. t \in Topics /\ subscriptions[t] \in Nat
          BY DEF TypeOK, Bag
        <4> QED BY <2>2, <4>1 DEF TypeOK, Unsubscribe, RemoveTopic, Bag
      <3> QED BY <2>2, <3>2, <3>3 DEF TypeOK, Unsubscribe, RemoveTopic, link, out, net
    <2>3. CASE Close
      <3>1. [kind |-> "close", topics |-> {}] \in Job
        BY DEF Job
      <3>2. posted' \in Seq(Job)
        BY <2>3, <3>1, QueueTypes DEF TypeOK, Close, PostJob
      <3> QED BY <2>3, <3>2 DEF TypeOK, Close, books, link, out, net
    <2>4. ASSUME NEW kind, NextJob(kind)
          PROVE  posted' \in Seq(Job) /\ Head(posted).topics \in SUBSET Topics
      <3>1. Head(posted) \in Job /\ posted' \in Seq(Job)
        BY <2>4, QueueTypes DEF NextJob, TypeOK
      <3> QED BY <3>1 DEF Job
    <2>5. CASE JobConnect
      <3>1. posted' \in Seq(Job)
        BY <2>4, <2>5 DEF JobConnect
      <3>2. StartConnect(ops)
        BY <2>5 DEF JobConnect
      <3> QED BY <2>5, <3>1, <3>2, StartConnectTypes DEF TypeOK, JobConnect, books
    <2>6. CASE JobFlush
      <3>1. posted' \in Seq(Job)
        BY <2>4, <2>6 DEF JobFlush
      <3>2. FlushTopics(connected, authenticated, ops, {})
        BY <2>6 DEF JobFlush
      <3>3. {} \in SUBSET Op /\ ops \in SUBSET Op /\ connected \in BOOLEAN /\ authenticated \in BOOLEAN
        BY DEF TypeOK
      <3> QED BY <2>6, <3>1, <3>2, <3>3, FlushTypes DEF TypeOK, JobFlush, link, net
    <2>7. CASE JobUnsubscribe
      <3>1. posted' \in Seq(Job) /\ Head(posted).topics \in SUBSET Topics
        BY <2>4, <2>7 DEF JobUnsubscribe
      <3> DEFINE frame == Request("unsubscribe", 0, Head(posted).topics)
      <3>2. Append(outboundQueue, frame) \in Seq(Packet)
        BY <3>1, QueueTypes DEF TypeOK
      <3>3. CASE connected
        <4>1. Pump(Append(outboundQueue, frame), writeInFlight, connected, ops, {})
          BY <2>7, <3>3 DEF JobUnsubscribe
        <4>2. {} \in SUBSET Op /\ ops \in SUBSET Op /\ writeInFlight \in BOOLEAN
              /\ connected \in BOOLEAN
          BY DEF TypeOK
        <4> HIDE DEF frame
        <4>3. /\ outboundQueue' \in Seq(Packet) /\ writeInFlight' \in BOOLEAN
              /\ ops' \in SUBSET Op /\ overlapped' \in BOOLEAN
          BY <3>2, <4>1, <4>2, PumpTypes, Zenon
        <4> QED BY <2>7, <3>1, <4>3 DEF TypeOK, JobUnsubscribe, books, link, net
      <3>4. CASE ~connected
        BY <2>7, <3>1, <3>4 DEF TypeOK, JobUnsubscribe, books, link, net, out
      <3> QED BY <3>3, <3>4
    <2>8. CASE JobClose
      <3>1. posted' \in Seq(Job)
        BY <2>4, <2>8 DEF JobClose
      <3>2. userClosed' \in BOOLEAN /\ sock' \in SockStates /\ venueSubs' \subseteq Topics
            /\ overlapped' \in BOOLEAN
        BY <2>8 DEF TypeOK, JobClose, SockStates, Start
      <3>3. ops' \in SUBSET Op
        <4>1. CASE IsUserClosed
          BY <2>8, <4>1 DEF JobClose, TypeOK
        <4>2. CASE ~IsUserClosed
          <5> DEFINE rest == {IF o.res = "armed" /\ o.kind \in DialKinds \cup {"reconnect"}
                              THEN Finished(o, "err", NoPacket) ELSE o : o \in ops \ PingWaits}
          <5>1. \A o \in ops : Finished(o, "err", NoPacket) \in Op
            BY FinishedTypes DEF TypeOK
          <5>2. rest \in SUBSET Op
            BY <5>1 DEF TypeOK
          <5>3. Armed("close", generation, NoPacket) \in Op
            BY ArmedTypes DEF TypeOK
          <5>4. Start(rest, {Armed("close", generation, NoPacket)}) \/ Start(rest, {})
            BY <2>8, <4>2 DEF JobClose
          <5> HIDE DEF rest
          <5> QED BY <5>2, <5>3, <5>4 DEF Start
        <4> QED BY <4>1, <4>2
      <3> QED BY <2>8, <3>1, <3>2, <3>3 DEF TypeOK, JobClose, books, link, out
    <2>9. ASSUME NEW o \in ops, Handle(o) PROVE TypeOK'
      BY <2>9, HandleTypes
    <2>10. ASSUME NEW o \in ops, Completes(o) PROVE TypeOK'
      BY <2>10, CompletesTypes
    <2>11. CASE VenuePushes
      BY <2>11, OneFrame DEF TypeOK, VenuePushes, Idle, books, link, out
    <2>12. CASE VenueBabbles
      BY <2>12, OneFrame DEF TypeOK, VenueBabbles, Idle, books, link, out
    <2>13. CASE VenueDies
      BY <2>13 DEF TypeOK, VenueDies, Idle, books, link, out, SockStates
    <2>14. CASE UNCHANGED vars
      BY <2>14 DEF TypeOK, vars, books, link, out, net
    <2> QED BY <1>2, <2>1, <2>2, <2>3, <2>5, <2>6, <2>7, <2>8, <2>9, <2>10, <2>11, <2>12,
               <2>13, <2>14 DEF Next, RunJob
  <1> QED BY <1>1, <1>2, PTL DEF Spec

-----------------------------------------------------------------------------
(* The topic books *)

\* How a step changes the two books.
BooksAdd    == \E t \in Topics : AddTopic(t) /\ UNCHANGED subscriptions
BooksRemove == \E t \in Topics :
                 /\ pendingTopics' = [pendingTopics EXCEPT ![t] = 0]
                 /\ \/ UNCHANGED subscriptions
                    \/ /\ subscriptions[t] > 0
                       /\ subscriptions' = [subscriptions EXCEPT ![t] = @ - 1]
BooksSend   == /\ subscriptions' = [t \in Topics |-> subscriptions[t] + pendingTopics[t]]
               /\ pendingTopics' = NoTopics
BooksReplay == pendingTopics' = Replayed /\ subscriptions' = NoTopics
BooksPrune  == /\ UNCHANGED pendingTopics
               /\ \E args \in Bag :
                    subscriptions' = [t \in Topics |-> IF subscriptions[t] > args[t]
                                                       THEN subscriptions[t] - args[t] ELSE 0]
BooksStep == \/ UNCHANGED <<subscriptions, pendingTopics>>
             \/ BooksAdd \/ BooksRemove \/ BooksSend \/ BooksReplay \/ BooksPrune

\* flushTopics() only moves topics from the pending to the subscribed book.
LEMMA FlushBooks ==
  ASSUME NEW up, NEW auth, NEW rest, NEW new, FlushTopics(up, auth, rest, new)
  PROVE  BooksStep
  BY DEF FlushTopics, books, BooksStep, BooksSend

\* handleError() only moves topics back, for the replay.
LEMMA HandleErrorBooks ==
  ASSUME NEW rest, NEW inFlight, NEW failed, HandleError(rest, inFlight, failed)
  PROVE  BooksStep
  BY DEF HandleError, books, BooksStep, BooksReplay

\* Every step changes the books in one of these ways.
LEMMA NextBooks ==
  ASSUME TypeOK, [Next]_vars PROVE BooksStep
  <1> USE DEF books
  <1>1. ASSUME NEW t \in Topics, Subscribe(t) PROVE BooksStep
    BY <1>1 DEF Subscribe, BooksStep, BooksAdd
  <1>2. ASSUME NEW t \in Unsubscribable, Unsubscribe(t) PROVE BooksStep
    <2>1. t \in Topics
      BY ConstantsAssumption
    <2> QED BY <1>2, <2>1 DEF Unsubscribe, RemoveTopic, BooksStep, BooksRemove
  <1>3. CASE Close
    BY <1>3 DEF Close, BooksStep
  <1>4. CASE RunJob
    <2>1. CASE JobFlush
      BY <2>1, FlushBooks DEF JobFlush
    <2> QED BY <1>4, <2>1 DEF RunJob, JobConnect, JobUnsubscribe, JobClose, BooksStep
  <1>5. ASSUME NEW o \in ops, Handle(o) PROVE BooksStep
    <2>1. CASE OnDial(o)
      BY <2>1, HandleErrorBooks DEF OnDial, BooksStep
    <2>2. CASE OnHandshake(o)
      BY <2>2, HandleErrorBooks, FlushBooks DEF OnHandshake, BooksStep
    <2>3. CASE OnWrite(o)
      BY <2>3, HandleErrorBooks DEF OnWrite, BooksStep
    <2>4. CASE OnReadFailure(o)
      BY <2>4, HandleErrorBooks DEF OnReadFailure
    <2>5. CASE OnAuthRejected(o)
      BY <2>5, HandleErrorBooks DEF OnAuthRejected
    <2>6. CASE OnAuthAck(o)
      BY <2>6, FlushBooks DEF OnAuthAck
    <2>7. CASE OnSubscribeAck(o)
      <3>1. CASE o.pkt.success \/ Attributed(o.pkt) = {}
        BY <2>7, <3>1 DEF OnSubscribeAck, BooksStep
      <3>2. CASE ~(o.pkt.success \/ Attributed(o.pkt) = {})
        <4>1. PICK op \in Attributed(o.pkt) :
                subscriptions' = [t \in Topics |-> IF subscriptions[t] > op.args[t]
                                                   THEN subscriptions[t] - op.args[t] ELSE 0]
          BY <2>7, <3>2 DEF OnSubscribeAck
        <4>2. op.args \in Bag
          BY DEF Attributed, TypeOK
        <4>3. UNCHANGED pendingTopics
          BY <2>7 DEF OnSubscribeAck
        <4> QED BY <4>1, <4>2, <4>3 DEF BooksStep, BooksPrune
      <3> QED BY <3>1, <3>2
    <2>8. CASE OnPingTimer(o)
      BY <2>8, HandleErrorBooks DEF OnPingTimer, BooksStep
    <2> QED BY <1>5, <2>1, <2>2, <2>3, <2>4, <2>5, <2>6, <2>7, <2>8
            DEF Handle, OnPong, OnPush, OnReconnectTimer, OnClosed, OnStale, BooksStep
  <1>6. ASSUME NEW o \in ops, Completes(o) PROVE BooksStep
    BY <1>6 DEF Completes, DialSucceeds, DialFails, ReadArrives, WriteSent, WriteLost,
                StreamFails, PingFires, ReconnectFires, Idle, BooksStep
  <1>7. CASE VenuePushes \/ VenueBabbles \/ VenueDies
    BY <1>7 DEF VenuePushes, VenueBabbles, VenueDies, Idle, BooksStep
  <1>8. CASE UNCHANGED vars
    BY <1>8 DEF vars, BooksStep
  <1> QED BY <1>1, <1>2, <1>3, <1>4, <1>5, <1>6, <1>7, <1>8 DEF Next

\* A topic is never noted twice: addTopic() looks into both books, flushTopics() and
\* handleError() only move topics, and the rest takes them out.
THEOREM BooksStayDisjoint == Spec => []BooksDisjoint
  <1>1. Init => BooksDisjoint
    BY DEF Init, BooksDisjoint, NoTopics
  <1>2. ASSUME TypeOK, BooksDisjoint, [Next]_vars PROVE BooksDisjoint'
    <2>1. BooksStep
      BY <1>2, NextBooks
    <2>2. subscriptions \in [Topics -> Nat] /\ pendingTopics \in [Topics -> Nat]
      BY <1>2 DEF TypeOK, Bag
    <2>3. CASE UNCHANGED <<subscriptions, pendingTopics>>
      BY <1>2, <2>3 DEF BooksDisjoint
    <2>4. CASE BooksAdd
      BY <1>2, <2>2, <2>4 DEF BooksDisjoint, BooksAdd, AddTopic
    <2>5. CASE BooksRemove
      BY <1>2, <2>2, <2>5 DEF BooksDisjoint, BooksRemove
    <2>6. CASE BooksSend
      BY <1>2, <2>2, <2>6 DEF BooksDisjoint, BooksSend, NoTopics
    <2>7. CASE BooksReplay
      BY <1>2, <2>2, <2>7 DEF BooksDisjoint, BooksReplay, Replayed, NoTopics
    <2>8. CASE BooksPrune
      <3>1. PICK args \in Bag :
              subscriptions' = [t \in Topics |-> IF subscriptions[t] > args[t]
                                                 THEN subscriptions[t] - args[t] ELSE 0]
        BY <2>8 DEF BooksPrune
      <3>2. UNCHANGED pendingTopics /\ args \in [Topics -> Nat]
        BY <2>8 DEF BooksPrune, Bag
      <3> QED BY <1>2, <2>2, <3>1, <3>2 DEF BooksDisjoint
    <2> QED BY <2>1, <2>3, <2>4, <2>5, <2>6, <2>7, <2>8 DEF BooksStep
  <1> QED BY <1>1, <1>2, TypeCorrect, PTL DEF Spec

-----------------------------------------------------------------------------
(* One driver *)

\* The fields of an operation that was just started.
LEMMA ArmedFields ==
  ASSUME NEW kind, NEW gen, NEW pkt
  PROVE  /\ Armed(kind, gen, pkt).kind = kind /\ Armed(kind, gen, pkt).gen = gen
         /\ Armed(kind, gen, pkt).res = "armed"
  BY DEF Armed

Writes(W) == \A w \in W : w.kind = "write" /\ w.gen = generation /\ w.res = "armed"

\* Pumping adds at most writes of the current generation to the operations.
LEMMA PumpOps ==
  ASSUME NEW q, NEW inFlight, NEW up, NEW rest, NEW new,
         Pump(q, inFlight, up, rest, new)
  PROVE  \E W : /\ ops' = (rest \cup new) \cup W
                /\ Writes(W)
  <1> DEFINE W == IF MayWrite(q, inFlight, up)
                  THEN {Armed("write", generation, Head(q))} ELSE {}
  <1>1. ops' = (rest \cup new) \cup W
    BY DEF Pump, Start
  <1>2. Writes(W)
    BY ArmedFields DEF Writes
  <1> HIDE DEF W
  <1> QED BY <1>1, <1>2

\* So does flushing, and only while the connection is up.
LEMMA FlushOps ==
  ASSUME NEW up, NEW auth, NEW rest, NEW new, FlushTopics(up, auth, rest, new)
  PROVE  \E W : /\ ops' = (rest \cup new) \cup W
                /\ Writes(W)
                /\ ~up => W = {}
  <1>1. CASE MayFlush(up, auth) /\ pendingTopics # NoTopics
    <2>1. up
      BY <1>1 DEF MayFlush
    <2>2. PICK q : Pump(q, writeInFlight, up, rest, new)
      BY <1>1 DEF FlushTopics
    <2>3. PICK W : /\ ops' = (rest \cup new) \cup W
                   /\ Writes(W)
      BY <2>2, PumpOps
    <2> QED BY <2>1, <2>3
  <1>2. CASE ~(MayFlush(up, auth) /\ pendingTopics # NoTopics)
    <2>1. ops' = (rest \cup new) \cup {}
      BY <1>2 DEF FlushTopics, Start
    <2>2. Writes({})
      BY DEF Writes
    <2> QED BY <2>1, <2>2
  <1> QED BY <1>1, <1>2

\* handleError() does nothing when it ignores the error; otherwise the heartbeat's wait
\* ends and the reconnect timer is armed.
LEMMA HandleErrorOps ==
  ASSUME NEW rest, NEW inFlight, NEW failed, HandleError(rest, inFlight, failed)
  PROVE  /\ generation' = generation
         /\ IgnoresError => ops' = rest /\ UNCHANGED <<connected, reconnectScheduled>>
         /\ ~IgnoresError =>
              /\ ops' = (rest \ PingWaits) \cup {Armed("reconnect", generation, NoPacket)}
              /\ ~connected' /\ reconnectScheduled'
         /\ connected' => connected
  BY DEF HandleError, link

\* An error of a running connection or of its connect chain leads to the wait.
LEMMA HandleErrorWaits ==
  ASSUME NEW rest \in SUBSET ops, NEW inFlight, NEW failed, HandleError(rest, inFlight, failed),
         ~IgnoresError,
         \A p \in rest : p.gen = generation => p.kind \in {"read", "write", "ping"}
  PROVE  Waiting'
  <1> DEFINE a == Armed("reconnect", generation, NoPacket)
  <1>1. /\ generation' = generation /\ ~connected' /\ reconnectScheduled'
        /\ ops' = (rest \ PingWaits) \cup {a}
    BY HandleErrorOps
  <1>2. a.kind = "reconnect" /\ a.gen = generation
    BY ArmedFields
  <1> HIDE DEF a
  <1>3. a \in Mine' /\ \A p \in Mine' : p = a \/ p.kind \in {"read", "write", "ping"}
    BY <1>1, <1>2 DEF Mine
  <1> QED BY <1>1, <1>2, <1>3 DEF Waiting

Flags == <<generation, connected, reconnectScheduled>>

\* A step that touches neither the flags nor the current generation's operations keeps
\* the situation.
LEMMA SituationKept ==
  ASSUME Situation, UNCHANGED Flags, Mine' = Mine
  PROVE  Situation'
  BY DEF Situation, Flags, Dialing, Up, Waiting

\* An operation is replaced by one of the same kind and generation.
LEMMA SituationReplace ==
  ASSUME Situation, UNCHANGED Flags, NEW o \in Mine, NEW n,
         n.kind = o.kind, n.gen = o.gen, ops' = (ops \ {o}) \cup {n}
  PROVE  Situation'
  <1>1. Mine' = (Mine \ {o}) \cup {n}
    BY DEF Mine, Flags
  <1>2. CASE Dialing
    <2>1. Mine = {o} /\ o.kind \in DialKinds
      BY <1>2 DEF Dialing
    <2> QED BY <1>1, <1>2, <2>1 DEF Situation, Dialing, Flags
  <1>3. CASE Up
    <2>1. PICK r \in Mine : r.kind = "read" /\ \A p \in Mine : p.kind = "read" => p = r
      BY <1>3 DEF Up
    <2>2. PICK h \in Mine : h.kind = "ping"
      BY <1>3 DEF Up
    <2>3. \E x \in Mine' : x.kind = "read" /\ \A p \in Mine' : p.kind = "read" => p = x
      BY <1>1, <2>1
    <2>4. \E x \in Mine' : x.kind = "ping"
      BY <1>1, <2>2
    <2>5. \A x \in Mine' : x.kind \in {"read", "write", "ping"}
      BY <1>1, <1>3 DEF Up
    <2> QED BY <1>3, <2>3, <2>4, <2>5 DEF Situation, Up, Flags
  <1>4. CASE Waiting
    <2>1. PICK r \in Mine : r.kind = "reconnect" /\ \A p \in Mine : p.kind = "reconnect" => p = r
      BY <1>4 DEF Waiting
    <2>2. \E x \in Mine' : x.kind = "reconnect" /\ \A p \in Mine' : p.kind = "reconnect" => p = x
      BY <1>1, <2>1
    <2>3. \A x \in Mine' : x.kind \in {"read", "write", "ping", "reconnect"}
      BY <1>1, <1>4 DEF Waiting
    <2> QED BY <1>4, <2>2, <2>3 DEF Situation, Waiting, Flags
  <1> QED BY <1>2, <1>3, <1>4 DEF Situation

\* A running or waiting session loses operations other than its driver and its
\* heartbeat and gains writes and heartbeats.
Extends(gone, H, W) ==
  /\ Up \/ Waiting
  /\ UNCHANGED Flags
  /\ \A g \in gone \cap Mine : g.kind \in {"write", "ping"} \/ (g.kind = "read" /\ Waiting)
  /\ Writes(W)
  /\ \A h \in H : h.kind = "ping" /\ h.gen = generation
  /\ H # {} \/ \A g \in gone \cap Mine : g.kind # "ping"
  /\ ops' = ((ops \ gone) \cup H) \cup W

\* So does one that swaps some operations and adds writes.
LEMMA SituationExtend ==
  ASSUME NEW gone, NEW H, NEW W, Extends(gone, H, W)
  PROVE  Situation'
  <1> USE DEF Extends, Writes
  <1>1. /\ \A x \in Mine' : x \in Mine \ gone \/ x \in H \/ x \in W
        /\ \A x \in Mine \ gone : x \in Mine'
        /\ \A x \in H : x \in Mine'
    BY DEF Mine, Flags
  <1>2. CASE Up
    <2>1. PICK r \in Mine : r.kind = "read" /\ \A p \in Mine : p.kind = "read" => p = r
      BY <1>2 DEF Up
    <2>2. PICK h \in Mine : h.kind = "ping"
      BY <1>2 DEF Up
    <2>0. ~Waiting
      BY <1>2 DEF Up, Waiting
    <2>3. r \in Mine' /\ \A p \in Mine' : p.kind = "read" => p = r
      BY <1>1, <2>0, <2>1
    <2>4. \E x \in Mine' : x.kind = "ping"
      BY <1>1, <2>2
    <2>5. \A x \in Mine' : x.kind \in {"read", "write", "ping"}
      BY <1>1, <1>2 DEF Up
    <2> QED BY <1>2, <2>1, <2>3, <2>4, <2>5 DEF Situation, Up, Flags
  <1>3. CASE Waiting
    <2>1. PICK r \in Mine : r.kind = "reconnect" /\ \A p \in Mine : p.kind = "reconnect" => p = r
      BY <1>3 DEF Waiting
    <2>2. r \in Mine' /\ \A p \in Mine' : p.kind = "reconnect" => p = r
      BY <1>1, <2>1
    <2>3. \A x \in Mine' : x.kind \in {"read", "write", "ping", "reconnect"}
      BY <1>1, <1>3 DEF Waiting
    <2> QED BY <1>3, <2>1, <2>2, <2>3 DEF Situation, Waiting, Flags
  <1> QED BY <1>2, <1>3

\* A frame was read: the read is armed again while up, and not while waiting.
LEMMA SituationRead ==
  ASSUME Up \/ Waiting, UNCHANGED Flags, NEW o \in Mine, o.kind = "read", NEW W, Writes(W),
         ops' = ((ops \ {o}) \cup Rearm) \cup W
  PROVE  Situation'
  <1> USE DEF Writes
  <1>1. CASE Waiting
    <2>1. Rearm = {}
      BY <1>1 DEF Rearm, Waiting
    <2>2. ops' = ((ops \ {o}) \cup {}) \cup W
      BY <2>1
    <2>3. PICK r \in Mine : r.kind = "reconnect" /\ \A p \in Mine : p.kind = "reconnect" => p = r
      BY <1>1 DEF Waiting
    <2>4. r \in Mine' /\ \A x \in Mine' : x \in Mine \/ x \in W
      BY <2>2, <2>3 DEF Mine, Flags
    <2>5. \A p \in Mine' : p.kind = "reconnect" => p = r
      BY <2>3, <2>4
    <2>6. \A x \in Mine' : x.kind \in {"read", "write", "ping", "reconnect"}
      BY <1>1, <2>4 DEF Waiting
    <2> QED BY <1>1, <2>3, <2>4, <2>5, <2>6 DEF Situation, Waiting, Flags
  <1>2. CASE Up
    <2> DEFINE a == Armed("read", generation, NoPacket)
    <2>1. Rearm = {a} /\ a.kind = "read" /\ a.gen = generation
      BY <1>2, ArmedFields DEF Rearm, Up
    <2> HIDE DEF a
    <2>2. PICK h \in Mine : h.kind = "ping"
      BY <1>2 DEF Up
    <2>3. /\ \A x \in Mine' : x \in Mine \ {o} \/ x = a \/ x \in W
          /\ a \in Mine' /\ h \in Mine'
      BY <2>1, <2>2 DEF Mine, Flags
    <2>4. \A p \in Mine : p.kind = "read" => p = o
      BY <1>2 DEF Up
    <2>5. \A p \in Mine' : p.kind = "read" => p = a
      BY <2>3, <2>4
    <2>6. \A x \in Mine' : x.kind \in {"read", "write", "ping"}
      BY <1>2, <2>1, <2>3 DEF Up
    <2> QED BY <1>2, <2>1, <2>2, <2>3, <2>5, <2>6 DEF Situation, Up, Flags
  <1> QED BY <1>1, <1>2

\* Every completion handler leads from one of the three situations to one of them.
LEMMA HandleSituation ==
  ASSUME TypeOK, OpsInv, Situation, ~userClosed, NEW o \in ops, Handle(o)
  PROVE  Situation'
  <1> DEFINE rest == ops \ {o}
  <1>c. ~IsUserClosed /\ (IgnoresError <=> reconnectScheduled)
    BY DEF IsUserClosed, IgnoresError
  <1>0. rest \in SUBSET ops
    OBVIOUS
  \* The kind of an operation of the current generation tells the situation.
  <1>k. ASSUME o.gen = generation
        PROVE  /\ o \in Mine
               /\ o.kind \in DialKinds => Dialing /\ Mine = {o}
               /\ o.kind \in {"read", "write", "ping"} => Up \/ Waiting
               /\ o.kind = "reconnect" => Waiting
               /\ o.kind # "close"
    BY <1>k DEF Situation, Dialing, Up, Waiting, Mine, DialKinds
  \* An error of an operation of a running or waiting session.
  <1>e. ASSUME NEW inFlight, NEW failed, HandleError(rest, inFlight, failed),
               o.gen = generation, o.kind \in {"read", "write", "ping"},
               Waiting => o.kind # "ping"
        PROVE  Situation'
    <2>1. CASE Up
      <3>1. ~IgnoresError
        BY <1>c, <2>1 DEF Up
      <3>2. \A p \in rest : p.gen = generation => p.kind \in {"read", "write", "ping"}
        BY <2>1 DEF Up, Mine
      <3> QED BY <1>0, <1>e, <3>1, <3>2, HandleErrorWaits DEF Situation
    <2>2. CASE Waiting
      <3>1. ops' = rest /\ UNCHANGED Flags
        BY <1>c, <1>e, <2>2, HandleErrorOps DEF Waiting, Flags
      <3>2. ops' = ((ops \ {o}) \cup {}) \cup {}
        BY <3>1
      <3>3. Extends({o}, {}, {})
        BY <1>e, <2>2, <3>1, <3>2 DEF Extends, Writes
      <3> QED BY <3>3, SituationExtend
    <2> QED BY <1>e, <1>k, <2>1, <2>2
  <1> HIDE DEF rest
  <1>1. CASE OnDial(o)
    <2>1. Dialing /\ Mine = {o}
      BY <1>1, <1>k DEF OnDial, Ready
    <2>2. CASE o.res = "err"
      <3>1. HandleError(rest, writeInFlight, TRUE)
        BY <1>1, <2>2 DEF OnDial, rest
      <3>2. \A p \in rest : p.gen = generation => p.kind \in {"read", "write", "ping"}
        BY <2>1 DEF Mine, rest
      <3>3. ~IgnoresError
        BY <1>c, <2>1 DEF Dialing
      <3> QED BY <1>0, <3>1, <3>2, <3>3, HandleErrorWaits DEF Situation
    <2>3. CASE o.res # "err"
      <3> DEFINE a == Armed(NextStage[o.kind], generation, NoPacket)
      <3>1. NextStage[o.kind] \in DialKinds
        BY <1>1 DEF OnDial, NextStage, DialKinds
      <3>2. a.kind \in DialKinds /\ a.gen = generation
        BY <3>1, ArmedFields
      <3>3. ops' = (ops \ {o}) \cup {a} /\ UNCHANGED Flags
        BY <1>1, <2>3 DEF OnDial, link, Flags
      <3> HIDE DEF a
      <3>4. Mine' = {a}
        BY <2>1, <3>2, <3>3 DEF Mine, Flags
      <3> QED BY <2>1, <3>2, <3>3, <3>4 DEF Situation, Dialing, Flags
    <2> QED BY <2>2, <2>3
  <1>2. CASE OnHandshake(o)
    <2>1. Dialing /\ Mine = {o}
      BY <1>2, <1>k DEF OnHandshake, Ready, DialKinds
    <2>2. CASE o.res = "err"
      <3>1. HandleError(rest, writeInFlight, TRUE)
        BY <1>2, <2>2 DEF OnHandshake, rest
      <3>2. \A p \in rest : p.gen = generation => p.kind \in {"read", "write", "ping"}
        BY <2>1 DEF Mine, rest
      <3>3. ~IgnoresError
        BY <1>c, <2>1 DEF Dialing
      <3> QED BY <1>0, <3>1, <3>2, <3>3, HandleErrorWaits DEF Situation
    <2>3. CASE o.res # "err"
      <3> DEFINE a == Armed("read", generation, NoPacket)
                 h == Armed("ping", generation, NoPacket)
                 rst == rest \ PingWaits
                 new == HeartbeatWait \cup {a}
      <3>1. /\ connected' = TRUE /\ UNCHANGED <<generation, reconnectScheduled>>
            /\ \/ Pump(Append(outboundQueue, Request("auth", 0, {})), writeInFlight,
                       TRUE, rst, new)
               \/ FlushTopics(TRUE, authenticated, rst, new)
        BY <1>2, <1>c, <2>3 DEF OnHandshake, rest
      <3>2. PICK W : /\ ops' = (rst \cup new) \cup W
                     /\ Writes(W)
        <4> DEFINE q == Append(outboundQueue, Request("auth", 0, {}))
                   yes == TRUE
        <4>0. \/ Pump(q, writeInFlight, yes, rst, new)
              \/ FlushTopics(yes, authenticated, rst, new)
          BY <3>1
        <4> HIDE DEF rst, new, q, yes
        <4>1. CASE Pump(q, writeInFlight, yes, rst, new)
          BY ONLY <4>1, PumpOps
        <4>2. CASE FlushTopics(yes, authenticated, rst, new)
          BY ONLY <4>2, FlushOps
        <4> QED BY <4>0, <4>1, <4>2
      <3>3. /\ a.kind = "read" /\ a.gen = generation /\ h.kind = "ping" /\ h.gen = generation
            /\ new = {h, a}
        BY ArmedFields DEF HeartbeatWait
      <3> HIDE DEF a, h, new
      <3>4. \A x \in rst : x.gen # generation
        BY <2>1 DEF Mine, rest
      <3> HIDE DEF rst
      <3>5. /\ a \in Mine' /\ h \in Mine'
            /\ \A x \in Mine' : x = a \/ x = h \/ x.kind = "write"
        BY <3>1, <3>2, <3>3, <3>4 DEF Mine, Writes
      <3>6. Up'
        BY <2>1, <3>1, <3>3, <3>5 DEF Up, Dialing
      <3> QED BY <3>6 DEF Situation
    <2> QED BY <2>2, <2>3
  <1>3. CASE OnWrite(o)
    <2>1. o \in Mine /\ (Up \/ Waiting) /\ o.kind = "write" /\ o.gen = generation
      BY <1>3, <1>k DEF OnWrite, Ready
    <2>2. CASE o.res = "err"
      BY <1>3, <1>e, <2>1, <2>2 DEF OnWrite, rest
    <2>3. CASE o.res # "err"
      <3>1. Pump(outboundQueue, FALSE, connected, rest, {}) /\ UNCHANGED Flags
        BY <1>3, <2>3 DEF OnWrite, rest, link, Flags
      <3>2. PICK W : /\ ops' = (rest \cup {}) \cup W
                     /\ Writes(W)
        <4> DEFINE no == FALSE
                   none == {}
        <4>1. Pump(outboundQueue, no, connected, rest, none)
          BY <3>1
        <4> HIDE DEF no, none
        <4>2. \E W : ops' = (rest \cup none) \cup W /\ Writes(W)
          BY ONLY <4>1, PumpOps
        <4> QED BY <4>2 DEF none
      <3>3. ops' = ((ops \ {o}) \cup {}) \cup W
        BY <3>2 DEF rest
      <3>4. Extends({o}, {}, W)
        BY <2>1, <3>1, <3>2, <3>3 DEF Extends
      <3> QED BY <3>4, SituationExtend
    <2> QED BY <2>2, <2>3
  <1>4. CASE OnReadFailure(o)
    BY <1>4, <1>e DEF OnReadFailure, ReadyFrame, Ready, rest
  <1>5. CASE OnAuthRejected(o)
    <2>1. rest \cup (IF IsUserClosed THEN Rearm ELSE {}) = rest
      BY <1>c
    <2>2. HandleError(rest, writeInFlight, FALSE)
      BY <1>5, <2>1 DEF OnAuthRejected, rest
    <2> QED BY <1>5, <1>e, <2>2 DEF OnAuthRejected, ReadyFrame, Ready
  <1>6. CASE OnPong(o) \/ OnPush(o) \/ OnSubscribeAck(o)
    <2>1. /\ o.kind = "read" /\ o.gen = generation /\ UNCHANGED Flags
          /\ Start(rest, Rearm)
      BY <1>6 DEF OnPong, OnPush, OnSubscribeAck, ReadyFrame, Ready, rest, link, Flags
    <2>2. ops' = ((ops \ {o}) \cup Rearm) \cup {}
      BY <2>1 DEF Start, rest
    <2>3. Writes({}) /\ o \in Mine /\ (Up \/ Waiting)
      BY <1>k, <2>1 DEF Writes
    <2> QED BY <2>1, <2>2, <2>3, SituationRead
  <1>7. CASE OnAuthAck(o)
    <2>1. /\ o.kind = "read" /\ o.gen = generation /\ UNCHANGED Flags
          /\ FlushTopics(connected, TRUE, rest, Rearm)
      BY <1>7 DEF OnAuthAck, ReadyFrame, Ready, rest, Flags
    <2>2. PICK W : /\ ops' = (rest \cup Rearm) \cup W
                   /\ Writes(W)
      <3> DEFINE yes == TRUE
      <3>1. FlushTopics(connected, yes, rest, Rearm)
        BY <2>1
      <3> HIDE DEF yes
      <3> QED BY ONLY <3>1, FlushOps
    <2>3. ops' = ((ops \ {o}) \cup Rearm) \cup W
      BY <2>2 DEF rest
    <2>4. o \in Mine /\ (Up \/ Waiting)
      BY <1>k, <2>1
    <2> QED BY <2>1, <2>2, <2>3, <2>4, SituationRead
  <1>8. CASE OnPingTimer(o)
    <2>1. o \in Mine /\ (Up \/ Waiting) /\ o.kind = "ping" /\ o.gen = generation
      BY <1>8, <1>k DEF OnPingTimer, Ready
    <2>2. \A h \in HeartbeatWait : h.kind = "ping" /\ h.gen = generation
      BY ArmedFields DEF HeartbeatWait
    <2>3. HeartbeatWait # {}
      BY DEF HeartbeatWait
    <2> DEFINE gone == {o} \cup PingWaits
    <2>4. \A g \in gone \cap Mine : g.kind = "ping"
      BY <2>1 DEF PingWaits
    <2>5. rest \ PingWaits = ops \ gone
      BY DEF rest
    <2> HIDE DEF gone
    <2>6. CASE ~connected
      <3>1. Start(rest \ PingWaits, HeartbeatWait) /\ UNCHANGED Flags
        BY <1>8, <1>c, <2>6 DEF OnPingTimer, rest, link, Flags
      <3>2. ops' = ((ops \ gone) \cup HeartbeatWait) \cup {}
        BY <2>5, <3>1 DEF Start
      <3>3. Extends(gone, HeartbeatWait, {})
        BY <2>1, <2>2, <2>3, <2>4, <3>1, <3>2 DEF Extends, Writes
      <3> QED BY <3>3, SituationExtend
    <2>7. CASE connected /\ HandleError(rest, writeInFlight, FALSE)
      BY <1>e, <2>1, <2>7 DEF Waiting
    <2>8. CASE /\ connected
               /\ Pump(Append(outboundQueue, Request("ping", 0, {})), writeInFlight, connected,
                       rest \ PingWaits, HeartbeatWait)
               /\ UNCHANGED Flags
      <3>1. PICK W : /\ ops' = ((rest \ PingWaits) \cup HeartbeatWait) \cup W
                     /\ Writes(W)
        <4> DEFINE q == Append(outboundQueue, Request("ping", 0, {}))
        <4>1. Pump(q, writeInFlight, connected, rest \ PingWaits, HeartbeatWait)
          BY <2>8
        <4> HIDE DEF q
        <4> QED BY ONLY <4>1, PumpOps
      <3>2. ops' = ((ops \ gone) \cup HeartbeatWait) \cup W
        BY <2>5, <3>1
      <3>3. Extends(gone, HeartbeatWait, W)
        BY <2>1, <2>2, <2>3, <2>4, <2>8, <3>1, <3>2 DEF Extends
      <3> QED BY <3>3, SituationExtend
    <2> QED BY <1>8, <1>c, <2>6, <2>7, <2>8 DEF OnPingTimer, rest, link, Flags
  <1>9. CASE OnReconnectTimer(o)
    <2>1. o \in Mine /\ Waiting /\ o.res # "err"
      BY <1>9, <1>k DEF OnReconnectTimer, Ready, OpsInv
    <2> DEFINE a == Armed("resolve", generation + 1, NoPacket)
    <2>2. /\ generation' = generation + 1 /\ connected' = FALSE /\ reconnectScheduled' = FALSE
          /\ ops' = rest \cup {a}
      BY <1>9, <1>c, <2>1 DEF OnReconnectTimer, StartConnect, rest
    <2>3. a.kind = "resolve" /\ a.gen = generation + 1
      BY ArmedFields
    <2> HIDE DEF a
    <2>4. \A p \in rest : p.gen # generation + 1
      <3>1. \A p \in ops : p.gen \in Nat /\ generation \in Nat /\ p.gen <= generation
        BY DEF OpsInv, TypeOK, Op
      <3> QED BY <3>1 DEF rest
    <2>5. Mine' = {a}
      BY <2>2, <2>3, <2>4 DEF Mine
    <2> QED BY <2>2, <2>3, <2>5 DEF Situation, Dialing, DialKinds
  <1>10. CASE OnClosed(o)
    BY <1>10, <1>k DEF OnClosed, Ready
  <1>11. CASE OnStale(o)
    <2>1. UNCHANGED Flags /\ ops' = ops \ {o} /\ o.gen # generation
      BY <1>11 DEF OnStale, link, Flags
    <2>2. Mine' = Mine
      BY <2>1 DEF Mine, Flags
    <2> QED BY <2>1, <2>2, SituationKept
  <1> QED BY <1>1, <1>2, <1>3, <1>4, <1>5, <1>6, <1>7, <1>8, <1>9, <1>10, <1>11 DEF Handle

\* The outside world finishes an operation: its kind and generation stay.
Replaced(o, n) ==
  /\ ops' = (ops \ {o}) \cup {n} /\ n.kind = o.kind /\ n.gen = o.gen
  /\ n.kind = "reconnect" => n.res = "ok"

\* A completion replaces one operation of the current generation and nothing else.
LEMMA CompletesOps ==
  ASSUME NEW o \in ops, Completes(o)
  PROVE  /\ UNCHANGED Flags /\ UNCHANGED posted /\ UNCHANGED calls /\ UNCHANGED userClosed
         /\ o.gen = generation
         /\ \E n : Replaced(o, n)
  <1>1. /\ UNCHANGED Flags /\ UNCHANGED posted /\ UNCHANGED calls /\ UNCHANGED userClosed
        /\ o.gen = generation
    BY DEF Completes, DialSucceeds, DialFails, ReadArrives, WriteSent, WriteLost,
           StreamFails, PingFires, ReconnectFires, ArmedNow, Idle, link, Flags
  <1>2. PICK res, pkt : Finish(o, res, pkt) /\ (o.kind = "reconnect" => res = "ok")
    BY DEF Completes, DialSucceeds, DialFails, ReadArrives, WriteSent, WriteLost,
           StreamFails, PingFires, ReconnectFires, ArmedNow, DialKinds
  <1> DEFINE n == Finished(o, res, pkt)
  <1>3. Replaced(o, n)
    BY <1>2 DEF Finish, Finished, Replaced
  <1> HIDE DEF n
  <1> QED BY <1>1, <1>3

\* Every operation a step adds is armed, for the generation the step leaves behind.
Grows == \A p \in ops' : p \in ops \/ (p.gen = generation' /\ p.res = "armed")

\* Pumping adds only operations of the current generation.
LEMMA PumpGrows ==
  ASSUME NEW q, NEW inFlight, NEW up, NEW rest \in SUBSET ops, NEW new,
         Pump(q, inFlight, up, rest, new), generation' = generation,
         \A p \in new : p.gen = generation /\ p.res = "armed"
  PROVE  Grows
  <1>1. PICK W : ops' = (rest \cup new) \cup W /\ Writes(W)
    BY ONLY Pump(q, inFlight, up, rest, new), PumpOps
  <1> QED BY <1>1 DEF Writes, Grows

\* So does flushing.
LEMMA FlushGrows ==
  ASSUME NEW up, NEW auth, NEW rest \in SUBSET ops, NEW new,
         FlushTopics(up, auth, rest, new), generation' = generation,
         \A p \in new : p.gen = generation /\ p.res = "armed"
  PROVE  Grows
  <1>1. PICK W : ops' = (rest \cup new) \cup W /\ Writes(W)
    BY ONLY FlushTopics(up, auth, rest, new), FlushOps
  <1> QED BY <1>1 DEF Writes, Grows

\* The heartbeat's wait and the next read are of the current generation.
LEMMA NewWaits ==
  /\ \A p \in HeartbeatWait : p.gen = generation /\ p.res = "armed"
  /\ \A p \in Rearm : p.gen = generation /\ p.res = "armed"
  BY ArmedFields DEF HeartbeatWait, Rearm

\* A completion handler leaves the jobs, the calls and the close flag alone.
LEMMA HandleFrame ==
  ASSUME NEW o \in ops, Handle(o)
  PROVE  UNCHANGED <<posted, calls, userClosed>>
  BY DEF Handle, OnDial, OnHandshake, OnWrite, OnReadFailure, OnAuthRejected, OnPong,
         OnPush, OnAuthAck, OnSubscribeAck, OnPingTimer, OnReconnectTimer, OnClosed, OnStale

\* The operations after a completion handler; only the reconnect timer's begins a
\* generation.
LEMMA HandleGrows ==
  ASSUME NEW o \in ops, Handle(o)
  PROVE  Grows /\ generation' \in {generation, generation + 1}
  <1> USE DEF link
  <1> DEFINE rest == ops \ {o}
             Goal == Grows /\ generation' \in {generation, generation + 1}
  <1>0. ASSUME NEW r \in SUBSET ops, NEW inFlight, NEW failed, HandleError(r, inFlight, failed)
        PROVE  Goal
    BY <1>0, HandleErrorOps, ArmedFields DEF Grows
  <1>r. rest \in SUBSET ops /\ rest \ PingWaits \in SUBSET ops
    OBVIOUS
  <1>1. CASE OnDial(o)
    <2>1. CASE o.res = "err"
      BY <1>0, <1>1, <1>r, <2>1 DEF OnDial
    <2>2. CASE o.res # "err"
      BY <1>1, <2>2, ArmedFields DEF OnDial, Grows
    <2> QED BY <2>1, <2>2
  <1> DEFINE yes == TRUE
             no  == FALSE
  <1>2. CASE OnHandshake(o)
    <2>1. CASE o.res = "err"
      BY <1>0, <1>2, <1>r, <2>1 DEF OnHandshake
    <2>2. CASE o.res # "err" /\ IsUserClosed
      BY <1>2, <2>2 DEF OnHandshake, Grows
    <2>3. CASE o.res # "err" /\ ~IsUserClosed
      <3> DEFINE new == HeartbeatWait \cup {Armed("read", generation, NoPacket)}
                 q == Append(outboundQueue, Request("auth", 0, {}))
      <3>1. /\ generation' = generation
            /\ \/ Pump(q, writeInFlight, yes, rest \ PingWaits, new)
               \/ FlushTopics(yes, authenticated, rest \ PingWaits, new)
        BY <1>2, <2>3 DEF OnHandshake
      <3>2. \A p \in new : p.gen = generation /\ p.res = "armed"
        BY NewWaits, ArmedFields
      <3> HIDE DEF new, q, yes, rest
      <3>3. Grows
        BY ONLY <1>r, <3>1, <3>2, PumpGrows, FlushGrows
      <3> QED BY <3>1, <3>3
    <2> QED BY <2>1, <2>2, <2>3
  <1>3. CASE OnWrite(o)
    <2>1. CASE o.res = "err"
      BY <1>0, <1>3, <1>r, <2>1 DEF OnWrite
    <2>2. CASE o.res # "err"
      <3> DEFINE new == {}
      <3>1. generation' = generation /\ Pump(outboundQueue, no, connected, rest, new)
        BY <1>3, <2>2 DEF OnWrite
      <3>2. \A p \in new : p.gen = generation /\ p.res = "armed"
        OBVIOUS
      <3> HIDE DEF new, no, rest
      <3>3. Grows
        BY ONLY <1>r, <3>1, <3>2, PumpGrows
      <3> QED BY <3>1, <3>3
    <2> QED BY <2>1, <2>2
  <1>4. CASE OnReadFailure(o)
    BY <1>0, <1>4, <1>r DEF OnReadFailure
  <1>5. CASE OnAuthRejected(o)
    <2> DEFINE again == IF IsUserClosed THEN Rearm ELSE {}
    <2>1. HandleError(rest \cup again, writeInFlight, no)
      BY <1>5 DEF OnAuthRejected
    <2>2. \A p \in again : p.gen = generation /\ p.res = "armed"
      BY NewWaits
    <2> HIDE DEF again, no
    <2> QED BY <2>1, <2>2, HandleErrorOps, ArmedFields DEF Grows
  <1>6. CASE OnPong(o) \/ OnPush(o) \/ OnSubscribeAck(o)
    <2>1. generation' = generation /\ ops' = rest \cup Rearm
      BY <1>6 DEF OnPong, OnPush, OnSubscribeAck, Start
    <2> QED BY <2>1, NewWaits DEF Grows
  <1>7. CASE OnAuthAck(o)
    <2>1. generation' = generation /\ FlushTopics(connected, yes, rest, Rearm)
      BY <1>7 DEF OnAuthAck
    <2> HIDE DEF yes, rest
    <2>2. Grows
      BY ONLY <1>r, <2>1, NewWaits, FlushGrows
    <2> QED BY <2>1, <2>2
  <1>8. CASE OnPingTimer(o)
    <2> DEFINE q == Append(outboundQueue, Request("ping", 0, {}))
    <2>1. CASE HandleError(rest, writeInFlight, FALSE)
      BY <1>0, <1>r, <2>1
    <2>2. CASE generation' = generation /\ ops' = rest
      BY <2>2 DEF Grows
    <2>3. CASE generation' = generation /\ Start(rest \ PingWaits, HeartbeatWait)
      BY <2>3, NewWaits DEF Start, Grows
    <2>4. CASE /\ generation' = generation
               /\ Pump(q, writeInFlight, connected, rest \ PingWaits, HeartbeatWait)
      <3> HIDE DEF q, rest
      <3>1. Grows
        BY ONLY <1>r, <2>4, NewWaits, PumpGrows
      <3> QED BY <2>4, <3>1
    <2> QED BY <1>8, <2>1, <2>2, <2>3, <2>4 DEF OnPingTimer
  <1>9. CASE OnReconnectTimer(o)
    BY <1>9, ArmedFields DEF OnReconnectTimer, StartConnect, Grows
  <1>10. CASE OnClosed(o) \/ OnStale(o)
    BY <1>10 DEF OnClosed, OnStale, Grows
  <1> QED BY <1>1, <1>2, <1>3, <1>4, <1>5, <1>6, <1>7, <1>8, <1>9, <1>10 DEF Handle

\* What a posted job does to the operations; only close aborts a reconnect wait.
JobConnects == JobConnect /\ Grows /\ UNCHANGED userClosed /\ UNCHANGED reconnectScheduled
JobWrites ==
  /\ Head(posted).kind # "connect" /\ UNCHANGED Flags /\ UNCHANGED userClosed
  /\ \E W : ops' = ops \cup W /\ Writes(W) /\ (~connected => W = {})
JobCloses ==
  /\ Head(posted).kind # "connect" /\ UNCHANGED Flags /\ userClosed'
  /\ \A p \in ops' : p.gen = generation \/ \E o \in ops : p.gen = o.gen

\* A posted job connects, writes or closes, and is taken off the strand's queue.
LEMMA JobGrows ==
  ASSUME RunJob
  PROVE  /\ calls' = calls /\ posted # <<>> /\ posted' = Tail(posted)
         /\ JobConnects \/ JobWrites \/ JobCloses
  <1> USE DEF NextJob, link, Flags, JobConnects, JobWrites, JobCloses
  <1>1. CASE JobConnect
    BY <1>1, ArmedFields DEF JobConnect, StartConnect, Grows
  <1>2. CASE JobFlush
    <2> DEFINE new == {}
    <2>1. FlushTopics(connected, authenticated, ops, new)
      BY <1>2 DEF JobFlush
    <2> HIDE DEF new
    <2>2. PICK W : ops' = (ops \cup new) \cup W /\ Writes(W) /\ (~connected => W = {})
      BY ONLY <2>1, FlushOps
    <2>3. ops' = ops \cup W
      BY <2>2 DEF new
    <2> QED BY <1>2, <2>2, <2>3 DEF JobFlush
  <1>3. CASE JobUnsubscribe
    <2>0. Writes({})
      BY DEF Writes
    <2>1. CASE ~connected
      BY <1>3, <2>0, <2>1 DEF JobUnsubscribe
    <2>2. CASE connected
      <3> DEFINE new == {}
                 q == Append(outboundQueue, Request("unsubscribe", 0, Head(posted).topics))
      <3>1. Pump(q, writeInFlight, connected, ops, new)
        BY <1>3, <2>2 DEF JobUnsubscribe
      <3> HIDE DEF new, q
      <3>2. PICK W : ops' = (ops \cup new) \cup W /\ Writes(W)
        BY ONLY <3>1, PumpOps
      <3>3. ops' = ops \cup W
        BY <3>2 DEF new
      <3> QED BY <1>3, <2>2, <3>2, <3>3 DEF JobUnsubscribe
    <2> QED BY <2>1, <2>2
  <1>4. CASE JobClose
    <2>1. CASE IsUserClosed
      BY <1>4, <2>1 DEF JobClose, IsUserClosed
    <2>2. CASE ~IsUserClosed
      <3> DEFINE new == {Armed("close", generation, NoPacket)}
                 f(o) == IF o.res = "armed" /\ o.kind \in DialKinds \cup {"reconnect"}
                         THEN Finished(o, "err", NoPacket) ELSE o
                 rest == {f(o) : o \in ops \ PingWaits}
      <3>1. ops' = rest \cup new \/ ops' = rest \cup {}
        BY <1>4, <2>2 DEF JobClose, Start
      <3>2. \A o : f(o).gen = o.gen
        BY DEF Finished
      <3>3. \A p \in new : p.gen = generation
        BY ArmedFields
      <3> HIDE DEF f, new
      <3>4. \A p \in rest : \E o \in ops : p.gen = o.gen
        BY <3>2
      <3> QED BY <1>4, <2>2, <3>1, <3>3, <3>4 DEF JobClose
    <2> QED BY <2>1, <2>2
  <1> QED BY <1>1, <1>2, <1>3, <1>4 DEF RunJob

\* A user's call changes the calls, the books and the posted jobs only.
UserCalls == \/ \E t \in Topics : Subscribe(t)
             \/ \E t \in Unsubscribable : Unsubscribe(t)
             \/ Close

\* A user's call changes the books and posts at most one job; only the first one
\* posts the connect.
LEMMA UserCallsFrame ==
  ASSUME TypeOK, UserCalls
  PROVE  /\ UNCHANGED Flags /\ UNCHANGED ops /\ UNCHANGED userClosed /\ calls' = calls + 1
         /\ \/ posted' = posted /\ calls # 0
            \/ \E j : posted' = Append(posted, j) /\ (j.kind = "connect" <=> calls = 0)
  <1> USE DEF PostJob, Flags, link
  <1>1. ASSUME NEW t \in Topics, Subscribe(t)
        PROVE  /\ UNCHANGED Flags /\ UNCHANGED ops /\ UNCHANGED userClosed
               /\ calls' = calls + 1
               /\ \E j : posted' = Append(posted, j) /\ (j.kind = "connect" <=> calls = 0)
    <2> DEFINE j == [kind |-> IF calls = 0 THEN "connect" ELSE "flush", topics |-> {}]
    <2>1. posted' = Append(posted, j)
      BY <1>1 DEF Subscribe
    <2>2. j.kind = "connect" <=> calls = 0
      OBVIOUS
    <2> HIDE DEF j
    <2> QED BY <1>1, <2>1, <2>2 DEF Subscribe
  <1>2. ASSUME NEW kind, kind # "connect", NEW topics, PostJob(kind, topics), calls # 0
        PROVE  \E j : posted' = Append(posted, j) /\ (j.kind = "connect" <=> calls = 0)
    <2> DEFINE j == [kind |-> kind, topics |-> topics]
    <2>1. posted' = Append(posted, j) /\ j.kind # "connect"
      BY <1>2
    <2> HIDE DEF j
    <2> QED BY <1>2, <2>1
  <1>3. ASSUME NEW t \in Unsubscribable, Unsubscribe(t)
        PROVE  /\ UNCHANGED Flags /\ UNCHANGED ops /\ UNCHANGED userClosed
               /\ calls' = calls + 1 /\ calls # 0
               /\ posted' = posted \/ PostJob("unsubscribe", {t})
    BY <1>3 DEF Unsubscribe
  <1>4. CASE Close
    BY <1>2, <1>4 DEF Close
  <1> QED BY <1>1, <1>2, <1>3, <1>4 DEF UserCalls

\* The venue on its own, and stuttering.
LEMMA VenueFrame ==
  ASSUME VenuePushes \/ VenueBabbles \/ VenueDies \/ UNCHANGED vars
  PROVE  /\ UNCHANGED Flags /\ UNCHANGED ops /\ UNCHANGED userClosed
         /\ UNCHANGED posted /\ UNCHANGED calls
  BY DEF VenuePushes, VenueBabbles, VenueDies, Idle, vars, link, Flags

\* No step creates an operation of a generation that has not begun.
LEMMA NextOpsInv ==
  ASSUME TypeOK, OpsInv, [Next]_vars
  PROVE  OpsInv'
  <1>0. generation \in Nat /\ \A o \in ops : o.gen \in Nat
    BY DEF TypeOK, Op
  <1>1. CASE UserCalls
    BY <1>1, UserCallsFrame DEF OpsInv, Flags
  <1>2. CASE RunJob
    <2>1. CASE JobConnects
      <3>1. generation' \in {generation, generation + 1}
        BY <2>1 DEF JobConnects, JobConnect, StartConnect
      <3> QED BY <1>0, <2>1, <3>1 DEF JobConnects, OpsInv, Grows
    <2>2. CASE JobWrites
      BY <1>0, <2>2 DEF JobWrites, OpsInv, Writes, Flags
    <2>3. CASE JobCloses
      BY <1>0, <2>3 DEF JobCloses, OpsInv, Flags
    <2> QED BY <1>2, <2>1, <2>2, <2>3, JobGrows
  <1>3. ASSUME NEW o \in ops, Handle(o) PROVE OpsInv'
    BY <1>0, <1>3, HandleFrame, HandleGrows DEF OpsInv, Grows
  <1>4. ASSUME NEW o \in ops, Completes(o) PROVE OpsInv'
    <2>1. UNCHANGED Flags /\ UNCHANGED userClosed /\ o.gen = generation
      BY <1>4, CompletesOps
    <2>2. PICK n : Replaced(o, n)
      BY <1>4, CompletesOps
    <2> QED BY <1>0, <2>1, <2>2 DEF OpsInv, Flags, Replaced
  <1>5. CASE VenuePushes \/ VenueBabbles \/ VenueDies \/ UNCHANGED vars
    BY <1>5, VenueFrame DEF OpsInv, Flags
  <1> QED BY <1>1, <1>2, <1>3, <1>4, <1>5 DEF Next, UserCalls

\* Every step keeps it that exactly one connect is ever posted.
LEMMA NextConnectsOnce ==
  ASSUME TypeOK, ConnectsOnce, [Next]_vars
  PROVE  ConnectsOnce'
  <1>0. generation \in Nat /\ calls \in Nat /\ posted \in Seq(Job)
    BY DEF TypeOK
  <1>1. CASE UserCalls
    <2>1. /\ UNCHANGED Flags /\ UNCHANGED ops /\ UNCHANGED userClosed
          /\ calls' = calls + 1
      BY <1>1, UserCallsFrame
    <2>2. CASE posted' = posted /\ calls # 0
      BY <1>0, <2>1, <2>2 DEF ConnectsOnce, Flags
    <2>3. ASSUME NEW j, posted' = Append(posted, j), j.kind = "connect" <=> calls = 0
          PROVE  ConnectsOnce'
      <3>1. /\ Len(posted') = Len(posted) + 1 /\ posted'[Len(posted) + 1] = j
            /\ \A i \in 1 .. Len(posted) : posted'[i] = posted[i]
        BY <1>0, <2>3
      <3> QED BY <1>0, <2>1, <2>3, <3>1 DEF ConnectsOnce, Flags
    <2> QED BY <1>1, <2>2, <2>3, UserCallsFrame
  <1>2. CASE RunJob
    <2>1. /\ calls' = calls /\ posted # <<>> /\ posted' = Tail(posted)
      BY <1>2, JobGrows
    <2>2. /\ Len(posted') = Len(posted) - 1 /\ Len(posted) > 0
          /\ \A i \in 1 .. Len(posted') : posted'[i] = posted[i + 1]
          /\ Head(posted) = posted[1]
      BY <1>0, <2>1
    <2>3. CASE JobConnects
      <3>1. generation = 0 /\ ~userClosed
        BY <2>2, <2>3 DEF JobConnects, JobConnect, NextJob, ConnectsOnce
      <3>2. generation' = 1
        BY <2>3, <3>1 DEF JobConnects, JobConnect, StartConnect, IsUserClosed
      <3> QED BY <1>0, <2>1, <2>2, <3>2 DEF ConnectsOnce
    <2>4. CASE Head(posted).kind # "connect" /\ UNCHANGED Flags
      <3>1. generation # 0
        BY <1>0, <2>1, <2>2, <2>4 DEF ConnectsOnce
      <3> QED BY <1>0, <2>1, <2>2, <2>4, <3>1 DEF ConnectsOnce, Flags
    <2> QED BY <1>2, <2>3, <2>4, JobGrows DEF JobWrites, JobCloses
  <1>3. ASSUME NEW o \in ops, Handle(o) PROVE ConnectsOnce'
    <2>1. generation # 0
      BY DEF ConnectsOnce
    <2>2. generation' # 0 /\ UNCHANGED <<posted, calls>>
      BY <1>0, <1>3, <2>1, HandleFrame, HandleGrows
    <2> QED BY <1>0, <2>1, <2>2 DEF ConnectsOnce
  <1>4. ASSUME NEW o \in ops, Completes(o) PROVE ConnectsOnce'
    <2>1. generation # 0
      BY DEF ConnectsOnce
    <2>2. generation' = generation /\ UNCHANGED <<posted, calls>>
      BY <1>4, CompletesOps DEF Flags
    <2> QED BY <1>0, <2>1, <2>2 DEF ConnectsOnce
  <1>5. CASE VenuePushes \/ VenueBabbles \/ VenueDies \/ UNCHANGED vars
    BY <1>5, VenueFrame DEF ConnectsOnce, Flags
  <1> QED BY <1>1, <1>2, <1>3, <1>4, <1>5 DEF Next, UserCalls

\* Every step of a session that is not closed ends in one of the three situations.
LEMMA NextSituation ==
  ASSUME TypeOK, DriverInv, [Next]_vars, generation' > 0, ~userClosed'
  PROVE  Situation'
  <1>0. generation \in Nat /\ posted \in Seq(Job)
    BY DEF TypeOK
  <1>1. CASE UNCHANGED Flags /\ UNCHANGED ops /\ UNCHANGED userClosed
    <2>1. Situation /\ Mine' = Mine
      BY <1>1 DEF DriverInv, Mine, Flags
    <2> QED BY <1>1, <2>1, SituationKept
  <1>2. CASE RunJob
    <2>1. CASE JobConnects
      <3> USE DEF JobConnects
      <3>1. generation = 0 /\ ~userClosed /\ ops = {} /\ ~reconnectScheduled
        BY <1>0, <2>1 DEF JobConnect, NextJob, DriverInv, ConnectsOnce
      <3> DEFINE a == Armed("resolve", generation + 1, NoPacket)
      <3>2. /\ generation' = generation + 1 /\ connected' = FALSE /\ ops' = {} \cup {a}
        BY <2>1, <3>1 DEF JobConnect, StartConnect, IsUserClosed
      <3>3. a.kind = "resolve" /\ a.gen = generation + 1
        BY ArmedFields
      <3> HIDE DEF a
      <3>4. Mine' = {a}
        BY <3>2, <3>3 DEF Mine
      <3> QED BY <2>1, <3>1, <3>2, <3>3, <3>4 DEF Situation, Dialing, DialKinds
    <2>2. CASE JobWrites
      <3>0. PICK W : ops' = ops \cup W /\ Writes(W) /\ (~connected => W = {})
        BY <2>2 DEF JobWrites
      <3>1. Situation
        BY <2>2 DEF JobWrites, DriverInv, Flags
      <3>f. UNCHANGED Flags
        BY <2>2 DEF JobWrites
      <3>2. CASE W = {}
        BY <3>0, <3>f, <3>1, <3>2, SituationKept DEF Mine, Flags
      <3>3. CASE connected
        <4>1. Up
          BY <3>1, <3>3 DEF Situation, Dialing, Waiting
        <4>2. ops' = ((ops \ {}) \cup {}) \cup W
          BY <3>0
        <4>3. Extends({}, {}, W)
          BY <3>0, <3>f, <4>1, <4>2 DEF Extends
        <4> QED BY <4>3, SituationExtend
      <3> QED BY <3>0, <3>2, <3>3
    <2> QED BY <1>2, <2>1, <2>2, JobGrows DEF JobCloses
  <1>3. ASSUME NEW o \in ops, Handle(o) PROVE Situation'
    <2>1. ~userClosed /\ generation > 0
      BY <1>0, <1>3, HandleFrame DEF DriverInv, ConnectsOnce
    <2> QED BY <1>3, <2>1, HandleSituation DEF DriverInv
  <1>4. ASSUME NEW o \in ops, Completes(o) PROVE Situation'
    <2>1. UNCHANGED Flags /\ UNCHANGED userClosed /\ o.gen = generation
      BY <1>4, CompletesOps
    <2>2. PICK n : Replaced(o, n)
      BY <1>4, CompletesOps
    <2>3. Situation /\ o \in Mine
      BY <2>1 DEF DriverInv, Mine, Flags
    <2> QED BY <2>1, <2>2, <2>3, SituationReplace DEF Replaced
  <1>5. CASE UserCalls
    BY <1>1, <1>5, UserCallsFrame
  <1>6. CASE VenuePushes \/ VenueBabbles \/ VenueDies \/ UNCHANGED vars
    BY <1>1, <1>6, VenueFrame
  <1> QED BY <1>2, <1>3, <1>4, <1>5, <1>6 DEF Next, UserCalls

\* The inductive invariant behind ExactlyOneDriver: in every state a started session
\* that was not closed is dialing, up, or waiting to reconnect.
THEOREM DriverInvariant == Spec => []DriverInv
  <1>1. Init => DriverInv
    BY DEF Init, DriverInv, OpsInv, ConnectsOnce
  <1>2. ASSUME TypeOK, DriverInv, [Next]_vars PROVE DriverInv'
    BY <1>2, NextOpsInv, NextConnectsOnce, NextSituation DEF DriverInv
  <1> QED BY <1>1, <1>2, TypeCorrect, PTL DEF Spec

\* A started session that was not closed always has exactly one thing that drives it:
\* it is never abandoned without a read, a connect attempt or a reconnect timer, and
\* never runs two of them, in whatever order callbacks, errors and calls arrive.
THEOREM OneDriver == Spec => []ExactlyOneDriver
  <1>1. DriverInv => ExactlyOneDriver
    <2> SUFFICES ASSUME Situation PROVE
          /\ \E o \in ops : Driver(o) /\ \A p \in ops : Driver(p) => p = o
          /\ connected => \E o \in ops : o.kind = "ping" /\ o.gen = generation
      BY DEF DriverInv, ExactlyOneDriver
    <2>1. CASE Dialing
      BY <2>1 DEF Dialing, Mine, Driver, DialKinds
    <2>2. CASE Up
      BY <2>2 DEF Up, Mine, Driver, DialKinds
    <2>3. CASE Waiting
      BY <2>3 DEF Waiting, Mine, Driver, DialKinds
    <2> QED BY <2>1, <2>2, <2>3 DEF Situation
  <1> QED BY <1>1, DriverInvariant, PTL

-----------------------------------------------------------------------------
(* After close *)

\* Once the user's close has run, no handler still queued on the strand starts a
\* connection or brings one up: every path that would looks at the flag first.
THEOREM CloseIsFinal == Spec => ClosedIsFinal
  <1>1. ASSUME [Next]_vars, userClosed
        PROVE  generation' = generation /\ (connected' => connected) /\ userClosed'
    <2> DEFINE Stays == generation' = generation /\ (connected' => connected)
    <2>1. ASSUME NEW o \in ops, Handle(o) PROVE Stays
      <3> USE DEF link, HandleError, IgnoresError, IsUserClosed, StartConnect
      <3>1. CASE OnDial(o)
        BY <1>1, <3>1 DEF OnDial
      <3>2. CASE OnHandshake(o)
        BY <1>1, <3>2 DEF OnHandshake
      <3>3. CASE OnWrite(o)
        BY <1>1, <3>3 DEF OnWrite
      <3>4. CASE OnReadFailure(o) \/ OnAuthRejected(o)
        BY <1>1, <3>4 DEF OnReadFailure, OnAuthRejected
      <3>5. CASE OnPingTimer(o)
        BY <1>1, <3>5 DEF OnPingTimer
      <3>6. CASE OnReconnectTimer(o)
        BY <1>1, <3>6 DEF OnReconnectTimer
      <3>7. CASE OnPong(o) \/ OnPush(o) \/ OnSubscribeAck(o) \/ OnClosed(o) \/ OnStale(o)
        BY <3>7 DEF OnPong, OnPush, OnSubscribeAck, OnClosed, OnStale
      <3>8. CASE OnAuthAck(o)
        BY <3>8 DEF OnAuthAck
      <3> QED BY <2>1, <3>1, <3>2, <3>3, <3>4, <3>5, <3>6, <3>7, <3>8 DEF Handle
    <2>2. CASE RunJob
      <3> USE DEF link, IsUserClosed, StartConnect
      <3>1. CASE JobConnect
        BY <1>1, <3>1 DEF JobConnect
      <3>2. CASE JobFlush
        BY <1>1, <3>2 DEF JobFlush
      <3>3. CASE JobUnsubscribe
        BY <1>1, <3>3 DEF JobUnsubscribe
      <3>4. CASE JobClose
        BY <1>1, <3>4 DEF JobClose
      <3> QED BY <2>2, <3>1, <3>2, <3>3, <3>4 DEF RunJob
    <2>3. ASSUME NEW o \in ops, Handle(o) PROVE userClosed'
      BY <1>1, <2>3, HandleFrame
    <2>4. ASSUME NEW o \in ops, Completes(o) PROVE Stays /\ userClosed'
      BY <1>1, <2>4, CompletesOps DEF Flags
    <2>5. CASE UserCalls
      <3>1. UNCHANGED <<generation, connected, userClosed>>
        BY <2>5 DEF UserCalls, Subscribe, Unsubscribe, Close, link
      <3> QED BY <1>1, <3>1
    <2>6. CASE VenuePushes \/ VenueBabbles \/ VenueDies \/ UNCHANGED vars
      <3>1. UNCHANGED Flags /\ UNCHANGED userClosed
        BY <2>6, VenueFrame
      <3> QED BY <1>1, <3>1 DEF Flags
    <2> QED BY <1>1, <2>1, <2>2, <2>3, <2>4, <2>5, <2>6 DEF Next, UserCalls
  <1> QED BY <1>1, PTL DEF Spec, ClosedIsFinal

-----------------------------------------------------------------------------
(* The backoff *)

\* handleError() never shortens the delay of the reconnect timer.
LEMMA HandleErrorDelay ==
  ASSUME TypeOK, NEW rest, NEW inFlight, NEW failed, HandleError(rest, inFlight, failed)
  PROVE  reconnectDelayS' >= reconnectDelayS
  <1>1. reconnectDelayS \in 1 .. RECONNECT_DELAY_MAX /\ RECONNECT_DELAY_MAX \in Nat
    BY ConstantsAssumption DEF TypeOK
  <1>2. NextDelay >= reconnectDelayS
    BY <1>1 DEF NextDelay
  <1>3. reconnectDelayS' \in {reconnectDelayS, NextDelay}
    BY DEF HandleError
  <1> QED BY <1>1, <1>2, <1>3

\* The reconnect delay shrinks only in the handler of a frame that was received, which
\* ends that read, and on a private session only if it is authenticated then.
THEOREM BackoffIsEarned == Spec => BackoffEarned
  <1> DEFINE Shrinks == reconnectDelayS' < reconnectDelayS
             Earned  == /\ \E o \in ops \ ops' : o.kind = "read" /\ o.res = "ok"
                        /\ AuthRequired => authenticated'
  <1>1. ASSUME TypeOK, TypeOK', [Next]_vars, Shrinks PROVE Earned
    <2>0. reconnectDelayS \in Nat /\ reconnectDelayS' \in Nat
      BY <1>1 DEF TypeOK
    <2>k. reconnectDelayS' # reconnectDelayS /\ ~(reconnectDelayS' >= reconnectDelayS)
      BY <1>1, <2>0
    <2>e. ASSUME NEW rest, NEW inFlight, NEW failed, HandleError(rest, inFlight, failed)
          PROVE  FALSE
      BY <1>1, <2>e, <2>k, HandleErrorDelay
    <2>1. ASSUME NEW o \in ops, Handle(o) PROVE Earned
      \* The read that was handled is gone: what the handler starts is still to finish.
      <3>r. ASSUME NEW W, Writes(W), ops' = ((ops \ {o}) \cup Rearm) \cup W,
                   o.kind = "read", o.res = "ok"
            PROVE  o \in ops \ ops'
        BY <2>1, <3>r, NewWaits DEF Writes
      <3>1. CASE OnPong(o) \/ OnPush(o) \/ OnSubscribeAck(o)
        <4>1. /\ o.kind = "read" /\ o.res = "ok" /\ UNCHANGED authenticated
              /\ ResetBackoff(authenticated) /\ Start(ops \ {o}, Rearm)
          BY <3>1 DEF OnPong, OnPush, OnSubscribeAck, ReadyFrame, Ready, link
        <4>2. ops' = ((ops \ {o}) \cup Rearm) \cup {} /\ Writes({})
          BY <4>1 DEF Start, Writes
        <4>3. AuthRequired => authenticated
          BY <2>k, <4>1 DEF ResetBackoff
        <4> QED BY <3>r, <4>1, <4>2, <4>3
      <3>2. CASE OnAuthAck(o)
        <4> DEFINE yes  == TRUE
                   rest == ops \ {o}
        <4>1. /\ o.kind = "read" /\ o.res = "ok" /\ authenticated'
              /\ FlushTopics(connected, yes, rest, Rearm)
          BY <3>2 DEF OnAuthAck, ReadyFrame, Ready
        <4> HIDE DEF yes, rest
        <4>2. PICK W : ops' = (rest \cup Rearm) \cup W /\ Writes(W)
          BY ONLY <4>1, FlushOps
        <4> QED BY <3>r, <4>1, <4>2 DEF rest
      <3>3. CASE OnDial(o)
        BY <2>e, <2>k, <3>3 DEF OnDial
      <3>4. CASE OnHandshake(o)
        BY <2>e, <2>k, <3>4 DEF OnHandshake, HandshakeBackoff
      <3>5. CASE OnWrite(o)
        BY <2>e, <2>k, <3>5 DEF OnWrite
      <3>6. CASE OnReadFailure(o) \/ OnAuthRejected(o)
        BY <2>e, <3>6 DEF OnReadFailure, OnAuthRejected
      <3>7. CASE OnPingTimer(o)
        BY <2>e, <2>k, <3>7 DEF OnPingTimer
      <3>8. CASE OnReconnectTimer(o) \/ OnClosed(o) \/ OnStale(o)
        BY <2>k, <3>8 DEF OnReconnectTimer, OnClosed, OnStale
      <3> QED BY <2>1, <3>1, <3>2, <3>3, <3>4, <3>5, <3>6, <3>7, <3>8 DEF Handle
    <2>2. CASE RunJob
      BY <2>2, <2>k DEF RunJob, JobConnect, JobFlush, JobUnsubscribe, JobClose
    <2>3. ASSUME NEW o \in ops, Completes(o) PROVE Earned
      BY <2>3, <2>k DEF Completes, DialSucceeds, DialFails, ReadArrives, WriteSent, WriteLost,
                        StreamFails, PingFires, ReconnectFires, Idle
    <2>4. CASE UserCalls
      BY <2>4, <2>k DEF UserCalls, Subscribe, Unsubscribe, Close
    <2>5. CASE VenuePushes \/ VenueBabbles \/ VenueDies \/ UNCHANGED vars
      BY <2>5, <2>k DEF VenuePushes, VenueBabbles, VenueDies, Idle, vars
    <2> QED BY <1>1, <2>1, <2>2, <2>3, <2>4, <2>5 DEF Next, UserCalls
  <1> QED BY <1>1, TypeCorrect, PTL DEF Spec, BackoffEarned

-----------------------------------------------------------------------------
(* One write at a time *)

\* Why NoOverlap holds: of the writes in S that are of this generation there is at
\* most one, and `writing' tells if there is.
OneWrite(S, writing) ==
  LET W == {o \in S : o.kind = "write" /\ o.gen = generation}
  IN  (W # {} => writing) /\ \A o, p \in W : o = p
SoleWriter == connected => OneWrite(ops, writeInFlight)

\* pump() starts a write only when none is in flight, and notes it.
LEMMA PumpSolo ==
  ASSUME NEW q, NEW inFlight \in BOOLEAN, NEW up, NEW rest, NEW new,
         Pump(q, inFlight, up, rest, new), generation' = generation,
         OneWrite(rest, inFlight), \A n \in new : n.kind \notin {"write", "close"}
  PROVE  /\ OneWrite(ops, writeInFlight)'
         /\ /\ \A o \in rest : o.gen = generation => o.kind # "close"
            /\ \A n \in new, o \in rest : ~Collide(n, o)
            => (overlapped' => overlapped)
  <1> DEFINE go == MayWrite(q, inFlight, up)
             w  == Armed("write", generation, Head(q))
  <1>1. w.kind = "write" /\ w.gen = generation
    BY ArmedFields
  <1>2. go => ~inFlight
    BY DEF MayWrite
  <1>3. /\ ops' = rest \cup (new \cup (IF go THEN {w} ELSE {}))
        /\ writeInFlight' = (inFlight \/ go)
        /\ overlapped' = (overlapped \/ \E n \in new \cup (IF go THEN {w} ELSE {}), o \in rest :
                                          Collide(n, o))
    BY DEF Pump, Start
  <1> HIDE DEF go, w
  <1>4. OneWrite(ops, writeInFlight)'
    BY <1>1, <1>2, <1>3 DEF OneWrite
  <1>5. ASSUME \A o \in rest : o.gen = generation => o.kind # "close", go
        PROVE  \A o \in rest : ~Collide(w, o)
    BY <1>1, <1>2, <1>5 DEF OneWrite, Collide
  <1> QED BY <1>3, <1>4, <1>5

\* So does flushTopics().
LEMMA FlushSolo ==
  ASSUME TypeOK, NEW up, NEW auth, NEW rest, NEW new,
         FlushTopics(up, auth, rest, new), generation' = generation,
         OneWrite(rest, writeInFlight), \A n \in new : n.kind \notin {"write", "close"}
  PROVE  /\ OneWrite(ops, writeInFlight)'
         /\ /\ \A o \in rest : o.gen = generation => o.kind # "close"
            /\ \A n \in new, o \in rest : ~Collide(n, o)
            => (overlapped' => overlapped)
  <1>1. CASE MayFlush(up, auth) /\ pendingTopics # NoTopics
    <2>1. PICK q : Pump(q, writeInFlight, up, rest, new)
      BY <1>1 DEF FlushTopics
    <2>2. writeInFlight \in BOOLEAN
      BY DEF TypeOK
    <2> QED BY <2>1, <2>2, PumpSolo
  <1>2. CASE ~(MayFlush(up, auth) /\ pendingTopics # NoTopics)
    <2>1. Start(rest, new) /\ UNCHANGED writeInFlight
      BY <1>2 DEF FlushTopics, out
    <2> QED BY <2>1 DEF Start, OneWrite
  <1> QED BY <1>1, <1>2

\* After handleError() no connection is up, unless it ignored the error.
LEMMA HandleErrorSolo ==
  ASSUME SoleWriter, NEW rest \in SUBSET ops, NEW inFlight, NEW failed,
         HandleError(rest, inFlight, failed), connected => OneWrite(rest, inFlight)
  PROVE  SoleWriter'
  BY DEF HandleError, link, SoleWriter, OneWrite

\* Every completion handler keeps the writer alone; what it starts overlaps with nothing.
LEMMA HandleSolo ==
  ASSUME TypeOK, DriverInv, SoleWriter, NEW o \in ops, Handle(o)
  PROVE  SoleWriter' /\ (~userClosed => (overlapped' => overlapped))
  <1> DEFINE rest == ops \ {o}
             Goal == SoleWriter' /\ (~userClosed => (overlapped' => overlapped))
  <1>t. writeInFlight \in BOOLEAN /\ generation \in Nat
    BY DEF TypeOK
  <1>g. generation > 0 /\ (~userClosed => Situation)
    BY <1>t DEF DriverInv, ConnectsOnce
  <1>r. rest \in SUBSET ops /\ (connected => OneWrite(rest, writeInFlight))
    BY DEF SoleWriter, OneWrite
  <1>e. ASSUME HandleError(rest, writeInFlight, TRUE) \/ HandleError(rest, writeInFlight, FALSE),
               UNCHANGED overlapped
        PROVE  Goal
    BY <1>e, <1>r, HandleErrorSolo
  <1>n. /\ \A h \in HeartbeatWait : h.kind = "ping" /\ h.gen = generation
        /\ \A r \in Rearm : r.kind = "read" /\ r.gen = generation
    BY ArmedFields DEF HeartbeatWait, Rearm
  <1>c. ASSUME ~userClosed PROVE \A p \in ops : p.gen = generation => p.kind # "close"
    BY <1>c, <1>g DEF Situation, Dialing, Up, Waiting, Mine, DialKinds
  \* The next read starts after the only one was handled.
  <1>a. ASSUME o.kind = "read", o.gen = generation, ~userClosed
        PROVE  \A n \in Rearm, p \in rest : ~Collide(n, p)
    <2>1. CASE connected /\ ~reconnectScheduled
      <3>1. Up
        BY <1>a, <1>g, <2>1 DEF Situation, Dialing, Waiting
      <3>2. \A p \in rest : p.gen = generation => p.kind # "read"
        BY <1>a, <3>1 DEF Up, Mine
      <3> QED BY <1>n, <3>2 DEF Collide
    <2>2. CASE ~(connected /\ ~reconnectScheduled)
      BY <2>2 DEF Rearm
    <2> QED BY <2>1, <2>2
  <1> HIDE DEF rest
  <1>1. CASE OnDial(o)
    <2>1. CASE o.res = "err"
      BY <1>1, <1>e, <2>1 DEF OnDial, rest
    <2>2. CASE o.res # "err"
      <3>1. NextStage[o.kind] \in DialKinds
        BY <1>1 DEF OnDial, NextStage, DialKinds
      <3>2. /\ ops' = rest \cup {Armed(NextStage[o.kind], generation, NoPacket)}
            /\ UNCHANGED <<connected, generation, writeInFlight, overlapped>>
        BY <1>1, <2>2 DEF OnDial, rest, link, out
      <3>3. Armed(NextStage[o.kind], generation, NoPacket).kind # "write"
        BY <3>1, ArmedFields DEF DialKinds
      <3> QED BY <1>r, <3>2, <3>3 DEF SoleWriter, OneWrite
    <2> QED BY <2>1, <2>2
  <1>2. CASE OnHandshake(o)
    <2>1. CASE o.res = "err"
      BY <1>2, <1>e, <2>1 DEF OnHandshake, rest
    <2>2. CASE o.res # "err" /\ IsUserClosed
      <3>1. ops' = rest /\ UNCHANGED <<connected, generation, writeInFlight, overlapped>>
        BY <1>2, <2>2 DEF OnHandshake, rest, link, out
      <3> QED BY <1>r, <3>1 DEF SoleWriter, OneWrite
    <2>3. CASE o.res # "err" /\ ~IsUserClosed
      <3> DEFINE rst == rest \ PingWaits
                 new == HeartbeatWait \cup {Armed("read", generation, NoPacket)}
                 q   == Append(outboundQueue, Request("auth", 0, {}))
                 yes == TRUE
      <3>1. /\ generation' = generation
            /\ \/ Pump(q, writeInFlight, yes, rst, new)
               \/ FlushTopics(yes, authenticated, rst, new)
        BY <1>2, <2>3 DEF OnHandshake, rest
      <3>2. \A x \in rst : x.gen # generation
        <4>1. Mine = {o}
          BY <1>2, <1>g, <2>3 DEF OnHandshake, Ready, Situation, Dialing, Up, Waiting, DialKinds,
                                  IsUserClosed, Mine
        <4> QED BY <4>1 DEF Mine, rest
      <3>3. /\ OneWrite(rst, writeInFlight) /\ \A n \in new, p \in rst : ~Collide(n, p)
            /\ \A n \in new : n.kind \notin {"write", "close"}
            /\ \A p \in rst : p.gen = generation => p.kind # "close"
        BY <1>n, <3>2, ArmedFields DEF OneWrite, Collide
      <3> HIDE DEF rst, new, q, yes
      <3>4. OneWrite(ops, writeInFlight)' /\ (overlapped' => overlapped)
        <4>1. CASE Pump(q, writeInFlight, yes, rst, new)
          BY <1>t, <3>1, <3>3, <4>1, PumpSolo
        <4>2. CASE FlushTopics(yes, authenticated, rst, new)
          BY <3>1, <3>3, <4>2, FlushSolo
        <4> QED BY <3>1, <4>1, <4>2
      <3> QED BY <3>4 DEF SoleWriter
    <2> QED BY <2>1, <2>2, <2>3
  <1>3. CASE OnWrite(o)
    <2>0. connected => OneWrite(rest, FALSE)
      BY <1>3 DEF OnWrite, Ready, SoleWriter, OneWrite, rest
    <2>1. CASE o.res = "err"
      BY <1>3, <1>r, <2>0, <2>1, HandleErrorSolo DEF OnWrite, rest
    <2>2. CASE o.res # "err"
      <3> DEFINE new == {}
                 no  == FALSE
      <3>1. /\ Pump(outboundQueue, no, connected, rest, new)
            /\ generation' = generation /\ connected' = connected
        BY <1>3, <2>2 DEF OnWrite, rest, link
      <3>2. CASE connected
        <4>1. OneWrite(rest, no) /\ no \in BOOLEAN /\ \A n \in new : n.kind \notin {"write", "close"}
          BY <2>0, <3>2
        <4>2. \A n \in new, p \in rest : ~Collide(n, p)
          OBVIOUS
        <4>3. ~userClosed => \A p \in rest : p.gen = generation => p.kind # "close"
          BY <1>c DEF rest
        <4> HIDE DEF new, no
        <4> QED BY <3>1, <4>1, <4>2, <4>3, PumpSolo DEF SoleWriter
      <3>3. CASE ~connected
        BY <3>1, <3>3 DEF Pump, MayWrite, Start, SoleWriter
      <3> QED BY <3>2, <3>3
    <2> QED BY <2>1, <2>2
  <1>4. CASE OnReadFailure(o)
    BY <1>4, <1>r, HandleErrorSolo DEF OnReadFailure, rest
  <1>5. CASE OnAuthRejected(o)
    <2> DEFINE again == IF IsUserClosed THEN Rearm ELSE {}
    <2>1. HandleError(rest \cup again, writeInFlight, FALSE) /\ UNCHANGED overlapped
      BY <1>5 DEF OnAuthRejected, rest
    <2>2. connected => OneWrite(rest \cup again, writeInFlight)
      BY <1>n, <1>r DEF OneWrite
    <2> HIDE DEF again
    <2>3. SoleWriter'
      BY <2>1, <2>2 DEF HandleError, link, SoleWriter, OneWrite
    <2> QED BY <2>1, <2>3
  <1>6. CASE OnPong(o) \/ OnPush(o) \/ OnSubscribeAck(o)
    <2>1. /\ o.kind = "read" /\ o.gen = generation /\ Start(rest, Rearm)
          /\ UNCHANGED <<generation, connected, writeInFlight>>
      BY <1>6 DEF OnPong, OnPush, OnSubscribeAck, ReadyFrame, Ready, rest, link, out
    <2>2. SoleWriter'
      BY <1>n, <1>r, <2>1 DEF Start, SoleWriter, OneWrite
    <2> QED BY <1>a, <2>1, <2>2 DEF Start
  <1>7. CASE OnAuthAck(o)
    <2> DEFINE yes == TRUE
    <2>1. /\ o.kind = "read" /\ o.gen = generation /\ FlushTopics(connected, yes, rest, Rearm)
          /\ UNCHANGED <<generation, connected>>
      BY <1>7 DEF OnAuthAck, ReadyFrame, Ready, rest
    <2>2. CASE connected
      <3>1. OneWrite(rest, writeInFlight) /\ \A n \in Rearm : n.kind \notin {"write", "close"}
        BY <1>n, <1>r, <2>2
      <3>2. ~userClosed => /\ \A p \in rest : p.gen = generation => p.kind # "close"
                           /\ \A n \in Rearm, p \in rest : ~Collide(n, p)
        BY <1>a, <1>c, <2>1 DEF rest
      <3> HIDE DEF yes
      <3> QED BY <2>1, <3>1, <3>2, FlushSolo DEF SoleWriter
    <2>3. CASE ~connected
      BY <2>1, <2>3 DEF FlushTopics, MayFlush, Start, Rearm, SoleWriter
    <2> QED BY <2>2, <2>3
  <1>8. CASE OnPingTimer(o)
    <2> DEFINE rst == rest \ PingWaits
               q   == Append(outboundQueue, Request("ping", 0, {}))
    <2>0. /\ connected => OneWrite(rst, writeInFlight)
          /\ \A n \in HeartbeatWait : n.kind \notin {"write", "close"}
          /\ \A n \in HeartbeatWait, p \in rst : ~Collide(n, p)
          /\ ~userClosed => \A p \in rst : p.gen = generation => p.kind # "close"
      BY <1>c, <1>n, <1>r DEF OneWrite, Collide, rest
    <2>1. CASE ops' = rest /\ UNCHANGED <<connected, generation, writeInFlight, overlapped>>
      BY <1>r, <2>1 DEF SoleWriter, OneWrite
    <2>2. CASE /\ Start(rst, HeartbeatWait) /\ ~connected
               /\ UNCHANGED <<connected, generation, writeInFlight>>
      BY <2>0, <2>2 DEF SoleWriter, Start
    <2>3. CASE HandleError(rest, writeInFlight, FALSE) /\ UNCHANGED overlapped
      BY <1>e, <2>3
    <2>4. CASE /\ Pump(q, writeInFlight, connected, rst, HeartbeatWait)
               /\ connected /\ UNCHANGED <<connected, generation>>
      <3> HIDE DEF rst, q
      <3> QED BY <1>t, <2>0, <2>4, PumpSolo DEF SoleWriter
    <2> QED BY <1>8, <2>1, <2>2, <2>3, <2>4 DEF OnPingTimer, rest, link, out
  <1>9. CASE OnReconnectTimer(o)
    <2>1. CASE o.res = "err" \/ IsUserClosed
      <3>1. /\ ops' = rest
            /\ UNCHANGED <<connected, generation, writeInFlight, overlapped>>
        BY <1>9, <2>1 DEF OnReconnectTimer, StartConnect, rest
      <3> QED BY <1>r, <3>1 DEF SoleWriter, OneWrite
    <2>2. CASE ~(o.res = "err" \/ IsUserClosed)
      BY <1>9, <2>2 DEF OnReconnectTimer, StartConnect, SoleWriter
    <2> QED BY <2>1, <2>2
  <1>10. CASE OnClosed(o) \/ OnStale(o)
    <2>1. ops' = rest /\ UNCHANGED <<connected, generation, writeInFlight, overlapped>>
      BY <1>10 DEF OnClosed, OnStale, rest, link, out
    <2> QED BY <1>r, <2>1 DEF SoleWriter, OneWrite
  <1> QED BY <1>1, <1>2, <1>3, <1>4, <1>5, <1>6, <1>7, <1>8, <1>9, <1>10 DEF Handle

\* A posted job, too, keeps the writer alone, and overlaps only if it is the user's close.
LEMMA JobSolo ==
  ASSUME TypeOK, DriverInv, SoleWriter, RunJob
  PROVE  /\ SoleWriter'
         /\ ~userClosed' => (overlapped' => overlapped)
  <1> DEFINE new == {}
  <1>t. writeInFlight \in BOOLEAN /\ generation \in Nat /\ posted \in Seq(Job)
    BY DEF TypeOK
  <1>n. /\ \A n \in new : n.kind \notin {"write", "close"}
        /\ \A n \in new, p \in ops : ~Collide(n, p)
    OBVIOUS
  <1>c. ASSUME ~userClosed PROVE \A p \in ops : p.gen = generation => p.kind # "close"
    BY <1>c, <1>t DEF DriverInv, ConnectsOnce, Situation, Dialing, Up, Waiting, Mine, DialKinds
  <1>1. CASE JobConnect
    BY <1>1 DEF JobConnect, StartConnect, SoleWriter, OneWrite
  <1>2. CASE JobFlush
    <2>1. FlushTopics(connected, authenticated, ops, new) /\ UNCHANGED <<link, userClosed>>
      BY <1>2 DEF JobFlush
    <2>2. CASE connected
      <3> HIDE DEF new
      <3> QED BY <1>c, <1>n, <2>1, <2>2, FlushSolo DEF SoleWriter, link
    <2>3. CASE ~connected
      BY <2>1, <2>3 DEF FlushTopics, MayFlush, Start, SoleWriter, link
    <2> QED BY <2>2, <2>3
  <1>3. CASE JobUnsubscribe
    <2> DEFINE q == Append(outboundQueue, Request("unsubscribe", 0, Head(posted).topics))
    <2>1. UNCHANGED <<link, userClosed>>
      BY <1>3 DEF JobUnsubscribe
    <2>2. CASE connected
      <3>1. Pump(q, writeInFlight, connected, ops, new)
        BY <1>3, <2>2 DEF JobUnsubscribe
      <3> HIDE DEF new, q
      <3> QED BY <1>c, <1>n, <1>t, <2>1, <2>2, <3>1, PumpSolo DEF SoleWriter, link
    <2>3. CASE ~connected
      BY <1>3, <2>1, <2>3 DEF JobUnsubscribe, SoleWriter, link
    <2> QED BY <2>2, <2>3
  <1>4. CASE JobClose
    <2>1. CASE IsUserClosed
      BY <1>4, <2>1 DEF JobClose, SoleWriter, OneWrite, link, out
    <2>2. CASE ~IsUserClosed
      <3> DEFINE f(o) == IF o.res = "armed" /\ o.kind \in DialKinds \cup {"reconnect"}
                         THEN Finished(o, "err", NoPacket) ELSE o
                 rest == {f(o) : o \in ops \ PingWaits}
                 c == Armed("close", generation, NoPacket)
      <3>1. /\ ops' = rest \cup {c} \/ ops' = rest \cup {}
            /\ UNCHANGED <<link, out>> /\ userClosed'
        BY <1>4, <2>2 DEF JobClose, Start
      <3>2. c.kind # "write" /\ \A o : f(o).kind = "write" => f(o) = o
        BY ArmedFields DEF Finished, DialKinds
      <3> HIDE DEF f, c
      <3>3. \A p \in ops' : p.kind = "write" => p \in ops
        BY <3>1, <3>2
      <3> QED BY <3>1, <3>3 DEF SoleWriter, OneWrite, link, out
    <2> QED BY <2>1, <2>2
  <1> QED BY <1>1, <1>2, <1>3, <1>4 DEF RunJob

\* The steps that start no operation.
LEMMA PassiveSolo ==
  ASSUME \/ UserCalls \/ VenuePushes \/ VenueBabbles \/ VenueDies \/ UNCHANGED vars
         \/ \E o \in ops : Completes(o)
  PROVE  /\ SoleWriter => SoleWriter'
         /\ overlapped' = overlapped
  <1>1. CASE UserCalls
    <2>1. UNCHANGED <<ops, link, out, overlapped>>
      BY <1>1 DEF UserCalls, Subscribe, Unsubscribe, Close
    <2> QED BY <2>1 DEF SoleWriter, OneWrite, link, out
  <1>2. CASE VenuePushes \/ VenueBabbles \/ VenueDies \/ UNCHANGED vars
    <2>1. UNCHANGED <<ops, link, out, overlapped>>
      BY <1>2 DEF VenuePushes, VenueBabbles, VenueDies, Idle, vars
    <2> QED BY <2>1 DEF SoleWriter, OneWrite, link, out
  <1>3. ASSUME NEW o \in ops, Completes(o) PROVE (SoleWriter => SoleWriter') /\ overlapped' = overlapped
    <2>1. UNCHANGED <<link, out, overlapped>>
      BY <1>3 DEF Completes, DialSucceeds, DialFails, ReadArrives, WriteSent, WriteLost,
                  StreamFails, PingFires, ReconnectFires, Idle
    <2>2. PICK n : Replaced(o, n)
      BY <1>3, CompletesOps
    <2> QED BY <2>1, <2>2 DEF Replaced, SoleWriter, OneWrite, link, out
  <1> QED BY <1>1, <1>2, <1>3

\* Every step keeps the writer alone, and none but a close makes operations overlap.
LEMMA NextSolo ==
  ASSUME TypeOK, DriverInv, SoleWriter, [Next]_vars
  PROVE  /\ SoleWriter'
         /\ ~userClosed' => (overlapped' => overlapped)
  <1>1. ASSUME NEW o \in ops, Handle(o)
        PROVE  SoleWriter' /\ (~userClosed' => (overlapped' => overlapped))
    BY <1>1, HandleSolo, HandleFrame
  <1> QED BY <1>1, JobSolo, PassiveSolo DEF Next, UserCalls

\* While a connection is up it has at most one write in flight, and the write flag
\* says so, whether or not the user closes the session.
THEOREM WriterIsAlone == Spec => []SoleWriter
  <1>1. Init => SoleWriter
    BY DEF Init, SoleWriter
  <1>2. ASSUME TypeOK, DriverInv, SoleWriter, [Next]_vars PROVE SoleWriter'
    BY <1>2, NextSolo
  <1> QED BY <1>1, <1>2, TypeCorrect, DriverInvariant, PTL DEF Spec

\* Until its user closes it, a session never has two reads or two writes outstanding on
\* one stream, across errors, late completions and reconnects: Beast's rule is kept.
THEOREM NothingOverlaps == Spec => []NoOverlap
  <1>1. Init => NoOverlap
    BY DEF Init, NoOverlap
  <1>2. ASSUME TypeOK, DriverInv, SoleWriter, NoOverlap, [Next]_vars, [userClosed => userClosed']_vars
        PROVE  NoOverlap'
    <2>1. userClosed => userClosed'
      BY <1>2 DEF vars
    <2> QED BY <1>2, <2>1, NextSolo DEF NoOverlap
  <1>3. ClosedIsFinal => [][userClosed => userClosed']_vars
    <2>1. [userClosed => generation' = generation /\ (connected' => connected) /\ userClosed']_vars
            => [userClosed => userClosed']_vars
      OBVIOUS
    <2> QED BY <2>1, PTL DEF ClosedIsFinal
  <1> QED BY <1>1, <1>2, <1>3, TypeCorrect, DriverInvariant, WriterIsAlone, CloseIsFinal, PTL DEF Spec

-----------------------------------------------------------------------------
(* What the steps of the strand do, for the invariants that follow: they start a *)
(* connection, lose one, or handle operations and send frames.                   *)

\* The operations `gone' were handled or cancelled and `new' ones started, none a write.
Swaps(gone, new) ==
  /\ \A g \in gone : g.res = "armed" => g.kind = "ping" \/ g.gen # generation
  /\ \A n \in new : /\ n.res = "armed" /\ n.gen = generation /\ n.kind # "write"
                    /\ n.kind = "read" => connected'
                    /\ n.kind \in DialKinds => \E g \in gone \cap Mine : g.kind \in DialKinds
  /\ UNCHANGED <<generation, inbox, venueSubs>> /\ sock' \in {sock, "closed"}
  /\ connected => connected'
  /\ authenticated => authenticated'
  /\ connected' => connected \/ Up'

\* At most the head of the queue q is written, if no other write is in flight.
Sends(q, gone, new, W) ==
  /\ Swaps(gone, new)
  /\ ops' = ((ops \ gone) \cup new) \cup W
  /\ \/ W = {} /\ outboundQueue' = q
     \/ /\ q # <<>> /\ outboundQueue' = Tail(q)
        /\ W = {Armed("write", generation, Head(q))}
        /\ connected' /\ \A o \in ops \ gone : o.gen = generation => o.kind # "write"

\* The books are left alone, and the queue too but for a frame that does not subscribe.
Plain(q) ==
  /\ UNCHANGED books
  /\ \/ q = outboundQueue
     \/ \E f \in Packet :
          /\ q = Append(outboundQueue, f) /\ f.op # "subscribe" /\ connected'
          /\ f.op = "unsubscribe" => /\ posted # <<>> /\ Head(posted).kind = "unsubscribe"
                                     /\ f.topics = Head(posted).topics

\* Everything pending is sent.
Flushes(q) ==
  /\ MayFlush(connected', authenticated')
  /\ subscriptions' = [t \in Topics |-> subscriptions[t] + pendingTopics[t]]
  /\ pendingTopics' = NoTopics
  /\ reqIdCounter' = reqIdCounter + 1
  /\ inflightSubscribes' = inflightSubscribes
                             \cup {[id |-> reqIdCounter + 1, args |-> pendingTopics]}
  /\ q = Append(outboundQueue, Request("subscribe", reqIdCounter + 1, Listed(pendingTopics)))

\* The answer in the read o settles a subscribe op.
Settles(o) ==
  /\ ReadyFrame(o, "subscribe")
  /\ UNCHANGED <<pendingTopics, reqIdCounter, link>>
  /\ inflightSubscribes' = inflightSubscribes \ Attributed(o.pkt)
  /\ IF o.pkt.success \/ Attributed(o.pkt) = {}
     THEN UNCHANGED subscriptions
     ELSE \E op \in Attributed(o.pkt) :
            subscriptions' = [t \in Topics |-> IF subscriptions[t] > op.args[t]
                                               THEN subscriptions[t] - op.args[t] ELSE 0]

NoAnswer(gone) == \A g \in gone : ~ReadyFrame(g, "subscribe")

Works ==
  \E gone, new, W, q :
    /\ Sends(q, gone, new, W)
    /\ \/ NoAnswer(gone) /\ (Plain(q) \/ Flushes(q))
       \/ \E o \in ops : gone = {o} /\ Settles(o) /\ W = {} /\ q = outboundQueue

Connects ==
  /\ Dialing' /\ ~connected /\ ~connected' /\ ~authenticated' /\ generation' = generation + 1
  /\ sock' = "none" /\ inbox' = <<>> /\ venueSubs' = {}
  /\ UNCHANGED <<books, outboundQueue>>

Fails ==
  /\ Waiting' /\ ~connected' /\ ~authenticated' /\ generation' = generation
  /\ sock' # "open" /\ inbox' = <<>> /\ venueSubs' = {}
  /\ outboundQueue' = <<>> /\ inflightSubscribes' = {} /\ UNCHANGED reqIdCounter
  /\ pendingTopics' = Replayed /\ subscriptions' = NoTopics

\* pump() writes the head of the queue, or nothing.
LEMMA PumpSends ==
  ASSUME NEW q, NEW inFlight, NEW up, NEW gone, NEW new, Swaps(gone, new),
         Pump(q, inFlight, up, ops \ gone, new),
         up => connected' /\ OneWrite(ops \ gone, inFlight)
  PROVE  \E W : Sends(q, gone, new, W)
  <1> DEFINE go == MayWrite(q, inFlight, up)
             W  == IF go THEN {Armed("write", generation, Head(q))} ELSE {}
  <1>1. ops' = ((ops \ gone) \cup new) \cup W /\ outboundQueue' = IF go THEN Tail(q) ELSE q
    BY DEF Pump, Start
  <1>2. go => up /\ q # <<>> /\ ~inFlight
    BY DEF MayWrite
  <1>3. go => \A o \in ops \ gone : o.gen = generation => o.kind # "write"
    BY <1>2 DEF OneWrite
  <1>4. Sends(q, gone, new, W)
    BY <1>1, <1>2, <1>3 DEF Sends
  <1> HIDE DEF W
  <1> QED BY <1>4

\* flushTopics() sends all pending topics, or changes nothing.
LEMMA FlushSends ==
  ASSUME NEW up, NEW auth, NEW gone, NEW new, Swaps(gone, new), up = connected',
         auth = authenticated', FlushTopics(up, auth, ops \ gone, new),
         up => OneWrite(ops \ gone, writeInFlight), NoAnswer(gone)
  PROVE  Works
  <1>1. CASE MayFlush(up, auth) /\ pendingTopics # NoTopics
    <2> DEFINE q == Append(outboundQueue,
                           Request("subscribe", reqIdCounter + 1, Listed(pendingTopics)))
    <2>1. Pump(q, writeInFlight, up, ops \ gone, new)
      BY <1>1 DEF FlushTopics
    <2>2. Flushes(q)
      BY <1>1 DEF FlushTopics, Flushes
    <2> HIDE DEF q
    <2>3. \E W : Sends(q, gone, new, W)
      BY <2>1, PumpSends
    <2> QED BY <2>2, <2>3 DEF Works
  <1>2. CASE ~(MayFlush(up, auth) /\ pendingTopics # NoTopics)
    <2>1. UNCHANGED <<books, out>> /\ Start(ops \ gone, new)
      BY <1>2 DEF FlushTopics
    <2>2. Sends(outboundQueue, gone, new, {})
      BY <2>1 DEF Start, Sends, out
    <2>3. Plain(outboundQueue)
      BY <2>1 DEF Plain
    <2> QED BY <2>2, <2>3 DEF Works
  <1> QED BY <1>1, <1>2

\* handleError() ends the connection or, for an error it ignores, changes no book.
LEMMA HandleErrorClass ==
  ASSUME DriverInv', generation > 0, NEW gone, NEW new, NEW inFlight, NEW failed, UNCHANGED userClosed,
         HandleError((ops \ gone) \cup new, inFlight, failed), NoAnswer(gone),
         \A g \in gone : g.res = "armed" => g.kind = "ping",
         new = {} \/ (new = Rearm /\ IsUserClosed)
  PROVE  Works \/ Fails
  <1>1. CASE IgnoresError
    <2>1. /\ ops' = (ops \ gone) \cup new
          /\ sock' \in {sock, "closed"}
          /\ UNCHANGED <<link, books, outboundQueue, inbox, venueSubs>>
      BY <1>1 DEF HandleError
    <2>2. \A n \in new : n.kind = "read" /\ n.res = "armed" /\ n.gen = generation /\ connected
      BY ArmedFields DEF Rearm
    <2>3. Swaps(gone, new)
      BY <2>1, <2>2 DEF Swaps, link, DialKinds
    <2>4. Sends(outboundQueue, gone, new, {}) /\ Plain(outboundQueue)
      BY <2>1, <2>3 DEF Sends, Plain
    <2> QED BY <2>4 DEF Works
  <1>2. CASE ~IgnoresError
    <2>1. /\ reconnectScheduled' /\ ~connected' /\ ~authenticated' /\ generation' = generation
          /\ outboundQueue' = <<>> /\ inflightSubscribes' = {} /\ UNCHANGED reqIdCounter
          /\ pendingTopics' = Replayed /\ subscriptions' = NoTopics
          /\ sock' # "open" /\ inbox' = <<>> /\ venueSubs' = {}
      BY <1>2 DEF HandleError, KeptQueue
    <2>2. ~userClosed'
      BY <1>2 DEF IgnoresError, IsUserClosed
    <2>3. Situation'
      BY <2>1, <2>2 DEF DriverInv
    <2>4. Waiting'
      BY <2>1, <2>3 DEF Situation, Dialing, Up
    <2> QED BY <2>1, <2>4 DEF Fails
  <1> QED BY <1>1, <1>2

\* startConnect() begins a generation, unless the user closed the session.
LEMMA StartConnectClass ==
  ASSUME TypeOK, DriverInv', ~connected \/ userClosed, NEW gone,
         StartConnect(ops \ gone), UNCHANGED <<books, outboundQueue, userClosed>>,
         ~reconnectScheduled', NoAnswer(gone),
         \A g \in gone : g.res = "armed" => g.kind = "ping"
  PROVE  Works \/ Connects
  <1>1. CASE IsUserClosed
    <2>1. ops' = ops \ gone /\ UNCHANGED <<generation, connected, authenticated, net>>
      BY <1>1 DEF StartConnect
    <2>2. Swaps(gone, {})
      BY <2>1 DEF Swaps, net
    <2>3. Sends(outboundQueue, gone, {}, {}) /\ Plain(outboundQueue)
      BY <2>1, <2>2 DEF Sends, Plain
    <2> QED BY <2>3 DEF Works
  <1>2. CASE ~IsUserClosed
    <2>1. /\ ~connected' /\ ~authenticated' /\ generation' = generation + 1 /\ ~userClosed'
          /\ sock' = "none" /\ inbox' = <<>> /\ venueSubs' = {}
      BY <1>2 DEF StartConnect, IsUserClosed
    <2>2. generation \in Nat /\ generation' > 0
      BY <2>1 DEF TypeOK
    <2>3. Dialing'
      BY <2>1, <2>2 DEF DriverInv, Situation, Up, Waiting
    <2> QED BY <1>2, <2>1, <2>3 DEF Connects, IsUserClosed
  <1> QED BY <1>1, <1>2

\* Every completion handler does one of the three.
LEMMA HandleClass ==
  ASSUME TypeOK, TypeOK', DriverInv, DriverInv', SoleWriter, NEW o \in ops, Handle(o)
  PROVE  Works \/ Connects \/ Fails
  <1> DEFINE gone == {o}
             none == {}
             yes  == TRUE
             no   == FALSE
             wide == {o} \cup PingWaits
  <1>g. generation > 0 /\ UNCHANGED userClosed /\ generation \in Nat
    BY HandleFrame DEF TypeOK, DriverInv, ConnectsOnce
  <1>w. connected => /\ OneWrite(ops \ gone, writeInFlight)
                     /\ OneWrite(ops \ wide, writeInFlight)
    BY DEF SoleWriter, OneWrite
  <1>n. /\ \A h \in HeartbeatWait : h.kind = "ping" /\ h.res = "armed" /\ h.gen = generation
        /\ \A r \in Rearm : /\ r.kind = "read" /\ r.res = "armed" /\ r.gen = generation
                            /\ connected
    BY ArmedFields DEF HeartbeatWait, Rearm
  <1>p. /\ \A g \in PingWaits : g.kind = "ping"
        /\ NoAnswer(PingWaits)
    BY DEF PingWaits, NoAnswer, ReadyFrame, Ready
  \* An error, when o is not an answer.
  <1>e. ASSUME NEW inFlight, NEW failed, HandleError(ops \ {o}, inFlight, failed),
               o.res # "armed", NoAnswer(gone)
        PROVE  Works \/ Fails
    <2>1. HandleError((ops \ gone) \cup none, inFlight, failed)
      <3>1. (ops \ gone) \cup none = ops \ {o}
        OBVIOUS
      <3> QED BY <1>e, <3>1
    <2>2. \A g \in gone : g.res = "armed" => g.kind = "ping"
      BY <1>e
    <2>3. none = {}
      OBVIOUS
    <2> HIDE DEF gone, none
    <2> QED BY <1>e, <1>g, <2>1, <2>2, <2>3, HandleErrorClass
  \* Nothing but o goes and nothing starts.
  <1>d. ASSUME ops' = ops \ {o}, o.res # "armed" \/ o.gen # generation, NoAnswer(gone),
               UNCHANGED <<books, generation, connected, authenticated, outboundQueue, net>>
        PROVE  Works
    <2>1. Swaps({o}, {})
      BY <1>d DEF Swaps, net
    <2>2. Sends(outboundQueue, {o}, {}, {}) /\ Plain(outboundQueue)
      BY <1>d, <2>1 DEF Sends, Plain
    <2> QED BY <1>d, <2>2 DEF Works
  <1>1. CASE OnDial(o)
    <2>0. NoAnswer(gone) /\ o.res # "armed" /\ o \in Mine /\ o.kind \in DialKinds
      BY <1>1 DEF OnDial, Ready, NoAnswer, ReadyFrame, DialKinds, Mine
    <2>1. CASE o.res = "err"
      BY <1>1, <1>e, <2>0, <2>1 DEF OnDial
    <2>2. CASE o.res # "err"
      <3> DEFINE a == Armed(NextStage[o.kind], generation, NoPacket)
      <3>1. NextStage[o.kind] \in DialKinds
        BY <1>1 DEF OnDial, NextStage, DialKinds
      <3>2. a.kind \in DialKinds /\ a.res = "armed" /\ a.gen = generation
        BY <3>1, ArmedFields
      <3>3. ops' = (ops \ {o}) \cup {a} /\ UNCHANGED <<books, link, out, net>>
        BY <1>1, <2>2 DEF OnDial
      <3> HIDE DEF a
      <3>4. Swaps({o}, {a})
        BY <2>0, <3>2, <3>3 DEF Swaps, link, net, DialKinds
      <3>5. Sends(outboundQueue, {o}, {a}, {}) /\ Plain(outboundQueue)
        BY <3>3, <3>4 DEF Sends, Plain, out
      <3> QED BY <2>0, <3>5 DEF Works
    <2> QED BY <2>1, <2>2
  <1>2. CASE OnHandshake(o)
    <2>0. NoAnswer(gone) /\ o.res # "armed" /\ o \in Mine /\ o.kind = "upgrade"
      BY <1>2 DEF OnHandshake, Ready, NoAnswer, ReadyFrame, Mine
    <2>1. CASE o.res = "err"
      BY <1>2, <1>e, <2>0, <2>1 DEF OnHandshake
    <2>2. CASE o.res # "err" /\ IsUserClosed
      BY <1>2, <1>d, <2>0, <2>2 DEF OnHandshake, link, out
    <2>3. CASE o.res # "err" /\ ~IsUserClosed
      <3> DEFINE new == HeartbeatWait \cup {Armed("read", generation, NoPacket)}
                 f   == Request("auth", 0, {})
                 q   == Append(outboundQueue, f)
      <3>0. (ops \ {o}) \ PingWaits = ops \ wide
        OBVIOUS
      <3>1. /\ connected' = TRUE /\ UNCHANGED <<generation, authenticated, reconnectScheduled, net>>
            /\ \/ Pump(q, writeInFlight, yes, ops \ wide, new) /\ UNCHANGED books
               \/ FlushTopics(yes, authenticated, ops \ wide, new)
        BY <1>2, <2>3, <3>0 DEF OnHandshake
      <3>2. Up'
        BY <1>g, <2>3, <3>1 DEF DriverInv, Situation, Dialing, Waiting, IsUserClosed
      <3>3. Swaps(wide, new)
        <4>1. \A n \in new : /\ n.res = "armed" /\ n.gen = generation
                             /\ n.kind \in {"ping", "read"}
          BY <1>n, ArmedFields
        <4>2. \A g \in wide : g.res = "armed" => g.kind = "ping"
          BY <1>p, <2>0
        <4> HIDE DEF new, wide
        <4> QED BY <3>1, <3>2, <4>1, <4>2 DEF Swaps, net, DialKinds
      <3>4. OneWrite(ops \ wide, writeInFlight)
        <4>1. Mine = {o}
          BY <1>g, <2>0, <2>3 DEF DriverInv, Situation, Dialing, Up, Waiting, IsUserClosed, DialKinds
        <4> QED BY <2>0, <4>1 DEF OneWrite, Mine
      <3>5. NoAnswer(wide)
        BY <1>p, <2>0 DEF NoAnswer
      <3>6. f \in Packet /\ f.op = "auth"
        BY PacketTypes DEF Request
      <3> HIDE DEF wide, new, f
      <3>7. CASE Pump(q, writeInFlight, yes, ops \ wide, new) /\ UNCHANGED books
        <4>1. Plain(q)
          BY <3>1, <3>6, <3>7 DEF Plain
        <4> HIDE DEF q, yes
        <4>2. \E W : Sends(q, wide, new, W)
          BY <3>1, <3>3, <3>4, <3>7, PumpSends
        <4> QED BY <3>5, <4>1, <4>2 DEF Works
      <3>8. CASE FlushTopics(yes, authenticated, ops \ wide, new)
        <4>1. yes = connected' /\ authenticated = authenticated'
          BY <3>1
        <4> HIDE DEF yes
        <4> QED BY <3>3, <3>4, <3>5, <3>8, <4>1, FlushSends
      <3> QED BY <3>1, <3>7, <3>8
    <2> QED BY <2>1, <2>2, <2>3
  <1>3. CASE OnWrite(o)
    <2>0. NoAnswer(gone) /\ o.res # "armed" /\ o.kind = "write" /\ o.gen = generation
      BY <1>3 DEF OnWrite, Ready, NoAnswer, ReadyFrame
    <2>1. CASE o.res = "err"
      BY <1>3, <1>e, <2>0, <2>1 DEF OnWrite
    <2>2. CASE o.res # "err"
      <3>1. /\ Pump(outboundQueue, no, connected, ops \ gone, none)
            /\ UNCHANGED <<books, link, net>>
        BY <1>3, <2>2 DEF OnWrite
      <3>2. Swaps(gone, none)
        BY <2>0, <3>1 DEF Swaps, link, net
      <3>3. connected => connected' /\ OneWrite(ops \ gone, no)
        BY <2>0, <3>1 DEF SoleWriter, OneWrite, link
      <3>4. Plain(outboundQueue)
        BY <3>1 DEF Plain
      <3> HIDE DEF gone, none, no
      <3>5. \E W : Sends(outboundQueue, gone, none, W)
        BY <3>1, <3>2, <3>3, PumpSends
      <3> QED BY <2>0, <3>4, <3>5 DEF Works
    <2> QED BY <2>1, <2>2
  <1>4. CASE OnReadFailure(o)
    <2>1. NoAnswer(gone) /\ o.res # "armed"
      BY <1>4 DEF OnReadFailure, Ready, NoAnswer, ReadyFrame
    <2> QED BY <1>4, <1>e, <2>1 DEF OnReadFailure
  <1>5. CASE OnAuthRejected(o)
    <2> DEFINE new == IF IsUserClosed THEN Rearm ELSE {}
    <2>1. NoAnswer(gone) /\ (\A g \in gone : g.res = "armed" => g.kind = "ping")
      BY <1>5 DEF OnAuthRejected, Ready, NoAnswer, ReadyFrame
    <2>2. new = {} \/ (new = Rearm /\ IsUserClosed)
      OBVIOUS
    <2>3. HandleError((ops \ gone) \cup new, writeInFlight, no)
      BY <1>5 DEF OnAuthRejected
    <2> HIDE DEF gone, new, no
    <2> QED BY <1>g, <2>1, <2>2, <2>3, HandleErrorClass
  <1>6. CASE OnPong(o) \/ OnPush(o)
    <2>1. /\ NoAnswer(gone) /\ o.res # "armed" /\ Start(ops \ {o}, Rearm)
          /\ UNCHANGED <<books, link, out, net>>
      BY <1>6 DEF OnPong, OnPush, Ready, NoAnswer, ReadyFrame
    <2>2. Swaps({o}, Rearm)
      BY <1>n, <2>1 DEF Swaps, link, net, DialKinds
    <2>3. Sends(outboundQueue, {o}, Rearm, {}) /\ Plain(outboundQueue)
      BY <2>1, <2>2 DEF Sends, Plain, out, Start
    <2> QED BY <2>1, <2>3 DEF Works
  <1>7. CASE OnSubscribeAck(o)
    <2>1. /\ o.res # "armed" /\ Start(ops \ {o}, Rearm) /\ UNCHANGED <<link, out, net>>
          /\ Settles(o)
      BY <1>7 DEF OnSubscribeAck, Ready, ReadyFrame, Settles
    <2>2. Swaps({o}, Rearm)
      BY <1>n, <2>1 DEF Swaps, link, net, DialKinds
    <2>3. Sends(outboundQueue, {o}, Rearm, {})
      BY <2>1, <2>2 DEF Sends, out, Start
    <2> QED BY <2>1, <2>3 DEF Works
  <1>8. CASE OnAuthAck(o)
    <2>1. /\ NoAnswer(gone) /\ o.res # "armed" /\ FlushTopics(connected, yes, ops \ gone, Rearm)
          /\ authenticated' = TRUE /\ UNCHANGED <<generation, connected, net>>
      BY <1>8 DEF OnAuthAck, Ready, NoAnswer, ReadyFrame
    <2>2. Swaps(gone, Rearm)
      BY <1>n, <2>1 DEF Swaps, net, DialKinds
    <2>3. yes = authenticated' /\ connected = connected'
      BY <2>1
    <2> HIDE DEF gone, yes
    <2> QED BY <1>w, <2>1, <2>2, <2>3, FlushSends
  <1>9. CASE OnPingTimer(o)
    <2>0. NoAnswer(gone) /\ o.res # "armed"
      BY <1>9 DEF OnPingTimer, Ready, NoAnswer, ReadyFrame
    <2> DEFINE f == Request("ping", 0, {})
               q == Append(outboundQueue, f)
    <2>1. (ops \ {o}) \ PingWaits = ops \ wide
      OBVIOUS
    <2>2. NoAnswer(wide) /\ (\A g \in wide : g.res = "armed" => g.kind = "ping")
      BY <1>p, <2>0 DEF NoAnswer
    <2>3. CASE ops' = ops \ {o} /\ UNCHANGED <<books, link, out, net>>
      BY <1>d, <2>0, <2>3 DEF link, out
    <2>4. CASE Start(ops \ wide, HeartbeatWait) /\ UNCHANGED <<books, link, out, net>>
      <3> HIDE DEF wide
      <3>1. Swaps(wide, HeartbeatWait)
        BY <1>n, <2>2, <2>4 DEF Swaps, link, net, DialKinds
      <3>2. Sends(outboundQueue, wide, HeartbeatWait, {}) /\ Plain(outboundQueue)
        BY <2>4, <3>1 DEF Sends, Plain, out, Start
      <3> QED BY <2>2, <3>2 DEF Works
    <2>5. CASE HandleError(ops \ {o}, writeInFlight, FALSE)
      BY <1>e, <2>0, <2>5
    <2>6. CASE /\ connected /\ Pump(q, writeInFlight, connected, ops \ wide, HeartbeatWait)
               /\ UNCHANGED <<books, link, net>>
      <3>1. f \in Packet /\ f.op = "ping"
        BY PacketTypes DEF Request
      <3> HIDE DEF f
      <3>2. Plain(q)
        BY <2>6, <3>1 DEF Plain, link
      <3> HIDE DEF q
      <3>3. Swaps(wide, HeartbeatWait)
        <4> HIDE DEF wide
        <4> QED BY <1>n, <2>2, <2>6 DEF Swaps, link, net, DialKinds
      <3> HIDE DEF wide
      <3>4. \E W : Sends(q, wide, HeartbeatWait, W)
        BY <1>w, <2>6, <3>3, PumpSends DEF link
      <3> QED BY <2>2, <3>2, <3>4 DEF Works
    <2> QED BY <1>9, <2>1, <2>3, <2>4, <2>5, <2>6 DEF OnPingTimer
  <1>10. CASE OnReconnectTimer(o)
    <2>0. NoAnswer(gone) /\ o.res # "armed" /\ o \in Mine /\ o.kind = "reconnect"
      BY <1>10 DEF OnReconnectTimer, Ready, NoAnswer, ReadyFrame, Mine
    <2>1. ~connected \/ userClosed
      BY <1>g, <2>0 DEF DriverInv, Situation, Dialing, Up, Waiting, DialKinds
    <2>2. CASE o.res = "err"
      BY <1>10, <1>d, <2>0, <2>2 DEF OnReconnectTimer
    <2>3. CASE o.res # "err"
      <3>1. /\ StartConnect(ops \ gone) /\ UNCHANGED <<books, outboundQueue, userClosed>>
            /\ ~reconnectScheduled'
        BY <1>10, <2>3 DEF OnReconnectTimer
      <3>2. \A g \in gone : g.res = "armed" => g.kind = "ping"
        BY <2>0
      <3> HIDE DEF gone
      <3> QED BY <2>0, <2>1, <3>1, <3>2, StartConnectClass
    <2> QED BY <2>2, <2>3
  <1>11. CASE OnClosed(o)
    BY <1>11, <1>d DEF OnClosed, Ready, NoAnswer, ReadyFrame, link, out
  <1>12. CASE OnStale(o)
    BY <1>12, <1>d DEF OnStale, Ready, NoAnswer, ReadyFrame, link, out
  <1> QED BY <1>1, <1>2, <1>3, <1>4, <1>5, <1>6, <1>7, <1>8, <1>9, <1>10, <1>11, <1>12 DEF Handle

\* So does every posted job but the user's close.
LEMMA JobClass ==
  ASSUME TypeOK, TypeOK', DriverInv, DriverInv', SoleWriter, generation = 0 => ~connected, RunJob
  PROVE  Works \/ Connects \/ JobClose
  <1> DEFINE none == {}
  <1>t. generation \in Nat /\ posted \in Seq(Job)
    BY DEF TypeOK
  <1>n. NoAnswer(none) /\ (\A g \in none : g.res = "armed" => g.kind = "ping")
        /\ ops = ops \ none
    BY DEF NoAnswer
  <1>w. connected => OneWrite(ops \ none, writeInFlight)
    BY DEF SoleWriter
  <1>1. CASE JobConnect
    <2>0. posted # <<>> /\ Head(posted).kind = "connect"
      BY <1>1 DEF JobConnect, NextJob
    <2>1. posted[1].kind = "connect" /\ Len(posted) > 0
      BY <1>t, <2>0
    <2>2. generation = 0 /\ ~reconnectScheduled
      BY <1>t, <2>1 DEF DriverInv, ConnectsOnce
    <2>3. /\ StartConnect(ops \ none) /\ UNCHANGED <<books, outboundQueue, userClosed>>
          /\ ~reconnectScheduled'
      BY <1>1, <1>n, <2>2 DEF JobConnect
    <2> HIDE DEF none
    <2> QED BY <1>n, <2>2, <2>3, StartConnectClass
  <1>2. CASE JobFlush
    <2>1. /\ FlushTopics(connected, authenticated, ops \ none, none)
          /\ UNCHANGED <<link, net>>
      BY <1>2, <1>n DEF JobFlush
    <2>2. Swaps(none, none) /\ connected = connected' /\ authenticated = authenticated'
      BY <2>1 DEF Swaps, link, net
    <2> HIDE DEF none
    <2> QED BY <1>n, <1>w, <2>1, <2>2, FlushSends
  <1>3. CASE JobUnsubscribe
    <2> DEFINE f == Request("unsubscribe", 0, Head(posted).topics)
               q == Append(outboundQueue, f)
    <2>1. /\ UNCHANGED <<books, link, net>>
          /\ posted # <<>> /\ Head(posted).kind = "unsubscribe"
      BY <1>3 DEF JobUnsubscribe, NextJob
    <2>2. Swaps(none, none)
      BY <2>1 DEF Swaps, link, net
    <2>3. CASE connected
      <3>1. Head(posted) \in Job
        BY <1>t, <2>1, QueueTypes
      <3>2. f \in Packet /\ f.op = "unsubscribe" /\ f.topics = Head(posted).topics
        BY <3>1, PacketTypes DEF Request, Job
      <3>3. Pump(q, writeInFlight, connected, ops \ none, none)
        BY <1>3, <1>n, <2>3 DEF JobUnsubscribe
      <3> HIDE DEF f
      <3>4. Plain(q)
        BY <2>1, <2>3, <3>2 DEF Plain, link
      <3> HIDE DEF q, none
      <3>5. \E W : Sends(q, none, none, W)
        BY <1>w, <2>1, <2>2, <3>3, PumpSends DEF link
      <3> QED BY <1>n, <3>4, <3>5 DEF Works
    <2>4. CASE ~connected
      <3>1. UNCHANGED <<out, ops>>
        BY <1>3, <2>4 DEF JobUnsubscribe
      <3>2. Sends(outboundQueue, none, none, {}) /\ Plain(outboundQueue)
        BY <2>1, <2>2, <3>1 DEF Sends, Plain, out
      <3> QED BY <1>n, <3>2 DEF Works
    <2> QED BY <2>3, <2>4
  <1> QED BY <1>1, <1>2, <1>3 DEF RunJob

-----------------------------------------------------------------------------
(* A connection that is not up, or not authenticated *)

Frames(s) == {s[i] : i \in 1 .. Len(s)}

\* What a session that is not usable does not have.
DownIsEmpty ==
  /\ generation = 0 => ~connected
  /\ ~connected => outboundQueue = <<>>
  /\ ~usable => subscriptions = NoTopics /\ inflightSubscribes = {}

\* Before its handshake was handled nobody reads or writes on a connection, and the
\* venue has answered no subscribe on it.
Unborn == ~connected /\ (sock = "open" \/ \E o \in Mine : o.kind \in DialKinds)
UnbornIsQuiet ==
  /\ connected => \A o \in Mine : o.kind \notin DialKinds
  /\ Unborn => /\ \A o \in Mine : o.kind \notin {"read", "write"}
               /\ \A f \in Frames(inbox) : f.op # "subscribe"

\* Nor is a subscribe queued or written before the session is authenticated.
NoEarlySubscribe ==
  /\ AuthRequired /\ ~authenticated => \A f \in Frames(outboundQueue) : f.op # "subscribe"
  /\ SubscribesOnlyAuthenticated

LinkInv == DownIsEmpty /\ UnbornIsQuiet /\ NoEarlySubscribe

\* The frames of a queue after an append and after its head left.
LEMMA FramesOf ==
  ASSUME NEW S, NEW s \in Seq(S)
  PROVE  /\ Frames(<<>>) = {}
         /\ \A x \in S : Frames(Append(s, x)) = Frames(s) \cup {x}
         /\ s # <<>> => Frames(s) = {Head(s)} \cup Frames(Tail(s))
  <1>1. Frames(<<>>) = {}
    BY DEF Frames
  <1>2. ASSUME NEW x \in S PROVE Frames(Append(s, x)) = Frames(s) \cup {x}
    <2>1. /\ Len(Append(s, x)) = Len(s) + 1 /\ Append(s, x)[Len(s) + 1] = x
          /\ \A i \in 1 .. Len(s) : Append(s, x)[i] = s[i]
          /\ Len(s) \in Nat
      BY AppendProperties
    <2>2. \A y \in Frames(Append(s, x)) : y \in Frames(s) \cup {x}
      BY <2>1 DEF Frames
    <2>3. \A y \in Frames(s) \cup {x} : y \in Frames(Append(s, x))
      <3>1. ASSUME NEW i \in 1 .. Len(s) PROVE s[i] \in Frames(Append(s, x))
        <4>1. i \in 1 .. Len(Append(s, x)) /\ Append(s, x)[i] = s[i]
          BY <2>1
        <4> QED BY <4>1 DEF Frames
      <3>2. x \in Frames(Append(s, x))
        <4>1. Len(s) + 1 \in 1 .. Len(Append(s, x))
          BY <2>1
        <4> QED BY <2>1, <4>1 DEF Frames
      <3> QED BY <3>1, <3>2 DEF Frames
    <2> QED BY <2>2, <2>3
  <1>3. ASSUME s # <<>> PROVE Frames(s) = {Head(s)} \cup Frames(Tail(s))
    <2>1. /\ Len(s) \in Nat /\ Len(s) >= 1 /\ Head(s) = s[1] /\ Len(Tail(s)) = Len(s) - 1
          /\ \A i \in 1 .. Len(Tail(s)) : Tail(s)[i] = s[i + 1]
      BY <1>3
    <2>2. ASSUME NEW i \in 1 .. Len(s) PROVE s[i] \in {Head(s)} \cup Frames(Tail(s))
      <3>1. CASE i # 1
        <4>1. i - 1 \in 1 .. Len(Tail(s)) /\ Tail(s)[i - 1] = s[i]
          BY <2>1, <3>1
        <4> QED BY <4>1 DEF Frames
      <3> QED BY <2>1, <3>1
    <2>3. ASSUME NEW i \in 1 .. Len(Tail(s)) PROVE Tail(s)[i] \in Frames(s)
      <3>1. i + 1 \in 1 .. Len(s) /\ Tail(s)[i] = s[i + 1]
        BY <2>1
      <3> QED BY <3>1 DEF Frames
    <2>4. Head(s) \in Frames(s)
      BY <2>1 DEF Frames
    <2> QED BY <2>2, <2>3, <2>4 DEF Frames
  <1> QED BY <1>1, <1>2, <1>3

\* What is written or stays queued was in the queue.
LEMMA SendsFrames ==
  ASSUME NEW q \in Seq(Packet), NEW gone, NEW new, NEW W, Sends(q, gone, new, W)
  PROVE  /\ Frames(outboundQueue') \subseteq Frames(q)
         /\ \A w \in W : /\ w.kind = "write" /\ w.res = "armed" /\ w.gen = generation
                         /\ w.pkt \in Frames(q)
         /\ ~connected' => W = {} /\ outboundQueue' = q
  <1>1. CASE W = {} /\ outboundQueue' = q
    BY <1>1
  <1>2. CASE /\ q # <<>> /\ outboundQueue' = Tail(q) /\ connected'
             /\ W = {Armed("write", generation, Head(q))}
    <2>1. Frames(q) = {Head(q)} \cup Frames(Tail(q))
      BY <1>2, FramesOf
    <2>2. \A w \in W : /\ w.kind = "write" /\ w.res = "armed" /\ w.gen = generation
                       /\ w.pkt = Head(q)
      BY <1>2 DEF Armed
    <2> QED BY <1>2, <2>1, <2>2
  <1> QED BY <1>1, <1>2 DEF Sends

\* The queue a handler pumps, by what it did before.
LEMMA PlainFrames ==
  ASSUME TypeOK, NEW q, Plain(q)
  PROVE  /\ q \in Seq(Packet)
         /\ Frames(outboundQueue) \subseteq Frames(q)
         /\ \A f \in Frames(q) : f \in Frames(outboundQueue) \/ f.op # "subscribe"
         /\ ~connected' => q = outboundQueue
  <1>0. outboundQueue \in Seq(Packet)
    BY DEF TypeOK
  <1>1. CASE q = outboundQueue
    BY <1>0, <1>1
  <1>2. ASSUME NEW f \in Packet, q = Append(outboundQueue, f), f.op # "subscribe", connected'
        PROVE  /\ q \in Seq(Packet)
               /\ Frames(q) = Frames(outboundQueue) \cup {f}
    BY <1>0, <1>2, FramesOf, QueueTypes
  <1> QED BY <1>1, <1>2 DEF Plain

\* The queue that flushTopics() pumps has one more frame.
LEMMA FlushesFrames ==
  ASSUME TypeOK, NEW q, Flushes(q)
  PROVE  /\ q \in Seq(Packet)
         /\ Frames(q) = Frames(outboundQueue)
                          \cup {Request("subscribe", reqIdCounter + 1, Listed(pendingTopics))}
  <1> DEFINE f == Request("subscribe", reqIdCounter + 1, Listed(pendingTopics))
  <1>1. f \in Packet
    BY PacketTypes DEF TypeOK, Listed
  <1>2. outboundQueue \in Seq(Packet) /\ q = Append(outboundQueue, f)
    BY DEF TypeOK, Flushes
  <1> HIDE DEF f
  <1>3. q \in Seq(Packet) /\ Frames(q) = Frames(outboundQueue) \cup {f}
    BY <1>1, <1>2, FramesOf, QueueTypes
  <1> QED BY <1>3 DEF f

\* A session that is down has nothing to say after any step of the strand.
LEMMA WorksLink ==
  ASSUME TypeOK, DriverInv', LinkInv, Works
  PROVE  LinkInv'
  <1>0. PICK gone, new, W, q :
          /\ Sends(q, gone, new, W)
          /\ \/ NoAnswer(gone) /\ (Plain(q) \/ Flushes(q))
             \/ \E o \in ops : gone = {o} /\ Settles(o) /\ W = {} /\ q = outboundQueue
    BY DEF Works
  <1>s. /\ UNCHANGED <<generation, inbox, venueSubs>> /\ sock' \in {sock, "closed"}
        /\ (connected => connected') /\ (authenticated => authenticated')
        /\ connected' => connected \/ Up'
        /\ ops' = ((ops \ gone) \cup new) \cup W
        /\ \A n \in new : /\ n.res = "armed" /\ n.gen = generation /\ n.kind # "write"
                          /\ n.kind = "read" => connected'
                          /\ n.kind \in DialKinds => \E g \in Mine : g.kind \in DialKinds
    BY <1>0 DEF Sends, Swaps
  <1>q. q \in Seq(Packet)
    BY <1>0, PlainFrames, FlushesFrames DEF TypeOK
  <1>f. /\ Frames(outboundQueue') \subseteq Frames(q)
        /\ \A w \in W : /\ w.kind = "write" /\ w.res = "armed" /\ w.gen = generation
                        /\ w.pkt \in Frames(q)
        /\ ~connected' => W = {} /\ outboundQueue' = q
    BY <1>0, <1>q, SendsFrames
  <1>1. DownIsEmpty'
    <2>1. generation' = 0 => ~connected'
      BY <1>s DEF LinkInv, DownIsEmpty, DriverInv, ConnectsOnce, Up, Mine
    <2>2. ~connected' => outboundQueue' = <<>>
      <3>1. ~connected' => q = outboundQueue
        BY <1>0, PlainFrames DEF Flushes, MayFlush
      <3> QED BY <1>f, <1>s, <3>1 DEF LinkInv, DownIsEmpty
    <2>3. ~usable' => ~usable
      BY <1>s DEF usable
    <2>4. ASSUME ~usable' PROVE subscriptions' = NoTopics /\ inflightSubscribes' = {}
      <3>1. subscriptions = NoTopics /\ inflightSubscribes = {}
        BY <2>3, <2>4 DEF LinkInv, DownIsEmpty
      <3>2. ~Flushes(q)
        BY <2>4 DEF Flushes, MayFlush, usable
      <3>3. CASE Plain(q)
        BY <3>1, <3>3 DEF Plain, books
      <3>4. ASSUME NEW o, Settles(o) PROVE subscriptions' = NoTopics /\ inflightSubscribes' = {}
        BY <3>1, <3>4 DEF Settles, Attributed
      <3> QED BY <1>0, <3>2, <3>3, <3>4
    <2> QED BY <2>1, <2>2, <2>4 DEF DownIsEmpty
  <1>2. UnbornIsQuiet'
    <2>1. ASSUME connected' PROVE \A o \in Mine' : o.kind \notin DialKinds
      <3>1. CASE connected
        BY <1>f, <1>s, <2>1, <3>1 DEF LinkInv, UnbornIsQuiet, Mine, DialKinds
      <3>2. CASE Up'
        BY <3>2 DEF Up, DialKinds
      <3> QED BY <1>s, <2>1, <3>1, <3>2
    <2>2. ASSUME Unborn' PROVE Unborn /\ W = {} /\ ~connected'
      BY <1>f, <1>s, <2>2 DEF Unborn, Mine
    <2>3. ASSUME Unborn' PROVE \A o \in Mine' : o.kind \notin {"read", "write"}
      BY <1>s, <2>2, <2>3 DEF LinkInv, UnbornIsQuiet, Mine
    <2>4. ASSUME Unborn' PROVE \A f \in Frames(inbox') : f.op # "subscribe"
      BY <1>s, <2>2, <2>4 DEF LinkInv, UnbornIsQuiet
    <2> QED BY <2>1, <2>3, <2>4 DEF UnbornIsQuiet, Frames
  <1>3. ASSUME AuthRequired, ~authenticated' PROVE \A f \in Frames(q) : f.op # "subscribe"
    <2>1. \A f \in Frames(outboundQueue) : f.op # "subscribe"
      BY <1>3, <1>s DEF LinkInv, NoEarlySubscribe
    <2> QED BY <1>0, <1>3, <2>1, PlainFrames DEF Flushes, MayFlush
  <1>4. NoEarlySubscribe'
    <2>1. ASSUME AuthRequired, ~authenticated' PROVE \A f \in Frames(outboundQueue') : f.op # "subscribe"
      BY <1>3, <1>f, <2>1
    <2>2. SubscribesOnlyAuthenticated'
      <3> SUFFICES ASSUME AuthRequired, ~authenticated', NEW o \in ops',
                          o.kind = "write", o.gen = generation, o.res = "armed",
                          o.pkt.op = "subscribe", sock' = "open"
                   PROVE  FALSE
        BY <1>s DEF SubscribesOnlyAuthenticated, ArmedNow
      <3>1. o \in ops
        BY <1>3, <1>f, <1>s
      <3> QED BY <1>s, <3>1 DEF LinkInv, NoEarlySubscribe, SubscribesOnlyAuthenticated, ArmedNow
    <2> QED BY <2>1, <2>2 DEF NoEarlySubscribe, Frames
  <1> QED BY <1>1, <1>2, <1>4 DEF LinkInv

\* Nor after the user's close.
LEMMA CloseLink ==
  ASSUME LinkInv, JobClose
  PROVE  LinkInv'
  <1>0. UNCHANGED <<books, link, out, inbox>>
    BY DEF JobClose
  <1>1. CASE IsUserClosed
    <2>1. UNCHANGED <<books, link, out, inbox, ops, sock>>
      BY <1>0, <1>1 DEF JobClose
    <2> QED BY <2>1 DEF LinkInv, DownIsEmpty, UnbornIsQuiet, Unborn, NoEarlySubscribe, usable, Mine,
                        SubscribesOnlyAuthenticated, ArmedNow, books, link, out, Frames
  <1>2. CASE ~IsUserClosed
    <2> DEFINE f(o) == IF o.res = "armed" /\ o.kind \in DialKinds \cup {"reconnect"}
                       THEN Finished(o, "err", NoPacket) ELSE o
               rest == {f(o) : o \in ops \ PingWaits}
               c == Armed("close", generation, NoPacket)
    <2>1. (ops' = rest \cup {c} \/ ops' = rest \cup {}) /\ sock' # "open"
      BY <1>2 DEF JobClose, Start
    <2>2. c.kind = "close" /\ \A o : f(o).kind = o.kind /\ f(o).gen = o.gen
      BY ArmedFields DEF Finished
    <2> HIDE DEF f, c
    <2>3. \A p \in ops' : p.kind = "close" \/ \E o \in ops : p.kind = o.kind /\ p.gen = o.gen
      BY <2>1, <2>2
    <2>4. DownIsEmpty'
      BY <1>0 DEF LinkInv, DownIsEmpty, usable, books, link, out
    <2>5. UnbornIsQuiet'
      <3>1. \A p \in Mine' : p.kind = "close" \/ \E o \in Mine : p.kind = o.kind
        BY <1>0, <2>3 DEF Mine, link
      <3>2. Unborn' => Unborn
        BY <1>0, <2>1, <3>1 DEF Unborn, link, DialKinds
      <3> QED BY <1>0, <3>1, <3>2 DEF LinkInv, UnbornIsQuiet, link, DialKinds, Frames
    <2>6. NoEarlySubscribe'
      BY <1>0, <2>1 DEF LinkInv, NoEarlySubscribe, SubscribesOnlyAuthenticated, link, out, Frames
    <2> QED BY <2>4, <2>5, <2>6 DEF LinkInv
  <1> QED BY <1>1, <1>2

\* Nor after an operation finished.
LEMMA CompletesLink ==
  ASSUME TypeOK, LinkInv, NEW o \in ops, Completes(o)
  PROVE  LinkInv'
  <1>1. UNCHANGED <<books, link, out>>
    BY DEF Completes, DialSucceeds, DialFails, ReadArrives, WriteSent, WriteLost,
           StreamFails, PingFires, ReconnectFires, Idle
  <1>2. o \in Mine
    BY CompletesOps DEF Mine
  <1>3. PICK n : ops' = (ops \ {o}) \cup {n} /\ n.kind = o.kind /\ n.gen = o.gen /\ n.res # "armed"
    <2>1. PICK res, pkt : Finish(o, res, pkt) /\ res # "armed"
      BY DEF Completes, DialSucceeds, DialFails, ReadArrives, WriteSent, WriteLost,
             StreamFails, PingFires, ReconnectFires
    <2> DEFINE m == Finished(o, res, pkt)
    <2>2. ops' = (ops \ {o}) \cup {m} /\ m.kind = o.kind /\ m.gen = o.gen /\ m.res # "armed"
      BY <2>1 DEF Finish, Finished
    <2> HIDE DEF m
    <2> QED BY <2>2
  <1>4. sock' = sock \/ (sock' = "open" /\ o.kind \in DialKinds)
    BY DEF Completes, DialSucceeds, DialFails, ReadArrives, WriteSent, WriteLost,
           StreamFails, PingFires, ReconnectFires, net
  <1>5. inbox' = inbox \/ o.kind = "write" \/ (o.kind = "read" /\ sock' = sock)
    BY DEF Completes, DialSucceeds, DialFails, ReadArrives, WriteSent, WriteLost,
           StreamFails, PingFires, ReconnectFires, ArmedNow, net
  <1>6. DownIsEmpty'
    BY <1>1 DEF LinkInv, DownIsEmpty, usable, books, link, out
  <1>7. UnbornIsQuiet'
    <2>1. Mine' = (Mine \ {o}) \cup {n}
      BY <1>1, <1>2, <1>3 DEF Mine, link
    <2>2. Unborn' => Unborn
      BY <1>1, <1>2, <1>3, <1>4, <2>1 DEF Unborn, link
    <2>3. Unborn => inbox' = inbox
      BY <1>2, <1>5 DEF LinkInv, UnbornIsQuiet
    <2> QED BY <1>1, <1>2, <1>3, <2>1, <2>2, <2>3 DEF LinkInv, UnbornIsQuiet, link, Frames
  <1>8. NoEarlySubscribe'
    <2>1. SubscribesOnlyAuthenticated'
      <3> SUFFICES ASSUME NEW p \in ops', p.kind = "write", p.gen = generation, p.res = "armed",
                          p.pkt.op = "subscribe", sock' = "open", AuthRequired
                   PROVE  authenticated'
        BY <1>1 DEF SubscribesOnlyAuthenticated, ArmedNow, link
      <3>1. p \in ops /\ p \in Mine
        BY <1>3 DEF Mine
      <3>2. CASE sock = "open"
        BY <1>1, <3>1, <3>2 DEF LinkInv, NoEarlySubscribe, SubscribesOnlyAuthenticated, ArmedNow, link
      <3>3. CASE o.kind \in DialKinds
        BY <1>2, <3>1, <3>3 DEF LinkInv, UnbornIsQuiet, Unborn
      <3> QED BY <1>4, <3>2, <3>3
    <2> QED BY <1>1, <2>1 DEF LinkInv, NoEarlySubscribe, link, out, Frames
  <1> QED BY <1>6, <1>7, <1>8 DEF LinkInv

\* What holds of a connection that is down, or not authenticated, holds after every step.
LEMMA NextLink ==
  ASSUME TypeOK, TypeOK', DriverInv, DriverInv', SoleWriter, LinkInv, [Next]_vars
  PROVE  LinkInv'
  <1> USE DEF LinkInv
  <1>1. CASE Connects
    <2>1. Mine' # {} /\ \A o \in Mine' : o.kind \in DialKinds
      BY <1>1 DEF Connects, Dialing
    <2>2. DownIsEmpty'
      BY <1>1 DEF Connects, DownIsEmpty, usable, books
    <2>3. UnbornIsQuiet'
      <3>1. Frames(inbox') = {}
        BY <1>1 DEF Connects, Frames
      <3> QED BY <1>1, <2>1, <3>1 DEF Connects, UnbornIsQuiet, DialKinds, Frames
    <2>4. NoEarlySubscribe'
      <3>1. outboundQueue' = <<>> /\ Frames(<<>>) = {}
        BY <1>1 DEF Connects, DownIsEmpty, Frames
      <3> QED BY <1>1, <3>1 DEF Connects, NoEarlySubscribe, SubscribesOnlyAuthenticated, Frames
    <2> QED BY <2>2, <2>3, <2>4
  <1>2. CASE Fails
    <2>1. \A o \in Mine' : o.kind \notin DialKinds
      BY <1>2 DEF Fails, Waiting, DialKinds
    <2>2. DownIsEmpty'
      BY <1>2 DEF Fails, DownIsEmpty
    <2>3. UnbornIsQuiet'
      BY <1>2, <2>1 DEF Fails, UnbornIsQuiet, Unborn
    <2>4. NoEarlySubscribe'
      BY <1>2 DEF Fails, NoEarlySubscribe, SubscribesOnlyAuthenticated, Frames
    <2> QED BY <2>2, <2>3, <2>4
  <1>3. CASE RunJob
    <2>1. generation = 0 => ~connected
      BY DEF DownIsEmpty
    <2> QED BY <1>1, <1>3, <2>1, JobClass, WorksLink, CloseLink
  <1>4. ASSUME NEW o \in ops, Handle(o) PROVE LinkInv'
    BY <1>1, <1>2, <1>4, HandleClass, WorksLink
  <1>5. ASSUME NEW o \in ops, Completes(o) PROVE LinkInv'
    BY <1>5, CompletesLink
  <1>6. CASE UserCalls
    <2>1. UNCHANGED <<inflightSubscribes, link, out, net, ops>>
      BY <1>6 DEF UserCalls, Subscribe, Unsubscribe, Close, books
    <2>2. subscriptions = NoTopics => subscriptions' = NoTopics
      <3>1. ASSUME NEW t \in Unsubscribable, Unsubscribe(t), subscriptions = NoTopics
            PROVE  subscriptions' = NoTopics
        <4>1. t \in Topics
          BY ConstantsAssumption
        <4>2. subscriptions[t] = 0
          BY <3>1, <4>1 DEF NoTopics
        <4> QED BY <3>1, <4>2 DEF Unsubscribe, RemoveTopic
      <3> QED BY <1>6, <3>1 DEF UserCalls, Subscribe, Close, books
    <2> QED BY <2>1, <2>2 DEF DownIsEmpty, UnbornIsQuiet, Unborn, NoEarlySubscribe, usable, Mine,
                        SubscribesOnlyAuthenticated, ArmedNow, link, out, net, Frames
  <1>7. CASE VenuePushes \/ VenueBabbles
    <2>1. UNCHANGED <<books, link, out, ops, sock>>
      BY <1>7 DEF VenuePushes, VenueBabbles, Idle
    <2>2. \A f \in Frames(inbox') : f.op # "subscribe"
      BY <1>7 DEF VenuePushes, VenueBabbles, Reply, Frames
    <2> QED BY <2>1, <2>2 DEF DownIsEmpty, UnbornIsQuiet, Unborn, NoEarlySubscribe, usable, Mine,
                        SubscribesOnlyAuthenticated, ArmedNow, books, link, out, Frames
  <1>8. CASE VenueDies
    <2>1. UNCHANGED <<books, link, out, ops, inbox>> /\ sock' = "dead"
      BY <1>8 DEF VenueDies, Idle
    <2> QED BY <2>1 DEF DownIsEmpty, UnbornIsQuiet, Unborn, NoEarlySubscribe, usable, Mine,
                        SubscribesOnlyAuthenticated, ArmedNow, books, link, out, Frames
  <1>9. CASE UNCHANGED vars
    BY <1>9 DEF vars, DownIsEmpty, UnbornIsQuiet, Unborn, NoEarlySubscribe, usable, Mine,
                SubscribesOnlyAuthenticated, ArmedNow, books, link, out, net, Frames
  <1> QED BY <1>3, <1>4, <1>5, <1>6, <1>7, <1>8, <1>9 DEF Next, UserCalls

\* The inductive invariant about a connection that is down, or not authenticated.
THEOREM LinkInvariant == Spec => []LinkInv
  <1>1. Init => LinkInv
    BY DEF Init, LinkInv, DownIsEmpty, UnbornIsQuiet, Unborn, NoEarlySubscribe, Mine,
           SubscribesOnlyAuthenticated, Frames
  <1>2. ASSUME TypeOK, TypeOK', DriverInv, DriverInv', SoleWriter, LinkInv, [Next]_vars
        PROVE  LinkInv'
    BY <1>2, NextLink
  <1> QED BY <1>1, <1>2, TypeCorrect, DriverInvariant, WriterIsAlone, PTL DEF Spec

\* A session with credentials never has a subscribe on its way to the venue on a
\* connection that is not authenticated, whatever is lost, late or repeated: neither a
\* frame queued for the last connection nor an ack that was handled late gets there.
THEOREM SubscribesAfterAuth == Spec => []SubscribesOnlyAuthenticated
  <1>1. LinkInv => SubscribesOnlyAuthenticated
    BY DEF LinkInv, NoEarlySubscribe
  <1> QED BY <1>1, LinkInvariant, PTL

-----------------------------------------------------------------------------
(* The subscribe ops in flight *)

\* What the lemmas below assume of a state.
Sound == TypeOK /\ DriverInv /\ SoleWriter /\ LinkInv

\* Every state is one.
LEMMA SoundAlways == Spec => []Sound
  BY TypeCorrect, DriverInvariant, WriterIsAlone, LinkInvariant, PTL DEF Sound

\* A step of the session: of the strand, of an asynchronous operation, of a user, or of
\* the venue.
LEMMA NextClass ==
  ASSUME Sound, Sound', [Next]_vars
  PROVE  \/ Works \/ Connects \/ Fails \/ JobClose \/ UserCalls
         \/ \E o \in ops : Completes(o)
         \/ VenuePushes \/ VenueBabbles \/ VenueDies \/ UNCHANGED vars
  <1>1. generation = 0 => ~connected
    BY DEF Sound, LinkInv, DownIsEmpty
  <1>2. RunJob => Works \/ Connects \/ JobClose
    BY <1>1, JobClass DEF Sound
  <1>3. ASSUME NEW o \in ops, Handle(o) PROVE Works \/ Connects \/ Fails
    BY <1>3, HandleClass DEF Sound
  <1> QED BY <1>2, <1>3 DEF Next, UserCalls

\* The steps of the outside world and the user's close leave the books alone.
LEMMA WorldBooks ==
  ASSUME \/ JobClose \/ VenuePushes \/ VenueBabbles \/ VenueDies \/ UNCHANGED vars
         \/ \E o \in ops : Completes(o)
  PROVE  UNCHANGED <<books, link>>
  <1>1. CASE JobClose
    BY <1>1 DEF JobClose
  <1>2. CASE VenuePushes \/ VenueBabbles \/ VenueDies \/ UNCHANGED vars
    BY <1>2 DEF VenuePushes, VenueBabbles, VenueDies, vars, Idle
  <1>3. CASE \E o \in ops : Completes(o)
    BY <1>3 DEF Completes, DialSucceeds, DialFails, ReadArrives, WriteSent, WriteLost,
                StreamFails, PingFires, ReconnectFires, Idle
  <1> QED BY <1>1, <1>2, <1>3

\* The ops in flight have different ids, all handed out by the counter.
IdsInv ==
  /\ \A op \in inflightSubscribes : op.id \in 1 .. reqIdCounter
  /\ \A a, b \in inflightSubscribes : a.id = b.id => a = b

\* No step hands out an id twice.
LEMMA NextIds ==
  ASSUME Sound, Sound', IdsInv, [Next]_vars
  PROVE  IdsInv'
  <1>0. reqIdCounter \in Nat /\ \A op \in inflightSubscribes : op.id \in Nat
    BY DEF Sound, TypeOK
  <1>1. CASE inflightSubscribes' \subseteq inflightSubscribes /\ UNCHANGED reqIdCounter
    BY <1>1 DEF IdsInv
  <1>2. ASSUME NEW q, Flushes(q) PROVE IdsInv'
    <2> DEFINE new == [id |-> reqIdCounter + 1, args |-> pendingTopics]
    <2>1. /\ inflightSubscribes' = inflightSubscribes \cup {new}
          /\ reqIdCounter' = reqIdCounter + 1 /\ new.id = reqIdCounter + 1
      BY <1>2 DEF Flushes
    <2> HIDE DEF new
    <2> QED BY <1>0, <2>1 DEF IdsInv
  <1>3. CASE Works
    BY <1>1, <1>2, <1>3 DEF Works, Plain, Settles, books
  <1>4. CASE Connects \/ Fails
    BY <1>1, <1>4 DEF Connects, Fails, books
  <1>5. CASE UserCalls
    BY <1>1, <1>5 DEF UserCalls, Subscribe, Unsubscribe, Close, books
  <1> QED BY <1>1, <1>3, <1>4, <1>5, NextClass, WorldBooks DEF books

\* The ids of the subscribe ops in flight stay apart.
LEMMA IdsAlways == Spec => []IdsInv
  <1>1. Init => IdsInv
    BY DEF Init, IdsInv
  <1>2. ASSUME Sound, Sound', IdsInv, [Next]_vars PROVE IdsInv'
    BY <1>2, NextIds
  <1> QED BY <1>1, <1>2, SoundAlways, PTL DEF Spec

\* An answer is attributed to at most one op.
LEMMA AttributedOnce ==
  ASSUME TypeOK, IdsInv, NEW p, NEW a \in Attributed(p), NEW b \in Attributed(p)
  PROVE  a = b
  <1>1. /\ a \in inflightSubscribes /\ b \in inflightSubscribes
        /\ a.id \in Nat /\ b.id \in Nat /\ a.id # 0 /\ b.id # 0
    BY DEF Attributed, TypeOK, IdsInv
  <1>2. a.id = b.id
    BY <1>1 DEF Attributed
  <1> QED BY <1>1, <1>2 DEF IdsInv

-----------------------------------------------------------------------------
(* The session implements the subscription book *)

\* How the phases move is how the phase of each topic moves.
LEMMA Moves ==
  ASSUME NEW S, NEW p, \A t \in Topics : Phase(t)' = IF t \in S THEN p ELSE Phase(t)
  PROVE  Book!Move(S, p)
  BY DEF phases, Book!Move

\* A step that leaves the books alone leaves the phases alone.
LEMMA PhasesKept ==
  ASSUME UNCHANGED <<subscriptions, pendingTopics, inflightSubscribes>>
  PROVE  phases' = phases
  BY DEF phases, Phase, Confirmed

\* flushTopics() sends all that waits.
LEMMA FlushesBook ==
  ASSUME TypeOK, BooksDisjoint, NEW q, Flushes(q)
  PROVE  Book!SendAll
  <1>0. subscriptions \in [Topics -> Nat] /\ pendingTopics \in [Topics -> Nat]
    BY DEF TypeOK, Bag
  <1> DEFINE new == [id |-> reqIdCounter + 1, args |-> pendingTopics]
  <1>1. /\ subscriptions' = [t \in Topics |-> subscriptions[t] + pendingTopics[t]]
        /\ pendingTopics' = [t \in Topics |-> 0]
        /\ inflightSubscribes' = inflightSubscribes \cup {new} /\ new.args = pendingTopics
        /\ usable'
    BY DEF Flushes, NoTopics, MayFlush, usable
  <1> HIDE DEF new
  <1>2. ASSUME NEW t \in Topics
        PROVE  Phase(t)' = IF t \in Book!In({"pending"}) THEN "sent" ELSE Phase(t)
    <2>1. t \in Book!In({"pending"}) <=> pendingTopics[t] > 0
      BY DEF Book!In, phases, Phase
    <2>2. CASE pendingTopics[t] > 0
      <3>1. pendingTopics'[t] = 0 /\ subscriptions'[t] > 0
        BY <1>0, <1>1, <2>2
      <3>2. ~Confirmed(t)'
        BY <1>1, <2>2 DEF Confirmed
      <3> QED BY <2>1, <2>2, <3>1, <3>2 DEF Phase
    <2>3. CASE ~(pendingTopics[t] > 0)
      <3>1. pendingTopics[t] = 0 /\ pendingTopics'[t] = 0 /\ subscriptions'[t] = subscriptions[t]
        BY <1>0, <1>1, <2>3
      <3>2. Confirmed(t)' <=> Confirmed(t)
        BY <1>1, <3>1 DEF Confirmed
      <3> QED BY <2>1, <2>3, <3>1, <3>2 DEF Phase
    <2> QED BY <2>2, <2>3
  <1>3. Book!Move(Book!In({"pending"}), "sent")
    BY <1>2, Moves
  <1> QED BY <1>1, <1>3 DEF Book!SendAll

\* handleError() takes everything back that was sent.
LEMMA FailsBook ==
  ASSUME TypeOK, BooksDisjoint, Fails
  PROVE  Book!Lose
  <1>0. subscriptions \in [Topics -> Nat] /\ pendingTopics \in [Topics -> Nat]
    BY DEF TypeOK, Bag
  <1>1. /\ pendingTopics' = [t \in Topics |-> pendingTopics[t] + subscriptions[t]]
        /\ subscriptions' = [t \in Topics |-> 0] /\ ~usable'
    BY DEF Fails, Replayed, NoTopics, usable
  <1>2. ASSUME NEW t \in Topics
        PROVE  Phase(t)' = IF t \in Book!In({"sent", "confirmed"}) THEN "pending" ELSE Phase(t)
    <2>1. t \in Book!In({"sent", "confirmed"}) <=> pendingTopics[t] = 0 /\ subscriptions[t] > 0
      BY <1>0 DEF Book!In, phases, Phase
    <2>2. /\ pendingTopics'[t] = pendingTopics[t] + subscriptions[t] /\ subscriptions'[t] = 0
          /\ pendingTopics[t] \in Nat /\ subscriptions[t] \in Nat
      BY <1>0, <1>1
    <2> QED BY <2>1, <2>2 DEF Phase
  <1>3. Book!Move(Book!In({"sent", "confirmed"}), "pending")
    BY <1>2, Moves
  <1> QED BY <1>1, <1>3 DEF Book!Lose, usable

\* An ack confirms, a rejection drops topics that were sent.
LEMMA SettlesBook ==
  ASSUME TypeOK, BooksDisjoint, LinkInv, IdsInv, NEW o, Settles(o)
  PROVE  \/ UNCHANGED <<usable, phases>>
         \/ \E S \in SUBSET Topics : Book!Ack(S) \/ Book!Reject(S)
  <1>0. subscriptions \in [Topics -> Nat] /\ pendingTopics \in [Topics -> Nat]
    BY DEF TypeOK, Bag
  <1>1. UNCHANGED usable /\ UNCHANGED pendingTopics
    BY DEF Settles, usable, link
  <1>2. CASE Attributed(o.pkt) = {}
    <2>1. UNCHANGED <<subscriptions, pendingTopics, inflightSubscribes>>
      BY <1>1, <1>2 DEF Settles
    <2> QED BY <1>1, <2>1, PhasesKept
  <1>3. CASE Attributed(o.pkt) # {}
    <2>1. PICK op : op \in Attributed(o.pkt)
      BY <1>3
    <2>2. /\ Attributed(o.pkt) = {op} /\ op \in inflightSubscribes /\ op.args \in [Topics -> Nat]
      BY <2>1, AttributedOnce DEF Attributed, TypeOK, Bag
    <2>3. inflightSubscribes' = inflightSubscribes \ {op}
      BY <2>2 DEF Settles
    <2>u. usable
      BY <2>2 DEF LinkInv, DownIsEmpty
    <2>4. CASE o.pkt.success
      <3>1. UNCHANGED subscriptions
        BY <2>4 DEF Settles
      <3> DEFINE S == {t \in Topics : Phase(t) = "sent" /\ Phase(t)' = "confirmed"}
      <3>2. ASSUME NEW t \in Topics
            PROVE  Phase(t)' = IF t \in S THEN "confirmed" ELSE Phase(t)
        <4>1. Confirmed(t) => Confirmed(t)'
          BY <2>3, <3>1 DEF Confirmed
        <4> QED BY <1>1, <3>1, <4>1 DEF Phase
      <3>3. S \in SUBSET Topics /\ S \subseteq Book!In({"sent"})
        BY DEF Book!In, phases
      <3> HIDE DEF S
      <3>4. Book!Move(S, "confirmed")
        BY <3>2, Moves
      <3> QED BY <1>1, <2>u, <3>3, <3>4 DEF Book!Ack
    <2>5. CASE ~o.pkt.success
      <3>1. subscriptions' = [t \in Topics |-> IF subscriptions[t] > op.args[t]
                                               THEN subscriptions[t] - op.args[t] ELSE 0]
        BY <1>3, <2>2, <2>5 DEF Settles
      <3> DEFINE S == {t \in Topics : Phase(t) = "sent" /\ op.args[t] > 0}
      <3>2. ASSUME NEW t \in Topics
            PROVE  Phase(t)' = IF t \in S THEN "absent" ELSE Phase(t)
        <4>0. /\ subscriptions[t] \in Nat /\ pendingTopics[t] \in Nat /\ op.args[t] \in Nat
              /\ subscriptions[t] <= 1
              /\ subscriptions'[t] = IF subscriptions[t] > op.args[t]
                                     THEN subscriptions[t] - op.args[t] ELSE 0
          BY <1>0, <2>2, <3>1 DEF BooksDisjoint
        <4>1. CASE op.args[t] > 0
          <5>1. subscriptions'[t] = 0 /\ ~Confirmed(t)
            BY <2>2, <4>0, <4>1 DEF Confirmed
          <5> QED BY <1>1, <4>0, <4>1, <5>1 DEF Phase
        <4>2. CASE op.args[t] = 0
          <5>1. subscriptions'[t] = subscriptions[t]
            BY <4>0, <4>2
          <5>2. Confirmed(t)' <=> Confirmed(t)
            BY <2>3, <4>2, <5>1 DEF Confirmed
          <5> QED BY <1>1, <4>2, <5>1, <5>2 DEF Phase
        <4> QED BY <4>0, <4>1, <4>2
      <3>3. S \in SUBSET Topics /\ S \subseteq Book!In({"sent"})
        BY DEF Book!In, phases
      <3> HIDE DEF S
      <3>4. Book!Move(S, "absent")
        BY <3>2, Moves
      <3> QED BY <1>1, <2>u, <3>3, <3>4 DEF Book!Reject
    <2> QED BY <2>4, <2>5
  <1> QED BY <1>2, <1>3

\* A user's call requests or withdraws one topic, or changes nothing.
LEMMA UserCallsBook ==
  ASSUME TypeOK, BooksDisjoint, UserCalls
  PROVE  \/ UNCHANGED <<usable, phases>>
         \/ \E t \in Topics : Book!Request(t)
         \/ \E t \in Unsubscribable : Book!Withdraw(t)
  <1>0. subscriptions \in [Topics -> Nat] /\ pendingTopics \in [Topics -> Nat]
    BY DEF TypeOK, Bag
  <1>1. UNCHANGED usable /\ UNCHANGED inflightSubscribes
    <2>1. UNCHANGED <<connected, authenticated, inflightSubscribes>>
      BY DEF UserCalls, Subscribe, Unsubscribe, Close, link, books
    <2> QED BY <2>1 DEF usable
  <1>2. ASSUME NEW s \in Topics, Subscribe(s)
        PROVE  UNCHANGED <<usable, phases>> \/ \E t \in Topics : Book!Request(t)
    <2>1. UNCHANGED subscriptions /\ AddTopic(s)
      BY <1>2 DEF Subscribe
    <2>2. CASE subscriptions[s] = 0 /\ pendingTopics[s] = 0
      <3>1. pendingTopics' = [pendingTopics EXCEPT ![s] = 1]
        BY <2>1, <2>2 DEF AddTopic
      <3>2. ASSUME NEW t \in Topics
            PROVE  Phase(t)' = IF t \in {s} THEN "pending" ELSE Phase(t)
        <4>1. Confirmed(t)' <=> Confirmed(t)
          BY <1>1, <2>1 DEF Confirmed
        <4> QED BY <1>0, <2>1, <2>2, <3>1, <4>1 DEF Phase
      <3>3. Book!Move({s}, "pending")
        BY <3>2, Moves
      <3>4. phases[s] = "absent"
        BY <2>2 DEF phases, Phase
      <3> QED BY <1>1, <3>3, <3>4 DEF Book!Request
    <2>3. CASE ~(subscriptions[s] = 0 /\ pendingTopics[s] = 0)
      BY <1>1, <2>1, <2>3, PhasesKept DEF AddTopic
    <2> QED BY <2>2, <2>3
  <1>3. ASSUME NEW s \in Unsubscribable, Unsubscribe(s)
        PROVE  \E t \in Unsubscribable : Book!Withdraw(t)
    <2>0. s \in Topics
      BY ConstantsAssumption
    <2>1. RemoveTopic(s)
      BY <1>3 DEF Unsubscribe
    <2>2. /\ subscriptions[s] \in Nat /\ subscriptions[s] <= 1
      BY <1>0, <2>0 DEF BooksDisjoint
    <2>3. pendingTopics'[s] = 0 /\ subscriptions'[s] = 0
      BY <1>0, <2>0, <2>1, <2>2 DEF RemoveTopic
    <2>4. \A t \in Topics \ {s} : pendingTopics'[t] = pendingTopics[t]
                                  /\ subscriptions'[t] = subscriptions[t]
      BY <1>0, <2>1 DEF RemoveTopic
    <2>5. ASSUME NEW t \in Topics
          PROVE  Phase(t)' = IF t \in {s} THEN "absent" ELSE Phase(t)
      <3>1. CASE t = s
        BY <2>3, <3>1 DEF Phase
      <3>2. CASE t # s
        <4>1. Confirmed(t)' <=> Confirmed(t)
          BY <1>1, <2>4, <3>2 DEF Confirmed
        <4> QED BY <2>4, <3>2, <4>1 DEF Phase
      <3> QED BY <3>1, <3>2
    <2>6. Book!Move({s}, "absent")
      BY <2>5, Moves
    <2> QED BY <1>1, <2>6 DEF Book!Withdraw
  <1>4. CASE Close
    <2>1. UNCHANGED <<subscriptions, pendingTopics, inflightSubscribes>>
      BY <1>4 DEF Close, books
    <2> QED BY <1>1, <2>1, PhasesKept
  <1> QED BY <1>2, <1>3, <1>4 DEF UserCalls

\* Every step of the session is a step of the book, or changes nothing the book shows.
LEMMA NextRefines ==
  ASSUME Sound, Sound', BooksDisjoint, IdsInv, [Next]_vars
  PROVE  [Book!BookNext(Unsubscribable)]_<<usable, phases>>
  <1> USE DEF Book!BookNext, Book!KeepNext
  <1>t. TypeOK /\ LinkInv
    BY DEF Sound
  <1>1. CASE Works
    <2>0. usable => usable'
      BY <1>1 DEF Works, Sends, Swaps, usable
    <2>1. ASSUME NEW q, Plain(q) PROVE [Book!BookNext(Unsubscribable)]_<<usable, phases>>
      <3>1. phases' = phases
        BY <2>1, PhasesKept DEF Plain, books
      <3>2. CASE ~usable /\ usable'
        BY <3>1, <3>2 DEF Book!GoUp
      <3> QED BY <2>0, <3>1, <3>2 DEF usable
    <2>2. ASSUME NEW q, Flushes(q) PROVE [Book!BookNext(Unsubscribable)]_<<usable, phases>>
      BY <1>t, <2>2, FlushesBook
    <2>3. ASSUME NEW o, Settles(o) PROVE [Book!BookNext(Unsubscribable)]_<<usable, phases>>
      BY <1>t, <2>3, SettlesBook
    <2> QED BY <1>1, <2>1, <2>2, <2>3 DEF Works
  <1>2. CASE Connects
    <2>1. UNCHANGED usable
      BY <1>2 DEF Connects, usable
    <2>2. phases' = phases
      BY <1>2, PhasesKept DEF Connects, books
    <2> QED BY <2>1, <2>2
  <1>3. CASE Fails
    BY <1>t, <1>3, FailsBook
  <1>4. CASE UserCalls
    BY <1>t, <1>4, UserCallsBook
  <1>5. CASE UNCHANGED <<books, link>>
    <2>1. UNCHANGED usable
      BY <1>5 DEF usable, link
    <2>2. phases' = phases
      BY <1>5, PhasesKept DEF books
    <2> QED BY <2>1, <2>2
  <1> QED BY <1>1, <1>2, <1>3, <1>4, <1>5, NextClass, WorldBooks

\* The session implements the subscription book: whatever callbacks, errors, reconnects
\* and late answers do, topics move between pending, sent, confirmed and absent as the
\* book says, and none is dropped but by a rejection or by the user who may withdraw it.
THEOREM ImplementsBook == Spec => SessionRefinesBook
  <1>1. Init => Book!BookInit
    BY DEF Init, Book!BookInit, usable, phases, Phase, NoTopics
  <1>2. ASSUME Sound, Sound', BooksDisjoint, IdsInv, [Next]_vars
        PROVE  [Book!BookNext(Unsubscribable)]_<<usable, phases>>
    BY <1>2, NextRefines
  <1> QED BY <1>1, <1>2, SoundAlways, BooksStayDisjoint, IdsAlways, PTL DEF Spec, SessionRefinesBook

-----------------------------------------------------------------------------
(* The subscribe ops, the frames that carry them and their answers, in order *)

\* The subscribe frames of P and the requests they are about.
Asks(P) == {f \in P : f.op = "subscribe"}
Numbers(P) == {f.about : f \in Asks(P)}
Ids == {op.id : op \in inflightSubscribes}

Below(A, B) == \A x \in A, y \in B : x < y
Ascending(s) == \A i, j \in 1 .. Len(s) :
                  i < j /\ s[i].op = "subscribe" /\ s[j].op = "subscribe" => s[i].about < s[j].about

\* The frame that was read but not handled, the one being written, what the session is
\* still to hear and what the venue is.
Read == {o.pkt : o \in {x \in Mine : x.kind = "read" /\ x.res = "ok"}}
Written == {o.pkt : o \in {x \in Mine : x.kind = "write" /\ x.res = "armed"}}
Coming == Read \cup Frames(inbox)
Going == Written \cup Frames(outboundQueue)

\* Requests leave and answers come back in the order of their ids, one of them for each
\* op in flight.
InOrder ==
  /\ Ascending(inbox) /\ Ascending(outboundQueue)
  /\ Below(Numbers(Read), Numbers(Frames(inbox)))
  /\ Below(Numbers(Coming), Numbers(Going))
  /\ Below(Numbers(Written), Numbers(Frames(outboundQueue)))
  /\ Ids = Numbers(Coming) \cup Numbers(Going)

\* A request names the topics of its op; a granted one has them flowing.
Carried ==
  \A f \in Asks(Going) :
    /\ f.req_id = f.about
    /\ \A op \in inflightSubscribes : op.id = f.about => Listed(op.args) \subseteq f.topics
Granted ==
  \A f \in Asks(Coming) :
    /\ f.req_id \in {0, f.about}
    /\ f.success => \A op \in inflightSubscribes :
                      op.id = f.about => Listed(op.args) \subseteq venueSubs \cup Unsubscribable

\* Only what the user may withdraw is withdrawn.
Withdrawn == \A f \in Going : f.op = "unsubscribe" => f.topics \subseteq Unsubscribable
JobsInv == \A i \in 1 .. Len(posted) :
             posted[i].kind = "unsubscribe" => posted[i].topics \subseteq Unsubscribable

\* A topic that was sent flows or is still to be answered.
Flowing ==
  \A t \in Topics \ Unsubscribable :
    subscriptions[t] > 0 => t \in venueSubs \/ \E op \in inflightSubscribes : op.args[t] > 0

PipeInv == sock = "open" => InOrder /\ Carried /\ Granted /\ Withdrawn /\ Flowing

\* A connection that is up and alive is one the user has not closed.
LiveInv == connected /\ sock = "open" => ~userClosed

\* Of an ascending queue the head is the least, and the rest ascends.
LEMMA AscendingTail ==
  ASSUME NEW s \in Seq(Packet), s # <<>>, Ascending(s)
  PROVE  Ascending(Tail(s)) /\ Below(Numbers({Head(s)}), Numbers(Frames(Tail(s))))
  <1>1. /\ Len(s) \in Nat /\ Len(s) >= 1 /\ Head(s) = s[1] /\ Len(Tail(s)) = Len(s) - 1
        /\ \A i \in 1 .. Len(Tail(s)) : Tail(s)[i] = s[i + 1]
    OBVIOUS
  <1>2. Ascending(Tail(s))
    <2> SUFFICES ASSUME NEW i \in 1 .. Len(Tail(s)), NEW j \in 1 .. Len(Tail(s)), i < j,
                        Tail(s)[i].op = "subscribe", Tail(s)[j].op = "subscribe"
                 PROVE  Tail(s)[i].about < Tail(s)[j].about
      BY DEF Ascending
    <2>1. i + 1 \in 1 .. Len(s) /\ j + 1 \in 1 .. Len(s) /\ i + 1 < j + 1
      BY <1>1
    <2>2. Tail(s)[i] = s[i + 1] /\ Tail(s)[j] = s[j + 1]
      BY <1>1
    <2> QED BY <2>1, <2>2 DEF Ascending
  <1>3. ASSUME NEW j \in 1 .. Len(Tail(s)), Head(s).op = "subscribe", Tail(s)[j].op = "subscribe"
        PROVE  Head(s).about < Tail(s)[j].about
    <2>1. 1 \in 1 .. Len(s) /\ j + 1 \in 1 .. Len(s) /\ 1 < j + 1
      BY <1>1
    <2> QED BY <1>1, <1>3, <2>1 DEF Ascending
  <1>4. Below(Numbers({Head(s)}), Numbers(Frames(Tail(s))))
    BY <1>3 DEF Below, Numbers, Asks, Frames
  <1> QED BY <1>2, <1>4

\* A queue goes on ascending when a frame about a later request, or about none, joins it.
LEMMA AscendingAppend ==
  ASSUME NEW s \in Seq(Packet), NEW x \in Packet, Ascending(s),
         Below(Numbers(Frames(s)), Numbers({x}))
  PROVE  Ascending(Append(s, x))
  <1>1. /\ Len(Append(s, x)) = Len(s) + 1 /\ Append(s, x)[Len(s) + 1] = x
        /\ \A i \in 1 .. Len(s) : Append(s, x)[i] = s[i]
        /\ Len(s) \in Nat
    BY AppendProperties
  <1> SUFFICES ASSUME NEW i \in 1 .. Len(s) + 1, NEW j \in 1 .. Len(s) + 1, i < j,
                      Append(s, x)[i].op = "subscribe", Append(s, x)[j].op = "subscribe"
               PROVE  Append(s, x)[i].about < Append(s, x)[j].about
    BY <1>1 DEF Ascending
  <1>2. i \in 1 .. Len(s) /\ Append(s, x)[i] = s[i]
    BY <1>1
  <1>3. CASE j \in 1 .. Len(s)
    BY <1>1, <1>2, <1>3 DEF Ascending
  <1>4. CASE j = Len(s) + 1
    <2>1. s[i].about \in Numbers(Frames(s))
      BY <1>2 DEF Numbers, Asks, Frames
    <2>2. x.about \in Numbers({x})
      BY <1>1, <1>4 DEF Numbers, Asks
    <2> QED BY <1>1, <1>2, <1>4, <2>1, <2>2 DEF Below
  <1> QED BY <1>1, <1>3, <1>4

\* The subscribe frames of two sets together.
LEMMA AsksUnion ==
  ASSUME NEW P, NEW Q
  PROVE  Asks(P \cup Q) = Asks(P) \cup Asks(Q) /\ Numbers(P \cup Q) = Numbers(P) \cup Numbers(Q)
  BY DEF Asks, Numbers

\* The same subscribe frames are about the same requests.
LEMMA SameAsks ==
  ASSUME NEW P, NEW Q, Asks(P) = Asks(Q)
  PROVE  Numbers(P) = Numbers(Q)
  BY DEF Numbers

\* The frames of the pipe are frames.
LEMMA PipeTypes ==
  ASSUME TypeOK
  PROVE  Read \subseteq Packet /\ Written \subseteq Packet /\ Frames(inbox) \subseteq Packet
         /\ Frames(outboundQueue) \subseteq Packet
  <1>1. \A o \in ops : o.pkt \in Packet
    BY DEF TypeOK, Op
  <1>2. \A s \in Seq(Packet) : \A i \in 1 .. Len(s) : s[i] \in Packet
    OBVIOUS
  <1> QED BY <1>1, <1>2 DEF TypeOK, Read, Written, Frames, Mine

-----------------------------------------------------------------------------
(* A live connection was not closed, and its jobs withdraw only what they may *)

\* Only close() closes.
LEMMA OnlyClose ==
  ASSUME [Next]_vars, userClosed', ~userClosed PROVE JobClose /\ sock' # "open"
  <1>1. ASSUME NEW o \in ops, Handle(o) \/ Completes(o) PROVE FALSE
    BY <1>1, HandleFrame, CompletesOps
  <1>2. UserCalls => FALSE
    BY DEF UserCalls, Subscribe, Unsubscribe, Close
  <1>3. VenuePushes \/ VenueBabbles \/ VenueDies \/ UNCHANGED vars => FALSE
    BY VenueFrame
  <1>4. RunJob => JobClose
    BY DEF RunJob, JobConnect, JobFlush, JobUnsubscribe
  <1>5. JobClose => sock' # "open"
    BY DEF JobClose, IsUserClosed
  <1> QED BY <1>1, <1>2, <1>3, <1>4, <1>5 DEF Next, UserCalls

\* Once closed, a connection that is up does not come alive.
LEMMA NextLive ==
  ASSUME Sound, Sound', LiveInv, [Next]_vars, userClosed => (connected' => connected)
  PROVE  LiveInv'
  <1> SUFFICES ASSUME connected', sock' = "open", userClosed' PROVE FALSE
    BY DEF LiveInv
  <1>1. userClosed
    BY OnlyClose
  <1>2. connected /\ sock # "open"
    BY <1>1 DEF LiveInv
  <1>3. \A o \in ops : Completes(o) => sock' # "open"
    <2> SUFFICES ASSUME NEW o \in ops, Completes(o) PROVE sock' # "open"
      OBVIOUS
    <2>1. o.kind \notin DialKinds
      BY <1>2, CompletesOps DEF Sound, LinkInv, UnbornIsQuiet, Mine
    <2> QED BY <1>2, <2>1 DEF Completes, DialSucceeds, DialFails, ReadArrives, WriteSent,
                              WriteLost, StreamFails, PingFires, ReconnectFires, net
  <1>4. Works => sock' # "open"
    BY <1>2 DEF Works, Sends, Swaps
  <1>5. JobClose => sock' # "open"
    BY <1>2 DEF JobClose
  <1>6. VenuePushes \/ VenueBabbles \/ VenueDies \/ UNCHANGED vars => sock' # "open"
    BY <1>2 DEF VenuePushes, VenueBabbles, VenueDies, vars, net
  <1>7. UserCalls => sock' # "open"
    BY <1>2 DEF UserCalls, Subscribe, Unsubscribe, Close, net
  <1> QED BY <1>3, <1>4, <1>5, <1>6, <1>7, NextClass DEF Connects, Fails

\* A connection that is up and alive has one read outstanding.
LEMMA OneRead ==
  ASSUME Sound, LiveInv, connected, sock = "open",
         NEW a \in Mine, NEW b \in Mine, a.kind = "read", b.kind = "read"
  PROVE  a = b
  <1>1. ~userClosed /\ generation > 0
    BY DEF LiveInv, Sound, LinkInv, DownIsEmpty, TypeOK
  <1>2. Up
    BY <1>1 DEF Sound, DriverInv, Situation, Dialing, Waiting
  <1> QED BY <1>2 DEF Up

\* No job to withdraw a topic is posted for another one.
LEMMA NextJobs ==
  ASSUME TypeOK, JobsInv, [Next]_vars
  PROVE  JobsInv'
  <1>0. posted \in Seq(Job)
    BY DEF TypeOK
  <1>1. ASSUME NEW j, posted' = Append(posted, j),
               j.kind = "unsubscribe" => j.topics \subseteq Unsubscribable
        PROVE  JobsInv'
    <2>1. /\ Len(posted') = Len(posted) + 1 /\ posted'[Len(posted) + 1] = j
          /\ \A i \in 1 .. Len(posted) : posted'[i] = posted[i]
      BY <1>0, <1>1
    <2> QED BY <1>0, <1>1, <2>1 DEF JobsInv
  <1>2. ASSUME NEW kind, NEW topics, PostJob(kind, topics),
               kind = "unsubscribe" => topics \subseteq Unsubscribable
        PROVE  JobsInv'
    <2> DEFINE j == [kind |-> kind, topics |-> topics]
    <2>1. posted' = Append(posted, j) /\ (j.kind = "unsubscribe" => j.topics \subseteq Unsubscribable)
      BY <1>2 DEF PostJob
    <2> HIDE DEF j
    <2> QED BY <1>1, <2>1
  <1>3. CASE UNCHANGED posted
    BY <1>3 DEF JobsInv
  <1>4. ASSUME NEW t \in Topics, Subscribe(t) PROVE JobsInv'
    <2> DEFINE kind == IF calls = 0 THEN "connect" ELSE "flush"
    <2>1. PostJob(kind, {}) /\ kind # "unsubscribe"
      BY <1>4 DEF Subscribe
    <2> HIDE DEF kind
    <2> QED BY <1>2, <2>1
  <1>5. ASSUME NEW t \in Unsubscribable, Unsubscribe(t) PROVE JobsInv'
    BY <1>2, <1>3, <1>5 DEF Unsubscribe
  <1>6. CASE Close
    BY <1>2, <1>6 DEF Close
  <1>7. CASE RunJob
    <2>1. posted # <<>> /\ posted' = Tail(posted)
      BY <1>7, JobGrows
    <2>2. /\ Len(posted') = Len(posted) - 1 /\ Len(posted) > 0
          /\ \A i \in 1 .. Len(posted') : posted'[i] = posted[i + 1]
      BY <1>0, <2>1
    <2> QED BY <1>0, <2>2 DEF JobsInv
  <1>8. CASE \E o \in ops : Handle(o) \/ Completes(o)
    BY <1>3, <1>8, HandleFrame, CompletesOps
  <1>9. CASE VenuePushes \/ VenueBabbles \/ VenueDies \/ UNCHANGED vars
    BY <1>3, <1>9, VenueFrame
  <1> QED BY <1>4, <1>5, <1>6, <1>7, <1>8, <1>9 DEF Next

-----------------------------------------------------------------------------
(* How the steps move the frames *)

\* A step that leaves the subscribe frames where they are.
LEMMA PipeKept ==
  ASSUME TypeOK, PipeInv, sock = "open", Asks(Read') = Asks(Read), Written' = Written,
         Asks(Frames(inbox')) = Asks(Frames(inbox)), Ascending(inbox) => Ascending(inbox'),
         UNCHANGED <<outboundQueue, inflightSubscribes, venueSubs>>,
         \A t \in Topics : subscriptions'[t] > 0 => subscriptions[t] > 0
  PROVE  PipeInv'
  <1>1. InOrder /\ Carried /\ Granted /\ Withdrawn /\ Flowing
    BY DEF PipeInv
  <1>2. Asks(Coming') = Asks(Coming) /\ Going' = Going /\ Ids' = Ids
    BY DEF Coming, Going, Ids, Asks
  <1>3. InOrder'
    <2>1. /\ Numbers(Read') = Numbers(Read) /\ Numbers(Coming') = Numbers(Coming)
          /\ Numbers(Frames(inbox')) = Numbers(Frames(inbox))
      BY <1>2, SameAsks
    <2> QED BY <1>1, <1>2, <2>1 DEF InOrder
  <1>4. Carried' /\ Withdrawn'
    BY <1>1, <1>2 DEF Carried, Withdrawn
  <1>5. Granted'
    BY <1>1, <1>2 DEF Granted
  <1>6. Flowing'
    BY <1>1 DEF Flowing
  <1> QED BY <1>3, <1>4, <1>5, <1>6 DEF PipeInv

\* What the strand does to the frames that were read and to those that leave.
LEMMA SendsPipe ==
  ASSUME NEW q \in Seq(Packet), NEW gone, NEW new, NEW W, Sends(q, gone, new, W),
         Ascending(q), Below(Numbers(Written), Numbers(Frames(q)))
  PROVE  /\ Ascending(outboundQueue)'
         /\ Below(Numbers(Written), Numbers(Frames(outboundQueue)))'
         /\ Going' = Written \cup Frames(q)
         /\ Read' \subseteq Read
         /\ NoAnswer(gone) => Asks(Read') = Asks(Read)
  <1>0. /\ ops' = ((ops \ gone) \cup new) \cup W /\ UNCHANGED generation
        /\ \A g \in gone : g.res = "armed" => g.kind = "ping" \/ g.gen # generation
        /\ \A n \in new : n.res = "armed" /\ n.kind # "write"
    BY DEF Sends, Swaps
  <1>1. \A w \in W : w.kind = "write" /\ w.res = "armed" /\ w.gen = generation
    BY SendsFrames
  <1>2. Written' = Written \cup {w.pkt : w \in W}
    BY <1>0, <1>1 DEF Written, Mine
  <1>3. Read' \subseteq Read
    BY <1>0, <1>1 DEF Read, Mine
  <1>4. ASSUME NoAnswer(gone) PROVE Asks(Read') = Asks(Read)
    <2>1. ASSUME NEW f \in Asks(Read) PROVE f \in Read'
      <3>1. PICK o \in Mine : o.kind = "read" /\ o.res = "ok" /\ f = o.pkt
        BY DEF Asks, Read
      <3>2. ReadyFrame(o, "subscribe")
        BY <2>1, <3>1 DEF Asks, ReadyFrame, Ready, Mine
      <3>3. o \in Mine'
        BY <1>0, <1>4, <3>2 DEF NoAnswer, Mine
      <3> QED BY <3>1, <3>3 DEF Read
    <2> QED BY <1>3, <2>1 DEF Asks
  <1>5. CASE W = {} /\ outboundQueue' = q
    <2>1. Written' = Written
      BY <1>2, <1>5
    <2> QED BY <1>3, <1>4, <1>5, <2>1 DEF Going
  <1>6. CASE /\ q # <<>> /\ outboundQueue' = Tail(q)
             /\ W = {Armed("write", generation, Head(q))}
             /\ \A o \in ops \ gone : o.gen = generation => o.kind # "write"
    <2>1. Written = {}
      BY <1>0, <1>6 DEF Written, Mine
    <2>2. Written' = {Head(q)}
      BY <1>2, <1>6, <2>1 DEF Armed
    <2>3. Frames(q) = {Head(q)} \cup Frames(Tail(q))
      BY <1>6, FramesOf
    <2>4. Ascending(Tail(q)) /\ Below(Numbers({Head(q)}), Numbers(Frames(Tail(q))))
      BY <1>6, AscendingTail
    <2> QED BY <1>3, <1>4, <1>6, <2>1, <2>2, <2>3, <2>4 DEF Going
  <1> QED BY <1>5, <1>6 DEF Sends

\* A handler that sends nothing new that subscribes.
LEMMA PlainPipe ==
  ASSUME TypeOK, JobsInv, PipeInv, sock = "open", NEW q, NEW gone, NEW new, NEW W,
         Sends(q, gone, new, W), NoAnswer(gone), Plain(q)
  PROVE  PipeInv'
  <1>0. outboundQueue \in Seq(Packet) /\ posted \in Seq(Job)
    BY DEF TypeOK
  <1>1. InOrder /\ Carried /\ Granted /\ Withdrawn /\ Flowing
    BY DEF PipeInv
  <1> DEFINE Safe ==
               /\ q \in Seq(Packet) /\ Ascending(q)
               /\ Asks(Frames(q)) = Asks(Frames(outboundQueue))
               /\ \A f \in Frames(q) : f \in Frames(outboundQueue)
                                       \/ (f.op = "unsubscribe" => f.topics \subseteq Unsubscribable)
  <1>2. Safe
    <2>1. CASE q = outboundQueue
      BY <1>0, <1>1, <2>1 DEF InOrder
    <2>2. ASSUME NEW f \in Packet, q = Append(outboundQueue, f), f.op # "subscribe",
                 f.op = "unsubscribe" => /\ posted # <<>> /\ Head(posted).kind = "unsubscribe"
                                         /\ f.topics = Head(posted).topics
          PROVE  Safe
      <3>1. q \in Seq(Packet) /\ Frames(q) = Frames(outboundQueue) \cup {f}
        BY <1>0, <2>2, FramesOf, QueueTypes
      <3>2. Numbers({f}) = {} /\ Asks({f}) = {}
        BY <2>2 DEF Numbers, Asks
      <3>3. Ascending(q)
        BY <1>0, <1>1, <2>2, <3>2, AscendingAppend DEF Below, InOrder
      <3>4. Asks(Frames(q)) = Asks(Frames(outboundQueue))
        BY <3>1, <3>2 DEF Asks
      <3>5. f.op = "unsubscribe" => f.topics \subseteq Unsubscribable
        <4>1. posted # <<>> => Len(posted) \in Nat /\ Len(posted) > 0 /\ Head(posted) = posted[1]
          BY <1>0
        <4> QED BY <2>2, <4>1 DEF JobsInv
      <3> QED BY <3>1, <3>3, <3>4, <3>5
    <2> QED BY <2>1, <2>2 DEF Plain
  <1>3. Numbers(Frames(q)) = Numbers(Frames(outboundQueue))
    BY <1>2, SameAsks
  <1>4. /\ Ascending(outboundQueue)'
        /\ Below(Numbers(Written), Numbers(Frames(outboundQueue)))'
        /\ Going' = Written \cup Frames(q)
        /\ Asks(Read') = Asks(Read)
    <2>1. Below(Numbers(Written), Numbers(Frames(q)))
      BY <1>1, <1>3 DEF InOrder
    <2> QED BY <1>2, <2>1, SendsPipe
  <1>5. UNCHANGED <<inbox, venueSubs, books>>
    BY DEF Sends, Swaps, Plain
  <1>6. Asks(Going') = Asks(Going) /\ Asks(Coming') = Asks(Coming) /\ Ids' = Ids
    BY <1>2, <1>4, <1>5 DEF Going, Coming, Ids, Asks, books
  <1>7. InOrder'
    <2>1. /\ Numbers(Read') = Numbers(Read) /\ Numbers(Coming') = Numbers(Coming)
          /\ Numbers(Going') = Numbers(Going)
      BY <1>4, <1>6, SameAsks
    <2> QED BY <1>1, <1>4, <1>5, <1>6, <2>1 DEF InOrder
  <1>8. Carried' /\ Granted'
    BY <1>1, <1>5, <1>6 DEF Carried, Granted, books
  <1>9. Withdrawn'
    BY <1>1, <1>2, <1>4 DEF Withdrawn, Going
  <1>10. Flowing'
    BY <1>1, <1>5 DEF Flowing, books
  <1> QED BY <1>7, <1>8, <1>9, <1>10 DEF PipeInv

\* flushTopics() numbers its request after all that went before.
LEMMA FlushesPipe ==
  ASSUME TypeOK, IdsInv, PipeInv, sock = "open", NEW q, NEW gone, NEW new, NEW W,
         Sends(q, gone, new, W), NoAnswer(gone), Flushes(q)
  PROVE  PipeInv'
  <1> DEFINE f   == Request("subscribe", reqIdCounter + 1, Listed(pendingTopics))
             nop == [id |-> reqIdCounter + 1, args |-> pendingTopics]
  <1>0. outboundQueue \in Seq(Packet) /\ reqIdCounter \in Nat
        /\ subscriptions \in [Topics -> Nat] /\ pendingTopics \in [Topics -> Nat]
    BY DEF TypeOK, Bag
  <1>1. InOrder /\ Carried /\ Granted /\ Withdrawn /\ Flowing
    BY DEF PipeInv
  <1>2. /\ f \in Packet /\ f.op = "subscribe" /\ f.about = reqIdCounter + 1
        /\ f.req_id = reqIdCounter + 1 /\ f.topics = Listed(pendingTopics)
    <2>1. Listed(pendingTopics) \subseteq Topics /\ reqIdCounter + 1 \in Nat
      BY <1>0 DEF Listed
    <2> QED BY <2>1, PacketTypes DEF Request
  <1>3. nop.id = reqIdCounter + 1 /\ nop.args = pendingTopics
    OBVIOUS
  <1>4. /\ q = Append(outboundQueue, f) /\ inflightSubscribes' = inflightSubscribes \cup {nop}
        /\ subscriptions' = [t \in Topics |-> subscriptions[t] + pendingTopics[t]]
        /\ UNCHANGED <<inbox, venueSubs>>
    BY DEF Flushes, Sends, Swaps
  <1> HIDE DEF f, nop
  <1>5. \A x \in Ids : x \in Nat /\ x <= reqIdCounter
    BY <1>0 DEF Ids, IdsInv
  <1>6. Ids' = Ids \cup {reqIdCounter + 1}
    BY <1>3, <1>4 DEF Ids
  <1>7. Asks({f}) = {f} /\ Numbers({f}) = {reqIdCounter + 1}
    BY <1>2 DEF Asks, Numbers
  <1>8. Numbers(Coming) \subseteq Ids /\ Numbers(Going) \subseteq Ids
        /\ Numbers(Written) \subseteq Ids /\ Numbers(Frames(outboundQueue)) \subseteq Ids
        /\ Ids = Numbers(Coming) \cup Numbers(Going)
    <2>1. Numbers(Going) = Numbers(Written) \cup Numbers(Frames(outboundQueue))
      BY AsksUnion, Zenon DEF Going
    <2> QED BY <1>1, <2>1 DEF InOrder
  <1>9. q \in Seq(Packet) /\ Frames(q) = Frames(outboundQueue) \cup {f} /\ Ascending(q)
    <2>0. \A x \in Ids : x < reqIdCounter + 1
      BY <1>0, <1>5
    <2>1. Below(Numbers(Frames(outboundQueue)), Numbers({f}))
      BY <1>7, <1>8, <2>0 DEF Below
    <2> QED BY <1>0, <1>1, <1>2, <1>4, <2>1, FramesOf, QueueTypes, AscendingAppend DEF InOrder
  <1>10. Numbers(Frames(q)) = Numbers(Frames(outboundQueue)) \cup {reqIdCounter + 1}
    <2>1. Numbers(Frames(outboundQueue) \cup {f}) = Numbers(Frames(outboundQueue)) \cup Numbers({f})
      BY AsksUnion, Zenon
    <2> QED BY <1>7, <1>9, <2>1
  <1>11. /\ Ascending(outboundQueue)'
         /\ Below(Numbers(Written), Numbers(Frames(outboundQueue)))'
         /\ Going' = Written \cup Frames(q)
         /\ Asks(Read') = Asks(Read)
    <2>1. Below(Numbers(Written), Numbers(Frames(q)))
      BY <1>0, <1>1, <1>5, <1>8, <1>10 DEF InOrder, Below
    <2> QED BY <1>9, <2>1, SendsPipe
  <1>12. /\ Asks(Going') = Asks(Going) \cup {f}
         /\ Numbers(Going') = Numbers(Going) \cup {reqIdCounter + 1}
    <2>1. Going' = Going \cup {f}
      BY <1>9, <1>11 DEF Going
    <2> QED BY <1>7, <2>1, AsksUnion
  <1>13. /\ Asks(Coming') = Asks(Coming) /\ Numbers(Coming') = Numbers(Coming)
         /\ Numbers(Read') = Numbers(Read)
    <2>1. Asks(Coming') = Asks(Coming)
      BY <1>4, <1>11 DEF Coming, Asks
    <2> QED BY <1>11, <2>1, SameAsks
  <1>14. InOrder'
    <2>1. Below(Numbers(Coming'), Numbers(Going'))
      BY <1>0, <1>1, <1>5, <1>8, <1>12, <1>13 DEF InOrder, Below
    <2>2. Ids' = Numbers(Coming') \cup Numbers(Going')
      BY <1>6, <1>8, <1>12, <1>13
    <2> QED BY <1>1, <1>4, <1>11, <1>13, <2>1, <2>2 DEF InOrder
  \* The op is not the one of an earlier frame.
  <1>15. \A g \in Asks(Going) \cup Asks(Coming) : g.about # nop.id
    <2>1. \A g \in Asks(Going) \cup Asks(Coming) : g.about \in Ids
      BY <1>8 DEF Numbers
    <2> QED BY <1>0, <1>3, <1>5, <2>1
  <1>16. Carried'
    <2>1. \A op \in inflightSubscribes : op.id # f.about
      <3>1. \A op \in inflightSubscribes : op.id \in Ids
        BY DEF Ids
      <3> QED BY <1>0, <1>2, <1>5, <3>1
    <2>2. Listed(nop.args) \subseteq f.topics
      BY <1>2, <1>3
    <2> QED BY <1>1, <1>2, <1>4, <1>12, <1>15, <2>1, <2>2 DEF Carried
  <1>17. Granted'
    BY <1>1, <1>4, <1>13, <1>15 DEF Granted
  <1>18. Withdrawn'
    BY <1>1, <1>2, <1>9, <1>11 DEF Withdrawn, Going
  <1>19. Flowing'
    <2> SUFFICES ASSUME NEW t \in Topics \ Unsubscribable, subscriptions'[t] > 0
                 PROVE  t \in venueSubs' \/ \E op \in inflightSubscribes' : op.args[t] > 0
      BY DEF Flowing
    <2>1. subscriptions[t] > 0 \/ pendingTopics[t] > 0
      BY <1>0, <1>4
    <2> QED BY <1>1, <1>3, <1>4, <2>1 DEF Flowing
  <1> QED BY <1>14, <1>16, <1>17, <1>18, <1>19 DEF PipeInv

\* Nobody reads on a connection before the handshake was handled.
LEMMA ReadsWhenUp ==
  ASSUME Sound, sock = "open", NEW o \in Mine, o.kind \in {"read", "write"}
  PROVE  connected
  BY DEF Sound, LinkInv, UnbornIsQuiet, Unborn

\* An answer is attributed to the op it answers, with its id or without: that op is the
\* oldest in flight.
LEMMA AnswerFindsItsOp ==
  ASSUME Sound, LiveInv, IdsInv, InOrder, Granted, sock = "open",
         NEW o \in ops, ReadyFrame(o, "subscribe")
  PROVE  /\ \E op \in inflightSubscribes : op.id = o.pkt.about /\ Attributed(o.pkt) = {op}
         /\ Read = {o.pkt} /\ \A p \in Mine : p.kind = "read" => p = o
         /\ \A x \in Numbers(Frames(inbox)) \cup Numbers(Going) : o.pkt.about < x
  <1>1. o \in Mine /\ o.kind = "read" /\ o.res = "ok" /\ o.pkt.op = "subscribe"
    BY DEF ReadyFrame, Ready, Mine
  <1>2. \A p \in Mine : p.kind = "read" => p = o
    BY <1>1, ReadsWhenUp, OneRead
  <1>3. Read = {o.pkt}
    BY <1>1, <1>2 DEF Read
  <1>4. o.pkt \in Asks(Read) /\ o.pkt \in Asks(Coming)
    BY <1>1, <1>3 DEF Asks, Coming
  <1>5. Numbers(Read) = {o.pkt.about}
    BY <1>3, <1>4 DEF Numbers, Asks
  <1>6. Numbers(Coming) = Numbers(Read) \cup Numbers(Frames(inbox))
    BY AsksUnion, Zenon DEF Coming
  <1>7. \A x \in Numbers(Frames(inbox)) \cup Numbers(Going) : o.pkt.about < x
    BY <1>5, <1>6 DEF InOrder, Below
  <1>8. PICK op \in inflightSubscribes : op.id = o.pkt.about
    BY <1>5, <1>6 DEF InOrder, Ids
  <1>9. \A other \in inflightSubscribes : op.id <= other.id
    <2>1. op.id \in Nat /\ \A other \in inflightSubscribes : other.id \in Nat /\ other.id \in Ids
      BY DEF Sound, TypeOK, Ids
    <2>2. \A x \in Ids : x = op.id \/ op.id < x
      BY <1>5, <1>6, <1>7, <1>8 DEF InOrder
    <2> QED BY <2>1, <2>2
  <1>10. o.pkt.req_id \in {0, o.pkt.about}
    BY <1>4 DEF Granted
  <1>11. op \in Attributed(o.pkt)
    BY <1>8, <1>9, <1>10 DEF Attributed
  <1>12. Attributed(o.pkt) = {op}
    BY <1>11, AttributedOnce DEF Sound
  <1> QED BY <1>2, <1>3, <1>7, <1>8, <1>12

\* Settling an op takes its answer out of the pipe, and its topics flow or are gone.
LEMMA SettlesPipe ==
  ASSUME Sound, LiveInv, IdsInv, BooksDisjoint, PipeInv, sock = "open", NEW o \in ops, NEW new,
         Sends(outboundQueue, {o}, new, {}), Settles(o)
  PROVE  PipeInv'
  <1>0. /\ outboundQueue \in Seq(Packet) /\ subscriptions \in [Topics -> Nat]
        /\ pendingTopics \in [Topics -> Nat]
        /\ \A op \in inflightSubscribes : op.id \in Nat /\ op.args \in [Topics -> Nat]
    BY DEF Sound, TypeOK, Bag
  <1>1. InOrder /\ Carried /\ Granted /\ Withdrawn /\ Flowing
    BY DEF PipeInv
  <1>2. ReadyFrame(o, "subscribe")
    BY DEF Settles
  <1>3. PICK op \in inflightSubscribes : op.id = o.pkt.about /\ Attributed(o.pkt) = {op}
    BY <1>1, <1>2, AnswerFindsItsOp
  <1>4. /\ Read = {o.pkt} /\ \A p \in Mine : p.kind = "read" => p = o
        /\ \A x \in Numbers(Frames(inbox)) \cup Numbers(Going) : o.pkt.about < x
    BY <1>1, <1>2, AnswerFindsItsOp
  <1>5. /\ Ascending(outboundQueue)'
        /\ Below(Numbers(Written), Numbers(Frames(outboundQueue)))'
        /\ Going' = Going
    BY <1>0, <1>1, SendsPipe DEF InOrder, Going
  <1>6. UNCHANGED <<inbox, venueSubs, generation>> /\ ops' = ((ops \ {o}) \cup new) \cup {}
        /\ \A n \in new : n.res = "armed"
    BY DEF Sends, Swaps
  <1>7. Read' = {}
    <2>1. ASSUME NEW p \in Mine', p.kind = "read", p.res = "ok" PROVE FALSE
      <3>1. p \in Mine /\ p # o
        BY <1>2, <1>6, <2>1 DEF Mine
      <3> QED BY <1>4, <2>1, <3>1
    <2> QED BY <2>1 DEF Read
  <1>8. Coming' = Frames(inbox) /\ Coming' \subseteq Coming
    BY <1>6, <1>7 DEF Coming
  <1>9. inflightSubscribes' = inflightSubscribes \ {op}
    BY <1>3 DEF Settles
  <1>10. Ids' = Ids \ {o.pkt.about}
    BY <1>3, <1>9 DEF Ids, IdsInv
  <1>11. InOrder'
    <2>1. Numbers(Coming) = Numbers(Read) \cup Numbers(Frames(inbox))
      BY AsksUnion, Zenon DEF Coming
    <2>2. Numbers(Read) = {o.pkt.about} /\ Numbers(Read') = {}
      BY <1>2, <1>4, <1>7 DEF Numbers, Asks, ReadyFrame
    <2>3. o.pkt.about \notin Numbers(Frames(inbox)) \cup Numbers(Going)
      BY <1>0, <1>3, <1>4
    <2>4. Ids' = Numbers(Coming') \cup Numbers(Going')
      BY <1>1, <1>5, <1>8, <1>10, <2>1, <2>2, <2>3 DEF InOrder
    <2>5. Below(Numbers(Coming'), Numbers(Going'))
      BY <1>1, <1>5, <1>8, <2>1 DEF InOrder, Below
    <2> QED BY <1>1, <1>5, <1>6, <2>2, <2>4, <2>5 DEF InOrder, Below
  <1>12. Carried' /\ Withdrawn'
    BY <1>1, <1>5, <1>9 DEF Carried, Withdrawn
  <1>13. Granted'
    BY <1>1, <1>6, <1>8, <1>9 DEF Granted, Asks
  <1>14. Flowing'
    <2> SUFFICES ASSUME NEW t \in Topics \ Unsubscribable, subscriptions'[t] > 0
                 PROVE  t \in venueSubs \/ \E p \in inflightSubscribes \ {op} : p.args[t] > 0
      BY <1>6, <1>9 DEF Flowing
    <2>1. /\ subscriptions[t] \in Nat /\ pendingTopics[t] \in Nat /\ op.args[t] \in Nat
          /\ subscriptions[t] <= 1
      BY <1>0 DEF BooksDisjoint
    <2>2. CASE o.pkt.success
      <3>1. subscriptions[t] > 0
        BY <2>2 DEF Settles
      <3>2. Listed(op.args) \subseteq venueSubs \cup Unsubscribable
        BY <1>1, <1>2, <1>3, <1>4, <2>2 DEF Granted, Asks, Coming, ReadyFrame
      <3>3. op.args[t] > 0 => t \in venueSubs
        BY <3>2 DEF Listed
      <3> QED BY <1>1, <3>1, <3>3 DEF Flowing
    <2>3. CASE ~o.pkt.success
      <3>1. subscriptions'[t] = IF subscriptions[t] > op.args[t]
                                THEN subscriptions[t] - op.args[t] ELSE 0
        BY <1>3, <2>3 DEF Settles
      <3>2. subscriptions[t] > 0 /\ op.args[t] = 0
        BY <2>1, <3>1
      <3> QED BY <1>1, <3>2 DEF Flowing
    <2> QED BY <2>2, <2>3
  <1> QED BY <1>11, <1>12, <1>13, <1>14 DEF PipeInv

\* A frame that arrives is the oldest of the inbox.
LEMMA ArrivesPipe ==
  ASSUME Sound, LiveInv, PipeInv, sock = "open", NEW o \in ops, ReadArrives(o)
  PROVE  PipeInv'
  <1>0. inbox \in Seq(Packet)
    BY DEF Sound, TypeOK
  <1>1. InOrder /\ Carried /\ Granted /\ Withdrawn /\ Flowing
    BY DEF PipeInv
  <1> DEFINE n == Finished(o, "ok", Head(inbox))
  <1>2. /\ inbox # <<>> /\ inbox' = Tail(inbox) /\ ops' = (ops \ {o}) \cup {n}
        /\ UNCHANGED <<books, outboundQueue, generation, venueSubs>>
        /\ o \in Mine /\ o.kind = "read" /\ o.res = "armed"
    BY DEF ReadArrives, Finish, ArmedNow, Idle, link, out, Mine
  <1>3. n.kind = "read" /\ n.res = "ok" /\ n.gen = generation /\ n.pkt = Head(inbox)
    BY <1>2 DEF Finished, Mine
  <1> HIDE DEF n
  <1>4. \A p \in Mine : p.kind = "read" => p = o
    BY <1>2, ReadsWhenUp, OneRead
  <1>5. Mine' = (Mine \ {o}) \cup {n}
    BY <1>2, <1>3 DEF Mine
  <1>6. Read = {} /\ Read' = {Head(inbox)}
    BY <1>2, <1>3, <1>4, <1>5 DEF Read
  <1>7. Written' = Written
    BY <1>2, <1>3, <1>5 DEF Written
  <1>8. Frames(inbox) = {Head(inbox)} \cup Frames(Tail(inbox))
    BY <1>0, <1>2, FramesOf
  <1>9. Coming' = Coming /\ Going' = Going /\ Ids' = Ids
    BY <1>2, <1>6, <1>7, <1>8 DEF Coming, Going, Ids, books
  <1>10. Ascending(inbox') /\ Below(Numbers(Read'), Numbers(Frames(inbox')))
    BY <1>0, <1>1, <1>2, <1>6, AscendingTail DEF InOrder
  <1>11. InOrder'
    BY <1>1, <1>2, <1>7, <1>9, <1>10 DEF InOrder
  <1>12. Carried' /\ Granted' /\ Withdrawn' /\ Flowing'
    BY <1>1, <1>2, <1>9 DEF Carried, Granted, Withdrawn, Flowing, books
  <1> QED BY <1>11, <1>12 DEF PipeInv

\* What the venue's answer to the frame p says and does.
LEMMA VenueAnswers ==
  ASSUME NEW p \in Packet, VenueHandles(p), inbox \in Seq(Packet),
         p.op = "unsubscribe" => p.topics \subseteq Unsubscribable,
         p.op = "subscribe" => p.req_id = p.about
  PROVE  /\ venueSubs \ Unsubscribable \subseteq venueSubs'
         /\ \E r \in Packet :
              /\ inbox' = Append(inbox, r)
              /\ r.op = "subscribe" <=> p.op = "subscribe"
              /\ r.op = "subscribe" => /\ r.about = p.about /\ r.req_id \in {0, p.about}
                                       /\ r.success => p.topics \subseteq venueSubs'
  <1> DEFINE Answered(r) ==
               /\ inbox' = Append(inbox, r)
               /\ r.op = "subscribe" <=> p.op = "subscribe"
               /\ r.op = "subscribe" => /\ r.about = p.about /\ r.req_id \in {0, p.about}
                                        /\ r.success => p.topics \subseteq venueSubs'
  <1>0. p.req_id \in Nat /\ p.topics \subseteq Topics
    BY DEF Packet
  \* An answer to anything but a subscribe.
  <1>1. ASSUME NEW op \in {"auth", "unsubscribe", "pong"}, NEW success \in BOOLEAN,
               inbox' = Append(inbox, Reply(op, success, 0, 0)), p.op # "subscribe"
        PROVE  \E r \in Packet : Answered(r)
    <2> DEFINE r == Reply(op, success, 0, 0)
    <2>1. r \in Packet /\ r.op # "subscribe"
      BY PacketTypes DEF Reply
    <2>2. inbox' = Append(inbox, r)
      BY <1>1
    <2> HIDE DEF r
    <2> QED BY <1>1, <2>1, <2>2
  <1>2. CASE p.op = "auth" \/ p.op = "ping"
    <2>1. UNCHANGED venueSubs /\ \E op \in {"auth", "pong"}, success \in BOOLEAN :
                                   inbox' = Append(inbox, Reply(op, success, 0, 0))
      BY <1>2 DEF VenueHandles, Faulty
    <2> QED BY <1>1, <1>2, <2>1
  <1>3. CASE p.op = "unsubscribe"
    <2>1. inbox' = Append(inbox, Reply("unsubscribe", TRUE, 0, 0)) /\ venueSubs' = venueSubs \ p.topics
      BY <1>3 DEF VenueHandles
    <2> QED BY <1>1, <1>3, <2>1
  <1>4. CASE p.op = "subscribe"
    <2>1. PICK success \in BOOLEAN, id \in {0, p.req_id} :
            /\ inbox' = Append(inbox, Reply("subscribe", success, id, p.req_id))
            /\ venueSubs' = IF success THEN venueSubs \cup p.topics ELSE venueSubs
      BY <1>4 DEF VenueHandles, Faulty
    <2> DEFINE r == Reply("subscribe", success, id, p.req_id)
    <2>2. r \in Packet
      BY <1>0, <2>1, PacketTypes
    <2>3. /\ r.op = "subscribe" /\ r.about = p.req_id /\ r.req_id = id /\ r.success = success
          /\ inbox' = Append(inbox, r)
      BY <2>1 DEF Reply
    <2> HIDE DEF r
    <2>4. Answered(r)
      BY <1>4, <2>1, <2>3
    <2> QED BY <2>1, <2>2, <2>4
  <1> QED BY <1>2, <1>3, <1>4 DEF VenueHandles

\* A frame that was written turns into the youngest answer of the inbox.
LEMMA SentPipe ==
  ASSUME Sound, LiveInv, PipeInv, sock = "open", NEW o \in ops, WriteSent(o)
  PROVE  PipeInv'
  <1>0. inbox \in Seq(Packet) /\ o.pkt \in Packet
    BY DEF Sound, TypeOK, Op
  <1>1. InOrder /\ Carried /\ Granted /\ Withdrawn /\ Flowing
    BY DEF PipeInv
  <1> DEFINE n == Finished(o, "ok", NoPacket)
             p == o.pkt
  <1>2. /\ ops' = (ops \ {o}) \cup {n} /\ VenueHandles(p)
        /\ UNCHANGED <<books, outboundQueue, generation>>
        /\ o \in Mine /\ o.kind = "write" /\ o.res = "armed"
    BY DEF WriteSent, Finish, ArmedNow, Idle, link, out, Mine
  <1>3. n.kind = "write" /\ n.res = "ok" /\ n.gen = generation
    BY <1>2 DEF Finished, Mine
  <1> HIDE DEF n
  <1>4. \A x \in Mine : x.kind = "write" => x = o
    BY <1>2, ReadsWhenUp DEF Sound, SoleWriter, OneWrite, Mine
  <1>5. Mine' = (Mine \ {o}) \cup {n}
    BY <1>2, <1>3 DEF Mine
  <1>6. Written = {p} /\ Written' = {} /\ Read' = Read
    BY <1>2, <1>3, <1>4, <1>5 DEF Written, Read
  <1>7. p \in Going /\ Going' = Frames(outboundQueue) /\ Going' \subseteq Going
    BY <1>2, <1>6 DEF Going
  <1>8. p.op = "subscribe" => p.req_id = p.about
    BY <1>1, <1>7 DEF Carried, Asks
  <1>9. /\ venueSubs \ Unsubscribable \subseteq venueSubs'
        /\ \E r \in Packet :
             /\ inbox' = Append(inbox, r)
             /\ r.op = "subscribe" <=> p.op = "subscribe"
             /\ r.op = "subscribe" => /\ r.about = p.about /\ r.req_id \in {0, p.about}
                                      /\ r.success => p.topics \subseteq venueSubs'
    <2>1. p.op = "unsubscribe" => p.topics \subseteq Unsubscribable
      BY <1>1, <1>7 DEF Withdrawn
    <2>2. p \in Packet
      BY <1>0
    <2> HIDE DEF p
    <2> QED BY <1>0, <1>2, <1>8, <2>1, <2>2, VenueAnswers
  <1>10. PICK r \in Packet :
             /\ inbox' = Append(inbox, r)
             /\ r.op = "subscribe" <=> p.op = "subscribe"
             /\ r.op = "subscribe" => /\ r.about = p.about /\ r.req_id \in {0, p.about}
                                      /\ r.success => p.topics \subseteq venueSubs'
    BY <1>9
  <1> HIDE DEF p
  <1>11. Frames(inbox') = Frames(inbox) \cup {r} /\ Coming' = Coming \cup {r} /\ Ids' = Ids
    BY <1>0, <1>2, <1>6, <1>10, FramesOf DEF Coming, Ids, books
  <1>12. InOrder'
    <2>1. Numbers({r}) = Numbers({p})
      BY <1>10 DEF Numbers, Asks
    <2>2. Numbers(Coming') = Numbers(Coming) \cup Numbers({p})
      <3>1. Numbers(Coming \cup {r}) = Numbers(Coming) \cup Numbers({r})
        BY AsksUnion, Zenon
      <3> QED BY <1>11, <2>1, <3>1
    <2>3. Numbers(Frames(inbox')) = Numbers(Frames(inbox)) \cup Numbers({p})
      <3>1. Numbers(Frames(inbox) \cup {r}) = Numbers(Frames(inbox)) \cup Numbers({r})
        BY AsksUnion, Zenon
      <3> QED BY <1>11, <2>1, <3>1
    <2>4. Numbers(Coming) = Numbers(Read) \cup Numbers(Frames(inbox))
      BY AsksUnion, Zenon DEF Coming
    <2>5. Numbers(Going) = Numbers({p}) \cup Numbers(Frames(outboundQueue))
      <3>1. Numbers(Going) = Numbers(Written) \cup Numbers(Frames(outboundQueue))
        BY AsksUnion, Zenon DEF Going
      <3> QED BY <1>6, <3>1
    <2>6. Numbers(Going') = Numbers(Frames(outboundQueue)) /\ Numbers(Written') = {}
      BY <1>6, <1>7 DEF Numbers, Asks
    <2>7. Ascending(inbox')
      <3>1. Below(Numbers(Frames(inbox)), Numbers({r}))
        BY <1>1, <2>1, <2>4, <2>5 DEF InOrder, Below
      <3> QED BY <1>0, <1>1, <1>10, <3>1, AscendingAppend DEF InOrder
    <2>8. Below(Numbers(Read'), Numbers(Frames(inbox')))
      BY <1>1, <1>6, <2>3, <2>4, <2>5 DEF InOrder, Below
    <2>9. Below(Numbers(Coming'), Numbers(Going'))
      BY <1>1, <1>6, <2>2, <2>5, <2>6 DEF InOrder, Below
    <2>10. Ids' = Numbers(Coming') \cup Numbers(Going')
      BY <1>1, <1>11, <2>2, <2>5, <2>6 DEF InOrder
    <2>11. Below(Numbers(Written'), Numbers(Frames(outboundQueue')))
      BY <2>6 DEF Below
    <2> QED BY <1>1, <1>2, <2>7, <2>8, <2>9, <2>10, <2>11 DEF InOrder
  <1>13. Carried' /\ Withdrawn'
    BY <1>1, <1>2, <1>7 DEF Carried, Withdrawn, Asks, books
  <1>14. Granted'
    <2> SUFFICES ASSUME NEW f \in Asks(Coming')
                 PROVE  /\ f.req_id \in {0, f.about}
                        /\ f.success => \A op \in inflightSubscribes :
                             op.id = f.about => Listed(op.args) \subseteq venueSubs' \cup Unsubscribable
      BY <1>2 DEF Granted, books
    <2>1. CASE f \in Asks(Coming)
      BY <1>1, <1>9, <2>1 DEF Granted
    <2>2. CASE f = r /\ r.op = "subscribe"
      <3>1. p \in Asks(Going)
        BY <1>7, <1>10, <2>2 DEF Asks
      <3> QED BY <1>1, <1>10, <2>2, <3>1 DEF Carried
    <2> QED BY <1>11, <2>1, <2>2 DEF Asks
  <1>15. Flowing'
    BY <1>1, <1>2, <1>9 DEF Flowing, books
  <1> QED BY <1>12, <1>13, <1>14, <1>15 DEF PipeInv

\* A fresh connection has nothing in it, and nothing was sent on it.
LEMMA OpensPipe ==
  ASSUME Sound, Sound', NEW o \in ops, DialSucceeds(o), sock' = "open", sock # "open"
  PROVE  PipeInv'
  <1>1. /\ UNCHANGED <<books, link, out, inbox>> /\ o \in Mine /\ o.kind \in DialKinds
    BY DEF DialSucceeds, ArmedNow, Idle, Mine
  <1>2. ~connected /\ Unborn'
    BY <1>1 DEF Sound, LinkInv, UnbornIsQuiet, Unborn, link
  <1>3. Written' = {} /\ Read' = {} /\ Asks(Frames(inbox')) = {}
    BY <1>2 DEF Sound, LinkInv, UnbornIsQuiet, Written, Read, Asks
  <1>4. outboundQueue' = <<>> /\ inflightSubscribes' = {} /\ subscriptions' = NoTopics
    BY <1>1, <1>2 DEF Sound, LinkInv, DownIsEmpty, usable, link
  <1>5. Frames(outboundQueue') = {} /\ Going' = {} /\ Asks(Coming') = {} /\ Ids' = {}
    BY <1>3, <1>4 DEF Frames, Going, Coming, Ids, Asks
  <1>6. Numbers(Coming') = {} /\ Numbers(Going') = {} /\ Numbers(Read') = {} /\ Numbers(Written') = {}
    BY <1>3, <1>5 DEF Numbers, Asks
  <1>7. Ascending(inbox')
    BY <1>3 DEF Ascending, Asks, Frames
  <1>8. Ascending(outboundQueue')
    BY <1>4 DEF Ascending
  <1>9. InOrder'
    BY <1>5, <1>6, <1>7, <1>8 DEF InOrder, Below
  <1>10. Carried' /\ Granted' /\ Withdrawn' /\ Flowing'
    BY <1>4, <1>5 DEF Carried, Granted, Withdrawn, Flowing, Asks, NoTopics
  <1> QED BY <1>9, <1>10 DEF PipeInv

\* Any other operation that finishes carries no frame.
LEMMA CompletesPipe ==
  ASSUME Sound, Sound', LiveInv, PipeInv, NEW o \in ops, Completes(o)
  PROVE  PipeInv'
  <1>1. CASE ReadArrives(o)
    <2>1. UNCHANGED sock
      BY <1>1 DEF ReadArrives
    <2> QED BY <1>1, <2>1, ArrivesPipe DEF PipeInv
  <1>2. CASE WriteSent(o)
    BY <1>2, SentPipe DEF WriteSent
  <1>3. CASE DialSucceeds(o) /\ sock' = "open" /\ sock # "open"
    BY <1>3, OpensPipe
  <1>4. CASE sock' # "open"
    BY <1>4 DEF PipeInv
  <1>5. CASE /\ sock = "open" /\ sock' = "open"
             /\ DialSucceeds(o) \/ DialFails(o) \/ PingFires(o) \/ ReconnectFires(o)
    <2>1. /\ UNCHANGED <<books, outboundQueue, generation, venueSubs, inbox>>
          /\ o.kind \notin {"read", "write"}
      BY <1>5 DEF DialSucceeds, DialFails, PingFires, ReconnectFires, ArmedNow, Idle, link, out,
                  net, DialKinds
    <2>2. PICK n : ops' = (ops \ {o}) \cup {n} /\ n.kind = o.kind
      <3>1. PICK res, pkt : Finish(o, res, pkt)
        BY <1>5 DEF DialSucceeds, DialFails, PingFires, ReconnectFires
      <3> DEFINE m == Finished(o, res, pkt)
      <3>2. ops' = (ops \ {o}) \cup {m} /\ m.kind = o.kind
        BY <3>1 DEF Finish, Finished
      <3> HIDE DEF m
      <3> QED BY <3>2
    <2>3. Read' = Read /\ Written' = Written
      BY <2>1, <2>2 DEF Read, Written, Mine
    <2> QED BY <1>5, <2>1, <2>3, PipeKept DEF Sound, books
  <1>6. CASE WriteLost(o) \/ StreamFails(o)
    BY <1>6 DEF WriteLost, StreamFails, PipeInv, net
  <1>7. DialFails(o) \/ PingFires(o) \/ ReconnectFires(o) => UNCHANGED sock
    BY DEF DialFails, PingFires, ReconnectFires, net
  <1> QED BY <1>1, <1>2, <1>3, <1>4, <1>5, <1>6, <1>7 DEF Completes

\* No step loses a request or its answer, or lets one overtake another.
LEMMA NextPipe ==
  ASSUME Sound, Sound', BooksDisjoint, IdsInv, LiveInv, JobsInv, PipeInv, [Next]_vars
  PROVE  PipeInv'
  <1>t. TypeOK
    BY DEF Sound
  <1>1. CASE Works
    <2>0. PICK gone, new, W, q :
            /\ Sends(q, gone, new, W)
            /\ \/ NoAnswer(gone) /\ (Plain(q) \/ Flushes(q))
               \/ \E o \in ops : gone = {o} /\ Settles(o) /\ W = {} /\ q = outboundQueue
      BY <1>1 DEF Works
    <2>1. CASE sock' # "open"
      BY <2>1 DEF PipeInv
    <2>2. CASE sock = "open"
      BY <1>t, <2>0, <2>2, PlainPipe, FlushesPipe, SettlesPipe
    <2> QED BY <2>0, <2>1, <2>2 DEF Sends, Swaps
  <1>2. CASE sock' # "open"
    BY <1>2 DEF PipeInv
  <1>3. CASE UNCHANGED <<subscriptions, inflightSubscribes, generation, outboundQueue, net, ops>>
    <2>1. UNCHANGED <<Read, Written, inbox, sock, venueSubs>>
      BY <1>3 DEF Read, Written, Mine, net
    <2> QED BY <1>t, <1>2, <1>3, <2>1, PipeKept
  <1>4. CASE JobClose
    BY <1>2, <1>3, <1>4 DEF JobClose, books, link, out, net
  <1>5. CASE UserCalls
    <2>1. UNCHANGED <<inflightSubscribes, link, out, net, ops>>
      BY <1>5 DEF UserCalls, Subscribe, Unsubscribe, Close, books
    <2>2. UNCHANGED <<Read, Written, inbox, sock, venueSubs, outboundQueue>>
      BY <2>1 DEF Read, Written, Mine, net, link, out
    <2>3. \A t \in Topics : subscriptions'[t] > 0 => subscriptions[t] > 0
      <3>0. subscriptions \in [Topics -> Nat]
        BY <1>t DEF TypeOK, Bag
      <3> QED BY <1>5, <3>0 DEF UserCalls, Subscribe, Unsubscribe, Close, RemoveTopic, books
    <2> QED BY <1>t, <1>2, <2>1, <2>2, <2>3, PipeKept
  <1>6. CASE VenuePushes \/ VenueBabbles
    <2>1. /\ UNCHANGED <<books, link, out, ops, sock, venueSubs>> /\ sock = "open" /\ inbox = <<>>
          /\ \E op \in {"push", "bad"} : inbox' = <<Reply(op, TRUE, 0, 0)>>
      BY <1>6 DEF VenuePushes, VenueBabbles, Idle
    <2>2. Asks(Frames(inbox')) = {} /\ Asks(Frames(inbox)) = {} /\ Ascending(inbox')
      <3>1. PICK f : inbox' = <<f>> /\ f.op # "subscribe"
        <4>1. PICK op \in {"push", "bad"} : inbox' = <<Reply(op, TRUE, 0, 0)>>
          BY <2>1
        <4>2. Reply(op, TRUE, 0, 0).op # "subscribe"
          BY DEF Reply
        <4> QED BY <4>1, <4>2
      <3>2. Len(<<f>>) = 1 /\ <<f>>[1] = f /\ Len(<<>>) = 0
        OBVIOUS
      <3>3. Frames(<<f>>) = {f} /\ Frames(inbox) = {}
        BY <2>1, <3>2 DEF Frames
      <3>4. Ascending(<<f>>)
        BY <3>2 DEF Ascending
      <3> QED BY <3>1, <3>3, <3>4 DEF Asks
    <2>3. UNCHANGED <<Read, Written>>
      BY <2>1 DEF Read, Written, Mine, link
    <2> QED BY <1>t, <2>1, <2>2, <2>3, PipeKept DEF books, out
  <1>7. CASE VenueDies
    BY <1>2, <1>7 DEF VenueDies
  <1>8. CASE UNCHANGED vars
    BY <1>3, <1>8 DEF vars, books, link, out
  <1>9. CASE \E o \in ops : Completes(o)
    BY <1>9, CompletesPipe
  <1> QED BY <1>1, <1>2, <1>4, <1>5, <1>6, <1>7, <1>8, <1>9, NextClass DEF Connects, Fails

\* The inductive invariant about the requests and answers of a live connection.
THEOREM PipeInvariant == Spec => [](LiveInv /\ JobsInv /\ PipeInv)
  <1>1. Init => LiveInv /\ JobsInv /\ PipeInv
    BY DEF Init, LiveInv, JobsInv, PipeInv
  <1>2. ASSUME Sound, Sound', BooksDisjoint, IdsInv, LiveInv /\ JobsInv /\ PipeInv, [Next]_vars,
               [userClosed => generation' = generation /\ (connected' => connected) /\ userClosed']_vars
        PROVE  (LiveInv /\ JobsInv /\ PipeInv)'
    <2>1. userClosed => (connected' => connected)
      BY <1>2 DEF vars, link
    <2>2. LiveInv'
      BY <1>2, <2>1, NextLive
    <2>3. JobsInv'
      BY <1>2, NextJobs DEF Sound
    <2> QED BY <1>2, <2>2, <2>3, NextPipe
  <1> QED BY <1>1, <1>2, SoundAlways, BooksStayDisjoint, IdsAlways, CloseIsFinal, PTL
          DEF Spec, ClosedIsFinal

\* A topic the session calls confirmed is one the venue delivers while the connection
\* lives, whatever was rejected, answered without an id, lost or replayed before.
THEOREM ConfirmedFlows == Spec => []ConfirmedIsFlowing
  <1>1. PipeInv => ConfirmedIsFlowing
    <2> SUFFICES ASSUME PipeInv, NEW t \in Topics \ Unsubscribable, Confirmed(t), sock = "open"
                 PROVE  t \in venueSubs
      BY DEF ConfirmedIsFlowing
    <2>1. t \in venueSubs \/ \E op \in inflightSubscribes : op.args[t] > 0
      BY DEF PipeInv, Flowing, Confirmed
    <2>2. \A op \in inflightSubscribes : ~(op.args[t] > 0)
      BY DEF Confirmed
    <2> QED BY <2>1, <2>2
  <1> QED BY <1>1, PipeInvariant, PTL

============================================================================
