------------------------- MODULE OrderEventsProofs -------------------------
(* Machine-checked facts about OrderEvents, as MCGateway puts it beside the calls, for
   every value of its constants. *)
EXTENDS MCGateway, TLAPS, SequenceTheorems, WellFoundedInduction

-----------------------------------------------------------------------------
(* Messages under way *)

\* The items of a queue of messages.
OnWire(queue, item) == \E i \in 1..Len(queue) : \E j \in 1..Len(queue[i]) : queue[i][j] = item

\* A pushed item is on the wire with all that was there, in messages of its kind.
LEMMA PushedItems ==
  ASSUME NEW S, NEW queue \in Seq(Seq(S)), NEW item \in S, NEW q \in Events!Pushed(queue, item)
  PROVE  /\ q \in Seq(Seq(S))
         /\ OnWire(q, item)
         /\ \A x : OnWire(queue, x) => OnWire(q, x)
  <1>1. CASE q = Append(queue, <<item>>)
    <2>1. <<item>> \in Seq(S) /\ <<item>>[1] = item /\ 1 \in 1..Len(<<item>>)
      OBVIOUS
    <2>2. /\ q \in Seq(Seq(S)) /\ Len(q) = Len(queue) + 1 /\ q[Len(queue) + 1] = <<item>>
          /\ \A i \in 1..Len(queue) : q[i] = queue[i]
      BY <1>1, <2>1, AppendProperties
    <2>3. OnWire(q, item)
      <3>1. Len(queue) + 1 \in 1..Len(q)
        BY <2>2, LenProperties
      <3> QED BY <3>1, <2>1, <2>2, Zenon DEF OnWire
    <2>4. ASSUME NEW x, OnWire(queue, x) PROVE OnWire(q, x)
      <3>1. 1..Len(queue) \subseteq 1..Len(q)
        BY <2>2, LenProperties
      <3> QED BY <3>1, <2>2, <2>4, Zenon DEF OnWire
    <2> QED BY <2>2, <2>3, <2>4
  <1>2. CASE queue # <<>> /\ q = [queue EXCEPT ![Len(queue)] = Append(@, item)]
    <2>1. Len(queue) \in 1..Len(queue) /\ queue[Len(queue)] \in Seq(S)
      BY <1>2
    <2> DEFINE last == queue[Len(queue)]
    <2>2. /\ Append(last, item) \in Seq(S) /\ Len(Append(last, item)) = Len(last) + 1
          /\ Append(last, item)[Len(last) + 1] = item
          /\ \A j \in 1..Len(last) : Append(last, item)[j] = last[j]
      BY <2>1, AppendProperties
    <2>3. /\ q \in Seq(Seq(S)) /\ Len(q) = Len(queue)
          /\ q[Len(queue)] = Append(last, item)
          /\ \A i \in 1..Len(queue) : i # Len(queue) => q[i] = queue[i]
      BY <1>2, <2>1, <2>2, ExceptSeq
    <2>4. OnWire(q, item)
      <3>1. Len(last) + 1 \in 1..Len(q[Len(queue)])
        BY <2>1, <2>2, <2>3, LenProperties
      <3> QED BY <3>1, <2>1, <2>2, <2>3, Zenon DEF OnWire
    <2>5. ASSUME NEW x, OnWire(queue, x) PROVE OnWire(q, x)
      <3>1. PICK i \in 1..Len(queue) : \E j \in 1..Len(queue[i]) : queue[i][j] = x
        BY <2>5 DEF OnWire
      <3>2. PICK j \in 1..Len(queue[i]) : queue[i][j] = x
        BY <3>1
      <3>3. i \in 1..Len(q) /\ j \in 1..Len(q[i]) /\ q[i][j] = x
        <4>1. CASE i = Len(queue)
          <5>1. 1..Len(last) \subseteq 1..Len(q[i])
            BY <2>1, <2>2, <2>3, <4>1, LenProperties
          <5> QED BY <3>2, <4>1, <5>1, <2>2, <2>3
        <4>2. CASE i # Len(queue)
          BY <3>2, <4>2, <2>3
        <4> QED BY <4>1, <4>2
      <3> QED BY <3>3, Zenon DEF OnWire
    <2> QED BY <2>3, <2>4, <2>5
  <1> QED BY <1>1, <1>2 DEF Events!Pushed

\* The head of a queue is taken: the rest stays, and nothing is lost but the head.
LEMMA TailItems ==
  ASSUME NEW S, NEW queue \in Seq(Seq(S)), queue # <<>>
  PROVE  /\ Head(queue) \in Seq(S) /\ Tail(queue) \in Seq(Seq(S))
         /\ \A x : OnWire(queue, x) => \/ OnWire(Tail(queue), x)
                                       \/ \E j \in 1..Len(Head(queue)) : Head(queue)[j] = x
  <1>1. /\ Head(queue) \in Seq(S) /\ Tail(queue) \in Seq(Seq(S)) /\ Head(queue) = queue[1]
        /\ Len(queue) \in Nat \ {0} /\ Len(Tail(queue)) = Len(queue) - 1
        /\ \A i \in 1..Len(Tail(queue)) : Tail(queue)[i] = queue[i + 1]
    BY HeadTailProperties, EmptySeq
  <1>2. ASSUME NEW x, NEW i \in 1..Len(queue), NEW j \in 1..Len(queue[i]), queue[i][j] = x
        PROVE  OnWire(Tail(queue), x) \/ \E k \in 1..Len(Head(queue)) : Head(queue)[k] = x
    <2>1. CASE i = 1
      BY <1>1, <1>2, <2>1
    <2>2. CASE i # 1
      <3>1. i - 1 \in 1..Len(Tail(queue)) /\ Tail(queue)[i - 1] = queue[i]
        BY <1>1, <2>2
      <3> QED BY <1>2, <3>1, Zenon DEF OnWire
    <2> QED BY <2>1, <2>2
  <1> QED BY <1>1, <1>2, Zenon DEF OnWire

\* A set of positions of a message has a last one.
LEMMA LastPosition ==
  ASSUME NEW n \in Nat, NEW S \in SUBSET (1..n), S # {}
  PROVE  \E i \in S : \A j \in S : j <= i
  <1> DEFINE T == {n - i : i \in S}
             less == OpToRel(<, Nat)
  <1>1. T \subseteq Nat /\ T # {}
    <2>1. PICK i : i \in S
      OBVIOUS
    <2>2. n - i \in T
      BY <2>1
    <2>3. \A j \in S : n - j \in Nat
      OBVIOUS
    <2> QED BY <2>2, <2>3
  <1>2. \E x \in T : \A y \in T : ~(<<y, x>> \in less)
    BY <1>1, NatLessThanWellFounded, WFMin, Zenon
  <1>3. PICK x \in T : \A y \in T : ~(<<y, x>> \in less)
    BY <1>2
  <1>4. \A y \in T : ~(y < x)
    BY <1>1, <1>3 DEF OpToRel
  <1>5. PICK i \in S : x = n - i
    OBVIOUS
  <1>6. ASSUME NEW j \in S PROVE j <= i
    <2>1. n - j \in T
      OBVIOUS
    <2> QED BY <1>4, <1>5, <2>1
  <1> QED BY <1>6

-----------------------------------------------------------------------------
(* The inductive invariant *)

PostOnly == "EC_PostOnlyWillTakeLiquidity"
Ended == {"Filled", "Cancelled", "Rejected"}
EventOrderType == [status : {"none"} \cup Events!Open \cup Ended, filled : Nat, crossed : BOOLEAN]

\* An order crossed only if that is how it ended.
OrderInv ==
  /\ eventOrder \in [Events!Orders -> EventOrderType]
  /\ \A o \in Events!Orders : eventOrder[o].status \notin {"Cancelled", "Rejected"} =>
       eventOrder[o].crossed = FALSE

\* What is said of an order that is over stays true, whenever it is heard; and so does
\* what is said of a trade.
OrderTruths ==
  {m \in [id : Events!Orders, status : Events!Open \cup Ended,
          reason : {"EC_NoError", "EC_Others", "EC_PerCancelRequest", PostOnly}] :
     m.status \in Ended =>
       eventOrder[m.id].status = m.status /\ (eventOrder[m.id].crossed = TRUE <=> m.reason = PostOnly)}
TradeTruths ==
  {m \in [id : Events!Orders, execId : Nat, type : {"Trade", "Funding"}, bad : BOOLEAN] :
     m.type = "Trade" => m.execId \in 1..eventOrder[m.id].filled}
WireInv ==
  /\ wire = [topic \in {"order", "execution"} |-> wire[topic]]
  /\ wire["order"] \in Seq(Seq(OrderTruths)) /\ wire["execution"] \in Seq(Seq(TradeTruths))

\* What the core was told.
ToldInv ==
  /\ told = [o \in Events!Orders |-> told[o]]
  /\ \A o \in Events!Orders : told[o] \in {"Filled", "Cancelled", "Rejected", "BenignPostOnlyCross"} =>
       eventOrder[o].status \in Ended /\ (eventOrder[o].crossed = TRUE <=> told[o] = "BenignPostOnlyCross")

\* A trade is told, unreadable or under way, until a connection is lost.
Accounted(o, n) ==
  n \in fills[o] \/ <<o, n>> \in garbled \/ OnWire(wire["execution"], Events!TradeItem(o, n))
FillsInv ==
  /\ fills = [o \in Events!Orders |-> fills[o]]
  /\ \A o \in Events!Orders : fills[o] \subseteq (IF o \in Linked THEN 1..eventOrder[o].filled ELSE {})
  /\ losses = 0 => \A o \in Linked : \A n \in 1..eventOrder[o].filled : Accounted(o, n)

CountInv == odd \in Nat /\ losses \in Nat

EventsInv == OrderInv /\ WireInv /\ ToldInv /\ FillsInv /\ CountInv

-----------------------------------------------------------------------------
(* What the venue may do to its orders *)

\* An order that is over stays as it is, and no trade is undone.
Later ==
  \A o \in Events!Orders : /\ eventOrder[o].status \in Ended => eventOrder'[o] = eventOrder[o]
                           /\ eventOrder[o].filled <= eventOrder'[o].filled

\* What has happened to the order at the venue stays so: no step takes back a truth an event may state.
LEMMA TruthsStay ==
  ASSUME EventsInv, OrderInv', Later
  PROVE  OrderTruths \subseteq OrderTruths' /\ TradeTruths \subseteq TradeTruths'
  <1>1. OrderTruths \subseteq OrderTruths'
    BY DEF OrderTruths, Later
  <1>2. ASSUME NEW m \in TradeTruths PROVE m \in TradeTruths'
    <2>1. eventOrder[m.id].filled \in Nat /\ eventOrder'[m.id].filled \in Nat /\ eventOrder[m.id].filled <= eventOrder'[m.id].filled
      BY <1>2 DEF TradeTruths, Later, EventsInv, OrderInv, EventOrderType
    <2> QED BY <1>2, <2>1 DEF TradeTruths
  <1> QED BY <1>1, <1>2

\* Queues of truths stay queues of truths.
LEMMA QueuesStay ==
  ASSUME EventsInv, OrderInv', Later
  PROVE  wire["order"] \in Seq(Seq(OrderTruths')) /\ wire["execution"] \in Seq(Seq(TradeTruths'))
  <1>1. \A S, T : S \subseteq T => Seq(S) \subseteq Seq(T)
    BY SeqMonotonic
  <1>2. Seq(Seq(OrderTruths)) \subseteq Seq(Seq(OrderTruths')) /\ Seq(Seq(TradeTruths)) \subseteq Seq(Seq(TradeTruths'))
    BY <1>1, TruthsStay, Zenon
  <1> QED BY <1>2, Zenon DEF EventsInv, WireInv

\* What was told and filled stays true.
LEMMA BooksStay ==
  ASSUME EventsInv, OrderInv', Later, UNCHANGED <<told, fills>>
  PROVE  ToldInv' /\ \A o \in Events!Orders :
       fills'[o] \subseteq (IF o \in Linked THEN 1..eventOrder'[o].filled ELSE {})
  <1>1. ToldInv'
    BY DEF EventsInv, ToldInv, Later
  <1>2. ASSUME NEW o \in Events!Orders
        PROVE fills[o] \subseteq (IF o \in Linked THEN 1..eventOrder'[o].filled ELSE {})
    <2>1. eventOrder[o].filled \in Nat /\ eventOrder'[o].filled \in Nat /\ eventOrder[o].filled <= eventOrder'[o].filled
      BY DEF Later, EventsInv, OrderInv, EventOrderType
    <2>2. fills[o] \subseteq (IF o \in Linked THEN 1..eventOrder[o].filled ELSE {})
      BY DEF EventsInv, FillsInv
    <2>3. 1..eventOrder[o].filled \subseteq 1..eventOrder'[o].filled
      BY <2>1
    <2> QED BY <2>2, <2>3
  <1> QED BY <1>1, <1>2

\* The trades under way, told or unreadable stay so while the execution topic and the
\* trades of the orders do not change.
LEMMA FillsStay ==
  ASSUME EventsInv, OrderInv', Later, UNCHANGED <<told, fills, garbled, losses>>,
         \A o \in Events!Orders : eventOrder'[o].filled = eventOrder[o].filled,
         \A x : OnWire(wire["execution"], x) => OnWire(wire'["execution"], x)
  PROVE  ToldInv' /\ FillsInv'
  <1>1. ToldInv' /\ \A o \in Events!Orders :
             fills'[o] \subseteq (IF o \in Linked THEN 1..eventOrder'[o].filled ELSE {})
    BY BooksStay
  <1>2. ASSUME losses = 0, NEW o \in Linked, NEW n \in 1..eventOrder'[o].filled PROVE Accounted(o, n)'
    <2>1. o \in Events!Orders /\ n \in 1..eventOrder[o].filled
      BY <1>2 DEF Events!Orders
    <2>2. Accounted(o, n)
      BY <1>2, <2>1 DEF EventsInv, FillsInv
    <2> QED BY <2>2, Zenon DEF Accounted, Events!TradeItem
  <1> QED BY <1>1, <1>2 DEF EventsInv, FillsInv

\* The order's status changes, and its topic tells.
LEMMA BecomesStep ==
  ASSUME EventsInv, NEW o \in Events!Orders, eventOrder[o].status \notin Ended,
         NEW status \in Events!Open \cup {"Cancelled", "Rejected"},
         NEW reason \in {"EC_NoError", "EC_Others", "EC_PerCancelRequest", PostOnly},
         status \in Events!Open => reason # PostOnly,
         Events!Becomes(o, status, reason)
  PROVE  EventsInv'
  <1>0. eventOrder[o] \in EventOrderType
    BY DEF EventsInv, OrderInv
  <1>a. /\ eventOrder' = [eventOrder EXCEPT ![o] = eventOrder'[o]]
        /\ eventOrder'[o] = [status |-> status, filled |-> eventOrder[o].filled, crossed |-> reason = PostOnly]
        /\ UNCHANGED <<told, fills, garbled, odd, losses>>
    BY DEF Events!Becomes, PostOnly, EventsInv, OrderInv
  <1>b. PICK crossed \in BOOLEAN : crossed = (reason = PostOnly)
    OBVIOUS
  <1>1. /\ eventOrder' = [eventOrder EXCEPT ![o] = eventOrder'[o]]
        /\ eventOrder'[o] = [status |-> status, filled |-> eventOrder[o].filled, crossed |-> crossed]
        /\ crossed = TRUE <=> reason = PostOnly
        /\ UNCHANGED <<told, fills, garbled, odd, losses>>
    BY <1>a, <1>b, Zenon
  <1>2. eventOrder'[o] \in EventOrderType
    BY <1>0, <1>1 DEF EventOrderType, Ended
  <1>3. OrderInv'
    <2>1. status \notin {"Cancelled", "Rejected"} => eventOrder'[o].crossed = FALSE
      BY <1>1
    <2>2. eventOrder' \in [Events!Orders -> EventOrderType]
      BY <1>1, <1>2 DEF EventsInv, OrderInv
    <2> QED BY <1>1, <2>1, <2>2 DEF EventsInv, OrderInv
  <1>4. Later
    BY <1>0, <1>1 DEF Later, EventsInv, OrderInv, EventOrderType
  <1>5. Events!OrderItem(o, status, reason) \in OrderTruths'
    <2>1. eventOrder'[o].status = status /\ (eventOrder'[o].crossed = TRUE <=> reason = PostOnly)
      BY <1>1
    <2> QED BY <2>1 DEF Events!OrderItem, OrderTruths, Ended
  <1>6. PICK queue \in Events!Pushed(wire["order"], Events!OrderItem(o, status, reason)) :
          wire' = [wire EXCEPT !["order"] = queue]
    BY DEF Events!Becomes
  <1>7. queue \in Seq(Seq(OrderTruths'))
    BY <1>3, <1>4, <1>5, QueuesStay, PushedItems, Zenon
  <1>8. WireInv' /\ wire'["execution"] = wire["execution"]
    BY <1>3, <1>4, <1>6, <1>7, QueuesStay DEF EventsInv, WireInv
  <1>9. ToldInv' /\ FillsInv'
    <2>1. \A p \in Events!Orders : eventOrder'[p].filled = eventOrder[p].filled
      BY <1>1 DEF EventsInv, OrderInv
    <2> QED BY <1>1, <1>3, <1>4, <1>8, <2>1, FillsStay
  <1> QED BY <1>1, <1>3, <1>8, <1>9 DEF EventsInv, CountInv

\* The venue accepts, crosses, refuses or cancels an order.
LEMMA VenueStep ==
  ASSUME EventsInv, NEW o \in Events!Orders,
         Events!Accepts(o) \/ Events!Crosses(o) \/ Events!Refuses(o) \/
              Events!BeginsCancel(o) \/ Events!Cancels(o)
  PROVE  EventsInv'
  <1>1. CASE Events!Accepts(o)
    BY <1>1, BecomesStep DEF Events!Accepts, Events!Open, Ended, PostOnly
  <1>2. CASE Events!Crosses(o)
    BY <1>2, BecomesStep DEF Events!Crosses, Events!Open, Ended, PostOnly
  <1>3. CASE Events!Refuses(o)
    BY <1>3, BecomesStep DEF Events!Refuses, Events!Open, Ended, PostOnly
  <1>4. CASE Events!BeginsCancel(o)
    BY <1>4, BecomesStep DEF Events!BeginsCancel, Events!Open, Ended, PostOnly
  <1>5. CASE Events!Cancels(o)
    BY <1>5, BecomesStep DEF Events!Cancels, Events!Open, Ended, PostOnly
  <1> QED BY <1>1, <1>2, <1>3, <1>4, <1>5

\* A trade: it is under way, or noted as unreadable.
LEMMA TradesStep ==
  ASSUME EventsInv, NEW o \in Events!Orders, Events!Trades(o) PROVE EventsInv'
  <1>0. eventOrder[o] \in EventOrderType
    BY DEF EventsInv, OrderInv
  <1> DEFINE n == eventOrder[o].filled + 1
             status == IF n = EventQty THEN "Filled"
                       ELSE IF eventOrder[o].status = "PendingCancel" THEN "PendingCancel" ELSE "PartiallyFilled"
             item(bad) == [Events!TradeItem(o, n) EXCEPT !.bad = bad]
             told1 == Events!OrderItem(o, status, "EC_NoError")
  <1>1. PICK bad \in BOOLEAN :
          /\ eventOrder' = [eventOrder EXCEPT ![o] = [status |-> status, filled |-> n, crossed |-> @.crossed]]
          /\ \E q \in Events!Pushed(wire["execution"], item(bad)), r \in Events!Pushed(wire["order"], told1) :
               wire' = [topic \in DOMAIN wire |-> IF topic = "order" THEN r ELSE q]
          /\ garbled' = IF bad THEN garbled \cup {<<o, n>>} ELSE garbled
          /\ odd' = IF bad THEN odd + 1 ELSE odd
    BY DEF Events!Trades
  <1>2. eventOrder[o].status \in Events!Open /\ UNCHANGED <<told, fills, losses>>
    BY DEF Events!Trades
  <1>3. /\ eventOrder' = [eventOrder EXCEPT ![o] = eventOrder'[o]]
        /\ eventOrder'[o] = [status |-> status, filled |-> n, crossed |-> eventOrder[o].crossed]
    BY <1>1 DEF EventsInv, OrderInv
  <1>4. eventOrder[o].crossed = FALSE /\ n \in Nat /\ eventOrder[o].filled \in Nat /\ status \in Events!Open \cup {"Filled"}
    BY <1>0, <1>2 DEF EventsInv, OrderInv, EventOrderType, Events!Open
  <1> HIDE DEF n, status
  <1>5. OrderInv'
    <2>1. eventOrder'[o] \in EventOrderType
      <3>1. eventOrder'[o] = [status |-> status, filled |-> n, crossed |-> FALSE]
        BY <1>3, <1>4
      <3> QED BY <1>4, <3>1 DEF EventOrderType, Ended
    <2>2. eventOrder' \in [Events!Orders -> EventOrderType]
      BY <1>3, <2>1 DEF EventsInv, OrderInv
    <2> QED BY <1>3, <1>4, <2>2 DEF EventsInv, OrderInv
  <1>6. Later
    BY <1>0, <1>2, <1>3, <1>4 DEF n, Later, EventsInv, OrderInv, EventOrderType, Events!Open, Ended
  <1>7. told1 \in OrderTruths'
    BY <1>3, <1>4 DEF Events!OrderItem, OrderTruths, Ended, Events!Open, PostOnly
  <1>8. item(bad) = [id |-> o, execId |-> n, type |-> "Trade", bad |-> bad]
    BY DEF Events!TradeItem
  <1>9. item(bad) \in TradeTruths'
    BY <1>3, <1>4, <1>8 DEF n, TradeTruths
  <1> HIDE DEF item, told1
  <1>10. PICK q \in Events!Pushed(wire["execution"], item(bad)), r \in Events!Pushed(wire["order"], told1) :
           wire' = [topic \in DOMAIN wire |-> IF topic = "order" THEN r ELSE q]
    BY <1>1
  <1>11. r \in Seq(Seq(OrderTruths'))
    BY <1>5, <1>6, <1>7, QueuesStay, PushedItems, Zenon
  <1>12. /\ q \in Seq(Seq(TradeTruths')) /\ OnWire(q, item(bad))
         /\ \A x : OnWire(wire["execution"], x) => OnWire(q, x)
    BY <1>5, <1>6, <1>9, QueuesStay, PushedItems, Zenon
  <1>13. WireInv' /\ wire'["execution"] = q
    BY <1>10, <1>11, <1>12 DEF EventsInv, WireInv
  <1>14. ToldInv' /\ \A p \in Events!Orders :
              fills'[p] \subseteq (IF p \in Linked THEN 1..eventOrder'[p].filled ELSE {})
    BY <1>2, <1>5, <1>6, BooksStay
  <1>15. ASSUME losses = 0, NEW p \in Linked, NEW k \in 1..eventOrder'[p].filled PROVE Accounted(p, k)'
    <2>1. CASE p = o /\ k = n
      <3>1. CASE bad = TRUE
        BY <1>1, <2>1, <3>1 DEF Accounted
      <3>2. CASE bad = FALSE
        <4>1. item(bad) = Events!TradeItem(o, n)
          BY <1>8, <3>2 DEF Events!TradeItem
        <4> QED BY <1>12, <1>13, <2>1, <4>1 DEF Accounted, Events!TradeItem
      <3> QED BY <3>1, <3>2
    <2>2. CASE ~(p = o /\ k = n)
      <3>1. k \in 1..eventOrder[p].filled
        BY <1>3, <1>4, <1>15, <2>2 DEF n, EventsInv, OrderInv, EventOrderType, Events!Orders
      <3>2. Accounted(p, k)
        BY <1>15, <3>1 DEF EventsInv, FillsInv
      <3>3. garbled \subseteq garbled'
        BY <1>1
      <3> QED BY <1>2, <1>12, <1>13, <3>2, <3>3, Zenon DEF Accounted, Events!TradeItem
    <2> QED BY <2>1, <2>2
  <1>16. FillsInv'
    BY <1>2, <1>14, <1>15 DEF EventsInv, FillsInv
  <1>17. CountInv'
    BY <1>1, <1>2 DEF EventsInv, CountInv
  <1> QED BY <1>5, <1>13, <1>14, <1>16, <1>17 DEF EventsInv

\* An entry of the execution topic that is no trade.
LEMMA PaysFundingStep ==
  ASSUME EventQty \in Nat, EventsInv, NEW o \in Events!Orders, Events!PaysFunding(o) PROVE EventsInv'
  <1> DEFINE item == [id |-> o, execId |-> EventQty + odd + 1, type |-> "Funding", bad |-> FALSE]
  <1>1. UNCHANGED <<eventOrder, told, fills, garbled, losses>> /\ odd' = odd + 1
    BY DEF Events!PaysFunding
  <1>2. OrderInv' /\ Later
    BY <1>1 DEF EventsInv, OrderInv, Later, EventOrderType
  <1>3. PICK q \in Events!Pushed(wire["execution"], item) : wire' = [wire EXCEPT !["execution"] = q]
    BY DEF Events!PaysFunding
  <1>4. item \in TradeTruths'
    BY DEF TradeTruths, EventsInv, CountInv
  <1> HIDE DEF item
  <1>5. /\ q \in Seq(Seq(TradeTruths')) /\ \A x : OnWire(wire["execution"], x) => OnWire(q, x)
    BY <1>2, <1>4, QueuesStay, PushedItems, Zenon
  <1>6. WireInv' /\ wire'["execution"] = q
    BY <1>2, <1>3, <1>5, QueuesStay DEF EventsInv, WireInv
  <1>7. ToldInv' /\ FillsInv'
    BY <1>1, <1>2, <1>5, <1>6, FillsStay
  <1> QED BY <1>1, <1>2, <1>6, <1>7 DEF EventsInv, CountInv

\* The connection is lost: what was under way is gone, what comes again is a trade.
LEMMA ReconnectsStep ==
  ASSUME EventsInv, Events!Reconnects PROVE EventsInv'
  <1>1. UNCHANGED <<eventOrder, told, fills, garbled, odd>> /\ losses' = losses + 1
    BY DEF Events!Reconnects
  <1>2. OrderInv' /\ Later
    BY <1>1 DEF EventsInv, OrderInv, Later, EventOrderType
  <1>2a. PICK o \in Events!Orders :
           \E again \in {<<>>} \cup {<< <<Events!TradeItem(o, n)>> >> : n \in 1..eventOrder[o].filled} :
             wire' = [topic \in DOMAIN wire |-> IF topic = "order" THEN <<>> ELSE again]
    BY DEF Events!Reconnects
  <1>3. PICK again \in {<<>>} \cup {<< <<Events!TradeItem(o, n)>> >> : n \in 1..eventOrder[o].filled} :
          wire' = [topic \in DOMAIN wire |-> IF topic = "order" THEN <<>> ELSE again]
    BY <1>2a
  <1>4. again \in Seq(Seq(TradeTruths))
    <2>1. CASE again = <<>>
      BY <2>1
    <2>2. CASE again # <<>>
      <3>1. PICK n \in 1..eventOrder[o].filled : again = << <<Events!TradeItem(o, n)>> >>
        BY <2>2
      <3>2. Events!TradeItem(o, n) \in TradeTruths
        BY DEF Events!TradeItem, TradeTruths, EventsInv, OrderInv, EventOrderType
      <3>3. <<Events!TradeItem(o, n)>> \in Seq(TradeTruths)
        BY <3>2
      <3> QED BY <3>1, <3>3
    <2> QED BY <2>1, <2>2
  <1>5. OrderTruths' = OrderTruths /\ TradeTruths' = TradeTruths
    BY <1>1 DEF OrderTruths, TradeTruths
  <1>6. WireInv'
    BY <1>3, <1>4, <1>5 DEF EventsInv, WireInv
  <1>7. ToldInv' /\ \A p \in Events!Orders :
             fills'[p] \subseteq (IF p \in Linked THEN 1..eventOrder'[p].filled ELSE {})
    BY <1>1, <1>2, BooksStay
  <1>8. FillsInv' /\ CountInv'
    BY <1>1, <1>7 DEF EventsInv, FillsInv, CountInv
  <1> QED BY <1>2, <1>6, <1>7, <1>8 DEF EventsInv

\* What a truth about an order is told as.
LEMMA ToldTruth ==
  ASSUME OrderInv, NEW m \in OrderTruths,
         Events!StateOf(m) \in {"Filled", "Cancelled", "Rejected", "BenignPostOnlyCross"}
  PROVE  eventOrder[m.id].status \in Ended /\ (eventOrder[m.id].crossed = TRUE <=> Events!StateOf(m) = "BenignPostOnlyCross")
  <1>1. m.status \in Events!Open \cup Ended /\ m.id \in Events!Orders
    BY DEF OrderTruths
  <1>2. ASSUME m.status \in Ended
        PROVE eventOrder[m.id].status = m.status /\ (eventOrder[m.id].crossed = TRUE <=> m.reason = PostOnly)
    BY <1>2 DEF OrderTruths
  <1>3. CASE m.status = "New"
    <2>1. Events!StateOf(m) = "Accepted"
      BY <1>3, Zenon DEF Events!StateOf
    <2> QED BY <2>1
  <1>4. CASE m.status = "PartiallyFilled"
    <2>1. Events!StateOf(m) = "PartiallyFilled"
      BY <1>4, Zenon DEF Events!StateOf
    <2> QED BY <2>1
  <1>5. CASE m.status = "PendingCancel"
    <2>1. Events!StateOf(m) = ""
      BY <1>5, Zenon DEF Events!StateOf, Events!PendingCancel
    <2> QED BY <2>1
  <1>6. CASE m.status = "Filled"
    <2>1. Events!StateOf(m) = "Filled"
      BY <1>6, Zenon DEF Events!StateOf
    <2> QED BY <1>1, <1>2, <1>6, <2>1 DEF Ended, OrderInv
  <1>7. CASE m.status = "Cancelled"
    <2>1. Events!StateOf(m) = Events!CancelledAs(m.reason)
      BY <1>7, Zenon DEF Events!StateOf
    <2> QED BY <1>2, <1>7, <2>1 DEF Ended, Events!CancelledAs, PostOnly
  <1>8. CASE m.status = "Rejected"
    <2>1. Events!StateOf(m) = Events!RejectedAs(m.reason)
      BY <1>8, Zenon DEF Events!StateOf
    <2> QED BY <1>2, <1>8, <2>1 DEF Ended, Events!RejectedAs, PostOnly
  <1> QED BY <1>1, <1>3, <1>4, <1>5, <1>6, <1>7, <1>8 DEF Events!Open, Ended

\* The order update callback: each order's last state in the message is a truth.
LEMMA DispatchOrdersStep ==
  ASSUME EventsInv, Events!DispatchOrders PROVE EventsInv'
  <1> DEFINE batch == Head(wire["order"])
  <1>1. /\ UNCHANGED <<eventOrder, fills, garbled, odd, losses>> /\ wire["order"] # <<>>
        /\ told' = [o \in Events!Orders |-> Events!Told(o, batch)]
        /\ wire' = [wire EXCEPT !["order"] = Tail(@)]
    BY DEF Events!DispatchOrders
  <1>2. batch \in Seq(OrderTruths) /\ Tail(wire["order"]) \in Seq(Seq(OrderTruths))
    BY <1>1, TailItems DEF EventsInv, WireInv
  <1>3. OrderTruths' = OrderTruths /\ TradeTruths' = TradeTruths
    BY <1>1 DEF OrderTruths, TradeTruths
  <1>4. WireInv' /\ wire'["execution"] = wire["execution"]
    BY <1>1, <1>2, <1>3 DEF EventsInv, WireInv
  <1> HIDE DEF batch
  <1>5. ASSUME NEW o \in Events!Orders,
               told'[o] \in {"Filled", "Cancelled", "Rejected", "BenignPostOnlyCross"}
        PROVE  eventOrder[o].status \in Ended /\ (eventOrder[o].crossed = TRUE <=> told'[o] = "BenignPostOnlyCross")
    <2> DEFINE heard == {i \in DOMAIN batch :
             batch[i].id = o /\ o \in Linked /\ Events!StateOf(batch[i]) # ""}
               last == CHOOSE i \in heard : \A j \in heard : j <= i
    <2>1. told'[o] = IF heard = {} THEN told[o] ELSE Events!StateOf(batch[last])
      BY <1>1 DEF Events!Told
    <2>2. CASE heard = {}
      BY <1>5, <2>1, <2>2 DEF EventsInv, ToldInv
    <2>3. CASE heard # {}
      <3>1. Len(batch) \in Nat /\ heard \in SUBSET (1..Len(batch))
        BY <1>2, LenProperties
      <3> HIDE DEF heard
      <3>2. last \in heard
        BY <2>3, <3>1, LastPosition
      <3> HIDE DEF last
      <3>3. last \in 1..Len(batch) /\ batch[last].id = o
        BY <3>1, <3>2 DEF heard
      <3>4. batch[last] \in OrderTruths
        BY <1>2, <3>3, ElementOfSeq
      <3>5. told'[o] = Events!StateOf(batch[last])
        BY <2>1, <2>3
      <3> QED BY <1>5, <3>3, <3>4, <3>5, ToldTruth DEF EventsInv
    <2> QED BY <2>2, <2>3
  <1>6. ToldInv'
    BY <1>1, <1>5 DEF ToldInv
  <1>7. OrderInv' /\ FillsInv' /\ CountInv'
    BY <1>1, <1>4 DEF EventsInv, OrderInv, FillsInv, Accounted, CountInv
  <1> QED BY <1>4, <1>6, <1>7 DEF EventsInv

\* The execution callback: the trades of the message that can be parsed are told.
LEMMA DispatchExecutionsStep ==
  ASSUME EventsInv, Events!DispatchExecutions PROVE EventsInv'
  <1> DEFINE message == Head(wire["execution"])
             batch == Events!Parsed(message)
  <1>1. /\ UNCHANGED <<eventOrder, told, garbled, odd, losses>> /\ wire["execution"] # <<>>
        /\ fills' = [o \in Events!Orders |-> fills[o] \cup {i.execId : i \in {j \in batch :
             Events!IsFill(j) /\ j.id = o}}]
        /\ wire' = [wire EXCEPT !["execution"] = Tail(@)]
    BY DEF Events!DispatchExecutions
  <1>2. /\ message \in Seq(TradeTruths) /\ Tail(wire["execution"]) \in Seq(Seq(TradeTruths))
        /\ \A x : OnWire(wire["execution"], x) =>
             \/ OnWire(Tail(wire["execution"]), x)
             \/ \E j \in 1..Len(message) : message[j] = x
    BY <1>1, TailItems DEF EventsInv, WireInv
  <1>3. OrderTruths' = OrderTruths /\ TradeTruths' = TradeTruths
    BY <1>1 DEF OrderTruths, TradeTruths
  <1>4. WireInv' /\ wire'["execution"] = Tail(wire["execution"])
    BY <1>1, <1>2, <1>3 DEF EventsInv, WireInv
  <1>5. DOMAIN message = 1..Len(message) /\ batch \subseteq TradeTruths
    BY <1>2, LenProperties, ElementOfSeq DEF Events!Parsed
  <1>6. ASSUME NEW o \in Events!Orders
        PROVE  fills'[o] \subseteq (IF o \in Linked THEN 1..eventOrder[o].filled ELSE {})
    <2>1. fills[o] \subseteq (IF o \in Linked THEN 1..eventOrder[o].filled ELSE {})
      BY DEF EventsInv, FillsInv
    <2>2. ASSUME NEW i \in batch, Events!IsFill(i), i.id = o
          PROVE o \in Linked /\ i.execId \in 1..eventOrder[o].filled
      BY <1>5, <2>2 DEF Events!IsFill, TradeTruths
    <2> QED BY <1>1, <2>1, <2>2
  <1>7. ASSUME losses = 0, NEW o \in Linked, NEW n \in 1..eventOrder[o].filled PROVE Accounted(o, n)'
    <2>0. o \in Events!Orders
      BY DEF Events!Orders
    <2>1. Accounted(o, n)
      BY <1>7 DEF EventsInv, FillsInv
    <2>2. fills[o] \subseteq fills'[o]
      BY <1>1, <2>0
    <2>3. CASE \E j \in 1..Len(message) : message[j] = Events!TradeItem(o, n)
      <3>1. PICK j \in 1..Len(message) : message[j] = Events!TradeItem(o, n)
        BY <2>3
      <3>2. ~message[j].bad /\ Events!IsFill(message[j]) /\ message[j].id = o /\ message[j].execId = n
        BY <1>7, <3>1 DEF Events!TradeItem, Events!IsFill
      <3>3. message[j] \in batch
        BY <1>5, <3>2 DEF Events!Parsed
      <3>4. n \in fills'[o]
        BY <1>1, <2>0, <3>2, <3>3
      <3> QED BY <3>4 DEF Accounted
    <2>4. CASE ~\E j \in 1..Len(message) : message[j] = Events!TradeItem(o, n)
      <3>1. OnWire(wire["execution"], Events!TradeItem(o, n)) =>
                 OnWire(wire'["execution"], Events!TradeItem(o, n))
        BY <1>2, <1>4, <2>4
      <3> QED BY <1>1, <2>1, <2>2, <3>1 DEF Accounted, Events!TradeItem
    <2> QED BY <2>3, <2>4
  <1>8. FillsInv'
    BY <1>1, <1>6, <1>7 DEF EventsInv, FillsInv
  <1>9. OrderInv' /\ ToldInv' /\ CountInv'
    BY <1>1 DEF EventsInv, OrderInv, ToldInv, CountInv
  <1> QED BY <1>4, <1>8, <1>9 DEF EventsInv

-----------------------------------------------------------------------------
(* The theorems *)

\* The invariant holds when the gateway starts.
LEMMA InitInv == Events!Init => EventsInv
  <1> SUFFICES ASSUME Events!Init PROVE EventsInv  OBVIOUS
  <1>1. \A o \in Events!Orders : eventOrder[o] = [status |-> "none", filled |-> 0, crossed |-> FALSE]
    BY DEF Events!Init
  <1>2. OrderInv
    BY <1>1 DEF Events!Init, OrderInv, EventOrderType
  <1>3. WireInv
    BY DEF Events!Init, WireInv
  <1>4. ToldInv /\ FillsInv /\ CountInv
    BY <1>1 DEF Events!Init, ToldInv, FillsInv, CountInv, Events!Orders
  <1> QED BY <1>2, <1>3, <1>4 DEF EventsInv

\* Every step of the venue, the stream and the gateway keeps the invariant.
LEMMA NextInv == ASSUME EventQty \in Nat PROVE EventsInv /\ [Events!Next]_eventVars => EventsInv'
  <1> SUFFICES ASSUME EventsInv, [Events!Next]_eventVars PROVE EventsInv'  OBVIOUS
  <1>1. CASE Events!Next
    BY <1>1, VenueStep, TradesStep, PaysFundingStep, ReconnectsStep, DispatchOrdersStep,
       DispatchExecutionsStep DEF Events!Next
  <1>2. CASE UNCHANGED eventVars
    BY <1>2 DEF eventVars, EventsInv, OrderInv, WireInv, OrderTruths, TradeTruths, ToldInv,
       FillsInv,
                Accounted, CountInv
  <1> QED BY <1>1, <1>2

\* What is under way and what was told is true, and no readable trade is forgotten.
THEOREM EventsInvariant ==
  ASSUME EventQty \in Nat PROVE PartsSpec => [](part = "events" => EventsInv)
  <1>1. PartsInit => (part = "events" => EventsInv)
    BY InitInv DEF PartsInit
  <1>2. (part = "events" => EventsInv) /\ [PartsNext]_<<part, vars, eventVars>>
          => (part = "events" => EventsInv)'
    <2> SUFFICES ASSUME part = "events" => EventsInv, [PartsNext]_<<part, vars, eventVars>>,
                        part' = "events"
                 PROVE  EventsInv'
      OBVIOUS
    <2>1. part = "events" /\ [Events!Next]_eventVars
      BY DEF PartsNext
    <2> QED BY <2>1, NextInv
  <1> QED BY <1>1, <1>2, PTL DEF PartsSpec

\* For any number of orders, messages and losses: an order told as over is over, and a
\* post-only cross, and only that, is told as a benign one.
THEOREM ToldEndIsEnd == ASSUME EventQty \in Nat PROVE PartsSpec => []EndedIsEnded
  <1>1. EventsInv => Events!EndedIsEnded
    <2> SUFFICES ASSUME EventsInv, NEW o \in Events!Orders,
                        told[o] \in {"Filled", "Cancelled", "Rejected", "BenignPostOnlyCross"}
                 PROVE  /\ eventOrder[o].status \notin Events!Open
                        /\ eventOrder[o].crossed <=> told[o] = "BenignPostOnlyCross"
      BY DEF Events!EndedIsEnded
    <2>1. /\ eventOrder[o].status \in Ended
          /\ eventOrder[o].crossed = TRUE <=> told[o] = "BenignPostOnlyCross"
      BY DEF EventsInv, ToldInv
    <2>2. eventOrder[o].crossed \in BOOLEAN
      BY DEF EventsInv, OrderInv, EventOrderType
    <2>3. eventOrder[o].crossed <=> told[o] = "BenignPostOnlyCross"
      BY <2>1, <2>2, Zenon
    <2>4. eventOrder[o].status \notin Events!Open
      BY <2>1 DEF Ended, Events!Open
    <2> QED BY <2>3, <2>4
  <1>2. (part = "events" => EventsInv) => EndedIsEnded
    BY <1>1 DEF EndedIsEnded
  <1> QED BY <1>2, EventsInvariant, PTL

\* Every fill told is a trade of an order of ours, and while the connection holds every
\* readable trade is told.
THEOREM NoTradeDropped == ASSUME EventQty \in Nat PROVE PartsSpec => []NoFillDropped
  <1>1. EventsInv => Events!NoFillDropped
    <2>1. ASSUME EventsInv, losses = 0, wire["execution"] = <<>>, NEW o \in Linked,
                 NEW n \in 1..eventOrder[o].filled
          PROVE  n \in fills[o] \/ <<o, n>> \in garbled
      <3>1. Accounted(o, n)
        BY <2>1 DEF EventsInv, FillsInv
      <3>2. ~OnWire(<<>>, Events!TradeItem(o, n))
        BY DEF OnWire
      <3> QED BY <2>1, <3>1, <3>2 DEF Accounted
    <2> QED BY <2>1 DEF EventsInv, FillsInv, Events!NoFillDropped
  <1>2. (part = "events" => EventsInv) => NoFillDropped
    BY <1>1 DEF NoFillDropped
  <1> QED BY <1>2, EventsInvariant, PTL

============================================================================
