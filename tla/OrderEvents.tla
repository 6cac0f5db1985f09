---------------------------- MODULE OrderEvents ----------------------------
(***************************************************************************)
(* What the core learns from the private stream: the venue pushes a batch  *)
(* of order updates or executions per message, the private stream manager  *)
(* takes a batch apart (dispatchArray), and the execution gateway's two    *)
(* callbacks turn each item into an OrderUpdate or a FillEvent, or drop    *)
(* it.  The two topics are ordered in themselves, not against each other;  *)
(* a reconnect loses what is under way and may deliver executions again.   *)
(*                                                                         *)
(* The core keeps the last state told of an order and dedups fills by id.  *)
(***************************************************************************)
EXTENDS Naturals, Sequences

CONSTANTS
  Linked,    \* orders with a client order id of ours
  Unlinked,  \* orders without one
  MaxQty,    \* an order's quantity; every trade fills one unit
  MaxBatch,  \* bound: items of a message
  MaxWire,   \* bound: messages of a topic under way
  MaxOdd,    \* bound: items that cannot be parsed, or are no trades
  MaxLosses  \* bound: lost connections

VARIABLES
  order,     \* the venue's orders
  wire,      \* per topic, the messages under way
  told,      \* per order, the state of its last OrderUpdate
  fills,     \* per order, the fillIds the core has been told
  garbled,   \* the executions that could not be parsed
  odd, losses

vars == <<order, wire, told, fills, garbled, odd, losses>>

Orders == Linked \cup Unlinked
Open == {"New", "PartiallyFilled", "PendingCancel"}

Init ==
  /\ order = [o \in Orders |-> [status |-> "none", filled |-> 0, crossed |-> FALSE]]
  /\ wire = [topic \in {"order", "execution"} |-> <<>>]
  /\ told = [o \in Orders |-> "none"] /\ fills = [o \in Orders |-> {}]
  /\ garbled = {} /\ odd = 0 /\ losses = 0

-----------------------------------------------------------------------------
(* The venue *)

\* One more item, in a message of its own or in the last one.
Pushed(queue, item) ==
  (IF Len(queue) < MaxWire THEN {Append(queue, <<item>>)} ELSE {}) \cup
  (IF queue # <<>> /\ Len(queue[Len(queue)]) < MaxBatch
   THEN {[queue EXCEPT ![Len(queue)] = Append(@, item)]} ELSE {})
OrderItem(o, status, reason) == [id |-> o, status |-> status, reason |-> reason]
TradeItem(o, n) == [id |-> o, execId |-> n, type |-> "Trade", bad |-> FALSE]

\* The order's status changes, and its topic tells.
Becomes(o, status, reason) ==
  /\ order' = [order EXCEPT ![o] = [status |-> status, filled |-> @.filled,
                                    crossed |-> reason = "EC_PostOnlyWillTakeLiquidity"]]
  /\ \E queue \in Pushed(wire["order"], OrderItem(o, status, reason)) :
       wire' = [wire EXCEPT !["order"] = queue]
  /\ UNCHANGED <<told, fills, garbled, odd, losses>>

Accepts(o) == order[o].status = "none" /\ Becomes(o, "New", "EC_NoError")
\* A post-only order that would cross is cancelled or rejected; others may be rejected.
Crosses(o) ==
  /\ order[o].status = "none"
  /\ \E status \in {"Cancelled", "Rejected"} : Becomes(o, status, "EC_PostOnlyWillTakeLiquidity")
Refuses(o) == order[o].status = "none" /\ Becomes(o, "Rejected", "EC_Others")
BeginsCancel(o) ==
  order[o].status \in {"New", "PartiallyFilled"} /\ Becomes(o, "PendingCancel", "EC_NoError")
Cancels(o) == order[o].status = "PendingCancel" /\ Becomes(o, "Cancelled", "EC_PerCancelRequest")

\* A trade, which both topics tell; its item may come out unreadable.
Trades(o) ==
  /\ order[o].status \in Open /\ order[o].filled < MaxQty
  /\ LET n == order[o].filled + 1
         status == IF n = MaxQty THEN "Filled"
                   ELSE IF order[o].status = "PendingCancel" THEN "PendingCancel" ELSE "PartiallyFilled"
     IN  \E bad \in (IF odd < MaxOdd THEN BOOLEAN ELSE {FALSE}) :
           /\ order' = [order EXCEPT ![o] = [status |-> status, filled |-> n, crossed |-> @.crossed]]
           /\ \E q \in Pushed(wire["execution"], [TradeItem(o, n) EXCEPT !.bad = bad]),
                 r \in Pushed(wire["order"], OrderItem(o, status, "EC_NoError")) :
                wire' = [topic \in DOMAIN wire |-> IF topic = "order" THEN r ELSE q]
           /\ garbled' = IF bad THEN garbled \cup {<<o, n>>} ELSE garbled
           /\ odd' = IF bad THEN odd + 1 ELSE odd
  /\ UNCHANGED <<told, fills, losses>>

\* A funding payment or another entry of the execution topic that is no trade.
PaysFunding(o) ==
  /\ order[o].status # "none" /\ odd < MaxOdd /\ odd' = odd + 1
  /\ \E q \in Pushed(wire["execution"], [id |-> o, execId |-> MaxQty + odd + 1, type |-> "Funding", bad |-> FALSE]) :
       wire' = [wire EXCEPT !["execution"] = q]
  /\ UNCHANGED <<order, told, fills, garbled, losses>>

\* The connection is lost with what it carried; executions of the past may come again.
Reconnects ==
  /\ losses < MaxLosses /\ losses' = losses + 1
  /\ \E o \in Orders : \E again \in {<<>>} \cup {<< <<TradeItem(o, n)>> >> : n \in 1..order[o].filled} :
       wire' = [topic \in DOMAIN wire |-> IF topic = "order" THEN <<>> ELSE again]
  /\ UNCHANGED <<order, told, fills, garbled, odd>>

-----------------------------------------------------------------------------
(* The io thread *)

\* dispatchArray(): every item by itself, the ones that cannot be parsed left out.
Parsed_Mutant(batch) ==
  LET bad == {i \in DOMAIN batch : batch[i].bad}
  IN  {batch[i] : i \in {j \in DOMAIN batch : \A k \in bad : j < k}}
Parsed(batch) == {batch[i] : i \in {j \in DOMAIN batch : ~batch[j].bad}}

\* The order update callback: what an item is told as, "" if it is not told.
PendingCancel == ""
CancelledAs_Mutant(reason) == "Cancelled"
CancelledAs(reason) == IF reason = "EC_PostOnlyWillTakeLiquidity" THEN "BenignPostOnlyCross" ELSE "Cancelled"
RejectedAs(reason) == IF reason = "EC_PostOnlyWillTakeLiquidity" THEN "BenignPostOnlyCross" ELSE "Rejected"
\* Created is told like New, PartiallyFilledCanceled and Deactivated like Cancelled; the
\* statuses of conditional orders are not told, like PendingCancel.  A status the enum does
\* not know is left out: it reads as Created, the default.
StateOf(item) ==
  CASE item.status = "New"             -> "Accepted"
    [] item.status = "PartiallyFilled" -> "PartiallyFilled"
    [] item.status = "Filled"          -> "Filled"
    [] item.status = "PendingCancel"   -> PendingCancel
    [] item.status = "Cancelled"       -> CancelledAs(item.reason)
    [] item.status = "Rejected"        -> RejectedAs(item.reason)

\* What the core last hears of an order in a batch.
Told(o, batch) ==
  LET heard == {i \in DOMAIN batch : batch[i].id = o /\ o \in Linked /\ StateOf(batch[i]) # ""}
  IN  IF heard = {} THEN told[o]
      ELSE StateOf(batch[CHOOSE i \in heard : \A j \in heard : j <= i])
DispatchOrders ==
  /\ wire["order"] # <<>>
  /\ told' = [o \in Orders |-> Told(o, Head(wire["order"]))]
  /\ wire' = [wire EXCEPT !["order"] = Tail(@)]
  /\ UNCHANGED <<order, fills, garbled, odd, losses>>

\* The execution callback: genuine trades of orders with our id.
IsFill(item) == item.type = "Trade" /\ item.id \in Linked
DispatchExecutions ==
  /\ wire["execution"] # <<>>
  /\ LET batch == Parsed(Head(wire["execution"]))
     IN  fills' = [o \in Orders |-> fills[o] \cup {i.execId : i \in {j \in batch : IsFill(j) /\ j.id = o}}]
  /\ wire' = [wire EXCEPT !["execution"] = Tail(@)]
  /\ UNCHANGED <<order, told, garbled, odd, losses>>

-----------------------------------------------------------------------------
Next ==
  \/ \E o \in Orders : \/ Accepts(o) \/ Crosses(o) \/ Refuses(o) \/ BeginsCancel(o) \/ Cancels(o)
                       \/ Trades(o) \/ PaysFunding(o)
  \/ Reconnects \/ DispatchOrders \/ DispatchExecutions

Spec == Init /\ [][Next]_vars

-----------------------------------------------------------------------------
\* An order told as over is over: the venue can fill it no more ("interim state - wait
\* for the definitive Cancelled/Filled").  And one told as a benign post-only cross is
\* one, and no other end is told of a cross, however the venue reports it: the core backs
\* off instead of counting a cancel or a hard reject.
EndedIsEnded ==
  \A o \in Orders : told[o] \in {"Filled", "Cancelled", "Rejected", "BenignPostOnlyCross"} =>
    /\ order[o].status \notin Open
    /\ order[o].crossed <=> told[o] = "BenignPostOnlyCross"

\* Every fill told is a trade of an order of ours; and as long as the connection holds,
\* every trade that can be parsed is told, whatever it shares a message with.
NoFillDropped ==
  /\ \A o \in Orders : fills[o] \subseteq (IF o \in Linked THEN 1..order[o].filled ELSE {})
  /\ losses = 0 /\ wire["execution"] = <<>> =>
       \A o \in Linked : \A n \in 1..order[o].filled : n \in fills[o] \/ <<o, n>> \in garbled

============================================================================
