------------------------- MODULE OrderGatewayProofs -------------------------
(* Machine-checked facts about OrderGateway, for every value of its constants. *)
EXTENDS OrderGateway, TLAPS

-----------------------------------------------------------------------------
(* The inductive invariant, order by order *)

\* Every ambiguous answer of the venue is one the gateway takes for ambiguous.
KnownAmbiguities == \A r \in Ambiguities : IsAmbiguousOutcome(r)

\* Where a call is says which call it is; before its request is sent there is no answer.
CallInv(o) ==
  /\ Idle(o) => call[o] = NoCall
  /\ At(o, "gate") \/ At(o, "lookup") => call[o].op \in {"submit", "amend"} /\ call[o].reply = NoReply
  /\ At(o, "waiting") => call[o].op \in Ops
  /\ At(o, "executions") \/ At(o, "history") => call[o].op = "cancel" /\ call[o].reply \in GoneCodes
  /\ call[o].listed <= order[o].filled

\* The order of another is left alone; one of ours that was never called for in this run
\* nor in an earlier one is unknown to the venue; one of an earlier run is only cancelled;
\* and before the sweep is over no new order is called for.
StrayInv(o) ==
  /\ o \in Foreign => Idle(o) /\ pending[o] = {} /\ news[o] = NoNews
  /\ o \in Ours \ sweep.strays /\ (core[o].calls = 0 \/ (Idle(o) /\ news[o].op = "none")) =>
       /\ order[o].status = "none" /\ order[o].price = 0
       /\ pending[o] = {} /\ call[o] = NoCall /\ news[o] = NoNews /\ core[o].price = 0
  /\ o \in sweep.strays => {call[o].op, news[o].op} \subseteq {"none", "cancel"}
  /\ o \in Ours \ sweep.strays /\ sweep.at # "clean" => core[o].calls = 0 /\ o \notin sweep.todo
  /\ sweep.at = "down" => call[o] = NoCall /\ news[o] = NoNews

\* What the venue has not looked at yet is a submit of an order it does not know, and the
\* request of the call that waits, unless requests may be late.
PendingInv(o) ==
  /\ "submit" \in pending[o] => order[o].status = "none"
  /\ At(o, "waiting") /\ call[o].reply # NoReply => call[o].op \notin pending[o]
  /\ ~LateRequests /\ sweep.at # "down" =>
       \A op \in pending[o] : At(o, "waiting") /\ call[o].op = op

\* A submit is the first call for an order; what is answered to it, other than "ok" and
\* the ambiguous, is answered about an order that does not exist.
SubmitInv(o) ==
  /\ call[o].op = "submit" => news[o] = NoNews
  /\ call[o].op = "submit" /\ ~At(o, "waiting") => order[o].status = "none" /\ "submit" \notin pending[o]
  /\ call[o].op = "submit" /\ call[o].reply \notin {"ok", NoReply} \cup Ambiguities =>
       order[o].status = "none"
  /\ news[o].op = "submit" /\ news[o].is \in Kinds => Idle(o) /\ "submit" \notin pending[o]
  /\ KnownAmbiguities /\ news[o].op = "submit" /\ news[o].is \in Kinds => order[o].status = "none"

\* What the executions told of, listed, pushed and credited are bounded by.
FillsInv(o) ==
  /\ reports[o].indexed <= order[o].filled
  /\ reports[o].history => order[o].status \in {"filled", "cancelled"}
  /\ pushed[o] \subseteq 1..order[o].filled
  /\ core[o].credited \subseteq 1..order[o].filled

\* An order a cancel found gone, or acknowledged, is not open, and stays so.
GoneInv(o) ==
  /\ call[o].op = "cancel" /\ call[o].reply \in GoneCodes => NotOpen(o)
  /\ call[o].op = "cancel" /\ call[o].reply = "ok" => order[o].status # "open"
  /\ news[o].is = "gone" => NotOpen(o)
  /\ news[o].is = "acked" => order[o].status # "open"
  /\ news[o].is = "gone" /\ news[o].inHistory => core[o].credited = 1..order[o].filled

\* The sweep has dealt with the strays that are no longer on its list.
SweepInv(o) ==
  /\ sweep.at = "clean" => sweep.todo = {}
  /\ sweep.at \in {"cancelling", "clean"} /\ o \in sweep.strays \ sweep.todo => order[o].status # "open"

\* The core knows the price unless the outcome of its amend is open.
PriceInv(o) ==
  o \in Ours \ sweep.strays =>
    /\ Idle(o) /\ news[o].op = "amend" /\ news[o].is # "unknown" => order[o].price = core[o].price
    /\ call[o].op \notin {"amend", "cancel"} /\ news[o].op \in {"none", "submit"} =>
         order[o].price = 0 /\ core[o].price = 0
    /\ call[o].op = "amend" => core[o].price = 0
    /\ call[o].op = "amend" /\ (~At(o, "waiting") \/ "amend" \in pending[o]) => order[o].price = 0
    /\ call[o].op = "amend" /\ call[o].reply = "ok" => order[o].price = 1
    /\ call[o].op = "amend" /\ call[o].reply \notin {"ok", NoReply} \cup Ambiguities => order[o].price = 0

OrderInv(o) ==
  CallInv(o) /\ StrayInv(o) /\ PendingInv(o) /\ SubmitInv(o) /\ FillsInv(o)
TimelyInv(o) == GoneInv(o) /\ SweepInv(o) /\ (KnownAmbiguities => PriceInv(o))

GatewayInv == TypeOK /\ \A o \in Orders : OrderInv(o) /\ (~LateRequests => TimelyInv(o))

-----------------------------------------------------------------------------
(* Steps of one order *)


\* The types, order by order.
OrderTypeOK(o) ==
  /\ order[o] \in OrderType /\ reports[o] \in ReportType /\ pending[o] \in SUBSET Ops
  /\ call[o] \in CallType /\ news[o] \in NewsType /\ core[o] \in CoreType
  /\ pushed[o] \in SUBSET (1..MaxQty)

\* A step that changes nothing but the order o.
StepOf(o) ==
  /\ order' = [order EXCEPT ![o] = order'[o]] /\ reports' = [reports EXCEPT ![o] = reports'[o]]
  /\ pending' = [pending EXCEPT ![o] = pending'[o]] /\ call' = [call EXCEPT ![o] = call'[o]]
  /\ news' = [news EXCEPT ![o] = news'[o]] /\ core' = [core EXCEPT ![o] = core'[o]]
  /\ pushed' = [pushed EXCEPT ![o] = pushed'[o]]
  /\ UNCHANGED <<stream, sweep, crashes>>

\* Nothing of the order p changes.
Same(p) ==
  /\ order'[p] = order[p] /\ reports'[p] = reports[p] /\ pending'[p] = pending[p]
  /\ call'[p] = call[p] /\ news'[p] = news[p] /\ core'[p] = core[p] /\ pushed'[p] = pushed[p]

\* The invariant of an order is about nothing but the order and the sweep.
LEMMA Frame ==
  ASSUME NEW p \in Orders, Same(p), UNCHANGED sweep
  PROVE  (OrderInv(p) => OrderInv(p)') /\ (TimelyInv(p) => TimelyInv(p)')
  BY DEF Same, OrderInv, CallInv, StrayInv, PendingInv, SubmitInv, FillsInv, TimelyInv, GoneInv,
         SweepInv, PriceInv, Idle, At, NotOpen

\* The values of one order are of their types.
LEMMA OrderTypes ==
  ASSUME TypeOK, NEW o \in Orders PROVE OrderTypeOK(o)
  BY DEF TypeOK, OrderTypeOK

\* A step of one order keeps the invariant when it keeps that order's.
LEMMA OneOrder ==
  ASSUME GatewayInv, NEW o \in Orders, StepOf(o),
         OrderTypeOK(o)', OrderInv(o)', ~LateRequests => TimelyInv(o)'
  PROVE  GatewayInv'
  <1>1. \A p \in Orders \ {o} : Same(p)
    BY DEF StepOf, Same, GatewayInv, TypeOK
  <1>2. ASSUME NEW p \in Orders PROVE OrderInv(p)' /\ (~LateRequests => TimelyInv(p)')
    BY <1>1, <1>2, Frame DEF GatewayInv, StepOf
  <1>3. TypeOK'
    BY DEF StepOf, OrderTypeOK, GatewayInv, TypeOK
  <1> QED BY <1>2, <1>3 DEF GatewayInv

-----------------------------------------------------------------------------
(* The leg's calls *)

\* What the core's last news allows a leg to call.
LEMMA MayCallCases ==
  ASSUME NEW o, NEW op, MayCall(o, op)
  PROVE  /\ o \in Ours \ sweep.strays /\ Idle(o) /\ sweep.at = "clean"
         /\ op = "submit" => news[o].op = "none"
         /\ op = "amend" => /\ core[o].price = 0 /\ news[o].op \in {"submit", "amend"}
                            /\ news[o].is = "ok" \/ (news[o].op = "amend" /\ news[o].is \in Kinds)
         /\ op = "cancel" => \/ news[o].is \in {"ok", "unknown", "acked"}
                             \/ news[o].op \in {"amend", "cancel"} /\ news[o].is \in Kinds
  BY Zenon DEF MayCall

\* submitPostOnlyLimit() and submitReduceOnlyMarket() begin: the order is a new one.
LEMMA SubmitStep ==
  ASSUME GatewayInv, NEW o \in Orders, Submit(o) \/ SubmitMarket(o) PROVE GatewayInv'
  <1> USE DEF GatewayInv
  <1>0. OrderTypeOK(o) BY OrderTypes
  <1>1. PICK where \in {"gate", "lookup"}, market \in BOOLEAN :
          /\ call'[o] = [op |-> "submit", at |-> where, reply |-> NoReply, listed |-> 0]
          /\ core'[o] = [credited |-> core[o].credited, price |-> core[o].price,
                         calls |-> core[o].calls + 1, market |-> market]
          /\ MayCall(o, "submit") /\ StepOf(o)
          /\ UNCHANGED <<order, reports, pending, news, pushed, sweep>>
    BY DEF Submit, SubmitMarket, Begin, TypeOK, venueVars, StepOf
  <1>2. OrderTypeOK(o)'
    BY <1>0, <1>1, GatewayAssumption DEF OrderTypeOK, CallType, CoreType, Ops
  <1>3. o \in Ours \ sweep.strays /\ Idle(o) /\ sweep.at = "clean" /\ news[o].op = "none"
    BY <1>1, MayCallCases
  <1>4. OrderInv(o)'
    BY <1>0, <1>1, <1>3, GatewayAssumption
    DEF OrderTypeOK, OrderType, CoreType, OrderInv, CallInv, StrayInv, PendingInv, SubmitInv,
        FillsInv, NoNews, Idle, At, Kinds, Ops
  <1>5. ~LateRequests => TimelyInv(o)'
    BY <1>1, <1>3 DEF OrderInv, CallInv, StrayInv, TimelyInv, GoneInv, SweepInv, PriceInv, Idle, At,
                      GoneCodes, NotOpen, NoNews
  <1> QED BY <1>1, <1>2, <1>4, <1>5, OneOrder

\* amendPrice() begins: the order rests at the price it was submitted with.
LEMMA AmendStep ==
  ASSUME GatewayInv, NEW o \in Orders, Amend(o) PROVE GatewayInv'
  <1> USE DEF GatewayInv
  <1>0. OrderTypeOK(o) BY OrderTypes
  <1>1. /\ call'[o] = [op |-> "amend", at |-> "gate", reply |-> NoReply, listed |-> 0]
        /\ core'[o] = [credited |-> core[o].credited, price |-> core[o].price,
                       calls |-> core[o].calls + 1, market |-> FALSE]
        /\ MayCall(o, "amend") /\ StepOf(o)
        /\ UNCHANGED <<order, reports, pending, news, pushed, sweep>>
    BY DEF Amend, Begin, TypeOK, venueVars, StepOf
  <1>2. OrderTypeOK(o)'
    BY <1>0, <1>1, GatewayAssumption DEF OrderTypeOK, CallType, CoreType, Ops
  <1>3. /\ o \in Ours \ sweep.strays /\ Idle(o) /\ sweep.at = "clean" /\ core[o].price = 0
        /\ news[o].op \in {"submit", "amend"}
        /\ news[o].is = "ok" \/ (news[o].op = "amend" /\ news[o].is \in Kinds)
    BY <1>1, MayCallCases
  <1>4. OrderInv(o)'
    BY <1>0, <1>1, <1>3, GatewayAssumption
    DEF OrderTypeOK, OrderType, CoreType, OrderInv, CallInv, StrayInv, PendingInv, SubmitInv,
        FillsInv, Idle, At, Kinds, Ops
  <1>5. ~LateRequests => TimelyInv(o)'
    BY <1>1, <1>3 DEF OrderInv, CallInv, TimelyInv, GoneInv, SweepInv, PriceInv, Idle, At,
                      GoneCodes, NotOpen, NoCall, NoReply, Kinds
  <1> QED BY <1>1, <1>2, <1>4, <1>5, OneOrder

\* cancel() begins, for a leg or for the sweep.
LEMMA CancelStep ==
  ASSUME GatewayInv, NEW o \in Orders, Cancel(o) \/ SweepCancel(o) PROVE GatewayInv'
  <1> USE DEF GatewayInv
  <1>0. OrderTypeOK(o) BY OrderTypes
  <1>1. PICK market \in BOOLEAN :
          /\ call'[o] = [op |-> "cancel", at |-> "waiting", reply |-> NoReply, listed |-> 0]
          /\ core'[o] = [credited |-> core[o].credited, price |-> core[o].price,
                         calls |-> core[o].calls + 1, market |-> market]
          /\ pending'[o] = pending[o] \cup {"cancel"} /\ StepOf(o)
          /\ UNCHANGED <<order, reports, news, pushed, sweep>>
    BY <1>0 DEF Cancel, SweepCancel, Begin, Send, TypeOK, venueVars, StepOf, OrderTypeOK, CoreType
  <1>2. OrderTypeOK(o)'
    BY <1>0, <1>1, GatewayAssumption DEF OrderTypeOK, CallType, CoreType, Ops
  <1>3. /\ o \in Ours /\ Idle(o) /\ (o \in sweep.strays \/ sweep.at = "clean") /\ sweep.at # "down"
        /\ news[o].op = "submit" => news[o].is \notin Kinds
        /\ o \notin sweep.strays => news[o].op # "none"
    <2>1. CASE Cancel(o)
      BY <2>1, <1>0, MayCallCases DEF Cancel, OrderTypeOK, NewsType, NoNews, Kinds
    <2>2. CASE SweepCancel(o)
      BY <2>2, <1>0 DEF SweepCancel, HasPrefix, OrderInv, StrayInv, OrderTypeOK, NewsType, NoNews,
         Kinds
    <2> QED BY <2>1, <2>2
  <1>4. OrderInv(o)'
    BY <1>0, <1>1, <1>3, GatewayAssumption
    DEF OrderTypeOK, OrderType, CoreType, OrderInv, CallInv, StrayInv, PendingInv, SubmitInv,
        FillsInv, Idle, At, Kinds, Ops
  <1>5. ~LateRequests => TimelyInv(o)'
    BY <1>1, <1>3 DEF OrderInv, CallInv, TimelyInv, GoneInv, SweepInv, PriceInv, Idle, At,
                      GoneCodes, NotOpen, NoReply
  <1> QED BY <1>1, <1>2, <1>4, <1>5, OneOrder

\* What the gateway makes of an answer to a submit or an amend: a reject only of an
\* answer that is neither "ok" nor one it takes for ambiguous.
LEMMA Outcomes ==
  ASSUME NEW reply
  PROVE  /\ RejectKind(reply) \in Kinds
         /\ reply = "ok" => SubmitOutcome(reply) = "ok" /\ AmendOutcome(reply) = "ok" /\ CancelOutcome(reply) = "acked"
         /\ reply # "ok" /\ IsAmbiguousOutcome(reply) =>
              SubmitOutcome(reply) = "unknown" /\ AmendOutcome(reply) = "unknown" /\ CancelOutcome(reply) = "unknown"
         /\ reply # "ok" /\ ~IsAmbiguousOutcome(reply) =>
              SubmitOutcome(reply) \in Kinds /\ AmendOutcome(reply) \in Kinds /\ CancelOutcome(reply) \in Kinds
  <1>1. RejectKind(reply) \in Kinds
    BY DEF RejectKind, Kinds
  <1>2. CASE reply = "ok"
    BY <1>1, <1>2, Zenon DEF SubmitOutcome, AmendOutcome, CancelOutcome, IsAmbiguousOutcome
  <1>3. CASE reply # "ok" /\ IsAmbiguousOutcome(reply)
    BY <1>1, <1>3, Zenon DEF SubmitOutcome, AmendOutcome, CancelOutcome
  <1>4. CASE reply # "ok" /\ ~IsAmbiguousOutcome(reply)
    BY <1>1, <1>4, Zenon DEF SubmitOutcome, AmendOutcome, CancelOutcome
  <1> QED BY <1>1, <1>2, <1>3, <1>4

\* A call that ends without news of an order gone: nothing but the call and the news changes.
LEMMA ReturnEffect ==
  ASSUME TypeOK, NEW o \in Orders, NEW what, Return(o, what)
  PROVE  /\ call'[o] = NoCall
         /\ news'[o] = [op |-> call[o].op, is |-> what, inHistory |-> FALSE]
         /\ call' = [call EXCEPT ![o] = call'[o]] /\ news' = [news EXCEPT ![o] = news'[o]]
         /\ call[o].op \in {"submit", "amend"} /\ what \in {"ok", "unknown"} \cup Kinds => news'[o] \in NewsType
         /\ call[o].op = "cancel" /\ what \in {"acked", "unknown"} \cup Kinds => news'[o] \in NewsType
  BY DEF Return, TypeOK, NewsType

\* A call that has sent nothing yet ends in a reject or an exception.
LEMMA EarlyReturn ==
  ASSUME GatewayInv, NEW o \in Orders, At(o, "gate") \/ At(o, "lookup"),
         NEW what \in {"unknown"} \cup Kinds, Return(o, what),
         UNCHANGED <<venueVars, pending, core, stream, pushed, sweep, crashes>>
  PROVE  GatewayInv'
  <1> USE DEF GatewayInv
  <1>0. OrderTypeOK(o) BY OrderTypes
  <1>1. /\ call'[o] = NoCall /\ news'[o] = [op |-> call[o].op, is |-> what, inHistory |-> FALSE]
        /\ StepOf(o) /\ UNCHANGED <<order, reports, pending, core, pushed, sweep>>
    BY ReturnEffect DEF venueVars, StepOf, TypeOK
  <1>2. call[o].op \in {"submit", "amend"} /\ call[o].reply = NoReply
    BY DEF OrderInv, CallInv
  <1>3. OrderTypeOK(o)'
    BY <1>0, <1>1, <1>2, GatewayAssumption DEF OrderTypeOK, CallType, NewsType, NoCall
  <1>4. OrderInv(o)'
    BY <1>0, <1>1, <1>2
    DEF OrderTypeOK, OrderType, OrderInv, CallInv, StrayInv, PendingInv, SubmitInv,
        FillsInv, Idle, At, Kinds, Ops, NoCall
  <1>5. ~LateRequests => TimelyInv(o)'
    BY <1>1, <1>2 DEF OrderInv, CallInv, SubmitInv, TimelyInv, GoneInv, SweepInv, PriceInv, Idle,
       At, GoneCodes, NotOpen, NoReply, NoCall, NoNews, Kinds
  <1> QED BY <1>1, <1>3, <1>4, <1>5, OneOrder

\* requireEventStream().
LEMMA PassGateStep ==
  ASSUME GatewayInv, NEW o \in Orders, PassGate(o) PROVE GatewayInv'
  <1> USE DEF GatewayInv
  <1>1. CASE Return(o, "Throttled")
    BY <1>1, EarlyReturn DEF PassGate, Kinds
  <1>2. CASE call' = [call EXCEPT ![o].at = "lookup"] /\ UNCHANGED news
    <2>0. OrderTypeOK(o) BY OrderTypes
    <2>1. /\ call'[o] = [call[o] EXCEPT !.at = "lookup"] /\ At(o, "gate")
          /\ StepOf(o) /\ UNCHANGED <<order, reports, pending, news, core, pushed, sweep>>
      BY <1>2 DEF PassGate, venueVars, StepOf, TypeOK
    <2>2. OrderTypeOK(o)'
      BY <2>0, <2>1 DEF OrderTypeOK, CallType
    <2>3. OrderInv(o)'
      BY <2>0, <2>1
      DEF OrderTypeOK, CallType, OrderInv, CallInv, StrayInv, PendingInv, SubmitInv, FillsInv,
          Idle, At, NoCall
    <2>4. ~LateRequests => TimelyInv(o)'
      BY <2>0, <2>1 DEF OrderTypeOK, CallType, TimelyInv, GoneInv, SweepInv, PriceInv, Idle, At,
         NotOpen
    <2> QED BY <2>1, <2>2, <2>3, <2>4, OneOrder
  <1> QED BY <1>1, <1>2 DEF PassGate

\* placeOrder() and amendOrder(), up to the request.
LEMMA LookupStep ==
  ASSUME GatewayInv, NEW o \in Orders, Lookup(o) PROVE GatewayInv'
  <1> USE DEF GatewayInv
  <1>1. CASE NoPrecisions(o) /\ UNCHANGED pending
    BY <1>1, EarlyReturn DEF Lookup, NoPrecisions, Kinds
  <1>2. CASE call' = [call EXCEPT ![o].at = "waiting"] /\ Send(o, call[o].op) /\ UNCHANGED news
    <2>0. OrderTypeOK(o) BY OrderTypes
    <2>1. /\ call'[o] = [call[o] EXCEPT !.at = "waiting"] /\ At(o, "lookup")
          /\ pending'[o] = pending[o] \cup {call[o].op}
          /\ StepOf(o) /\ UNCHANGED <<order, reports, news, core, pushed, sweep>>
      BY <1>2 DEF Lookup, Send, venueVars, StepOf, TypeOK
    <2>2. call[o].op \in {"submit", "amend"} /\ call[o].reply = NoReply
      BY <2>1 DEF OrderInv, CallInv
    <2>3. OrderTypeOK(o)'
      BY <2>0, <2>1, <2>2 DEF OrderTypeOK, CallType, Ops
    <2>4. OrderInv(o)'
      BY <2>0, <2>1, <2>2
      DEF OrderTypeOK, CallType, OrderInv, CallInv, StrayInv, PendingInv, SubmitInv, FillsInv,
          Idle, At, NoCall, Ops
    <2>5. ~LateRequests => TimelyInv(o)'
      BY <2>0, <2>1, <2>2 DEF OrderTypeOK, CallType, OrderInv, CallInv, TimelyInv, GoneInv,
         SweepInv, PriceInv, Idle, At, NotOpen
    <2> QED BY <2>1, <2>3, <2>4, <2>5, OneOrder
  <1> QED BY <1>1, <1>2 DEF Lookup

\* request() failed: the order is where it was, and the request is withdrawn or late.
LEMMA TransportFailsStep ==
  ASSUME GatewayInv, NEW o \in Orders, TransportFails(o) PROVE GatewayInv'
  <1> USE DEF GatewayInv
  <1>0. OrderTypeOK(o) BY OrderTypes
  <1>1. /\ call'[o] = NoCall /\ news'[o] = [op |-> call[o].op, is |-> "unknown", inHistory |-> FALSE]
        /\ At(o, "waiting")
        /\ pending'[o] = pending[o] \ {call[o].op} \/ (LateRequests /\ pending'[o] = pending[o])
        /\ StepOf(o) /\ UNCHANGED <<order, reports, core, pushed, sweep>>
    BY ReturnEffect DEF TransportFails, venueVars, StepOf, TypeOK
  <1>2. call[o].op \in Ops
    BY <1>1 DEF OrderInv, CallInv
  <1>3. OrderTypeOK(o)'
    BY <1>0, <1>1, <1>2, GatewayAssumption DEF OrderTypeOK, CallType, NewsType, NoCall, Ops
  <1>4. OrderInv(o)'
    BY <1>0, <1>1, <1>2
    DEF OrderTypeOK, OrderType, OrderInv, CallInv, StrayInv, PendingInv, SubmitInv,
        FillsInv, Idle, At, Kinds, Ops, NoCall
  <1>5. ~LateRequests => TimelyInv(o)'
    BY <1>1, <1>2 DEF OrderInv, CallInv, SubmitInv, TimelyInv, GoneInv, SweepInv, PriceInv, Idle,
       At, GoneCodes, NotOpen, NoReply, NoCall, NoNews, Kinds, Ops
  <1> QED BY <1>1, <1>3, <1>4, <1>5, OneOrder

\* The answer of a submit is read: one the gateway takes for a reject is not ambiguous.
LEMMA ReadSubmitStep ==
  ASSUME GatewayInv, NEW o \in Orders, ReadSubmitReply(o) PROVE GatewayInv'
  <1> USE DEF GatewayInv
  <1>0. OrderTypeOK(o) BY OrderTypes
  <1>1. /\ call'[o] = NoCall
        /\ news'[o] = [op |-> call[o].op, is |-> SubmitOutcome(call[o].reply), inHistory |-> FALSE]
        /\ At(o, "waiting") /\ call[o].op = "submit" /\ call[o].reply # NoReply
        /\ StepOf(o) /\ UNCHANGED <<order, reports, pending, core, pushed, sweep>>
    BY ReturnEffect DEF ReadSubmitReply, venueVars, StepOf, TypeOK
  <1>2. /\ SubmitOutcome(call[o].reply) \in {"ok", "unknown"} \cup Kinds
        /\ KnownAmbiguities /\ SubmitOutcome(call[o].reply) \in Kinds =>
             call[o].reply \notin {"ok", NoReply} \cup Ambiguities
    BY <1>1, Outcomes DEF KnownAmbiguities, Kinds
  <1>3. OrderTypeOK(o)'
    BY <1>0, <1>1, <1>2, GatewayAssumption DEF OrderTypeOK, CallType, NewsType, NoCall
  <1>4. OrderInv(o)'
    BY <1>0, <1>1, <1>2
    DEF OrderTypeOK, OrderType, OrderInv, CallInv, StrayInv, PendingInv, SubmitInv,
        FillsInv, Idle, At, Kinds, Ops, NoCall
  <1>5. ~LateRequests => TimelyInv(o)'
    BY <1>1, <1>2 DEF OrderInv, CallInv, SubmitInv, TimelyInv, GoneInv, SweepInv, PriceInv, Idle,
       At, GoneCodes, NotOpen, NoReply, NoCall, NoNews, Kinds, Ops
  <1> QED BY <1>1, <1>3, <1>4, <1>5, OneOrder

\* The answer of an amend is read, and the core's price follows it.
LEMMA ReadAmendStep ==
  ASSUME GatewayInv, NEW o \in Orders, ReadAmendReply(o) PROVE GatewayInv'
  <1> USE DEF GatewayInv
  <1>0. OrderTypeOK(o) BY OrderTypes
  <1>1. /\ call'[o] = NoCall
        /\ news'[o] = [op |-> call[o].op, is |-> AmendOutcome(call[o].reply), inHistory |-> FALSE]
        /\ At(o, "waiting") /\ call[o].op = "amend" /\ call[o].reply # NoReply
        /\ core'[o] = [credited |-> core[o].credited, calls |-> core[o].calls, market |-> core[o].market,
                       price |-> IF AmendOutcome(call[o].reply) = "ok" THEN 1 ELSE core[o].price]
        /\ StepOf(o) /\ UNCHANGED <<order, reports, pending, pushed, sweep>>
    BY <1>0, ReturnEffect DEF ReadAmendReply, venueVars, StepOf, TypeOK, OrderTypeOK, CoreType
  <1>2. /\ AmendOutcome(call[o].reply) \in {"ok", "unknown"} \cup Kinds
        /\ AmendOutcome(call[o].reply) = "ok" => call[o].reply = "ok"
        /\ KnownAmbiguities /\ AmendOutcome(call[o].reply) \in Kinds =>
             call[o].reply \notin {"ok", NoReply} \cup Ambiguities
    BY <1>1, Outcomes DEF KnownAmbiguities, Kinds
  <1>3. OrderTypeOK(o)'
    BY <1>0, <1>1, <1>2, GatewayAssumption DEF OrderTypeOK, CallType, CoreType, NewsType, NoCall
  <1>4. OrderInv(o)'
    BY <1>0, <1>1, <1>2
    DEF OrderTypeOK, OrderType, CoreType, OrderInv, CallInv, StrayInv, PendingInv, SubmitInv,
        FillsInv, Idle, At, Kinds, Ops, NoCall
  <1>5. ~LateRequests => TimelyInv(o)'
    BY <1>1, <1>2 DEF OrderInv, CallInv, SubmitInv, TimelyInv, GoneInv, SweepInv, PriceInv, Idle,
       At, GoneCodes, NotOpen, NoReply, NoCall, NoNews, Kinds, Ops
  <1> QED BY <1>1, <1>3, <1>4, <1>5, OneOrder

\* cancel() ends without having found the order gone.
LEMMA CancelReturn ==
  ASSUME GatewayInv, NEW o \in Orders, ~Idle(o), call[o].op = "cancel",
         NEW what \in {"acked", "unknown"} \cup Kinds, Return(o, what),
         what = "acked" => call[o].reply = "ok",
         At(o, "waiting") => call[o].reply # NoReply,
         UNCHANGED <<venueVars, pending, core, stream, pushed, sweep, crashes>>
  PROVE  GatewayInv'
  <1> USE DEF GatewayInv
  <1>0. OrderTypeOK(o) BY OrderTypes
  <1>1. /\ call'[o] = NoCall
        /\ news'[o] = [op |-> call[o].op, is |-> what, inHistory |-> FALSE]
        /\ StepOf(o) /\ UNCHANGED <<order, reports, pending, core, pushed, sweep>>
    BY ReturnEffect DEF venueVars, StepOf, TypeOK
  <1>2. OrderTypeOK(o)'
    BY <1>0, <1>1, GatewayAssumption DEF OrderTypeOK, CallType, NewsType, NoCall
  <1>3. OrderInv(o)'
    BY <1>0, <1>1
    DEF OrderTypeOK, OrderType, OrderInv, CallInv, StrayInv, PendingInv, SubmitInv,
        FillsInv, Idle, At, Kinds, Ops, NoCall
  <1>4. ~LateRequests => TimelyInv(o)'
    BY <1>1 DEF TimelyInv, GoneInv, SweepInv, PriceInv, Idle, At, GoneCodes, NotOpen, NoReply,
       NoCall, Kinds
  <1> QED BY <1>1, <1>2, <1>3, <1>4, OneOrder

\* The answer of a cancel is read.
LEMMA ReadCancelStep ==
  ASSUME GatewayInv, NEW o \in Orders, ReadCancelReply(o) PROVE GatewayInv'
  <1> USE DEF GatewayInv
  <1>1. CASE Return(o, CancelOutcome(call[o].reply))
    <2>1. /\ CancelOutcome(call[o].reply) \in {"acked", "unknown"} \cup Kinds
          /\ CancelOutcome(call[o].reply) = "acked" => call[o].reply = "ok"
      BY Outcomes DEF Kinds
    <2> QED BY <1>1, <2>1, CancelReturn DEF ReadCancelReply, Idle, At
  <1>2. CASE IsOrderGone(call[o].reply) /\ call' = [call EXCEPT ![o].at = "executions"] /\ UNCHANGED news
    <2>0. OrderTypeOK(o) BY OrderTypes
    <2>1. /\ call'[o] = [op |-> call[o].op, at |-> "executions", reply |-> call[o].reply,
                         listed |-> call[o].listed]
          /\ At(o, "waiting") /\ call[o].op = "cancel" /\ call[o].reply \in GoneCodes
          /\ StepOf(o) /\ UNCHANGED <<order, reports, pending, news, core, pushed, sweep>>
      BY <1>2, <2>0 DEF ReadCancelReply, IsOrderGone, venueVars, StepOf, TypeOK, OrderTypeOK,
         CallType
    <2>2. OrderTypeOK(o)'
      BY <2>0, <2>1 DEF OrderTypeOK, CallType
    <2>3. OrderInv(o)'
      BY <2>0, <2>1
      DEF OrderTypeOK, OrderInv, CallInv, StrayInv, PendingInv, SubmitInv, FillsInv, Idle, At,
          NoCall, GoneCodes, NoReply
    <2>4. ~LateRequests => TimelyInv(o)'
      BY <2>0, <2>1 DEF OrderTypeOK, TimelyInv, GoneInv, SweepInv, PriceInv, Idle, At, NotOpen,
         GoneCodes
    <2> QED BY <2>1, <2>2, <2>3, <2>4, OneOrder
  <1> QED BY <1>1, <1>2 DEF ReadCancelReply

\* reconcileMissedFills() has the list of executions.
LEMMA ListExecutionsStep ==
  ASSUME GatewayInv, NEW o \in Orders, ListExecutions(o) PROVE GatewayInv'
  <1> USE DEF GatewayInv
  <1>0. OrderTypeOK(o) BY OrderTypes
  <1>1. /\ call'[o] = [op |-> call[o].op, at |-> "history", reply |-> call[o].reply,
                       listed |-> reports[o].indexed]
        /\ At(o, "executions")
        /\ StepOf(o) /\ UNCHANGED <<order, reports, pending, news, core, pushed, sweep>>
    BY DEF ListExecutions, venueVars, StepOf, TypeOK
  <1>2. OrderTypeOK(o)'
    BY <1>0, <1>1 DEF OrderTypeOK, CallType, ReportType
  <1>3. OrderInv(o)'
    BY <1>0, <1>1
    DEF OrderTypeOK, OrderInv, CallInv, StrayInv, PendingInv, SubmitInv, FillsInv, Idle, At, NoCall,
        GoneCodes, NoReply
  <1>4. ~LateRequests => TimelyInv(o)'
    BY <1>0, <1>1 DEF OrderTypeOK, TimelyInv, GoneInv, SweepInv, PriceInv, Idle, At, NotOpen,
       GoneCodes
  <1> QED BY <1>1, <1>2, <1>3, <1>4, OneOrder

\* reconcileMissedFills() ends: an order reported gone, with a history, is closed, and
\* as many executions were listed as it has.
LEMMA ReconcileStep ==
  ASSUME GatewayInv, NEW o \in Orders, Reconcile(o) PROVE GatewayInv'
  <1> USE DEF GatewayInv
  <1>0. OrderTypeOK(o) BY OrderTypes
  <1>1. CASE NotIndexedYet(o)
    <2>1. /\ call'[o] = NoCall /\ news'[o] = [op |-> "cancel", is |-> "unknown", inHistory |-> TRUE]
          /\ At(o, "history")
          /\ StepOf(o) /\ UNCHANGED <<order, reports, pending, core, pushed, sweep>>
      BY <1>1 DEF Reconcile, venueVars, StepOf, TypeOK
    <2>2. OrderTypeOK(o)'
      BY <1>0, <2>1, GatewayAssumption DEF OrderTypeOK, CallType, NewsType, NoCall
    <2>3. OrderInv(o)'
      BY <1>0, <2>1
      DEF OrderTypeOK, OrderType, OrderInv, CallInv, StrayInv, PendingInv, SubmitInv,
          FillsInv, Idle, At, Kinds, Ops, NoCall
    <2>4. ~LateRequests => TimelyInv(o)'
      BY <2>1 DEF OrderInv, CallInv, TimelyInv, GoneInv, SweepInv, PriceInv, Idle, At, GoneCodes,
                  NotOpen, NoReply, NoCall
    <2> QED BY <2>1, <2>2, <2>3, <2>4, OneOrder
  <1>2. CASE ~NotIndexedYet(o)
    <2>1. /\ call'[o] = NoCall /\ news'[o] = [op |-> "cancel", is |-> "gone", inHistory |-> InHistory(o)]
          /\ core'[o] = [credited |-> core[o].credited \cup (1..call[o].listed), calls |-> core[o].calls,
                         market |-> core[o].market, price |-> core[o].price]
          /\ At(o, "history")
          /\ StepOf(o) /\ UNCHANGED <<order, reports, pending, pushed, sweep>>
      BY <1>0, <1>2 DEF Reconcile, Credit, venueVars, StepOf, TypeOK, OrderTypeOK, CoreType
    <2>2. /\ call[o].op = "cancel" /\ call[o].reply \in GoneCodes
          /\ call[o].listed <= order[o].filled /\ order[o].filled <= MaxQty
          /\ order[o].filled \in Nat /\ call[o].listed \in Nat /\ InHistory(o) \in BOOLEAN
      BY <1>0, <2>1, GatewayAssumption
      DEF OrderInv, CallInv, OrderTypeOK, OrderType, CallType, ReportType, InHistory
    <2>3. 1..call[o].listed \subseteq 1..order[o].filled /\ 1..order[o].filled \subseteq 1..MaxQty
      BY <2>2, GatewayAssumption
    <2>4. InHistory(o) => 1..call[o].listed = 1..order[o].filled
      BY <1>2, <2>2 DEF NotIndexedYet
    <2>5. OrderTypeOK(o)'
      BY <1>0, <2>1, <2>2, <2>3, GatewayAssumption
         DEF OrderTypeOK, CallType, CoreType, NewsType, NoCall
    <2>6. core[o].credited \subseteq 1..order[o].filled
      BY DEF OrderInv, FillsInv
    <2>7. OrderInv(o)'
      BY <1>0, <2>1, <2>2, <2>3, <2>6
      DEF OrderTypeOK, OrderType, CoreType, OrderInv, CallInv, StrayInv, PendingInv, SubmitInv,
          FillsInv, Idle, At, Kinds, Ops, NoCall
    <2>8. ~LateRequests => TimelyInv(o)'
      <3>1. InHistory(o) => core'[o].credited = 1..order[o].filled
        <4>1. core[o].credited \cup (1..order[o].filled) = 1..order[o].filled
          BY <2>6
        <4>2. core'[o].credited = core[o].credited \cup (1..call[o].listed)
          BY <2>1
        <4> QED BY <2>4, <4>1, <4>2
      <3> QED BY <2>1, <2>2, <3>1 DEF TimelyInv, GoneInv, SweepInv, PriceInv, Idle, At, GoneCodes,
                                      NotOpen, NoReply, NoCall
    <2> QED BY <2>1, <2>5, <2>7, <2>8, OneOrder
  <1> QED BY <1>1, <1>2

\* A read of reconcileMissedFills() failed.
LEMMA ReconcileFailsStep ==
  ASSUME GatewayInv, NEW o \in Orders, ReconcileFails(o) PROVE GatewayInv'
  <1>1. call[o].op = "cancel" /\ ~Idle(o) /\ ~At(o, "waiting")
    BY DEF ReconcileFails, GatewayInv, OrderInv, CallInv, Idle, At
  <1> QED BY <1>1, CancelReturn DEF ReconcileFails

\* The private stream hands an execution on.
LEMMA DeliverStep ==
  ASSUME GatewayInv, NEW o \in Orders, Deliver(o) PROVE GatewayInv'
  <1> USE DEF GatewayInv
  <1>0. OrderTypeOK(o) BY OrderTypes
  <1>a. PICK x \in pushed[o] :
          /\ pushed' = [pushed EXCEPT ![o] = @ \ {x}] /\ Credit(o, {x})
          /\ UNCHANGED <<venueVars, pending, call, news, stream, sweep, crashes>>
    BY DEF Deliver
  <1>1. /\ pushed'[o] = pushed[o] \ {x}
        /\ core'[o] = [credited |-> core[o].credited \cup {x}, calls |-> core[o].calls,
                       market |-> core[o].market, price |-> core[o].price]
        /\ StepOf(o) /\ UNCHANGED <<order, reports, pending, call, news, sweep>>
    BY <1>0, <1>a DEF Credit, venueVars, StepOf, TypeOK, OrderTypeOK, CoreType
  <1>2. OrderTypeOK(o)'
    BY <1>0, <1>1 DEF OrderTypeOK, CoreType
  <1>3. OrderInv(o)'
    BY <1>0, <1>1
    DEF OrderTypeOK, OrderInv, CallInv, StrayInv, PendingInv, SubmitInv, FillsInv, Idle, At
  <1>4. x \in 1..order[o].filled
    BY <1>1 DEF OrderInv, FillsInv
  <1>5. core[o].credited = 1..order[o].filled => core'[o].credited = core[o].credited
    BY <1>1, <1>4
  <1>6. ~LateRequests => TimelyInv(o)'
    <2> SUFFICES ASSUME ~LateRequests PROVE TimelyInv(o)'  OBVIOUS
    <2>1. news[o].is = "gone" /\ news[o].inHistory => core'[o].credited = 1..order[o].filled
      BY <1>5 DEF TimelyInv, GoneInv
    <2>2. core'[o].price = core[o].price /\ UNCHANGED <<order, reports, pending, call, news, sweep>>
      BY <1>1
    <2> QED BY <2>1, <2>2 DEF TimelyInv, GoneInv, SweepInv, PriceInv, Idle, At, NotOpen
  <1> QED BY <1>1, <1>2, <1>3, <1>6, OneOrder

-----------------------------------------------------------------------------
(* The venue *)

\* An answer reaches the call that waits for it, or nobody.
LEMMA AnswerEffect ==
  ASSUME TypeOK, NEW o \in Orders, NEW op, NEW replies, Answer(o, op, replies)
  PROVE  /\ call' = [call EXCEPT ![o] = call'[o]]
         /\ call'[o] = [op |-> call[o].op, at |-> call[o].at, reply |-> call'[o].reply,
                        listed |-> call[o].listed]
         /\ IF At(o, "waiting") /\ call[o].op = op /\ call[o].reply = NoReply
            THEN call'[o].reply \in replies ELSE call'[o].reply = call[o].reply
  <1>0. OrderTypeOK(o) BY OrderTypes
  <1>1. CASE At(o, "waiting") /\ call[o].op = op /\ call[o].reply = NoReply
    <2>1. PICK r \in replies : call' = [call EXCEPT ![o].reply = r]
      BY <1>1 DEF Answer
    <2> QED BY <1>0, <1>1, <2>1 DEF TypeOK, OrderTypeOK, CallType, At
  <1>2. CASE ~(At(o, "waiting") /\ call[o].op = op /\ call[o].reply = NoReply)
    BY <1>0, <1>2 DEF Answer, TypeOK, OrderTypeOK, CallType
  <1> QED BY <1>1, <1>2

\* The venue executes a request and answers so, or ambiguously.
LEMMA VenueExecutesStep ==
  ASSUME GatewayInv, NEW o \in Orders, NEW op \in pending[o], Executes(o, op),
         \/ op = "submit" /\ order[o].status = "none" /\ Status(o, "open")
         \/ op = "amend" /\ order[o].status = "open" /\ order' = [order EXCEPT ![o].price = 1]
         \/ op = "cancel" /\ ~NotOpen(o) /\ Status(o, "pendingCancel"),
         UNCHANGED <<reports, news, core, stream, pushed, sweep, crashes>>
  PROVE  GatewayInv'
  <1> USE DEF GatewayInv
  <1>0. OrderTypeOK(o) BY OrderTypes
  <1>a. Answer(o, op, {"ok"} \cup Ambiguities)
    BY DEF Executes
  <1>b. call' = [call EXCEPT ![o] = call'[o]]
    BY <1>a, AnswerEffect, Zenon
  <1>1. /\ pending'[o] = pending[o] \ {op} /\ StepOf(o)
        /\ order'[o] \in OrderType
        /\ UNCHANGED <<reports, news, core, pushed, sweep>>
    BY <1>0, <1>b DEF Executes, Took, Status, StepOf, TypeOK, OrderTypeOK, OrderType
  <1>2. /\ call'[o] = [op |-> call[o].op, at |-> call[o].at, reply |-> call'[o].reply,
                       listed |-> call[o].listed]
        /\ IF At(o, "waiting") /\ call[o].op = op /\ call[o].reply = NoReply
           THEN call'[o].reply \in {"ok"} \cup Ambiguities ELSE call'[o].reply = call[o].reply
    BY <1>a, AnswerEffect, Zenon
  <1>3. OrderTypeOK(o)'
    BY <1>0, <1>1, <1>2 DEF OrderTypeOK, OrderType, CallType
  <1>4. CASE op = "submit" /\ order[o].status = "none" /\ Status(o, "open")
    <2>1. order'[o].status = "open" /\ order'[o].price = order[o].price /\ order'[o].filled = order[o].filled
      BY <1>0, <1>4 DEF Status, OrderTypeOK, OrderType, TypeOK
    <2>2. OrderInv(o)'
      BY <1>0, <1>1, <1>2, <2>1, <1>4, GatewayAssumption
      DEF OrderTypeOK, OrderType, CallType, ReportType, OrderInv, CallInv, StrayInv, PendingInv,
          SubmitInv, FillsInv, Idle, At, NoCall, NoNews, GoneCodes, NoReply, Ops, Kinds
    <2>3. ~LateRequests => TimelyInv(o)'
      BY <1>0, <1>1, <1>2, <2>1, <1>4, GatewayAssumption
      DEF OrderInv, CallInv, StrayInv, PendingInv, SubmitInv, TimelyInv, GoneInv, SweepInv,
          PriceInv, Idle, At, NotOpen, NoNews, GoneCodes, NoReply, NoCall, Ops
    <2> QED BY <1>1, <1>3, <2>2, <2>3, OneOrder
  <1>5. CASE op = "amend" /\ order[o].status = "open" /\ order' = [order EXCEPT ![o].price = 1]
    <2>1. order'[o].status = "open" /\ order'[o].price = 1 /\ order'[o].filled = order[o].filled
      BY <1>0, <1>5 DEF OrderTypeOK, OrderType, TypeOK
    <2>2. OrderInv(o)'
      BY <1>0, <1>1, <1>2, <2>1, <1>5, GatewayAssumption
      DEF OrderTypeOK, OrderType, CallType, ReportType, OrderInv, CallInv, StrayInv, PendingInv,
          SubmitInv, FillsInv, Idle, At, NoCall, NoNews, GoneCodes, NoReply, Ops, Kinds
    <2>3. ~LateRequests => TimelyInv(o)'
      BY <1>0, <1>1, <1>2, <2>1, <1>5, GatewayAssumption
      DEF OrderInv, CallInv, StrayInv, PendingInv, SubmitInv, TimelyInv, GoneInv, SweepInv,
          PriceInv, Idle, At, NotOpen, NoNews, GoneCodes, NoReply
    <2> QED BY <1>1, <1>3, <2>2, <2>3, OneOrder
  <1>6. CASE op = "cancel" /\ ~NotOpen(o) /\ Status(o, "pendingCancel")
    <2>1. order'[o].status = "pendingCancel" /\ order'[o].price = order[o].price /\ order'[o].filled = order[o].filled
      BY <1>0, <1>6 DEF Status, OrderTypeOK, OrderType, TypeOK
    <2>2. OrderInv(o)'
      BY <1>0, <1>1, <1>2, <2>1, <1>6, GatewayAssumption
      DEF OrderTypeOK, OrderType, CallType, ReportType, OrderInv, CallInv, StrayInv, PendingInv,
          SubmitInv, FillsInv, Idle, At, NotOpen, NoCall, NoNews, GoneCodes, NoReply, Ops, Kinds
    <2>3. ~LateRequests => TimelyInv(o)'
      BY <1>0, <1>1, <1>2, <2>1, <1>6, GatewayAssumption
      DEF OrderInv, CallInv, StrayInv, PendingInv, SubmitInv, TimelyInv, GoneInv, SweepInv,
          PriceInv, Idle, At, NotOpen, NoNews, GoneCodes, NoReply
    <2> QED BY <1>1, <1>3, <2>2, <2>3, OneOrder
  <1> QED BY <1>4, <1>5, <1>6

\* The venue refuses a request: "gone" only about an order that is not open, any other
\* code about an order it left as it was.
LEMMA VenueRefusesStep ==
  ASSUME GatewayInv, NEW o \in Orders, NEW op \in pending[o], NEW replies, Refuses(o, op, replies),
         \/ replies = GoneCodes /\ op # "submit" /\ NotOpen(o)
         \/ replies = Rejections,
         UNCHANGED <<reports, news, core, stream, pushed, sweep, crashes>>
  PROVE  GatewayInv'
  <1> USE DEF GatewayInv
  <1>0. OrderTypeOK(o) BY OrderTypes
  <1>a. Answer(o, op, replies \cup Ambiguities)
    BY DEF Refuses
  <1>b. call' = [call EXCEPT ![o] = call'[o]]
    BY <1>a, AnswerEffect, Zenon
  <1>1. /\ pending'[o] = pending[o] \ {op} /\ StepOf(o)
        /\ UNCHANGED <<order, reports, news, core, pushed, sweep>>
    BY <1>0, <1>b DEF Refuses, Took, StepOf, TypeOK
  <1>c. /\ call'[o] = [op |-> call[o].op, at |-> call[o].at, reply |-> call'[o].reply,
                       listed |-> call[o].listed]
        /\ IF At(o, "waiting") /\ call[o].op = op /\ call[o].reply = NoReply
           THEN call'[o].reply \in replies \cup Ambiguities ELSE call'[o].reply = call[o].reply
    BY <1>a, AnswerEffect, Zenon
  <1>2. /\ call'[o] = [op |-> call[o].op, at |-> call[o].at, reply |-> call'[o].reply,
                       listed |-> call[o].listed]
        /\ \/ call'[o].reply = call[o].reply /\ ~(At(o, "waiting") /\ call[o].op = op /\ call[o].reply = NoReply)
           \/ /\ At(o, "waiting") /\ call[o].op = op /\ call[o].reply = NoReply
              /\ \/ call'[o].reply \in GoneCodes /\ op # "submit" /\ NotOpen(o)
                 \/ call'[o].reply \in Rejections \cup Ambiguities
    BY <1>c
  <1>3. OrderTypeOK(o)'
    BY <1>0, <1>1, <1>2 DEF OrderTypeOK, CallType
  <1>4. OrderInv(o)'
    BY <1>0, <1>1, <1>2, GatewayAssumption
    DEF OrderTypeOK, OrderType, CallType, OrderInv, CallInv, StrayInv, PendingInv, SubmitInv,
        FillsInv, Idle, At, NoCall, NoNews, GoneCodes, NoReply, Ops
  <1>5. ~LateRequests => TimelyInv(o)'
    BY <1>0, <1>1, <1>2, GatewayAssumption
    DEF OrderInv, CallInv, StrayInv, PendingInv, SubmitInv, TimelyInv, GoneInv, SweepInv, PriceInv,
        Idle, At, NotOpen, NoNews, GoneCodes, NoReply, NoCall, Ops
  <1> QED BY <1>1, <1>3, <1>4, <1>5, OneOrder

\* The venue looks at a request and neither executes nor answers it.
LEMMA VenueDropsStep ==
  ASSUME GatewayInv, NEW o \in Orders, NEW op \in pending[o], Took(o, op),
         UNCHANGED <<order, call, reports, news, core, stream, pushed, sweep, crashes>>
  PROVE  GatewayInv'
  <1> USE DEF GatewayInv
  <1>0. OrderTypeOK(o) BY OrderTypes
  <1>1. /\ pending'[o] = pending[o] \ {op} /\ StepOf(o)
        /\ UNCHANGED <<order, call, reports, news, core, pushed, sweep>>
    BY DEF Took, StepOf, TypeOK
  <1>2. OrderTypeOK(o)'
    BY <1>0, <1>1 DEF OrderTypeOK
  <1>3. OrderInv(o)'
    BY <1>1
    DEF OrderInv, CallInv, StrayInv, PendingInv, SubmitInv, FillsInv, Idle, At
  <1>4. ~LateRequests => TimelyInv(o)'
    BY <1>1 DEF TimelyInv, GoneInv, SweepInv, PriceInv, Idle, At, NotOpen
  <1> QED BY <1>1, <1>2, <1>3, <1>4, OneOrder

\* The venue handling a request (create, amend, cancel, query) keeps the invariant.
LEMMA VenueHandlesStep ==
  ASSUME GatewayInv, NEW o \in Orders, NEW op \in Ops, VenueHandles(o, op) PROVE GatewayInv'
  <1>1. op \in pending[o] /\ UNCHANGED <<reports, news, core, stream, pushed, sweep, crashes>>
    BY DEF VenueHandles
  <1>2. CASE \/ op = "submit" /\ order[o].status = "none" /\ Status(o, "open") /\ Executes(o, op)
             \/ /\ op = "amend" /\ order[o].status = "open" /\ Executes(o, op)
                /\ order' = [order EXCEPT ![o].price = 1]
             \/ op = "cancel" /\ ~NotOpen(o) /\ Status(o, "pendingCancel") /\ Executes(o, op)
    BY <1>1, <1>2, VenueExecutesStep
  <1>3. CASE op # "submit" /\ NotOpen(o) /\ Refuses(o, op, GoneCodes)
    BY <1>1, <1>3, VenueRefusesStep
  <1>4. CASE Refuses(o, op, Rejections)
    BY <1>1, <1>4, VenueRefusesStep
  <1>5. CASE Took(o, op) /\ UNCHANGED <<order, call>>
    BY <1>1, <1>5, VenueDropsStep
  <1> QED BY <1>2, <1>3, <1>4, <1>5 DEF VenueHandles

\* An execution: only of an order that is open, so of none reported gone.
LEMMA FillStep ==
  ASSUME GatewayInv, NEW o \in Ours, Fill(o) PROVE GatewayInv'
  <1> USE DEF GatewayInv
  <1> o \in Orders BY DEF Orders
  <1>0. OrderTypeOK(o) BY OrderTypes
  <1>1. /\ order'[o] = [filled |-> order[o].filled + 1, price |-> order[o].price,
                        status |-> IF order[o].filled + 1 = MaxQty THEN "filled" ELSE order[o].status]
        /\ pushed'[o] = pushed[o] \/ pushed'[o] = pushed[o] \cup {order[o].filled + 1}
        /\ ~NotOpen(o) /\ order[o].filled < MaxQty
        /\ StepOf(o) /\ UNCHANGED <<reports, pending, call, news, core, sweep>>
    BY DEF Fill, gatewayVars, StepOf, TypeOK
  <1>2. order[o].filled \in Nat /\ 1..order[o].filled \subseteq 1..(order[o].filled + 1)
    BY <1>0, GatewayAssumption DEF OrderTypeOK, OrderType
  <1>3. OrderTypeOK(o)'
    BY <1>0, <1>1, <1>2, GatewayAssumption DEF OrderTypeOK, OrderType
  <1>4. pushed'[o] \subseteq 1..order'[o].filled /\ core'[o].credited \subseteq 1..order'[o].filled
    BY <1>1, <1>2 DEF OrderInv, FillsInv
  <1>5. OrderInv(o)'
    BY <1>0, <1>1, <1>2, <1>4
    DEF OrderTypeOK, OrderType, ReportType, CallType, OrderInv, CallInv, StrayInv, PendingInv,
        SubmitInv, FillsInv, Idle, At, NotOpen
  <1>6. ~LateRequests => TimelyInv(o)'
    BY <1>0, <1>1 DEF TimelyInv, GoneInv, SweepInv, PriceInv, Idle, At, NotOpen
  <1> QED BY <1>1, <1>3, <1>5, <1>6, OneOrder

\* An open order ends.
LEMMA EndsStep ==
  ASSUME GatewayInv, NEW o \in Ours, Ends(o) PROVE GatewayInv'
  <1> USE DEF GatewayInv
  <1> o \in Orders BY DEF Orders
  <1>0. OrderTypeOK(o) BY OrderTypes
  <1>1. /\ order'[o] = [filled |-> order[o].filled, price |-> order[o].price, status |-> "cancelled"]
        /\ ~NotOpen(o)
        /\ StepOf(o) /\ UNCHANGED <<reports, pending, call, news, core, pushed, sweep>>
    BY <1>0 DEF Ends, Status, gatewayVars, StepOf, TypeOK, OrderTypeOK, OrderType
  <1>2. OrderTypeOK(o)'
    BY <1>0, <1>1 DEF OrderTypeOK, OrderType
  <1>3. OrderInv(o)'
    BY <1>0, <1>1
    DEF OrderInv, CallInv, StrayInv, PendingInv, SubmitInv, FillsInv, Idle, At, NotOpen
  <1>4. ~LateRequests => TimelyInv(o)'
    BY <1>0, <1>1 DEF TimelyInv, GoneInv, SweepInv, PriceInv, Idle, At, NotOpen
  <1> QED BY <1>1, <1>2, <1>3, <1>4, OneOrder

\* The venue's REST index catches up.
LEMMA IndexesStep ==
  ASSUME GatewayInv, NEW o \in Ours, Indexes(o) PROVE GatewayInv'
  <1> USE DEF GatewayInv
  <1> o \in Orders BY DEF Orders
  <1>0. OrderTypeOK(o) BY OrderTypes
  <1>1. /\ \/ /\ reports[o].indexed < order[o].filled
              /\ reports'[o] = [indexed |-> reports[o].indexed + 1, history |-> reports[o].history]
           \/ /\ order[o].status \in {"filled", "cancelled"}
              /\ reports'[o] = [indexed |-> reports[o].indexed, history |-> TRUE]
        /\ StepOf(o) /\ UNCHANGED <<order, pending, call, news, core, pushed, sweep>>
    BY <1>0 DEF Indexes, gatewayVars, StepOf, TypeOK, OrderTypeOK, ReportType
  <1>2. OrderTypeOK(o)'
    <2>1. /\ reports[o].indexed \in 0..MaxQty /\ order[o].filled \in 0..MaxQty
          /\ reports[o].history \in BOOLEAN
      BY <1>0 DEF OrderTypeOK, OrderType, ReportType
    <2>2. reports[o].indexed < order[o].filled => reports[o].indexed + 1 \in 0..MaxQty
      BY <2>1, GatewayAssumption
    <2>3. PICK k \in 0..MaxQty, h \in BOOLEAN : reports'[o] = [indexed |-> k, history |-> h]
      BY <1>1, <2>1, <2>2, Zenon
    <2>4. reports'[o] \in ReportType
      BY <2>3 DEF ReportType
    <2> QED BY <1>0, <1>1, <2>4 DEF OrderTypeOK
  <1>3. OrderInv(o)'
    BY <1>0, <1>1
    DEF OrderTypeOK, OrderType, ReportType, OrderInv, CallInv, StrayInv, PendingInv, SubmitInv,
        FillsInv, Idle, At
  <1>4. ~LateRequests => TimelyInv(o)'
    BY <1>1 DEF TimelyInv, GoneInv, SweepInv, PriceInv, Idle, At, NotOpen
  <1> QED BY <1>1, <1>2, <1>3, <1>4, OneOrder

-----------------------------------------------------------------------------
(* The sweep, the process and the private stream *)

\* A step of the sweep: nothing of any order changes.
LEMMA SweepFrame ==
  ASSUME GatewayInv, sweep' \in SweepType,
         UNCHANGED <<venueVars, gatewayVars, pending, pushed, crashes>>,
         stream' \in [flows : BOOLEAN, live : BOOLEAN],
         \A p \in Orders : StrayInv(p)' /\ PendingInv(p)' /\ (~LateRequests => SweepInv(p)'),
         sweep'.strays = sweep.strays
  PROVE  GatewayInv'
  <1> USE DEF GatewayInv
  <1>1. UNCHANGED <<order, reports, call, news, core, pending, pushed, crashes>>
    BY DEF venueVars, gatewayVars
  <1>2. TypeOK'
    BY <1>1 DEF TypeOK
  <1>3. ASSUME NEW p \in Orders PROVE OrderInv(p)' /\ (~LateRequests => TimelyInv(p)')
    BY <1>1, <1>3 DEF OrderInv, CallInv, SubmitInv, FillsInv, TimelyInv, GoneInv, PriceInv, Idle,
       At, NotOpen
  <1> QED BY <1>2, <1>3

\* Listing the open orders at the start of a stray sweep keeps the invariant.
LEMMA SweepListStep ==
  ASSUME GatewayInv, SweepList PROVE GatewayInv'
  <1> USE DEF GatewayInv
  <1>1. /\ sweep' = [at |-> "cancelling", strays |-> sweep.strays,
                     todo |-> {o \in Orders : order[o].status \in {"open", "pendingCancel"}}]
        /\ sweep.at = "listing" /\ sweep' \in SweepType
        /\ UNCHANGED <<order, reports, call, news, core, pending, pushed, stream, crashes>>
    BY DEF SweepList, SweepType, TypeOK, venueVars, gatewayVars
  <1>2. ASSUME NEW p \in Orders PROVE StrayInv(p)' /\ PendingInv(p)' /\ (~LateRequests => SweepInv(p)')
    BY <1>1, <1>2 DEF OrderInv, StrayInv, PendingInv, SweepInv, Idle, At
  <1> QED BY <1>1, <1>2, SweepFrame DEF SweepList, TypeOK

\* Cancelling the next listed order of a sweep keeps the invariant.
LEMMA SweepStepStep ==
  ASSUME GatewayInv, NEW o \in Orders, SweepStep(o) PROVE GatewayInv'
  <1> USE DEF GatewayInv
  <1>1. /\ sweep.at = "cancelling" /\ o \in sweep.todo
        /\ UNCHANGED <<order, reports, call, news, core, pending, pushed, stream, crashes>>
        /\ sweep \in SweepType
    BY DEF SweepStep, TypeOK, venueVars, gatewayVars
  <1>2. CASE sweep' = [sweep EXCEPT !.at = "failed"]
    <2>1. sweep' = [at |-> "failed", todo |-> sweep.todo, strays |-> sweep.strays]
      BY <1>1, <1>2 DEF SweepType
    <2>2. sweep' \in SweepType
      BY <1>1, <2>1 DEF SweepType
    <2>3. ASSUME NEW p \in Orders PROVE StrayInv(p)' /\ PendingInv(p)' /\ (~LateRequests => SweepInv(p)')
      BY <1>1, <2>1, <2>3 DEF OrderInv, StrayInv, PendingInv, SweepInv, Idle, At
    <2> QED BY <1>1, <2>1, <2>2, <2>3, SweepFrame DEF SweepStep, TypeOK
  <1>3. CASE sweep' = [sweep EXCEPT !.todo = @ \ {o}] /\ (HasPrefix(o) => SweepGoesOn(o))
    <2>1. sweep' = [at |-> "cancelling", todo |-> sweep.todo \ {o}, strays |-> sweep.strays]
      BY <1>1, <1>3 DEF SweepType
    <2>2. sweep' \in SweepType
      BY <1>1, <2>1 DEF SweepType
    <2>3. ~LateRequests /\ o \in sweep.strays => order[o].status # "open"
      BY <1>1, <1>3 DEF HasPrefix, SweepGoesOn, SweepType, TimelyInv, GoneInv, NotOpen
    <2>4. ASSUME NEW p \in Orders PROVE StrayInv(p)' /\ PendingInv(p)' /\ (~LateRequests => SweepInv(p)')
      BY <1>1, <2>1, <2>3, <2>4 DEF OrderInv, StrayInv, PendingInv, TimelyInv, SweepInv, Idle, At
    <2> QED BY <1>1, <2>1, <2>2, <2>4, SweepFrame DEF SweepStep, TypeOK
  <1> QED BY <1>2, <1>3 DEF SweepStep

\* The end of a sweep keeps the invariant.
LEMMA SweepDoneStep ==
  ASSUME GatewayInv, SweepDone PROVE GatewayInv'
  <1> USE DEF GatewayInv
  <1>1. /\ sweep.at = "cancelling" /\ sweep.todo = {} /\ sweep \in SweepType
        /\ sweep' = [at |-> "clean", todo |-> sweep.todo, strays |-> sweep.strays]
        /\ UNCHANGED <<order, reports, call, news, core, pending, pushed, stream, crashes>>
    BY DEF SweepDone, TypeOK, SweepType, venueVars, gatewayVars
  <1>2. sweep' \in SweepType
    BY <1>1 DEF SweepType
  <1>3. ASSUME NEW p \in Orders PROVE StrayInv(p)' /\ PendingInv(p)' /\ (~LateRequests => SweepInv(p)')
    BY <1>1, <1>3 DEF OrderInv, StrayInv, PendingInv, TimelyInv, SweepInv, Idle, At
  <1> QED BY <1>1, <1>2, <1>3, SweepFrame DEF SweepDone, TypeOK

\* A restart of the process, which forgets all the gateway knew, keeps the invariant.
LEMMA RestartStep ==
  ASSUME GatewayInv, Restart PROVE GatewayInv'
  <1> USE DEF GatewayInv
  <1>1. /\ sweep.at = "down" /\ sweep \in SweepType
        /\ ~LateRequests => \A o \in Orders : pending[o] = {}
        /\ sweep' = [at |-> "listing", todo |-> sweep.todo, strays |-> sweep.strays]
        /\ stream' \in [flows : BOOLEAN, live : BOOLEAN]
        /\ UNCHANGED <<order, reports, call, news, core, pending, pushed, crashes>>
    BY DEF Restart, TypeOK, SweepType, venueVars, gatewayVars
  <1>2. sweep' \in SweepType
    BY <1>1 DEF SweepType
  <1>3. ASSUME NEW p \in Orders PROVE StrayInv(p)' /\ PendingInv(p)' /\ (~LateRequests => SweepInv(p)')
    BY <1>1, <1>3 DEF OrderInv, StrayInv, PendingInv, TimelyInv, SweepInv, Idle, At
  <1> QED BY <1>1, <1>2, <1>3, SweepFrame DEF Restart, TypeOK

\* The private stream dies, is noticed dead, or is back: what it carried may be lost.
LEMMA StreamStep ==
  ASSUME GatewayInv, StreamDies \/ StreamNoticed \/ StreamRecovers PROVE GatewayInv'
  <1> USE DEF GatewayInv
  <1>1. /\ UNCHANGED <<order, reports, call, news, core, pending, sweep, crashes>>
        /\ pushed' = pushed \/ pushed' = [o \in Orders |-> {}]
    BY DEF StreamDies, StreamNoticed, StreamRecovers, venueVars, gatewayVars
  <1>2. stream' \in [flows : BOOLEAN, live : BOOLEAN]
    <2>1. CASE StreamDies
      BY <2>1 DEF StreamDies, TypeOK
    <2>2. CASE StreamNoticed
      BY <2>2 DEF StreamNoticed, TypeOK
    <2>3. CASE StreamRecovers
      BY <2>3 DEF StreamRecovers
    <2> QED BY <2>1, <2>2, <2>3
  <1>3. TypeOK'
    BY <1>1, <1>2 DEF TypeOK
  <1>4. ASSUME NEW p \in Orders PROVE OrderInv(p)' /\ (~LateRequests => TimelyInv(p)')
    <2>1. pushed'[p] \subseteq 1..order[p].filled
      BY <1>1 DEF OrderInv, FillsInv
    <2> QED BY <1>1, <2>1 DEF OrderInv, CallInv, StrayInv, PendingInv, SubmitInv, FillsInv,
               TimelyInv, GoneInv, SweepInv, PriceInv, Idle, At, NotOpen
  <1> QED BY <1>3, <1>4

\* The process dies: the calls and the core's books are gone, the venue's orders and the
\* requests under way are not, and what was called for is a stray from now on.
LEMMA CrashStep ==
  ASSUME GatewayInv, Crash PROVE GatewayInv'
  <1> USE DEF GatewayInv
  <1>1. /\ UNCHANGED <<order, reports, pending>> /\ pushed' = [o \in Orders |-> {}]
        /\ call' = [o \in Orders |-> NoCall] /\ news' = [o \in Orders |-> NoNews]
        /\ core' = [o \in Orders |-> NewCore]
        /\ sweep' = [at |-> "down", todo |-> {},
                     strays |-> sweep.strays \cup {o \in Ours : core[o].calls > 0}]
    BY DEF Crash, venueVars
  <1>2. NoCall \in CallType /\ NoNews \in NewsType /\ NewCore \in CoreType
    BY GatewayAssumption DEF CallType, NewsType, CoreType, NoCall, NewCore
  <1>3. sweep' \in SweepType
    BY <1>1 DEF TypeOK, SweepType
  <1>4. crashes' \in 0..MaxCrashes /\ stream' \in [flows : BOOLEAN, live : BOOLEAN]
    BY GatewayAssumption DEF Crash, TypeOK
  <1>5. TypeOK'
    BY <1>1, <1>2, <1>3, <1>4 DEF TypeOK
  <1>6. ASSUME NEW p \in Orders PROVE OrderInv(p)' /\ (~LateRequests => TimelyInv(p)')
    <2>1. p \in Ours \ sweep'.strays => p \in Ours \ sweep.strays /\ core[p].calls = 0
      BY <1>1, <1>6 DEF TypeOK, CoreType
    <2>2. /\ call'[p] = NoCall /\ news'[p] = NoNews /\ core'[p] = NewCore /\ pushed'[p] = {}
          /\ sweep'.at = "down" /\ sweep'.todo = {} /\ UNCHANGED <<order, reports, pending>>
      BY <1>1
    <2>3. order[p].filled \in Nat
      BY GatewayAssumption DEF TypeOK, OrderType
    <2>4. OrderInv(p)'
      BY <2>1, <2>2, <2>3 DEF OrderInv, CallInv, StrayInv, PendingInv, SubmitInv, FillsInv, Idle,
         At, NoCall, NoNews, NewCore, Kinds
    <2>5. TimelyInv(p)'
      BY <2>1, <2>2 DEF OrderInv, StrayInv, TimelyInv, GoneInv, SweepInv, PriceInv, Idle, At,
         NotOpen, NoCall, NoNews, NewCore
    <2> QED BY <2>4, <2>5
  <1> QED BY <1>5, <1>6

-----------------------------------------------------------------------------
(* The theorems *)

\* The invariant holds in a fresh process before its first call.
LEMMA InitInv == Init => GatewayInv
  <1> SUFFICES ASSUME Init PROVE GatewayInv  OBVIOUS
  <1>1. NoCall \in CallType /\ NoNews \in NewsType /\ NewCore \in CoreType
    BY GatewayAssumption DEF CallType, NewsType, CoreType, NoCall, NewCore
  <1>2. Order("open") \in OrderType /\ Order("none") \in OrderType
    BY GatewayAssumption DEF Order, OrderType
  <1>3. \A o \in Orders : order[o] = Order(IF o \in Foreign THEN "open" ELSE "none")
    BY DEF Init
  <1>4. order \in [Orders -> OrderType]
    BY <1>2 DEF Init
  <1>5. TypeOK
    BY <1>1, <1>4, GatewayAssumption DEF Init, TypeOK, ReportType, SweepType
  <1>6. ASSUME NEW o \in Orders PROVE OrderInv(o) /\ TimelyInv(o)
    <2>1. /\ order[o].filled = 0 /\ order[o].price = 0 /\ (o \in Ours => order[o].status = "none")
          /\ reports[o] = [indexed |-> 0, history |-> FALSE] /\ pending[o] = {} /\ pushed[o] = {}
          /\ call[o] = NoCall /\ news[o] = NoNews /\ core[o] = NewCore
          /\ sweep = [at |-> "listing", todo |-> {}, strays |-> {}]
      BY <1>3, GatewayAssumption DEF Init, Order
    <2>2. OrderInv(o)
      BY <2>1 DEF OrderInv, CallInv, StrayInv, PendingInv, SubmitInv, FillsInv, Idle, At,
                  NoCall, NoNews, NewCore, Kinds
    <2>3. TimelyInv(o)
      BY <2>1 DEF TimelyInv, GoneInv, SweepInv, PriceInv, Idle, At, NotOpen, NoCall, NoNews, NewCore
    <2> QED BY <2>2, <2>3
  <1> QED BY <1>5, <1>6 DEF GatewayInv

\* Every step of the gateway, the network and the venue keeps the invariant.
LEMMA NextInv == GatewayInv /\ [Next]_vars => GatewayInv'
  <1> SUFFICES ASSUME GatewayInv, [Next]_vars PROVE GatewayInv'  OBVIOUS
  <1>1. ASSUME NEW o \in Orders, Calls(o) PROVE GatewayInv'
    BY <1>1, SubmitStep, AmendStep, CancelStep, PassGateStep, LookupStep, TransportFailsStep,
       ReadSubmitStep, ReadAmendStep, ReadCancelStep, ListExecutionsStep, ReconcileStep,
       ReconcileFailsStep, DeliverStep DEF Calls
  <1>2. ASSUME NEW o \in Orders, Venue(o) PROVE GatewayInv'
    BY <1>2, VenueHandlesStep, FillStep, EndsStep, IndexesStep DEF Venue
  <1>3. ASSUME NEW o \in Orders, SweepCancel(o) \/ SweepStep(o) PROVE GatewayInv'
    BY <1>3, CancelStep, SweepStepStep
  <1>4. CASE SweepList \/ SweepDone \/ Crash \/ Restart \/ StreamDies \/ StreamNoticed \/ StreamRecovers
    BY <1>4, SweepListStep, SweepDoneStep, CrashStep, RestartStep, StreamStep
  <1>5. CASE UNCHANGED vars
    <2>1. UNCHANGED <<order, reports, pending, call, news, core, stream, pushed, sweep, crashes>>
      BY <1>5 DEF vars
    <2>2. TypeOK'
      BY <2>1 DEF GatewayInv, TypeOK
    <2>3. \A p \in Orders : OrderInv(p)' /\ (~LateRequests => TimelyInv(p)')
      BY <2>1, Frame DEF GatewayInv, Same
    <2> QED BY <2>2, <2>3 DEF GatewayInv
  <1> QED BY <1>1, <1>2, <1>3, <1>4, <1>5 DEF Next

\* The types, and the facts about each order the other theorems rest on, hold always.
THEOREM GatewayInvariant == Spec => []GatewayInv
  BY InitInv, NextInv, PTL DEF Spec

\* For any number of orders, calls and crashes, and even when requests reach the venue
\* late: when every ambiguous answer is one isAmbiguousOutcomeReason() knows, a submit
\* reported as rejected never leaves an order on the venue.
THEOREM RejectsAreDefinitive == ASSUME KnownAmbiguities PROVE Spec => []RejectIsDefinitive
  <1>1. GatewayInv => RejectIsDefinitive
    BY DEF GatewayInv, OrderInv, SubmitInv, RejectIsDefinitive
  <1> QED BY <1>1, GatewayInvariant, PTL

\* When moreover requests are never late, the core knows the price of its orders.
THEOREM PriceIsKnown == ASSUME KnownAmbiguities, ~LateRequests PROVE Spec => []KnownPrice
  <1>1. GatewayInv => KnownPrice
    <2> SUFFICES ASSUME GatewayInv, NEW o \in Orders,
                        Idle(o) /\ news[o].op = "amend" /\ news[o].is # "unknown"
                 PROVE  order[o].price = core[o].price
      BY DEF KnownPrice
    <2>1. o \in Ours \ sweep.strays
      BY DEF GatewayInv, OrderInv, StrayInv, Orders, NoNews
    <2> QED BY <2>1 DEF GatewayInv, TimelyInv, PriceInv
  <1> QED BY <1>1, GatewayInvariant, PTL

\* When requests are never late, an order reported gone is not on the book, ...
THEOREM GoneStaysGone == ASSUME ~LateRequests PROVE Spec => []GoneIsFinal
  <1>1. GatewayInv => GoneIsFinal
    BY DEF GatewayInv, TimelyInv, GoneInv, GoneIsFinal
  <1> QED BY <1>1, GatewayInvariant, PTL

\* ... the core is credited with all of its executions, ...
THEOREM GoneIsCredited == ASSUME ~LateRequests PROVE Spec => []GoneMeansCredited
  <1>1. GatewayInv => GoneMeansCredited
    BY DEF GatewayInv, TimelyInv, GoneInv, GoneMeansCredited
  <1> QED BY <1>1, GatewayInvariant, PTL

\* ... and cancelStrayOrders() leaves no stray open, and the orders of others alone.
THEOREM StraysAreSwept == ASSUME ~LateRequests PROVE Spec => []SweptClean
  <1>1. GatewayInv => SweptClean
    <2> SUFFICES ASSUME GatewayInv PROVE SweptClean  OBVIOUS
    <2>1. sweep.strays \subseteq Orders
      BY DEF GatewayInv, TypeOK, SweepType, Orders
    <2>2. ASSUME sweep.at = "clean", NEW o \in sweep.strays PROVE order[o].status # "open"
      BY <2>1, <2>2 DEF GatewayInv, TimelyInv, SweepInv
    <2>3. ASSUME NEW o \in Foreign PROVE Idle(o) /\ pending[o] = {}
      BY <2>3 DEF GatewayInv, OrderInv, StrayInv, Orders
    <2> QED BY <2>2, <2>3 DEF SweptClean
  <1> QED BY <1>1, GatewayInvariant, PTL

============================================================================
