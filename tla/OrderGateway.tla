---------------------------- MODULE OrderGateway ----------------------------
(***************************************************************************)
(* The execution gateway's order operations (bybit_execution_gateway.cpp)  *)
(* over the REST client's calls and the HTTP session's requests.           *)
(*                                                                         *)
(* Each client order id has a leg thread that calls submitPostOnlyLimit or *)
(* submitReduceOnlyMarket, amendPrice and cancel.  A request travels to    *)
(* the venue, is executed there or not, and is answered; the answer may be *)
(* lost.  The gateway turns what it saw into one of three kinds of news:   *)
(* done, definitively rejected (GatewayError, with a kind) or unknown (any *)
(* other exception).  Fills reach the core over the private stream, which  *)
(* may be dead without the gateway knowing, or out of REST when a cancel   *)
(* finds the order gone.  At startup, stray orders are swept.              *)
(*                                                                         *)
(* The core and the venue are outside the repository: the core is modelled *)
(* by what the gateway's comments say of its reaction to each news.        *)
(***************************************************************************)
EXTENDS Naturals, FiniteSets

CONSTANTS
  Ours,         \* client order ids with the strategy's prefix
  Foreign,      \* open orders of others on the same account
  MaxQty,       \* an order's quantity; every execution fills one unit
  Rejections,   \* codes of definitive rejects the venue answers with
  Ambiguities,  \* answers the venue gives whether or not it executed the request
  LateRequests, \* a request the client gave up on may still reach the venue
  MaxCalls,     \* bound: calls per order
  MaxCrashes    \* bound: crashes of the process

NoReply == "noReply"
\* Answers to an order the venue does not have open.
GoneCodes == {"110001", "110008", "110010"}

ASSUME GatewayAssumption ==
  /\ Ours \cap Foreign = {}
  /\ MaxQty \in Nat /\ MaxCalls \in Nat /\ MaxCrashes \in Nat /\ LateRequests \in BOOLEAN
  /\ (Rejections \cup Ambiguities) \cap (GoneCodes \cup {"ok", NoReply}) = {}

Orders == Ours \cup Foreign

VARIABLES
  order,      \* the venue's orders
  reports,    \* what the venue's REST endpoints already show of them
  pending,    \* per order, requests sent and not yet looked at by the venue
  call,       \* per order, the call the gateway is executing
  news,       \* per order, what the last call told the core
  core,       \* per order, the core's accounting
  stream,     \* the private stream: does it carry events, does isLive() say so
  pushed,     \* per order, executions on their way over the private stream
  sweep,      \* cancelStrayOrders()
  crashes

venueVars   == <<order, reports>>
gatewayVars == <<call, news, core>>
vars == <<order, reports, pending, call, news, core, stream, pushed, sweep, crashes>>

Kinds == {"BenignPostOnlyCross", "MinNotional", "Throttled", "PositionClosed", "Permanent", "Hard"}
Ops == {"submit", "amend", "cancel"}

NoCall == [op |-> "none", at |-> "idle", reply |-> NoReply, listed |-> 0]
NoNews == [op |-> "none", is |-> "none", inHistory |-> FALSE]
NewCore == [credited |-> {}, price |-> 0, calls |-> 0, market |-> FALSE]
Order(status) == [status |-> status, filled |-> 0, price |-> 0]

Init ==
  /\ order = [o \in Orders |-> Order(IF o \in Foreign THEN "open" ELSE "none")]
  /\ reports = [o \in Orders |-> [indexed |-> 0, history |-> FALSE]]
  /\ pending = [o \in Orders |-> {}]
  /\ call = [o \in Orders |-> NoCall] /\ news = [o \in Orders |-> NoNews]
  /\ core = [o \in Orders |-> NewCore]
  /\ stream = [flows |-> TRUE, live |-> TRUE]
  /\ pushed = [o \in Orders |-> {}]
  /\ sweep = [at |-> "listing", todo |-> {}, strays |-> {}]
  /\ crashes = 0

-----------------------------------------------------------------------------
(* Reading an answer *)

\* classifyRejectReason(), on the numeric codes.
RejectKind(code) ==
  CASE code = "30208"                       -> "BenignPostOnlyCross"
    [] code = "110094"                      -> "MinNotional"
    [] code = "10006"                       -> "Throttled"
    [] code = "110017"                      -> "PositionClosed"
    [] code \in {"10029", "30228", "110087"} -> "Permanent"
    [] OTHER                                -> "Hard"

\* isOrderGoneReason().
IsOrderGone_Mutant(reply) == reply \in GoneCodes \cup {"10000", "10016"}
IsOrderGone(reply) == reply \in GoneCodes

\* isAmbiguousOutcomeReason(): server timeout, server error and HTTP 5xx.
IsAmbiguousOutcome_Mutant(reply) == reply \in {"10000", "10016"}
IsAmbiguousOutcome(reply) == reply \in {"10000", "10016", "5xx"}

\* What a submit, an amend and a cancel make of an answer.
SubmitOutcome(reply) ==
  CASE reply = "ok"              -> "ok"
    [] IsAmbiguousOutcome(reply) -> "unknown"
    [] OTHER                     -> RejectKind(reply)

AmendOutcome_Mutant(reply) == IF reply = "ok" THEN "ok" ELSE RejectKind(reply)
AmendOutcome(reply) ==
  CASE reply = "ok"              -> "ok"
    [] IsAmbiguousOutcome(reply) -> "unknown"
    [] OTHER                     -> RejectKind(reply)

CancelOutcome(reply) ==
  CASE reply = "ok"              -> "acked"
    [] IsAmbiguousOutcome(reply) -> "unknown"
    [] OTHER                     -> RejectKind(reply)

-----------------------------------------------------------------------------
(* The leg's calls *)

Idle(o)      == call[o].at = "idle"
At(o, where) == call[o].at = where

Return(o, what) ==
  /\ call' = [call EXCEPT ![o] = NoCall]
  /\ news' = [news EXCEPT ![o] = [op |-> call[o].op, is |-> what, inHistory |-> FALSE]]

\* The core's reaction to the last news: a reject of the submit ends the leg, and so
\* does "gone"; an unknown outcome or an acknowledged cancel leaves only cancel().
MayCall(o, op) ==
  /\ o \in Ours \ sweep.strays /\ Idle(o) /\ sweep.at = "clean" /\ core[o].calls < MaxCalls
  /\ CASE op = "submit" -> news[o].op = "none"
       [] op = "amend"  -> /\ ~core[o].market /\ core[o].price = 0
                           /\ news[o].op \in {"submit", "amend"}
                           /\ news[o].is = "ok" \/ (news[o].op = "amend" /\ news[o].is \in Kinds)
       [] op = "cancel" -> \/ news[o].is \in {"ok", "unknown", "acked"}
                           \/ news[o].op \in {"amend", "cancel"} /\ news[o].is \in Kinds

Begin(o, op, where, market) ==
  /\ call' = [call EXCEPT ![o] = [op |-> op, at |-> where, reply |-> NoReply, listed |-> 0]]
  /\ core' = [core EXCEPT ![o] = [credited |-> @.credited, price |-> @.price,
                                  calls |-> @.calls + 1, market |-> market]]

Send(o, op) == pending' = [pending EXCEPT ![o] = @ \cup {op}]

\* submitPostOnlyLimit(), amendPrice() and submitReduceOnlyMarket(), which passes no
\* gate.
Submit(o) ==
  /\ MayCall(o, "submit") /\ Begin(o, "submit", "gate", FALSE)
  /\ UNCHANGED <<venueVars, pending, news, stream, pushed, sweep, crashes>>

SubmitMarket(o) ==
  /\ MayCall(o, "submit") /\ Begin(o, "submit", "lookup", TRUE)
  /\ UNCHANGED <<venueVars, pending, news, stream, pushed, sweep, crashes>>

Amend(o) ==
  /\ MayCall(o, "amend") /\ Begin(o, "amend", "gate", FALSE)
  /\ UNCHANGED <<venueVars, pending, news, stream, pushed, sweep, crashes>>

\* requireEventStream().
PassGate(o) ==
  /\ At(o, "gate")
  /\ IF stream.live THEN call' = [call EXCEPT ![o].at = "lookup"] /\ UNCHANGED news
                    ELSE Return(o, "Throttled")
  /\ UNCHANGED <<venueVars, pending, core, stream, pushed, sweep, crashes>>

\* findPricePrecisionsForInstrument(): the instrument is in neither the cache nor the
\* venue's answer, or fetching it failed.
NoPrecisions(o) == Return(o, "Hard") \/ Return(o, "unknown")

\* placeOrder() and amendOrder(): they give up, or the request goes out once the rate
\* limiter lets it.
Lookup(o) ==
  /\ At(o, "lookup")
  /\ \/ NoPrecisions(o) /\ UNCHANGED pending
     \/ /\ call' = [call EXCEPT ![o].at = "waiting"] /\ Send(o, call[o].op)
        /\ UNCHANGED news
  /\ UNCHANGED <<venueVars, core, stream, pushed, sweep, crashes>>

\* cancel(), to cancelOrder()'s request.
Cancel(o) ==
  /\ MayCall(o, "cancel") /\ Begin(o, "cancel", "waiting", core[o].market) /\ Send(o, "cancel")
  /\ UNCHANGED <<venueVars, news, stream, pushed, sweep, crashes>>

\* request(): resolve, connect, handshake, write or read failed or timed out, before
\* or after the venue saw the request.
TransportFails(o) ==
  /\ At(o, "waiting") /\ Return(o, "unknown")
  /\ \/ pending' = [pending EXCEPT ![o] = @ \ {call[o].op}]
     \/ LateRequests /\ UNCHANGED pending
  /\ UNCHANGED <<venueVars, core, stream, pushed, sweep, crashes>>

\* The answer of a submit, or of an amend, is read.
ReadSubmitReply(o) ==
  /\ At(o, "waiting") /\ call[o].op = "submit" /\ call[o].reply # NoReply
  /\ Return(o, SubmitOutcome(call[o].reply))
  /\ UNCHANGED <<venueVars, pending, core, stream, pushed, sweep, crashes>>

ReadAmendReply(o) ==
  /\ At(o, "waiting") /\ call[o].op = "amend" /\ call[o].reply # NoReply
  /\ Return(o, AmendOutcome(call[o].reply))
  /\ core' = [core EXCEPT ![o].price = IF AmendOutcome(call[o].reply) = "ok" THEN 1 ELSE @]
  /\ UNCHANGED <<venueVars, pending, stream, pushed, sweep, crashes>>

\* The answer of a cancel is read: "gone" goes on to reconcileMissedFills().
ReadCancelReply(o) ==
  /\ At(o, "waiting") /\ call[o].op = "cancel" /\ call[o].reply # NoReply
  /\ IF IsOrderGone(call[o].reply)
     THEN call' = [call EXCEPT ![o].at = "executions"] /\ UNCHANGED news
     ELSE Return(o, CancelOutcome(call[o].reply))
  /\ UNCHANGED <<venueVars, pending, core, stream, pushed, sweep, crashes>>

\* The execution callback: the core knows executions by their id.
Credit(o, executions) == core' = [core EXCEPT ![o].credited = @ \cup executions]

\* reconcileMissedFills(): first the executions ...
ListExecutions(o) ==
  /\ At(o, "executions")
  /\ call' = [call EXCEPT ![o] = [op |-> @.op, at |-> "history", reply |-> @.reply,
                                  listed |-> reports[o].indexed]]
  /\ UNCHANGED <<venueVars, pending, news, core, stream, pushed, sweep, crashes>>

\* ... then the order's history: a list shorter than what it reports is not trusted,
\* else every listed execution is handed to the core.
InHistory(o) == reports[o].history
NotIndexedYet_Mutant(o) == FALSE
NotIndexedYet(o) == InHistory(o) /\ order[o].filled > call[o].listed
Reconcile(o) ==
  /\ At(o, "history")
  /\ call' = [call EXCEPT ![o] = NoCall]
  /\ IF NotIndexedYet(o)
     THEN /\ news' = [news EXCEPT ![o] = [op |-> "cancel", is |-> "unknown", inHistory |-> TRUE]]
          /\ UNCHANGED core
     ELSE /\ news' = [news EXCEPT ![o] = [op |-> "cancel", is |-> "gone",
                                          inHistory |-> InHistory(o)]]
          /\ Credit(o, 1..call[o].listed)
  /\ UNCHANGED <<venueVars, pending, stream, pushed, sweep, crashes>>

\* Either read of the two fails, or its listing cannot be completed.
ReconcileFails(o) ==
  /\ At(o, "executions") \/ At(o, "history")
  /\ Return(o, "unknown")
  /\ UNCHANGED <<venueVars, pending, core, stream, pushed, sweep, crashes>>

\* The private stream hands an execution on.
Deliver(o) ==
  \E x \in pushed[o] :
    /\ pushed' = [pushed EXCEPT ![o] = @ \ {x}]
    /\ Credit(o, {x})
    /\ UNCHANGED <<venueVars, pending, call, news, stream, sweep, crashes>>

-----------------------------------------------------------------------------
(* cancelStrayOrders(), at startup *)

SweepList ==
  /\ sweep.at = "listing"
  /\ sweep' = [at |-> "cancelling", strays |-> sweep.strays,
               todo |-> {o \in Orders : order[o].status \in {"open", "pendingCancel"}}]
  /\ UNCHANGED <<venueVars, gatewayVars, pending, stream, pushed, crashes>>

\* The listed orders that carry the prefix.
HasPrefix(o) == o \in Ours

SweepCancel(o) ==
  /\ sweep.at = "cancelling" /\ o \in sweep.todo /\ \A p \in Orders : Idle(p)
  /\ news[o].is = "none"
  /\ HasPrefix(o)
  /\ Begin(o, "cancel", "waiting", FALSE) /\ Send(o, "cancel")
  /\ UNCHANGED <<venueVars, news, stream, pushed, sweep, crashes>>

\* A stray is done with once cancel() returned; an exception leaves the sweep.
SweepGoesOn_Mutant(o) == TRUE
SweepGoesOn(o) == news[o].is \in {"acked", "gone"}
SweepStep(o) ==
  /\ sweep.at = "cancelling" /\ o \in sweep.todo
  /\ IF HasPrefix(o) THEN Idle(o) /\ news[o].is # "none" ELSE TRUE
  /\ IF HasPrefix(o) /\ ~SweepGoesOn(o)
     THEN sweep' = [sweep EXCEPT !.at = "failed"]
     ELSE sweep' = [sweep EXCEPT !.todo = @ \ {o}]
  /\ UNCHANGED <<venueVars, gatewayVars, pending, stream, pushed, crashes>>

SweepDone ==
  /\ sweep.at = "cancelling" /\ sweep.todo = {}
  /\ sweep' = [sweep EXCEPT !.at = "clean"]
  /\ UNCHANGED <<venueVars, gatewayVars, pending, stream, pushed, crashes>>

\* The process dies, on its own or because the sweep failed.  The core's accounting
\* and the calls are gone; requests already sent are not.
Crash ==
  /\ crashes < MaxCrashes /\ sweep.at # "down"
  /\ crashes' = crashes + 1
  /\ sweep' = [at |-> "down", todo |-> {},
               strays |-> sweep.strays \cup {o \in Ours : core[o].calls > 0}]
  /\ call' = [o \in Orders |-> NoCall] /\ news' = [o \in Orders |-> NoNews]
  /\ core' = [o \in Orders |-> NewCore]
  /\ stream' = [flows |-> FALSE, live |-> FALSE] /\ pushed' = [o \in Orders |-> {}]
  /\ UNCHANGED <<venueVars, pending>>

\* start() returns only with the private stream live.
Restart ==
  /\ sweep.at = "down" /\ (LateRequests \/ \A o \in Orders : pending[o] = {})
  /\ sweep' = [sweep EXCEPT !.at = "listing"]
  /\ stream' = [flows |-> TRUE, live |-> TRUE]
  /\ UNCHANGED <<venueVars, gatewayVars, pending, pushed, crashes>>

-----------------------------------------------------------------------------
(* The venue *)

Took(o, op) == pending' = [pending EXCEPT ![o] = @ \ {op}]
Answer(o, op, replies) ==
  IF At(o, "waiting") /\ call[o].op = op /\ call[o].reply = NoReply
  THEN \E r \in replies : call' = [call EXCEPT ![o].reply = r]
  ELSE UNCHANGED call
Status(o, status) == order' = [order EXCEPT ![o].status = status]

\* The venue executes a request, or refuses it, and answers; an ambiguous answer
\* does not tell which.
Executes(o, op) ==
  /\ Took(o, op) /\ Answer(o, op, {"ok"} \cup Ambiguities)
Refuses(o, op, replies) ==
  /\ Took(o, op) /\ Answer(o, op, replies \cup Ambiguities) /\ UNCHANGED order
NotOpen(o) == order[o].status \notin {"open", "pendingCancel"}

VenueHandles(o, op) ==
  /\ op \in pending[o]
  /\ \/ op = "submit" /\ order[o].status = "none" /\ Status(o, "open") /\ Executes(o, op)
     \/ op = "amend" /\ order[o].status = "open" /\ Executes(o, op)
        /\ order' = [order EXCEPT ![o].price = 1]
     \/ op = "cancel" /\ ~NotOpen(o) /\ Status(o, "pendingCancel") /\ Executes(o, op)
     \/ op # "submit" /\ NotOpen(o) /\ Refuses(o, op, GoneCodes)
     \/ Refuses(o, op, Rejections)
     \/ Took(o, op) /\ UNCHANGED <<order, call>>
  /\ UNCHANGED <<reports, news, core, stream, pushed, sweep, crashes>>

Fill(o) ==
  /\ ~NotOpen(o) /\ order[o].filled < MaxQty
  /\ LET n == order[o].filled + 1
     IN  /\ order' = [order EXCEPT ![o] = [filled |-> n, price |-> @.price,
                                 status |-> IF n = MaxQty THEN "filled" ELSE @.status]]
         /\ pushed' = IF stream.flows THEN [pushed EXCEPT ![o] = @ \cup {n}] ELSE pushed
  /\ UNCHANGED <<reports, gatewayVars, pending, stream, sweep, crashes>>

\* A cancel takes effect, a post-only order would cross, an IOC's rest expires.
Ends(o) ==
  /\ ~NotOpen(o) /\ Status(o, "cancelled")
  /\ UNCHANGED <<reports, gatewayVars, pending, stream, pushed, sweep, crashes>>

Indexes(o) ==
  /\ \/ /\ reports[o].indexed < order[o].filled
        /\ reports' = [reports EXCEPT ![o].indexed = @ + 1]
     \/ /\ order[o].status \in {"filled", "cancelled"} /\ ~reports[o].history
        /\ reports' = [reports EXCEPT ![o].history = TRUE]
  /\ UNCHANGED <<order, gatewayVars, pending, stream, pushed, sweep, crashes>>

\* The private stream dies, the session notices, and a new connection goes live.
StreamDies ==
  /\ stream.flows /\ stream' = [stream EXCEPT !.flows = FALSE]
  /\ pushed' = [o \in Orders |-> {}]
  /\ UNCHANGED <<venueVars, gatewayVars, pending, sweep, crashes>>
StreamNoticed ==
  /\ ~stream.flows /\ stream.live /\ stream' = [stream EXCEPT !.live = FALSE]
  /\ UNCHANGED <<venueVars, gatewayVars, pending, pushed, sweep, crashes>>
StreamRecovers ==
  /\ ~stream.live /\ sweep.at # "down" /\ stream' = [flows |-> TRUE, live |-> TRUE]
  /\ UNCHANGED <<venueVars, gatewayVars, pending, pushed, sweep, crashes>>

-----------------------------------------------------------------------------
Calls(o) ==
  \/ Submit(o) \/ SubmitMarket(o) \/ Amend(o) \/ PassGate(o) \/ Lookup(o)
  \/ Cancel(o) \/ TransportFails(o)
  \/ ReadSubmitReply(o) \/ ReadAmendReply(o) \/ ReadCancelReply(o)
  \/ ListExecutions(o) \/ Reconcile(o) \/ ReconcileFails(o) \/ Deliver(o)

\* The orders of others rest all the time, unless they are asked to be cancelled.
Venue(o) ==
  \/ \E op \in Ops : VenueHandles(o, op)
  \/ o \in Ours /\ (Fill(o) \/ Ends(o) \/ Indexes(o))

Next ==
  \/ \E o \in Orders : Calls(o) \/ Venue(o) \/ SweepCancel(o) \/ SweepStep(o)
  \/ SweepList \/ SweepDone \/ Crash \/ Restart
  \/ StreamDies \/ StreamNoticed \/ StreamRecovers

Spec == Init /\ [][Next]_vars

-----------------------------------------------------------------------------
OrderType == [status : {"none", "open", "pendingCancel", "filled", "cancelled"},
              filled : 0..MaxQty, price : 0..1]
ReportType == [indexed : 0..MaxQty, history : BOOLEAN]
CallType == [op : Ops \cup {"none"}, listed : 0..MaxQty,
             at : {"idle", "gate", "lookup", "waiting", "executions", "history"},
             reply : {"ok", NoReply} \cup GoneCodes \cup Rejections \cup Ambiguities]
\* Submit and amend are told of as done, rejected or unknown, cancel as acknowledged,
\* gone, rejected or unknown, and nothing else.
NewsType ==
  {NoNews}
    \cup [op : {"submit", "amend"}, is : {"ok", "unknown"} \cup Kinds, inHistory : BOOLEAN]
    \cup [op : {"cancel"}, is : {"acked", "gone", "unknown"} \cup Kinds, inHistory : BOOLEAN]
CoreType == [credited : SUBSET (1..MaxQty), price : 0..1, calls : Nat, market : BOOLEAN]
SweepType == [at : {"listing", "cancelling", "clean", "failed", "down"},
              todo : SUBSET Orders, strays : SUBSET Ours]

\* The type invariant.
TypeOK ==
  /\ order \in [Orders -> OrderType] /\ reports \in [Orders -> ReportType]
  /\ pending \in [Orders -> SUBSET Ops]
  /\ call \in [Orders -> CallType] /\ news \in [Orders -> NewsType]
  /\ core \in [Orders -> CoreType]
  /\ stream \in [flows : BOOLEAN, live : BOOLEAN]
  /\ pushed \in [Orders -> SUBSET (1..MaxQty)]
  /\ sweep \in SweepType
  /\ crashes \in 0..MaxCrashes

\* A submit the gateway reports as rejected (GatewayError) never leaves an order on
\* the venue, then or later: the core forgets the order on that news.
RejectIsDefinitive ==
  \A o \in Orders : news[o].op = "submit" /\ news[o].is \in Kinds =>
                      order[o].status = "none" /\ "submit" \notin pending[o]

\* Unless the outcome of the last amend is unknown, the core knows at which price
\* the order rests.
KnownPrice ==
  \A o \in Orders : Idle(o) /\ news[o].op = "amend" /\ news[o].is # "unknown" =>
                      order[o].price = core[o].price

\* cancel() reports an order gone only when the core has been credited with all of
\* its executions, whatever the private stream lost and however far the REST index
\* lags, provided the venue's history held the order when it was read.
GoneMeansCredited ==
  \A o \in Orders : news[o].is = "gone" /\ news[o].inHistory =>
                      core[o].credited = 1..order[o].filled

\* An order reported gone is not on the book, then or later.
GoneIsFinal == \A o \in Orders : news[o].is = "gone" => NotOpen(o)

\* Once cancelStrayOrders() has returned, every order of an earlier run has ended or
\* has its cancel acknowledged; and orders of others on the account are never asked to be
\* cancelled or amended.
SweptClean ==
  /\ sweep.at = "clean" => \A o \in sweep.strays : order[o].status # "open"
  /\ \A o \in Foreign : Idle(o) /\ pending[o] = {}

============================================================================
