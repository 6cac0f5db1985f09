# TLA+ verification of the Bybit C++ API

This directory holds TLA+ models of the client library in `../src`, TLC
configurations that check them on small instances, and TLAPS proofs about most of
them. `PROJECT.json` lists components, runs, mutants, the map from
definitions to source lines, findings, hazards and theorems.

## 1. Inventory

All paths are relative to `src/`.

| Component | State it keeps | Operations | What is hard | What makes it correct |
|---|---|---|---|---|
| **WebSocket session** `src/bybit_ws_session.cpp` | connection generation and flags, backoff, outbound queue, topic books `subscriptions`/`pendingTopics`, ops in flight, pong and auth deadlines | `run`, `subscribe`, `unsubscribe`, `close`, one completion handler per asynchronous operation | handlers that outlive their connection, errors in bursts, acks without `req_id`, silent peers, close racing everything | always exactly one thing drives it; no topic lost or doubled; confirmed means delivered; nothing subscribed before authentication; one write at a time; close is final |
| **WebSocket client** `src/bybit_ws_client.cpp` | the session, the io thread, callbacks | creates the session with the first `subscribe`, forwards calls, starts the thread in `run`, joins it there and in its destructor | racing first calls; a join under the lock; a context stopped by one thread and restarted by another; callbacks that throw | one session; every call and the destructor return |
| **Private stream manager** `src/bybit_ws_private_stream_manager.cpp` | its client | subscribes the private topics, `isLive`, dispatches order, execution and position events | topics the venue rejected are pruned by the session and must be asked for again | `isLive` only if every topic is confirmed, and eventually; no fill of a batch dropped |
| **Public stream manager** `src/bybit_ws_stream_manager.cpp` | last-value caches of tickers and candles, receive times | subscribe, unsubscribe, read with timeout, REST seed and refresh | io thread, readers and REST answers write one entry | a quote served is recent, and lacks a side only if the venue said so |
| **REST rate limiter** `src/bybit_rest_client.cpp` 84-160 | the venue's budget and reset, or a window of local timestamps | `wait`, `update` | threads sleeping with the mutex held, a clock read before the sleep | the rate is kept |
| **REST client: orders** `src/bybit_rest_client.cpp` | none beyond the limiter | place, amend, cancel, listings, executions | a request whose outcome is unknown | unknown is never told as rejected |
| **REST client: history** `src/bybit_rest_client.cpp` | a cursor over time | `getHistoricalPrices`, `getFundingRates` | gaps in a listing, batch boundaries, venue windows | complete, ordered, ends |
| **REST client: instruments** `src/bybit_rest_client.cpp` | shared cache of instruments | whole and filtered fetches, lookup, precisions, spot status; the gateway's specs | fetches of several threads stored in any order, refresh in the middle of a lookup | the list has all that was asked for; an order has the steps of its own instrument; a listed instrument is found |
| **REST client: queries** `src/bybit_rest_client.cpp` | none | positions and executions page by page, `closeAllPositions`, archive of delisted symbols, balance, tickers, leverage, modes | lists that change while they are read, cursors that repeat, bodies cut short | a list is whole or the call fails; every call ends; no position is turned around |
| **HTTP session** `src/bybit_http_session.cpp` | credentials, clock offset | signed and unsigned requests with timeouts, `ensureTimeSync` | failure before or after the venue saw the request; a clock that is set; a request nested in the signing of another | an outcome is never guessed; a measured stamp is accepted; no recursion and no storm of time requests |
| **Execution gateway** `src/bybit_execution_gateway.cpp` | spec cache, streams, callbacks | submit, market submit, amend, cancel, reconcile, stray sweep, event mapping | lost answers, a dead private stream, a lagging index, crashes | what the core is told of an order is true |
| **Models, events, enums** `src/bybit_models.cpp`, `src/bybit_event_models.cpp` | none | JSON conversion, merge of ticker deltas | partial messages | an absent field keeps its value |
| **Exchange connectors, module, helpers** | none | adapters | - | - |

How they interact. The gateway calls the REST client (through the rate limiter
and the HTTP session) from the legs' threads and receives fills from the private
stream manager on that manager's io thread. Both stream managers own a
WebSocket client, which owns one session on one io thread and serialises the
users' calls with `clientLocker`; the session runs all of its handlers on one
strand and guards the topic books, which users also touch, with `locker`. The
public stream manager falls back to the REST client. The core (the strategy) and
the venue are outside of the repository.

The hazards of this code, each at its line, are in `PROJECT.json`.

## 2. Modules

| Module | Models | Checked by |
|---|---|---|
| `WsSession` | WebSocket session, the user threads that call it and the venue at the other end | `MCWsSession`, `WsSessionProofs` |
| `SubscriptionBook` | the abstract promise about topics; refined by `WsSession`, used by `StreamClient` | `SessionRefinesBook`, `WsSessionProofs` |
| `StreamClient` | WebSocket client, io thread, private stream manager's `connect()` and `isLive()`, destruction | `MCStreamClient`, `StreamClientProofs` |
| `RateLimiter` | `wait()` and `update()` | `MCRestState`, `MCRateLimiter`, `RestStateProofs` |
| `TimeSync` | clock offset and stamps of signed requests | `MCRestState`, `RestStateProofs` |
| `Instruments` | the cached list of instruments and the gateway's specs | `MCRestState`, `InstrumentsProofs` |
| `TickerCache` | the ticker cache with REST fallback | `MCTickerCache`, `TickerCacheProofs` |
| `OrderGateway` | gateway calls, order requests, transport, private stream and venue | `MCGateway`, `MCOrderGateway`, `OrderGatewayProofs` |
| `OrderEvents` | order and execution events, from the venue to the core | `MCGateway`, `OrderEventsProofs` |
| `CandleHistory`, `FundingHistory` | the two downloads | `MCRestLoops`, `RestLoopsProofs` |
| `Sorted` | time stamps in order, and the newest of them: used by the two downloads | `RestLoopsProofs` |
| `Listing` | lists read along a cursor | `MCRestLoops`, `RestLoopsProofs` |
| `ClosePositions` | `closeAllPositions()` | `MCRestLoops`, `RestLoopsProofs` |
| `DelistedArchive` | the last trade of a delisted symbol | `MCRestLoops`, on its own |

Composition. `StreamClient` extends `SubscriptionBook`: the client is checked over
what the session promises, and the session is shown to keep the promise.
`MCRestState`, `MCRestLoops`, `MCGateway`, `MCTickerCache` and `MCWsSession` put
components, or setups of one, that share no variable into one run: a variable
(`part`, `task`, `setup`) says which one moves, the others stay parked, so
the run explores the union of their state spaces and not the product.

A definition named `..._Mutant` is a plausible mistake in the code modelled by
the definition after it. No specification uses it; it is what the properties are
tried against.

### WsSession

| Model | Code |
|---|---|
| `generation`, `connected`, `authenticated`, `reconnectScheduled`, `reconnectDelayS`, `userClosed`, `writeInFlight`, `outboundQueue`, `inflightSubscribes`, `reqIdCounter` | the members of `WebSocketSession::P` with these names |
| `subscriptions`, `pendingTopics` | the two vectors, as how often each topic occurs |
| `pongAge` | the distance from `lastPongTime`, in ping ticks |
| `posted` | handlers posted to the strand by users, in order |
| `ops` | asynchronous operations: started, finished with a result, handled |
| `sock`, `inbox`, `venueSubs` | the current stream, frames to be read, the venue's subscriptions |
| `overlapped` | a history variable: Beast's one-read one-write rule was broken |
| `about`, of a frame | a history field: the request an answer is about, also where it carries no `req_id`; no guard and no handler reads it |

An operation finishes in one step (`Completes`, the outside world) and is handled
in another (`Handle`, the strand), so a handler may run after its connection was
torn down, which is where the generation test matters. `OnStale` is that test.
`handleError()`, `pump()`, `flushTopics()` and `startConnect()` are operators the
handlers share, with the results the handler has already computed as parameters.
`close()` is reached only from `~WebSocketClient`, which stops the io context
afterwards (`StreamClient`); here the io context goes on, which admits more
behaviours. `ExactlyOneDriver` is also what keeps `ioContext.run()` from
returning, `StreamClient!HasWork`.

### StreamClient

The session is `SubscriptionBook`'s `up` and `phase`, moved by handlers while the
io thread is in `ioContext.run()`. Each locked method of the client is one step,
except where it does something in between that others can see: `subscribe()`
creates the session (`CreateSession`) and `run()` joins the thread that is over
(`StartThread`) with `clientLocker` held. `isLive()` and `connect()` are sequences
of such calls, without a lock of their own. `ioThread` is where the thread stands:
`EnterRun` is the top of its loop with the restart of a stopped context,
`LeaveLoop` its two assignments of `isRunning = false`, between which another
thread may call `run()`. `stopped` is the context's. The users end before the
client is destroyed, as C++ demands.

The log callback is the user's and may throw (`HandlerThrows`); the io thread's loop
catches it and goes back to `ioContext.run()`, but the handler that was left did not do
the rest of its work. `driver` is what that leaves of the session:

| `driver` | How it comes about | What follows |
|---|---|---|
| `sound` | as it should be | recovers from every fault |
| `deaf` | out of `onRead()` (also after the frame authenticated the session or had a topic rejected), or out of the first log of a `handleError()` called by a read or a write | no read is armed; the heartbeat gives the connection up (`Lost`) and reconnects |
| `lame` | out of the first log of a `handleError()` called by the heartbeat (`bybit_ws_session.cpp:615`) | the heartbeat is not armed; a peer that stays silent is never given up |
| `none` | the same while connecting; both of the above; or out of the second log (`:649`), after `reconnectScheduled` is set and before the timer is armed | nothing is left; later errors return at `:611`, the context runs out of work, the io thread ends, and a later `run()` starts one that ends at once |

### RateLimiter

`requestTimes`, `remaining`, `resetTime` and `serverHeadersFound` are the class's
members. Both methods hold the mutex throughout; only the sleep takes time, so a
method is one step up to its sleep and one after it, and `mutex` is the sleeper.
Of a pair of headers whose reset does not parse, `update()` has taken the status.
`released` is a history variable: when requests left `wait()`.

### TimeSync

A request is signed in steps: check of the note, note, the nested request for the
venue's time with its own signing (`depth`), measurement, stamp. Sessions are
created by `setCredentials()`; a request keeps the one it began with. `skew` is
how far the local clock is ahead; it may be set at any time. A request or an
answer takes at most `Lag` ticks; `measured`, `tried`, `tries` are history
variables. `SyncDue` judges a stamp by the local clock its thread read in
`ensureTimeSync()`: the clock may be set again between that and the stamp.

### Instruments

A thread's call goes through `priming`, `fetch` (one step per page), `fetched`,
`read`, and for a spec `check` and `store`: the places between which the code
holds no lock. A step (tick or lot size) is how often the venue changed it, so
that `base`, what the last refresh finished before the call could see, tells an
old one from a new one. A status request may name a symbol; that of spot stores its
answer when the cache is empty. `asked` is a history variable: what the request whose
answer is cached asked for. The venue lists, changes and closes instruments; it never
closes the last one, nor the last of those listed when a call that is still under
way began (`VenueCloses`), see section 4.

### TickerCache

One symbol, with the two prices of a quote. A price is how often it changed,
which lets `ServedFresh` ask when a price was true. The io thread merges
messages; readers poll, and ask REST without the lock; subscribe seeds the entry
from REST. Time is discrete, and a message or a REST call takes at most `Lag`
ticks. 0 is a missing price. The venue's book may have no asks (`OneSided`): a REST
answer, a stream snapshot and a delta may all say so. The code refuses such a REST
answer (line 91) and stores and serves such a message of the stream as it came
(lines 124-139, 281-282); `lacks`, a history variable, is what the last messages said
of the sides. That an empty price is read as 0 is taken of `readStringAsDouble()`, which
is not in the repository; if it kept the old value, a side without a quote would
go on looking fresh.

### OrderGateway

Each order has a thread that makes one call at a time. A request is put on its
way, executed or refused by the venue, answered; the answer may be lost or
ambiguous. `news` is what the call told the core, `core` the core's accounting.
Fills are pushed over the private stream, which can be dead while `isLive()`
still says otherwise. REST's execution and history indices lag. `sweep` is
`cancelStrayOrders()`, `Crash` and `Restart` the process.

The core is outside of the repository: it is modelled by what the gateway's
comments say of its reaction to an outcome (a reject of the submit ends the leg;
an unknown outcome leaves only cancel; fills are deduplicated by execution id).

### OrderEvents

The venue's orders go through their states and push items on two topics, in
messages of several items; the io thread takes a message apart (`DispatchOrders`,
`DispatchExecutions`). `told` is the last `OrderUpdate` of an order, `fills` the
fill ids. A connection that is lost takes the messages under way with it, and
executions may come again. Statuses under one `case` of the callback are one status here
(Created and New; Cancelled, PartiallyFilledCanceled and Deactivated); a status the enum
does not know, which reads as the default Created and is told as Accepted, is left out.

### Listing, ClosePositions, DelistedArchive

`Listing` is one loop with two forms, `guarded` for `getExecutions()`; the book
changes between two pages, and a `broken` venue repeats a cursor. In
`ClosePositions` a market order is executed some time after it was accepted, an
order whose answer is lost may have been accepted, and others trade; a symbol has one
position. In hedge mode it has two, and the orders, which carry `positionIdx` 0, are
rejected. In
`DelistedArchive` a body is its lines and what `inflate()` says after them.

### CandleHistory, FundingHistory

The loops of the two downloads, one action per request or batch, over every
listing and every range within the bounds. The venue's windows are external:
they are modelled from how the code's comments describe the answers (newest
candles at or before the end, whether or not they lie within the window).

## 3. Runs

| Run | Shows | Instance | States |
|---|---|---|---|
| `ws_session` | `TypeOK`, `BooksDisjoint`, `NoOverlap`, `ConfirmedIsFlowing`, `SubscribesOnlyAuthenticated`, `ExactlyOneDriver`, `SessionRefinesBook`, `BackoffEarned`, `ClosedIsFinal`; `LifecycleSettles`, `SilentPeerNoticed` | authenticating, 2 topics, one of which may be withdrawn; either 2 calls, a close at any time, a backoff of up to 2, fair; or 3 calls, no close, a backoff of 1, so that the cap bites at the first error | 809 k |
| `stream_client` | `OneSession`, `ToldLive`, `CallsReturn`, `PolledIsLive`, `DestructorReturns` | 2 threads, 2 topics, a lost connection, a reject, an exception at any place, fair | 361 k |
| `rest_state` | `LocalRateNearly`, `ServerPause`; `MeasuredIsAccepted`, `SyncDue`, `NoSyncStorm`; `AskedIsListed`, `OwnSteps`, `ListedIsFound` | 2 threads each: limit 2, window 3, 12 ticks; 2 sessions, 2 requests, a clock set twice; 2 pages, 4 calls, 2 changes, a gateway or a spot client, status requests with and without a symbol | 2.39 M |
| `ticker` | `StreamServedFresh`, `StreamNeverRegresses`; `RestServedKnown`, `RestReadReturns` | stream only, unsubscribing, a price change, 5 ticks; or 2 threads with REST, 3 ticks, fair; one-sided quotes from either source | 1.47 M |
| `gateway` | `RejectIsDefinitive`, `KnownPrice`, `GoneMeansCredited`, `GoneIsFinal`, `SweptClean`; `EndedIsEnded`, `NoFillDropped` | an order of 2 units, limit or market, 4 calls, 3 ambiguous answers, a crash, a foreign order; events of 2 orders of 2 units, batches of 2, a lost connection | 842 k |
| `rest_loops` | `Complete`; `AllRates`; `NeverPartial`; `AllClosed`; `LoopsEnd` | all listings of 7 slots, batches of 2, all ranges; all sets of rates up to 11, pages of 2; 5 items, pages of 2, 3 pages at most; 2 positions; 2 files | 311 k |
| `rate_local_exceeded`, `stale_spec`, `status_seeds_cache`, `gateway_ambiguity`, `gateway_late_create`, `archive_cut` | violations, section 4 | | |

Each property is broken by a mutant of the code it is about, listed in
`PROJECT.json`; each mutant is a small, plausible change to one definition. The
`TypeOK` of `RateLimiter`, `TickerCache` and `OrderGateway` states the types of their
variables for the reader and is in no run; `OrderGateway`'s is part of `GatewayInv`,
which is proved.

**Bounds and why they are enough.** `MaxGen` bounds the generations in which the
network misbehaves, not their number: a faulty connection and its successor cover
every pair of a torn-down connection and the next one, which is what a stale
handler can confuse. (With faults in two generations, one call and one topic,
`TypeOK`, `ExactlyOneDriver` and `BackoffEarned` hold on 506 k states too; all
three are proved for every bound.) (A session without
credentials, `AuthRequired = FALSE`, whose topics all come and go satisfies `TypeOK`,
`BooksDisjoint` and `NoOverlap` on 411 k states; the theorems cover both kinds.)
`MaxCalls` bounds the users: three calls
give a first subscribe, a second one and a withdrawal. `MaxLag` lets a ping tick
find frames on their way. Windows, batches and pages of two elements have a
first, a last and a boundary; seven slots hold a gap longer than a window. Two
threads suffice for a mutex and for a REST call made without the lock. An order
of two units has a partial fill; orders do not interact except in the sweep,
where the second one is the foreign order. Topics and threads are
interchangeable, so symmetry is used in the runs without liveness properties.
Two pages and two threads let a refresh, a filtered fetch and a lookup interleave;
five items make the loop with the page cap reach it and the others go past it. The
clock's bounds let an interval pass and the clock be set before and between the
steps of two requests. Most of these bounds matter less than they did: the theorems
of section 5 hold for all of them.

**Deadlock** is not checked, since every run contains a system that may rightly stop: a
closed session and a destroyed client have nothing left to do, a loop ends, and the
clocks and calls of the other models are bounded. That a session which is not closed never
stops is `ExactlyOneDriver`.

**Fairness.** `MCWsSession!SetupSpec`, in its first setup: the io thread runs what is queued, of every
kind of handler; dialing stages end, because the code bounds each with a 30 s
timeout; a live connection carries bytes both ways; operations on a closed socket
are aborted; timers fire. It does *not* assume that an operation on a vanished
peer ends: `SilentPeerNoticed` shows that the heartbeat makes up for it.
`TickerCache!FairSpec`: clock and io thread run, HTTP calls end (they have a
timeout), a reader polls every 3 ms (`Proceeds`); the threads are alike, so
`RestReadReturns` is stated of one of them, as `CallsReturn` and `PolledIsLive` are.
`MCRestLoops!LoopsSpec`: loops of one
thread whose requests end (the HTTP session bounds each with a timeout).
`StreamClient!Spec`: the io thread, the destructor and the session's handlers go on;
a call makes progress again and again when its lock is free again and again (strong
fairness, `std::mutex` being granted in turn); as long as its driver is `sound`, the
connection comes up again and the venue answers, which `LifecycleSettles` shows of the
session, and a `deaf` one is given up by its heartbeat (`SilentPeerNoticed`). A `lame` one
is owed nothing. Nothing makes a user call, a connection break or the client be destroyed.

**Premises a reader should know.**
- `Complete` needs a non-empty first answer: the code takes an empty one for the
  end of the history.
- `GoneMeansCredited` needs the order to be in the venue's history when it is
  read; otherwise the code documents a residual risk
  (`src/bybit_execution_gateway.cpp:222-223`).
- The passing gateway runs assume that a request the client gave up on does not
  reach the venue later (`LateRequests = FALSE`); `gateway_late_create` drops it.
- In `OrderGateway` a listing's pages are read in one step (`Listing` goes through
  them) and every execution is a trade (`OrderEvents` has others); orders of others
  rest all the time.
- `OwnSteps`, `AskedIsListed` and `ListedIsFound` are about a client of one category,
  which is how the gateway and the connectors use it. `AskedIsListed` does not say that
  the list is whole: for spot it is not (`status_seeds_cache`).
- `PolledIsLive` is about behaviours in which the log callback never throws out of
  `handleError()` called by the heartbeat, while connecting or before the timer is armed
  (`NeverUndriven`); a throw anywhere else is allowed. That there is no second exception in
  the `catch` of the io thread, which would end the process, is assumed throughout.
- `RestServedKnown` is about quotes nobody unsubscribes. It does not promise two sides:
  a stream that says a side has no quote has it served so.
- `MeasuredIsAccepted` needs `receiveWindow >= 2 * Lag`: a measurement errs by the
  time its answer took, and the request is on its way as long. `SyncDue` allows for
  a clock set back.
- `AllClosed` is about positions nobody else trades, and one call of `closeAllPositions()`.
- `LoopsEnd` takes the unguarded listings' cursors to advance, and archive files to
  be whole or no files at all (`archive_cut` drops the latter).
- The delay between the stream's death and `isLive()` is arbitrary; that
  `isLive()` is not true without reason rests on `ToldLive` and `ConfirmedIsFlowing`.
- `AllRates` is checked for periods longer than an instant and for rates at
  least 2 ms apart (funding takes place every few hours).

## 4. Where code and words disagree

Six runs end in a counterexample; the lines they contradict are quoted in
`PROJECT.json` under `findings`.

| Run | Property | What happens |
|---|---|---|
| `rate_local_exceeded` | `LocalRate` | the time noted after a sleep is the one from before it: one request too many (`LocalRateNearly` is what does hold) |
| `gateway_ambiguity` | `RejectIsDefinitive` | code 170007, unknown to the REST client, is a definitive reject to the gateway |
| `stale_spec` | `SpecFresh` | a spec read from the old list is stored after the refresh emptied the spec cache, and served until the next refresh |
| `status_seeds_cache` | `CacheWhole` | a spot status request that names a symbol stores its answer, one instrument, as the list of all (`AskedIsListed` is what does hold) |
| `archive_cut` | `FetchReturns` | `inflate()` reports `Z_BUF_ERROR` on an empty or truncated body, which the loop takes for progress, for ever |
| `gateway_late_create` | `GoneIsFinal` | a create the client gave up on arrives after the cancel found nothing |

The passing runs leave out some constellations in which their properties fail;
each can be seen by giving the constants named here other values:

- `ConfirmedIsFlowing` of a topic that is in `Unsubscribable`, with `MaxCalls = 4`:
  unsubscribe and subscribe of one topic leave in the other order, since the
  pending topic is flushed by a job posted before the unsubscribe's, and a topic
  called confirmed does not flow. The private stream, whose `isLive()` relies on
  confirmation, never withdraws a topic; the property is about the topics nobody
  withdraws, next to others that come and go.
- `NoOverlap` without its exemption of a session the user has closed: `handleError()`
  forgets a write that has not completed, and `close()` may then start `async_close` next to it, if Beast still
  reports the stream as open.
- `OwnSteps` without the last guard of `VenueCloses`: all
  the instruments a refresh could have listed are closed while it goes from page to
  page, and others are listed in their place. It comes back empty, an empty list is
  cached, and the old list that another thread fetched meanwhile is then stored
  behind the refresh. The proof of `StepsAreOwn` led to it; no venue is expected to
  turn its list over within a call.
- `ServedFresh` with `RestClient = TRUE`: a REST snapshot that arrives late
  replaces a newer quote, and deltas of other fields keep it looking fresh.
- `PolledIsLive` without `NeverUndriven`: an exception out of `handleError()` leaves the
  session `lame` or with no driver at all, and `isLive()` never says yes again.
- `ServedKnown` with `Unsubscribes = TRUE`: a delta on its way when the topic is
  unsubscribed creates the dropped entry anew, with one side only.
- `OwnSteps` with `Usages = {"both"}`: the cached list is not keyed by category, and
  an order of one category takes the steps of the other's instrument.
- `Instruments!ClosedIsClosed`, for spot: the status request compares with a cached
  list of any age, so that a symbol listed since is reported as closed.
- `AllRates` with `Ends = {Begin}`: a period of one instant returns nothing.
- An auth ack that was read before an error and is handled after it makes
  `isAuthenticated()` true until the next connection starts;
  `SubscribesOnlyAuthenticated` shows that nothing is sent because of it.

## 5. Proofs

Every theorem holds for any number of threads, topics, orders, pages, calls, faults
and ticks. The constants satisfy the named assumptions of the modules, which TLC
evaluates on the runs' instances; where a theorem needs more, it says so, and its
premise is one the run's configuration satisfies too.

| Module | Theorem | Statement | Premise |
|---|---|---|---|
| `WsSessionProofs` | `TypeCorrect` | `Spec => []TypeOK`, with the backoff between 1 and its maximum | |
| | `BooksStayDisjoint` | `Spec => []BooksDisjoint` | |
| | `DriverInvariant`, `OneDriver` | `Spec => []ExactlyOneDriver` | |
| | `CloseIsFinal` | `Spec => ClosedIsFinal` | |
| | `BackoffIsEarned` | `Spec => BackoffEarned` | |
| | `WriterIsAlone`, `NothingOverlaps` | `Spec => []NoOverlap` | |
| | `LinkInvariant`, `SubscribesAfterAuth` | `Spec => []SubscribesOnlyAuthenticated` | |
| | `ImplementsBook` | `Spec => SessionRefinesBook` | |
| | `PipeInvariant`, `ConfirmedFlows` | `Spec => []ConfirmedIsFlowing` | |
| `OrderGatewayProofs` | `GatewayInvariant` | `Spec => []GatewayInv` | |
| | `RejectsAreDefinitive` | `Spec => []RejectIsDefinitive` | every ambiguous answer is one the gateway knows |
| | `PriceIsKnown` | `Spec => []KnownPrice` | the same, and no late requests |
| | `GoneStaysGone`, `GoneIsCredited`, `StraysAreSwept` | `Spec => []GoneIsFinal`, `[]GoneMeansCredited`, `[]SweptClean` | no late requests |
| `StreamClientProofs` | `ClientInvariant`, `OneSessionOnly`, `LiveIsLive` | `Spec => []OneSession`, `[]ToldLive` | |
| `OrderEventsProofs` | `EventsInvariant`, `ToldEndIsEnd`, `NoTradeDropped` | `PartsSpec => []EndedIsEnded`, `[]NoFillDropped` | `EventQty \in Nat` |
| `RestLoopsProofs` | `PositionsAreClosed`, `ListsAreWhole` | `LoopsSpec => []AllClosed`, `[]NeverPartial` | |
| | `RatesAreWhole`, `CandlesAreWhole` | `LoopsSpec => []AllRates`, `[]Complete` | |
| `RestStateProofs` | `ThrottleInvariant`, `BudgetIsRespected` | `StateSpec => ServerPause` | |
| | `RateIsNearlyKept` | `StateSpec => []LocalRateNearly` | |
| | `ClockInvariant`, `MeasuredStampsAreAccepted`, `OffsetsAreTried`, `NoStorm` | `StateSpec => []MeasuredIsAccepted`, `[]SyncDue`, `[]NoSyncStorm` | |
| `InstrumentsProofs` | `InstrumentsInvariant`, `ListIsWhole`, `StepsAreOwn`, `ListedAreFound` | `StateSpec => []AskedIsListed`, `[]OwnSteps`, `[]ListedIsFound` | one category |
| `TickerCacheProofs` | `ServedIsKnown` | `SetupSpec => RestServedKnown` | nobody unsubscribes |
| | `StreamInvariant`, `PricesAreKept` | `SetupSpec => StreamNeverRegresses` | |
| | `ServedIsFresh` | `SetupSpec => []StreamServedFresh` | `maxTickAge > 0` |

The premises are where the code's own promise ends. An answer the gateway does not
know to be ambiguous (`gateway_ambiguity`), a create that arrives late
(`gateway_late_create`), a client of both categories, a quote unsubscribed while a
delta is on its way each break the property, as sections 3 and 4 show. Ages of
quotes are not checked at all if `maxTickAge` is 0.

The assumptions: `ConstantsAssumption`, `GatewayAssumption`, `LimiterAssumption` and
`CacheAssumption` type the constants; `ClientAssumption` has every topic of the
session be one the users subscribe; `SyncAssumption` has a positive interval, a
receive window of at least twice `Lag` and local clocks past their epoch;
`PagesAssumption` has the venue's answer have a page; `LoopsAssumption` numbers the
items of a list and has funding rates more than one unit of time apart;
`HistoryAssumption` has positive intervals, batches and numbers of slots.

**Why the invariants are needed.** None of the properties above but `BooksDisjoint`
and `ClosedIsFinal` is inductive.

*Session.* From a state in which the reconnect timer is armed on a session that is
also `connected`, the next step could leave two drivers. `DriverInv` says why that
does not happen. A started session that is not closed is in exactly one
`Situation`: *Dialing* (one operation of its generation, a stage of the connect
chain, no flag set), *Up* (connected; one read, a ping wait, any writes) or
*Waiting* (reconnect scheduled; one reconnect wait, and whatever the torn-down
connection has left). With it go `OpsInv` (no operation is of a later generation,
and only close aborts a reconnect wait) and `ConnectsOnce` (`run()` posts its
connect once and first). A step leaves the operations of the current generation
alone (`SituationKept`), swaps one for its finished form (`SituationReplace`), adds
a write (`SituationExtend`), re-arms the read (`SituationRead`), or goes through
`handleError()` to Waiting (`HandleErrorWaits`); `HandleSituation` goes through the
handlers one by one.

The other theorems about the session look at less of a step. `NextClass` sorts the
steps by what they do to the link: a handler works on a connection that stays (`Works`:
it sends, flushes topics or settles an op), a handshake is handled (`Connects`), a
connection is torn down (`Fails`), it is closed, a user calls, or an operation
finishes. Each invariant is then shown once per class and not once per handler.

- `NoOverlap` needs `SoleWriter`: of the writes of this generation at most one is
  outstanding, and `writeInFlight` says so. That the flag is reset by `handleError()`
  while the aborted write has not completed does no harm, since that write is of the
  generation that is over when the next one begins to write. The reads come from `DriverInv`.
- `SubscribesOnlyAuthenticated` needs `LinkInv`. A torn-down session has an empty queue
  (`DownIsEmpty`), so no frame of the last connection is flushed on the next; before
  its handshake was handled a connection is neither read nor written (`UnbornIsQuiet`).
- `SessionRefinesBook` is a step simulation. It uses that ops in flight have different
  ids (`IdsInv`): an ack settles the topics of one op, so no other topic changes phase.
- `ConfirmedIsFlowing` needs the whole conversation with the venue. `PipeInv` says
  that requests leave and answers return in the order of their ids, one for each op in
  flight (`InOrder`); that a request carries the topics of its op and a granted one has
  them flowing (`Carried`, `Granted`); and that a topic that was sent flows or is still
  to be answered (`Flowing`). So an answer without `req_id` is that of the oldest op,
  which is how the code attributes it. The order rests on `SoleWriter`: with two
  writes in flight the venue could see them the other way round.

*Gateway.* `GatewayInv` is stated order by order: where a call is says which request
it made and what could have been answered (`CallInv`, `SubmitInv`); a submit that the
venue has not looked at is of an order it does not know (`PendingInv`); what was
pushed, indexed and credited are executions that took place (`FillsInv`). Only when
requests are not late does an order found gone stay gone (`GoneInv`), a sweep stay
clean (`SweepInv`) and the core's price stay right (`PriceInv`). A crash clears the
calls but not the venue, so orders of an earlier run carry their own clause
(`StrayInv`). `OneOrder` reduces a step of one order to that order.

*Client.* `isLive()` asks topic by topic. `LiveInv` says of a call half done that the
topics asked so far are confirmed unless a connection was lost since it began:
a confirmed topic loses that only with the connection. An exception keeps the book or
loses the connection (`ThrowStep`), so it changes nothing of that. `LockInv` says that whoever
creates the session holds the lock, so that two cannot.

*Events.* `EndedIsEnded` speaks of what was told; `EventsInv` speaks of every item
still under way, whose claim has to be true whenever it is heard: the end of an order
is final, and an execution stays one. For `NoFillDropped` every trade is told,
unreadable or in some message on the wire (`Accounted`).

*Loops.* For `closeAllPositions()` a position is listed, about to be closed, being
closed or closed, and never two of these. For a listing, what stayed and lies before
the cursor was read; the maximum of a page is the least cursor that keeps this.

*Downloads.* `Ascending(S)` gives the element with `i - 1` below it the place `i`. That
every place is taken is no induction: ranks are an injection of a finite set into as
many places, hence onto. From it follow that what is later is appended
(`AscendingJoins`) and that a sorted sequence is determined by its elements. Of the
funding download, `FundingInv` says that everything after `endTime` was read, newest
first, and that `endTime` is just before a rate unless nothing was read: the loop ends
at `startTime < endTime`, so a rate at `startTime` itself would be missed if
another were one instant later. Of the candles, `CandleInv` says that the written ones
are a set `X`, sorted, with every candle that begins before `from` and ends by `to`;
that a batch in hand has every candle from `from` to its last (`BatchIsWhole`) is
because a window of `limit` slots has fewer than `limit` candles after its first
(`WindowHolds`), so that the venue leaves none out.

*Rate limiter.* The thread that sleeps holds the mutex, so nobody moves the reset
time before it wakes; it wakes no earlier (`Sleeper`). In local mode the time noted for
a request is the one before its sleep, but never earlier than the previous release,
because the mutex was held (`Past`). So the deque's k-th last note is no earlier than
the release before the k-th last (`Covers`), and all but one of the requests of the
window are still in the deque, which has at most `localLimit`.

*Clock.* A measured offset errs by at most `Lag`; a note is the local time of an
attempt, however the clock was set since. `NoSyncStorm` needs two counting arguments:
threads about to note an attempt plus the attempts noted on what they read never
exceed the number of threads (`StormInv`); and a nested request nests another only
when it meets a note that is not recent, of which each setting of the clock makes at
most one per thread (`DepthInv`).

*Instruments.* A fetch under way has, of the pages that came, everything listed all
along (`FetchOK`), no entry older than the last refresh finished before it
(`EntriesOK`), and an order's lookup after `start()` never finds the list empty, so
that only a refresh stores a list; there is one refresh at a time.

*Quotes.* `ValidAt` is when a price was last true. An entry's price was true `Lag`
ticks before it came; and for every message under way before which none carries that
side, it was still true when the message left (`EntryOK`, `UnderWayOK`): a delta
without a side says that the side has not changed. That is why a delta of another
field may refresh the age of the whole entry. For `RestServedKnown`, a side the entry
lacks is one of `lacks`.

The attempts changed the models. `SyncDue` was stated with the clock at the
stamp, which fails when the clock is set twice; it is now stated with the clock the
thread read. `OwnSteps` turned out to need the assumption on `VenueCloses`, and `AllRates`
funding rates that are not one instant apart. The sorting of the downloads is
defined by ranks because the prover does not know `SortSeq`.

**Only model-checked.**
- Every liveness property: the prover does not reason about fairness and ENABLED.
  These are `LifecycleSettles`, `SilentPeerNoticed`, `CallsReturn`, `PolledIsLive`,
  `DestructorReturns`, `RestReadReturns` and `LoopsEnd`.

Every invariant and every action property of the passing runs is proved.

## 6. Not modelled

- Signing, JSON conversion, enum tables, TLS options and logging: pure
  computations or I/O without a state to check.
- Balance, leverage, margin and mode requests, `cancelAllOrders`, server time:
  single calls without state.
- The exchange connectors: stateless adapters.
- The candlestick cache: a map the io thread writes and readers poll under one
  lock, without merge, age or fallback; its reads end as those of tickers do.
- `RESTClient::setInstruments()`, by which a user replaces the cached list with one
  of his own, and reconfiguration while in use (endpoints, timeouts, callbacks).

## 7. Plan

Done: (1) session and its abstract book, (2) rate limiter, (3) ticker cache,
(4) gateway with REST orders, (5) history downloads, (6) proofs of the session's
type, books, driver and close, (7) client, io thread and private stream,
(8) instruments and specs, (9) clock synchronisation, (10) listings, closing of
positions and the archive, (11) order and execution events, (12) proofs
about gateway, client, events, loops, rate limiter, clock, instruments and quotes,
(13) proofs of the session's backoff, writes, authentication, refinement and
confirmation, of the local rate and of the two downloads.

Left: liveness, which stays with TLC, and the parts listed in section 6.
