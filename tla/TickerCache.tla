---------------------------- MODULE TickerCache ----------------------------
(***************************************************************************)
(* The public stream manager's last-value cache of one symbol's quote      *)
(* (bybit_ws_stream_manager.cpp).  Three parties write or read it: the     *)
(* WebSocket io thread merges snapshots and deltas into it, user threads   *)
(* subscribe, unsubscribe and read, and a REST snapshot replaces the entry *)
(* when a subscription is new or the cached quote is missing or stale.     *)
(* The REST call runs without the lock.                                    *)
(*                                                                         *)
(* A price is the number of times it changed, so that a value tells when   *)
(* it was true; 0 stands for a price that is missing.  Where the book has  *)
(* no quote on a side, REST answers, stream snapshots and deltas say so    *)
(* and the side is read as 0.                                              *)
(***************************************************************************)
EXTENDS Integers, Sequences

CONSTANTS
  Threads,      \* user threads
  RestClient,   \* a REST client is set
  Unsubscribes, \* the users also unsubscribe
  maxTickAge,   \* in ticks; 0 disables the check
  timeout,      \* of a read, in ticks
  Lag,          \* bound: ticks a message or a REST call may take
  MaxChanges,   \* bound: how often the prices change
  MaxWire,      \* bound: messages under way when the stream starts
  MaxClock      \* bound: the last tick

ASSUME CacheAssumption ==
  /\ RestClient \in BOOLEAN /\ Unsubscribes \in BOOLEAN
  /\ maxTickAge \in Nat /\ timeout \in Nat /\ Lag \in Nat
  /\ MaxChanges \in Nat /\ MaxWire \in Nat /\ MaxClock \in Nat

VARIABLES
  ticker,      \* the entry of `tickers', NoTicker when there is none
  subscribed,  \* the session has the topic in one of its books
  thread,      \* the user threads
  clock,       \* the steady clock
  venue,       \* the venue's prices
  ended,       \* per side, when its n-th price stopped being true
  streaming,   \* the venue's side of the topic: "off", "on", "silent"
  wire,        \* messages on their way to the io thread
  lacks        \* the sides the last message merged about them said have no quote

cache == <<ticker, subscribed>>
world == <<venue, ended, streaming, wire, lacks>>
vars  == <<cache, thread, clock, world>>

Sides == {"bid1Price", "ask1Price"}
Ticker == [price : [Sides -> Nat], received : Nat]
NoTicker == [price |-> [s \in Sides |-> 0], received |-> 0]

\* A thread: where it is, what its REST call was answered, its deadline or the time
\* it was served, what it was served.
Thread == [at : {"idle", "subscribing", "polling", "asking", "answered", "served", "dropping"},
           reads : BOOLEAN, time : Nat, quote : Ticker]
User(where, reads, time, quote) == [at |-> where, reads |-> reads, time |-> time, quote |-> quote]
IdleThread == User("idle", FALSE, 0, NoTicker)

Init ==
  /\ ticker = NoTicker /\ subscribed = FALSE
  /\ thread = [t \in Threads |-> IdleThread]
  /\ clock = 1
  /\ venue = [s \in Sides |-> 1] /\ ended = [s \in Sides |-> <<>>]
  /\ streaming = "off" /\ wire = <<>> /\ lacks = {}

At(t, where) == thread[t].at = where
Go(t, where) == thread' = [thread EXCEPT ![t] = User(where, @.reads, @.time, @.quote)]

\* The venue's quote: its book may have no asks.
OneSided == {{}, {"ask1Price"}}
Quoted(bad) == [s \in Sides |-> IF s \in bad THEN 0 ELSE venue[s]]

\* isStale().
IsStale_Mutant(q) == maxTickAge > 0 /\ q.received = 0
IsStale(q) == maxTickAge > 0 /\ (q.received = 0 \/ clock - q.received > maxTickAge)

-----------------------------------------------------------------------------
(* The io thread *)

\* The data callback: merge the fields the message carries into the entry, a new
\* one if there is none, and stamp it.
Merge_Mutant(data) == [price    |-> [s \in Sides |-> IF s \in DOMAIN data THEN data[s] ELSE 0],
                       received |-> clock]
Merge(data) == [price    |-> [s \in Sides |-> IF s \in DOMAIN data THEN data[s]
                                              ELSE ticker.price[s]],
                received |-> clock]
Deliver ==
  /\ wire # <<>>
  /\ ticker' = Merge(Head(wire).data)
  /\ wire' = Tail(wire)
  /\ LET data == Head(wire).data
     IN  lacks' = (lacks \ DOMAIN data) \cup {s \in DOMAIN data : data[s] = 0}
  /\ UNCHANGED <<subscribed, thread, clock, venue, ended, streaming>>

-----------------------------------------------------------------------------
(* User threads *)

\* subscribeTickerStream(): only the first subscription goes on to the REST seed.
BeginSubscribe(t) ==
  /\ At(t, "idle") /\ ~subscribed
  /\ Go(t, "subscribing")
  /\ UNCHANGED <<cache, clock, world>>

DoSubscribe(t) ==
  /\ At(t, "subscribing")
  /\ subscribed' = TRUE
  /\ thread' = [thread EXCEPT ![t] = IF RestClient THEN User("asking", FALSE, clock, NoTicker)
                                     ELSE IdleThread]
  /\ UNCHANGED <<ticker, clock, world>>

\* unsubscribeTickerStream(): the session first, then the entry, under its lock.
BeginUnsubscribe(t) ==
  /\ Unsubscribes /\ At(t, "idle") /\ subscribed
  /\ subscribed' = FALSE
  /\ Go(t, "dropping")
  /\ UNCHANGED <<ticker, clock, world>>

DropTicker(t) ==
  /\ At(t, "dropping")
  /\ ticker' = NoTicker /\ lacks' = {}
  /\ Go(t, "idle")
  /\ UNCHANGED <<subscribed, clock, venue, ended, streaming, wire>>

\* readEventTicker(): poll until there is an entry or the deadline passed.
BeginRead(t) ==
  /\ At(t, "idle") /\ clock + timeout <= MaxClock
  /\ thread' = [thread EXCEPT ![t] = User("polling", TRUE, clock + timeout, NoTicker)]
  /\ UNCHANGED <<cache, clock, world>>

Serve(t, q) == thread' = [thread EXCEPT ![t] = User("served", TRUE, clock, q)]

PollHit(t) ==
  /\ At(t, "polling") /\ ticker # NoTicker /\ ~IsStale(ticker)
  /\ Serve(t, ticker)
  /\ UNCHANGED <<cache, clock, world>>

\* Stale, or nothing until the deadline: fall back to REST, if there is a client.
GivesUp_Mutant(t) == ticker # NoTicker /\ IsStale(ticker)
GivesUp(t) == IF ticker # NoTicker THEN IsStale(ticker) ELSE clock >= thread[t].time
PollMiss(t) ==
  /\ At(t, "polling") /\ GivesUp(t)
  /\ thread' = [thread EXCEPT ![t] = IF RestClient THEN User("asking", TRUE, clock, NoTicker)
                                     ELSE IdleThread]
  /\ UNCHANGED <<cache, clock, world>>

\* getTickers(): the venue reads its prices now; the answer is on its way.
RestAnswers(t) ==
  /\ At(t, "asking")
  /\ \E bad \in OneSided :
       thread' = [thread EXCEPT ![t] =
                    User("answered", @.reads, @.time, [price |-> Quoted(bad), received |-> 0])]
  /\ UNCHANGED <<cache, clock, world>>

RestFails(t) ==
  /\ At(t, "asking")
  /\ thread' = [thread EXCEPT ![t] = IdleThread]
  /\ UNCHANGED <<cache, clock, world>>

\* refreshTickerFromREST(): a complete snapshot replaces the entry and is returned.
Usable_Mutant(price) == price["bid1Price"] > 0
Usable(price) == \A s \in Sides : price[s] > 0
Refresh(t) ==
  /\ At(t, "answered")
  /\ LET q == [price |-> thread[t].quote.price, received |-> clock]
     IN  IF Usable(q.price)
         THEN /\ ticker' = q
              /\ IF thread[t].reads THEN Serve(t, q)
                 ELSE thread' = [thread EXCEPT ![t] = IdleThread]
         ELSE /\ thread' = [thread EXCEPT ![t] = IdleThread]
              /\ UNCHANGED ticker
  /\ UNCHANGED <<subscribed, clock, world>>

\* The caller is done with what it was served.
Return(t) ==
  /\ At(t, "served")
  /\ thread' = [thread EXCEPT ![t] = IdleThread]
  /\ UNCHANGED <<cache, clock, world>>

-----------------------------------------------------------------------------
(* The venue and the connection *)

Message(data) == [data |-> data, at |-> clock]

\* A subscribe takes effect, or a reconnect replays it: a snapshot comes first and
\* what the old connection carried is gone.
VenueStarts ==
  /\ subscribed /\ streaming # "on" /\ Len(wire) < MaxWire
  /\ streaming' = "on"
  /\ \E bad \in OneSided :
       wire' = (IF streaming = "off" THEN wire ELSE <<>>) \o <<Message(Quoted(bad))>>
  /\ UNCHANGED <<cache, thread, clock, venue, ended, lacks>>

VenueStops ==
  /\ ~subscribed /\ streaming # "off"
  /\ streaming' = "off"
  /\ UNCHANGED <<cache, thread, clock, venue, ended, wire, lacks>>

\* The connection goes silent; what was on the wire still arrives or is lost.
GoesSilent ==
  /\ streaming = "on"
  /\ streaming' = "silent"
  /\ wire' \in {wire, <<>>}
  /\ UNCHANGED <<cache, thread, clock, venue, ended, lacks>>

PriceChanges(s) ==
  /\ venue["bid1Price"] + venue["ask1Price"] - 2 < MaxChanges
  /\ venue' = [venue EXCEPT ![s] = @ + 1]
  /\ ended' = [ended EXCEPT ![s] = Append(@, clock)]
  /\ wire' = IF streaming = "on" THEN Append(wire, Message([x \in {s} |-> venue[s] + 1]))
             ELSE wire
  /\ UNCHANGED <<cache, thread, clock, streaming, lacks>>

\* A delta of another field of the topic (last price, volume, funding), or of a side that
\* has no quote any more.
OtherChanges ==
  /\ streaming = "on" /\ wire = <<>>
  /\ \E bad \in OneSided : bad \cap lacks = {} /\ wire' = <<Message([s \in bad |-> 0])>>
  /\ UNCHANGED <<cache, thread, clock, venue, ended, streaming, lacks>>

\* Time passes; a message or a REST call takes at most Lag ticks.
Tick ==
  /\ clock < MaxClock /\ clock' = clock + 1
  /\ wire # <<>> => clock - Head(wire).at < Lag
  /\ \A t \in Threads : At(t, "asking") \/ At(t, "answered") => clock - thread[t].time < Lag
  /\ UNCHANGED <<cache, thread, world>>

-----------------------------------------------------------------------------
Reading(t) ==
  \/ BeginRead(t) \/ PollHit(t) \/ PollMiss(t) \/ RestAnswers(t) \/ RestFails(t)
  \/ Refresh(t) \/ Return(t)

Next ==
  \/ Deliver
  \/ \E t \in Threads : \/ Reading(t) \/ BeginSubscribe(t) \/ DoSubscribe(t)
                        \/ BeginUnsubscribe(t) \/ DropTicker(t)
  \/ VenueStarts \/ VenueStops \/ GoesSilent \/ OtherChanges
  \/ \E s \in Sides : PriceChanges(s)
  \/ Tick

Spec == Init /\ [][Next]_vars

\* The clock and the io thread run; a thread that reads goes on: it polls again every
\* 3 ms, and HTTP calls end (they have a timeout).
Proceeds(t) == PollHit(t) \/ PollMiss(t) \/ RestAnswers(t) \/ RestFails(t) \/ Refresh(t)
FairSpec ==
  /\ Spec /\ WF_vars(Tick) /\ WF_vars(Deliver)
  /\ \A t \in Threads : WF_vars(Proceeds(t))

-----------------------------------------------------------------------------
\* The type invariant: an entry always has every field, and time stamps of the
\* steady clock are never ahead of it.
TypeOK ==
  /\ ticker \in Ticker /\ ticker.received <= clock /\ subscribed \in BOOLEAN /\ thread \in [Threads -> Thread]
  /\ clock \in Nat /\ venue \in [Sides -> Nat] /\ ended \in [Sides -> Seq(Nat)]
  /\ streaming \in {"off", "on", "silent"} /\ lacks \subseteq Sides
  /\ \A i \in DOMAIN wire : /\ wire[i].at \in Nat /\ DOMAIN wire[i].data \subseteq Sides
                            /\ \A s \in DOMAIN wire[i].data : wire[i].data[s] \in Nat

\* Was price n of side s true at some time from `from' on?
TrueSince(s, n, from) == n = venue[s] \/ ended[s][n] >= from

\* A quote a reader is served was the venue's at most maxTickAge (and the time a
\* message takes) ago, on both sides: a dead or silent stream, a reconnect and
\* deltas of other fields never make an old price look fresh.
ServedFresh ==
  \A t \in Threads, s \in Sides :
    At(t, "served") /\ thread[t].quote.price[s] > 0 /\ thread[t].time > maxTickAge + Lag =>
      TrueSince(s, thread[t].quote.price[s], thread[t].time - maxTickAge - Lag)

\* A quote without a price on one side is served only when the stream's own last word is
\* that the side has none. Half a REST answer is neither served nor cached, and a delta,
\* which carries only what changed, takes nothing from the entry and makes no half one, as
\* long as nobody unsubscribes: a delta on its way then creates an entry of its own.
ServesKnown ==
  \A t \in Threads, s \in Sides :
    ~At(t, "served") /\ At(t, "served")' /\ thread'[t].quote.price[s] = 0 => At(t, "polling") /\ s \in lacks
ServedKnown == [][ServesKnown]_vars

\* Fed by the stream alone, the entry never goes back to an earlier price, nor loses one
\* but to a message that says so, until an unsubscribe drops it as a whole.
Says0(s) == wire # <<>> /\ s \in DOMAIN Head(wire).data /\ Head(wire).data[s] = 0
KeepsPrices ==
  \/ ticker' = NoTicker
  \/ \A s \in Sides : ticker'.price[s] >= ticker.price[s] \/ (ticker'.price[s] = 0 /\ Says0(s))
NeverRegresses == [][KeepsPrices]_vars

\* readEventTicker() ends: served, or empty-handed after its timeout and REST call.
ReadReturns == \A t \in Threads : At(t, "polling") ~> (At(t, "served") \/ At(t, "idle"))

============================================================================
