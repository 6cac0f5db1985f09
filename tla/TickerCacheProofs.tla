------------------------- MODULE TickerCacheProofs -------------------------
(***************************************************************************)
(* Proofs about the quote cache, for any number of threads, price changes  *)
(* and messages under way: what is served while nobody unsubscribes lacks  *)
(* a side only where the stream said so; and what the stream alone feeds   *)
(* never goes back to an earlier price, nor is it served when it is older  *)
(* than the limit.                                                         *)
(***************************************************************************)
EXTENDS MCTickerCache, TLAPS, SequenceTheorems

Complete(q) == \A s \in Sides : q.price[s] \in Nat /\ q.price[s] > 0
Message0 == [data : UNION {[D -> Nat] : D \in SUBSET Sides}, at : Nat]

-----------------------------------------------------------------------------
(* With a REST client, and nobody who unsubscribes *)

\* A quote that lacks only what the stream said there is none of.
Known(q) == \A s \in Sides : q.price[s] \in Nat /\ (q.price[s] = 0 => s \in lacks)

\* An entry is such a quote; where there is none, the first message under way, or the first
\* one there will be, speaks of both sides.
WholeFirst ==
  Known(ticker) \/ /\ ticker = NoTicker
                   /\ wire = <<>> => streaming # "on"
                   /\ wire # <<>> => DOMAIN Head(wire).data = Sides

ServedInv ==
  /\ clock \in Nat /\ venue \in [Sides -> Nat \ {0}]
  /\ wire \in Seq(Message0) /\ WholeFirst
  /\ DOMAIN thread = Threads
  /\ \A t \in Threads : /\ thread[t].at # "dropping"
                        /\ thread[t].at = "answered" => thread[t].quote.price \in [Sides -> Nat]

\* A message of the venue.
LEMMA MessageFacts ==
  ASSUME NEW m \in Message0
  PROVE  /\ DOMAIN m.data \subseteq Sides /\ m.at \in Nat
         /\ \A s \in DOMAIN m.data : m.data[s] \in Nat
  <1>1. PICK D \in SUBSET Sides : m.data \in [D -> Nat]
    BY DEF Message0
  <1>2. m.at \in Nat
    BY DEF Message0
  <1> QED BY <1>1, <1>2

\* What a message holds makes it one.
LEMMA IsMessage ==
  ASSUME NEW D \in SUBSET Sides, NEW data \in [D -> Nat], NEW at \in Nat
  PROVE  [data |-> data, at |-> at] \in Message0
  BY DEF Message0

\* A queue of messages loses its first one, or gets one more.
LEMMA QueueFacts ==
  ASSUME NEW w \in Seq(Message0), NEW m \in Message0
  PROVE  /\ w # <<>> => Head(w) \in Message0 /\ Head(w) = w[1] /\ Tail(w) \in Seq(Message0) /\ Len(w) >= 1
                        /\ Len(Tail(w)) = Len(w) - 1 /\ \A i \in 1..Len(Tail(w)) : Tail(w)[i] = w[i + 1]
         /\ w \o <<m>> = Append(w, m)
         /\ Append(w, m) \in Seq(Message0) /\ Append(w, m) # <<>> /\ Len(Append(w, m)) = Len(w) + 1
         /\ Append(w, m)[Len(w) + 1] = m /\ \A i \in 1..Len(w) : Append(w, m)[i] = w[i]
         /\ Head(Append(w, m)) = IF w = <<>> THEN m ELSE Head(w)
  <1>1. w # <<>> => Head(w) \in Message0 /\ Tail(w) \in Seq(Message0) /\ Len(Tail(w)) = Len(w) - 1
                    /\ \A i \in 1..Len(Tail(w)) : Tail(w)[i] = w[i + 1]
    BY HeadTailProperties
  <1>2. w # <<>> => Head(w) = w[1] /\ Len(w) >= 1
    BY EmptySeq, LenProperties
  <1>3. /\ Append(w, m) \in Seq(Message0) /\ Append(w, m) # <<>> /\ Len(Append(w, m)) = Len(w) + 1
        /\ Append(w, m)[Len(w) + 1] = m /\ \A i \in 1..Len(w) : Append(w, m)[i] = w[i]
    BY AppendProperties
  <1>4. w \o <<m>> = Append(w, m)
    BY AppendIsConcat
  <1>5. Head(Append(w, m)) = IF w = <<>> THEN m ELSE Head(w)
    <2>1. CASE w = <<>>
      <3>1. Len(w) = 0
        BY <2>1
      <3>2. Append(w, m)[1] = m
        BY <1>3, <3>1
      <3> QED BY <2>1, <3>2
    <2>2. CASE w # <<>>
      <3>1. Append(w, m)[1] = w[1]
        BY <1>2, <1>3, <2>2, LenProperties
      <3> QED BY <1>2, <2>2, <3>1
    <2> QED BY <2>1, <2>2
  <1> QED BY <1>1, <1>2, <1>3, <1>4, <1>5

\* One message is a queue.
LEMMA OneMessage ==
  ASSUME NEW m \in Message0
  PROVE  <<m>> \in Seq(Message0) /\ Len(<<m>>) = 1 /\ <<m>>[1] = m /\ <<>> \o <<m>> = <<m>>
  OBVIOUS

\* A snapshot is a message about both sides.
LEMMA SnapshotIsMessage ==
  ASSUME venue \in [Sides -> Nat \ {0}], clock \in Nat, NEW bad
  PROVE  Message(Quoted(bad)) \in Message0 /\ DOMAIN Message(Quoted(bad)).data = Sides
  <1>1. Quoted(bad) \in [Sides -> Nat]
    BY DEF Quoted
  <1>2. Message(Quoted(bad)) \in Message0
    BY <1>1, IsMessage DEF Message
  <1> QED BY <1>1, <1>2 DEF Message

\* A thread moves, and the entry stays or becomes a complete one.
LEMMA ReaderMoves ==
  ASSUME ServedInv, NEW t \in Threads, NEW u, thread' = [thread EXCEPT ![t] = u], UNCHANGED <<clock, world>>,
         ticker' = ticker \/ Complete(ticker'), u.at # "dropping",
         u.at = "served" => \A s \in Sides : u.quote.price[s] = 0 => thread[t].at = "polling" /\ s \in lacks,
         u.at = "answered" => u.quote.price \in [Sides -> Nat]
  PROVE  ServedInv' /\ ServesKnown
  <1>1. UNCHANGED <<venue, wire, streaming, lacks>>
    BY DEF world
  <1>2. WholeFirst'
    BY <1>1 DEF WholeFirst, ServedInv, Complete, Known
  <1>3. DOMAIN thread' = Threads /\ thread'[t] = u /\ \A x \in Threads : x # t => thread'[x] = thread[x]
    BY DEF ServedInv
  <1>4. ServesKnown
    BY <1>3 DEF ServesKnown, At
  <1> QED BY <1>1, <1>2, <1>3, <1>4 DEF ServedInv

\* Every step but those of the ones who unsubscribe preserves the invariant, and serves
\* nothing less than it may.
LEMMA ServedStep == ASSUME ~Unsubscribes, ServedInv, [Next]_vars PROVE ServedInv' /\ ServesKnown
  <1>0. UNCHANGED thread => ServesKnown
    BY DEF ServesKnown, At
  <1>1. CASE Deliver
    <2>1. wire # <<>> /\ wire' = Tail(wire) /\ UNCHANGED <<thread, clock, venue, streaming>>
      BY <1>1 DEF Deliver
    <2>2. PICK data : data = Head(wire).data
      OBVIOUS
    <2>3. Head(wire) \in Message0 /\ Tail(wire) \in Seq(Message0)
      BY <2>1, QueueFacts DEF ServedInv
    <2>4. DOMAIN data \subseteq Sides /\ \A s \in DOMAIN data : data[s] \in Nat
      BY <2>2, <2>3, MessageFacts
    <2>5. /\ ticker' = [price |-> [s \in Sides |-> IF s \in DOMAIN data THEN data[s] ELSE ticker.price[s]],
                        received |-> clock]
          /\ lacks' = (lacks \ DOMAIN data) \cup {s \in DOMAIN data : data[s] = 0}
      BY <1>1, <2>2 DEF Deliver, Merge
    <2>6. ASSUME NEW s \in Sides, s \notin DOMAIN data
          PROVE  ticker.price[s] \in Nat /\ (ticker.price[s] = 0 => s \in lacks)
      BY <2>1, <2>2, <2>6 DEF ServedInv, WholeFirst, Known
    <2>7. Known(ticker)'
      <3> SUFFICES ASSUME NEW s \in Sides
                   PROVE  ticker'.price[s] \in Nat /\ (ticker'.price[s] = 0 => s \in lacks')
        BY DEF Known
      <3>1. ticker'.price[s] = IF s \in DOMAIN data THEN data[s] ELSE ticker.price[s]
        BY <2>5
      <3>2. CASE s \in DOMAIN data
        BY <2>4, <2>5, <3>1, <3>2
      <3>3. CASE s \notin DOMAIN data
        BY <2>5, <2>6, <3>1, <3>3
      <3> QED BY <3>2, <3>3
    <2>8. WholeFirst'
      BY <2>7 DEF WholeFirst
    <2> QED BY <1>0, <2>1, <2>3, <2>8 DEF ServedInv
  <1>2. ASSUME NEW t \in Threads, Reading(t) \/ BeginSubscribe(t) \/ DoSubscribe(t)
        PROVE  ServedInv' /\ ServesKnown
    <2>1. IdleThread.at = "idle"
      BY DEF IdleThread, User
    <2>2. CASE BeginRead(t)
      <3>1. PICK u : u = User("polling", TRUE, clock + timeout, NoTicker)
        OBVIOUS
      <3>2. u.at = "polling"
        BY <3>1 DEF User
      <3>3. thread' = [thread EXCEPT ![t] = u] /\ UNCHANGED <<clock, world, ticker>>
        BY <2>2, <3>1 DEF BeginRead, cache
      <3> QED BY <3>2, <3>3, ReaderMoves
    <2>3. CASE PollHit(t)
      <3>1. PICK u : u = User("served", TRUE, clock, ticker)
        OBVIOUS
      <3>2. u.at = "served" /\ u.quote = ticker
        BY <3>1 DEF User
      <3>3. thread' = [thread EXCEPT ![t] = u] /\ UNCHANGED <<clock, world, ticker>> /\ ticker # NoTicker
        BY <2>3, <3>1 DEF PollHit, Serve, cache
      <3>4. Known(ticker) /\ thread[t].at = "polling"
        BY <2>3, <3>3 DEF ServedInv, WholeFirst, PollHit, At
      <3>5. \A s \in Sides : u.quote.price[s] = 0 => thread[t].at = "polling" /\ s \in lacks
        BY <3>2, <3>4 DEF Known
      <3> QED BY <3>2, <3>3, <3>5, ReaderMoves
    <2>4. CASE PollMiss(t)
      <3>1. PICK u : u = IF RestClient THEN User("asking", TRUE, clock, NoTicker) ELSE IdleThread
        OBVIOUS
      <3>2. u.at \in {"asking", "idle"}
        BY <2>1, <3>1 DEF User
      <3>3. thread' = [thread EXCEPT ![t] = u] /\ UNCHANGED <<clock, world, ticker>>
        BY <2>4, <3>1 DEF PollMiss, cache
      <3> QED BY <3>2, <3>3, ReaderMoves
    <2>5. CASE RestAnswers(t)
      <3>1. PICK bad : thread' = [thread EXCEPT ![t] =
                         User("answered", @.reads, @.time, [price |-> Quoted(bad), received |-> 0])]
        BY <2>5 DEF RestAnswers
      <3>2. PICK q : q = [price |-> Quoted(bad), received |-> 0]
        OBVIOUS
      <3>3. PICK u : u = User("answered", thread[t].reads, thread[t].time, q)
        OBVIOUS
      <3>4. u.at = "answered" /\ u.quote = q
        BY <3>3 DEF User
      <3>5. thread' = [thread EXCEPT ![t] = u] /\ UNCHANGED <<clock, world, ticker>>
        BY <2>5, <3>1, <3>2, <3>3 DEF RestAnswers, cache
      <3>6. q.price \in [Sides -> Nat]
        BY <3>2 DEF ServedInv, Quoted
      <3> QED BY <3>4, <3>5, <3>6, ReaderMoves
    <2>6. CASE RestFails(t) \/ Return(t)
      <3>1. thread' = [thread EXCEPT ![t] = IdleThread] /\ UNCHANGED <<clock, world, ticker>>
        BY <2>6 DEF RestFails, Return, cache
      <3> QED BY <2>1, <3>1, ReaderMoves
    <2>7. CASE Refresh(t)
      <3>1. PICK q : q = [price |-> thread[t].quote.price, received |-> clock]
        OBVIOUS
      <3>2. thread[t].at = "answered" /\ UNCHANGED <<clock, world>>
        BY <2>7 DEF Refresh, At
      <3>3. q.price \in [Sides -> Nat]
        BY <3>1, <3>2 DEF ServedInv
      <3>4. CASE ~Usable(q.price)
        <4>1. thread' = [thread EXCEPT ![t] = IdleThread] /\ ticker' = ticker
          BY <2>7, <3>1, <3>4 DEF Refresh
        <4> QED BY <2>1, <3>2, <4>1, ReaderMoves
      <3>5. CASE Usable(q.price)
        <4>1. Complete(q)
          BY <3>3, <3>5 DEF Usable, Complete
        <4>2. ticker' = q
          BY <2>7, <3>1, <3>5 DEF Refresh
        <4>3. Complete(ticker')
          BY <4>1, <4>2
        <4>4. PICK u : u = IF thread[t].reads THEN User("served", TRUE, clock, q) ELSE IdleThread
          OBVIOUS
        <4>5. thread' = [thread EXCEPT ![t] = u]
          BY <2>7, <3>1, <3>5, <4>4 DEF Refresh, Serve
        <4>6. CASE thread[t].reads
          <5>1. u.at = "served" /\ u.quote = q
            BY <4>4, <4>6 DEF User
          <5>2. \A s \in Sides : u.quote.price[s] # 0
            BY <4>1, <5>1 DEF Complete
          <5> QED BY <3>2, <4>3, <4>5, <5>1, <5>2, ReaderMoves
        <4>7. CASE ~thread[t].reads
          <5>1. u.at = "idle"
            BY <2>1, <4>4, <4>7
          <5> QED BY <3>2, <4>3, <4>5, <5>1, ReaderMoves
        <4> QED BY <4>6, <4>7
      <3> QED BY <3>4, <3>5
    <2>8. CASE BeginSubscribe(t)
      <3>1. PICK u : u = User("subscribing", thread[t].reads, thread[t].time, thread[t].quote)
        OBVIOUS
      <3>2. thread' = [thread EXCEPT ![t] = u] /\ UNCHANGED <<clock, world, ticker>>
        BY <2>8, <3>1 DEF BeginSubscribe, Go, cache
      <3>3. u.at # "dropping" /\ u.at # "served" /\ u.at # "answered"
        BY <3>1 DEF User
      <3> QED BY <3>2, <3>3, ReaderMoves
    <2>9. CASE DoSubscribe(t)
      <3>1. PICK u : u = IF RestClient THEN User("asking", FALSE, clock, NoTicker) ELSE IdleThread
        OBVIOUS
      <3>2. u.at \in {"asking", "idle"}
        BY <2>1, <3>1 DEF User
      <3>3. thread' = [thread EXCEPT ![t] = u] /\ UNCHANGED <<clock, world, ticker>>
        BY <2>9, <3>1 DEF DoSubscribe
      <3> QED BY <3>2, <3>3, ReaderMoves
    <2> QED BY <1>2, <2>2, <2>3, <2>4, <2>5, <2>6, <2>7, <2>8, <2>9 DEF Reading
  <1>3. ASSUME NEW t \in Threads, BeginUnsubscribe(t) \/ DropTicker(t) PROVE FALSE
    BY <1>3 DEF BeginUnsubscribe, DropTicker, At, ServedInv
  <1>4. CASE VenueStarts
    <2>1. PICK w : w = IF streaming = "off" THEN wire ELSE <<>>
      OBVIOUS
    <2>0. PICK bad : wire' = w \o <<Message(Quoted(bad))>>
      BY <1>4, <2>1 DEF VenueStarts
    <2>2. PICK m \in Message0 : m = Message(Quoted(bad)) /\ DOMAIN m.data = Sides
      BY SnapshotIsMessage DEF ServedInv
    <2>3. wire' = w \o <<m>> /\ UNCHANGED <<ticker, thread, clock, venue, lacks>>
      BY <1>4, <2>0, <2>2 DEF VenueStarts, cache
    <2>4. w \in Seq(Message0) /\ (w # <<>> => w = wire)
      BY <2>1 DEF ServedInv
    <2>5. wire' \in Seq(Message0) /\ wire' # <<>> /\ (Head(wire') = IF w = <<>> THEN m ELSE Head(w))
      BY <2>3, <2>4, QueueFacts
    <2>6. WholeFirst'
      BY <2>2, <2>3, <2>4, <2>5 DEF ServedInv, WholeFirst, Known
    <2> QED BY <1>0, <2>3, <2>5, <2>6 DEF ServedInv
  <1>5. CASE VenueStops
    BY <1>0, <1>5 DEF VenueStops, cache, ServedInv, WholeFirst, Known
  <1>6. CASE GoesSilent
    <2>1. UNCHANGED <<ticker, thread, clock, venue, lacks>> /\ streaming' = "silent" /\ wire' \in {wire, <<>>}
      BY <1>6 DEF GoesSilent, cache
    <2>0. <<>> \in Seq(Message0)
      BY EmptySeq
    <2>2. wire' \in Seq(Message0)
      BY <2>0, <2>1, Zenon DEF ServedInv
    <2> QED BY <1>0, <2>1, <2>2 DEF ServedInv, WholeFirst, Known
  <1>7. CASE OtherChanges
    <2>1. PICK bad \in OneSided : wire' = <<Message([s \in bad |-> 0])>>
      BY <1>7 DEF OtherChanges
    <2>2. streaming = "on" /\ wire = <<>> /\ UNCHANGED <<ticker, thread, clock, venue, streaming, lacks>>
      BY <1>7 DEF OtherChanges, cache
    <2>3. bad \in SUBSET Sides /\ [s \in bad |-> 0] \in [bad -> Nat]
      BY DEF OneSided, Sides
    <2>4. PICK m \in Message0 : m = Message([s \in bad |-> 0])
      BY <2>3, IsMessage DEF Message, ServedInv
    <2>5. wire' \in Seq(Message0)
      BY <2>1, <2>4, OneMessage
    <2>6. Known(ticker)
      BY <2>2 DEF ServedInv, WholeFirst
    <2> QED BY <1>0, <2>2, <2>5, <2>6 DEF ServedInv, WholeFirst, Known
  <1>8. ASSUME NEW s \in Sides, PriceChanges(s) PROVE ServedInv' /\ ServesKnown
    <2>1. /\ venue' = [venue EXCEPT ![s] = @ + 1] /\ UNCHANGED <<ticker, thread, clock, streaming, lacks>>
          /\ wire' = IF streaming = "on" THEN Append(wire, Message([x \in {s} |-> venue[s] + 1])) ELSE wire
      BY <1>8 DEF PriceChanges, cache
    <2>2. venue' \in [Sides -> Nat \ {0}]
      BY <2>1 DEF ServedInv
    <2>3. [x \in {s} |-> venue[s] + 1] \in [{s} -> Nat]
      BY DEF ServedInv
    <2>4. PICK m \in Message0 : m = Message([x \in {s} |-> venue[s] + 1])
      BY <2>3, IsMessage DEF Message, ServedInv
    <2>5. CASE streaming = "on"
      <3>1. wire' = Append(wire, m)
        BY <2>1, <2>4, <2>5
      <3>2. wire' \in Seq(Message0) /\ wire' # <<>> /\ (Head(wire') = IF wire = <<>> THEN m ELSE Head(wire))
        BY <3>1, QueueFacts DEF ServedInv
      <3>3. WholeFirst'
        BY <2>1, <2>5, <3>2 DEF ServedInv, WholeFirst, Known
      <3> QED BY <1>0, <2>1, <2>2, <3>2, <3>3 DEF ServedInv
    <2>6. CASE streaming # "on"
      BY <1>0, <2>1, <2>2, <2>6 DEF ServedInv, WholeFirst, Known
    <2> QED BY <2>5, <2>6
  <1>9. CASE Tick
    BY <1>0, <1>9 DEF Tick, cache, world, ServedInv, WholeFirst, Known
  <1>10. CASE UNCHANGED vars
    BY <1>0, <1>10 DEF vars, cache, world, ServedInv, WholeFirst, Known
  <1> QED BY <1>1, <1>2, <1>3, <1>4, <1>5, <1>6, <1>7, <1>8, <1>9, <1>10 DEF Next

\* As long as nobody unsubscribes, whatever REST answers, snapshots and deltas lack and in
\* whatever order they come: a quote is served without a price on one side only from the
\* cache, and only when the stream's last word is that the side has none.
THEOREM ServedIsKnown == ASSUME ~Unsubscribes PROVE SetupSpec => RestServedKnown
  <1> DEFINE Inv == setup = "rest" => ServedInv
  <1>1. SetupInit => Inv
    <2> SUFFICES ASSUME Init PROVE ServedInv
      BY DEF SetupInit
    <2>1. \A t \in Threads : thread[t].at = "idle"
      BY DEF Init, IdleThread, User
    <2> QED BY <2>1 DEF Init, ServedInv, WholeFirst
  <1>2. Inv /\ [SetupNext]_setupVars => Inv' /\ [setup = "rest" => ServesKnown]_vars
    <2>1. ASSUME setup = "rest", ServedInv, [SetupNext]_setupVars PROVE ServedInv' /\ ServesKnown
      <3>1. [Next]_vars
        BY <2>1 DEF SetupNext, setupVars
      <3> QED BY <2>1, <3>1, ServedStep
    <2>2. [SetupNext]_setupVars /\ setup # "rest" => setup' # "rest"
      BY DEF SetupNext, setupVars
    <2> QED BY <2>1, <2>2
  <1> QED BY <1>1, <1>2, PTL DEF SetupSpec, RestServedKnown

-----------------------------------------------------------------------------
(* The stream alone *)

\* A message of a queue that speaks of this side, and has a price of it; and that none
\* between two speaks of it.
Carries(w, i, s) == s \in DOMAIN w[i].data
Prices(w, i, s) == Carries(w, i, s) /\ w[i].data[s] > 0
Quiet(w, s, i, j) == \A k \in 1..Len(w) : i < k /\ k <= j => ~Carries(w, k, s)

\* Price n of side s was true at x, or later.
ValidAt(s, n, x) == n \in 1..venue[s] /\ (n # venue[s] => ended[s][n] >= x)

\* The messages under way are in order, and none is older than the time a message takes.
WireOK(w) ==
  /\ w \in Seq(Message0)
  /\ \A i \in 1..Len(w) : w[i].at <= clock /\ clock <= w[i].at + Lag
  /\ \A i, j \in 1..Len(w) : i <= j => w[i].at <= w[j].at
  /\ \A s \in Sides : \A i, j \in 1..Len(w) :
       i <= j /\ Prices(w, i, s) /\ Prices(w, j, s) => w[i].data[s] <= w[j].data[s]

\* What the venue tells of a side.
PriceOK(s) == venue[s] \in Nat \ {0} /\ ended[s] \in Seq(Nat) /\ Len(ended[s]) = venue[s] - 1

\* The entry's price: it was true Lag ticks before it came, and is still true when any
\* message leaves before which none has another; while the stream is on, the last price
\* there is, in the entry or under way, is the venue's.
EntryOK(s, w, st) ==
  LET p == ticker.price[s]
  IN  /\ p \in Nat /\ p <= venue[s]
      /\ \A i \in 1..Len(w) : Prices(w, i, s) => p <= w[i].data[s]
      /\ p > 0 => /\ ValidAt(s, p, ticker.received - Lag)
                  /\ \A i \in 1..Len(w) : Quiet(w, s, 0, i) => ValidAt(s, p, w[i].at)
                  /\ st = "on" /\ Quiet(w, s, 0, Len(w)) => p = venue[s]

\* The same of a price that is under way.
UnderWayOK(s, w, st) ==
  \A j \in 1..Len(w) : Prices(w, j, s) =>
    /\ w[j].data[s] <= venue[s]
    /\ \A i \in 1..Len(w) : j <= i /\ Quiet(w, s, j, i) => ValidAt(s, w[j].data[s], w[i].at)
    /\ st = "on" /\ Quiet(w, s, j, Len(w)) => w[j].data[s] = venue[s]

StreamThread(t) ==
  /\ thread[t].at \in {"idle", "subscribing", "polling", "served", "dropping"}
  /\ thread[t].at = "served" /\ maxTickAge > 0 =>
       /\ thread[t].time \in Nat /\ thread[t].time <= clock
       /\ \A s \in Sides : thread[t].quote.price[s] > 0 =>
            ValidAt(s, thread[t].quote.price[s], thread[t].time - maxTickAge - Lag)

StreamInv ==
  /\ clock \in Nat /\ WireOK(wire) /\ ticker.received \in Nat /\ ticker.received <= clock
  /\ DOMAIN venue = Sides /\ DOMAIN ended = Sides
  /\ \A s \in Sides : PriceOK(s) /\ EntryOK(s, wire, streaming) /\ UnderWayOK(s, wire, streaming)
  /\ DOMAIN thread = StreamThreads /\ \A t \in StreamThreads : StreamThread(t)

\* The instance's constants are this module's.
LEMMA StreamSame ==
  /\ Stream!Sides = Sides /\ Stream!NoTicker = NoTicker
  /\ NoTicker.received = 0 /\ \A s \in Sides : NoTicker.price[s] = 0
  BY DEF Stream!Sides, Sides, Stream!NoTicker, NoTicker

\* A price that was true at x or later was so before.
LEMMA ValidBefore ==
  ASSUME NEW s \in Sides, PriceOK(s), NEW n, NEW x \in Int, NEW y \in Int, y <= x, ValidAt(s, n, x)
  PROVE  ValidAt(s, n, y)
  <1>1. PICK v \in Nat : v = venue[s]
    BY DEF PriceOK
  <1>2. n \in 1..v /\ (n # v => ended[s][n] >= x)
    BY <1>1 DEF ValidAt
  <1>3. n # v => ended[s][n] \in Nat
    <2>1. n # v => n \in 1..Len(ended[s])
      BY <1>1, <1>2 DEF PriceOK
    <2> QED BY <2>1, ElementOfSeq DEF PriceOK
  <1>4. n # v => ended[s][n] >= y
    BY <1>2, <1>3
  <1> QED BY <1>1, <1>2, <1>4 DEF ValidAt

\* Nothing changes but the threads: one moves, and is not served, or is by what is valid.
LEMMA StreamReaderMoves ==
  ASSUME StreamInv, NEW t \in StreamThreads, NEW u, thread' = [thread EXCEPT ![t] = u],
         UNCHANGED <<ticker, clock, world>>,
         u.at \in {"idle", "subscribing", "polling", "served", "dropping"},
         u.at = "served" /\ maxTickAge > 0 =>
           /\ u.time \in Nat /\ u.time <= clock
           /\ \A s \in Sides : u.quote.price[s] > 0 => ValidAt(s, u.quote.price[s], u.time - maxTickAge - Lag)
  PROVE  StreamInv'
  <1>1. UNCHANGED <<ticker, clock, venue, ended, wire, streaming>>
    BY DEF world
  <1>2. ASSUME NEW s \in Sides
        PROVE  PriceOK(s)' /\ EntryOK(s, wire, streaming)' /\ UnderWayOK(s, wire, streaming)'
    <2>1. PICK w, st : w = wire /\ st = streaming
      OBVIOUS
    <2>2. PriceOK(s) /\ EntryOK(s, w, st) /\ UnderWayOK(s, w, st)
      BY <2>1 DEF StreamInv
    <2>3. \A n, x : ValidAt(s, n, x)' <=> ValidAt(s, n, x)
      BY <1>1 DEF ValidAt
    <2>4. PriceOK(s)'
      BY <1>1, <2>2 DEF PriceOK
    <2>5. EntryOK(s, w, st)'
      BY <1>1, <2>2, <2>3 DEF EntryOK
    <2>6. UnderWayOK(s, w, st)'
      BY <1>1, <2>2, <2>3 DEF UnderWayOK
    <2>7. w = wire' /\ st = streaming'
      BY <1>1, <2>1
    <2> QED BY <2>4, <2>5, <2>6, <2>7
  <1>3. WireOK(wire)'
    BY <1>1 DEF StreamInv, WireOK, Carries
  <1>4. DOMAIN thread' = StreamThreads /\ thread'[t] = u /\ \A x \in StreamThreads : x # t => thread'[x] = thread[x]
    BY DEF StreamInv
  <1>5. \A x \in StreamThreads : StreamThread(x)'
    BY <1>1, <1>4 DEF StreamInv, StreamThread, ValidAt
  <1> QED BY <1>1, <1>2, <1>3, <1>4, <1>5 DEF StreamInv

\* The threads of the stream alone.
LEMMA StreamReaderStep ==
  ASSUME StreamInv, NEW t \in StreamThreads,
         Stream!Reading(t) \/ Stream!BeginSubscribe(t) \/ Stream!DoSubscribe(t) \/ Stream!BeginUnsubscribe(t)
  PROVE  StreamInv'
  <1>0. thread[t].at \in {"idle", "subscribing", "polling", "served", "dropping"}
    BY DEF StreamInv, StreamThread
  <1>1. Stream!IdleThread.at = "idle"
    BY DEF Stream!IdleThread, Stream!User
  <1>2. CASE Stream!BeginRead(t)
    <2>1. PICK u : u = Stream!User("polling", TRUE, clock + timeout, Stream!NoTicker)
      OBVIOUS
    <2>2. u.at = "polling"
      BY <2>1 DEF Stream!User
    <2>3. thread' = [thread EXCEPT ![t] = u] /\ UNCHANGED <<ticker, clock, world>>
      BY <1>2, <2>1 DEF Stream!BeginRead, Stream!cache, Stream!world, world
    <2> QED BY <2>2, <2>3, StreamReaderMoves
  <1>3. CASE Stream!PollHit(t)
    <2>1. PICK u : u = Stream!User("served", TRUE, clock, ticker)
      OBVIOUS
    <2>2. u.at = "served" /\ u.time = clock /\ u.quote = ticker
      BY <2>1 DEF Stream!User
    <2>3. thread' = [thread EXCEPT ![t] = u] /\ UNCHANGED <<ticker, clock, world>> /\ ~Stream!IsStale(ticker)
      BY <1>3, <2>1 DEF Stream!PollHit, Stream!Serve, Stream!cache, Stream!world, world
    <2>4. PICK now \in Nat, came \in Nat : now = clock /\ came = ticker.received
      BY DEF StreamInv
    <2>5. maxTickAge > 0 => now - came <= maxTickAge
      BY <2>3, <2>4, CacheAssumption DEF Stream!IsStale
    <2>6. ASSUME maxTickAge > 0, NEW s \in Sides, ticker.price[s] > 0
          PROVE  ValidAt(s, ticker.price[s], clock - maxTickAge - Lag)
      <3>1. ValidAt(s, ticker.price[s], came - Lag) /\ PriceOK(s)
        BY <2>4, <2>6 DEF StreamInv, EntryOK
      <3>2. /\ came - Lag \in Int /\ now - maxTickAge - Lag \in Int
            /\ now - maxTickAge - Lag <= came - Lag
        BY <2>5, <2>6, CacheAssumption
      <3>3. ValidAt(s, ticker.price[s], now - maxTickAge - Lag)
        BY <3>1, <3>2, ValidBefore
      <3> QED BY <2>4, <3>3
    <2>7. clock \in Nat /\ clock <= clock
      BY <2>4
    <2> QED BY <2>2, <2>3, <2>6, <2>7, StreamReaderMoves
  <1>4. CASE Stream!PollMiss(t) \/ Stream!RestFails(t) \/ Stream!Return(t)
    <2>1. thread' = [thread EXCEPT ![t] = Stream!IdleThread] /\ UNCHANGED <<ticker, clock, world>>
      BY <1>4 DEF Stream!PollMiss, Stream!RestFails, Stream!Return, Stream!cache, Stream!world,
         world
    <2> QED BY <1>1, <2>1, StreamReaderMoves
  <1>5. CASE Stream!RestAnswers(t) \/ Stream!Refresh(t)
    BY <1>0, <1>5 DEF Stream!RestAnswers, Stream!Refresh, Stream!At
  <1>6. CASE Stream!BeginSubscribe(t)
    <2>1. PICK u : u = Stream!User("subscribing", thread[t].reads, thread[t].time, thread[t].quote)
      OBVIOUS
    <2>2. u.at = "subscribing"
      BY <2>1 DEF Stream!User
    <2>3. thread' = [thread EXCEPT ![t] = u] /\ UNCHANGED <<ticker, clock, world>>
      BY <1>6, <2>1 DEF Stream!BeginSubscribe, Stream!Go, Stream!cache, Stream!world, world
    <2> QED BY <2>2, <2>3, StreamReaderMoves
  <1>7. CASE Stream!DoSubscribe(t)
    <2>1. thread' = [thread EXCEPT ![t] = Stream!IdleThread] /\ UNCHANGED <<ticker, clock, world>>
      BY <1>7 DEF Stream!DoSubscribe, Stream!world, world
    <2> QED BY <1>1, <2>1, StreamReaderMoves
  <1>8. CASE Stream!BeginUnsubscribe(t)
    <2>1. PICK u : u = Stream!User("dropping", thread[t].reads, thread[t].time, thread[t].quote)
      OBVIOUS
    <2>2. u.at = "dropping"
      BY <2>1 DEF Stream!User
    <2>3. thread' = [thread EXCEPT ![t] = u] /\ UNCHANGED <<ticker, clock, world>>
      BY <1>8, <2>1 DEF Stream!BeginUnsubscribe, Stream!Go, Stream!world, world
    <2> QED BY <2>2, <2>3, StreamReaderMoves
  <1> QED BY <1>2, <1>3, <1>4, <1>5, <1>6, <1>7, <1>8 DEF Stream!Reading

\* The entry goes.
LEMMA StreamDropStep == ASSUME StreamInv, NEW t \in StreamThreads, Stream!DropTicker(t) PROVE StreamInv'
  <1>1. /\ ticker' = NoTicker /\ UNCHANGED <<clock, venue, ended, wire, streaming>>
        /\ thread' = [thread EXCEPT ![t] = Stream!User("idle", @.reads, @.time, @.quote)]
    BY StreamSame DEF Stream!DropTicker, Stream!Go
  <1>2. PICK u : u = Stream!User("idle", thread[t].reads, thread[t].time, thread[t].quote)
    OBVIOUS
  <1>3. /\ DOMAIN thread' = StreamThreads /\ thread'[t] = u
        /\ \A x \in StreamThreads : x # t => thread'[x] = thread[x]
    BY <1>1, <1>2 DEF StreamInv
  <1>4. u.at = "idle"
    BY <1>2 DEF Stream!User
  <1>5. ticker'.received = 0 /\ \A s \in Sides : ticker'.price[s] = 0
    BY <1>1, StreamSame
  <1>6. ASSUME NEW s \in Sides
        PROVE  PriceOK(s)' /\ EntryOK(s, wire, streaming)' /\ UnderWayOK(s, wire, streaming)'
    <2>1. PICK w, st : w = wire /\ st = streaming
      OBVIOUS
    <2>2. PriceOK(s) /\ EntryOK(s, w, st) /\ UnderWayOK(s, w, st) /\ WireOK(w)
      BY <2>1 DEF StreamInv
    <2>3. \A n, x : ValidAt(s, n, x)' <=> ValidAt(s, n, x)
      BY <1>1 DEF ValidAt
    <2>4. PriceOK(s)'
      BY <1>1, <2>2 DEF PriceOK
    <2>5. EntryOK(s, w, st)'
      <3>1. venue'[s] \in Nat
        BY <2>4 DEF PriceOK
      <3>2. \A i \in 1..Len(w) : Prices(w, i, s) => 0 <= w[i].data[s]
        <4> SUFFICES ASSUME NEW i \in 1..Len(w), Prices(w, i, s) PROVE 0 <= w[i].data[s]
          OBVIOUS
        <4>1. w[i] \in Message0
          BY <2>2, ElementOfSeq DEF WireOK
        <4> QED BY <4>1, MessageFacts DEF Carries, Prices
      <3>3. ticker'.price[s] = 0
        BY <1>5
      <3> QED BY <3>1, <3>2, <3>3 DEF EntryOK
    <2>6. UnderWayOK(s, w, st)'
      BY <1>1, <2>2, <2>3 DEF UnderWayOK
    <2>7. w = wire' /\ st = streaming'
      BY <1>1, <2>1
    <2> QED BY <2>4, <2>5, <2>6, <2>7
  <1>7. WireOK(wire)'
    BY <1>1 DEF StreamInv, WireOK, Carries
  <1>8. \A x \in StreamThreads : StreamThread(x)'
    BY <1>1, <1>3, <1>4 DEF StreamInv, StreamThread, ValidAt
  <1> QED BY <1>1, <1>3, <1>5, <1>6, <1>7, <1>8 DEF StreamInv

\* A message comes: the entry has its prices now, which are no earlier ones, and were
\* true when it left.
LEMMA StreamDeliverStep == ASSUME StreamInv, Stream!Deliver PROVE StreamInv' /\ KeepsPrices
  <1>1. PICK w \in Seq(Message0) : w = wire
    BY DEF StreamInv, WireOK
  <1>s. PICK st : st = streaming
    OBVIOUS
  <1>n. PICK now \in Nat : now = clock
    BY DEF StreamInv
  <1>2. st = streaming /\ now = clock
    BY <1>s, <1>n
  <1>3. w # <<>> /\ wire' = Tail(w) /\ UNCHANGED <<thread, clock, venue, ended, streaming>>
    BY <1>1 DEF Stream!Deliver
  <1>4. PICK v : v = Tail(w)
    OBVIOUS
  <1>5. /\ v \in Seq(Message0) /\ Len(w) \in Nat /\ Len(w) >= 1 /\ Len(v) = Len(w) - 1 /\ Head(w) = w[1]
        /\ \A i \in 1..Len(v) : v[i] = w[i + 1] /\ i + 1 \in 1..Len(w)
    <2>1. Head(w) \in Message0
      BY <1>3, HeadTailProperties
    <2>2. /\ Head(w) = w[1] /\ v \in Seq(Message0) /\ Len(w) >= 1 /\ Len(v) = Len(w) - 1
          /\ \A i \in 1..Len(v) : v[i] = w[i + 1]
      BY <1>3, <1>4, <2>1, QueueFacts
    <2> QED BY <2>2, LenProperties
  <1>6. PICK data : data = w[1].data
    OBVIOUS
  <1>7. ticker' = [price |-> [s \in Sides |-> IF s \in DOMAIN data THEN data[s] ELSE ticker.price[s]],
                   received |-> now]
    BY <1>1, <1>2, <1>5, <1>6, StreamSame DEF Stream!Deliver, Stream!Merge
  <1>8. ticker'.received = now
        /\ \A s \in Sides : ticker'.price[s] = IF Carries(w, 1, s) THEN w[1].data[s] ELSE ticker.price[s]
    BY <1>6, <1>7 DEF Carries
  <1>9. WireOK(w) /\ w[1] \in Message0 /\ 1 \in 1..Len(w)
    BY <1>1, <1>5, ElementOfSeq DEF StreamInv
  <1>10. /\ \A s, i : i \in 1..Len(v) => (Carries(v, i, s) <=> Carries(w, i + 1, s))
         /\ \A s, i, j : i \in 0..Len(v) /\ j \in 1..Len(v) /\ Quiet(v, s, i, j) => Quiet(w, s, i + 1, j + 1)
         /\ \A s, j : j \in 1..Len(w) /\ Quiet(w, s, 1, j) /\ ~Carries(w, 1, s) => Quiet(w, s, 0, j)
         /\ \A s : Quiet(w, s, 1, 1)
         /\ \A s, i : i \in 0..Len(v) /\ Quiet(v, s, i, Len(v)) => Quiet(w, s, i + 1, Len(w))
    <2>1. \A s, i : i \in 1..Len(v) => (Carries(v, i, s) <=> Carries(w, i + 1, s))
      BY <1>5 DEF Carries
    <2>2. ASSUME NEW s, NEW i \in 0..Len(v), NEW j \in 0..Len(v), Quiet(v, s, i, j) PROVE Quiet(w, s, i + 1, j + 1)
      <3> SUFFICES ASSUME NEW k \in 1..Len(w), i + 1 < k, k <= j + 1 PROVE ~Carries(w, k, s)
        BY DEF Quiet
      <3>1. PICK l \in 1..Len(v) : k = l + 1 /\ i < l /\ l <= j
        BY <1>5
      <3>2. ~Carries(v, l, s)
        BY <2>2, <3>1 DEF Quiet
      <3> QED BY <2>1, <3>1, <3>2
    <2>3. ASSUME NEW s, NEW j \in 1..Len(w), Quiet(w, s, 1, j), ~Carries(w, 1, s) PROVE Quiet(w, s, 0, j)
      <3> SUFFICES ASSUME NEW k \in 1..Len(w), k <= j PROVE ~Carries(w, k, s)
        BY DEF Quiet
      <3>1. k = 1 \/ 1 < k
        BY <1>5
      <3> QED BY <2>3, <3>1 DEF Quiet
    <2>4. \A s : Quiet(w, s, 1, 1)
      BY <1>5 DEF Quiet
    <2>5. \A s, i : i \in 0..Len(v) /\ Quiet(v, s, i, Len(v)) => Quiet(w, s, i + 1, Len(w))
      <3>1. Len(v) + 1 = Len(w) /\ Len(v) \in 0..Len(v)
        BY <1>5
      <3> QED BY <2>2, <3>1
    <2>6. \A j \in 1..Len(v) : j \in 0..Len(v)
      BY <1>5
    <2> QED BY <2>1, <2>2, <2>3, <2>4, <2>5, <2>6
  <1>11. ASSUME NEW s \in Sides
         PROVE  /\ PriceOK(s)' /\ EntryOK(s, v, st)' /\ UnderWayOK(s, v, st)'
                /\ ticker'.price[s] >= ticker.price[s] \/ (ticker'.price[s] = 0 /\ Carries(w, 1, s) /\ w[1].data[s] = 0)
    <2>1. PriceOK(s) /\ EntryOK(s, w, st) /\ UnderWayOK(s, w, st)
      BY <1>1, <1>2 DEF StreamInv
    <2>2. \A n, x : ValidAt(s, n, x)' <=> ValidAt(s, n, x)
      BY <1>3 DEF ValidAt
    <2>3. PriceOK(s)'
      BY <1>3, <2>1 DEF PriceOK
    <2>p. PICK p \in Nat : p = ticker.price[s]
      BY <2>1 DEF EntryOK
    <2>4. PICK p1 : /\ p = ticker.price[s] /\ p1 = ticker'.price[s]
                    /\ p1 = IF Carries(w, 1, s) THEN w[1].data[s] ELSE p
      BY <1>8, <2>p
    <2>5. /\ Carries(w, 1, s) => w[1].data[s] \in Nat
          /\ Prices(w, 1, s) => w[1].data[s] >= p /\ w[1].data[s] <= venue[s]
      <3>1. Carries(w, 1, s) => w[1].data[s] \in Nat
        BY <1>9, MessageFacts DEF Carries
      <3>2. Prices(w, 1, s) => p <= w[1].data[s] /\ w[1].data[s] <= venue[s]
        BY <1>9, <2>1, <2>4 DEF EntryOK, UnderWayOK
      <3> QED BY <3>1, <3>2 DEF Prices
    <2>6. /\ p1 \in Nat /\ p1 <= venue'[s]
          /\ p1 >= p \/ (p1 = 0 /\ Carries(w, 1, s) /\ w[1].data[s] = 0)
          /\ Carries(w, 1, s) /\ p1 > 0 => Prices(w, 1, s)
      <3>1. venue[s] \in Nat /\ p <= venue[s] /\ venue'[s] = venue[s]
        BY <1>3, <2>1, <2>4 DEF EntryOK, PriceOK
      <3>2. CASE Carries(w, 1, s)
        BY <2>4, <2>5, <3>1, <3>2 DEF Prices
      <3>3. CASE ~Carries(w, 1, s)
        BY <2>4, <3>1, <3>3
      <3> QED BY <3>2, <3>3
    <2>7. ASSUME NEW j \in 1..Len(w), Quiet(w, s, 1, j), p1 > 0 PROVE ValidAt(s, p1, w[j].at)
      <3>1. CASE Carries(w, 1, s)
        BY <1>9, <2>1, <2>4, <2>6, <2>7, <3>1 DEF UnderWayOK
      <3>2. CASE ~Carries(w, 1, s)
        <4>1. Quiet(w, s, 0, j)
          BY <1>10, <2>7, <3>2
        <4> QED BY <2>1, <2>4, <2>7, <3>2, <4>1 DEF EntryOK
      <3> QED BY <3>1, <3>2
    <2>8. EntryOK(s, v, st)'
      <3>1. \A i \in 1..Len(v) : Prices(v, i, s) => p1 <= v[i].data[s]
        <4> SUFFICES ASSUME NEW i \in 1..Len(v), Prices(v, i, s) PROVE p1 <= v[i].data[s]
          OBVIOUS
        <4>1. i + 1 \in 1..Len(w) /\ Prices(w, i + 1, s) /\ v[i] = w[i + 1] /\ 1 <= i + 1
          BY <1>5, <1>10 DEF Prices
        <4>2. CASE Carries(w, 1, s)
          <5>1. CASE p1 > 0
            <6>1. Prices(w, 1, s)
              BY <2>6, <4>2, <5>1
            <6> QED BY <1>9, <2>4, <4>1, <4>2, <6>1 DEF WireOK
          <5>2. CASE ~(p1 > 0)
            <6>1. w[i + 1] \in Message0
              BY <1>9, <4>1, ElementOfSeq DEF WireOK
            <6>2. w[i + 1].data[s] \in Nat
              BY <4>1, <6>1, MessageFacts DEF Prices, Carries
            <6> QED BY <2>6, <4>1, <5>2, <6>2
          <5> QED BY <5>1, <5>2
        <4>3. CASE ~Carries(w, 1, s)
          BY <2>1, <2>4, <4>1, <4>3 DEF EntryOK
        <4> QED BY <4>2, <4>3
      <3>2. p1 > 0 => ValidAt(s, p1, now - Lag)
        <4>1. w[1].at \in Nat /\ now <= w[1].at + Lag
          BY <1>2, <1>9, MessageFacts DEF WireOK
        <4>2. now - Lag \in Int /\ w[1].at \in Int /\ now - Lag <= w[1].at
          BY <4>1, CacheAssumption
        <4>3. p1 > 0 => ValidAt(s, p1, w[1].at)
          BY <1>9, <1>10, <2>7
        <4> QED BY <2>1, <4>2, <4>3, ValidBefore
      <3>3. p1 > 0 => \A i \in 1..Len(v) : Quiet(v, s, 0, i) => ValidAt(s, p1, v[i].at)
        <4> SUFFICES ASSUME p1 > 0, NEW i \in 1..Len(v), Quiet(v, s, 0, i) PROVE ValidAt(s, p1, v[i].at)
          OBVIOUS
        <4>1. 0 \in 0..Len(v) /\ 0 + 1 = 1 /\ i + 1 \in 1..Len(w) /\ v[i] = w[i + 1]
          BY <1>5
        <4>2. Quiet(w, s, 1, i + 1)
          BY <1>10, <4>1
        <4> QED BY <2>7, <4>1, <4>2
      <3>4. p1 > 0 /\ st = "on" /\ Quiet(v, s, 0, Len(v)) => p1 = venue[s]
        <4> SUFFICES ASSUME p1 > 0, st = "on", Quiet(v, s, 0, Len(v)) PROVE p1 = venue[s]
          OBVIOUS
        <4>1. 0 \in 0..Len(v) /\ 0 + 1 = 1 /\ Len(w) \in 1..Len(w)
          BY <1>5
        <4>2. Quiet(w, s, 1, Len(w))
          BY <1>10, <4>1
        <4>3. CASE Carries(w, 1, s)
          BY <1>9, <2>1, <2>4, <2>6, <4>2, <4>3 DEF UnderWayOK
        <4>4. CASE ~Carries(w, 1, s)
          <5>1. Quiet(w, s, 0, Len(w))
            BY <1>10, <4>1, <4>2, <4>4
          <5> QED BY <2>1, <2>4, <4>4, <5>1 DEF EntryOK
        <4> QED BY <4>3, <4>4
      <3>5. ticker'.price[s] = p1 /\ ticker'.received = now
        BY <1>8, <2>4
      <3> QED BY <1>3, <2>2, <2>6, <3>1, <3>2, <3>3, <3>4, <3>5 DEF EntryOK
    <2>9. UnderWayOK(s, v, st)'
      <3> SUFFICES ASSUME NEW j \in 1..Len(v), Prices(v, j, s)
                   PROVE  /\ v[j].data[s] <= venue[s]
                          /\ \A i \in 1..Len(v) : j <= i /\ Quiet(v, s, j, i) => ValidAt(s, v[j].data[s], v[i].at)
                          /\ st = "on" /\ Quiet(v, s, j, Len(v)) => v[j].data[s] = venue[s]
        BY <1>3, <2>2 DEF UnderWayOK
      <3>1. j + 1 \in 1..Len(w) /\ Prices(w, j + 1, s) /\ v[j] = w[j + 1] /\ j \in 0..Len(v)
        BY <1>5, <1>10 DEF Prices
      <3>2. ASSUME NEW i \in 1..Len(v), j <= i, Quiet(v, s, j, i) PROVE ValidAt(s, v[j].data[s], v[i].at)
        <4>1. i + 1 \in 1..Len(w) /\ v[i] = w[i + 1] /\ j + 1 <= i + 1
          BY <1>5, <3>2
        <4>2. Quiet(w, s, j + 1, i + 1)
          BY <1>10, <3>1, <3>2
        <4> QED BY <2>1, <3>1, <4>1, <4>2 DEF UnderWayOK
      <3>3. st = "on" /\ Quiet(v, s, j, Len(v)) => v[j].data[s] = venue[s]
        BY <1>10, <2>1, <3>1 DEF UnderWayOK
      <3>4. v[j].data[s] <= venue[s]
        BY <2>1, <3>1 DEF UnderWayOK
      <3> QED BY <3>2, <3>3, <3>4
    <2> QED BY <2>3, <2>4, <2>6, <2>8, <2>9
  <1>12. WireOK(v)'
    <2>1. \A i \in 1..Len(v) : v[i].at <= clock' /\ clock' <= v[i].at + Lag
      BY <1>3, <1>5, <1>9 DEF WireOK
    <2>2. \A i, j \in 1..Len(v) : i <= j => i + 1 <= j + 1
      BY <1>5
    <2>3. \A i, j \in 1..Len(v) : i <= j => v[i].at <= v[j].at
      BY <1>5, <1>9, <2>2 DEF WireOK
    <2>4. \A s \in Sides : \A i, j \in 1..Len(v) :
            i <= j /\ Prices(v, i, s) /\ Prices(v, j, s) => v[i].data[s] <= v[j].data[s]
      BY <1>5, <1>9, <1>10, <2>2 DEF WireOK, Prices
    <2> QED BY <1>5, <2>1, <2>3, <2>4 DEF WireOK
  <1>13. v = wire' /\ st = streaming'
    BY <1>2, <1>3, <1>4
  <1>14. \A t \in StreamThreads : StreamThread(t)'
    BY <1>3 DEF StreamInv, StreamThread, ValidAt
  <1>15. KeepsPrices
    <2>1. \A s : Carries(w, 1, s) /\ w[1].data[s] = 0 => Says0(s)
      BY <1>1, <1>3, <1>5 DEF Carries, Says0
    <2> QED BY <1>11, <2>1 DEF KeepsPrices
  <1>16. /\ \A s \in Sides : PriceOK(s)' /\ EntryOK(s, wire, streaming)' /\ UnderWayOK(s, wire, streaming)'
         /\ WireOK(wire)'
    BY <1>11, <1>12, <1>13
  <1>17. clock' \in Nat /\ ticker'.received \in Nat /\ ticker'.received <= clock'
    BY <1>2, <1>3, <1>8
  <1> QED BY <1>3, <1>14, <1>15, <1>16, <1>17 DEF StreamInv

\* The venue's price stays, or one more follows: what was true then, was true then.
LEMMA PriceMoves ==
  ASSUME StreamInv, NEW s \in Sides,
         \/ venue'[s] = venue[s] /\ ended'[s] = ended[s]
         \/ venue'[s] = venue[s] + 1 /\ ended'[s] = Append(ended[s], clock)
  PROVE  /\ PriceOK(s)' /\ venue[s] \in Nat /\ venue'[s] \in Nat /\ venue'[s] >= venue[s]
         /\ \A n, x : x \in Int /\ x <= clock /\ ValidAt(s, n, x) => ValidAt(s, n, x)'
  <1>1. PriceOK(s) /\ clock \in Nat
    BY DEF StreamInv
  <1>2. CASE venue'[s] = venue[s] /\ ended'[s] = ended[s]
    BY <1>1, <1>2 DEF PriceOK, ValidAt
  <1>3. CASE venue'[s] = venue[s] + 1 /\ ended'[s] = Append(ended[s], clock)
    <2>1. PICK v \in Nat \ {0} : v = venue[s]
      BY <1>1 DEF PriceOK
    <2>2. PICK e \in Seq(Nat) : e = ended[s] /\ Len(e) = v - 1
      BY <1>1, <2>1 DEF PriceOK
    <2>3. /\ Append(e, clock) \in Seq(Nat) /\ Len(Append(e, clock)) = v /\ Append(e, clock)[v] = clock
          /\ \A i \in 1..Len(e) : Append(e, clock)[i] = e[i]
      BY <1>1, <2>2, AppendProperties
    <2>4. PriceOK(s)'
      BY <1>3, <2>1, <2>2, <2>3 DEF PriceOK
    <2>5. ASSUME NEW n, NEW x \in Int, x <= clock, ValidAt(s, n, x) PROVE ValidAt(s, n, x)'
      <3>1. n \in 1..v /\ (n # v => e[n] >= x)
        BY <2>1, <2>2, <2>5 DEF ValidAt
      <3>2. n \in 1..(v + 1) /\ n # v + 1
        BY <3>1
      <3>3. Append(e, clock)[n] >= x
        <4>1. CASE n = v
          BY <1>1, <2>3, <2>5, <4>1
        <4>2. CASE n # v
          <5>1. n \in 1..Len(e)
            BY <2>2, <3>1, <4>2
          <5> QED BY <2>3, <3>1, <4>2, <5>1
        <4> QED BY <4>1, <4>2
      <3> QED BY <1>3, <2>1, <2>2, <3>2, <3>3 DEF ValidAt
    <2> QED BY <1>3, <2>1, <2>4, <2>5
  <1> QED BY <1>2, <1>3

\* What the threads were served was true then, too.
LEMMA ServedStays ==
  ASSUME StreamInv, UNCHANGED thread, clock' \in Nat, clock' >= clock,
         \A s \in Sides : \/ venue'[s] = venue[s] /\ ended'[s] = ended[s]
                          \/ venue'[s] = venue[s] + 1 /\ ended'[s] = Append(ended[s], clock)
  PROVE  \A t \in StreamThreads : StreamThread(t)'
  <1> SUFFICES ASSUME NEW t \in StreamThreads PROVE StreamThread(t)'
    OBVIOUS
  <1>1. StreamThread(t) /\ clock \in Nat
    BY DEF StreamInv
  <1>2. CASE ~(thread[t].at = "served" /\ maxTickAge > 0)
    BY <1>1, <1>2 DEF StreamThread
  <1>3. CASE thread[t].at = "served" /\ maxTickAge > 0
    <2>1. PICK tm \in Nat : tm = thread[t].time /\ tm <= clock
      BY <1>1, <1>3 DEF StreamThread
    <2>2. tm - maxTickAge - Lag \in Int /\ tm - maxTickAge - Lag <= clock /\ tm <= clock'
      BY <1>1, <2>1, CacheAssumption
    <2>3. ASSUME NEW s \in Sides, thread[t].quote.price[s] > 0
          PROVE  ValidAt(s, thread[t].quote.price[s], thread[t].time - maxTickAge - Lag)'
      <3>1. PICK n : n = thread[t].quote.price[s] /\ n = thread'[t].quote.price[s]
        OBVIOUS
      <3>2. PICK x \in Int : x = tm - maxTickAge - Lag
        BY <2>2
      <3>3. ValidAt(s, n, x)
        BY <1>1, <1>3, <2>1, <2>3, <3>1, <3>2 DEF StreamThread
      <3>4. ValidAt(s, n, x)'
        BY <2>2, <3>2, <3>3, PriceMoves
      <3>5. x = (thread[t].time - maxTickAge - Lag)'
        BY <2>1, <3>2
      <3> QED BY <3>1, <3>4, <3>5
    <2> QED BY <1>3, <2>1, <2>2, <2>3 DEF StreamThread
  <1> QED BY <1>2, <1>3

\* The venue sends one more message: a side it has no price of has not changed since the
\* last one, if the stream is on.
LEMMA VenueSends ==
  ASSUME StreamInv, NEW w, NEW st, NEW m \in Message0, m.at = clock, wire' = Append(w, m), streaming' = "on",
         WireOK(w), UNCHANGED <<ticker, thread, clock>>, DOMAIN venue' = Sides, DOMAIN ended' = Sides,
         \A s \in Sides : EntryOK(s, w, st) /\ UnderWayOK(s, w, st),
         \A s \in Sides : \/ venue'[s] = venue[s] /\ ended'[s] = ended[s]
                          \/ venue'[s] = venue[s] + 1 /\ ended'[s] = Append(ended[s], clock),
         \A s \in Sides : \/ s \in DOMAIN m.data /\ (m.data[s] = venue'[s] \/ m.data[s] = 0)
                          \/ s \notin DOMAIN m.data /\ st = "on" /\ venue'[s] = venue[s]
  PROVE  StreamInv'
  <1>1. PICK v : v = Append(w, m)
    OBVIOUS
  <1>2. PICK n \in Nat : n = Len(w)
    BY LenProperties DEF WireOK
  <1>3. /\ v \in Seq(Message0) /\ Len(v) = n + 1 /\ v[n + 1] = m /\ \A i \in 1..n : v[i] = w[i]
        /\ \A i \in 1..(n + 1) : i \in 1..n \/ i = n + 1
    <2>1. /\ v \in Seq(Message0) /\ Len(v) = n + 1 /\ v[n + 1] = m /\ \A i \in 1..n : v[i] = w[i]
      BY <1>1, <1>2, QueueFacts DEF WireOK
    <2> QED BY <2>1
  <1>4. /\ \A s : \A i \in 1..n : Carries(v, i, s) <=> Carries(w, i, s)
        /\ \A s : Carries(v, n + 1, s) <=> s \in DOMAIN m.data
        /\ \A s : \A i \in 1..n : Prices(v, i, s) <=> Prices(w, i, s)
        /\ \A s \in Sides : Prices(v, n + 1, s) => v[n + 1].data[s] = venue'[s]
    BY <1>3 DEF Carries, Prices
  <1>5. ASSUME NEW s, NEW i \in Nat, NEW j \in 1..n, Quiet(v, s, i, j) PROVE Quiet(w, s, i, j)
    BY <1>2, <1>3, <1>4, <1>5 DEF Quiet
  <1>6. ASSUME NEW s, NEW i \in 0..n, Quiet(v, s, i, n + 1) PROVE Quiet(w, s, i, n) /\ s \notin DOMAIN m.data
    <2>1. \A k \in 1..(n + 1) : i < k /\ k <= n + 1 => ~Carries(v, k, s)
      BY <1>3, <1>6 DEF Quiet
    <2>2. ~Carries(v, n + 1, s)
      BY <2>1
    <2>3. \A k \in 1..n : i < k /\ k <= n => ~Carries(w, k, s)
      BY <1>4, <2>1
    <2> QED BY <1>2, <1>4, <2>2, <2>3 DEF Quiet
  <1>7. clock \in Nat /\ ticker.received \in Nat /\ ticker.received <= clock
    BY DEF StreamInv
  <1>8. \A i \in 1..n : w[i].at \in Nat /\ w[i].at <= clock
    <2> SUFFICES ASSUME NEW i \in 1..n PROVE w[i].at \in Nat /\ w[i].at <= clock
      OBVIOUS
    <2>1. w[i] \in Message0
      BY <1>2, ElementOfSeq DEF WireOK
    <2> QED BY <1>2, <2>1, MessageFacts DEF WireOK
  <1>9. ASSUME NEW s \in Sides PROVE PriceOK(s)' /\ EntryOK(s, v, "on")' /\ UnderWayOK(s, v, "on")'
    <2>1. /\ PriceOK(s)' /\ venue[s] \in Nat /\ venue'[s] \in Nat /\ venue'[s] >= venue[s]
          /\ \A k, x : x \in Int /\ x <= clock /\ ValidAt(s, k, x) => ValidAt(s, k, x)'
      BY PriceMoves
    <2>2. EntryOK(s, w, st) /\ UnderWayOK(s, w, st)
      OBVIOUS
    <2>3. ASSUME NEW k, NEW x, k = venue'[s] PROVE ValidAt(s, k, x)'
      BY <2>1, <2>3 DEF ValidAt, PriceOK
    <2>4. s \notin DOMAIN m.data => st = "on" /\ venue'[s] = venue[s]
      OBVIOUS
    <2>5. PICK p \in Nat : p = ticker.price[s] /\ p = ticker'.price[s] /\ p <= venue[s]
      BY <2>2 DEF EntryOK
    <2>6. EntryOK(s, v, "on")'
      <3>1. p <= venue'[s]
        BY <2>1, <2>5
      <3>2. \A i \in 1..Len(v) : Prices(v, i, s) => p <= v[i].data[s]
        <4> SUFFICES ASSUME NEW i \in 1..(n + 1), Prices(v, i, s) PROVE p <= v[i].data[s]
          BY <1>3
        <4>1. CASE i \in 1..n
          BY <1>2, <1>3, <1>4, <2>2, <2>5, <4>1 DEF EntryOK
        <4>2. CASE i = n + 1
          <5>1. v[i].data[s] = venue'[s]
            BY <1>3, <1>4, <4>2
          <5> QED BY <3>1, <5>1
        <4> QED BY <1>3, <4>1, <4>2
      <3>3. p > 0 => ValidAt(s, p, ticker.received - Lag)'
        <4>1. PICK x \in Int : x = ticker.received - Lag /\ x <= clock
          BY <1>7, CacheAssumption
        <4>2. p > 0 => ValidAt(s, p, x)'
          BY <2>1, <2>2, <2>5, <4>1 DEF EntryOK
        <4>3. x = (ticker.received - Lag)'
          BY <4>1
        <4> QED BY <4>2, <4>3
      <3>4. p > 0 => \A i \in 1..Len(v) : Quiet(v, s, 0, i) => ValidAt(s, p, v[i].at)'
        <4> SUFFICES ASSUME p > 0, NEW i \in 1..(n + 1), Quiet(v, s, 0, i) PROVE ValidAt(s, p, v[i].at)'
          BY <1>3
        <4>1. CASE i \in 1..n
          <5>1. Quiet(w, s, 0, i)
            BY <1>5, <4>1
          <5>2. ValidAt(s, p, w[i].at)
            BY <1>2, <2>2, <2>5, <4>1, <5>1 DEF EntryOK
          <5>3. ValidAt(s, p, w[i].at)'
            BY <1>8, <2>1, <4>1, <5>2
          <5> QED BY <1>3, <4>1, <5>3
        <4>2. CASE i = n + 1
          <5>1. Quiet(w, s, 0, n) /\ s \notin DOMAIN m.data
            BY <1>6, <4>2
          <5>2. p = venue'[s]
            BY <1>2, <2>2, <2>4, <2>5, <5>1 DEF EntryOK
          <5> QED BY <2>3, <5>2
        <4> QED BY <1>3, <4>1, <4>2
      <3>5. p > 0 /\ Quiet(v, s, 0, Len(v)) => p = venue'[s]
        <4> SUFFICES ASSUME p > 0, Quiet(v, s, 0, n + 1) PROVE p = venue'[s]
          BY <1>3
        <4>1. Quiet(w, s, 0, n) /\ s \notin DOMAIN m.data
          BY <1>6
        <4> QED BY <1>2, <2>2, <2>4, <2>5, <4>1 DEF EntryOK
      <3> QED BY <2>5, <3>1, <3>2, <3>3, <3>4, <3>5 DEF EntryOK
    <2>7. UnderWayOK(s, v, "on")'
      <3> SUFFICES ASSUME NEW j \in 1..(n + 1), Prices(v, j, s)
                   PROVE  /\ v[j].data[s] <= venue'[s]
                          /\ \A i \in 1..(n + 1) : j <= i /\ Quiet(v, s, j, i) => ValidAt(s, v[j].data[s], v[i].at)'
                          /\ Quiet(v, s, j, n + 1) => v[j].data[s] = venue'[s]
        BY <1>3 DEF UnderWayOK
      <3>1. CASE j = n + 1
        <4>1. v[j].data[s] = venue'[s]
          BY <1>3, <1>4, <3>1
        <4> QED BY <2>1, <2>3, <4>1
      <3>2. CASE j \in 1..n
        <4>1. /\ Prices(w, j, s) /\ v[j] = w[j] /\ w[j].data[s] <= venue[s] /\ w[j].data[s] \in Nat
          <5>1. w[j] \in Message0
            BY <1>2, <3>2, ElementOfSeq DEF WireOK
          <5>2. Prices(w, j, s) /\ v[j] = w[j]
            BY <1>3, <1>4, <3>2
          <5>3. w[j].data[s] <= venue[s]
            BY <1>2, <2>2, <3>2, <5>2 DEF UnderWayOK
          <5> QED BY <5>1, <5>2, <5>3, MessageFacts DEF Carries, Prices
        <4>2. v[j].data[s] <= venue'[s]
          BY <2>1, <4>1
        <4>3. j \in 0..n /\ j \in Nat
          BY <3>2
        <4>4. Quiet(v, s, j, n + 1) => v[j].data[s] = venue'[s]
          <5> SUFFICES ASSUME Quiet(v, s, j, n + 1) PROVE v[j].data[s] = venue'[s]
            OBVIOUS
          <5>1. Quiet(w, s, j, n) /\ s \notin DOMAIN m.data
            BY <1>6, <4>3
          <5> QED BY <1>2, <2>2, <2>4, <3>2, <4>1, <5>1 DEF UnderWayOK
        <4>5. ASSUME NEW i \in 1..(n + 1), j <= i, Quiet(v, s, j, i) PROVE ValidAt(s, v[j].data[s], v[i].at)'
          <5>1. CASE i \in 1..n
            <6>1. Quiet(w, s, j, i)
              BY <1>5, <4>3, <4>5, <5>1
            <6>2. ValidAt(s, w[j].data[s], w[i].at)
              BY <1>2, <2>2, <3>2, <4>1, <4>5, <5>1, <6>1 DEF UnderWayOK
            <6>3. ValidAt(s, w[j].data[s], w[i].at)'
              BY <1>8, <2>1, <5>1, <6>2
            <6> QED BY <1>3, <4>1, <5>1, <6>3
          <5>2. CASE i = n + 1
            BY <2>3, <4>4, <4>5, <5>2
          <5> QED BY <1>3, <5>1, <5>2
        <4> QED BY <4>2, <4>4, <4>5
      <3> QED BY <1>3, <3>1, <3>2
    <2> QED BY <2>1, <2>6, <2>7
  <1>10. WireOK(v)'
    <2>1. \A i \in 1..(n + 1) : v[i].at <= clock' /\ clock' <= v[i].at + Lag
      <3>1. \A i \in 1..n : w[i].at <= clock /\ clock <= w[i].at + Lag
        BY <1>2 DEF WireOK
      <3>2. clock <= clock /\ clock <= clock + Lag
        BY <1>7, CacheAssumption
      <3> QED BY <1>3, <3>1, <3>2
    <2>2. \A i, j \in 1..(n + 1) : i <= j => v[i].at <= v[j].at
      <3> SUFFICES ASSUME NEW i \in 1..(n + 1), NEW j \in 1..(n + 1), i <= j PROVE v[i].at <= v[j].at
        OBVIOUS
      <3>1. CASE j = n + 1
        BY <1>3, <2>1, <3>1
      <3>2. CASE j \in 1..n
        <4>1. i \in 1..n
          BY <3>2
        <4> QED BY <1>2, <1>3, <3>2, <4>1 DEF WireOK
      <3> QED BY <1>3, <3>1, <3>2
    <2>3. ASSUME NEW s \in Sides, NEW i \in 1..(n + 1), NEW j \in 1..(n + 1), i <= j,
                 Prices(v, i, s), Prices(v, j, s)
          PROVE  v[i].data[s] <= v[j].data[s]
      <3>1. CASE j = n + 1
        <4>1. v[j].data[s] = venue'[s]
          BY <1>3, <1>4, <2>3, <3>1
        <4>2. v[i].data[s] <= venue'[s]
          BY <1>3, <1>9, <2>3 DEF UnderWayOK
        <4> QED BY <4>1, <4>2
      <3>2. CASE j \in 1..n
        <4>1. i \in 1..n
          BY <2>3, <3>2
        <4> QED BY <1>2, <1>3, <1>4, <2>3, <3>2, <4>1 DEF WireOK
      <3> QED BY <1>3, <3>1, <3>2
    <2> QED BY <1>3, <2>1, <2>2, <2>3 DEF WireOK
  <1>11. \A t \in StreamThreads : StreamThread(t)'
    <2>1. clock' \in Nat /\ clock' >= clock
      BY <1>7
    <2> QED BY <2>1, ServedStays
  <1>12. v = wire' /\ streaming' = "on"
    BY <1>1
  <1>13. WireOK(wire)' /\ \A s \in Sides : PriceOK(s)' /\ EntryOK(s, wire, streaming)' /\ UnderWayOK(s, wire, streaming)'
    BY <1>9, <1>10, <1>12
  <1> QED BY <1>7, <1>11, <1>13 DEF StreamInv

\* Of the messages under way all may be lost, if the stream is not on.
LEMMA LostOK ==
  ASSUME StreamInv
  PROVE  WireOK(<<>>) /\ \A s \in Sides : EntryOK(s, <<>>, "silent") /\ UnderWayOK(s, <<>>, "silent")
  <1>1. <<>> \in Seq(Message0) /\ Len(<<>>) = 0 /\ 1..0 = {}
    BY EmptySeq
  <1>2. WireOK(<<>>)
    BY <1>1 DEF WireOK
  <1>3. ASSUME NEW s \in Sides PROVE EntryOK(s, <<>>, "silent") /\ UnderWayOK(s, <<>>, "silent")
    BY <1>1 DEF StreamInv, EntryOK, UnderWayOK
  <1> QED BY <1>2, <1>3

\* The venue says nothing, whatever its prices do, and what is under way comes or is lost.
LEMMA VenueIsSilent ==
  ASSUME StreamInv, wire' = wire \/ wire' = <<>>, streaming' # "on", UNCHANGED <<ticker, thread, clock>>,
         DOMAIN venue' = Sides, DOMAIN ended' = Sides,
         \A s \in Sides : \/ venue'[s] = venue[s] /\ ended'[s] = ended[s]
                          \/ venue'[s] = venue[s] + 1 /\ ended'[s] = Append(ended[s], clock)
  PROVE  StreamInv'
  <1>1. PICK w : w = wire'
    OBVIOUS
  <1>2. WireOK(w) /\ \A s \in Sides : \E st : EntryOK(s, w, st) /\ UnderWayOK(s, w, st)
    BY <1>1, LostOK DEF StreamInv
  <1>3. clock \in Nat /\ ticker.received \in Nat /\ ticker.received <= clock
    BY DEF StreamInv
  <1>4. \A i \in 1..Len(w) : w[i].at \in Int /\ w[i].at <= clock
    <2> SUFFICES ASSUME NEW i \in 1..Len(w) PROVE w[i].at \in Int /\ w[i].at <= clock
      OBVIOUS
    <2>1. w[i] \in Message0
      BY <1>2, ElementOfSeq DEF WireOK
    <2> QED BY <1>2, <2>1, MessageFacts DEF WireOK
  <1>5. ASSUME NEW s \in Sides PROVE PriceOK(s)' /\ EntryOK(s, w, streaming)' /\ UnderWayOK(s, w, streaming)'
    <2>1. PICK st : EntryOK(s, w, st) /\ UnderWayOK(s, w, st)
      BY <1>2
    <2>2. /\ PriceOK(s)' /\ venue[s] \in Nat /\ venue'[s] \in Nat /\ venue'[s] >= venue[s]
          /\ \A k, x : x \in Int /\ x <= clock /\ ValidAt(s, k, x) => ValidAt(s, k, x)'
      BY PriceMoves
    <2>3. PICK p \in Nat : p = ticker.price[s] /\ p = ticker'.price[s] /\ p <= venue[s]
      BY <2>1 DEF EntryOK
    <2>4. EntryOK(s, w, streaming)'
      <3>1. p <= venue'[s]
        BY <2>2, <2>3
      <3>2. p > 0 => ValidAt(s, p, ticker.received - Lag)'
        <4>1. PICK x \in Int : x = ticker.received - Lag /\ x <= clock
          BY <1>3, CacheAssumption
        <4>2. p > 0 => ValidAt(s, p, x)'
          BY <2>1, <2>2, <2>3, <4>1 DEF EntryOK
        <4>3. x = (ticker.received - Lag)'
          BY <4>1
        <4> QED BY <4>2, <4>3
      <3>3. p > 0 => \A i \in 1..Len(w) : Quiet(w, s, 0, i) => ValidAt(s, p, w[i].at)'
        BY <1>4, <2>1, <2>2, <2>3 DEF EntryOK
      <3> QED BY <2>1, <2>3, <3>1, <3>2, <3>3 DEF EntryOK
    <2>5. UnderWayOK(s, w, streaming)'
      <3> SUFFICES ASSUME NEW j \in 1..Len(w), Prices(w, j, s)
                   PROVE  /\ w[j].data[s] <= venue'[s]
                          /\ \A i \in 1..Len(w) : j <= i /\ Quiet(w, s, j, i) => ValidAt(s, w[j].data[s], w[i].at)'
        BY DEF UnderWayOK
      <3>1. w[j] \in Message0
        BY <1>2, ElementOfSeq DEF WireOK
      <3>2. w[j].data[s] \in Nat /\ w[j].data[s] <= venue[s]
        BY <2>1, <3>1, MessageFacts DEF UnderWayOK, Carries, Prices
      <3>3. w[j].data[s] <= venue'[s]
        BY <2>2, <3>2
      <3>4. \A i \in 1..Len(w) : j <= i /\ Quiet(w, s, j, i) => ValidAt(s, w[j].data[s], w[i].at)'
        BY <1>4, <2>1, <2>2 DEF UnderWayOK
      <3> QED BY <3>3, <3>4
    <2> QED BY <2>2, <2>4, <2>5
  <1>6. WireOK(w)'
    BY <1>2 DEF WireOK
  <1>7. \A t \in StreamThreads : StreamThread(t)'
    <2>1. clock' \in Nat /\ clock' >= clock
      BY <1>3
    <2> QED BY <2>1, ServedStays
  <1>8. WireOK(wire)' /\ \A s \in Sides : PriceOK(s)' /\ EntryOK(s, wire, streaming)' /\ UnderWayOK(s, wire, streaming)'
    BY <1>1, <1>5, <1>6
  <1> QED BY <1>3, <1>7, <1>8 DEF StreamInv

\* The venue and the connection.
LEMMA StreamVenueStep ==
  ASSUME StreamInv,
         \/ Stream!VenueStarts \/ Stream!VenueStops \/ Stream!GoesSilent \/ Stream!OtherChanges
         \/ \E s \in Sides : Stream!PriceChanges(s)
  PROVE  StreamInv'
  <1>0. /\ clock \in Nat /\ DOMAIN venue = Sides /\ DOMAIN ended = Sides
        /\ \A s \in Sides : venue[s] \in Nat \ {0} /\ ended[s] \in Seq(Nat)
    BY DEF StreamInv, PriceOK
  <1>1. CASE Stream!VenueStarts
    <2>5. PICK w : w = IF streaming = "off" THEN wire ELSE <<>>
      OBVIOUS
    <2>1. PICK bad, data : /\ data = [s \in Sides |-> IF s \in bad THEN 0 ELSE venue[s]]
                           /\ wire' = w \o <<[data |-> data, at |-> clock]>>
      BY <1>1, <2>5, StreamSame DEF Stream!VenueStarts, Stream!Message, Stream!Quoted
    <2>2. data \in [Sides -> Nat]
      BY <1>0, <2>1
    <2>3. PICK m \in Message0 : m = [data |-> data, at |-> clock]
      BY <1>0, <2>2, IsMessage
    <2>4. m.at = clock /\ DOMAIN m.data = Sides /\ \A s \in Sides : m.data[s] = venue[s] \/ m.data[s] = 0
      BY <2>1, <2>3
    <2>6. streaming' = "on" /\ UNCHANGED <<ticker, thread, clock, venue, ended>> /\ wire' = w \o <<m>>
      BY <1>1, <2>1, <2>3 DEF Stream!VenueStarts, Stream!cache
    <2>7. PICK st : WireOK(w) /\ \A s \in Sides : EntryOK(s, w, st) /\ UnderWayOK(s, w, st)
      BY <2>5, LostOK DEF StreamInv
    <2>8. wire' = Append(w, m)
      BY <2>6, <2>7, QueueFacts DEF WireOK
    <2> QED BY <1>0, <2>4, <2>6, <2>7, <2>8, VenueSends
  <1>2. CASE Stream!VenueStops \/ Stream!GoesSilent
    <2>1. streaming' # "on" /\ UNCHANGED <<ticker, thread, clock, venue, ended>> /\ (wire' = wire \/ wire' = <<>>)
      BY <1>2 DEF Stream!VenueStops, Stream!GoesSilent, Stream!cache
    <2> QED BY <1>0, <2>1, VenueIsSilent
  <1>3. CASE Stream!OtherChanges
    <2>0. PICK bad \in Stream!OneSided : wire' = <<[data |-> [s \in bad |-> 0], at |-> clock]>>
      BY <1>3 DEF Stream!OtherChanges, Stream!Message
    <2>1. PICK data : data = [s \in bad |-> 0] /\ wire' = <<[data |-> data, at |-> clock]>>
      BY <2>0
    <2>2. bad \in SUBSET Sides /\ data \in [bad -> Nat]
      BY <2>0, <2>1 DEF Stream!OneSided, Sides
    <2>3. PICK m \in Message0 : m = [data |-> data, at |-> clock]
      BY <1>0, <2>2, IsMessage
    <2>4. m.at = clock /\ \A s \in DOMAIN m.data : m.data[s] = 0
      BY <2>1, <2>3
    <2>5. /\ streaming = "on" /\ wire = <<>> /\ wire' = <<m>>
          /\ UNCHANGED <<ticker, thread, clock, venue, ended, streaming>>
      BY <1>3, <2>1, <2>3 DEF Stream!OtherChanges, Stream!cache
    <2>6. WireOK(wire) /\ \A s \in Sides : EntryOK(s, wire, streaming) /\ UnderWayOK(s, wire, streaming)
      BY DEF StreamInv
    <2>7. wire' = Append(wire, m)
      <3>1. wire \o <<m>> = Append(wire, m)
        BY <2>6, QueueFacts DEF WireOK
      <3>2. wire \o <<m>> = <<m>>
        BY <2>5, OneMessage
      <3> QED BY <2>5, <3>1, <3>2
    <2> QED BY <1>0, <2>4, <2>5, <2>6, <2>7, VenueSends
  <1>4. ASSUME NEW s \in Sides, Stream!PriceChanges(s) PROVE StreamInv'
    <2>1. PICK data : data = [x \in {s} |-> venue[s] + 1]
      OBVIOUS
    <2>2. data \in [{s} -> Nat]
      BY <1>0, <2>1
    <2>3. PICK m \in Message0 : m = [data |-> data, at |-> clock]
      BY <1>0, <2>2, IsMessage
    <2>4. m.at = clock /\ DOMAIN m.data = {s} /\ m.data[s] = venue[s] + 1
      BY <2>1, <2>3
    <2>5. /\ venue' = [venue EXCEPT ![s] = @ + 1] /\ ended' = [ended EXCEPT ![s] = Append(@, clock)]
          /\ wire' = IF streaming = "on" THEN Append(wire, m) ELSE wire
          /\ UNCHANGED <<ticker, thread, clock, streaming>>
      BY <1>4, <2>1, <2>3 DEF Stream!PriceChanges, Stream!Message, Stream!cache
    <2>6. DOMAIN venue' = Sides /\ DOMAIN ended' = Sides
      BY <1>0, <2>5
    <2>7. /\ venue'[s] = venue[s] + 1 /\ ended'[s] = Append(ended[s], clock)
          /\ \A x \in Sides : x # s => venue'[x] = venue[x] /\ ended'[x] = ended[x]
      BY <1>0, <2>5
    <2>8. CASE streaming = "on"
      <3>1. WireOK(wire) /\ \A x \in Sides : EntryOK(x, wire, "on") /\ UnderWayOK(x, wire, "on")
        BY <2>8 DEF StreamInv
      <3>2. wire' = Append(wire, m) /\ streaming' = "on"
        BY <2>5, <2>8
      <3>3. \A x \in Sides : \/ x \in DOMAIN m.data /\ m.data[x] = venue'[x]
                             \/ x \notin DOMAIN m.data /\ venue'[x] = venue[x]
        BY <2>4, <2>7
      <3> QED BY <2>4, <2>5, <2>6, <2>7, <3>1, <3>2, <3>3, VenueSends
    <2>9. CASE streaming # "on"
      BY <2>5, <2>6, <2>7, <2>9, VenueIsSilent
    <2> QED BY <2>8, <2>9
  <1> QED BY <1>1, <1>2, <1>3, <1>4

\* Time passes, but not while the oldest message is under way for too long.
LEMMA StreamTickStep == ASSUME StreamInv, Stream!Tick PROVE StreamInv'
  <1>1. /\ clock' = clock + 1 /\ UNCHANGED <<ticker, thread, venue, ended, wire, streaming>>
        /\ wire # <<>> => clock - Head(wire).at < Lag
    BY DEF Stream!Tick, Stream!cache, Stream!world
  <1>2. PICK now \in Nat, came \in Nat : now = clock /\ came = ticker.received /\ came <= now
    BY DEF StreamInv
  <1>3. ASSUME NEW i \in 1..Len(wire) PROVE wire[i].at <= clock' /\ clock' <= wire[i].at + Lag
    <2>1. /\ wire \in Seq(Message0) /\ wire[i].at <= now /\ 1 <= i /\ 1 \in 1..Len(wire) /\ wire # <<>>
          /\ Len(wire) \in Nat
      BY <1>2, LenProperties DEF StreamInv, WireOK
    <2>2. wire[1].at <= wire[i].at /\ Head(wire) = wire[1]
      BY <2>1 DEF StreamInv, WireOK
    <2>3. wire[i] \in Message0 /\ wire[1] \in Message0
      BY <2>1, ElementOfSeq
    <2>4. PICK first \in Nat, at \in Nat : first = wire[1].at /\ at = wire[i].at
      BY <2>3, MessageFacts
    <2>5. now - first < Lag
      BY <1>1, <1>2, <2>1, <2>2, <2>4
    <2> QED BY <1>1, <1>2, <2>1, <2>2, <2>4, <2>5, CacheAssumption
  <1>4. WireOK(wire)'
    BY <1>1, <1>3 DEF StreamInv, WireOK, Carries
  <1>5. ASSUME NEW s \in Sides
        PROVE  PriceOK(s)' /\ EntryOK(s, wire, streaming)' /\ UnderWayOK(s, wire, streaming)'
    <2>1. PICK w, st : w = wire /\ st = streaming
      OBVIOUS
    <2>2. PriceOK(s) /\ EntryOK(s, w, st) /\ UnderWayOK(s, w, st)
      BY <2>1 DEF StreamInv
    <2>3. \A n, x : ValidAt(s, n, x)' <=> ValidAt(s, n, x)
      BY <1>1 DEF ValidAt
    <2>4. PriceOK(s)'
      BY <1>1, <2>2 DEF PriceOK
    <2>5. EntryOK(s, w, st)'
      BY <1>1, <2>2, <2>3 DEF EntryOK
    <2>6. UnderWayOK(s, w, st)'
      BY <1>1, <2>2, <2>3 DEF UnderWayOK
    <2>7. w = wire' /\ st = streaming'
      BY <1>1, <2>1
    <2> QED BY <2>4, <2>5, <2>6, <2>7
  <1>6. clock' \in Nat /\ clock' >= clock /\ came <= clock'
    BY <1>1, <1>2
  <1>7. \A t \in StreamThreads : StreamThread(t)'
    BY <1>1, <1>6, ServedStays
  <1> QED BY <1>1, <1>2, <1>4, <1>5, <1>6, <1>7 DEF StreamInv

\* The start.
LEMMA StreamInitInv == ASSUME Stream!Init PROVE StreamInv
  <1>1. /\ ticker = NoTicker /\ clock = 1 /\ venue = [s \in Sides |-> 1] /\ ended = [s \in Sides |-> <<>>]
        /\ wire = <<>> /\ DOMAIN thread = StreamThreads
        /\ \A t \in StreamThreads : thread[t].at = "idle"
    BY StreamSame DEF Stream!Init, Stream!IdleThread, Stream!User
  <1>2. <<>> \in Seq(Message0) /\ <<>> \in Seq(Nat) /\ Len(<<>>) = 0 /\ 1..0 = {}
    BY EmptySeq
  <1>3. WireOK(wire)
    BY <1>1, <1>2 DEF WireOK
  <1>4. ASSUME NEW s \in Sides PROVE PriceOK(s) /\ EntryOK(s, wire, streaming) /\ UnderWayOK(s, wire, streaming)
    <2>1. venue[s] = 1 /\ ended[s] = <<>> /\ ticker.price[s] = 0
      BY <1>1, StreamSame
    <2>2. PriceOK(s)
      BY <1>2, <2>1 DEF PriceOK
    <2>3. EntryOK(s, wire, streaming)
      BY <1>1, <1>2, <2>1 DEF EntryOK
    <2>4. UnderWayOK(s, wire, streaming)
      BY <1>1, <1>2 DEF UnderWayOK
    <2> QED BY <2>2, <2>3, <2>4
  <1>5. \A t \in StreamThreads : StreamThread(t)
    BY <1>1 DEF StreamThread
  <1>6. ticker.received = 0
    BY <1>1, StreamSame
  <1> QED BY <1>1, <1>3, <1>4, <1>5, <1>6 DEF StreamInv

\* Every step preserves the invariant, and takes no price back.
LEMMA StreamNextInv == ASSUME StreamInv, [Stream!Next]_vars PROVE StreamInv' /\ KeepsPrices
  <1>0. ticker' = ticker => KeepsPrices
    <2>1. \A s \in Sides : ticker.price[s] >= ticker.price[s]
      BY DEF StreamInv, EntryOK
    <2> QED BY <2>1 DEF KeepsPrices
  <1>1. CASE Stream!Deliver
    BY <1>1, StreamDeliverStep
  <1>2. ASSUME NEW t \in StreamThreads,
               \/ Stream!Reading(t) \/ Stream!BeginSubscribe(t) \/ Stream!DoSubscribe(t)
               \/ Stream!BeginUnsubscribe(t)
        PROVE  StreamInv' /\ KeepsPrices
    <2>1. thread[t].at # "answered"
      BY DEF StreamInv, StreamThread
    <2>2. ticker' = ticker
      BY <1>2, <2>1 DEF Stream!Reading, Stream!BeginRead, Stream!PollHit, Stream!PollMiss,
         Stream!RestAnswers,
           Stream!RestFails, Stream!Refresh, Stream!Return, Stream!BeginSubscribe, Stream!DoSubscribe,
           Stream!BeginUnsubscribe, Stream!cache, Stream!At
    <2> QED BY <1>0, <1>2, <2>2, StreamReaderStep
  <1>3. ASSUME NEW t \in StreamThreads, Stream!DropTicker(t) PROVE StreamInv' /\ KeepsPrices
    BY <1>3, StreamDropStep, StreamSame DEF KeepsPrices, Stream!DropTicker
  <1>4. CASE \/ Stream!VenueStarts \/ Stream!VenueStops \/ Stream!GoesSilent \/ Stream!OtherChanges
             \/ \E s \in Sides : Stream!PriceChanges(s)
    <2>1. ticker' = ticker
      BY <1>4 DEF Stream!VenueStarts, Stream!VenueStops, Stream!GoesSilent, Stream!OtherChanges,
           Stream!PriceChanges, Stream!cache
    <2> QED BY <1>0, <1>4, <2>1, StreamVenueStep
  <1>5. CASE Stream!Tick
    <2>1. ticker' = ticker
      BY <1>5 DEF Stream!Tick, Stream!cache
    <2> QED BY <1>0, <1>5, <2>1, StreamTickStep
  <1>6. CASE UNCHANGED vars
    <2>1. UNCHANGED <<ticker, thread, clock, venue, ended, wire, streaming>>
      BY <1>6 DEF vars, cache, world
    <2>2. ASSUME NEW s \in Sides
          PROVE  PriceOK(s)' /\ EntryOK(s, wire, streaming)' /\ UnderWayOK(s, wire, streaming)'
      <3>1. PICK w, st : w = wire /\ st = streaming
        OBVIOUS
      <3>2. PriceOK(s) /\ EntryOK(s, w, st) /\ UnderWayOK(s, w, st)
        BY <3>1 DEF StreamInv
      <3>3. \A n, x : ValidAt(s, n, x)' <=> ValidAt(s, n, x)
        BY <2>1 DEF ValidAt
      <3>4. PriceOK(s)' /\ EntryOK(s, w, st)' /\ UnderWayOK(s, w, st)'
        BY <2>1, <3>2, <3>3 DEF PriceOK, EntryOK, UnderWayOK
      <3> QED BY <2>1, <3>1, <3>4
    <2>3. WireOK(wire)'
      BY <2>1 DEF StreamInv, WireOK, Carries
    <2>4. \A t \in StreamThreads : StreamThread(t)'
      BY <2>1 DEF StreamInv, StreamThread, ValidAt
    <2> QED BY <1>0, <2>1, <2>2, <2>3, <2>4 DEF StreamInv
  <1> QED BY <1>1, <1>2, <1>3, <1>4, <1>5, <1>6, StreamSame DEF Stream!Next

\* What the stream's messages, the entry and the venue's prices have to do with each other.
THEOREM StreamInvariant == SetupSpec => [](setup = "stream" => StreamInv)
  <1>1. SetupInit => (setup = "stream" => StreamInv)
    BY StreamInitInv DEF SetupInit
  <1>2. (setup = "stream" => StreamInv) /\ [SetupNext]_setupVars => (setup = "stream" => StreamInv)'
    <2> SUFFICES ASSUME setup = "stream" => StreamInv, [SetupNext]_setupVars, setup' = "stream" PROVE StreamInv'
      OBVIOUS
    <2>1. setup = "stream" /\ [Stream!Next]_vars
      BY DEF SetupNext, setupVars
    <2> QED BY <2>1, StreamNextInv
  <1> QED BY <1>1, <1>2, PTL DEF SetupSpec

\* Fed by the stream alone, over reconnects, losses and silences: the entry never goes back
\* to an earlier price nor loses one but to a message that says so, until it is dropped.
THEOREM PricesAreKept == SetupSpec => StreamNeverRegresses
  <1>1. (setup = "stream" => StreamInv) /\ [SetupNext]_setupVars => [setup = "stream" => KeepsPrices]_vars
    <2> SUFFICES ASSUME setup = "stream", StreamInv, [SetupNext]_setupVars PROVE KeepsPrices
      OBVIOUS
    <2>1. [Stream!Next]_vars
      BY DEF SetupNext, setupVars
    <2> QED BY <2>1, StreamNextInv
  <1> QED BY <1>1, StreamInvariant, PTL DEF SetupSpec, StreamNeverRegresses

\* Where the age of quotes is checked: no quote is served from the stream, of either side,
\* that stopped being true longer ago than the limit and the time a message takes.
THEOREM ServedIsFresh == ASSUME maxTickAge > 0 PROVE SetupSpec => []StreamServedFresh
  <1>1. (setup = "stream" => StreamInv) => StreamServedFresh
    BY StreamSame DEF StreamServedFresh, Stream!ServedFresh, Stream!At, Stream!TrueSince, StreamInv,
       StreamThread, ValidAt
  <1> QED BY <1>1, StreamInvariant, PTL

============================================================================
