---------------------------- MODULE Instruments ----------------------------
(***************************************************************************)
(* What the client knows of the venue's instruments: the list cached in    *)
(* the REST client (m_instruments, under m_locker) and the execution       *)
(* gateway's cache of specs taken from it (specCache, under specM).  Both  *)
(* are filled from several threads: the list is fetched page by page       *)
(* without a lock and stored at the end, a spec is looked for, fetched and *)
(* stored in three separate steps, and refreshInstruments() replaces the   *)
(* list and empties the specs in between.                                  *)
(*                                                                         *)
(* A price or quantity step is the number of times the venue changed it.   *)
(***************************************************************************)
EXTENDS Naturals, Sequences, FiniteSets

CONSTANTS
  Threads,
  Pages,           \* the symbols, by the page of the venue's answer they are on
  Usages,          \* how the client may be used: "gateway" (linear), "spot", "both"
  MaxChanges,      \* bound: how often the venue changes an instrument
  MaxCalls         \* bound: calls of the threads

VARIABLES
  usage,
  m_instruments,   \* the cached list, a set of entries
  specCache,       \* the gateway's, a set of entries
  started,         \* the gateway's start() has returned
  thread,
  venue,           \* per category and symbol
  refreshed,       \* per symbol, its step when the last finished refresh began
  must,            \* the symbols a whole list would have
  asked,           \* the symbols the request that was cached was for
  changes, calls

caches == <<m_instruments, specCache>>
ghosts == <<refreshed, must, asked>>
vars == <<usage, caches, started, thread, venue, ghosts, changes, calls>>

Symbols == UNION {Pages[i] : i \in DOMAIN Pages}
Categories == {"linear", "spot"}
Used == CASE usage = "gateway" -> {"linear"} [] usage = "spot" -> {"spot"} [] OTHER -> Categories
Entry == [cat : Categories, symbol : Symbols, step : Nat]
NoSymbol == "none"

Listed(c) == {s \in Symbols : venue[c][s].listed}
Entries(c, S) == {[cat |-> c, symbol |-> s, step |-> venue[c][s].step] : s \in S \cap Listed(c)}
Of(s, list) == {e \in list : e.symbol = s}

\* A thread: its call, where it is, the fetch under way (the symbol it is filtered by,
\* the page, what came so far), what it got; and, to judge it by, the steps known to be
\* refreshed when it began and the symbols listed ever since.
NoSteps == [s \in Symbols |-> 0]
Calling(job, where, c, s, base, stable) ==
  [job |-> job, at |-> where, cat |-> c, symbol |-> s, filter |-> NoSymbol, page |-> 1,
   temp |-> {}, got |-> {}, base |-> base, stable |-> stable]
NoThread == Calling("none", "idle", "linear", NoSymbol, NoSteps, {})

\* A thread, further on in its call.
Moved(th, where, filter, page, temp, got) ==
  [job |-> th.job, at |-> where, cat |-> th.cat, symbol |-> th.symbol, filter |-> filter,
   page |-> page, temp |-> temp, got |-> got, base |-> th.base, stable |-> th.stable]

Init ==
  /\ usage \in Usages
  /\ m_instruments = {} /\ specCache = {} /\ started = FALSE
  /\ thread = [t \in Threads |-> NoThread]
  /\ \E new \in (SUBSET Symbols) \ {Symbols} :
       venue = [c \in Categories |-> [s \in Symbols |->
                  [listed |-> s \notin new, ever |-> s \notin new, step |-> 1]]]
  /\ refreshed = NoSteps /\ must = {} /\ asked = Symbols
  /\ changes = 0 /\ calls = 0

At(t, where) == thread[t].at = where
Doing(t, job) == thread[t].job = job
Go(t, where) == thread' = [thread EXCEPT ![t] = Moved(@, where, @.filter, @.page, @.temp, @.got)]
Got(t, where, got) == thread' = [thread EXCEPT ![t] = Moved(@, where, @.filter, @.page, @.temp, got)]
Return(t) == thread' = [thread EXCEPT ![t] = NoThread]

\* From here on the venue is asked, for one symbol or for all of them.
Fetch(t, filter) == thread' = [thread EXCEPT ![t] = Moved(@, "fetch", filter, 1, {}, {})]

-----------------------------------------------------------------------------
(* The calls *)

Call(t, job, where, c, s, base) ==
  /\ At(t, "idle") /\ calls < MaxCalls /\ calls' = calls + 1
  /\ thread' = [thread EXCEPT ![t] = Calling(job, where, c, s, base, Listed(c))]
  /\ UNCHANGED <<usage, caches, started, venue, ghosts, changes>>

\* The gateway's start() and refreshInstruments(), and getInstrumentsInfo() with force:
\* the whole list, unconditionally.  The core refreshes from one thread.
Refresh(t) ==
  /\ usage # "spot" /\ \A u \in Threads : ~Doing(u, "refresh")
  /\ Call(t, "refresh", "fetch", "linear", NoSymbol, [s \in Symbols |-> venue["linear"][s].step])

\* instrumentSpec(), after start().
SpecOf(t, s) ==
  /\ usage # "spot" /\ started
  /\ Call(t, "spec", "check", "linear", s, refreshed)

\* placeOrder() and amendOrder(), to findPricePrecisionsForInstrument(), and
\* getInstrumentInfo(): the two look alike here.
Steps(t, c, s) ==
  /\ c \in Used /\ (usage = "gateway" => started)
  /\ Call(t, "steps", "priming", c, s, refreshed)

\* getInstrumentsInfo() of spot with a status, of one symbol or of all.
Status(t, s) ==
  /\ usage # "gateway"
  /\ Call(t, "status", "priming", "spot", s, NoSteps)

-----------------------------------------------------------------------------
(* The steps of a call *)

\* A list that is empty is fetched first, for the steps the whole of it.
PrimeFilter(t) == IF Doing(t, "status") THEN thread[t].symbol ELSE NoSymbol
IsPrimed(t) ==
  /\ At(t, "priming")
  /\ IF m_instruments = {} THEN Fetch(t, PrimeFilter(t)) ELSE Go(t, "read")
  /\ UNCHANGED <<usage, caches, started, venue, ghosts, changes, calls>>

\* One page of the answer, or the only one if a symbol was named.
FetchPage(t) ==
  /\ At(t, "fetch")
  /\ LET th   == thread[t]
         page == IF th.filter = NoSymbol THEN Pages[th.page] ELSE {th.filter}
         last == th.filter # NoSymbol \/ th.page = Len(Pages)
     IN  thread' = [thread EXCEPT ![t] =
                      Moved(th, IF last THEN "fetched" ELSE "fetch", th.filter,
                            IF last THEN 1 ELSE th.page + 1, th.temp \cup Entries(th.cat, page), {})]
  /\ UNCHANGED <<usage, caches, started, venue, ghosts, changes, calls>>

\* A page that fails throws out of the call; nothing was stored yet.
FetchFails(t) ==
  /\ At(t, "fetch") /\ Return(t)
  /\ UNCHANGED <<usage, caches, started, venue, ghosts, changes, calls>>

\* setInstruments(): a list of everything is cached; the spot status request caches
\* what it fetched whatever it asked for.
Caches_Mutant(t) == TRUE
Caches(t) == thread[t].filter = NoSymbol \/ Doing(t, "status")
NewList_Mutant(t) == m_instruments \cup {e \in thread[t].temp : Of(e.symbol, m_instruments) = {}}
NewList(t) == thread[t].temp
Store(t) ==
  /\ At(t, "fetched") /\ Caches(t)
  /\ m_instruments' = NewList(t)
  /\ must' = IF thread[t].temp = {} THEN {} ELSE thread[t].stable
  /\ asked' = IF Doing(t, "status") /\ thread[t].filter # NoSymbol THEN {thread[t].filter} ELSE Symbols
  /\ Go(t, IF Doing(t, "refresh") THEN "clear" ELSE "read")
  /\ UNCHANGED <<usage, specCache, started, venue, refreshed, changes, calls>>

\* The answer for one symbol is used and forgotten.
Found(t, list) == Got(t, IF Doing(t, "spec") THEN "store" ELSE "got", Of(thread[t].symbol, list))
UseFetched(t) ==
  /\ At(t, "fetched") /\ ~Caches(t)
  /\ IF Of(thread[t].symbol, thread[t].temp) # {} THEN Found(t, thread[t].temp) ELSE Go(t, "refused")
  /\ UNCHANGED <<usage, caches, started, venue, ghosts, changes, calls>>

\* The cached list, whatever category it is of; a symbol it does not have is asked of
\* the venue.
AfterMiss_Mutant(t) == Go(t, "refused")
AfterMiss(t) == Fetch(t, thread[t].symbol)
ReadList(t) ==
  /\ At(t, "read") /\ thread[t].job \in {"steps", "spec"}
  /\ IF Of(thread[t].symbol, m_instruments) # {} THEN Found(t, m_instruments) ELSE AfterMiss(t)
  /\ UNCHANGED <<usage, caches, started, venue, ghosts, changes, calls>>

\* The spot status request: what public.bybit.com has, nothing if it cannot be read in
\* three attempts, and the cached list has not.
PublicSymbols == {s \in Symbols : venue["spot"][s].ever}
ReadStatus(t) ==
  /\ At(t, "read") /\ Doing(t, "status")
  /\ \E public \in {PublicSymbols, {}} : Got(t, "got", {s \in public : Of(s, m_instruments) = {}})
  /\ UNCHANGED <<usage, caches, started, venue, ghosts, changes, calls>>

\* instrumentSpec(): the gateway's own cache first ...
CheckSpec(t) ==
  /\ At(t, "check")
  /\ IF Of(thread[t].symbol, specCache) # {}
     THEN Got(t, "got", Of(thread[t].symbol, specCache)) ELSE Go(t, "read")
  /\ UNCHANGED <<usage, caches, started, venue, ghosts, changes, calls>>

\* ... where the spec is noted in the end.
StoreSpec(t) ==
  /\ At(t, "store")
  /\ specCache' = (specCache \ Of(thread[t].symbol, specCache)) \cup thread[t].got
  /\ Go(t, "got")
  /\ UNCHANGED <<usage, m_instruments, started, venue, ghosts, changes, calls>>

\* refreshInstruments() ends: the specs are dropped.
ClearSpecs(t) ==
  /\ At(t, "clear")
  /\ specCache' = {} /\ started' = TRUE /\ refreshed' = thread[t].base
  /\ Return(t)
  /\ UNCHANGED <<usage, m_instruments, venue, must, asked, changes, calls>>

\* The caller has what it asked for, or an exception, an empty option, a refusal.
Leave(t) ==
  /\ At(t, "got") \/ At(t, "refused")
  /\ Return(t)
  /\ UNCHANGED <<usage, caches, started, venue, ghosts, changes, calls>>

-----------------------------------------------------------------------------
(* The venue lists an instrument, closes one, changes its steps *)

VenueLists(c, s) ==
  /\ ~venue[c][s].ever
  /\ venue' = [venue EXCEPT ![c][s] = [listed |-> TRUE, ever |-> TRUE, step |-> @.step]]
  /\ UNCHANGED <<thread, must>>

VenueSteps(c, s) ==
  /\ venue[c][s].listed
  /\ venue' = [venue EXCEPT ![c][s] = [listed |-> @.listed, ever |-> @.ever, step |-> @.step + 1]]
  /\ UNCHANGED <<thread, must>>

\* The venue never closes its last instrument, nor the last of those that were listed
\* when a call that has not ended yet began.
VenueCloses(c, s) ==
  /\ venue[c][s].listed /\ Listed(c) # {s} /\ \A t \in Threads : thread[t].stable # {s}
  /\ venue' = [venue EXCEPT ![c][s] = [listed |-> FALSE, ever |-> @.ever, step |-> @.step]]
  /\ thread' = [t \in Threads |-> [job |-> thread[t].job, at |-> thread[t].at, cat |-> thread[t].cat,
       symbol |-> thread[t].symbol, filter |-> thread[t].filter, page |-> thread[t].page,
       temp |-> thread[t].temp, got |-> thread[t].got, base |-> thread[t].base,
       stable |-> thread[t].stable \ {s}]]
  /\ must' = must \ {s}

VenueChanges(c, s) ==
  /\ c \in Used /\ changes < MaxChanges /\ changes' = changes + 1
  /\ VenueLists(c, s) \/ VenueSteps(c, s) \/ VenueCloses(c, s)
  /\ UNCHANGED <<usage, caches, started, refreshed, asked, calls>>

Next ==
  \/ \E t \in Threads :
       \/ Refresh(t) \/ IsPrimed(t) \/ FetchPage(t) \/ FetchFails(t) \/ Store(t) \/ UseFetched(t)
       \/ ReadList(t) \/ ReadStatus(t) \/ CheckSpec(t) \/ StoreSpec(t) \/ ClearSpecs(t) \/ Leave(t)
       \/ \E s \in Symbols : SpecOf(t, s) \/ \E c \in Categories : Steps(t, c, s)
       \/ \E s \in Symbols \cup {NoSymbol} : Status(t, s)
  \/ \E c \in Categories, s \in Symbols : VenueChanges(c, s)

Spec == Init /\ [][Next]_vars

-----------------------------------------------------------------------------
\* The cached list is empty or whole: it has every symbol that was listed when its first
\* page was asked for and still is ("Only a FULL-universe fetch may seed the shared
\* cache", "Status-filtered requests always fetch fresh and do not touch the cache").
Whole(list, S) == list = {} \/ \A s \in must \cap S : Of(s, list) # {}
CacheWhole == Whole(m_instruments, Symbols)

\* Nothing but a spot status request that names a symbol makes the list less than whole,
\* and that one has its symbol in it; the gateway's is whole whatever mixture of whole and
\* filtered requests the threads make.
AskedIsListed == Whole(m_instruments, IF usage = "gateway" THEN Symbols ELSE asked)

\* An order goes out with the steps of an instrument of its own symbol and category, and
\* not with older ones than the last refresh finished before the order began could see:
\* no filtered answer and no late page puts older steps back.
OwnSteps ==
  \A t \in Threads : At(t, "got") /\ Doing(t, "steps") =>
    \E e \in thread[t].got : /\ e.symbol = thread[t].symbol /\ e.cat = thread[t].cat
                             /\ e.step >= thread[t].base[e.symbol]

\* An instrument the venue lists all along is found, however old the cached list is:
\* placeOrder() refuses no order of it and instrumentSpec() does not call it unknown.
ListedIsFound ==
  \A t \in Threads : At(t, "refused") => thread[t].symbol \notin thread[t].stable

\* instrumentSpec() hands out no spec older than the last refresh finished before the
\* call began ("instrumentSpec then lazily re-reads from the fresh cache").
SpecFresh ==
  \A t \in Threads : At(t, "got") /\ Doing(t, "spec") =>
    \A e \in thread[t].got : e.step >= thread[t].base[e.symbol]

\* A spot symbol the status request reports as closed was not trading all along ("Status-
\* filtered requests always fetch fresh").
ClosedIsClosed ==
  \A t \in Threads : At(t, "got") /\ Doing(t, "status") => thread[t].got \cap thread[t].stable = {}

============================================================================
