------------------------- MODULE InstrumentsProofs -------------------------
(***************************************************************************)
(* Proofs about the cached instruments, for any number of threads, pages   *)
(* and changes at the venue, where the client is used for one category.    *)
(***************************************************************************)
EXTENDS MCRestState, TLAPS

\* The client serves linear orders of the gateway, or spot alone.
OneCategory == Usages \subseteq {"gateway", "spot"}

Cat == IF usage = "gateway" THEN "linear" ELSE "spot"
Has(s, list) == \E e \in list : e.symbol = s
Symbols == Known!Symbols
NoSymbol == Known!NoSymbol

\* The entries of a list are of the category in use, with steps no older than given.
EntriesOK(list, base) ==
  \A e \in list : e.symbol \in Symbols /\ e.cat = Cat /\ e.step \in Nat /\ e.step >= base[e.symbol]

\* A step is never older than it was.
StepsOK(base) == \A s \in Symbols : base[s] \in Nat /\ base[s] <= venue[Cat][s].step

\* What the venue, the cached list and the last refresh have to do with each other.
SharedOK ==
  /\ usage \in {"gateway", "spot"}
  /\ venue \in [Known!Categories -> [Symbols -> [listed : BOOLEAN, ever : BOOLEAN, step : Nat]]]
  /\ Known!Listed(Cat) # {}
  /\ StepsOK(refreshed) /\ (usage = "spot" => \A s \in Symbols : refreshed[s] = 0)
  /\ EntriesOK(m_instruments, refreshed)
  /\ m_instruments = {} \/ \A s \in must \cap asked : Has(s, m_instruments)
  /\ usage = "gateway" => asked = Symbols
  /\ usage = "gateway" /\ started => m_instruments # {}

\* What a call may ask for.
JobOK(th) ==
  /\ th.job = "refresh" => usage = "gateway" /\ \A s \in Symbols : th.base[s] >= refreshed[s]
  /\ th.job \in {"steps", "spec"} => /\ th.symbol \in Symbols /\ (usage = "gateway" => started)
                                     /\ \A s \in Symbols : th.base[s] <= refreshed[s]
  /\ th.job = "status" => usage = "spot"
  /\ th.at = "priming" => th.job \in {"steps", "status"}
  /\ th.at = "check" => th.job = "spec"
  /\ th.at = "read" => th.job # "refresh"
  /\ th.at = "store" => th.job = "spec"
  /\ th.at # "idle" => /\ th.cat = Cat /\ th.stable \subseteq Known!Listed(Cat) /\ th.stable # {}
                       /\ th.job \in {"refresh", "steps", "spec", "status"}

\* The fetch under way: what was listed all along is on the pages that came.
FetchOK(th) ==
  /\ th.page \in 1..Len(Pages) /\ EntriesOK(th.temp, th.base)
  /\ th.at = "fetch" /\ th.filter = NoSymbol =>
       \A i \in 1..Len(Pages) : i < th.page => \A s \in Pages[i] \cap th.stable : Has(s, th.temp)
  /\ th.at = "fetched" /\ th.filter = NoSymbol => \A s \in th.stable : Has(s, th.temp)
  /\ th.at = "fetched" /\ th.filter # NoSymbol /\ th.filter \in th.stable => Has(th.filter, th.temp)
  /\ th.at \in {"fetch", "fetched"} /\ th.filter # NoSymbol =>
       th.filter = th.symbol /\ th.job \in {"steps", "spec", "status"}
  /\ usage = "gateway" /\ th.at \in {"fetch", "fetched"} /\ th.filter = NoSymbol => th.job = "refresh"

\* What the call ends with.
EndOK(th) ==
  /\ th.at = "clear" => /\ th.job = "refresh" /\ m_instruments # {}
                        /\ EntriesOK(m_instruments, th.base)
  /\ th.at = "refused" => th.symbol \notin th.stable
  /\ th.at = "got" /\ th.job = "steps" =>
       \E e \in th.got : e.symbol = th.symbol /\ e.cat = th.cat /\ e.step >= th.base[e.symbol]

ThreadOK(th) == StepsOK(th.base) /\ JobOK(th) /\ FetchOK(th) /\ EndOK(th)

\* One refresh at a time; every thread is all right.
KnownInv ==
  /\ SharedOK
  /\ DOMAIN caller = Threads /\ \A t \in Threads : ThreadOK(caller[t])
  /\ \A t, u \in Threads : caller[t].job = "refresh" /\ caller[u].job = "refresh" => t = u

-----------------------------------------------------------------------------
\* What is known at the start.
LEMMA KnownInit == ASSUME OneCategory, Known!Init PROVE KnownInv
  <1>1. usage \in {"gateway", "spot"} /\ Cat \in Known!Categories
    BY DEF OneCategory, Known!Init, Cat, Known!Categories
  <1>2. PICK new \in (SUBSET Symbols) \ {Symbols} :
          venue = [c \in Known!Categories |-> [s \in Symbols |->
                    [listed |-> s \notin new, ever |-> s \notin new, step |-> 1]]]
    BY DEF Known!Init, Symbols
  <1>3. venue \in [Known!Categories -> [Symbols -> [listed : BOOLEAN, ever : BOOLEAN, step : Nat]]]
    BY <1>2
  <1>4. \A s \in Symbols : venue[Cat][s].step = 1 /\ venue[Cat][s].listed = (s \notin new)
    BY <1>1, <1>2
  <1>5. Known!Listed(Cat) # {}
    BY <1>2, <1>4, Zenon DEF Known!Listed, Symbols
  <1>6. \A s \in Symbols : refreshed[s] = 0
    BY DEF Known!Init, Known!NoSteps, Symbols
  <1>7. StepsOK(refreshed)
    BY <1>4, <1>6 DEF StepsOK
  <1>8. SharedOK
    BY <1>1, <1>3, <1>5, <1>6, <1>7 DEF SharedOK, EntriesOK, Known!Init, Symbols
  <1>9. DOMAIN caller = Threads /\ \A t \in Threads : caller[t] =
          [job |-> "none", at |-> "idle", cat |-> "linear", symbol |-> NoSymbol, filter |-> NoSymbol, page |-> 1,
           temp |-> {}, got |-> {}, base |-> Known!NoSteps, stable |-> {}]
    BY DEF Known!Init, Known!NoThread, Known!Calling, NoSymbol
  <1>10. \A s \in Symbols : Known!NoSteps[s] = 0
    BY DEF Known!NoSteps, Symbols
  <1>11. StepsOK(Known!NoSteps)
    BY <1>4, <1>10 DEF StepsOK
  <1>12. ASSUME NEW t \in Threads PROVE ThreadOK(caller[t]) /\ caller[t].job = "none"
    <2>1. /\ caller[t].job = "none" /\ caller[t].at = "idle" /\ caller[t].page = 1 /\ caller[t].temp = {}
          /\ caller[t].base = Known!NoSteps
      BY <1>9
    <2>2. JobOK(caller[t]) /\ EndOK(caller[t])
      BY <2>1 DEF JobOK, EndOK
    <2>3. FetchOK(caller[t])
      BY <2>1, PagesAssumption DEF FetchOK, EntriesOK
    <2> QED BY <1>11, <2>1, <2>2, <2>3 DEF ThreadOK
  <1> QED BY <1>8, <1>9, <1>12 DEF KnownInv

\* A step of one thread that leaves what all share as it is.
LEMMA CallerMoves ==
  ASSUME KnownInv, NEW t \in Threads, NEW r, caller' = [caller EXCEPT ![t] = r],
         UNCHANGED <<usage, m_instruments, started, venue, refreshed, must, asked>>, ThreadOK(r),
         r.job = "refresh" => caller[t].job = "refresh" \/ \A u \in Threads : caller[u].job # "refresh"
  PROVE  KnownInv'
  <1>1. DOMAIN caller' = Threads /\ caller'[t] = r /\ \A u \in Threads : u # t => caller'[u] = caller[u]
    BY DEF KnownInv
  <1>2. Cat' = Cat /\ \A c : Known!Listed(c)' = Known!Listed(c)
    BY DEF Cat, Known!Listed
  <1>3. SharedOK'
    BY <1>2 DEF KnownInv, SharedOK, EntriesOK, StepsOK
  <1>4. ASSUME NEW th, ThreadOK(th) PROVE ThreadOK(th)'
    BY <1>2, <1>4 DEF ThreadOK, StepsOK, JobOK, FetchOK, EndOK, EntriesOK
  <1>5. \A u \in Threads : ThreadOK(caller[u])'
    <2> SUFFICES ASSUME NEW u \in Threads PROVE ThreadOK(caller[u])'  OBVIOUS
    <2>1. PICK th : th = caller'[u]
      OBVIOUS
    <2>2. ThreadOK(th)
      BY <1>1, <2>1 DEF KnownInv
    <2>3. ThreadOK(th)'
      BY <1>4, <2>2
    <2> QED BY <2>1, <2>3
  <1>6. \A u, v \in Threads : caller'[u].job = "refresh" /\ caller'[v].job = "refresh" => u = v
    BY <1>1 DEF KnownInv
  <1> QED BY <1>1, <1>3, <1>5, <1>6 DEF KnownInv

\* A thread that does nothing.
LEMMA IdleOK == ASSUME SharedOK PROVE ThreadOK(Known!NoThread) /\ Known!NoThread.job # "refresh"
  <1> DEFINE r == [job |-> "none", at |-> "idle", cat |-> "linear", symbol |-> NoSymbol, filter |-> NoSymbol,
                   page |-> 1, temp |-> {}, got |-> {}, base |-> Known!NoSteps, stable |-> {}]
  <1>1. Known!NoThread = r
    BY DEF Known!NoThread, Known!Calling, NoSymbol
  <1>2. \A s \in Symbols : Known!NoSteps[s] = 0
    BY DEF Known!NoSteps, Symbols
  <1>3. Cat \in Known!Categories
    BY DEF Cat, Known!Categories
  <1>4. StepsOK(Known!NoSteps)
    BY <1>2, <1>3 DEF SharedOK, StepsOK
  <1>5. r.job = "none" /\ r.at = "idle" /\ r.page = 1 /\ r.temp = {} /\ r.base = Known!NoSteps
    OBVIOUS
  <1> HIDE DEF r
  <1>6. JobOK(r) /\ EndOK(r)
    BY <1>5 DEF JobOK, EndOK
  <1>7. FetchOK(r)
    BY <1>5, PagesAssumption DEF FetchOK, EntriesOK
  <1> QED BY <1>1, <1>4, <1>5, <1>6, <1>7 DEF ThreadOK

\* A call returns, and leaves what all share as it is.
LEMMA CallReturns ==
  ASSUME KnownInv, NEW t \in Threads, Known!Return(t),
         UNCHANGED <<usage, m_instruments, started, venue, refreshed, must, asked>>
  PROVE  KnownInv'
  BY IdleOK, CallerMoves DEF KnownInv, Known!Return

\* A call begins.
LEMMA CallStep ==
  ASSUME KnownInv, NEW t \in Threads, NEW job, NEW where, NEW s, NEW base,
         Known!Call(t, job, where, Cat, s, base), StepsOK(base),
         job \in {"refresh", "steps", "spec", "status"}, where \in {"fetch", "check", "priming"},
         job = "refresh" => /\ usage = "gateway" /\ where = "fetch" /\ \A x \in Symbols : base[x] >= refreshed[x]
                            /\ \A u \in Threads : caller[u].job # "refresh",
         job \in {"steps", "spec"} => /\ s \in Symbols /\ (usage = "gateway" => started)
                                      /\ \A x \in Symbols : base[x] <= refreshed[x],
         job = "status" => usage = "spot",
         where = "fetch" => job = "refresh", where = "check" => job = "spec",
         where = "priming" => job \in {"steps", "status"}
  PROVE  KnownInv'
  <1> DEFINE r == [job |-> job, at |-> where, cat |-> Cat, symbol |-> s, filter |-> NoSymbol, page |-> 1,
                   temp |-> {}, got |-> {}, base |-> base, stable |-> Known!Listed(Cat)]
  <1>1. caller' = [caller EXCEPT ![t] = r] /\ UNCHANGED <<usage, m_instruments, started, venue, refreshed, must, asked>>
    BY DEF Known!Call, Known!Calling, NoSymbol, Known!caches, Known!ghosts
  <1>2. /\ r.job = job /\ r.at = where /\ r.cat = Cat /\ r.symbol = s /\ r.filter = NoSymbol /\ r.page = 1
        /\ r.temp = {} /\ r.base = base /\ r.stable = Known!Listed(Cat)
    OBVIOUS
  <1> HIDE DEF r
  <1>3. JobOK(r)
    BY <1>2 DEF JobOK, KnownInv, SharedOK
  <1>4. FetchOK(r)
    <2>1. \A i \in 1..Len(Pages) : ~(i < 1)
      BY PagesAssumption
    <2> QED BY <1>2, <2>1, PagesAssumption DEF FetchOK, EntriesOK
  <1>5. EndOK(r)
    BY <1>2 DEF EndOK
  <1> QED BY <1>1, <1>2, <1>3, <1>4, <1>5, CallerMoves DEF ThreadOK

\* The calls of the gateway and of the user.
LEMMA CallsStep ==
  ASSUME OneCategory, KnownInv, NEW t \in Threads,
         \/ Known!Refresh(t)
         \/ \E s \in Symbols : Known!SpecOf(t, s) \/ \E c \in Known!Categories : Known!Steps(t, c, s)
         \/ \E s \in Symbols \cup {NoSymbol} : Known!Status(t, s)
  PROVE  KnownInv'
  <1>1. usage \in {"gateway", "spot"} /\ StepsOK(refreshed) /\ SharedOK
    BY DEF KnownInv, SharedOK
  <1>2. /\ usage = "gateway" => Cat = "linear" /\ Known!Used = {"linear"}
        /\ usage = "spot" => Cat = "spot" /\ Known!Used = {"spot"}
    <2>1. usage = "gateway" => Known!Used = {"linear"}
      BY Zenon DEF Known!Used
    <2>2. usage = "spot" => Known!Used = {"spot"}
      BY Zenon DEF Known!Used
    <2> QED BY <1>1, <2>1, <2>2 DEF Cat
  <1>3. \A x \in Symbols : refreshed[x] \in Nat /\ refreshed[x] <= refreshed[x]
    BY <1>1 DEF StepsOK
  <1>4. CASE Known!Refresh(t)
    <2> DEFINE base == [x \in Symbols |-> venue["linear"][x].step]
    <2>1. /\ usage = "gateway" /\ Cat = "linear" /\ \A u \in Threads : caller[u].job # "refresh"
          /\ Known!Call(t, "refresh", "fetch", Cat, NoSymbol, base)
      BY <1>1, <1>2, <1>4 DEF Known!Refresh, Known!Doing, Symbols, NoSymbol
    <2>2. \A x \in Symbols : base[x] \in Nat /\ base[x] = venue[Cat][x].step
      BY <1>1, <2>1 DEF SharedOK, Known!Categories
    <2> HIDE DEF base
    <2>3. StepsOK(base) /\ \A x \in Symbols : base[x] >= refreshed[x]
      BY <1>1, <2>2 DEF StepsOK
    <2> QED BY <2>1, <2>3, CallStep
  <1>5. CASE \E s \in Symbols : Known!SpecOf(t, s)
    <2>1. PICK s \in Symbols : Known!SpecOf(t, s)
      BY <1>5
    <2>2. usage = "gateway" /\ started /\ Known!Call(t, "spec", "check", Cat, s, refreshed)
      BY <1>1, <1>2, <2>1 DEF Known!SpecOf
    <2> QED BY <1>1, <1>3, <2>2, CallStep
  <1>6. CASE \E s \in Symbols : \E c \in Known!Categories : Known!Steps(t, c, s)
    <2>1. PICK s \in Symbols, c \in Known!Categories : Known!Steps(t, c, s)
      BY <1>6
    <2>2. c = Cat
      BY <1>1, <1>2, <2>1 DEF Known!Steps
    <2>3. (usage = "gateway" => started) /\ Known!Call(t, "steps", "priming", Cat, s, refreshed)
      BY <2>1, <2>2 DEF Known!Steps
    <2> QED BY <1>1, <1>3, <2>3, CallStep
  <1>7. CASE \E s \in Symbols \cup {NoSymbol} : Known!Status(t, s)
    <2>1. PICK s : Known!Status(t, s)
      BY <1>7
    <2>2. /\ usage = "spot" /\ Cat = "spot"
          /\ Known!Call(t, "status", "priming", Cat, s, Known!NoSteps)
      BY <1>1, <1>2, <2>1 DEF Known!Status
    <2>3. StepsOK(Known!NoSteps)
      <3>1. ThreadOK(Known!NoThread) /\ Known!NoThread.base = Known!NoSteps
        BY <1>1, IdleOK DEF Known!NoThread, Known!Calling
      <3> QED BY <3>1 DEF ThreadOK
    <2> QED BY <2>2, <2>3, CallStep
  <1> QED BY <1>4, <1>5, <1>6, <1>7

\* The fields of a thread further on in its call.
LEMMA MovedFields ==
  ASSUME NEW th, NEW where, NEW filter, NEW page, NEW temp, NEW got
  PROVE  LET r == Known!Moved(th, where, filter, page, temp, got)
         IN  /\ r.job = th.job /\ r.at = where /\ r.cat = th.cat /\ r.symbol = th.symbol /\ r.filter = filter
             /\ r.page = page /\ r.temp = temp /\ r.got = got /\ r.base = th.base /\ r.stable = th.stable
  BY DEF Known!Moved

\* A thread goes on in its call, and leaves what all share as it is.
LEMMA MovesOn ==
  ASSUME KnownInv, NEW t \in Threads, caller[t].at # "idle", NEW r,
         r.job = caller[t].job, r.cat = caller[t].cat, r.symbol = caller[t].symbol,
         r.base = caller[t].base, r.stable = caller[t].stable,
         r.at \in {"fetch", "fetched", "read", "store", "got", "refused"},
         caller' = [caller EXCEPT ![t] = r],
         UNCHANGED <<usage, m_instruments, started, venue, refreshed, must, asked>>,
         r.at = "read" => r.job # "refresh", r.at = "store" => r.job = "spec",
         FetchOK(r), EndOK(r)
  PROVE  KnownInv'
  <1>1. StepsOK(caller[t].base) /\ JobOK(caller[t])
    BY DEF KnownInv, ThreadOK
  <1>2. JobOK(r)
    BY <1>1 DEF JobOK
  <1>3. StepsOK(r.base)
    BY <1>1
  <1> QED BY <1>2, <1>3, CallerMoves DEF ThreadOK

\* A fetch begins.
LEMMA FetchBegins ==
  ASSUME KnownInv, NEW t \in Threads, caller[t].at # "idle", NEW filter, Known!Fetch(t, filter),
         UNCHANGED <<usage, m_instruments, started, venue, refreshed, must, asked>>,
         filter # NoSymbol => filter = caller[t].symbol /\ caller[t].job \in {"steps", "spec", "status"},
         usage = "gateway" /\ filter = NoSymbol => caller[t].job = "refresh"
  PROVE  KnownInv'
  <1>1. PICK r : r = Known!Moved(caller[t], "fetch", filter, 1, {}, {})
    OBVIOUS
  <1>2. caller' = [caller EXCEPT ![t] = r]
    BY <1>1 DEF Known!Fetch
  <1>3. /\ r.job = caller[t].job /\ r.at = "fetch" /\ r.cat = caller[t].cat /\ r.symbol = caller[t].symbol
        /\ r.filter = filter /\ r.page = 1 /\ r.temp = {} /\ r.base = caller[t].base
        /\ r.stable = caller[t].stable
    BY <1>1, MovedFields
  <1>4. FetchOK(r)
    <2>1. \A i \in 1..Len(Pages) : ~(i < 1)
      BY PagesAssumption
    <2> QED BY <1>3, <2>1, PagesAssumption DEF FetchOK, EntriesOK
  <1>5. EndOK(r)
    BY <1>3 DEF EndOK
  <1> QED BY <1>2, <1>3, <1>4, <1>5, MovesOn

\* A step that changes where the thread is, and what it got.
LEMMA GotStep ==
  ASSUME KnownInv, NEW t \in Threads, caller[t].at # "idle", NEW where, NEW got, Known!Got(t, where, got),
         UNCHANGED <<usage, m_instruments, started, venue, refreshed, must, asked>>,
         where \in {"read", "store", "got", "refused"},
         where = "read" => caller[t].job # "refresh", where = "store" => caller[t].job = "spec",
         where = "refused" => caller[t].symbol \notin caller[t].stable,
         where = "got" /\ caller[t].job = "steps" =>
           \E e \in got : e.symbol = caller[t].symbol /\ e.cat = caller[t].cat
                          /\ e.step >= caller[t].base[e.symbol]
  PROVE  KnownInv'
  <1>1. PICK r : r = Known!Moved(caller[t], where, caller[t].filter, caller[t].page, caller[t].temp, got)
    OBVIOUS
  <1>2. caller' = [caller EXCEPT ![t] = r]
    BY <1>1 DEF Known!Got
  <1>3. /\ r.job = caller[t].job /\ r.at = where /\ r.cat = caller[t].cat /\ r.symbol = caller[t].symbol
        /\ r.filter = caller[t].filter /\ r.page = caller[t].page /\ r.temp = caller[t].temp /\ r.got = got
        /\ r.base = caller[t].base /\ r.stable = caller[t].stable
    BY <1>1, MovedFields
  <1>4. FetchOK(caller[t])
    BY DEF KnownInv, ThreadOK
  <1>5. FetchOK(r)
    BY <1>3, <1>4 DEF FetchOK
  <1>6. EndOK(r)
    BY <1>3 DEF EndOK
  <1> QED BY <1>2, <1>3, <1>5, <1>6, MovesOn

\* The same, where nothing is got.
LEMMA GoStep ==
  ASSUME KnownInv, NEW t \in Threads, caller[t].at # "idle", NEW where, Known!Go(t, where),
         UNCHANGED <<usage, m_instruments, started, venue, refreshed, must, asked>>,
         where \in {"read", "store", "refused"} \/ (where = "got" /\ caller[t].job # "steps"),
         where = "read" => caller[t].job # "refresh", where = "store" => caller[t].job = "spec",
         where = "refused" => caller[t].symbol \notin caller[t].stable
  PROVE  KnownInv'
  <1>1. Known!Got(t, where, caller[t].got)
    BY DEF Known!Go, Known!Got
  <1> QED BY <1>1, GotStep

\* A symbol that is in a list.
LEMMA OfFacts == ASSUME NEW s, NEW list PROVE Known!Of(s, list) # {} <=> Has(s, list)
  BY DEF Known!Of, Has

\* A list is empty or not.
LEMMA IsPrimedStep == ASSUME KnownInv, NEW t \in Threads, Known!IsPrimed(t) PROVE KnownInv'
  <1>1. /\ caller[t].at = "priming" /\ UNCHANGED <<usage, m_instruments, started, venue, refreshed, must, asked>>
        /\ JobOK(caller[t]) /\ SharedOK
    BY DEF Known!IsPrimed, Known!At, Known!caches, Known!ghosts, KnownInv, ThreadOK
  <1>2. caller[t].job \in {"steps", "status"}
    BY <1>1 DEF JobOK
  <1>3. CASE m_instruments = {}
    <2>1. usage # "gateway"
      BY <1>1, <1>2, <1>3 DEF JobOK, SharedOK
    <2>2. Known!Fetch(t, Known!PrimeFilter(t))
      BY <1>3 DEF Known!IsPrimed
    <2>3. Known!PrimeFilter(t) = NoSymbol \/ (Known!PrimeFilter(t) = caller[t].symbol /\ caller[t].job = "status")
      BY <1>2 DEF Known!PrimeFilter, Known!Doing, NoSymbol
    <2> QED BY <1>1, <2>1, <2>2, <2>3, FetchBegins
  <1>4. CASE m_instruments # {}
    <2>1. Known!Go(t, "read")
      BY <1>4 DEF Known!IsPrimed
    <2> QED BY <1>1, <1>2, <2>1, GoStep
  <1> QED BY <1>3, <1>4

\* A page comes: what was listed all along is on it.
LEMMA FetchPageStep == ASSUME KnownInv, NEW t \in Threads, Known!FetchPage(t) PROVE KnownInv'
  <1>1. PICK th : th = caller[t]
    OBVIOUS
  <1> DEFINE page == IF th.filter = NoSymbol THEN Pages[th.page] ELSE {th.filter}
             last == th.filter # NoSymbol \/ th.page = Len(Pages)
             where == IF last THEN "fetched" ELSE "fetch"
             next == IF last THEN 1 ELSE th.page + 1
             came == Known!Entries(th.cat, page)
  <1>2. /\ th.at = "fetch" /\ UNCHANGED <<usage, m_instruments, started, venue, refreshed, must, asked>>
        /\ caller' = [caller EXCEPT ![t] = Known!Moved(th, where, th.filter, next, th.temp \cup came, {})]
    BY <1>1 DEF Known!FetchPage, Known!At, Known!caches, Known!ghosts, NoSymbol
  <1>3. StepsOK(th.base) /\ JobOK(th) /\ FetchOK(th) /\ SharedOK
    BY <1>1 DEF KnownInv, ThreadOK
  <1>4. th.cat = Cat /\ th.stable \subseteq Known!Listed(Cat) /\ Cat \in Known!Categories
    BY <1>2, <1>3 DEF JobOK, Cat, Known!Categories
  <1>5. EntriesOK(came, th.base)
    <2> SUFFICES ASSUME NEW e \in came
                 PROVE  e.symbol \in Symbols /\ e.cat = Cat /\ e.step \in Nat /\ e.step >= th.base[e.symbol]
      BY DEF EntriesOK
    <2>1. PICK s \in Symbols : e = [cat |-> Cat, symbol |-> s, step |-> venue[Cat][s].step]
      BY <1>4 DEF Known!Entries, Known!Listed, Symbols
    <2>2. venue[Cat][s].step \in Nat /\ th.base[s] \in Nat /\ th.base[s] <= venue[Cat][s].step
      BY <1>3, <1>4 DEF SharedOK, StepsOK
    <2> QED BY <2>1, <2>2
  <1>6. \A s \in page \cap th.stable : Has(s, th.temp \cup came)
    <2> SUFFICES ASSUME NEW s \in page \cap th.stable PROVE Has(s, came)
      BY DEF Has
    <2>1. [cat |-> Cat, symbol |-> s, step |-> venue[Cat][s].step] \in came
      BY <1>4 DEF Known!Entries
    <2> QED BY <2>1 DEF Has
  <1>7. \A s : Has(s, th.temp) => Has(s, th.temp \cup came)
    BY DEF Has
  <1>8. EntriesOK(th.temp \cup came, th.base)
    BY <1>3, <1>5 DEF FetchOK, EntriesOK
  <1>9. th.page \in 1..Len(Pages) /\ next \in 1..Len(Pages)
    BY <1>3, PagesAssumption DEF FetchOK
  <1>10. where \in {"fetch", "fetched"} /\ (where = "fetched" <=> last)
    OBVIOUS
  <1> HIDE DEF came, where
  <1>11. PICK r : r = Known!Moved(th, where, th.filter, next, th.temp \cup came, {})
    OBVIOUS
  <1>12. /\ r.job = th.job /\ r.at = where /\ r.cat = th.cat /\ r.symbol = th.symbol /\ r.filter = th.filter
         /\ r.page = next /\ r.temp = th.temp \cup came /\ r.base = th.base /\ r.stable = th.stable
    BY <1>11, MovedFields
  <1>13. FetchOK(r)
    <2>1. th.filter = NoSymbol =>
            \A i \in 1..Len(Pages) : i <= th.page => \A s \in Pages[i] \cap th.stable : Has(s, th.temp \cup came)
      <3> SUFFICES ASSUME th.filter = NoSymbol, NEW i \in 1..Len(Pages), i <= th.page,
                          NEW s \in Pages[i] \cap th.stable
                   PROVE  Has(s, th.temp \cup came)
        OBVIOUS
      <3>1. CASE i = th.page
        BY <1>6, <3>1
      <3>2. CASE i < th.page
        <4>1. Has(s, th.temp)
          BY <1>2, <1>3, <3>2 DEF FetchOK
        <4> QED BY <1>7, <4>1
      <3> QED BY <1>9, <3>1, <3>2
    <2>2. where = "fetch" => th.filter = NoSymbol /\ next = th.page + 1
      BY <1>10
    <2>3. where = "fetch" =>
            \A i \in 1..Len(Pages) : i < next => \A s \in Pages[i] \cap th.stable : Has(s, th.temp \cup came)
      <3> HIDE DEF next
      <3> SUFFICES ASSUME where = "fetch", NEW i \in 1..Len(Pages), i < next, NEW s \in Pages[i] \cap th.stable
                   PROVE  Has(s, th.temp \cup came)
        OBVIOUS
      <3>1. i <= th.page
        BY <1>9, <2>2
      <3> QED BY <2>1, <2>2, <3>1
    <2>4. where = "fetched" /\ th.filter = NoSymbol => \A s \in th.stable : Has(s, th.temp \cup came)
      <3> SUFFICES ASSUME where = "fetched", th.filter = NoSymbol, NEW s \in th.stable
                   PROVE  Has(s, th.temp \cup came)
        OBVIOUS
      <3>1. s \in Symbols
        BY <1>4 DEF Known!Listed, Symbols
      <3>2. PICK i \in 1..Len(Pages) : s \in Pages[i]
        BY <3>1, PagesAssumption DEF Symbols, Known!Symbols
      <3>3. i <= th.page
        BY <1>9, <1>10, PagesAssumption
      <3> QED BY <2>1, <3>2, <3>3
    <2>5. where = "fetched" /\ th.filter # NoSymbol /\ th.filter \in th.stable => Has(th.filter, th.temp \cup came)
      BY <1>6
    <2> HIDE DEF next
    <2> QED BY <1>2, <1>3, <1>8, <1>9, <1>10, <1>12, <2>3, <2>4, <2>5 DEF FetchOK
  <1>14. EndOK(r)
    BY <1>10, <1>12 DEF EndOK
  <1> HIDE DEF next, last
  <1> QED BY <1>1, <1>2, <1>10, <1>11, <1>12, <1>13, <1>14, MovesOn

\* The answer for one symbol: a symbol listed all along is in it.
LEMMA UseFetchedStep == ASSUME KnownInv, NEW t \in Threads, Known!UseFetched(t) PROVE KnownInv'
  <1>1. /\ caller[t].at = "fetched" /\ UNCHANGED <<usage, m_instruments, started, venue, refreshed, must, asked>>
        /\ caller[t].filter # NoSymbol /\ caller[t].job # "status"
    BY DEF Known!UseFetched, Known!At, Known!Doing, Known!Caches, Known!caches, Known!ghosts, NoSymbol
  <1>2. JobOK(caller[t]) /\ FetchOK(caller[t])
    BY DEF KnownInv, ThreadOK
  <1>3. /\ caller[t].filter = caller[t].symbol /\ caller[t].job \in {"steps", "spec"} /\ caller[t].cat = Cat
        /\ caller[t].symbol \in caller[t].stable => Has(caller[t].symbol, caller[t].temp)
    BY <1>1, <1>2 DEF FetchOK, JobOK
  <1>4. CASE Known!Of(caller[t].symbol, caller[t].temp) # {}
    <2>1. Known!Got(t, IF Known!Doing(t, "spec") THEN "store" ELSE "got",
                    Known!Of(caller[t].symbol, caller[t].temp))
      BY <1>4 DEF Known!UseFetched, Known!Found
    <2>2. \E e \in Known!Of(caller[t].symbol, caller[t].temp) :
            e.symbol = caller[t].symbol /\ e.cat = caller[t].cat /\ e.step >= caller[t].base[e.symbol]
      BY <1>2, <1>3, <1>4 DEF Known!Of, FetchOK, EntriesOK
    <2>3. CASE caller[t].job = "spec"
      BY <1>1, <2>1, <2>3, GotStep DEF Known!Doing
    <2>4. CASE caller[t].job = "steps"
      BY <1>1, <2>1, <2>2, <2>4, GotStep DEF Known!Doing
    <2> QED BY <1>3, <2>3, <2>4
  <1>5. CASE Known!Of(caller[t].symbol, caller[t].temp) = {}
    <2>1. Known!Go(t, "refused")
      BY <1>5 DEF Known!UseFetched
    <2>2. caller[t].symbol \notin caller[t].stable
      BY <1>3, <1>5, OfFacts
    <2> QED BY <1>1, <2>1, <2>2, GoStep
  <1> QED BY <1>4, <1>5

\* The cached list is read.
LEMMA ReadListStep == ASSUME KnownInv, NEW t \in Threads, Known!ReadList(t) PROVE KnownInv'
  <1>1. /\ caller[t].at = "read" /\ UNCHANGED <<usage, m_instruments, started, venue, refreshed, must, asked>>
        /\ caller[t].job \in {"steps", "spec"}
    BY DEF Known!ReadList, Known!At, Known!caches, Known!ghosts
  <1>2. JobOK(caller[t]) /\ SharedOK /\ StepsOK(caller[t].base)
    BY DEF KnownInv, ThreadOK
  <1>3. caller[t].symbol \in Symbols /\ caller[t].cat = Cat /\ \A s \in Symbols : caller[t].base[s] <= refreshed[s]
    BY <1>1, <1>2 DEF JobOK
  <1>4. CASE Known!Of(caller[t].symbol, m_instruments) # {}
    <2>1. Known!Got(t, IF Known!Doing(t, "spec") THEN "store" ELSE "got",
                    Known!Of(caller[t].symbol, m_instruments))
      BY <1>4 DEF Known!ReadList, Known!Found
    <2>2. PICK e \in m_instruments : e.symbol = caller[t].symbol
      BY <1>4 DEF Known!Of
    <2>3. e \in Known!Of(caller[t].symbol, m_instruments)
      BY <2>2 DEF Known!Of
    <2>4. e.cat = Cat /\ e.step \in Nat /\ e.step >= refreshed[e.symbol]
      BY <1>2, <2>2 DEF SharedOK, EntriesOK
    <2>5. refreshed[e.symbol] \in Nat /\ caller[t].base[e.symbol] \in Nat
          /\ caller[t].base[e.symbol] <= refreshed[e.symbol]
      BY <1>2, <1>3, <2>2 DEF SharedOK, StepsOK
    <2>6. e.step >= caller[t].base[e.symbol]
      BY <2>4, <2>5
    <2>7. CASE caller[t].job = "spec"
      BY <1>1, <2>1, <2>7, GotStep DEF Known!Doing
    <2>8. CASE caller[t].job = "steps"
      BY <1>1, <1>3, <2>1, <2>2, <2>3, <2>4, <2>6, <2>8, GotStep DEF Known!Doing
    <2> QED BY <1>1, <2>7, <2>8
  <1>5. CASE Known!Of(caller[t].symbol, m_instruments) = {}
    <2>1. Known!Fetch(t, caller[t].symbol)
      BY <1>5 DEF Known!ReadList, Known!AfterMiss
    <2>2. caller[t].symbol # NoSymbol
      BY <1>3, PagesAssumption DEF Symbols, NoSymbol
    <2> QED BY <1>1, <2>1, <2>2, FetchBegins
  <1> QED BY <1>4, <1>5

\* The other steps of a call that leave what is shared, but for the specs, as it is.
LEMMA OtherSteps ==
  ASSUME KnownInv, NEW t \in Threads,
         \/ Known!FetchFails(t) \/ Known!ReadStatus(t) \/ Known!CheckSpec(t) \/ Known!StoreSpec(t)
         \/ Known!Leave(t)
  PROVE  KnownInv'
  <1>1. UNCHANGED <<usage, m_instruments, started, venue, refreshed, must, asked>>
    BY DEF Known!FetchFails, Known!ReadStatus, Known!CheckSpec, Known!StoreSpec, Known!Leave,
           Known!caches, Known!ghosts
  <1>2. JobOK(caller[t])
    BY DEF KnownInv, ThreadOK
  <1>3. CASE Known!FetchFails(t) \/ Known!Leave(t)
    BY <1>1, <1>3, CallReturns DEF Known!FetchFails, Known!Leave
  <1>4. CASE Known!ReadStatus(t)
    <2>1. PICK public : Known!Got(t, "got", {s \in public : Known!Of(s, m_instruments) = {}})
      BY <1>4 DEF Known!ReadStatus
    <2>2. caller[t].at = "read" /\ caller[t].job = "status"
      BY <1>4 DEF Known!ReadStatus, Known!At, Known!Doing
    <2> QED BY <1>1, <2>1, <2>2, GotStep
  <1>5. CASE Known!CheckSpec(t)
    <2>1. caller[t].at = "check" /\ caller[t].job = "spec"
      BY <1>2, <1>5 DEF Known!CheckSpec, Known!At, JobOK
    <2>2. CASE Known!Got(t, "got", Known!Of(caller[t].symbol, specCache))
      BY <1>1, <2>1, <2>2, GotStep
    <2>3. CASE Known!Go(t, "read")
      BY <1>1, <2>1, <2>3, GoStep
    <2> QED BY <1>5, <2>2, <2>3 DEF Known!CheckSpec
  <1>6. CASE Known!StoreSpec(t)
    <2>1. caller[t].at = "store" /\ caller[t].job = "spec" /\ Known!Go(t, "got")
      BY <1>2, <1>6 DEF Known!StoreSpec, Known!At, JobOK
    <2> QED BY <1>1, <2>1, GoStep
  <1> QED BY <1>3, <1>4, <1>5, <1>6

\* A list is stored: by the gateway's one refresh the whole, or for spot, where nothing is
\* refreshed.
LEMMA StoreStep == ASSUME KnownInv, NEW t \in Threads, Known!Store(t) PROVE KnownInv'
  <1>1. PICK th : th = caller[t]
    OBVIOUS
  <1>2. /\ th.at = "fetched" /\ UNCHANGED <<usage, started, venue, refreshed>> /\ m_instruments' = th.temp
        /\ must' = IF th.temp = {} THEN {} ELSE th.stable
        /\ asked' = IF th.job = "status" /\ th.filter # NoSymbol THEN {th.filter} ELSE Symbols
        /\ Known!Go(t, IF th.job = "refresh" THEN "clear" ELSE "read")
        /\ th.filter = NoSymbol \/ th.job = "status"
    BY <1>1 DEF Known!Store, Known!At, Known!Caches, Known!NewList, Known!Doing, NoSymbol, Symbols
  <1>3. StepsOK(th.base) /\ JobOK(th) /\ FetchOK(th) /\ SharedOK
    BY <1>1 DEF KnownInv, ThreadOK
  <1>4. usage = "gateway" => th.filter = NoSymbol
    BY <1>2, <1>3 DEF JobOK
  <1>5. /\ \A s \in th.stable \cap asked' : Has(s, th.temp)
        /\ EntriesOK(th.temp, th.base)
        /\ usage = "gateway" => th.temp # {}
    <2>1. CASE th.filter = NoSymbol
      BY <1>2, <1>3, <2>1 DEF FetchOK, JobOK, Has
    <2>2. CASE th.filter # NoSymbol
      BY <1>2, <1>3, <1>4, <2>2 DEF FetchOK, Has
    <2> QED BY <2>1, <2>2
  <1>6. (usage = "gateway" => th.job = "refresh") /\ (th.job = "refresh" => usage = "gateway")
    BY <1>2, <1>3, <1>4 DEF FetchOK, JobOK
  <1>7. Cat' = Cat /\ \A c : Known!Listed(c)' = Known!Listed(c)
    BY <1>2 DEF Cat, Known!Listed
  <1>8. EntriesOK(th.temp, refreshed)
    <2> SUFFICES ASSUME NEW e \in th.temp PROVE e.step >= refreshed[e.symbol]
      BY <1>5 DEF EntriesOK
    <2>1. e.symbol \in Symbols /\ e.step \in Nat /\ e.step >= th.base[e.symbol]
      BY <1>5 DEF EntriesOK
    <2>2. th.base[e.symbol] \in Nat /\ refreshed[e.symbol] \in Nat
      BY <1>3, <2>1 DEF StepsOK, SharedOK
    <2>3. CASE usage = "gateway"
      <3>1. th.base[e.symbol] >= refreshed[e.symbol]
        BY <1>3, <1>6, <2>1, <2>3 DEF JobOK
      <3> QED BY <2>1, <2>2, <3>1
    <2>4. CASE usage = "spot"
      BY <1>3, <2>1, <2>4 DEF SharedOK
    <2> QED BY <1>3, <2>3, <2>4 DEF SharedOK
  <1>9. SharedOK'
    <2>1. EntriesOK(m_instruments, refreshed)'
      BY <1>2, <1>7, <1>8 DEF EntriesOK
    <2>2. StepsOK(refreshed)'
      BY <1>2, <1>3, <1>7 DEF StepsOK, SharedOK
    <2> QED BY <1>2, <1>3, <1>4, <1>5, <1>7, <2>1, <2>2 DEF SharedOK
  <1>10. PICK r : /\ caller' = [caller EXCEPT ![t] = r] /\ r.job = th.job
                  /\ r.at = (IF th.job = "refresh" THEN "clear" ELSE "read") /\ r.cat = th.cat
                  /\ r.symbol = th.symbol /\ r.filter = th.filter /\ r.page = th.page /\ r.temp = th.temp
                  /\ r.base = th.base /\ r.stable = th.stable
    <2>0. PICK where : where = IF th.job = "refresh" THEN "clear" ELSE "read"
      OBVIOUS
    <2>1. PICK r : r = Known!Moved(th, where, th.filter, th.page, th.temp, th.got)
      OBVIOUS
    <2>2. caller' = [caller EXCEPT ![t] = r]
      BY <1>1, <1>2, <2>0, <2>1 DEF Known!Go
    <2>3. /\ r.job = th.job /\ r.at = where /\ r.cat = th.cat
          /\ r.symbol = th.symbol /\ r.filter = th.filter /\ r.page = th.page /\ r.temp = th.temp
          /\ r.base = th.base /\ r.stable = th.stable
      BY <2>1, MovedFields
    <2> QED BY <2>0, <2>2, <2>3
  <1>11. DOMAIN caller' = Threads /\ caller'[t] = r /\ \A u \in Threads : u # t => caller'[u] = caller[u]
    BY <1>10 DEF KnownInv
  <1>12. ThreadOK(r)'
    <2>1. r.at = "clear" \/ r.at = "read"
      BY <1>10
    <2>2. StepsOK(r.base)'
      BY <1>2, <1>3, <1>7, <1>10 DEF StepsOK
    <2>3. JobOK(r)'
      BY <1>2, <1>3, <1>7, <1>10, <2>1 DEF JobOK
    <2>4. FetchOK(r)'
      BY <1>2, <1>3, <1>7, <1>10, <2>1 DEF FetchOK, EntriesOK
    <2>5. EndOK(r)'
      BY <1>2, <1>5, <1>6, <1>7, <1>10, <2>1 DEF EndOK, EntriesOK
    <2> QED BY <2>2, <2>3, <2>4, <2>5 DEF ThreadOK
  <1>13. ASSUME NEW u \in Threads, u # t PROVE ThreadOK(caller[u])'
    <2>1. PICK x : x = caller'[u]
      OBVIOUS
    <2>2. ThreadOK(x) /\ x = caller[u]
      BY <1>11, <1>13, <2>1 DEF KnownInv
    <2>3. x.at # "clear"
      <3>1. x.at = "clear" => x.job = "refresh" /\ usage = "gateway"
        BY <2>2 DEF ThreadOK, EndOK, JobOK
      <3> QED BY <1>1, <1>6, <1>13, <2>2, <3>1 DEF KnownInv
    <2>4. ThreadOK(x)'
      BY <1>2, <1>7, <2>2, <2>3 DEF ThreadOK, StepsOK, JobOK, FetchOK, EndOK, EntriesOK
    <2> QED BY <2>1, <2>4
  <1>14. \A u \in Threads : ThreadOK(caller[u])'
    <2>1. PICK x : x = caller'[t] /\ x = r
      BY <1>11
    <2>2. ThreadOK(caller[t])'
      BY <1>12, <2>1
    <2> QED BY <1>13, <2>2
  <1>15. \A u, v \in Threads : caller'[u].job = "refresh" /\ caller'[v].job = "refresh" => u = v
    BY <1>1, <1>10, <1>11 DEF KnownInv
  <1> QED BY <1>9, <1>11, <1>14, <1>15 DEF KnownInv

\* The refresh ends: the list is no older than the refresh, and no one else stored one.
LEMMA ClearSpecsStep == ASSUME KnownInv, NEW t \in Threads, Known!ClearSpecs(t) PROVE KnownInv'
  <1>1. PICK th : th = caller[t]
    OBVIOUS
  <1>2. /\ th.at = "clear" /\ UNCHANGED <<usage, m_instruments, venue, must, asked>> /\ started' = TRUE
        /\ refreshed' = th.base /\ caller' = [caller EXCEPT ![t] = Known!NoThread]
    BY <1>1 DEF Known!ClearSpecs, Known!At, Known!Return
  <1>3. StepsOK(th.base) /\ JobOK(th) /\ EndOK(th) /\ SharedOK
    BY <1>1 DEF KnownInv, ThreadOK
  <1>4. /\ th.job = "refresh" /\ usage = "gateway" /\ m_instruments # {} /\ EntriesOK(m_instruments, th.base)
        /\ \A s \in Symbols : th.base[s] >= refreshed[s]
    BY <1>2, <1>3 DEF EndOK, JobOK
  <1>5. Cat' = Cat /\ \A c : Known!Listed(c)' = Known!Listed(c)
    BY <1>2 DEF Cat, Known!Listed
  <1>6. SharedOK'
    <2>1. EntriesOK(m_instruments, refreshed)' /\ StepsOK(refreshed)'
      BY <1>2, <1>3, <1>4, <1>5 DEF EntriesOK, StepsOK
    <2> QED BY <1>2, <1>3, <1>4, <1>5, <2>1 DEF SharedOK
  <1>7. /\ DOMAIN caller' = Threads /\ caller'[t] = Known!NoThread
        /\ \A u \in Threads : u # t => caller'[u] = caller[u]
    BY <1>2 DEF KnownInv
  <1>8. ASSUME NEW x, ThreadOK(x), x.job # "refresh" PROVE ThreadOK(x)'
    <2>3. x.job \in {"steps", "spec"} => \A s \in Symbols : x.base[s] <= th.base[s]
      <3> SUFFICES ASSUME x.job \in {"steps", "spec"}, NEW s \in Symbols PROVE x.base[s] <= th.base[s]
        OBVIOUS
      <3>1. x.base[s] \in Nat /\ th.base[s] \in Nat /\ refreshed[s] \in Nat
        BY <1>3, <1>8 DEF ThreadOK, StepsOK, SharedOK
      <3>2. x.base[s] <= refreshed[s] /\ th.base[s] >= refreshed[s]
        BY <1>4, <1>8 DEF ThreadOK, JobOK
      <3> QED BY <3>1, <3>2
    <2>4. StepsOK(x.base)' /\ FetchOK(x)' /\ EndOK(x)'
      BY <1>2, <1>5, <1>8 DEF ThreadOK, StepsOK, FetchOK, EndOK, EntriesOK
    <2>5. JobOK(x)'
      BY <1>2, <1>5, <1>8, <2>3 DEF ThreadOK, JobOK
    <2> QED BY <2>4, <2>5 DEF ThreadOK
  <1>9. ASSUME NEW u \in Threads PROVE ThreadOK(caller[u])' /\ caller'[u].job # "refresh"
    <2>1. PICK x : x = caller'[u]
      OBVIOUS
    <2>2. ThreadOK(x) /\ x.job # "refresh"
      BY <1>1, <1>3, <1>4, <1>7, <2>1, IdleOK DEF KnownInv
    <2> QED BY <1>8, <2>1, <2>2
  <1>10. \A u, v \in Threads : caller'[u].job = "refresh" /\ caller'[v].job = "refresh" => u = v
    BY <1>9
  <1> QED BY <1>6, <1>7, <1>9, <1>10 DEF KnownInv

\* The venue lists an instrument or changes its steps: what was known stays true.
LEMMA VenueGrowsStep ==
  ASSUME KnownInv, NEW c \in Known!Categories, NEW s \in Symbols,
         Known!VenueLists(c, s) \/ Known!VenueSteps(c, s),
         UNCHANGED <<usage, m_instruments, started, refreshed, asked>>
  PROVE  KnownInv'
  <1>1. PICK listed \in BOOLEAN, ever \in BOOLEAN, step \in Nat :
          /\ venue' = [venue EXCEPT ![c][s] = [listed |-> listed, ever |-> ever, step |-> step]]
          /\ (venue[c][s].listed = TRUE => listed = TRUE) /\ step >= venue[c][s].step
    <2>1. venue[c][s] \in [listed : BOOLEAN, ever : BOOLEAN, step : Nat]
      BY DEF KnownInv, SharedOK
    <2>2. PICK l0 \in BOOLEAN, e0 \in BOOLEAN, st \in Nat :
            l0 = venue[c][s].listed /\ e0 = venue[c][s].ever /\ st = venue[c][s].step
      BY <2>1
    <2>3. CASE Known!VenueLists(c, s)
      <3>1. venue' = [venue EXCEPT ![c][s] = [listed |-> TRUE, ever |-> TRUE, step |-> st]]
        BY <2>2, <2>3 DEF Known!VenueLists
      <3>2. TRUE \in BOOLEAN /\ st >= venue[c][s].step
        BY <2>2
      <3> QED BY <3>1, <3>2, Zenon
    <2>4. CASE Known!VenueSteps(c, s)
      <3>1. venue' = [venue EXCEPT ![c][s] = [listed |-> l0, ever |-> e0, step |-> st + 1]]
        BY <2>2, <2>4 DEF Known!VenueSteps
      <3>2. st + 1 \in Nat /\ st + 1 >= venue[c][s].step
        BY <2>2
      <3> QED BY <2>2, <3>1, <3>2, Zenon
    <2> QED BY <2>3, <2>4
  <1>2. UNCHANGED <<caller, must>>
    BY DEF Known!VenueLists, Known!VenueSteps
  <1>3. SharedOK /\ Cat \in Known!Categories /\ Cat' = Cat
    BY DEF KnownInv, Cat, Known!Categories
  <1>4. venue' \in [Known!Categories -> [Symbols -> [listed : BOOLEAN, ever : BOOLEAN, step : Nat]]]
    BY <1>1, <1>3 DEF SharedOK
  <1>5. ASSUME NEW x \in Symbols
        PROVE  /\ venue'[Cat][x].step \in Nat /\ venue[Cat][x].step \in Nat
               /\ venue'[Cat][x].step >= venue[Cat][x].step
               /\ venue[Cat][x].listed = TRUE => venue'[Cat][x].listed = TRUE
    <2>1. venue[Cat][x] \in [listed : BOOLEAN, ever : BOOLEAN, step : Nat]
          /\ venue'[Cat][x] \in [listed : BOOLEAN, ever : BOOLEAN, step : Nat]
      BY <1>3, <1>4 DEF SharedOK
    <2>2. CASE Cat = c /\ x = s
      <3>1. venue'[Cat][x] = [listed |-> listed, ever |-> ever, step |-> step]
        BY <1>1, <1>3, <2>2 DEF SharedOK
      <3>2. venue'[Cat][x].listed = listed /\ venue'[Cat][x].step = step
        BY <3>1
      <3> QED BY <1>1, <2>1, <2>2, <3>2
    <2>3. CASE ~(Cat = c /\ x = s)
      <3>1. venue'[Cat][x] = venue[Cat][x]
        BY <1>1, <1>3, <2>3 DEF SharedOK
      <3> QED BY <2>1, <3>1
    <2> QED BY <2>2, <2>3
  <1>6. Known!Listed(Cat) \subseteq Known!Listed(Cat)'
    <2>1. \A x \in Symbols : venue[Cat][x].listed \in BOOLEAN
      BY <1>3 DEF SharedOK
    <2>2. \A x \in Symbols : venue[Cat][x].listed => venue'[Cat][x].listed
      BY <1>5, <2>1, Zenon
    <2> QED BY <1>3, <2>2, Zenon DEF Known!Listed, Symbols
  <1>7. ASSUME NEW base, StepsOK(base) PROVE StepsOK(base)'
    <2> SUFFICES ASSUME NEW x \in Symbols PROVE base[x] \in Nat /\ base[x] <= venue'[Cat][x].step
      BY <1>3 DEF StepsOK
    <2>1. base[x] \in Nat /\ base[x] <= venue[Cat][x].step
      BY <1>7 DEF StepsOK
    <2>2. PICK old \in Nat, new \in Nat : old = venue[Cat][x].step /\ new = venue'[Cat][x].step /\ new >= old
      BY <1>5
    <2>3. base[x] <= new
      BY <2>1, <2>2
    <2> QED BY <2>1, <2>2, <2>3
  <1>8. SharedOK'
    <2>0. PICK base : base = refreshed'
      OBVIOUS
    <2>1. StepsOK(base)'
      BY <1>3, <1>7, <2>0 DEF SharedOK
    <2>2. StepsOK(refreshed)'
      BY <2>0, <2>1
    <2> QED BY <1>2, <1>3, <1>4, <1>6, <2>2 DEF SharedOK, EntriesOK
  <1>9. ASSUME NEW t \in Threads PROVE ThreadOK(caller[t])'
    <2>1. PICK x : x = caller'[t]
      OBVIOUS
    <2>2. ThreadOK(x)
      BY <1>2, <2>1 DEF KnownInv
    <2>3. StepsOK(x.base)'
      <3>0. PICK base : base = x.base
        OBVIOUS
      <3>1. StepsOK(base)'
        BY <1>7, <2>2, <3>0 DEF ThreadOK
      <3> QED BY <3>0, <3>1
    <2>4. FetchOK(x)' /\ EndOK(x)'
      BY <1>2, <1>3, <2>2 DEF ThreadOK, FetchOK, EndOK, EntriesOK
    <2>5. JobOK(x)'
      BY <1>2, <1>3, <1>6, <2>2 DEF ThreadOK, JobOK
    <2> QED BY <2>1, <2>3, <2>4, <2>5 DEF ThreadOK
  <1> QED BY <1>2, <1>8, <1>9 DEF KnownInv

\* The venue closes an instrument: it was not listed all along for anyone any more.
LEMMA VenueClosesStep ==
  ASSUME KnownInv, NEW s \in Symbols, Known!VenueCloses(Cat, s),
         UNCHANGED <<usage, m_instruments, started, refreshed, asked>>
  PROVE  KnownInv'
  <1>1. SharedOK /\ Cat \in Known!Categories /\ Cat' = Cat
    BY DEF KnownInv, Cat, Known!Categories
  <1>2. PICK ever \in BOOLEAN, step \in Nat :
          /\ venue' = [venue EXCEPT ![Cat][s] = [listed |-> FALSE, ever |-> ever, step |-> step]]
          /\ step = venue[Cat][s].step
    <2>1. venue[Cat][s] \in [listed : BOOLEAN, ever : BOOLEAN, step : Nat]
      BY <1>1 DEF SharedOK
    <2>2. PICK e0 \in BOOLEAN, st \in Nat : e0 = venue[Cat][s].ever /\ st = venue[Cat][s].step
      BY <2>1
    <2>3. venue' = [venue EXCEPT ![Cat][s] = [listed |-> FALSE, ever |-> e0, step |-> st]]
      BY <2>2 DEF Known!VenueCloses
    <2> QED BY <2>2, <2>3, Zenon
  <1>3. /\ must' = must \ {s} /\ Known!Listed(Cat) # {s}
        /\ \A t \in Threads : caller[t].stable # {s}
    BY DEF Known!VenueCloses
  <1>4. venue' \in [Known!Categories -> [Symbols -> [listed : BOOLEAN, ever : BOOLEAN, step : Nat]]]
    BY <1>1, <1>2 DEF SharedOK
  <1>5. ASSUME NEW x \in Symbols
        PROVE  venue'[Cat][x].step = venue[Cat][x].step /\ (x # s => venue'[Cat][x] = venue[Cat][x])
    <2>1. CASE x = s
      <3>1. venue'[Cat][x] = [listed |-> FALSE, ever |-> ever, step |-> step]
        BY <1>1, <1>2, <2>1 DEF SharedOK
      <3> QED BY <1>2, <2>1, <3>1
    <2>2. CASE x # s
      BY <1>1, <1>2, <2>2 DEF SharedOK
    <2> QED BY <2>1, <2>2
  <1>6. \A x \in Known!Listed(Cat) : x # s => x \in Known!Listed(Cat)'
    BY <1>1, <1>5, Zenon DEF Known!Listed, Symbols
  <1>7. ASSUME NEW base, StepsOK(base) PROVE StepsOK(base)'
    BY <1>1, <1>5, <1>7 DEF StepsOK
  <1>8. SharedOK'
    <2>0. PICK base : base = refreshed'
      OBVIOUS
    <2>1. StepsOK(base)'
      BY <1>1, <1>7, <2>0 DEF SharedOK
    <2>2. StepsOK(refreshed)'
      BY <2>0, <2>1
    <2>3. Known!Listed(Cat)' # {}
      BY <1>1, <1>3, <1>6 DEF SharedOK
    <2> QED BY <1>1, <1>3, <1>4, <2>2, <2>3 DEF SharedOK, EntriesOK
  <1>9. DOMAIN caller' = Threads
    BY DEF Known!VenueCloses
  <1>10. ASSUME NEW t \in Threads PROVE ThreadOK(caller[t])' /\ caller'[t].job = caller[t].job
    <2>1. PICK x : x = caller'[t]
      OBVIOUS
    <2>2. PICK th : th = caller[t]
      OBVIOUS
    <2>3. x = [job |-> th.job, at |-> th.at, cat |-> th.cat, symbol |-> th.symbol, filter |-> th.filter,
               page |-> th.page, temp |-> th.temp, got |-> th.got, base |-> th.base, stable |-> th.stable \ {s}]
      BY <2>1, <2>2 DEF Known!VenueCloses
    <2>4. /\ x.job = th.job /\ x.at = th.at /\ x.cat = th.cat /\ x.symbol = th.symbol /\ x.filter = th.filter
          /\ x.page = th.page /\ x.temp = th.temp /\ x.got = th.got /\ x.base = th.base
          /\ x.stable = th.stable \ {s}
      BY <2>3
    <2>5. ThreadOK(th) /\ th.stable # {s}
      BY <1>3, <2>2 DEF KnownInv
    <2>6. StepsOK(x.base)'
      <3>0. PICK base : base = x.base
        OBVIOUS
      <3>1. StepsOK(base)'
        BY <1>7, <2>4, <2>5, <3>0 DEF ThreadOK
      <3> QED BY <3>0, <3>1
    <2>7. th.at # "idle" => x.stable \subseteq Known!Listed(Cat)' /\ x.stable # {}
      BY <1>6, <2>4, <2>5 DEF ThreadOK, JobOK
    <2>8. JobOK(x)'
      BY <1>1, <2>4, <2>5, <2>7 DEF ThreadOK, JobOK
    <2>9. FetchOK(x)'
      BY <1>1, <2>4, <2>5 DEF ThreadOK, FetchOK, EntriesOK
    <2>10. EndOK(x)'
      BY <1>1, <2>4, <2>5 DEF ThreadOK, EndOK, EntriesOK
    <2>11. ThreadOK(x)'
      BY <2>6, <2>8, <2>9, <2>10 DEF ThreadOK
    <2> QED BY <2>1, <2>2, <2>4, <2>11
  <1>11. \A t, u \in Threads : caller'[t].job = "refresh" /\ caller'[u].job = "refresh" => t = u
    BY <1>10 DEF KnownInv
  <1> QED BY <1>8, <1>9, <1>10, <1>11 DEF KnownInv

\* Every step preserves the invariant.
LEMMA KnownNextInv == ASSUME OneCategory, KnownInv, [Known!Next]_knownVars PROVE KnownInv'
  <1>1. ASSUME NEW t \in Threads,
               \/ Known!Refresh(t) \/ Known!IsPrimed(t) \/ Known!FetchPage(t) \/ Known!FetchFails(t)
               \/ Known!Store(t) \/ Known!UseFetched(t) \/ Known!ReadList(t) \/ Known!ReadStatus(t)
               \/ Known!CheckSpec(t) \/ Known!StoreSpec(t) \/ Known!ClearSpecs(t) \/ Known!Leave(t)
               \/ \E s \in Symbols : Known!SpecOf(t, s) \/ \E c \in Known!Categories : Known!Steps(t, c, s)
               \/ \E s \in Symbols \cup {NoSymbol} : Known!Status(t, s)
        PROVE  KnownInv'
    BY <1>1, CallsStep, IsPrimedStep, FetchPageStep, OtherSteps, StoreStep, UseFetchedStep,
       ReadListStep, ClearSpecsStep
  <1>2. ASSUME NEW c \in Known!Categories, NEW s \in Symbols, Known!VenueChanges(c, s) PROVE KnownInv'
    <2>1. UNCHANGED <<usage, m_instruments, started, refreshed, asked>> /\ c \in Known!Used
      BY <1>2 DEF Known!VenueChanges, Known!caches
    <2>2. CASE Known!VenueCloses(c, s)
      <3>1. usage = "gateway" \/ usage = "spot"
        BY DEF KnownInv, SharedOK
      <3>2. usage = "gateway" => Known!Used = {"linear"}
        BY Zenon DEF Known!Used
      <3>3. usage = "spot" => Known!Used = {"spot"}
        BY Zenon DEF Known!Used
      <3>4. c = Cat
        BY <2>1, <3>1, <3>2, <3>3 DEF Cat
      <3> QED BY <2>1, <2>2, <3>4, VenueClosesStep
    <2>3. CASE Known!VenueLists(c, s) \/ Known!VenueSteps(c, s)
      BY <2>1, <2>3, VenueGrowsStep
    <2> QED BY <1>2, <2>2, <2>3 DEF Known!VenueChanges
  <1>3. CASE UNCHANGED knownVars
    BY <1>3 DEF knownVars, KnownInv, SharedOK, ThreadOK, StepsOK, JobOK, FetchOK, EndOK, EntriesOK,
       Cat, Known!Listed
  <1> QED BY <1>1, <1>2, <1>3 DEF Known!Next, Symbols, NoSymbol

\* The invariant holds while the instruments are the part that moves: what the cached list,
\* the last refresh and every call under way have to do with each other.
THEOREM InstrumentsInvariant == ASSUME OneCategory PROVE StateSpec => [](part = "instruments" => KnownInv)
  <1>1. StateInit => (part = "instruments" => KnownInv)
    BY KnownInit DEF StateInit
  <1>2. (part = "instruments" => KnownInv) /\ [StateNext]_stateVars => (part = "instruments" => KnownInv)'
    <2> SUFFICES ASSUME part = "instruments" => KnownInv, [StateNext]_stateVars, part' = "instruments"
                 PROVE  KnownInv'
      OBVIOUS
    <2>1. part = "instruments" /\ [Known!Next]_knownVars
      BY DEF StateNext, stateVars
    <2> QED BY <2>1, KnownNextInv
  <1> QED BY <1>1, <1>2, PTL DEF StateSpec

\* For any number of threads and pages, whole and filtered requests mixed as they may be:
\* the cached list is empty or has every symbol that was asked for, was listed when its
\* first page was and still is. For the gateway that is every symbol; for spot it is, too,
\* unless the list is the one a status request with a symbol left.
THEOREM ListIsWhole == ASSUME OneCategory PROVE StateSpec => []AskedIsListed
  <1>1. (part = "instruments" => KnownInv) => AskedIsListed
    BY OfFacts DEF AskedIsListed, Known!AskedIsListed, Known!Whole, KnownInv, SharedOK, Symbols
  <1> QED BY <1>1, InstrumentsInvariant, PTL

\* An order has the steps of its own instrument, as new as the last refresh finished before
\* it, however late the pages of other threads come.
THEOREM StepsAreOwn == ASSUME OneCategory PROVE StateSpec => []OwnSteps
  <1>1. (part = "instruments" => KnownInv) => OwnSteps
    BY DEF OwnSteps, Known!OwnSteps, Known!At, Known!Doing, KnownInv, ThreadOK, EndOK
  <1> QED BY <1>1, InstrumentsInvariant, PTL

\* No order of an instrument that was listed all along is refused.
THEOREM ListedAreFound == ASSUME OneCategory PROVE StateSpec => []ListedIsFound
  <1>1. (part = "instruments" => KnownInv) => ListedIsFound
    BY DEF ListedIsFound, Known!ListedIsFound, Known!At, KnownInv, ThreadOK, EndOK
  <1> QED BY <1>1, InstrumentsInvariant, PTL

============================================================================
