---------------------------- MODULE MCRestLoops ----------------------------
(***************************************************************************)
(* The loops of the REST client that make one result out of many requests: *)
(* the candle download, the funding download, the listings along a cursor, *)
(* closeAllPositions() and the archive of delisted symbols.  They share no *)
(* state, so one of them, the task, runs and the variables of the others   *)
(* stay as they are.                                                       *)
(***************************************************************************)
EXTENDS CandleHistory

CONSTANTS Spacing, Begin, MaxTime, MAX_PAGES, Items, Symbols, MaxSize,
          maxRetries, Days, Tails

VARIABLES
  task,
  rates, upto, endTime, funding, fundingAt,
  guarded, broken, book, ever, stayed, cursor, pages, got, twice, listingAt,
  category, held, before, touched, positions, order, working, closingAt,
  dir, file, attempt, latest, body, out, result, archiveAt

\* Every end after the begin: a period of a single instant is never asked for.
Funding == INSTANCE FundingHistory WITH Ends <- (Begin + 1)..MaxTime, retVal <- funding, at <- fundingAt
Pages   == INSTANCE Listing WITH at <- listingAt
Closing == INSTANCE ClosePositions WITH listed <- positions, at <- closingAt
Archive == INSTANCE DelistedArchive WITH at <- archiveAt

ASSUME LoopsAssumption == Funding!FundingAssumption /\ IsFiniteSet(Items) /\ Items = 1..Cardinality(Items)

candleVars  == vars
fundingVars == <<rates, upto, endTime, funding, fundingAt>>
listingVars == <<guarded, broken, book, ever, stayed, cursor, pages, got, twice, listingAt>>
closingVars == <<category, held, before, touched, positions, order, working, closingAt>>
archiveVars == <<dir, file, attempt, latest, body, out, result, archiveAt>>
loopVars    == <<task, candleVars, fundingVars, listingVars, closingVars, archiveVars>>

CandlesParked ==
  /\ listed = {} /\ start = 0 /\ from = 0 /\ to = 0 /\ candles = {}
  /\ retVal = <<>> /\ written = <<>> /\ at = "parked"
FundingParked == rates = {} /\ upto = 0 /\ endTime = 0 /\ funding = <<>> /\ fundingAt = "parked"
ListingParked ==
  /\ guarded = FALSE /\ broken = FALSE /\ book = {} /\ ever = {} /\ stayed = {}
  /\ cursor = 0 /\ pages = 0 /\ got = {} /\ twice = FALSE /\ listingAt = "parked"
ClosingParked ==
  /\ category = "linear" /\ held = [s \in Symbols |-> 0] /\ before = held /\ touched = {}
  /\ positions = {} /\ order = Closing!NoOrder /\ working = {} /\ closingAt = "parked"
ArchiveParked ==
  /\ dir = <<>> /\ file = <<>> /\ attempt = 0 /\ latest = 0 /\ out = 0
  /\ body = Archive!NoFile /\ result = 0 /\ archiveAt = "parked"

LoopsInit ==
  /\ task \in {"candles", "funding", "listing", "closing", "archive"}
  /\ IF task = "candles" THEN Init ELSE CandlesParked
  /\ IF task = "funding" THEN Funding!Init ELSE FundingParked
  /\ IF task = "listing" THEN Pages!Init ELSE ListingParked
  /\ IF task = "closing" THEN Closing!Init ELSE ClosingParked
  /\ IF task = "archive" THEN Archive!Init ELSE ArchiveParked

LoopsNext ==
  /\ UNCHANGED task
  /\ \/ task = "candles" /\ Next /\ UNCHANGED <<fundingVars, listingVars, closingVars, archiveVars>>
     \/ task = "funding" /\ Funding!Next /\ UNCHANGED <<candleVars, listingVars, closingVars, archiveVars>>
     \/ task = "listing" /\ Pages!Next /\ UNCHANGED <<candleVars, fundingVars, closingVars, archiveVars>>
     \/ task = "closing" /\ Closing!Next /\ UNCHANGED <<candleVars, fundingVars, listingVars, archiveVars>>
     \/ task = "archive" /\ Archive!Next /\ UNCHANGED <<candleVars, fundingVars, listingVars, closingVars>>

\* Each loop is one thread's, and every request ends.
LoopsSpec ==
  /\ LoopsInit /\ [][LoopsNext]_loopVars
  /\ WF_candleVars(Fetch \/ Probe \/ Take)
  /\ WF_listingVars(Pages!ReadPage)
  /\ WF_archiveVars(Archive!Step)

-----------------------------------------------------------------------------
\* The properties of the candle download are those of CandleHistory; these are the
\* others' under a name of their own.

\* getFundingRates() returns every rate of the period, in the order of time, none twice.
AllRates == task = "funding" => Funding!AllRates

\* A list read along the cursor is whole (getPositionInfo(), getOpenOrders(),
\* getInstrumentsInfo(), getExecutions()), and has nothing twice unless the venue repeated
\* a cursor to a loop that has no guard against it.
NeverPartial == task = "listing" => Pages!NeverPartial

\* closeAllPositions() only ever reduces a position nobody else trades, and leaves none
\* of them open.
AllClosed == task = "closing" => Closing!AllClosed

\* The candle download, every listing and the archive's download end, the unguarded
\* listings as long as the venue's cursors advance, the archive's as long as its files
\* are whole or not files at all.
LoopsEnd ==
  /\ task = "candles" => Terminates
  /\ task = "listing" => Pages!ListingEnds
  /\ task = "archive" => Archive!FetchReturns

============================================================================
