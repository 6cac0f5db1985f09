--------------------------- MODULE MCTickerCache ---------------------------
(***************************************************************************)
(* The quote cache in its two setups: fed by the stream alone, by users    *)
(* that also unsubscribe, for a longer time; and with a REST client, read  *)
(* by more threads that never unsubscribe.  The constants of the module    *)
(* are those of the second setup.                                          *)
(***************************************************************************)
EXTENDS TickerCache

CONSTANTS StreamThreads, StreamChanges, StreamWire, StreamClock

VARIABLE setup

Stream == INSTANCE TickerCache WITH
  Threads <- StreamThreads, RestClient <- FALSE, Unsubscribes <- TRUE,
  MaxChanges <- StreamChanges, MaxWire <- StreamWire, MaxClock <- StreamClock

setupVars == <<setup, vars>>

SetupInit ==
  \/ setup = "rest" /\ Init
  \/ setup = "stream" /\ Stream!Init

SetupNext ==
  /\ UNCHANGED setup
  /\ \/ setup = "rest" /\ Next
     \/ setup = "stream" /\ Stream!Next

\* The fairness of TickerCache, for the threads that read with a REST client.
SetupSpec ==
  /\ SetupInit /\ [][SetupNext]_setupVars
  /\ WF_vars(setup = "rest" /\ Tick)
  /\ WF_vars(setup = "rest" /\ Deliver)
  /\ \A t \in Threads : WF_vars(setup = "rest" /\ Proceeds(t))

-----------------------------------------------------------------------------
\* The properties of TickerCache, each for the setup it is about.

\* A quote served from the stream is no older than maxTickAge and the time a message takes.
StreamServedFresh == setup = "stream" => Stream!ServedFresh

\* A quote served with a REST client at hand lacks a side only if the stream said so.
RestServedKnown == [][setup = "rest" => ServesKnown]_vars

\* Fed by the stream alone, the entry never goes back to an earlier price.
StreamNeverRegresses == [][setup = "stream" => KeepsPrices]_vars

\* readEventTicker() ends, with a quote or without, whatever the other threads do. The
\* threads are alike, so one of them stands for all.
Reader == CHOOSE t \in Threads : TRUE
RestReadReturns ==
  (setup = "rest" /\ At(Reader, "polling")) ~> (setup = "rest" /\ (At(Reader, "served") \/ At(Reader, "idle")))

============================================================================
