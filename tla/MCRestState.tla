---------------------------- MODULE MCRestState ----------------------------
(***************************************************************************)
(* What the threads of one REST client share: the request throttle, the    *)
(* clock offset of the signed requests and the cached instruments, the     *)
(* gateway's specs among them.  The three have no variable in common and   *)
(* their own locks, so one of them, the part, moves and the others stay as *)
(* they are.                                                               *)
(***************************************************************************)
EXTENDS RateLimiter, TLC

CONSTANTS
  TIME_SYNC_INTERVAL, receiveWindow, Lag, Skews, SyncStart, SyncEnd, MaxJumps, MaxSessions, MaxRequests,
  Pages, Usages, MaxChanges, MaxCalls

VARIABLES
  part,
  session, signer, time, skew, jumps, requests,
  usage, m_instruments, specCache, started, caller, venue, refreshed, must, asked, changes, calls

Sync == INSTANCE TimeSync WITH
  thread <- signer, Start <- SyncStart, MaxClock <- SyncEnd, MaxCalls <- MaxRequests
Known == INSTANCE Instruments WITH thread <- caller

\* The local clock is past its epoch, and the receive window has room for an answer that
\* was under way for Lag ticks and for a request that is.
ASSUME SyncAssumption ==
  /\ IsFiniteSet(Threads) /\ TIME_SYNC_INTERVAL \in Nat \ {0}
  /\ Lag \in Nat /\ receiveWindow \in Nat /\ 2 * Lag <= receiveWindow
  /\ SyncStart \in Nat /\ Skews \subseteq Int /\ \A k \in Skews : SyncStart + k > 0

\* The venue's answer has a page, and no instrument has the name that stands for none.
ASSUME PagesAssumption ==
  /\ Len(Pages) \in Nat \ {0} /\ DOMAIN Pages = 1..Len(Pages) /\ Known!NoSymbol \notin Known!Symbols

limiterVars == vars
syncVars    == <<session, signer, time, skew, jumps, requests>>
knownVars   == <<usage, m_instruments, specCache, started, caller, venue, refreshed, must, asked, changes, calls>>
stateVars   == <<part, limiterVars, syncVars, knownVars>>

SyncParked ==
  /\ session = <<>> /\ signer = [t \in Threads |-> Sync!NoThread]
  /\ time = 0 /\ skew = 0 /\ jumps = 0 /\ requests = 0
KnownParked ==
  /\ usage = "none" /\ m_instruments = {} /\ specCache = {} /\ started = FALSE /\ venue = <<>>
  /\ caller = [t \in Threads |-> Known!NoThread]
  /\ refreshed = <<>> /\ must = {} /\ asked = {} /\ changes = 0 /\ calls = 0

StateInit ==
  /\ Init
  /\ \/ part = "limiter" /\ SyncParked /\ KnownParked
     \/ part = "clock" /\ Sync!Init /\ KnownParked
     \/ part = "instruments" /\ SyncParked /\ Known!Init

StateNext ==
  /\ UNCHANGED part
  /\ \/ part = "limiter" /\ Next /\ UNCHANGED <<syncVars, knownVars>>
     \/ part = "clock" /\ Sync!Next /\ UNCHANGED <<limiterVars, knownVars>>
     \/ part = "instruments" /\ Known!Next /\ UNCHANGED <<limiterVars, syncVars>>

StateSpec == StateInit /\ [][StateNext]_stateVars

\* A spent budget with the reset ahead, and one with requests to spare.
MCHeaders == {[status |-> 1, reset |-> 2], [status |-> 5, reset |-> 1]}
MCSkews == {-3, 2}
MCPages == <<{"a"}, {"b"}>>
ThreadSymmetry == Permutations(Threads)

-----------------------------------------------------------------------------
\* The limiter's properties are those of RateLimiter; these are the others' under a
\* name of their own.

\* A stamp with an offset measured since the clock was last set is accepted.
MeasuredIsAccepted == part = "clock" => Sync!MeasuredIsAccepted

\* No stamp has an offset nobody tried to measure for longer than the interval.
SyncDue == part = "clock" => Sync!SyncDue

\* A failing time endpoint is not hammered, and the request for the venue's time does not
\* ask for the venue's time.
NoSyncStorm == part = "clock" => Sync!NoSyncStorm

\* The cached list of instruments has all that was asked for when it was fetched: for the
\* gateway, and unless a status request of spot named a symbol, all there are.
AskedIsListed == part = "instruments" => Known!AskedIsListed

\* The cached list of instruments is empty or whole.
CacheWhole == part = "instruments" => Known!CacheWhole

\* An order has the steps of its own instrument, as new as the last refresh before it.
OwnSteps == part = "instruments" => Known!OwnSteps

\* An instrument the venue lists is found.
ListedIsFound == part = "instruments" => Known!ListedIsFound

\* A spec is as new as the last refresh finished before it was asked for.
SpecFresh == part = "instruments" => Known!SpecFresh

============================================================================
