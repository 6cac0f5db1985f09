---------------------------- MODULE MCWsSession ----------------------------
(***************************************************************************)
(* The session in its two setups: the lifecycle, with a user who may close *)
(* it, a backoff that grows twice and fair scheduling; and the books, with *)
(* one call more and nobody who closes.  The constants of the module are   *)
(* those of the first setup.                                               *)
(***************************************************************************)
EXTENDS WsSession

CONSTANTS BooksCalls, BooksDelay

VARIABLE setup

Books == INSTANCE WsSession WITH
  Closable <- FALSE, MaxCalls <- BooksCalls, RECONNECT_DELAY_MAX <- BooksDelay

setupVars == <<setup, vars>>

SetupInit == setup \in {"lifecycle", "books"} /\ Init

SetupNext ==
  /\ UNCHANGED setup
  /\ \/ setup = "lifecycle" /\ Next
     \/ setup = "books" /\ Books!Next

(***************************************************************************)
(* Fairness, of the lifecycle: the io thread keeps running the strand's    *)
(* handlers, whatever their kind; lookups, connects and handshakes end     *)
(* (the code gives them 30 s); a live connection carries bytes both ways;  *)
(* operations on a closed socket are aborted; timers fire.  Nothing makes  *)
(* an operation on a dead peer fail: only the heartbeat notices.           *)
(***************************************************************************)
Fair(A) == setup = "lifecycle" /\ A
SetupSpec ==
  /\ SetupInit /\ [][SetupNext]_setupVars
  /\ WF_vars(Fair(RunJob))
  /\ \A k \in DialKinds \cup {"read", "write", "close", "ping", "reconnect"} :
       WF_vars(Fair(\E o \in ops : o.kind = k /\ Handle(o)))
  /\ WF_vars(Fair(\E o \in ops : DialSucceeds(o) \/ DialFails(o)))
  /\ WF_vars(Fair(\E o \in ops : ReadArrives(o)))
  /\ WF_vars(Fair(\E o \in ops : WriteSent(o)))
  /\ WF_vars(Fair(\E o \in ops : sock # "dead" /\ StreamFails(o)))
  /\ WF_vars(Fair(\E o \in ops : PingFires(o)))
  /\ WF_vars(Fair(\E o \in ops : ReconnectFires(o)))

-----------------------------------------------------------------------------
\* The safety properties are those of WsSession, in both setups; these are its liveness
\* properties, which need the fairness of the lifecycle.

\* Once the network behaves, a session that was started ends up connected with every
\* topic confirmed, for good, unless the user closed it.
LifecycleSettles == setup = "lifecycle" => EventuallySettles

\* A peer that vanishes without an error is noticed by the missing pong or auth ack.
SilentPeerNoticed == setup = "lifecycle" => SilentPeerDetected

============================================================================
