-------------------------- MODULE SubscriptionBook --------------------------
(***************************************************************************)
(* What a session promises about the topics asked of it, whatever happens  *)
(* to its connection (the contract of bybit_ws_session.h): a topic is      *)
(* requested, sent, confirmed by the venue on the connection that carried  *)
(* the request, and goes back to being requested when that connection is   *)
(* lost.  It disappears only if the user withdraws it or the venue rejects *)
(* it.                                                                     *)
(***************************************************************************)
CONSTANT Topics

VARIABLES
  up,      \* the connection is usable: connected, and authenticated if need be
  phase    \* per topic

Phases == {"absent", "pending", "sent", "confirmed"}

\* The topics of S move to phase p.
Move(S, p) == phase' = [t \in Topics |-> IF t \in S THEN p ELSE phase[t]]
In(P) == {t \in Topics : phase[t] \in P}

BookInit == up = FALSE /\ phase = [t \in Topics |-> "absent"]

Request(t)  == phase[t] = "absent" /\ Move({t}, "pending") /\ UNCHANGED up
Withdraw(t) == Move({t}, "absent") /\ UNCHANGED up
GoUp        == ~up /\ up' = TRUE /\ UNCHANGED phase
\* Everything that waits is sent, possibly in the step that brings the link up.
SendAll     == up' = TRUE /\ Move(In({"pending"}), "sent")
Ack(S)      == up /\ S \subseteq In({"sent"}) /\ Move(S, "confirmed") /\ UNCHANGED up
Reject(S)   == up /\ S \subseteq In({"sent"}) /\ Move(S, "absent") /\ UNCHANGED up
Lose        == up' = FALSE /\ Move(In({"sent", "confirmed"}), "pending")

\* The steps in which no topic is withdrawn, and all of them when the user may
\* withdraw the topics of W.
KeepNext ==
  \/ \E t \in Topics : Request(t)
  \/ GoUp \/ SendAll \/ Lose
  \/ \E S \in SUBSET Topics : Ack(S) \/ Reject(S)
BookNext(W) == KeepNext \/ \E t \in W : Withdraw(t)

\* The specification is BookInit /\ [][BookNext(W)]_<<up, phase>>.

=============================================================================
