----------------------------- MODULE MCGateway -----------------------------
(***************************************************************************)
(* The execution gateway: the calls of the legs over REST, and the events  *)
(* of the private stream on the io thread.  They meet only in the core, so *)
(* one of them, the part, moves and the other stays as it is.              *)
(***************************************************************************)
EXTENDS OrderGateway

CONSTANTS Linked, Unlinked, EventQty, MaxBatch, MaxWire, MaxOdd, MaxLosses

VARIABLES part, eventOrder, wire, told, fills, garbled, odd, losses

Events == INSTANCE OrderEvents WITH order <- eventOrder, MaxQty <- EventQty

eventVars == <<eventOrder, wire, told, fills, garbled, odd, losses>>

EventsParked ==
  /\ eventOrder = <<>> /\ wire = <<>> /\ told = <<>> /\ fills = <<>>
  /\ garbled = {} /\ odd = 0 /\ losses = 0

\* The legs' part stays in an initial state while the events move.
PartsInit ==
  /\ Init
  /\ \/ part = "calls" /\ EventsParked
     \/ part = "events" /\ Events!Init

PartsNext ==
  /\ UNCHANGED part
  /\ \/ part = "calls" /\ Next /\ UNCHANGED eventVars
     \/ part = "events" /\ Events!Next /\ UNCHANGED vars

PartsSpec == PartsInit /\ [][PartsNext]_<<part, vars, eventVars>>

-----------------------------------------------------------------------------
\* The properties of the calls are those of OrderGateway; these are the events' under a
\* name of their own.

\* An order told as over is over, and a benign post-only cross is told as what it is.
EndedIsEnded == part = "events" => Events!EndedIsEnded

\* Every fill told is a trade of an order of ours, and as long as the connection holds
\* every trade that can be parsed is told.
NoFillDropped == part = "events" => Events!NoFillDropped

============================================================================
