--------------------------- MODULE ClosePositions ---------------------------
(***************************************************************************)
(* closeAllPositions() of bybit_rest_client.cpp: the positions are listed  *)
(* once, then each one that is not empty is closed by a market order over  *)
(* the listed size, on the other side, one after the other.  The orders    *)
(* are not reduce-only and always of the linear category, whatever         *)
(* category was listed.  Others trade on the account meanwhile.            *)
(*                                                                         *)
(* A position is a signed size, one per symbol: in hedge mode, where a     *)
(* symbol has two, the orders (positionIdx 0) are rejected, which          *)
(* PlaceFails covers.  The list is modelled in module Listing.             *)
(***************************************************************************)
EXTENDS Integers, FiniteSets

CONSTANTS
  Symbols,
  MaxSize     \* bound: the largest position, long or short

VARIABLES
  category,   \* the category asked for
  held,       \* the venue's positions
  before,     \* ... as they were listed
  touched,    \* the symbols somebody else traded since
  listed,     \* the positions still to go through
  order,      \* the order being placed, NoOrder between two
  working,    \* market orders the venue accepted and has not executed yet
  at

vars == <<category, held, before, touched, listed, order, working, at>>

Sizes == -MaxSize..MaxSize
NoOrder == [symbol |-> "none", qty |-> 0]

Init ==
  /\ category \in {"linear", "inverse"}
  /\ held \in [Symbols -> Sizes]
  /\ before = held /\ touched = {}
  /\ listed = {} /\ order = NoOrder /\ working = {} /\ at = "listing"

\* getPositionInfo(), or its failure, which throws.
List ==
  /\ at = "listing"
  /\ at' = "closing"
  /\ listed' = {[symbol |-> s, size |-> held[s]] : s \in Symbols}
  /\ UNCHANGED <<category, held, before, touched, order, working>>
ListFails ==
  /\ at = "listing" /\ at' = "failed"
  /\ UNCHANGED <<category, held, before, touched, listed, order, working>>

\* The next position; an empty one is skipped.  A long position is sold, a short one
\* bought.
Opposite(size) == -size
zeroSize_Mutant(size) == size <= 0
zeroSize(size) == size = 0
NextPosition(p) ==
  /\ at = "closing" /\ order = NoOrder /\ p \in listed
  /\ listed' = listed \ {p}
  /\ order' = IF zeroSize(p.size) THEN NoOrder
              ELSE [symbol |-> p.symbol, qty |-> Opposite(p.size)]
  /\ UNCHANGED <<category, held, before, touched, working, at>>

\* placeOrder(): the order is accepted and executed some time later.
KnownSymbol == category = "linear"
PlaceOrder ==
  /\ at = "closing" /\ order # NoOrder /\ KnownSymbol
  /\ order' = NoOrder
  /\ working' = working \cup {order}
  /\ UNCHANGED <<category, held, before, touched, listed, at>>

\* It throws: no instrument of that name in the linear category, a reject, or an
\* answer that never came although the order may have been accepted.
PlaceFails ==
  /\ at = "closing" /\ order # NoOrder
  /\ at' = "failed" /\ order' = NoOrder
  /\ \/ KnownSymbol /\ working' = working \cup {order}
     \/ UNCHANGED working
  /\ UNCHANGED <<category, held, before, touched, listed>>

Finish ==
  /\ at = "closing" /\ order = NoOrder /\ listed = {}
  /\ at' = "done"
  /\ UNCHANGED <<category, held, before, touched, listed, order, working>>

\* The venue executes a market order; somebody else's order changes a position.
Execute(o) ==
  /\ o \in working
  /\ working' = working \ {o}
  /\ held' = [held EXCEPT ![o.symbol] = @ + o.qty]
  /\ UNCHANGED <<category, before, touched, listed, order, at>>
OthersTrade(s) ==
  /\ at # "listing" /\ s \notin touched
  /\ \E size \in Sizes \ {held[s]} : held' = [held EXCEPT ![s] = size]
  /\ touched' = touched \cup {s}
  /\ UNCHANGED <<category, before, listed, order, working, at>>

Next ==
  \/ List \/ ListFails \/ PlaceOrder \/ PlaceFails \/ Finish
  \/ \E p \in listed : NextPosition(p)
  \/ \E o \in working : Execute(o)
  \/ \E s \in Symbols : OthersTrade(s)

Spec == Init /\ [][Next]_vars

-----------------------------------------------------------------------------
Untouched(s) == s \notin touched

\* A position nobody else trades is only ever reduced by closeAllPositions(): it is
\* never enlarged nor turned around, also when an order's answer is lost and its outcome
\* unknown; and when the call has returned and its orders are executed, it is closed.
AllClosed ==
  \A s \in Symbols : Untouched(s) =>
    /\ held[s] \in {0, before[s]}
    /\ at = "done" /\ working = {} => held[s] = 0

============================================================================
