-------------------------- MODULE RestLoopsProofs --------------------------
(* Machine-checked facts about the loops of MCRestLoops, for every value of the constants. *)
EXTENDS MCRestLoops, TLAPS, FiniteSetTheorems, WellFoundedInduction

-----------------------------------------------------------------------------
(* closeAllPositions() *)

\* A position as it was listed, and the order that closes it.
Position(s) == [symbol |-> s, size |-> before[s]]
Closer(s)   == [symbol |-> s, qty |-> -before[s]]
Holding     == {s \in Symbols : before[s] # 0}

\* The types; every order closes a position as it was listed.
ClosingType ==
  /\ held \in [Symbols -> Int] /\ before \in [Symbols -> Int]
  /\ closingAt \in {"listing", "closing", "failed", "done"}
  /\ positions \subseteq {Position(s) : s \in Symbols}
  /\ order \in {Closing!NoOrder} \cup {Closer(s) : s \in Holding}
  /\ working \subseteq {Closer(s) : s \in Holding}

\* Before the list is read nothing has happened; after the last position nothing is left.
ClosingPhase ==
  /\ closingAt = "listing" => held = before /\ order = Closing!NoOrder /\ working = {}
  /\ closingAt = "done" => order = Closing!NoOrder /\ positions = {}

\* A position is listed, its order placed, the order executed: one after the other.
OneOrderEach ==
  \A s \in Holding :
    /\ Position(s) \in positions => order # Closer(s) /\ Closer(s) \notin working
    /\ order = Closer(s) => Closer(s) \notin working

\* Until its order is executed a position nobody else trades is as it was listed; what is
\* neither listed any more nor about to be closed is closed.
Reduced ==
  \A s \in Symbols : s \notin touched =>
    /\ held[s] \in {0, before[s]}
    /\ Position(s) \in positions \/ order = Closer(s) \/ Closer(s) \in working => held[s] = before[s]
    /\ closingAt \in {"closing", "done"} =>
         Position(s) \in positions \/ order = Closer(s) \/ Closer(s) \in working \/ held[s] = 0

ClosingInv == ClosingType /\ ClosingPhase /\ OneOrderEach /\ Reduced

\* What is known at the start.
LEMMA ClosingInit == Closing!Init => ClosingInv
  <1> SUFFICES ASSUME Closing!Init PROVE ClosingInv  OBVIOUS
  <1>1. held \in [Symbols -> Int] /\ before = held
    BY DEF Closing!Init, Closing!Sizes
  <1> QED BY <1>1 DEF Closing!Init, Closing!NoOrder, ClosingInv, ClosingType, ClosingPhase,
             OneOrderEach, Reduced, Position, Closer, Holding

\* The order in hand is placed, or perhaps it is not and the call is over.
LEMMA PlacedOrder ==
  ASSUME ClosingInv, closingAt = "closing", order # Closing!NoOrder, order' = Closing!NoOrder,
         \/ working' = working \cup {order} /\ closingAt' \in {"closing", "failed"}
         \/ working' = working /\ closingAt' = "failed",
         UNCHANGED <<held, before, touched, positions>>
  PROVE  ClosingInv'
  <1>1. PICK o \in Holding : order = Closer(o)
    BY DEF ClosingInv, ClosingType
  <1>2. Holding' = Holding /\ \A s : Position(s)' = Position(s) /\ Closer(s)' = Closer(s)
    BY DEF Position, Closer, Holding
  <1>3. \A s \in Holding : order' # Closer(s)
    BY DEF ClosingInv, ClosingType, Holding, Closer, Closing!NoOrder
  <1>4. ClosingType' /\ ClosingPhase'
    BY <1>1, <1>2 DEF ClosingInv, ClosingType, ClosingPhase
  <1>5. OneOrderEach'
    BY <1>1, <1>2, <1>3 DEF ClosingInv, OneOrderEach
  <1>6. Reduced'
    <2> SUFFICES ASSUME NEW s \in Symbols, s \notin touched
                 PROVE  /\ held[s] \in {0, before[s]}
                        /\ Position(s) \in positions \/ order' = Closer(s) \/ Closer(s) \in working'
                             => held[s] = before[s]
                        /\ closingAt' \in {"closing", "done"} =>
                             Position(s) \in positions \/ order' = Closer(s) \/ Closer(s) \in working'
                               \/ held[s] = 0
      BY <1>2 DEF Reduced
    <2>1. CASE s \in Holding
      BY <1>3, <2>1 DEF ClosingInv, Reduced
    <2>2. CASE s \notin Holding
      BY <2>2 DEF ClosingInv, Reduced, Holding
    <2> QED BY <2>1, <2>2
  <1> QED BY <1>4, <1>5, <1>6 DEF ClosingInv

\* Every step keeps it.
LEMMA ClosingNext == ASSUME ClosingInv, Closing!Next PROVE ClosingInv'
  <1> USE DEF ClosingInv, ClosingType, ClosingPhase
  <1>1. CASE Closing!List
    <2>1. /\ held = before /\ order = Closing!NoOrder /\ working = {} /\ closingAt' = "closing"
          /\ positions' = {Position(s) : s \in Symbols}
          /\ UNCHANGED <<held, before, touched, order, working>>
      BY <1>1 DEF Closing!List, Position
    <2>2. \A s \in Symbols : Position(s) \in positions'
      BY <2>1
    <2>3. \A s \in Symbols : Position(s)' = Position(s) /\ Closer(s)' = Closer(s) /\ Holding' = Holding
      BY <2>1 DEF Position, Closer, Holding
    <2>4. \A s \in Holding : order # Closer(s)
      BY <2>1 DEF Holding, Closer, Closing!NoOrder
    <2>5. OneOrderEach' /\ Reduced'
      BY <2>1, <2>2, <2>3, <2>4 DEF OneOrderEach, Reduced, Holding
    <2> QED BY <2>1, <2>3, <2>5
  <1>2. CASE Closing!ListFails
    BY <1>2 DEF Closing!ListFails, OneOrderEach, Reduced, Position, Closer, Holding
  <1>3. CASE Closing!PlaceOrder
    <2>1. /\ closingAt = "closing" /\ order # Closing!NoOrder /\ order' = Closing!NoOrder
          /\ working' = working \cup {order} /\ UNCHANGED <<held, before, touched, positions, closingAt>>
      BY <1>3 DEF Closing!PlaceOrder
    <2> QED BY <2>1, PlacedOrder
  <1>4. CASE Closing!PlaceFails
    <2>1. /\ closingAt = "closing" /\ order # Closing!NoOrder /\ order' = Closing!NoOrder
          /\ working' = working \cup {order} \/ working' = working
          /\ closingAt' = "failed" /\ UNCHANGED <<held, before, touched, positions>>
      BY <1>4 DEF Closing!PlaceFails
    <2> QED BY <2>1, PlacedOrder
  <1>5. CASE Closing!Finish
    BY <1>5 DEF Closing!Finish, OneOrderEach, Reduced, Position, Closer, Holding
  <1>6. ASSUME NEW p \in positions, Closing!NextPosition(p) PROVE ClosingInv'
    BY <1>6 DEF Closing!NextPosition, Closing!zeroSize, Closing!Opposite, Closing!NoOrder,
       OneOrderEach, Reduced, Position, Closer, Holding
  <1>7. ASSUME NEW o \in working, Closing!Execute(o) PROVE ClosingInv'
    BY <1>7 DEF Closing!Execute, OneOrderEach, Reduced, Position, Closer, Holding
  <1>8. ASSUME NEW s \in Symbols, Closing!OthersTrade(s) PROVE ClosingInv'
    BY <1>8 DEF Closing!OthersTrade, Closing!Sizes, OneOrderEach, Reduced, Position, Closer, Holding
  <1> QED BY <1>1, <1>2, <1>3, <1>4, <1>5, <1>6, <1>7, <1>8 DEF Closing!Next

\* closeAllPositions() under whatever the venue and the other traders do.
LEMMA ClosingIsKept ==
  ASSUME task = "closing" => ClosingInv, [LoopsNext]_loopVars PROVE (task = "closing" => ClosingInv)'
  <1> SUFFICES ASSUME task' = "closing" PROVE ClosingInv'  OBVIOUS
  <1>1. task = "closing" /\ ClosingInv
    BY DEF LoopsNext, loopVars
  <1>2. CASE Closing!Next
    BY <1>1, <1>2, ClosingNext
  <1>3. CASE UNCHANGED closingVars
    BY <1>1, <1>3 DEF closingVars, ClosingInv, ClosingType, ClosingPhase, OneOrderEach, Reduced,
       Position, Closer, Holding
  <1> QED BY <1>1, <1>2, <1>3 DEF LoopsNext, loopVars

\* For any number of positions of any size: closeAllPositions() only ever reduces a
\* position nobody else trades, and leaves none of them open.
THEOREM PositionsAreClosed == LoopsSpec => []AllClosed
  <1>1. LoopsInit => (task = "closing" => ClosingInv)
    BY ClosingInit DEF LoopsInit
  <1>2. (task = "closing" => ClosingInv) /\ [LoopsNext]_loopVars => (task = "closing" => ClosingInv)'
    BY ClosingIsKept
  <1>3. ClosingInv => Closing!AllClosed
    <2> SUFFICES ASSUME ClosingInv, NEW s \in Symbols, s \notin touched
                 PROVE  held[s] \in {0, before[s]} /\ (closingAt = "done" /\ working = {} => held[s] = 0)
      BY DEF Closing!AllClosed, Closing!Untouched
    <2>1. closingAt = "done" => order = Closing!NoOrder /\ positions = {}
      BY DEF ClosingInv, ClosingPhase
    <2>2. order = Closing!NoOrder /\ order = Closer(s) => before[s] = 0
      BY DEF Closer, Closing!NoOrder, ClosingInv, ClosingType
    <2> QED BY <2>1, <2>2 DEF ClosingInv, Reduced
  <1>4. (task = "closing" => ClosingInv) => AllClosed
    BY <1>3 DEF AllClosed
  <1> QED BY <1>1, <1>2, <1>4, PTL DEF LoopsSpec

-----------------------------------------------------------------------------
(* The lists read along a cursor *)

\* A set of numbers has a least one.
LEMMA LeastNumber ==
  ASSUME NEW S \in SUBSET Nat, S # {} PROVE \E i \in S : \A j \in S : i <= j
  <1> DEFINE less == OpToRel(<, Nat)
  <1>1. \E i \in S : \A j \in S : ~(<<j, i>> \in less)
    BY NatLessThanWellFounded, WFMin, Zenon
  <1>2. PICK i \in S : \A j \in S : ~(<<j, i>> \in less)
    BY <1>1
  <1>3. \A j \in S : ~(j < i)
    BY <1>2 DEF OpToRel
  <1> QED BY <1>3

\* A set of numbers that is bounded has a greatest one, and Max is it.
LEMMA GreatestNumber ==
  ASSUME NEW n \in Nat, NEW S \in SUBSET (0..n), S # {}
  PROVE  Max(S) \in S /\ \A j \in S : j <= Max(S)
  <1>1. {n - i : i \in S} \in SUBSET Nat /\ {n - i : i \in S} # {}
    <2>1. PICK i : i \in S
      OBVIOUS
    <2>2. n - i \in {n - j : j \in S}
      BY <2>1
    <2>3. \A j \in S : n - j \in Nat
      OBVIOUS
    <2> QED BY <2>2, <2>3
  <1>2. PICK x \in {n - i : i \in S} : \A y \in {n - i : i \in S} : x <= y
    BY <1>1, LeastNumber
  <1>3. PICK i \in S : x = n - i
    OBVIOUS
  <1>4. \A j \in S : n - i <= n - j
    BY <1>2, <1>3
  <1>5. \A j \in S : i >= j
    BY <1>4
  <1> QED BY <1>5 DEF Max

\* The items there are.
LEMMA ItemsAreNumbers == Cardinality(Items) \in Nat /\ Items = 1..Cardinality(Items)
  BY LoopsAssumption, FS_CardinalityType

\* The listing's operators on sets are those of the standard modules.
LEMMA SameOperators == \A S : Pages!Cardinality(S) = Cardinality(S) /\ Pages!Max(S) = Max(S)
  BY Zenon DEF Pages!Cardinality, Cardinality, Pages!Max, Max, Pages!IsFiniteSet, IsFiniteSet

\* A page: empty only at the end, otherwise everything from the cursor to its last item.
LEMMA PageOf ==
  ASSUME NEW c \in Nat, book \subseteq Items
  PROVE  /\ Pages!Answer(c) \subseteq Pages!Behind(c) /\ Pages!Behind(c) \subseteq Items
         /\ Pages!Answer(c) = {} => Pages!Behind(c) = {}
         /\ Pages!Answer(c) # {} => /\ Max(Pages!Answer(c)) \in Pages!Answer(c)
                                    /\ \A i \in Pages!Answer(c) : i <= Max(Pages!Answer(c))
         /\ \A i \in Pages!Behind(c), m \in Pages!Answer(c) : i <= m => i \in Pages!Answer(c)
  <1> DEFINE page == Pages!Answer(c)
             behind == Pages!Behind(c)
             below(i) == {j \in behind : j < i}
  <1>1. /\ \A i : i \in page <=> i \in behind /\ Cardinality(below(i)) < limit
        /\ \A i : i \in behind <=> i \in book /\ i > c
    BY SameOperators, Zenon DEF Pages!Answer, Pages!Behind
  <1>2. behind \subseteq Items /\ Items \subseteq Nat
    BY <1>1, ItemsAreNumbers
  <1>3. \A i \in behind : IsFiniteSet(below(i)) /\ Cardinality(below(i)) \in Nat
    BY <1>2, LoopsAssumption, FS_Subset, FS_CardinalityType
  <1> HIDE DEF page, behind
  <1>4. ASSUME page = {}, behind # {} PROVE FALSE
    <2>1. PICK i \in behind : \A j \in behind : i <= j
      BY <1>2, <1>4, LeastNumber
    <2>2. \A j \in behind : ~(j < i)
      BY <1>2, <2>1
    <2>20. below(i) = {}
      BY <2>2, Zenon
    <2>3. Cardinality(below(i)) = 0
      BY <2>20, FS_EmptySet
    <2>4. i \in page
      BY <1>1, <2>1, <2>3, HistoryAssumption
    <2> QED BY <1>4, <2>4
  <1>5. ASSUME page # {} PROVE Max(page) \in page /\ \A i \in page : i <= Max(page)
    <2>0. page \in SUBSET (1..Cardinality(Items)) /\ Cardinality(Items) \in Nat
      BY <1>1, <1>2, ItemsAreNumbers
    <2>1. page \in SUBSET (0..Cardinality(Items))
      BY <2>0
    <2> QED BY <1>5, <2>1, ItemsAreNumbers, GreatestNumber
  <1>6. ASSUME NEW i \in behind, NEW m \in page, i <= m PROVE i \in page
    <2>1. m \in behind /\ \A j \in behind : j < i => j < m
      <3>1. m \in behind
        BY <1>1, Zenon
      <3>2. \A j \in behind : j \in Nat
        BY <1>2
      <3> QED BY <1>6, <3>1, <3>2
    <2>10. below(i) \in SUBSET below(m)
      BY <2>1, Zenon
    <2>2. Cardinality(below(i)) <= Cardinality(below(m))
      BY <1>3, <2>1, <2>10, FS_Subset
    <2>3. Cardinality(below(i)) \in Nat /\ Cardinality(below(m)) \in Nat /\ Cardinality(below(m)) < limit
      BY <1>1, <1>3, <2>1, Zenon
    <2>4. Cardinality(below(i)) < limit
      BY <2>2, <2>3, HistoryAssumption
    <2> QED BY <1>1, <2>4, Zenon
  <1>7. page \subseteq behind
    BY <1>1
  <1> QED BY <1>2, <1>4, <1>5, <1>6, <1>7 DEF page, behind

\* The venue may repeat a cursor to a loop that does not mind.
Careless == broken = TRUE /\ guarded = FALSE

\* The cursor the venue answers with: the end, the last item of the page, or the old one.
LEMMA CursorOf ==
  ASSUME NEW c, NEW page, NEW next \in Pages!NextCursors(c, page)
  PROVE  \/ next = 0 /\ (page = {} \/ page = Pages!Behind(c))
         \/ next = Max(page) /\ page # {}
         \/ next = c /\ c # 0 /\ broken
  <1> DEFINE own == CASE page = {} -> {0}
                      [] page # {} /\ page = Pages!Behind(c) -> {0, Pages!Max(page)}
                      [] OTHER -> {Pages!Max(page)}
  <1>1. next \in own \/ (next = c /\ c # 0 /\ broken)
    BY DEF Pages!NextCursors
  <1>2. CASE page = {}
    <2>1. own = {0}
      BY <1>2, Zenon
    <2> QED BY <1>1, <1>2, <2>1
  <1>3. CASE page # {} /\ page = Pages!Behind(c)
    <2>1. own = {0, Max(page)}
      BY <1>3, SameOperators, Zenon
    <2> QED BY <1>1, <1>3, <2>1
  <1>4. CASE page # {} /\ page # Pages!Behind(c)
    <2>1. own = {Max(page)}
      BY <1>4, SameOperators, Zenon
    <2> QED BY <1>1, <1>4, <2>1
  <1> QED BY <1>2, <1>3, <1>4

\* What was there from the first page on and is not behind the cursor was read, and what
\* was read is not behind it; at the end everything was read.
ListingInv ==
  /\ guarded \in BOOLEAN /\ broken \in BOOLEAN /\ cursor \in Nat
  /\ book \subseteq Items /\ stayed \subseteq book /\ got \subseteq Items
  /\ listingAt = "page" => \A i \in stayed : i <= cursor => i \in got
  /\ listingAt = "page" /\ ~Careless => \A i \in got : i <= cursor
  /\ listingAt = "done" => stayed \subseteq got
  /\ twice \in BOOLEAN /\ (twice = TRUE => Careless)

\* What is known at the start.
LEMMA ListingInit == Pages!Init => ListingInv
  <1> SUFFICES ASSUME Pages!Init PROVE ListingInv  OBVIOUS
  <1>1. /\ guarded \in BOOLEAN /\ broken \in BOOLEAN /\ book \subseteq Items /\ stayed = book
        /\ cursor = 0 /\ got = {} /\ twice = FALSE /\ listingAt = "page"
    BY DEF Pages!Init
  <1>2. \A i \in Items : ~(i <= 0)
    BY ItemsAreNumbers
  <1>3. \A i \in stayed : i <= cursor => i \in got
    BY <1>1, <1>2
  <1> QED BY <1>1, <1>3 DEF ListingInv

\* One more page.
LEMMA ReadPageStep == ASSUME ListingInv, Pages!ReadPage PROVE ListingInv'
  <1> DEFINE page == Pages!Answer(cursor)
             behind == Pages!Behind(cursor)
  <1>1. /\ listingAt = "page" /\ UNCHANGED <<guarded, broken, book, ever, stayed>>
        /\ got' = got \cup page /\ twice' = (twice \/ page \cap got # {})
    BY DEF Pages!ReadPage, Pages!setup, Pages!venue
  <1>2. PICK next \in Pages!NextCursors(cursor, page) : cursor' = next /\ listingAt' = Pages!AfterPage(next)
    BY DEF Pages!ReadPage
  <1>3. /\ page \subseteq behind /\ behind \subseteq Items
        /\ page = {} => behind = {}
        /\ page # {} => Max(page) \in page /\ \A i \in page : i <= Max(page)
        /\ \A i \in behind, m \in page : i <= m => i \in page
    BY PageOf DEF ListingInv
  <1>4. Items \subseteq Nat /\ 0 \notin Items
    BY ItemsAreNumbers
  <1>5. \A i \in behind : i > cursor
    BY DEF Pages!Behind
  <1>6. \A i \in stayed : i > cursor => i \in behind
    BY DEF Pages!Behind, ListingInv
  <1>7. \/ next = 0 /\ (page = {} \/ page = behind)
        \/ next = Max(page) /\ page # {}
        \/ next = cursor /\ cursor # 0 /\ broken
    BY CursorOf
  <1>8. /\ listingAt' = "done" => next = 0
        /\ listingAt' = "page" => next # 0 /\ ~(guarded /\ next = cursor)
    BY <1>2 DEF Pages!AfterPage, Pages!CursorRepeated
  <1> HIDE DEF page, behind
  <1>9. next \in Nat
    <2>1. page # {} => Max(page) \in Nat
      BY <1>3, <1>4, Zenon
    <2> QED BY <1>7, <2>1 DEF ListingInv
  <1>10. ASSUME listingAt' = "done" PROVE stayed \subseteq got'
    <2>1. page = behind
      BY <1>3, <1>4, <1>7, <1>8, <1>10
    <2> QED BY <1>1, <1>4, <1>6, <2>1 DEF ListingInv
  <1>11. ASSUME listingAt' = "page", NEW i \in stayed, i <= next PROVE i \in got'
    BY <1>1, <1>3, <1>4, <1>6, <1>7, <1>8, <1>9, <1>11 DEF ListingInv
  <1>12. ASSUME listingAt' = "page", ~Careless, NEW i \in got' PROVE i <= next
    <2>1. next = Max(page) /\ page # {}
      BY <1>7, <1>8, <1>12 DEF Careless, ListingInv
    <2>2. i \in got => i <= cursor
      BY <1>1, <1>12 DEF ListingInv
    <2> QED BY <1>1, <1>3, <1>4, <1>5, <1>9, <2>1, <2>2 DEF ListingInv
  <1>13. ASSUME ~Careless PROVE page \cap got = {}
    BY <1>1, <1>3, <1>4, <1>5, <1>13 DEF ListingInv
  <1>14. twice' \in BOOLEAN /\ (twice' = TRUE => Careless)
    <2>1. twice' \in BOOLEAN
      BY <1>1 DEF ListingInv
    <2>2. ASSUME ~Careless PROVE twice' = FALSE
      <3>1. twice = FALSE /\ ~(page \cap got # {})
        BY <1>13, <2>2 DEF ListingInv
      <3> QED BY <1>1, <3>1, Zenon
    <2> QED BY <2>1, <2>2
  <1>15. got' \subseteq Items
    BY <1>1, <1>3 DEF ListingInv
  <1>16. Careless' <=> Careless
    BY <1>1 DEF Careless
  <1> QED BY <1>1, <1>2, <1>9, <1>10, <1>11, <1>12, <1>14, <1>15, <1>16 DEF ListingInv

\* Every step keeps it.
LEMMA ListingNext == ASSUME ListingInv, Pages!Next PROVE ListingInv'
  <1>1. CASE Pages!ReadPage
    BY <1>1, ReadPageStep
  <1>2. CASE Pages!PageFails
    BY <1>2 DEF Pages!PageFails, Pages!AfterFailure, Pages!setup, Pages!venue, ListingInv, Careless
  <1>3. ASSUME NEW i \in Items, Pages!Opens(i) PROVE ListingInv'
    BY <1>3 DEF Pages!Opens, Pages!setup, ListingInv, Careless
  <1>4. ASSUME NEW i \in Items, Pages!Closes(i) PROVE ListingInv'
    BY <1>4 DEF Pages!Closes, Pages!setup, ListingInv, Careless
  <1> QED BY <1>1, <1>2, <1>3, <1>4 DEF Pages!Next

\* For any number of items, pages and changes: a list that is returned has every item
\* that was there all the time, and none twice but for a loop without a guard.
THEOREM ListsAreWhole == LoopsSpec => []NeverPartial
  <1>1. LoopsInit => (task = "listing" => ListingInv)
    BY ListingInit DEF LoopsInit
  <1>2. (task = "listing" => ListingInv) /\ [LoopsNext]_loopVars => (task = "listing" => ListingInv)'
    <2> SUFFICES ASSUME task = "listing" => ListingInv, [LoopsNext]_loopVars, task' = "listing"
                 PROVE  ListingInv'
      OBVIOUS
    <2>1. task = "listing" /\ ListingInv
      BY DEF LoopsNext, loopVars
    <2>2. CASE Pages!Next
      BY <2>1, <2>2, ListingNext
    <2>3. CASE UNCHANGED listingVars
      BY <2>1, <2>3 DEF listingVars, ListingInv, Careless
    <2> QED BY <2>1, <2>2, <2>3 DEF LoopsNext, loopVars
  <1>3. (task = "listing" => ListingInv) => NeverPartial
    <2> SUFFICES ASSUME ListingInv, listingAt = "done" PROVE stayed \subseteq got /\ (twice => broken /\ ~guarded)
      BY DEF NeverPartial, Pages!NeverPartial
    <2>1. stayed \subseteq got
      BY DEF ListingInv
    <2>2. twice => broken /\ ~guarded
      BY Zenon DEF ListingInv, Careless
    <2> QED BY <2>1, <2>2
  <1> QED BY <1>1, <1>2, <1>3, PTL DEF LoopsSpec

-----------------------------------------------------------------------------
(* Sorted sequences *)

\* A sequence that goes up, and one with exactly the elements of a set.
Increasing(s) == \A i, j \in 1..Len(s) : i < j => s[i] < s[j]
Onto(s, S) == \A x : x \in S <=> \E i \in 1..Len(s) : s[i] = x

\* The rank is a number below the cardinality, and it grows with the element.
LEMMA RankGrows ==
  ASSUME NEW S \in SUBSET Int, IsFiniteSet(S)
  PROVE  /\ Cardinality(S) \in Nat
         /\ \A x \in S : Rank(S, x) \in 0..(Cardinality(S) - 1)
         /\ \A x, y \in S : x < y <=> Rank(S, x) < Rank(S, y)
  <1> DEFINE below(x) == {y \in S : y < x}
  <1>1. Cardinality(S) \in Nat
    BY FS_CardinalityType
  <1>2. \A x : IsFiniteSet(below(x)) /\ Cardinality(below(x)) \in Nat
    BY FS_Subset, FS_CardinalityType
  <1>3. ASSUME NEW x \in S PROVE Cardinality(below(x)) < Cardinality(S)
    <2>1. x \notin below(x) /\ below(x) \in SUBSET S
      OBVIOUS
    <2>2. Cardinality(below(x)) <= Cardinality(S) /\ (Cardinality(S) = Cardinality(below(x)) => S = below(x))
      BY <2>1, FS_Subset
    <2> HIDE DEF below
    <2> QED BY <1>1, <1>2, <2>1, <2>2
  <1>4. ASSUME NEW x \in S, NEW y \in S, x < y PROVE Cardinality(below(x)) < Cardinality(below(y))
    <2>0. \A z \in S : z < x => z < y
      BY <1>4
    <2>1. x \notin below(x) /\ below(x) \in SUBSET below(y) /\ x \in below(y)
      <3>1. ~(x < x)
        OBVIOUS
      <3> QED BY <1>4, <2>0, <3>1, Zenon
    <2>2. /\ Cardinality(below(x)) <= Cardinality(below(y))
          /\ Cardinality(below(y)) = Cardinality(below(x)) => below(y) = below(x)
      BY <1>2, <2>1, FS_Subset
    <2> HIDE DEF below
    <2> QED BY <1>2, <2>1, <2>2
  <1>5. \A x : Rank(S, x) = Cardinality(below(x))
    BY DEF Rank
  <1> HIDE DEF below
  <1>6. \A x \in S : Rank(S, x) \in 0..(Cardinality(S) - 1)
    BY <1>1, <1>2, <1>3, <1>5
  <1>7. \A x, y \in S : x < y => Rank(S, x) < Rank(S, y)
    BY <1>4, <1>5
  <1>8. ASSUME NEW x \in S, NEW y \in S, Rank(S, x) < Rank(S, y) PROVE x < y
    <2>1. y < x => Rank(S, y) < Rank(S, x)
      BY <1>7
    <2>2. y = x => Rank(S, y) = Rank(S, x)
      OBVIOUS
    <2> QED BY <1>6, <1>8, <2>1, <2>2
  <1> QED BY <1>1, <1>6, <1>7, <1>8

\* The elements have different ranks, and every number below the cardinality is the rank of one.
LEMMA RankIsOnto ==
  ASSUME NEW S \in SUBSET Int, IsFiniteSet(S)
  PROVE  /\ \A i \in 1..Cardinality(S) : \E x \in S : Rank(S, x) = i - 1
         /\ \A x, y \in S : Rank(S, x) = Rank(S, y) => x = y
  <1> DEFINE n == Cardinality(S)
             f == [x \in S |-> Rank(S, x) + 1]
  <1>1. /\ n \in Nat /\ \A x \in S : Rank(S, x) \in 0..(n - 1)
        /\ \A x, y \in S : x < y <=> Rank(S, x) < Rank(S, y)
    BY RankGrows
  <1> HIDE DEF n
  <1>2. \A x, y \in S : Rank(S, x) = Rank(S, y) => x = y
    BY <1>1
  <1>3. f \in [S -> 1..n] /\ \A x, y \in S : f[x] = f[y] => x = y
    BY <1>1, <1>2
  <1>4. f \in Injection(S, 1..n)
    BY <1>3 DEF Injection, IsInjective
  <1>5. IsFiniteSet(1..n) /\ Cardinality(1..n) = n
    BY <1>1, FS_Interval
  <1>6. f \in Surjection(S, 1..n)
    BY <1>4, <1>5, FS_Injection DEF n
  <1>7. \A i \in 1..n : \E x \in S : f[x] = i
    BY <1>6, Zenon DEF Surjection
  <1>8. ASSUME NEW i \in 1..n PROVE \E x \in S : Rank(S, x) = i - 1
    <2>1. PICK x \in S : f[x] = i
      BY <1>7
    <2>2. Rank(S, x) = i - 1
      BY <1>1, <2>1
    <2> QED BY <2>2
  <1> QED BY <1>2, <1>8 DEF n

\* Ascending lists the elements, each once, in order.
LEMMA AscendingSorts ==
  ASSUME NEW S \in SUBSET Int, IsFiniteSet(S)
  PROVE  /\ Ascending(S) \in Seq(S) /\ Len(Ascending(S)) = Cardinality(S)
         /\ Increasing(Ascending(S)) /\ Onto(Ascending(S), S)
         /\ \A i \in 1..Cardinality(S) : Rank(S, Ascending(S)[i]) = i - 1
  <1> DEFINE n == Cardinality(S)
             s == Ascending(S)
  <1>1. /\ n \in Nat /\ \A x \in S : Rank(S, x) \in 0..(n - 1)
        /\ \A x, y \in S : x < y <=> Rank(S, x) < Rank(S, y)
    BY RankGrows
  <1>2. /\ \A i \in 1..n : \E x \in S : Rank(S, x) = i - 1
        /\ \A x, y \in S : Rank(S, x) = Rank(S, y) => x = y
    BY RankIsOnto
  <1>3. \A i \in 1..n : s[i] \in S /\ Rank(S, s[i]) = i - 1
    <2> TAKE i \in 1..n
    <2>1. s[i] = CHOOSE x \in S : Rank(S, x) = i - 1
      BY DEF Ascending
    <2>2. \E x \in S : Rank(S, x) = i - 1
      BY <1>2
    <2> HIDE DEF s, n
    <2> QED BY <2>1, <2>2, Zenon
  <1>4. s = [i \in 1..n |-> s[i]]
    BY DEF Ascending
  <1> HIDE DEF s, n
  <1>5. s \in Seq(S) /\ Len(s) = n
    <2>1. s \in [1..n -> S]
      BY <1>3, <1>4
    <2> QED BY <1>1, <2>1
  <1>6. Increasing(s)
    <2> SUFFICES ASSUME NEW i \in 1..n, NEW j \in 1..n, i < j PROVE s[i] < s[j]
      BY <1>5 DEF Increasing
    <2>1. s[i] \in S /\ s[j] \in S /\ Rank(S, s[i]) = i - 1 /\ Rank(S, s[j]) = j - 1
      BY <1>3
    <2>2. Rank(S, s[i]) < Rank(S, s[j])
      BY <1>1, <2>1
    <2> QED BY <1>1, <2>1, <2>2
  <1>7. ASSUME NEW x \in S PROVE \E i \in 1..n : s[i] = x
    <2>1. Rank(S, x) \in 0..(n - 1)
      BY <1>1
    <2>2. PICK i \in 1..n : i - 1 = Rank(S, x)
      <3>1. Rank(S, x) + 1 \in 1..n /\ (Rank(S, x) + 1) - 1 = Rank(S, x)
        BY <1>1, <2>1
      <3> QED BY <3>1
    <2>3. s[i] \in S /\ Rank(S, s[i]) = Rank(S, x)
      BY <1>3, <2>2
    <2>4. s[i] = x
      BY <1>2, <2>3
    <2> QED BY <2>2, <2>4
  <1>8. Onto(s, S)
    BY <1>3, <1>5, <1>7 DEF Onto
  <1> QED BY <1>3, <1>5, <1>6, <1>8 DEF s, n

\* An increasing sequence of the elements of a set is what Ascending makes of it.
LEMMA AscendingIsUnique ==
  ASSUME NEW S \in SUBSET Int, IsFiniteSet(S), NEW s \in Seq(S), Increasing(s), Onto(s, S)
  PROVE  s = Ascending(S)
  <1> DEFINE n == Len(s)
  <1>0. n \in Nat /\ s \in [1..n -> S]
    OBVIOUS
  <1>1. ASSUME NEW m \in 0..n, NEW T, \A x : x \in T <=> \E i \in 1..m : s[i] = x
        PROVE  Cardinality(T) = m
    <2> DEFINE f == [i \in 1..m |-> s[i]]
    <2>1. f \in [1..m -> T] /\ \A x \in T : \E i \in 1..m : f[i] = x
      BY <1>0, <1>1
    <2>2. \A i, j \in 1..m : f[i] = f[j] => i = j
      <3> SUFFICES ASSUME NEW i \in 1..m, NEW j \in 1..m, s[i] = s[j], i # j PROVE FALSE
        OBVIOUS
      <3>0. m \in Int /\ m <= n
        BY <1>0, <1>1
      <3>1. i \in 1..n /\ j \in 1..n /\ s[i] \in Int /\ s[j] \in Int
        <4>1. i \in 1..n /\ j \in 1..n
          BY <1>0, <3>0
        <4> QED BY <1>0, <4>1
      <3>2. (i < j => s[i] < s[j]) /\ (j < i => s[j] < s[i])
        BY <3>1 DEF Increasing
      <3> QED BY <3>1, <3>2
    <2> HIDE DEF f
    <2>3. f \in Bijection(1..m, T)
      BY <2>1, <2>2 DEF Bijection, Injection, Surjection, IsInjective
    <2>4. ExistsBijection(1..m, T)
      BY <2>3 DEF ExistsBijection
    <2>5. m \in Nat
      BY <1>0
    <2> QED BY <2>4, <2>5, FS_CountingElements
  <1>2. Cardinality(S) = n
    <2>1. n \in 0..n
      BY <1>0
    <2> QED BY <1>1, <2>1 DEF Onto
  <1>3. ASSUME NEW i \in 1..n PROVE Rank(S, s[i]) = i - 1
    <2> DEFINE T == {y \in S : y < s[i]}
    <2>1. \A j \in 1..n : s[j] < s[i] <=> j < i
      <3> TAKE j \in 1..n
      <3>1. s[i] \in Int /\ s[j] \in Int
        BY <1>0
      <3>2. (i < j => s[i] < s[j]) /\ (j < i => s[j] < s[i])
        BY DEF Increasing
      <3> QED BY <1>0, <3>1, <3>2
    <2>2. \A x : x \in T <=> \E j \in 1..(i - 1) : s[j] = x
      <3>1. ASSUME NEW x \in T PROVE \E j \in 1..(i - 1) : s[j] = x
        <4>1. PICK j \in 1..n : s[j] = x
          BY DEF Onto
        <4>2. j < i
          BY <2>1, <4>1
        <4> QED BY <1>0, <4>1, <4>2
      <3>2. ASSUME NEW j \in 1..(i - 1) PROVE s[j] \in T
        <4>1. j \in 1..n /\ j < i
          BY <1>0
        <4> QED BY <1>0, <2>1, <4>1
      <3> QED BY <3>1, <3>2
    <2>3. i - 1 \in 0..n
      BY <1>0
    <2> HIDE DEF T
    <2>4. Cardinality(T) = i - 1
      BY <1>1, <2>2, <2>3
    <2> QED BY <2>4 DEF T, Rank
  <1>4. /\ Ascending(S) \in Seq(S) /\ Len(Ascending(S)) = n
        /\ \A i \in 1..n : Rank(S, Ascending(S)[i]) = i - 1
    BY <1>2, AscendingSorts
  <1>5. \A x, y \in S : Rank(S, x) = Rank(S, y) => x = y
    BY RankIsOnto
  <1>6. \A i \in 1..n : s[i] = Ascending(S)[i]
    <2> TAKE i \in 1..n
    <2>1. s[i] \in S /\ Ascending(S)[i] \in S
      BY <1>4
    <2> QED BY <1>3, <1>4, <1>5, <2>1
  <1> HIDE DEF n
  <1>7. s = [i \in 1..n |-> s[i]] /\ Ascending(S) = [i \in 1..n |-> Ascending(S)[i]]
    <2>1. Ascending(S) \in [1..n -> S]
      BY <1>4
    <2> QED BY <1>0, <2>1
  <1> QED BY <1>6, <1>7, Zenon

\* What comes later is appended.
LEMMA AscendingJoins ==
  ASSUME NEW A \in SUBSET Int, IsFiniteSet(A), NEW B \in SUBSET Int, IsFiniteSet(B),
         \A a \in A, b \in B : a < b
  PROVE  Ascending(A) \o Ascending(B) = Ascending(A \cup B)
  <1> DEFINE s == Ascending(A)
             t == Ascending(B)
  <1>1. s \in Seq(A) /\ Increasing(s) /\ Onto(s, A) /\ t \in Seq(B) /\ Increasing(t) /\ Onto(t, B)
    BY AscendingSorts
  <1> HIDE DEF s, t
  <1> DEFINE u == s \o t
  <1>2. /\ u \in Seq(A \cup B) /\ Len(s) \in Nat /\ Len(t) \in Nat /\ Len(u) = Len(s) + Len(t)
        /\ \A i \in 1..Len(s) : u[i] = s[i] /\ s[i] \in A
        /\ \A i \in 1..Len(t) : u[Len(s) + i] = t[i] /\ t[i] \in B
    BY <1>1
  <1>3. \A i \in 1..Len(u) : i \in 1..Len(s) \/ (i - Len(s) \in 1..Len(t) /\ i = Len(s) + (i - Len(s)))
    BY <1>2
  <1> HIDE DEF u
  <1>4. Onto(u, A \cup B)
    <2>1. ASSUME NEW i \in 1..Len(u) PROVE u[i] \in A \cup B
      BY <1>2
    <2>2. ASSUME NEW x \in A PROVE \E i \in 1..Len(u) : u[i] = x
      <3>1. PICK i \in 1..Len(s) : s[i] = x
        BY <1>1 DEF Onto
      <3>2. i \in 1..Len(u)
        BY <1>2
      <3> QED BY <1>2, <3>1, <3>2
    <2>3. ASSUME NEW x \in B PROVE \E i \in 1..Len(u) : u[i] = x
      <3>1. PICK i \in 1..Len(t) : t[i] = x
        BY <1>1 DEF Onto
      <3>2. Len(s) + i \in 1..Len(u)
        BY <1>2
      <3> QED BY <1>2, <3>1, <3>2
    <2> QED BY <2>1, <2>2, <2>3 DEF Onto
  <1>5. Increasing(u)
    <2> SUFFICES ASSUME NEW i \in 1..Len(u), NEW j \in 1..Len(u), i < j PROVE u[i] < u[j]
      BY DEF Increasing
    <2>1. CASE j \in 1..Len(s)
      <3>1. i \in 1..Len(s)
        BY <1>2, <2>1
      <3> QED BY <1>1, <1>2, <2>1, <3>1 DEF Increasing
    <2>2. ASSUME i \in 1..Len(s), NEW k \in 1..Len(t), j = Len(s) + k PROVE u[i] < u[j]
      BY <1>2, <2>2
    <2>3. ASSUME NEW h \in 1..Len(t), i = Len(s) + h, NEW k \in 1..Len(t), j = Len(s) + k PROVE u[i] < u[j]
      <3>1. h < k
        BY <1>2, <2>3
      <3>2. t[h] < t[k]
        BY <1>1, <3>1 DEF Increasing
      <3> QED BY <1>2, <2>3, <3>2
    <2> QED BY <1>3, <2>1, <2>2, <2>3
  <1>6. IsFiniteSet(A \cup B) /\ A \cup B \in SUBSET Int
    BY FS_Union
  <1>7. u = Ascending(A \cup B)
    BY <1>2, <1>4, <1>5, <1>6, AscendingIsUnique
  <1> QED BY <1>7 DEF s, t, u

\* The newest of some times: none is left out between one that is in and the last one.
LEMMA NewestOf ==
  ASSUME NEW n \in Nat, NEW S \in SUBSET (0..n), NEW k \in Nat \ {0}
  PROVE  /\ Newest(S, k) \subseteq S /\ IsFiniteSet(S) /\ IsFiniteSet(Newest(S, k))
         /\ S # {} => Max(S) \in S /\ Max(S) \in Newest(S, k) /\ \A x \in S : x <= Max(S)
         /\ \A x \in S, y \in Newest(S, k) : y <= x => x \in Newest(S, k)
  <1> DEFINE later(x) == {y \in S : y > x}
  <1>0. \A x \in S : x \in Int
    OBVIOUS
  <1>1. \A x : x \in Newest(S, k) <=> x \in S /\ Cardinality(later(x)) < k
    BY DEF Newest
  <1>2. IsFiniteSet(S) /\ \A x : IsFiniteSet(later(x)) /\ Cardinality(later(x)) \in Nat
    <2>0. IsFiniteSet(0..n)
      <3>1. 0 \in Int /\ n \in Int
        OBVIOUS
      <3> QED BY <3>1, FS_Interval
    <2>1. IsFiniteSet(S)
      BY <2>0, FS_Subset
    <2> QED BY <2>1, FS_Subset, FS_CardinalityType
  <1>3. Newest(S, k) \subseteq S /\ IsFiniteSet(Newest(S, k))
    BY <1>1, <1>2, FS_Subset
  <1>4. ASSUME S # {} PROVE Max(S) \in S /\ Max(S) \in Newest(S, k) /\ \A x \in S : x <= Max(S)
    <2>1. Max(S) \in S /\ \A x \in S : x <= Max(S)
      BY <1>4, GreatestNumber
    <2>2. PICK m \in S : m = Max(S)
      BY <2>1
    <2>3. \A x \in S : ~(x > m)
      <3>1. \A x \in S : x <= m /\ x \in Int /\ m \in Int
        BY <1>0, <2>1, <2>2
      <3> QED BY <3>1
    <2>4. later(m) = {}
      BY <2>3, Zenon
    <2>5. Cardinality(later(m)) = 0
      BY <2>4, FS_EmptySet
    <2> HIDE DEF later
    <2>6. m \in Newest(S, k)
      BY <1>1, <2>5
    <2> QED BY <2>1, <2>2, <2>6
  <1>5. ASSUME NEW x \in S, NEW y \in Newest(S, k), y <= x PROVE x \in Newest(S, k)
    <2>0. x \in Int /\ y \in Int
      BY <1>0, <1>3
    <2>1. \A z \in S : z > x => z > y
      BY <1>0, <1>5, <2>0
    <2>2. later(x) \in SUBSET later(y)
      BY <2>1
    <2>3. Cardinality(later(x)) <= Cardinality(later(y))
      BY <1>2, <2>2, FS_Subset
    <2> HIDE DEF later
    <2> QED BY <1>1, <1>2, <2>3
  <1> QED BY <1>2, <1>3, <1>4, <1>5

-----------------------------------------------------------------------------
(* getFundingRates() *)

\* The download's operators are those of the modules it shares with the candles'.
LEMMA FundingOperators ==
  /\ \A S : Funding!Ascending(S) = Ascending(S)
  /\ \A S, n : Funding!Newest(S, n) = Newest(S, n)
  /\ \A s : Funding!Reverse(s) = Reverse(s) /\ Funding!Last(s) = Last(s)
  /\ \A s : Funding!IsInjective(s) <=> IsInjective(s)
  <1>1. \A S : Funding!Cardinality(S) = Cardinality(S)
    BY Zenon DEF Funding!Cardinality, Cardinality, Funding!IsFiniteSet, IsFiniteSet
  <1>3. \A S : Funding!Ascending(S) = Ascending(S)
    BY Zenon DEF Funding!Ascending, Ascending, Funding!Rank, Rank, Funding!Cardinality, Cardinality,
       Funding!IsFiniteSet, IsFiniteSet
  <1>4. \A S, n : Funding!Newest(S, n) = Newest(S, n)
    BY <1>1, Zenon DEF Funding!Newest, Newest
  <1>5. \A s : Funding!Reverse(s) = Reverse(s) /\ Funding!Last(s) = Last(s)
    BY Zenon DEF Funding!Reverse, Reverse, Funding!Last, Last
  <1>6. \A s : Funding!IsInjective(s) <=> IsInjective(s)
    BY Zenon DEF Funding!IsInjective, IsInjective
  <1> QED BY <1>3, <1>4, <1>5, <1>6

\* A sequence of some numbers is one of numbers.
LEMMA NumberSeq ==
  ASSUME NEW S \in SUBSET Int, NEW s \in Seq(S)
  PROVE  s \in Seq(Int) /\ Len(s) \in Nat /\ \A i \in 1..Len(s) : s[i] \in S /\ s[i] \in Int
  <1>1. Len(s) \in Nat /\ s \in [1..Len(s) -> S]
    OBVIOUS
  <1>2. s \in [1..Len(s) -> Int]
    BY <1>1
  <1>3. \A n \in Nat : \A f \in [1..n -> Int] : f \in Seq(Int)
    OBVIOUS
  <1> QED BY <1>1, <1>2, <1>3

\* A sequence backwards: as long, with its last element first.
LEMMA ReverseOf ==
  ASSUME NEW s \in Seq(Int)
  PROVE  /\ Reverse(s) \in Seq(Int) /\ Len(Reverse(s)) = Len(s)
         /\ \A i \in 1..Len(s) : Reverse(s)[i] = s[Len(s) - i + 1]
         /\ Reverse(Reverse(s)) = s
  <1> DEFINE n == Len(s)
  <1>1. n \in Nat /\ s \in [1..n -> Int] /\ \A i \in 1..n : n - i + 1 \in 1..n /\ n - (n - i + 1) + 1 = i
    OBVIOUS
  <1>2. Reverse(s) = [i \in 1..n |-> s[n - i + 1]]
    BY DEF Reverse
  <1>3. Reverse(s) \in [1..n -> Int]
    <2>1. \A i \in 1..n : s[n - i + 1] \in Int
      BY <1>1
    <2> QED BY <1>2, <2>1
  <1>4. Reverse(s) \in Seq(Int) /\ Len(Reverse(s)) = n
    BY <1>1, <1>3
  <1>5. Reverse(Reverse(s)) = [i \in 1..n |-> Reverse(s)[n - i + 1]]
    BY <1>4 DEF Reverse
  <1>6. \A i \in 1..n : Reverse(s)[n - i + 1] = s[i]
    BY <1>1, <1>2
  <1>7. Reverse(Reverse(s)) = [i \in 1..n |-> s[i]]
    BY <1>5, <1>6, Zenon
  <1>8. s = [i \in 1..n |-> s[i]]
    BY <1>1
  <1>9. Reverse(Reverse(s)) = s
    BY <1>7, <1>8, Zenon
  <1> QED BY <1>1, <1>2, <1>4, <1>9

\* Two sequences, one after the other.
LEMMA ConcatOf ==
  ASSUME NEW s \in Seq(Int), NEW t \in Seq(Int)
  PROVE  /\ Len(s) \in Nat /\ Len(t) \in Nat /\ s \o t \in Seq(Int) /\ Len(s \o t) = Len(s) + Len(t)
         /\ \A i \in 1..Len(s) : (s \o t)[i] = s[i]
         /\ \A i \in (Len(s) + 1)..(Len(s) + Len(t)) : (s \o t)[i] = t[i - Len(s)]
  OBVIOUS

\* What is read later, and backwards, comes first.
LEMMA ReverseJoins ==
  ASSUME NEW s \in Seq(Int), NEW t \in Seq(Int)
  PROVE  Reverse(t) \o Reverse(s) = Reverse(s \o t)
  <1> DEFINE m == Len(s)
             n == Len(t)
             u == s \o t
             v == Reverse(t) \o Reverse(s)
             w == Reverse(u)
  <1>1. /\ m \in Nat /\ n \in Nat /\ u \in Seq(Int) /\ Len(u) = m + n
        /\ \A i \in 1..m : u[i] = s[i]
        /\ \A i \in (m + 1)..(m + n) : u[i] = t[i - m]
    BY ConcatOf
  <1> DEFINE p == Reverse(t)
             q == Reverse(s)
  <1>2. p \in Seq(Int) /\ Len(p) = n /\ \A i \in 1..n : p[i] = t[n - i + 1]
    BY ReverseOf
  <1>3. q \in Seq(Int) /\ Len(q) = m /\ \A i \in 1..m : q[i] = s[m - i + 1]
    BY ReverseOf
  <1> HIDE DEF u, m, n
  <1>4. w \in Seq(Int) /\ Len(w) = m + n /\ \A i \in 1..(m + n) : w[i] = u[(m + n) - i + 1]
    <2>1. w \in Seq(Int) /\ Len(w) = Len(u) /\ \A i \in 1..Len(u) : w[i] = u[Len(u) - i + 1]
      BY <1>1, ReverseOf
    <2> QED BY <1>1, <2>1
  <1> HIDE DEF p, q, w
  <1>5. /\ v \in Seq(Int) /\ Len(v) = m + n
        /\ \A i \in 1..n : v[i] = p[i]
        /\ \A i \in (n + 1)..(m + n) : v[i] = q[i - n]
    <2> DEFINE pq == p \o q
    <2>1. /\ pq \in Seq(Int) /\ Len(pq) = Len(p) + Len(q)
          /\ \A i \in 1..Len(p) : pq[i] = p[i]
          /\ \A i \in (Len(p) + 1)..(Len(p) + Len(q)) : pq[i] = q[i - Len(p)]
      BY <1>2, <1>3, ConcatOf
    <2>2. v = pq
      BY DEF p, q
    <2> HIDE DEF pq
    <2>3. n + m = m + n
      BY <1>1
    <2> QED BY <1>2, <1>3, <2>1, <2>2, <2>3
  <1> HIDE DEF v
  <1>6. \A i \in 1..(m + n) : v[i] = w[i]
    <2> TAKE i \in 1..(m + n)
    <2>1. CASE i \in 1..n
      <3>1. /\ (m + n) - i + 1 \in (m + 1)..(m + n) /\ ((m + n) - i + 1) - m = n - i + 1
            /\ (m + n) - i + 1 \in 1..(m + n)
        BY <1>1, <2>1
      <3>2. u[(m + n) - i + 1] = t[((m + n) - i + 1) - m]
        BY <1>1, <3>1
      <3> QED BY <1>2, <1>4, <1>5, <2>1, <3>1, <3>2
    <2>2. CASE i \in (n + 1)..(m + n)
      <3>1. /\ (m + n) - i + 1 \in 1..m /\ (m + n) - i + 1 = m - (i - n) + 1
            /\ i - n \in 1..m
        BY <1>1, <2>2
      <3>2. u[(m + n) - i + 1] = s[(m + n) - i + 1]
        BY <1>1, <3>1
      <3> QED BY <1>3, <1>4, <1>5, <2>2, <3>1, <3>2
    <2> QED BY <1>1, <2>1, <2>2
  <1>7. v = [i \in 1..(m + n) |-> v[i]] /\ w = [i \in 1..(m + n) |-> w[i]]
    BY <1>1, <1>4, <1>5
  <1>8. v = w
    BY <1>6, <1>7, Zenon
  <1> QED BY <1>8 DEF v, w, u, m, n

\* The rates asked for, and those of them that were read.
Period == {r \in rates : Begin <= r /\ r <= upto}
Read   == {r \in Period : endTime < r}

\* Everything after endTime was read, the newest first; endTime is just before a rate
\* unless nothing was read.
FundingInv ==
  /\ rates \in SUBSET (0..MaxTime) /\ \A a, b \in rates : a < b => b - a >= Spacing
  /\ upto \in (Begin + 1)..MaxTime /\ endTime \in Int
  /\ endTime = upto \/ (endTime + 1 \in rates /\ endTime < upto)
  /\ fundingAt \in {"fetch", "failed", "done"}
  /\ fundingAt = "fetch" => funding = Reverse(Ascending(Read))
  /\ fundingAt = "done" => funding = Ascending(Period)

\* The constants.
LEMMA FundingConstants ==
  /\ limit \in Nat \ {0} /\ Spacing \in Nat /\ Spacing >= 2 /\ Begin \in Nat /\ MaxTime \in Nat
  BY LoopsAssumption DEF Funding!FundingAssumption

\* The types of the sets.
LEMMA FundingSets ==
  ASSUME rates \in SUBSET (0..MaxTime)
  PROVE  /\ Period \in SUBSET (0..MaxTime) /\ IsFiniteSet(Period) /\ Period \in SUBSET Int
         /\ Read \in SUBSET (0..MaxTime) /\ IsFiniteSet(Read) /\ Read \in SUBSET Int
  <1>1. IsFiniteSet(0..MaxTime) /\ (0..MaxTime) \in SUBSET Int
    <2>1. 0 \in Int /\ MaxTime \in Int
      BY FundingConstants
    <2> QED BY <2>1, FS_Interval
  <1>2. Period \in SUBSET (0..MaxTime) /\ Read \in SUBSET (0..MaxTime)
    BY DEF Period, Read
  <1> QED BY <1>1, <1>2, FS_Subset

\* What is known at the start.
LEMMA FundingInit == Funding!Init => FundingInv
  <1> SUFFICES ASSUME Funding!Init PROVE FundingInv  OBVIOUS
  <1>1. /\ rates \in SUBSET (0..MaxTime) /\ \A a, b \in rates : a < b => b - a >= Spacing
        /\ upto \in (Begin + 1)..MaxTime /\ endTime = upto /\ funding = <<>> /\ fundingAt = "fetch"
    BY DEF Funding!Init
  <1>2. endTime \in Int
    BY <1>1, FundingConstants
  <1>3. Read = {}
    <2>1. \A r \in rates : ~(r <= upto /\ endTime < r)
      BY <1>1, <1>2
    <2> QED BY <2>1 DEF Read, Period
  <1>4. Ascending({}) = <<>>
    BY FS_EmptySet DEF Ascending
  <1>5. Reverse(<<>>) = <<>>
    BY DEF Reverse
  <1> QED BY <1>1, <1>2, <1>3, <1>4, <1>5 DEF FundingInv

\* A page: nothing if there is nothing left, otherwise the rates from its last one up to
\* the end of the period asked for.
LEMMA FundingPage ==
  ASSUME FundingInv
  PROVE  \E P \in SUBSET rates :
           /\ IsFiniteSet(P) /\ P \in SUBSET Int
           /\ \A r \in P : Begin <= r /\ r <= endTime
           /\ Funding!Answer = Reverse(Ascending(P)) /\ Ascending(P) \in Seq(Int)
           /\ Funding!Answer = <<>> => \A r \in rates : ~(Begin <= r /\ r <= endTime)
           /\ Funding!Answer # <<>> =>
                /\ Funding!Last(Funding!Answer) \in P
                /\ \A r \in rates : Begin <= r /\ r <= endTime =>
                                      (r \in P <=> Funding!Last(Funding!Answer) <= r)
  <1> DEFINE S == {r \in rates : Begin <= r /\ r <= endTime}
             P == Newest(S, limit)
             a == Ascending(P)
  <1>1. S \in SUBSET (0..MaxTime) /\ MaxTime \in Nat /\ limit \in Nat \ {0}
    BY FundingConstants DEF FundingInv
  <1>2. /\ P \subseteq S /\ IsFiniteSet(P)
        /\ S # {} => Max(S) \in P
        /\ \A x \in S, y \in P : y <= x => x \in P
    BY <1>1, NewestOf
  <1>3. P \in SUBSET Int
    BY <1>1, <1>2
  <1>4. Funding!Answer = Reverse(a)
    BY FundingOperators, Zenon DEF Funding!Answer
  <1>5. a \in Seq(P) /\ Increasing(a) /\ Onto(a, P)
    BY <1>2, <1>3, AscendingSorts
  <1>6. P \subseteq rates /\ \A r \in P : Begin <= r /\ r <= endTime
    BY <1>2
  <1>7. \A r \in rates : Begin <= r /\ r <= endTime => r \in S
    OBVIOUS
  <1>8. S = {} => \A r \in rates : ~(Begin <= r /\ r <= endTime)
    BY <1>7, Zenon
  <1> HIDE DEF S, P, a
  <1>9. a \in Seq(Int) /\ Len(a) \in Nat
    BY <1>3, <1>5, NumberSeq
  <1>10. /\ Reverse(a) \in Seq(Int) /\ Len(Reverse(a)) = Len(a)
         /\ \A i \in 1..Len(a) : Reverse(a)[i] = a[Len(a) - i + 1]
    BY <1>9, ReverseOf
  <1>11. ASSUME Reverse(a) = <<>> PROVE S = {}
    <2>1. Len(a) = 0
      BY <1>10, <1>11
    <2>2. P = {}
      BY <1>5, <2>1 DEF Onto
    <2> QED BY <1>2, <2>2
  <1>12. ASSUME Reverse(a) # <<>>
         PROVE  Last(Reverse(a)) \in P /\ \A r \in S : r \in P <=> Last(Reverse(a)) <= r
    <2>1. Len(a) > 0
      BY <1>9, <1>10, <1>12
    <2>2. Last(Reverse(a)) = a[1]
      <3>1. Len(a) \in 1..Len(a) /\ Len(a) - Len(a) + 1 = 1
        BY <1>9, <2>1
      <3>2. Reverse(a)[Len(a)] = a[Len(a) - Len(a) + 1]
        BY <1>10, <3>1
      <3> QED BY <1>10, <3>1, <3>2 DEF Last
    <2>3. a[1] \in P
      BY <1>5, <1>9, <2>1
    <2>4. \A r \in P : a[1] <= r
      <3> TAKE r \in P
      <3>1. PICK i \in 1..Len(a) : a[i] = r
        BY <1>5 DEF Onto
      <3>2. 1 \in 1..Len(a) /\ (i = 1 \/ 1 < i)
        BY <1>9, <2>1
      <3>3. 1 < i => a[1] < a[i]
        BY <1>5, <3>2 DEF Increasing
      <3>4. a[1] \in Int /\ a[i] \in Int
        BY <1>3, <2>3, <3>1
      <3> QED BY <3>1, <3>2, <3>3, <3>4
    <2> QED BY <1>2, <2>2, <2>3, <2>4
  <1>13. \A s : Funding!Last(s) = Last(s)
    BY FundingOperators
  <1>14. /\ Funding!Answer = <<>> => \A r \in rates : ~(Begin <= r /\ r <= endTime)
         /\ Funding!Answer # <<>> =>
                /\ Funding!Last(Funding!Answer) \in P
                /\ \A r \in rates : Begin <= r /\ r <= endTime =>
                                      (r \in P <=> Funding!Last(Funding!Answer) <= r)
    BY <1>4, <1>7, <1>8, <1>11, <1>12, <1>13, Zenon
  <1>15. P \in SUBSET rates /\ Ascending(P) \in Seq(Int) /\ Funding!Answer = Reverse(Ascending(P))
    BY <1>4, <1>6, <1>9 DEF a
  <1> QED BY <1>2, <1>3, <1>6, <1>14, <1>15

\* One more page, or the end.
LEMMA FundingFetch == ASSUME FundingInv, Funding!Fetch PROVE FundingInv'
  <1>1. /\ fundingAt = "fetch" /\ UNCHANGED <<rates, upto>>
        /\ IF Begin < endTime /\ Funding!Answer # <<>>
           THEN /\ funding' = funding \o Funding!Answer
                /\ endTime' = Funding!Last(Funding!Answer) - 1
                /\ UNCHANGED fundingAt
           ELSE fundingAt' = "done" /\ funding' = Reverse(funding) /\ UNCHANGED endTime
    <2>1. \A s : Funding!Reverse(s) = Reverse(s)
      BY FundingOperators
    <2> QED BY <2>1, Zenon DEF Funding!Fetch, Funding!Worthwhile, Funding!Before
  <1>2. PICK P \in SUBSET rates :
           /\ IsFiniteSet(P) /\ P \in SUBSET Int
           /\ \A r \in P : Begin <= r /\ r <= endTime
           /\ Funding!Answer = Reverse(Ascending(P)) /\ Ascending(P) \in Seq(Int)
           /\ Funding!Answer = <<>> => \A r \in rates : ~(Begin <= r /\ r <= endTime)
           /\ Funding!Answer # <<>> =>
                /\ Funding!Last(Funding!Answer) \in P
                /\ \A r \in rates : Begin <= r /\ r <= endTime =>
                                      (r \in P <=> Funding!Last(Funding!Answer) <= r)
    BY FundingPage
  <1>3. /\ IsFiniteSet(Period) /\ Period \in SUBSET Int
        /\ IsFiniteSet(Read) /\ Read \in SUBSET Int
    BY FundingSets DEF FundingInv
  <1>4. rates \in SUBSET Int /\ endTime \in Int /\ upto \in Int /\ Begin \in Int /\ endTime <= upto
    BY FundingConstants DEF FundingInv
  <1>5. Period' = Period
    BY <1>1 DEF Period
  <1>6. Ascending(Read) \in Seq(Int)
    <2>1. Ascending(Read) \in Seq(Read)
      BY <1>3, AscendingSorts
    <2> QED BY <1>3, <2>1, NumberSeq
  <1>7. CASE Begin < endTime /\ Funding!Answer # <<>>
    <2> DEFINE m == Funding!Last(Funding!Answer)
    <2>1. /\ m \in P /\ \A r \in rates : Begin <= r /\ r <= endTime => (r \in P <=> m <= r)
          /\ m \in Int /\ m <= endTime
      BY <1>2, <1>7
    <2>2. endTime' = m - 1 /\ funding' = funding \o Reverse(Ascending(P)) /\ fundingAt' = "fetch"
      BY <1>1, <1>2, <1>7
    <2> HIDE DEF m
    <2>3. Read' = P \cup Read
      <3>1. ASSUME NEW r \in P PROVE r \in Read'
        BY <1>1, <1>2, <1>4, <1>5, <2>1, <2>2 DEF Read, Period
      <3>2. ASSUME NEW r \in Read PROVE r \in Read'
        BY <1>1, <1>4, <1>5, <2>1, <2>2 DEF Read, Period
      <3>3. ASSUME NEW r \in Read', r \notin Read PROVE r \in P
        <4>1. r \in rates /\ Begin <= r /\ r <= upto /\ m - 1 < r /\ ~(endTime < r)
          BY <1>1, <1>5, <2>2, <3>3 DEF Read, Period
        <4>2. r \in Int /\ m <= r /\ r <= endTime
          BY <1>4, <2>1, <4>1
        <4> QED BY <2>1, <4>1, <4>2
      <3> QED BY <3>1, <3>2, <3>3
    <2>4. \A a \in P, b \in Read : a < b
      BY <1>2, <1>3, <1>4 DEF Read
    <2>5. Ascending(P) \o Ascending(Read) = Ascending(P \cup Read)
      BY <1>2, <1>3, <2>4, AscendingJoins
    <2>6. Reverse(Ascending(Read)) \o Reverse(Ascending(P)) = Reverse(Ascending(P) \o Ascending(Read))
      BY <1>2, <1>6, ReverseJoins
    <2>7. funding' = Reverse(Ascending(Read'))
      BY <1>1, <2>2, <2>3, <2>5, <2>6 DEF FundingInv
    <2>8. endTime' \in Int /\ endTime' + 1 \in rates /\ endTime' < upto
      <3>1. m - 1 \in Int /\ (m - 1) + 1 = m /\ m - 1 < upto
        BY <1>4, <2>1
      <3> QED BY <1>2, <2>1, <2>2, <3>1
    <2> QED BY <1>1, <2>2, <2>7, <2>8 DEF FundingInv
  <1>8. CASE ~(Begin < endTime /\ Funding!Answer # <<>>)
    <2>1. fundingAt' = "done" /\ funding' = Reverse(funding) /\ UNCHANGED endTime
      BY <1>1, <1>8
    <2>2. ASSUME NEW r \in rates, Begin <= r, r <= endTime PROVE FALSE
      <3>1. Funding!Answer # <<>>
        BY <1>2, <2>2
      <3>2. r = Begin /\ endTime = Begin
        BY <1>4, <1>8, <2>2, <3>1
      <3>3. endTime # upto
        BY <3>2, FundingConstants DEF FundingInv
      <3>4. Begin + 1 \in rates /\ Begin \in rates /\ \A a, b \in rates : a < b => b - a >= Spacing
        BY <2>2, <3>2, <3>3 DEF FundingInv
      <3>5. (Begin + 1) - Begin >= Spacing
        BY <1>4, <3>4
      <3> QED BY <3>5, FundingConstants
    <2>3. Read = Period
      <3>1. \A r \in Period : endTime < r
        <4> TAKE r \in Period
        <4>1. r \in rates /\ Begin <= r /\ r \in Int
          BY <1>3 DEF Period
        <4>2. ~(r <= endTime)
          BY <2>2, <4>1
        <4> QED BY <1>4, <4>1, <4>2
      <3> QED BY <3>1 DEF Read
    <2>4. funding' = Ascending(Period)
      <3>1. Reverse(Reverse(Ascending(Read))) = Ascending(Read)
        BY <1>6, ReverseOf
      <3> QED BY <1>1, <2>1, <2>3, <3>1 DEF FundingInv
    <2> QED BY <1>1, <1>5, <2>1, <2>4 DEF FundingInv
  <1> QED BY <1>7, <1>8

\* For any rates, page size and period: the download returns the rates of the period, each
\* once and in the order of time.
THEOREM RatesAreWhole == LoopsSpec => []AllRates
  <1>1. LoopsInit => (task = "funding" => FundingInv)
    BY FundingInit DEF LoopsInit
  <1>2. (task = "funding" => FundingInv) /\ [LoopsNext]_loopVars => (task = "funding" => FundingInv)'
    <2> SUFFICES ASSUME task = "funding" => FundingInv, [LoopsNext]_loopVars, task' = "funding"
                 PROVE  FundingInv'
      OBVIOUS
    <2>1. task = "funding" /\ FundingInv
      BY DEF LoopsNext, loopVars
    <2>2. CASE Funding!Fetch
      BY <2>1, <2>2, FundingFetch
    <2>3. CASE Funding!RequestFails
      BY <2>1, <2>3 DEF Funding!RequestFails, FundingInv
    <2>4. CASE UNCHANGED fundingVars
      BY <2>1, <2>4 DEF fundingVars, FundingInv, Read, Period
    <2> QED BY <2>1, <2>2, <2>3, <2>4 DEF LoopsNext, loopVars, Funding!Next
  <1>3. (task = "funding" => FundingInv) => AllRates
    <2> SUFFICES ASSUME FundingInv
                 PROVE  /\ fundingAt = "fetch" => IsInjective(funding)
                        /\ fundingAt = "done" => funding = Ascending(Period)
      BY FundingOperators DEF AllRates, Funding!AllRates, Period
    <2>1. IsFiniteSet(Read) /\ Read \in SUBSET Int
      BY FundingSets DEF FundingInv
    <2>2. Ascending(Read) \in Seq(Read) /\ Increasing(Ascending(Read))
      BY <2>1, AscendingSorts
    <2> DEFINE a == Ascending(Read)
    <2> HIDE DEF a
    <2>3. a \in Seq(Int) /\ Len(a) \in Nat /\ \A i \in 1..Len(a) : a[i] \in Int
      BY <2>1, <2>2, NumberSeq DEF a
    <2>4. /\ Reverse(a) \in Seq(Int) /\ Len(Reverse(a)) = Len(a)
          /\ \A i \in 1..Len(a) : Reverse(a)[i] = a[Len(a) - i + 1]
      BY <2>3, ReverseOf
    <2>5. DOMAIN Reverse(a) = 1..Len(a)
      BY <2>4
    <2>6. \A i, j \in 1..Len(a) : a[i] = a[j] => i = j
      <3> SUFFICES ASSUME NEW i \in 1..Len(a), NEW j \in 1..Len(a), a[i] = a[j], i # j PROVE FALSE
        OBVIOUS
      <3>1. (i < j => a[i] < a[j]) /\ (j < i => a[j] < a[i])
        BY <2>2 DEF Increasing, a
      <3> QED BY <2>3, <3>1
    <2>7. \A i, j \in 1..Len(a) : Reverse(a)[i] = Reverse(a)[j] => i = j
      <3> SUFFICES ASSUME NEW i \in 1..Len(a), NEW j \in 1..Len(a), Reverse(a)[i] = Reverse(a)[j] PROVE i = j
        OBVIOUS
      <3>1. Len(a) - i + 1 \in 1..Len(a) /\ Len(a) - j + 1 \in 1..Len(a)
        BY <2>3
      <3>2. Len(a) - i + 1 = Len(a) - j + 1
        BY <2>4, <2>6, <3>1
      <3> QED BY <2>3, <3>2
    <2>8. IsInjective(Reverse(a))
      BY <2>5, <2>7 DEF IsInjective
    <2> QED BY <2>8 DEF FundingInv, a
  <1> QED BY <1>1, <1>2, <1>3, PTL DEF LoopsSpec

-----------------------------------------------------------------------------
(* getHistoricalPrices() *)

\* The slots are an interval apart.
LEMMA SlotsApart ==
  /\ Interval \in Nat \ {0} /\ limit \in Nat \ {0} /\ Slots \in Nat \ {0}
  /\ \A i \in Int : i * Interval \in Int
  /\ \A i, j \in Int : i < j => i * Interval + Interval <= j * Interval
  <1>1. Interval \in Nat \ {0} /\ limit \in Nat \ {0} /\ Slots \in Nat \ {0}
    BY HistoryAssumption
  <1>2. \A i \in Int : i * Interval \in Int
    BY <1>1
  <1>3. ASSUME NEW i \in Int, NEW j \in Int, i < j PROVE i * Interval + Interval <= j * Interval
    <2> DEFINE k == j - i - 1
    <2>1. k \in Nat /\ j = i + k + 1
      BY <1>3
    <2> HIDE DEF k
    <2>2. (i + k + 1) * Interval = i * Interval + k * Interval + Interval
      BY <1>1, <2>1
    <2>3. k * Interval \in Nat
      BY <1>1, <2>1
    <2> QED BY <1>1, <1>2, <2>1, <2>2, <2>3
  <1> QED BY <1>1, <1>2, <1>3

\* The slots a candle can have, and the length of a window of `limit' of them.
Grid == {Slot(i) : i \in 0..(Slots - 1)}
Window == (limit - 1) * Interval

\* The grid of candles is bounded, and two candles are at least an interval apart.
LEMMA GridOf ==
  /\ Slots * Interval \in Nat /\ Window \in Nat
  /\ Grid \in SUBSET (0..(Slots * Interval)) /\ IsFiniteSet(Grid) /\ Grid \in SUBSET Int
  /\ \A c, d \in Grid : c < d => c + Interval <= d
  <1>1. Slots * Interval \in Nat /\ Window \in Nat
    <2>1. limit - 1 \in Nat
      BY SlotsApart
    <2> QED BY <2>1, SlotsApart DEF Window
  <1>2. ASSUME NEW i \in 0..(Slots - 1) PROVE i * Interval \in 0..(Slots * Interval)
    <2>1. i \in Nat /\ i < Slots /\ Slots \in Int /\ i \in Int
      BY SlotsApart
    <2>2. i * Interval \in Nat
      BY <2>1, SlotsApart
    <2>3. i * Interval + Interval <= Slots * Interval
      BY <2>1, SlotsApart
    <2> QED BY <1>1, <2>2, <2>3, SlotsApart
  <1>3. Grid \in SUBSET (0..(Slots * Interval))
    BY <1>2 DEF Grid, Slot
  <1>4. IsFiniteSet(0..(Slots * Interval)) /\ (0..(Slots * Interval)) \in SUBSET Int
    <2>1. 0 \in Int /\ Slots * Interval \in Int
      BY <1>1
    <2> QED BY <2>1, FS_Interval
  <1>5. IsFiniteSet(Grid) /\ Grid \in SUBSET Int
    BY <1>3, <1>4, FS_Subset
  <1>6. ASSUME NEW c \in Grid, NEW d \in Grid, c < d PROVE c + Interval <= d
    <2>1. PICK i \in 0..(Slots - 1) : c = i * Interval
      BY DEF Grid, Slot
    <2>2. PICK j \in 0..(Slots - 1) : d = j * Interval
      BY DEF Grid, Slot
    <2>3. i \in Int /\ j \in Int
      OBVIOUS
    <2>4. i < j
      <3>1. CASE j < i
        <4>1. j * Interval + Interval <= i * Interval
          BY <2>3, <3>1, SlotsApart
        <4>2. i * Interval \in Int /\ j * Interval \in Int
          BY <2>3, SlotsApart
        <4> QED BY <1>6, <2>1, <2>2, <4>1, <4>2, SlotsApart
      <3>2. CASE j = i
        BY <1>6, <1>5, <2>1, <2>2, <3>2
      <3> QED BY <2>3, <3>1, <3>2
    <2> QED BY <2>1, <2>2, <2>3, <2>4, SlotsApart
  <1> QED BY <1>1, <1>3, <1>5, <1>6

\* A window of `limit' slots has fewer than `limit' candles after its first.
LEMMA WindowHolds ==
  ASSUME NEW L \in SUBSET Grid, NEW c \in Grid, NEW end \in Int, end <= c + Window
  PROVE  Cardinality({d \in L : d > c /\ d <= end}) < limit
  <1> DEFINE D == {d \in L : d > c /\ d <= end}
  <1>1. \A d \in D : \E k \in 1..(limit - 1) : d = c + k * Interval
    <2> TAKE d \in D
    <2>0. d \in Grid /\ c < d /\ d <= c + Window /\ c \in Int /\ d \in Int
      BY GridOf
    <2>1. PICK i \in 0..(Slots - 1) : c = i * Interval
      BY DEF Grid, Slot
    <2>2. PICK j \in 0..(Slots - 1) : d = j * Interval
      BY <2>0 DEF Grid, Slot
    <2>3. i \in Int /\ j \in Int /\ limit \in Int
      BY SlotsApart
    <2> DEFINE k == j - i
    <2>4. k \in Int /\ j = i + k
      BY <2>3
    <2> HIDE DEF k
    <2>5. (i + k) * Interval = i * Interval + k * Interval
      BY <2>3, <2>4, SlotsApart
    <2>6. d = c + k * Interval /\ k * Interval \in Int
      BY <2>1, <2>2, <2>3, <2>4, <2>5, SlotsApart
    <2>7. k > 0
      <3>1. CASE k < 0
        <4>1. k * Interval + Interval <= 0 * Interval
          BY <2>4, <3>1, SlotsApart
        <4> QED BY <2>0, <2>6, <4>1, SlotsApart
      <3>2. CASE k = 0
        <4>1. 0 * Interval = 0
          BY SlotsApart
        <4> QED BY <2>0, <2>6, <3>2, <4>1
      <3> QED BY <2>4, <3>1, <3>2
    <2>8. k <= limit - 1
      <3> SUFFICES ASSUME limit - 1 < k PROVE FALSE
        BY <2>3, <2>4
      <3>1. (limit - 1) * Interval + Interval <= k * Interval
        BY <2>3, <2>4, SlotsApart
      <3> QED BY <2>0, <2>6, <3>1, SlotsApart, GridOf DEF Window
    <2> QED BY <2>3, <2>4, <2>6, <2>7, <2>8
  <1> DEFINE f == [d \in D |-> CHOOSE k \in 1..(limit - 1) : d = c + k * Interval]
  <1>2. \A d \in D : f[d] \in 1..(limit - 1) /\ d = c + f[d] * Interval
    <2> TAKE d \in D
    <2>1. f[d] = CHOOSE k \in 1..(limit - 1) : d = c + k * Interval
      OBVIOUS
    <2>2. \E k \in 1..(limit - 1) : d = c + k * Interval
      BY <1>1
    <2> HIDE DEF f, D
    <2> QED BY <2>1, <2>2, Zenon
  <1>3. f = [d \in D |-> f[d]]
    OBVIOUS
  <1> HIDE DEF D, f
  <1>4. f \in Injection(D, 1..(limit - 1))
    <2>1. f \in [D -> 1..(limit - 1)]
      BY <1>2, <1>3, Zenon
    <2>2. \A a, b \in D : f[a] = f[b] => a = b
      BY <1>2, Zenon
    <2> QED BY <2>1, <2>2 DEF Injection, IsInjective
  <1>5. IsFiniteSet(1..(limit - 1)) /\ Cardinality(1..(limit - 1)) = limit - 1
    <2>1. 1 \in Int /\ limit - 1 \in Int /\ (1 > limit - 1 => limit - 1 = 0) /\ (limit - 1) - 1 + 1 = limit - 1
      BY SlotsApart
    <2> QED BY <2>1, FS_Interval
  <1>6. IsFiniteSet(D) /\ Cardinality(D) <= limit - 1
    BY <1>4, <1>5, FS_Injection
  <1>7. Cardinality(D) \in Nat
    BY <1>6, FS_CardinalityType
  <1> QED BY <1>6, <1>7, SlotsApart DEF D

\* The candles written so far are the set X: in order, the ones up to `to' returned, and as
\* long as the download goes on all that end by `to' and begin before `from'.
Going == at \in {"fetch", "probe", "batch"}
Ends(c) == nextCandleStart(c) <= to
Saved(X) ==
  /\ written = Ascending(X) /\ retVal = Ascending({x \in X : x <= to})
  /\ \A x \in X : start <= x
  /\ Going => \A x \in X : x < from /\ x <= to
  /\ Going => \A c \in listed : start <= c /\ c < from /\ Ends(c) => c \in X
  /\ at = "done" /\ (\E c \in listed : c <= start + Window) =>
       \A c \in listed : start <= c /\ Ends(c) => c \in X

\* The batch in hand: every candle from `from' to its last.
BatchIsWhole ==
  /\ candles # {} /\ candles \subseteq listed
  /\ \A c \in candles : from <= c
  /\ \A c \in listed, m \in candles : from <= c /\ c <= m => c \in candles

CandleInv ==
  /\ listed \in SUBSET Grid
  /\ start \in Int /\ to \in Int /\ from \in Int /\ start <= from
  /\ at \in {"fetch", "probe", "batch", "done", "failed"}
  /\ at = "batch" => BatchIsWhole
  /\ \E X \in SUBSET listed : Saved(X)

\* What is known at the start.
LEMMA CandleInit == Init => CandleInv
  <1> SUFFICES ASSUME Init PROVE CandleInv  OBVIOUS
  <1>1. /\ listed \in SUBSET Grid /\ start \in Times /\ to \in Times /\ from = start
        /\ candles = {} /\ retVal = <<>> /\ written = <<>> /\ at = "fetch"
    BY DEF Init, Grid
  <1>2. start \in Int /\ to \in Int /\ from \in Int /\ start <= from
    <2>1. Times \in SUBSET Int
      BY GridOf DEF Times
    <2>2. start \in Int /\ to \in Int
      BY <1>1, <2>1
    <2> QED BY <1>1, <2>2
  <1>3. Ascending({}) = <<>>
    BY FS_EmptySet DEF Ascending
  <1>4. {x \in {} : x <= to} = {}
    OBVIOUS
  <1>5. \A c \in listed : ~(start <= c /\ c < from)
    BY <1>1, <1>2, GridOf
  <1>6. Saved({})
    BY <1>1, <1>3, <1>4, <1>5 DEF Saved, Going
  <1> QED BY <1>1, <1>2, <1>6 DEF CandleInv

\* The venue's answer for a window of at most `limit' slots from `from': it is empty only if
\* the venue has nothing up to the end of it, and has all the candles of the window.
LEMMA AnswerOf ==
  ASSUME listed \in SUBSET Grid, from \in Int, NEW end \in Int, end <= from + Window
  PROVE  /\ Answer(end) = {} => \A c \in listed : ~(c <= end)
         /\ Answer(end) # {} => /\ Max(Answer(end)) \in Answer(end)
                                /\ \A c \in Answer(end) : c <= Max(Answer(end))
         /\ \A c : c \in Trim(Answer(end)) <=> c \in listed /\ from <= c /\ c <= end
         /\ Answer(end) # {} /\ Max(Answer(end)) >= from => Trim(Answer(end)) # {}
         /\ Answer(end) # {} /\ Max(Answer(end)) < from => Trim(Answer(end)) = {}
  <1> DEFINE S == {c \in listed : c <= end}
             A == Answer(end)
  <1>1. /\ Slots * Interval \in Nat /\ S \in SUBSET (0..(Slots * Interval)) /\ limit \in Nat \ {0}
        /\ S \in SUBSET Int /\ listed \in SUBSET Int /\ S \in SUBSET Grid
    BY GridOf, SlotsApart
  <1>2. A = Newest(S, limit)
    BY DEF Answer
  <1>3. /\ A \subseteq S /\ (S # {} => Max(S) \in A)
    <2> HIDE DEF S, A
    <2> QED BY <1>1, <1>2, NewestOf
  <1>4. A # {} => Max(A) \in A /\ \A c \in A : c <= Max(A)
    <2>1. A \in SUBSET (0..(Slots * Interval))
      BY <1>1, <1>3
    <2> QED BY <1>1, <2>1, GreatestNumber
  <1>5. ASSUME NEW c \in listed, from <= c, c <= end PROVE c \in A
    <2>1. {d \in S : d > c} = {d \in listed : d > c /\ d <= end}
      OBVIOUS
    <2>2. c \in Grid /\ end <= c + Window
      BY <1>1, <1>5, GridOf
    <2>3. Cardinality({d \in listed : d > c /\ d <= end}) < limit
      BY <2>2, WindowHolds
    <2>4. c \in S
      BY <1>5
    <2> QED BY <1>2, <2>1, <2>3, <2>4 DEF Newest
  <1>6. \A c : c \in Trim(A) <=> c \in A /\ c >= from
    BY DEF Trim
  <1>7. \A c \in listed : c <= end => c \in S
    OBVIOUS
  <1>8. \A c \in S : c \in listed /\ c <= end
    OBVIOUS
  <1> HIDE DEF S, A
  <1>9. \A c : c \in Trim(A) <=> c \in listed /\ from <= c /\ c <= end
    BY <1>1, <1>3, <1>5, <1>6, <1>8
  <1>10. A = {} => \A c \in listed : ~(c <= end)
    BY <1>3, <1>7
  <1>11. ASSUME A # {} PROVE /\ Max(A) >= from => Trim(A) # {}
                             /\ Max(A) < from => Trim(A) = {}
    <2>1. PICK m \in A : m = Max(A) /\ \A c \in A : c <= m
      BY <1>4, <1>11
    <2>2. A \in SUBSET Int
      BY <1>1, <1>3
    <2>3. m >= from => m \in Trim(A)
      BY <1>6
    <2>4. m < from => \A c \in A : ~(c >= from)
      BY <2>1, <2>2
    <2>5. m < from => Trim(A) = {}
      BY <1>6, <2>4
    <2> QED BY <2>1, <2>3, <2>5
  <1> QED BY <1>4, <1>9, <1>10, <1>11 DEF A

\* A batch that was trimmed is whole.
LEMMA TrimmedBatch ==
  ASSUME listed \in SUBSET Grid, from \in Int, NEW end \in Int, end <= from + Window,
         Trim(Answer(end)) # {}, candles' = Trim(Answer(end)), UNCHANGED <<listed, from>>
  PROVE  BatchIsWhole'
  <1>1. \A c : c \in candles' <=> c \in listed /\ from <= c /\ c <= end
    BY AnswerOf
  <1>2. listed \in SUBSET Int
    BY GridOf
  <1>3. ASSUME NEW c \in listed, NEW m \in candles', from <= c, c <= m PROVE c \in candles'
    <2>1. m \in listed /\ m <= end
      BY <1>1
    <2> QED BY <1>1, <1>2, <1>3, <2>1
  <1>4. candles' # {} /\ candles' \subseteq listed /\ \A c \in candles' : from <= c
    BY <1>1
  <1> QED BY <1>3, <1>4 DEF BatchIsWhole

\* The next batch.
LEMMA FetchStep == ASSUME CandleInv, Fetch PROVE CandleInv'
  <1> DEFINE batch == Answer(from + Window)
  <1>1. /\ at = "fetch" /\ UNCHANGED <<listed, start, to, from, retVal, written>>
        /\ at' = CASE batch = {} -> "done"
                   [] batch # {} /\ Max(batch) < from -> "probe"
                   [] OTHER -> "batch"
        /\ candles' = Trim(batch)
    BY DEF Fetch, request, Window
  <1>2. /\ listed \in SUBSET Grid /\ from \in Int /\ start \in Int /\ start <= from
        /\ from + Window \in Int /\ from + Window <= from + Window /\ Window \in Nat /\ listed \in SUBSET Int
    BY GridOf DEF CandleInv
  <1>3. PICK X \in SUBSET listed : Saved(X)
    BY DEF CandleInv
  <1>4. /\ batch = {} => \A c \in listed : ~(c <= from + Window)
        /\ batch # {} => Max(batch) \in batch /\ \A c \in batch : c <= Max(batch)
        /\ \A c : c \in Trim(batch) <=> c \in listed /\ from <= c /\ c <= from + Window
        /\ batch # {} /\ Max(batch) >= from => Trim(batch) # {}
    BY <1>2, AnswerOf
  <1>5. batch # {} => Max(batch) \in Int
    <2>1. batch \subseteq listed
      BY DEF Answer, Newest
    <2> QED BY <1>2, <1>4, <2>1
  <1>6. CASE batch = {}
    <2>1. at' = "done"
      BY <1>1, <1>6
    <2>2. \A c \in listed : ~(c <= start + Window)
      <3> TAKE c \in listed
      <3>1. ~(c <= from + Window) /\ c \in Int
        BY <1>2, <1>4, <1>6
      <3> QED BY <1>2, <3>1
    <2>3. Saved(X)'
      BY <1>1, <1>3, <2>1, <2>2 DEF Saved, Going, Ends, nextCandleStart
    <2> QED BY <1>1, <1>3, <2>1, <2>3 DEF CandleInv
  <1>7. CASE batch # {} /\ Max(batch) < from
    <2>1. at' = "probe"
      BY <1>1, <1>7
    <2>2. Saved(X)'
      BY <1>1, <1>3, <2>1 DEF Saved, Going, Ends, nextCandleStart
    <2> QED BY <1>1, <1>3, <2>1, <2>2 DEF CandleInv
  <1>8. CASE batch # {} /\ ~(Max(batch) < from)
    <2>1. at' = "batch"
      BY <1>1, <1>8
    <2>2. Saved(X)'
      BY <1>1, <1>3, <2>1 DEF Saved, Going, Ends, nextCandleStart
    <2>3. Max(batch) >= from
      BY <1>2, <1>5, <1>8
    <2>4. BatchIsWhole'
      BY <1>1, <1>2, <1>4, <1>8, <2>3, TrimmedBatch
    <2> QED BY <1>1, <1>3, <2>1, <2>2, <2>4 DEF CandleInv
  <1> QED BY <1>6, <1>7, <1>8

\* A window without a candle is passed, or the batch is found.
LEMMA ProbeStep == ASSUME CandleInv, Probe PROVE CandleInv'
  <1> DEFINE end == Min({to, WindowEnd(from)})
             batch == Answer(end)
  <1>1. /\ at = "probe" /\ UNCHANGED <<listed, start, to, retVal, written>>
        /\ IF from > to
           THEN at' = "done" /\ UNCHANGED <<from, candles>>
           ELSE IF batch # {} /\ Max(batch) >= from
                THEN at' = "batch" /\ candles' = Trim(batch) /\ UNCHANGED from
                ELSE from' = end + 1 /\ UNCHANGED <<at, candles>>
    BY DEF Probe, request, StepPast
  <1>2. /\ listed \in SUBSET Grid /\ from \in Int /\ start \in Int /\ to \in Int /\ start <= from
        /\ Window \in Nat /\ listed \in SUBSET Int
    BY GridOf DEF CandleInv
  <1>3. PICK X \in SUBSET listed : Saved(X)
    BY DEF CandleInv
  <1>4. end \in Int /\ end <= to /\ end <= from + Window /\ (end = to \/ end = from + Window)
    <2>1. WindowEnd(from) = from + Window /\ from + Window \in Int
      BY <1>2 DEF WindowEnd, Window
    <2>2. PICK e \in {to, from + Window} : \A y \in {to, from + Window} : e =< y
      <3>1. to <= from + Window \/ from + Window <= to
        BY <1>2, <2>1
      <3> QED BY <1>2, <2>1, <3>1
    <2>3. /\ Min({to, from + Window}) \in {to, from + Window}
          /\ \A y \in {to, from + Window} : Min({to, from + Window}) =< y
      BY <2>2, Zenon DEF Min
    <2> QED BY <1>2, <2>1, <2>3
  <1> HIDE DEF end
  <1>5. /\ batch = {} => \A c \in listed : ~(c <= end)
        /\ batch # {} => Max(batch) \in batch /\ \A c \in batch : c <= Max(batch)
        /\ \A c : c \in Trim(batch) <=> c \in listed /\ from <= c /\ c <= end
        /\ batch # {} /\ Max(batch) >= from => Trim(batch) # {}
        /\ batch # {} /\ Max(batch) < from => Trim(batch) = {}
    BY <1>2, <1>4, AnswerOf
  <1>6. batch # {} => Max(batch) \in Int
    <2>1. batch \subseteq listed
      BY DEF Answer, Newest
    <2> QED BY <1>2, <1>5, <2>1
  <1>7. CASE from > to
    <2>1. at' = "done" /\ UNCHANGED <<from, candles>>
      BY <1>1, <1>7
    <2>2. \A c \in listed : start <= c /\ Ends(c) => c \in X
      <3> SUFFICES ASSUME NEW c \in listed, start <= c, c + Interval <= to PROVE c \in X
        BY DEF Ends, nextCandleStart
      <3>1. c < from
        BY <1>2, <1>7, SlotsApart
      <3> QED BY <1>1, <1>3, <3>1 DEF Saved, Going, Ends, nextCandleStart
    <2>3. Saved(X)'
      BY <1>1, <1>3, <2>1, <2>2 DEF Saved, Going, Ends, nextCandleStart
    <2> QED BY <1>1, <1>3, <2>1, <2>3 DEF CandleInv
  <1>8. CASE ~(from > to) /\ batch # {} /\ Max(batch) >= from
    <2>1. at' = "batch" /\ candles' = Trim(batch) /\ UNCHANGED from
      BY <1>1, <1>8
    <2>2. Saved(X)'
      BY <1>1, <1>3, <2>1 DEF Saved, Going, Ends, nextCandleStart
    <2>3. BatchIsWhole'
      BY <1>1, <1>2, <1>4, <1>5, <1>8, <2>1, TrimmedBatch
    <2> QED BY <1>1, <1>3, <2>1, <2>2, <2>3 DEF CandleInv
  <1>9. CASE ~(from > to) /\ ~(batch # {} /\ Max(batch) >= from)
    <2>1. from' = end + 1 /\ UNCHANGED <<at, candles>>
      BY <1>1, <1>9
    <2>2. from <= end
      BY <1>2, <1>4, <1>9
    <2>3. from' \in Int /\ from < from' /\ start <= from'
      BY <1>2, <1>4, <2>1, <2>2
    <2>4. \A c \in listed : ~(from <= c /\ c < from')
      <3> TAKE c \in listed
      <3>1. ~(from <= c /\ c <= end)
        BY <1>5, <1>6, <1>9, <1>2
      <3> QED BY <1>2, <1>4, <2>1, <3>1
    <2>5. ASSUME NEW x \in X PROVE start <= x /\ x < from' /\ x <= to
      <3>1. x < from /\ x <= to /\ x \in Int /\ start <= x
        BY <1>1, <1>2, <1>3 DEF Saved, Going
      <3> QED BY <1>2, <2>3, <3>1
    <2>6. ASSUME NEW c \in listed, start <= c, c < from', Ends(c) PROVE c \in X
      <3>1. c < from
        BY <1>2, <2>3, <2>4, <2>6
      <3> QED BY <1>1, <1>3, <2>6, <3>1 DEF Saved, Going
    <2>7. Saved(X)'
      BY <1>1, <1>3, <2>1, <2>5, <2>6 DEF Saved, Going, Ends, nextCandleStart
    <2> QED BY <1>1, <1>3, <2>1, <2>3, <2>7 DEF CandleInv
  <1> QED BY <1>7, <1>8, <1>9

\* The batch is added.
LEMMA TakeStep == ASSUME CandleInv, Take PROVE CandleInv'
  <1> DEFINE last == Max(candles)
             batch == IF last + Interval > to THEN candles \ {last} ELSE candles
             top == Max(batch)
             kept == {c \in batch : c <= to}
  <1>1. /\ at = "batch" /\ UNCHANGED <<listed, start, to>>
        /\ IF batch = {}
           THEN at' = "done" /\ UNCHANGED <<from, retVal, written>>
           ELSE /\ written' = written \o Ascending(batch)
                /\ retVal' = retVal \o Ascending(kept)
                /\ IF to < top
                   THEN at' = "done" /\ UNCHANGED from
                   ELSE at' = "fetch" /\ from' = top + Interval
    BY DEF Take, request, nextCandleStart
  <1>2. /\ listed \in SUBSET Grid /\ from \in Int /\ start \in Int /\ to \in Int /\ start <= from
        /\ listed \in SUBSET Int /\ IsFiniteSet(listed) /\ Slots * Interval \in Nat
        /\ listed \in SUBSET (0..(Slots * Interval)) /\ Interval \in Nat \ {0}
    BY GridOf, SlotsApart, FS_Subset DEF CandleInv
  <1>3. PICK X \in SUBSET listed : Saved(X)
    BY DEF CandleInv
  <1>4. /\ candles # {} /\ candles \subseteq listed /\ \A c \in candles : from <= c
        /\ \A c \in listed, m \in candles : from <= c /\ c <= m => c \in candles
    BY <1>1 DEF CandleInv, BatchIsWhole
  <1>5. last \in candles /\ \A c \in candles : c <= last
    <2>1. candles \in SUBSET (0..(Slots * Interval))
      BY <1>2, <1>4
    <2> QED BY <1>2, <1>4, <2>1, GreatestNumber
  <1> HIDE DEF last
  <1>6. /\ batch \subseteq candles
        /\ \A c \in candles : c \in batch \/ (c = last /\ last + Interval > to)
    OBVIOUS
  <1>7. last \in Int /\ batch \subseteq listed /\ kept \subseteq batch
    BY <1>2, <1>4, <1>5, <1>6
  <1>8. batch # {} => top \in batch /\ \A c \in batch : c <= top
    <2>1. batch \in SUBSET (0..(Slots * Interval))
      BY <1>2, <1>7
    <2> HIDE DEF batch
    <2> QED BY <1>2, <2>1, GreatestNumber
  <1> HIDE DEF batch, top
  <1>9. /\ IsFiniteSet(X) /\ IsFiniteSet(batch) /\ IsFiniteSet(kept)
        /\ X \in SUBSET Int /\ batch \in SUBSET Int /\ kept \in SUBSET Int
    <2>1. kept \in SUBSET listed /\ batch \in SUBSET listed
      BY <1>7
    <2> HIDE DEF kept
    <2> QED BY <1>2, <2>1, FS_Subset
  <1>10. ASSUME NEW x \in X PROVE x < from /\ x <= to /\ start <= x /\ x \in Int
    BY <1>1, <1>3, <1>9 DEF Saved, Going
  <1>11. ASSUME NEW c \in listed, start <= c, c < from, Ends(c) PROVE c \in X
    BY <1>1, <1>3, <1>11 DEF Saved, Going
  <1>12. \A c \in batch : from <= c /\ c \in Int
    BY <1>4, <1>6, <1>9
  <1>13. ASSUME NEW c \in listed, from <= c, c <= last, Ends(c) PROVE c \in batch
    <2>1. c \in candles /\ c + Interval <= to
      BY <1>4, <1>5, <1>13 DEF Ends, nextCandleStart
    <2>2. c \in Int
      BY <1>2
    <2> QED BY <1>2, <1>6, <1>7, <2>1, <2>2
  <1>14. CASE batch = {}
    <2>1. at' = "done" /\ UNCHANGED <<from, retVal, written>>
      BY <1>1, <1>14
    <2>2. ASSUME NEW c \in listed, start <= c, Ends(c) PROVE c \in X
      <3>1. last + Interval > to
        BY <1>5, <1>6, <1>14
      <3>2. c + Interval <= to /\ c \in Int
        BY <1>2, <2>2 DEF Ends, nextCandleStart
      <3>3. c <= last
        BY <1>2, <1>7, <3>1, <3>2
      <3>4. ~(from <= c)
        BY <1>13, <1>14, <2>2, <3>3
      <3>5. c < from
        BY <1>2, <3>2, <3>4
      <3> QED BY <1>11, <2>2, <3>5
    <2>3. Saved(X)'
      BY <1>1, <1>3, <2>1, <2>2 DEF Saved, Going, Ends, nextCandleStart
    <2> QED BY <1>1, <1>3, <2>1, <2>3 DEF CandleInv
  <1>15. PICK Y \in SUBSET listed : Y = X \cup batch
    BY <1>7
  <1>16. ASSUME batch # {}
         PROVE  /\ written' = Ascending(Y) /\ retVal' = Ascending({x \in Y : x <= to})
                /\ \A x \in Y : start <= x
    <2>1. \A a \in X, b \in batch : a < b
      BY <1>2, <1>10, <1>12
    <2>2. Ascending(X) \o Ascending(batch) = Ascending(X \cup batch)
      BY <1>9, <2>1, AscendingJoins
    <2> DEFINE early == {x \in X : x <= to}
    <2>3. early = X
      BY <1>10
    <2>4. \A a \in X, b \in kept : a < b
      BY <1>7, <2>1
    <2>5. Ascending(X) \o Ascending(kept) = Ascending(X \cup kept)
      <3> HIDE DEF kept
      <3> QED BY <1>9, <2>4, AscendingJoins
    <2>6. X \cup kept = {x \in X \cup batch : x <= to}
      BY <1>10
    <2>7. \A x \in batch : start <= x
      BY <1>2, <1>12
    <2>8. written' = written \o Ascending(batch) /\ retVal' = retVal \o Ascending(kept)
      BY <1>1, <1>16
    <2>9. written = Ascending(X) /\ retVal = Ascending(X)
      BY <1>3, <2>3 DEF Saved
    <2> QED BY <1>15, <1>10, <2>2, <2>5, <2>6, <2>7, <2>8, <2>9
  <1>17. CASE batch # {} /\ to < top
    <2>1. at' = "done" /\ UNCHANGED from
      BY <1>1, <1>17
    <2>2. top \in candles /\ top \in Int /\ top <= last
      BY <1>5, <1>6, <1>8, <1>9, <1>17
    <2>3. ASSUME NEW c \in listed, start <= c, Ends(c) PROVE c \in Y
      <3>1. c + Interval <= to /\ c \in Int
        BY <1>2, <2>3 DEF Ends, nextCandleStart
      <3>2. c <= last
        BY <1>2, <1>7, <1>17, <2>2, <3>1
      <3>3. CASE from <= c
        BY <1>15, <1>13, <2>3, <3>2, <3>3
      <3>4. CASE c < from
        BY <1>15, <1>11, <2>3, <3>4
      <3> QED BY <1>2, <3>1, <3>3, <3>4
    <2>4. Saved(Y)'
      BY <1>1, <1>16, <1>17, <2>1, <2>3 DEF Saved, Going, Ends, nextCandleStart
    <2> QED BY <1>1, <1>2, <1>17, <2>1, <2>4 DEF CandleInv
  <1>18. CASE batch # {} /\ ~(to < top)
    <2>1. at' = "fetch" /\ from' = top + Interval
      BY <1>1, <1>18
    <2>2. top \in candles /\ top \in Int /\ top <= last /\ from <= top /\ top \in listed
      BY <1>4, <1>5, <1>6, <1>8, <1>9, <1>18
    <2>3. from' \in Int /\ from < from' /\ start <= from'
      BY <1>2, <2>1, <2>2
    <2>4. ASSUME NEW x \in Y PROVE x < from' /\ x <= to
      <3>1. CASE x \in X
        BY <1>2, <1>10, <2>3, <3>1
      <3>2. CASE x \in batch
        <4>1. x <= top /\ x \in Int
          BY <1>8, <1>12, <1>18, <3>2
        <4> QED BY <1>2, <1>18, <2>1, <2>2, <4>1
      <3> QED BY <1>15, <3>1, <3>2
    <2>5. ASSUME NEW c \in listed, start <= c, c < from', Ends(c) PROVE c \in Y
      <3>1. c \in Int /\ c \in Grid /\ top \in Grid
        BY <1>2, <2>2
      <3>2. c <= top
        <4>1. top < c => top + Interval <= c
          BY <3>1, GridOf
        <4> QED BY <1>2, <2>1, <2>2, <2>5, <3>1, <4>1
      <3>3. CASE from <= c
        <4>1. c <= last
          BY <1>7, <2>2, <3>1, <3>2
        <4> QED BY <1>15, <1>13, <2>5, <3>3, <4>1
      <3>4. CASE c < from
        BY <1>15, <1>11, <2>5, <3>4
      <3> QED BY <1>2, <3>1, <3>3, <3>4
    <2>6. Saved(Y)'
      BY <1>1, <1>16, <1>18, <2>1, <2>4, <2>5 DEF Saved, Going, Ends, nextCandleStart
    <2> QED BY <1>1, <1>2, <1>18, <2>1, <2>3, <2>6 DEF CandleInv
  <1> QED BY <1>14, <1>17, <1>18

\* A sequence is a prefix of what is made by appending to it.
LEMMA PrefixOfConcat ==
  ASSUME NEW s \in Seq(Int), NEW t \in Seq(Int)
  PROVE  IsPrefix(s, s \o t)
  <1> DEFINE u == s \o t
             n == Len(s)
  <1>1. n \in Nat /\ u \in Seq(Int) /\ n <= Len(u) /\ \A i \in 1..n : u[i] = s[i]
    BY ConcatOf
  <1> HIDE DEF u, n
  <1>2. SubSeq(s, 1, n) \in Seq(Int) /\ Len(SubSeq(s, 1, n)) = n /\ \A i \in 1..n : SubSeq(s, 1, n)[i] = s[i]
    BY <1>1 DEF n
  <1>3. SubSeq(u, 1, n) \in Seq(Int) /\ Len(SubSeq(u, 1, n)) = n /\ \A i \in 1..n : SubSeq(u, 1, n)[i] = u[i]
    BY <1>1
  <1>4. SubSeq(s, 1, n) = SubSeq(u, 1, n)
    BY <1>1, <1>2, <1>3
  <1> QED BY <1>1, <1>4 DEF IsPrefix, u, n

\* The invariant gives the property.
LEMMA CandlesComplete == CandleInv => Complete
  <1> SUFFICES ASSUME CandleInv PROVE Complete  OBVIOUS
  <1>1. listed \in SUBSET Grid /\ to \in Int /\ listed \in SUBSET Int
    BY GridOf DEF CandleInv
  <1>2. PICK X \in SUBSET listed : Saved(X)
    BY DEF CandleInv
  <1> DEFINE L == {x \in X : x <= to}
             H == {x \in X : ~(x <= to)}
  <1>3. /\ IsFiniteSet(X) /\ X \in SUBSET Int /\ IsFiniteSet(L) /\ L \in SUBSET Int
        /\ IsFiniteSet(H) /\ H \in SUBSET Int
    <2>1. X \in SUBSET Grid /\ L \in SUBSET Grid /\ H \in SUBSET Grid
      BY <1>1
    <2> HIDE DEF L, H
    <2> QED BY <2>1, GridOf, FS_Subset
  <1>4. written = Ascending(X) /\ retVal = Ascending(L)
    BY <1>2 DEF Saved
  <1>5. /\ written \in Seq(X) /\ Increasing(written)
        /\ retVal \in Seq(L) /\ Onto(retVal, L)
        /\ Ascending(H) \in Seq(H)
    <2> HIDE DEF L, H
    <2> QED BY <1>3, <1>4, AscendingSorts
  <1>6. IsPrefix(retVal, written)
    <2>1. \A a \in L, b \in H : a < b
      BY <1>1, <1>3
    <2>2. L \cup H = X
      OBVIOUS
    <2> HIDE DEF L, H
    <2>3. Ascending(L) \o Ascending(H) = Ascending(X)
      BY <1>3, <2>1, <2>2, AscendingJoins
    <2>4. retVal \in Seq(Int) /\ Ascending(H) \in Seq(Int)
      BY <1>3, <1>5, NumberSeq
    <2>5. IsPrefix(retVal, retVal \o Ascending(H))
      BY <2>4, PrefixOfConcat
    <2> QED BY <1>4, <2>3, <2>5
  <1>7. InOrder
    <2>1. written \in Seq(Int) /\ Len(written) \in Nat /\ \A i \in 1..Len(written) : written[i] \in X
      BY <1>3, <1>5, NumberSeq
    <2> SUFFICES ASSUME NEW i \in 1..Len(written)
                 PROVE  written[i] >= start /\ \A j \in 1..(i - 1) : written[j] < written[i]
      BY <1>6, <2>1 DEF InOrder
    <2>2. written[i] >= start
      BY <1>2, <2>1, <1>3 DEF Saved, CandleInv
    <2>3. ASSUME NEW j \in 1..(i - 1) PROVE written[j] < written[i]
      <3>1. j \in 1..Len(written) /\ j < i
        BY <2>1
      <3> QED BY <1>5, <3>1 DEF Increasing
    <2> QED BY <2>2, <2>3
  <1>8. ASSUME at = "done", \E c \in listed : c <= start + Window,
               NEW c \in listed, start <= c, nextCandleStart(c) <= to
        PROVE  Contains(retVal, c)
    <2>1. c \in X
      BY <1>2, <1>8 DEF Saved, Ends
    <2>2. c <= to
      <3>1. c \in Int /\ c + Interval <= to
        BY <1>1, <1>8 DEF nextCandleStart
      <3> QED BY <1>1, <3>1, SlotsApart
    <2>3. c \in L
      BY <2>1, <2>2
    <2> HIDE DEF L
    <2> QED BY <1>5, <2>3 DEF Onto, Contains
  <1> QED BY <1>7, <1>8 DEF Complete, Window

\* For any listing, interval, batch size and period: a download that ends returns every
\* candle of the period, and what was written is always in order, none twice.
THEOREM CandlesAreWhole == LoopsSpec => []Complete
  <1> DEFINE Inv == IF task = "candles" THEN CandleInv ELSE CandlesParked
  <1>1. LoopsInit => Inv
    BY CandleInit DEF LoopsInit
  <1>2. Inv /\ [LoopsNext]_loopVars => Inv'
    <2> SUFFICES ASSUME Inv, [LoopsNext]_loopVars PROVE Inv'
      OBVIOUS
    <2>1. task' = task
      BY DEF LoopsNext, loopVars
    <2>2. CASE task = "candles" /\ Next
      <3>1. CandleInv
        BY <2>2
      <3>2. CASE RequestFails
        <4>1. PICK X \in SUBSET listed : Saved(X)
          BY <3>1 DEF CandleInv
        <4>2. at' = "failed" /\ UNCHANGED <<listed, start, to, from, candles, retVal, written>>
          BY <3>2 DEF RequestFails, request
        <4>3. Saved(X)'
          BY <4>1, <4>2 DEF Saved, Going
        <4>4. CandleInv'
          BY <3>1, <4>1, <4>2, <4>3 DEF CandleInv
        <4> QED BY <2>1, <2>2, <4>4
      <3>3. CASE Fetch \/ Probe \/ Take
        <4>1. CandleInv'
          BY <3>1, <3>3, FetchStep, ProbeStep, TakeStep
        <4> QED BY <2>1, <2>2, <4>1
      <3> QED BY <2>2, <3>2, <3>3 DEF Next
    <2>3. CASE UNCHANGED candleVars
      <3>1. UNCHANGED <<listed, start, from, to, candles, retVal, written, at>>
        BY <2>3 DEF candleVars, vars
      <3>2. CASE task = "candles"
        <4>1. CandleInv
          BY <3>2
        <4>2. PICK X \in SUBSET listed : Saved(X)
          BY <4>1 DEF CandleInv
        <4>3. Saved(X)'
          BY <3>1, <4>2 DEF Saved, Going, Ends, nextCandleStart
        <4>4. CandleInv'
          BY <3>1, <4>1, <4>2, <4>3 DEF CandleInv, BatchIsWhole
        <4> QED BY <2>1, <3>2, <4>4
      <3>3. CASE task # "candles"
        BY <2>1, <3>1, <3>3 DEF CandlesParked
      <3> QED BY <3>2, <3>3
    <2> QED BY <2>2, <2>3 DEF LoopsNext, loopVars, candleVars
  <1>3. Inv => Complete
    <2>1. ASSUME CandlesParked PROVE Complete
      <3>1. written = <<>> /\ retVal = <<>> /\ at = "parked"
        BY <2>1 DEF CandlesParked
      <3> QED BY <3>1 DEF Complete, InOrder, IsPrefix
    <2> QED BY <2>1, CandlesComplete
  <1> QED BY <1>1, <1>2, <1>3, PTL DEF LoopsSpec

============================================================================
