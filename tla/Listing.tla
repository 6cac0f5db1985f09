------------------------------ MODULE Listing ------------------------------
(***************************************************************************)
(* The lists the REST client reads page by page along the venue's cursor   *)
(* (bybit_rest_client.cpp).  getPositionInfo(), getOpenOrders() and        *)
(* getInstrumentsInfo() follow the cursor until it is empty;               *)
(* getExecutions() also gives up on a cursor that repeats and after        *)
(* MAX_PAGES pages.  While the pages are read the list changes.            *)
(*                                                                         *)
(* An item is a number, its place in the venue's order; a cursor is the    *)
(* last item of a page, 0 the empty cursor.                                *)
(***************************************************************************)
EXTENDS Naturals, FiniteSets, FiniteSetsExt

CONSTANTS
  limit,      \* items of one page
  MAX_PAGES,  \* pages getExecutions() reads
  Items       \* bound: the items there ever are, 1..n

VARIABLES
  guarded,    \* the loop is getExecutions()'s
  broken,     \* the venue may answer with the cursor it was given
  book, ever, \* the venue's items, and those there have been
  stayed,     \* the items that were there all the time
  cursor,     \* the loop's cursor
  pages,      \* the pages read, where the loop counts them
  got, twice, \* the items read, and whether one of them came twice
  at

venue == <<book, ever, stayed>>
setup == <<guarded, broken>>
vars  == <<setup, venue, cursor, pages, got, twice, at>>

Init ==
  /\ guarded \in BOOLEAN /\ broken \in BOOLEAN
  /\ book \in SUBSET Items /\ ever = book /\ stayed = book
  /\ cursor = 0 /\ pages = 0 /\ got = {} /\ twice = FALSE /\ at = "page"

\* The venue: the first items behind the cursor, and a cursor if there are more.  The
\* last page may still carry one, and an empty page follows.
Behind(c) == {i \in book : i > c}
Answer(c) == {i \in Behind(c) : Cardinality({j \in Behind(c) : j < i}) < limit}
NextCursors(c, page) ==
  (CASE page = {}        -> {0}
     [] page # {} /\ page = Behind(c) -> {0, Max(page)}
     [] OTHER            -> {Max(page)})
  \cup (IF broken /\ c # 0 THEN {c} ELSE {})

\* What the loop makes of the next cursor.
CursorRepeated_Mutant(next) == FALSE
CursorRepeated(next) == guarded /\ next = cursor
TooManyPages == guarded /\ pages + 1 = MAX_PAGES
AfterPage(next) ==
  IF next = 0 THEN "done" ELSE IF CursorRepeated(next) \/ TooManyPages THEN "failed" ELSE "page"

\* One more page, in one request.
ReadPage ==
  /\ at = "page"
  /\ LET page == Answer(cursor)
     IN  \E next \in NextCursors(cursor, page) :
           /\ got' = got \cup page /\ twice' = (twice \/ page \cap got # {})
           /\ cursor' = next
           /\ at' = AfterPage(next)
  /\ pages' = IF guarded THEN pages + 1 ELSE pages
  /\ UNCHANGED <<setup, venue>>

\* A page that cannot be read throws, whatever was read before.
AfterFailure == "failed"
PageFails ==
  /\ at = "page" /\ at' = AfterFailure
  /\ UNCHANGED <<setup, venue, cursor, pages, got, twice>>

\* The list changes: an order is placed, filled or cancelled, an instrument listed.
Opens(i) ==
  /\ at = "page" /\ i \notin ever
  /\ book' = book \cup {i} /\ ever' = ever \cup {i}
  /\ UNCHANGED <<setup, stayed, cursor, pages, got, twice, at>>
Closes(i) ==
  /\ at = "page" /\ i \in book
  /\ book' = book \ {i} /\ stayed' = stayed \ {i}
  /\ UNCHANGED <<setup, ever, cursor, pages, got, twice, at>>

Next == ReadPage \/ PageFails \/ \E i \in Items : Opens(i) \/ Closes(i)

Spec == Init /\ [][Next]_vars
\* The loop is one thread's, and every request ends.
FairSpec == Spec /\ WF_vars(ReadPage)

-----------------------------------------------------------------------------
\* A list that is returned is whole: it has every item that was there from the first
\* page to the last, however the list changed meanwhile, whatever page failed and
\* however many pages there are ("partial data is never returned").  And no item comes
\* twice in it, unless the venue repeated a cursor to a loop that does not mind.
NeverPartial ==
  at = "done" => /\ stayed \subseteq got
                 /\ twice => broken /\ ~guarded

\* getExecutions() ends whatever cursors the venue gives out; the other loops end if
\* the venue's cursors advance.
ListingEnds == <>(at # "page" \/ (broken /\ ~guarded))

============================================================================
