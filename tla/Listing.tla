-------------------------------- MODULE Listing --------------------------------
(* A list of the workspace and the pages it is read in: CrudService.list seeks *)
(* by creation time and id, one row beyond the page telling that there is more *)
(* (crud.service.ts, pagination.ts); the page in the browser keeps what it has *)
(* loaded, searches after a pause, appends on "Load more" and reloads after a  *)
(* change (resource.ts, resource-page.tsx). Rows come and go meanwhile, and    *)
(* requests are answered and their answers arrive in any order.                *)
EXTENDS Naturals, Sequences, FiniteSets

CONSTANTS
  Rows,      \* the rows there may ever be: [time, id]
  PageSize,     \* rows of a page
  All, Word, \* no search, and one that finds some of the rows
  Names,     \* the sets of rows the search may find at first
  NoRow,
  MaxFlights, \* bound: requests under way
  MaxLoads,  \* bound: requests for a page
  MaxChanges \* bound: changes of the rows

ASSUME ListingAssumption ==
  /\ Rows \subseteq [time : Nat, id : Nat] /\ IsFiniteSet(Rows)
  /\ NoRow \notin Rows /\ All # Word /\ NoRow \notin {All, Word}
  /\ Names \subseteq SUBSET Rows
  /\ PageSize \in Nat \ {0} /\ MaxFlights \in Nat /\ MaxLoads \in Nat /\ MaxChanges \in Nat

VARIABLES
  standing, named,  \* the rows not deleted, and those the search finds
  everMade,             \* the rows that were ever created
  shown, search, cursor, hasMore, loading, error,  \* the state of useList
  typed,            \* whether the pause after the last change of the search goes on
  saving,           \* the search of the page when a change was sent, until it is answered
  flights,          \* requests for a page, with their answers
  steady,           \* rows found ever since the first page was read
  shownFor, found,  \* the search of the first page, and the rows it found when it was read
  clean,            \* whether no other request disturbed what is shown
  loads, changes

dataVars == <<standing, named, everMade, changes>>
pageVars == <<shown, search, cursor, hasMore, loading, error, typed, saving>>
firstVars == <<shownFor, found>>
listingVars == <<dataVars, pageVars, flights, steady, firstVars, clean, loads>>

\* A request for a page, or its answer.
Flight ==
  [n : Nat, append : BOOLEAN, search : {All, Word}, cursor : Rows \cup {NoRow},
   state : {"asked", "answered"}, data : Seq(Rows), more : BOOLEAN, alone : BOOLEAN]

ListingTypeOK ==
  /\ standing \subseteq everMade /\ named \subseteq Rows /\ everMade \subseteq Rows
  /\ steady \subseteq standing /\ found \subseteq Rows
  /\ shown \in Seq(Rows)
  /\ search \in {All, Word} /\ shownFor \in {All, Word}
  /\ cursor \in Rows \cup {NoRow} /\ (hasMore <=> cursor # NoRow)
  /\ loading \in BOOLEAN /\ error \in BOOLEAN /\ typed \in BOOLEAN /\ clean \in BOOLEAN
  /\ saving \in {All, Word, NoRow}
  /\ loads \in 0..MaxLoads /\ changes \in 0..MaxChanges
  /\ flights \subseteq Flight /\ \A f \in flights : f.n <= loads

ListingInit ==
  /\ standing \in SUBSET Rows
  /\ everMade = standing
  /\ named \in Names
  /\ shown = <<>> /\ search = All /\ cursor = NoRow /\ hasMore = FALSE
  /\ loading = TRUE /\ error = FALSE
  /\ typed = TRUE     \* the first load waits for no pause, but for the effect
  /\ saving = NoRow
  /\ flights = {} /\ steady = {} /\ shownFor = All /\ found = {} /\ clean = FALSE
  /\ loads = 0 /\ changes = 0

-----------------------------------------------------------------------------
(* The API *)

\* A row is created. Its time is that of a transaction others may have overtaken.
Create(r) ==
  /\ r \in Rows \ everMade
  /\ everMade' = everMade \cup {r}
  /\ standing' = standing \cup {r}
  /\ UNCHANGED <<named, pageVars, flights, steady, firstVars, clean, loads>>

\* remove and bulkRemove: deletedAt.
Delete(r) ==
  /\ r \in standing
  /\ standing' = standing \ {r}
  /\ steady' = steady \ {r}
  /\ UNCHANGED <<named, everMade, pageVars, flights, firstVars, clean, loads>>

\* update: the search finds the row, or no longer does.
Update(r) ==
  /\ r \in standing
  /\ named' = IF r \in named THEN named \ {r} ELSE named \cup {r}
  /\ steady' = IF shownFor = Word THEN steady \ {r} ELSE steady
  /\ UNCHANGED <<standing, everMade, pageVars, flights, firstVars, clean, loads>>

\* Newest first, and by id among those of one time.
Newer(r, s) == r.time > s.time \/ (r.time = s.time /\ r.id > s.id)

\* Seeded fault: the id does not break ties.
BeyondTime(r, c) == r.time < c.time

\* The rows a page after the cursor may have.
Beyond(r, c) == Newer(c, r)

\* The condition of the cursor replaces that of the search: both are written to `OR`.
Candidates(s, c) ==
  IF c # NoRow THEN {r \in standing : Beyond(r, c)}
  ELSE IF s = Word THEN standing \cap named ELSE standing

\* The rows of S in the order of the list.
InOrder(S) ==
  [i \in 1..Cardinality(S) |-> CHOOSE r \in S : Cardinality({s \in S : Newer(s, r)}) = i - 1]

\* buildPage.
More(S) == Cardinality(S) > PageSize
PageOf(S) == IF More(S) THEN SubSeq(InOrder(S), 1, PageSize) ELSE InOrder(S)

\* CrudService.list.
WithPage(f, S) == [f EXCEPT !.state = "answered", !.data = PageOf(S), !.more = More(S)]
Becomes(f, g) == flights' = (flights \ {f}) \cup {g}

List(f) ==
  /\ f.state = "asked"
  /\ Becomes(f, WithPage(f, Candidates(f.search, f.cursor)))
  /\ IF f.append THEN UNCHANGED <<steady, firstVars>>
     ELSE /\ steady' = Candidates(f.search, NoRow)
          /\ found' = Candidates(f.search, NoRow)
          /\ shownFor' = f.search
  /\ UNCHANGED <<dataVars, pageVars, clean, loads>>

-----------------------------------------------------------------------------
(* The page *)

\* A request, with whether no other is under way and it is for the search that is.
Flying(append, s, c, alone) ==
  [n |-> loads + 1, append |-> append, search |-> s, cursor |-> c, state |-> "asked",
   data |-> <<>>, more |-> FALSE, alone |-> alone]

Disturbed(f) == [f EXCEPT !.alone = FALSE]

\* load(). It looks at no other request that is under way, and they are disturbed by it.
Ask(append, s, c) ==
  /\ loads < MaxLoads
  /\ Cardinality(flights) < MaxFlights
  /\ loads' = loads + 1
  /\ flights' = {Disturbed(f) : f \in flights} \cup
       {Flying(append, s, c, flights = {} /\ s = search)}
  /\ loading' = TRUE
  /\ error' = FALSE
  /\ UNCHANGED <<dataVars, shown, search, cursor, hasMore, steady, firstVars, clean>>

\* Every change of the search begins the pause anew.
Type ==
  /\ search' \in {All, Word} \ {search}
  /\ typed' = TRUE
  /\ UNCHANGED <<dataVars, shown, cursor, hasMore, loading, error, saving, flights, steady,
                 firstVars, clean, loads>>

Pause == typed /\ typed' = FALSE /\ Ask(FALSE, search, NoRow) /\ UNCHANGED saving

\* "Load more" is there when rows are, and not while something loads.
LoadMore ==
  /\ hasMore /\ ~ loading /\ ~ error /\ shown # <<>>
  /\ Ask(TRUE, search, cursor)
  /\ UNCHANGED <<typed, saving>>

Retry == error /\ Ask(FALSE, search, NoRow) /\ UNCHANGED <<typed, saving>>

\* A change is sent, and when it has been made the list is reloaded by the function of the
\* rendering that sent it.
SendChange ==
  /\ saving = NoRow
  /\ saving' = search
  /\ UNCHANGED <<dataVars, shown, search, cursor, hasMore, loading, error, typed, flights,
                 steady, firstVars, clean, loads>>

ChangeMade == saving # NoRow /\ saving' = NoRow /\ Ask(FALSE, saving, NoRow) /\ UNCHANGED typed

ChangeFailed ==
  /\ saving # NoRow
  /\ saving' = NoRow
  /\ UNCHANGED <<dataVars, shown, search, cursor, hasMore, loading, error, typed, flights,
                 steady, firstVars, clean, loads>>

Oldest(rows) == rows[Len(rows)]

\* An answer arrives.
Receive(f) ==
  /\ f.state = "answered"
  /\ flights' = flights \ {f}
  /\ shown' = IF f.append THEN shown \o f.data ELSE f.data
  /\ hasMore' = f.more
  /\ cursor' = IF f.more THEN Oldest(f.data) ELSE NoRow
  /\ loading' = FALSE
  /\ clean' = (f.alone /\ (f.append => clean))
  /\ UNCHANGED <<dataVars, search, error, typed, saving, steady, firstVars, loads>>

\* The request, or its answer, is lost.
LosePage(f) ==
  /\ flights' = flights \ {f}
  /\ loading' = FALSE
  /\ error' = TRUE
  /\ UNCHANGED <<dataVars, shown, search, cursor, hasMore, typed, saving, steady, firstVars, clean,
                 loads>>

DataStep ==
  /\ changes < MaxChanges
  /\ changes' = changes + 1
  /\ \E r \in Rows : Create(r) \/ Delete(r) \/ Update(r)

PageStep == Type \/ Pause \/ LoadMore \/ Retry \/ SendChange \/ ChangeMade \/ ChangeFailed

ListingNext ==
  DataStep \/ PageStep \/ \E f \in flights : List(f) \/ LosePage(f) \/ Receive(f)

ListingSpec == ListingInit /\ [][ListingNext]_listingVars

-----------------------------------------------------------------------------

\* Nothing is under way and nothing has failed.
AtRest == flights = {} /\ ~ typed /\ ~ error

\* "Results stay consistent under concurrent writes" (pagination.ts:10-18), as long as no
\* two requests of the page overlapped and none was for an older search: however rows come
\* and go between its pages, no row is shown twice or out of order; at rest the first page is
\* for the search that is and has only rows that search found; and at the end of the list no
\* row is missing that the search has found all along. It says nothing of what else the
\* pages after the first have: their cursor replaces the search, so that they show rows the
\* search does not find (crud.service.ts:103, :124).
ListingSound ==
  clean =>
    /\ \A i, j \in DOMAIN shown : i < j => Newer(shown[i], shown[j])
    /\ AtRest =>
         /\ shownFor = search
         /\ \A i \in DOMAIN shown : i <= PageSize => shown[i] \in found
    /\ AtRest /\ ~ hasMore => steady \subseteq {shown[i] : i \in DOMAIN shown}
=============================================================================
