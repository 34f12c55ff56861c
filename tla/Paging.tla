------------------------------- MODULE Paging -------------------------------
(***************************************************************************)
(* The rows of a ready job, page by page: the window GET /jobs/{id}/data   *)
(* answers with (crates/api/src/jobs/handlers.rs) and the table of the job *)
(* page that asks for it (components/data-table.tsx).                      *)
(*                                                                         *)
(* Every click that changes page or sorting starts a request of its own,   *)
(* and whichever answer arrives last is what the table shows.  ClickHouse  *)
(* orders rows no further than ORDER BY says, in each query anew.          *)
(***************************************************************************)
EXTENDS Naturals, FiniteSets, Sequences, SequencesExt

CONSTANTS
    MaxRows,        \* bound: rows of the table
    MaxPageSize,    \* MAX_PAGE_SIZE
    MaxOffset,      \* MAX_OFFSET
    MaxInFlight     \* bound: requests of the table in flight

ASSUME PagingAssumption ==
    /\ MaxRows \in Nat
    /\ MaxPageSize \in Nat \ {0}
    /\ MaxOffset \in Nat
    /\ MaxInFlight \in Nat \ {0}

VARIABLES
    rows,       \* row_count of the job
    size,       \* PAGE_SIZE of the table
    page,       \* the page the table is on
    sort,       \* the column it sorts by and the direction
    data,       \* the last page of rows received
    error,      \* why there is an error in its place
    loading,    \* whether the buttons are disabled
    inFlight,   \* requests sent and not answered
    raced,      \* history: sorting was changed with a request in flight
    walk        \* history: rows shown going from page 1 by Next alone

vars == <<rows, size, page, sort, data, error, loading, inFlight, raced, walk>>

\* The columns of the schema: no two rows agree on id, several do on group.
Schema == {"id", "group"}

Value(c, r) == IF c = "id" THEN r ELSE r % 2

NoSort == <<"none", "asc">>

Sorts == {NoSort} \cup Schema \X {"asc", "desc"}

NoData == [page |-> 0, sort |-> NoSort, size |-> 1, total |-> 0, rows |-> {}]

Requests == [page : Nat \ {0}, sort : Sorts]

-----------------------------------------------------------------------------
(***************************************************************************)
(* get_data.                                                               *)
(***************************************************************************)
AtMost(n, bound) == IF n < bound THEN n ELSE bound

\* page_size of an answer: clamped.
PageSize == AtMost(size, MaxPageSize)

\* Mutant: pages counted from zero.
OffsetFromZero(req) == req.page * PageSize

Offset(req) == (req.page - 1) * PageSize

\* Mutant: the depth of a page is not checked.
ServableAnyDepth(req) == req.sort = NoSort \/ req.sort[1] \in Schema

\* Mutant: an off-by-one in the limit.
ServableBelow(req) == Offset(req) < MaxOffset

\* Pages too deep are refused, and so is a column the schema does not have.
Servable(req) ==
    /\ Offset(req) <= MaxOffset
    /\ req.sort = NoSort \/ req.sort[1] \in Schema

\* Whether ORDER BY puts row r before row s.
Before(r, s, by) ==
    /\ by # NoSort
    /\ IF by[2] = "asc" THEN Value(by[1], r) < Value(by[1], s)
                        ELSE Value(by[1], r) > Value(by[1], s)

\* The sets of rows that positions first + 1 .. last of n rows may hold,
\* whatever order ClickHouse gives to rows that ORDER BY leaves in any order.
Selection(n, by, first, last) ==
    LET Ahead(r) == Cardinality({s \in 1 .. n : Before(s, r, by)})
        Behind(r) == Cardinality({s \in 1 .. n : Before(r, s, by)})
        possible == {r \in 1 .. n : Ahead(r) < last /\ n - Behind(r) > first}
        sure == {r \in possible : Ahead(r) >= first /\ n - Behind(r) <= last}
    IN  {w \in SUBSET possible : sure \subseteq w /\ Cardinality(w) = last - first}

\* A table of them, which TLC evaluates once.
Selections ==
    [q \in (0 .. MaxRows) \X Sorts \X (0 .. MaxRows) \X (0 .. MaxRows) |->
        Selection(q[1], q[2], q[3], q[4])]

\* LIMIT and OFFSET.
Windows(req) ==
    Selections[<<rows, req.sort, AtMost(Offset(req), rows), AtMost(Offset(req) + PageSize, rows)>>]

Answer(req, w) ==
    [page |-> req.page, sort |-> req.sort, size |-> PageSize, total |-> rows, rows |-> w]

-----------------------------------------------------------------------------
(***************************************************************************)
(* The table.                                                              *)
(***************************************************************************)
TypeOK ==
    /\ rows \in 0 .. MaxRows
    /\ size \in 1 .. MaxPageSize + 1
    /\ page \in Nat \ {0}
    /\ sort \in Sorts
    /\ data = NoData \/ /\ [page |-> data.page, sort |-> data.sort] \in Requests
                        /\ data = Answer(data, data.rows)
    /\ data.rows \subseteq 1 .. rows
    /\ error \in {"none", "refused", "failed"}
    /\ loading \in BOOLEAN
    /\ inFlight \in Seq(Requests) /\ Len(inFlight) <= MaxInFlight
    /\ raced \in BOOLEAN
    /\ walk \in [last : Nat, seen : SUBSET (1 .. rows), shown : Nat]

NoWalk == [last |-> 0, seen |-> {}, shown |-> 0]

Init ==
    /\ rows \in 0 .. MaxRows
    /\ size \in 1 .. MaxPageSize + 1
    /\ page = 1
    /\ sort = NoSort
    /\ data = NoData
    /\ error = "none"
    /\ loading = TRUE
    /\ inFlight = <<[page |-> 1, sort |-> NoSort]>>
    /\ raced = FALSE
    /\ walk = NoWalk

TotalPages ==
    IF data.total = 0 THEN 1 ELSE (data.total + data.size - 1) \div data.size

\* An error takes the place of the table and its buttons.
Visible == error = "none" /\ data # NoData

\* Mutant: the buttons stay enabled while a page loads.
EnabledAlways == Visible

Enabled == Visible /\ ~loading

\* Mutant: load is not run again when the page alone changes.
LoadSorted(p, s) ==
    /\ page' = p
    /\ sort' = s
    /\ inFlight' = IF s = sort THEN inFlight ELSE Append(inFlight, [page |-> p, sort |-> s])
    /\ loading' = (loading \/ s # sort)

\* load runs whenever the page or the sorting has changed.
Load(p, s) ==
    /\ page' = p
    /\ sort' = s
    /\ inFlight' = Append(inFlight, [page |-> p, sort |-> s])
    /\ loading' = TRUE

Turn(p) ==
    /\ Enabled
    /\ Len(inFlight) < MaxInFlight
    /\ Load(p, sort)
    /\ UNCHANGED <<rows, size, data, error, raced, walk>>

NextPage == page < TotalPages /\ Turn(page + 1)

\* Mutant: Previous is enabled on the first page.
PreviousAlways == Turn(page - 1)

PreviousPage == page > 1 /\ Turn(page - 1)

\* toggleSort: ascending, descending, unsorted.
Toggled(c) ==
    CASE sort = <<c, "asc">>  -> <<c, "desc">>
      [] sort = <<c, "desc">> -> NoSort
      [] OTHER                -> <<c, "asc">>

\* The headers are not disabled while rows load.
ToggleSort(c) ==
    /\ Visible
    /\ Len(inFlight) < MaxInFlight
    /\ Load(1, Toggled(c))
    /\ raced' = (raced \/ inFlight # <<>>)
    /\ UNCHANGED <<rows, size, data, error, walk>>

\* What a walk has shown once the page d of rows is added to it.
Walked(d) ==
    IF d.page = 1 THEN [last |-> 1, seen |-> d.rows, shown |-> Cardinality(d.rows)]
    ELSE IF walk.last > 0 /\ d.page = walk.last + 1 /\ d.sort = data.sort
    THEN [last |-> d.page, seen |-> walk.seen \cup d.rows,
          shown |-> walk.shown + Cardinality(d.rows)]
    ELSE NoWalk

\* An answer arrives, in any order.
Receive(i) ==
    /\ inFlight' = RemoveAt(inFlight, i)
    /\ loading' = FALSE
    /\ LET req == inFlight[i]
       IN  \/ /\ Servable(req)
              /\ error' = "none"
              /\ \E w \in Windows(req) :
                     data' = Answer(req, w) /\ walk' = Walked(Answer(req, w))
           \/ /\ ~Servable(req)
              /\ error' = "refused"
              /\ UNCHANGED <<data, walk>>
           \/ /\ error' = "failed"
              /\ UNCHANGED <<data, walk>>
    /\ UNCHANGED <<rows, size, page, sort, raced>>

Reply == \E i \in 1 .. Len(inFlight) : Receive(i)

Next ==
    \/ NextPage \/ PreviousPage
    \/ \E c \in Schema : ToggleSort(c)
    \/ Reply

Spec == Init /\ [][Next]_vars

\* Every request is answered, fails or times out.
FairSpec == Spec /\ WF_vars(Reply)

-----------------------------------------------------------------------------
(***************************************************************************)
(* Properties.                                                             *)
(***************************************************************************)

\* The last page whose offset does not exceed the limit, counted in pages.
DeepestPage == MaxOffset \div PageSize + 1

\* handlers.rs:163: of the pages the table offers, those past the deepest offset
\* are refused whenever they are asked for and the others never, and no page
\* that is served is empty.  Which page a refusal is about is known only while
\* no two requests overlap; otherwise the table must at least offer a deeper one.
OfferedIsServed ==
    /\ data.page <= DeepestPage
    /\ error = "refused" => /\ (rows - 1) \div PageSize >= DeepestPage
                            /\ ~raced => page > DeepestPage
    /\ data # NoData /\ rows > 0 => data.rows # {}

\* data-table.tsx:136, 144: paging alone never has two requests in flight, so
\* once the answer is in the table shows the page it is on.  Sorting may be
\* changed while a request is in flight and is excluded.
ShownIsAsked ==
    ~raced /\ inFlight = <<>> /\ error = "none" =>
        data.page = page /\ data.sort = sort

\* Going through the pages of a table sorted by distinct values shows every
\* row once (handlers.rs:161, 207-211); without sorting, or with values that
\* are equal, a row may come twice and another never.
SortedWalkIsComplete ==
    walk.last = TotalPages /\ data.sort[1] = "id" =>
        walk.seen = 1 .. rows /\ walk.shown = rows

\* data-table.tsx:30: the table always comes to show the page it is on, or an
\* error, unless sorting was changed while a request was in flight.
TurnedToIsShown ==
    []<>(\/ data.page = page /\ data.sort = sort
         \/ error # "none"
         \/ raced)
=============================================================================
