---------------------------- MODULE PagingProofs -----------------------------
(***************************************************************************)
(* Proofs about module Paging, for tables of any length, any page size and *)
(* any depth of pages.                                                     *)
(***************************************************************************)
EXTENDS Paging, FiniteSetTheorems, SequenceTheorems, TLAPS

USE PagingAssumption

-----------------------------------------------------------------------------
(***************************************************************************)
(* Unless sorting was changed with a request in flight, the buttons are    *)
(* disabled exactly while the one request there is asks for the page the   *)
(* table is on.                                                            *)
(***************************************************************************)
Asked == [page |-> page, sort |-> sort]

OneRequest ==
    ~raced =>
        /\ inFlight \in {<<>>, <<Asked>>}
        /\ loading = (inFlight # <<>>)

AskInv == OneRequest /\ ShownIsAsked

LEMMA InitAsks == Init => AskInv
<1>. SUFFICES ASSUME Init PROVE AskInv
  OBVIOUS
<1>1. inFlight = <<Asked>> /\ loading = TRUE
  BY DEF Init, Asked
<1>2. <<Asked>> # <<>>
  OBVIOUS
<1>. QED BY <1>1, <1>2 DEF AskInv, OneRequest, ShownIsAsked

\* A table that is not loading has no request in flight, so the page it turns
\* to, or the sorting it changes to, is the only one asked for.
LEMMA LoadAsks ==
  ASSUME NEW p, NEW s, Load(p, s), ~raced' => inFlight = <<>>
  PROVE  AskInv'
<1>1. CASE raced'
  BY <1>1 DEF AskInv, OneRequest, ShownIsAsked
<1>2. CASE ~raced'
  <2>1. inFlight' = <<[page |-> p, sort |-> s]>> /\ page' = p /\ sort' = s /\ loading' = TRUE
    BY <1>2 DEF Load
  <2>. QED BY <2>1 DEF AskInv, OneRequest, Asked, ShownIsAsked
<1>. QED BY <1>1, <1>2

\* The answer that arrives is to the request the table is waiting for.
LEMMA ReceivesAsked ==
  ASSUME AskInv, ~raced, NEW i \in 1 .. Len(inFlight)
  PROVE  inFlight = <<Asked>> /\ i = 1 /\ inFlight[i].page = page
<1>1. inFlight = <<>> \/ inFlight = <<Asked>>
  BY DEF AskInv, OneRequest
<1>2. CASE inFlight = <<>>
  BY <1>2
<1>3. CASE inFlight = <<Asked>>
  <2>1. Len(inFlight) = 1
    BY <1>3
  <2>. QED BY <1>3, <2>1 DEF Asked
<1>. QED BY <1>1, <1>2, <1>3

LEMMA StepAsks == AskInv /\ [Next]_vars => AskInv'
<1>. SUFFICES ASSUME AskInv, [Next]_vars PROVE AskInv'
  OBVIOUS
<1>1. CASE UNCHANGED vars
  BY <1>1 DEF vars, AskInv, OneRequest, Asked, ShownIsAsked
<1>2. ASSUME NEW p, Turn(p) PROVE AskInv'
  <2>1. Load(p, sort) /\ (~raced' => inFlight = <<>>)
    BY <1>2 DEF Turn, Enabled, AskInv, OneRequest
  <2>. QED BY <2>1, LoadAsks
<1>3. ASSUME NEW c \in Schema, ToggleSort(c) PROVE AskInv'
  <2>1. Load(1, Toggled(c)) /\ (~raced' => inFlight = <<>>)
    BY <1>3 DEF ToggleSort
  <2>. QED BY <2>1, LoadAsks
<1>4. ASSUME NEW i \in 1 .. Len(inFlight), Receive(i) PROVE AskInv'
  <2>1. CASE raced
    BY <1>4, <2>1 DEF Receive, AskInv, OneRequest, ShownIsAsked
  <2>2. CASE ~raced
    <3>1. UNCHANGED <<page, sort, raced>> /\ loading' = FALSE /\ inFlight' = RemoveAt(inFlight, i)
      BY <1>4 DEF Receive
    <3>2. inFlight = <<Asked>> /\ i = 1
      BY <2>2, ReceivesAsked
    <3>3. inFlight' = <<>>
      BY <3>1, <3>2 DEF RemoveAt
    <3>4. error' = "none" => data'.page = page /\ data'.sort = sort
      <4>1. PICK req : req = inFlight[i]
        OBVIOUS
      <4>2. req.page = page /\ req.sort = sort
        BY <3>2, <4>1 DEF Asked
      <4>3. error' = "none" => \E w : data' = Answer(req, w)
        BY <1>4, <4>1 DEF Receive
      <4>. QED BY <4>2, <4>3 DEF Answer
    <3>. QED BY <3>1, <3>3, <3>4 DEF AskInv, OneRequest, Asked, ShownIsAsked
  <2>. QED BY <2>1, <2>2
<1>. QED BY <1>1, <1>2, <1>3, <1>4 DEF Next, NextPage, PreviousPage, Reply

-----------------------------------------------------------------------------
(***************************************************************************)
(* Arithmetic.                                                             *)
(***************************************************************************)
LEMMA Division ==
  ASSUME NEW n \in Nat, NEW p \in Nat \ {0}
  PROVE  n \div p \in Nat /\ (n \div p) * p <= n /\ n < (n \div p) * p + p
  OBVIOUS

LEMMA Multiples ==
  ASSUME NEW a \in Nat, NEW b \in Nat, NEW p \in Nat \ {0}
  PROVE  /\ a * p \in Nat /\ (a + 1) * p = a * p + p
         /\ a <= b => a * p <= b * p
         /\ a < b => a * p + p <= b * p
<1>1. a * p \in Nat /\ (a + 1) * p = a * p + p
  OBVIOUS
<1>2. a <= b => a * p <= b * p
  OBVIOUS
<1>3. a < b => a * p + p <= b * p
  OBVIOUS
<1>. QED BY <1>1, <1>2, <1>3

LEMMA AtMostType ==
  ASSUME NEW n \in Nat, NEW bound \in Nat
  PROVE  AtMost(n, bound) \in 0 .. bound /\ AtMost(n, bound) <= n
  BY DEF AtMost

\* The last of the pages of n rows, p to a page.
LEMMA PagesOfRows ==
  ASSUME NEW n \in Nat, NEW p \in Nat \ {0}, NEW k \in Nat,
         NEW q, q = IF n = 0 THEN 1 ELSE (n + p - 1) \div p
  PROVE  /\ q \in Nat \ {0}
         /\ n <= q * p
         /\ k \in Nat \ {0} /\ k < q => k * p < n
<1>1. CASE n = 0
  BY <1>1
<1>2. CASE n # 0
  <2>1. n + p - 1 \in Nat
    BY <1>2
  <2>2. q \in Nat /\ q * p <= n + p - 1 /\ n + p - 1 < q * p + p
    BY <1>2, <2>1, Division
  <2>3. q * p \in Nat
    BY <2>2, Multiples
  <2>4. n <= q * p
    BY <2>2, <2>3
  <2>5. q # 0
    BY <1>2, <2>4
  <2>6. k < q => k * p + p <= q * p /\ k * p \in Nat
    BY <2>2, Multiples
  <2>. QED BY <2>2, <2>3, <2>4, <2>5, <2>6
<1>. QED BY <1>1, <1>2

\* How far pages of p rows reach into n rows, and an offset of the k-th of them.
LEMMA DeepPages ==
  ASSUME NEW n \in Nat, NEW p \in Nat \ {0}, NEW k \in Nat, NEW bound \in Nat,
         k * p < n, k * p > bound
  PROVE  (n - 1) \div p > bound \div p
<1>1. k * p \in Nat /\ n - 1 \in Nat /\ k * p <= n - 1
  BY Multiples
<1>. DEFINE q == (n - 1) \div p
            r == bound \div p
<1>2. q \in Nat /\ n - 1 < q * p + p /\ r \in Nat /\ r * p <= bound
  BY <1>1, Division
<1>. HIDE DEF q, r
<1>3. r < k
  <2>1. k <= r => k * p <= r * p
    BY <1>2, Multiples
  <2>. QED BY <1>1, <1>2, <2>1, Multiples
<1>4. k <= q
  <2>1. q < k => q * p + p <= k * p
    BY <1>2, Multiples
  <2>2. q * p \in Nat
    BY <1>2, Multiples
  <2>. QED BY <1>1, <1>2, <2>1, <2>2
<1>5. q > r
  BY <1>2, <1>3, <1>4
<1>. QED BY <1>5 DEF q, r

-----------------------------------------------------------------------------
(***************************************************************************)
(* The rows ORDER BY, LIMIT and OFFSET select.                             *)
(***************************************************************************)
LEMMA SelectionType ==
  ASSUME NEW n \in 0 .. MaxRows, NEW by \in Sorts,
         NEW first \in 0 .. MaxRows, NEW last \in 0 .. MaxRows,
         NEW w \in Selections[<<n, by, first, last>>]
  PROVE  w \in Selection(n, by, first, last) /\ w \subseteq 1 .. n /\ Cardinality(w) = last - first
  BY DEF Selections, Selection

LEMMA IntervalSize ==
  ASSUME NEW n \in Nat, NEW r \in 1 .. n
  PROVE  Cardinality(1 .. r - 1) = r - 1 /\ Cardinality(r + 1 .. n) = n - r
<1>1. 1 \in Int /\ r - 1 \in Int /\ r + 1 \in Int /\ n \in Int
  OBVIOUS
<1>2. Cardinality(1 .. r - 1) = IF 1 > r - 1 THEN 0 ELSE (r - 1) - 1 + 1
  BY ONLY <1>1, FS_Interval, Zenon
<1>3. Cardinality(r + 1 .. n) = IF r + 1 > n THEN 0 ELSE n - (r + 1) + 1
  BY ONLY <1>1, FS_Interval, Zenon
<1>. QED BY <1>2, <1>3

\* The last k of n rows come after the others in descending order.
Ordered(n, by, first, last) ==
    IF by[2] = "asc" THEN first + 1 .. last ELSE n - last + 1 .. n - first

\* Sorted by distinct values, the rows at some positions are those and no other.
LEMMA SelectionById ==
  ASSUME NEW n \in Nat, NEW by \in Sorts, by[1] = "id",
         NEW first \in 0 .. n, NEW last \in first .. n,
         NEW w \in Selection(n, by, first, last)
  PROVE  w = Ordered(n, by, first, last)
<1>. DEFINE Ahead(r) == Cardinality({s \in 1 .. n : Before(s, r, by)})
            Behind(r) == Cardinality({s \in 1 .. n : Before(r, s, by)})
            possible == {r \in 1 .. n : Ahead(r) < last /\ n - Behind(r) > first}
            sure == {r \in possible : Ahead(r) >= first /\ n - Behind(r) <= last}
<1>1. w \subseteq possible /\ sure \subseteq w
  BY DEF Selection
<1>2. by \in {<<"id", "asc">>, <<"id", "desc">>}
  BY DEF Sorts, NoSort, Schema
<1>3. CASE by = <<"id", "asc">>
  <2>1. \A r, s : Before(s, r, by) <=> s < r
    BY <1>3 DEF Before, NoSort, Value
  <2>2. ASSUME NEW r \in 1 .. n PROVE Ahead(r) = r - 1 /\ Behind(r) = n - r
    <3>1. {s \in 1 .. n : Before(s, r, by)} = 1 .. r - 1
      BY <2>1
    <3>2. {s \in 1 .. n : Before(r, s, by)} = r + 1 .. n
      BY <2>1
    <3>3. Cardinality(1 .. r - 1) = r - 1 /\ Cardinality(r + 1 .. n) = n - r
      BY IntervalSize
    <3>. QED BY <3>1, <3>2, <3>3
  <2>. HIDE DEF Ahead, Behind
  <2>3. possible = first + 1 .. last /\ sure = first + 1 .. last
    BY <2>2
  <2>. QED BY <1>1, <1>3, <2>3 DEF Ordered
<1>4. CASE by = <<"id", "desc">>
  <2>1. \A r, s : Before(s, r, by) <=> s > r
    BY <1>4 DEF Before, NoSort, Value
  <2>2. ASSUME NEW r \in 1 .. n PROVE Ahead(r) = n - r /\ Behind(r) = r - 1
    <3>1. {s \in 1 .. n : Before(s, r, by)} = r + 1 .. n
      BY <2>1
    <3>2. {s \in 1 .. n : Before(r, s, by)} = 1 .. r - 1
      BY <2>1
    <3>3. Cardinality(1 .. r - 1) = r - 1 /\ Cardinality(r + 1 .. n) = n - r
      BY IntervalSize
    <3>. QED BY <3>1, <3>2, <3>3
  <2>. HIDE DEF Ahead, Behind
  <2>3. possible = n - last + 1 .. n - first /\ sure = n - last + 1 .. n - first
    BY <2>2
  <2>. QED BY <1>1, <1>4, <2>3 DEF Ordered
<1>. QED BY <1>2, <1>3, <1>4

\* An answer lost from the middle of those in flight.
LEMMA RemoveType ==
  ASSUME NEW T, NEW s \in Seq(T), NEW i \in 1 .. Len(s)
  PROVE  RemoveAt(s, i) \in Seq(T) /\ Len(RemoveAt(s, i)) = Len(s) - 1
<1>1. SubSeq(s, 1, i - 1) \in Seq(T) /\ Len(SubSeq(s, 1, i - 1)) = i - 1
  BY SubSeqProperties
<1>2. SubSeq(s, i + 1, Len(s)) \in Seq(T) /\ Len(SubSeq(s, i + 1, Len(s))) = Len(s) - i
  BY SubSeqProperties
<1>3. PICK a, b : a = SubSeq(s, 1, i - 1) /\ b = SubSeq(s, i + 1, Len(s))
  OBVIOUS
<1>4. a \in Seq(T) /\ Len(a) = i - 1 /\ b \in Seq(T) /\ Len(b) = Len(s) - i
  BY ONLY <1>1, <1>2, <1>3
<1>5. a \o b \in Seq(T) /\ Len(a \o b) = Len(a) + Len(b)
  BY ONLY <1>4, ConcatProperties, Zenon
<1>6. i \in Nat /\ Len(s) \in Nat
  OBVIOUS
<1>7. Len(a \o b) = Len(s) - 1
  BY <1>4, <1>5, <1>6
<1>8. RemoveAt(s, i) = a \o b
  BY <1>3 DEF RemoveAt
<1>. QED BY ONLY <1>5, <1>7, <1>8

-----------------------------------------------------------------------------
(***************************************************************************)
(* The table turns only to pages the rows reach, and a walk sorted by      *)
(* distinct values has shown the rows that come first.                     *)
(***************************************************************************)
Reaches(p) == p = 1 \/ (p - 1) * PageSize < rows

Reached == {r \in Requests : Reaches(r.page)}

\* The first k rows in the order of by.
Leading(by, k) == Ordered(rows, by, 0, k)

WalkLeads ==
    walk # NoWalk =>
        /\ walk.last \in Nat \ {0}
        /\ data # NoData
        /\ data.page = walk.last
        /\ data.sort[1] = "id" =>
            /\ walk.seen = Leading(data.sort, AtMost(walk.last * PageSize, rows))
            /\ walk.shown = AtMost(walk.last * PageSize, rows)

PagesInv ==
    /\ TypeOK
    /\ Reaches(page)
    /\ inFlight \in Seq(Reached)
    /\ OfferedIsServed
    /\ WalkLeads

LEMMA PageSizeType == TypeOK => PageSize \in Nat \ {0} /\ rows \in Nat /\ rows \in 0 .. MaxRows
  BY DEF TypeOK, PageSize, AtMost

\* The pages whose offset does not exceed the limit.
LEMMA DeepestType ==
  ASSUME TypeOK
  PROVE  /\ DeepestPage \in Nat \ {0}
         /\ \A k \in Nat : k * PageSize <= MaxOffset => k + 1 <= DeepestPage
         /\ \A k \in Nat : k * PageSize > MaxOffset => k + 1 > DeepestPage
<1>1. PageSize \in Nat \ {0}
  BY PageSizeType
<1>. DEFINE r == MaxOffset \div PageSize
<1>2. r \in Nat /\ r * PageSize <= MaxOffset /\ MaxOffset < r * PageSize + PageSize
  BY <1>1, Division
<1>3. DeepestPage = r + 1
  BY DEF DeepestPage
<1>. HIDE DEF r
<1>4. ASSUME NEW k \in Nat, k * PageSize <= MaxOffset PROVE k <= r
  <2>1. r < k => r * PageSize + PageSize <= k * PageSize
    BY <1>1, <1>2, Multiples
  <2>2. r * PageSize \in Nat /\ k * PageSize \in Nat
    BY <1>1, <1>2, Multiples
  <2>. QED BY <1>1, <1>2, <1>4, <2>1, <2>2
<1>5. ASSUME NEW k \in Nat, k * PageSize > MaxOffset PROVE k > r
  <2>1. k <= r => k * PageSize <= r * PageSize
    BY <1>1, <1>2, Multiples
  <2>2. r * PageSize \in Nat /\ k * PageSize \in Nat
    BY <1>1, <1>2, Multiples
  <2>. QED BY <1>1, <1>2, <1>5, <2>1, <2>2
<1>. QED BY <1>2, <1>3, <1>4, <1>5

LEMMA InitPages == Init => PagesInv
<1>. SUFFICES ASSUME Init PROVE PagesInv
  OBVIOUS
<1>1. /\ [page |-> 1, sort |-> NoSort] \in Requests
      /\ inFlight \in Seq(Requests) /\ Len(inFlight) = 1
  BY DEF Init, Requests, Sorts
<1>2. inFlight \in Seq(Reached)
  <2>1. [page |-> 1, sort |-> NoSort] \in Reached
    BY <1>1 DEF Reached, Reaches
  <2>. QED BY <2>1 DEF Init
<1>3. TypeOK
  <2>1. walk \in [last : Nat, seen : SUBSET (1 .. rows), shown : Nat]
    BY DEF Init, NoWalk
  <2>2. data = NoData /\ data.rows \subseteq 1 .. rows
    BY DEF Init, NoData
  <2>3. sort \in Sorts /\ page \in Nat \ {0}
    BY DEF Init, Sorts
  <2>5. raced \in BOOLEAN /\ loading \in BOOLEAN
    BY DEF Init
  <2>4. rows \in 0 .. MaxRows /\ size \in 1 .. MaxPageSize + 1 /\ error = "none"
    BY DEF Init
  <2>. QED BY <1>1, <2>1, <2>2, <2>3, <2>4, <2>5 DEF TypeOK
<1>4. OfferedIsServed
  <2>1. data.page = 0 /\ 0 <= DeepestPage
    BY <1>3, DeepestType DEF Init, NoData
  <2>. QED BY <2>1 DEF Init, OfferedIsServed
<1>. QED BY <1>2, <1>3, <1>4 DEF Init, PagesInv, Reaches, WalkLeads

\* A step that leaves the table and its rows alone.
LEMMA LoadPages ==
  ASSUME PagesInv, NEW p \in Nat \ {0}, Reaches(p), NEW s \in Sorts, Load(p, s),
         error = "none", Len(inFlight) < MaxInFlight, raced' \in BOOLEAN,
         UNCHANGED <<rows, size, data, error, walk>>
  PROVE  PagesInv'
<1>. DEFINE req == [page |-> p, sort |-> s]
<1>1. PageSize' = PageSize /\ Reached' = Reached
  BY DEF PageSize, Reached, Reaches
<1>2. req \in Requests /\ req \in Reached
  BY DEF Requests, Reached
<1>3. page' = p /\ sort' = s /\ inFlight' = Append(inFlight, req) /\ loading' = TRUE
  BY DEF Load
<1>. HIDE DEF req
<1>4. inFlight \in Seq(Requests) /\ inFlight \in Seq(Reached)
  BY DEF PagesInv, TypeOK
<1>5. inFlight' \in Seq(Requests) /\ inFlight' \in Seq(Reached) /\ Len(inFlight') = Len(inFlight) + 1
  BY <1>2, <1>3, <1>4
<1>6. TypeOK'
  <2>1. Len(inFlight) \in Nat
    BY <1>4
  <2>2. Len(inFlight') <= MaxInFlight
    BY <1>5, <2>1
  <2>3. Answer(data, data.rows)' = Answer(data, data.rows)
    BY <1>1 DEF Answer
  <2>. QED BY <1>3, <1>5, <2>2, <2>3 DEF PagesInv, TypeOK
<1>7. OfferedIsServed' /\ WalkLeads'
  BY <1>1 DEF PagesInv, OfferedIsServed, DeepestPage, WalkLeads, Leading, Ordered
<1>8. Reaches(page)'
  BY <1>1, <1>3 DEF Reaches
<1>. QED BY <1>1, <1>5, <1>6, <1>7, <1>8 DEF PagesInv

\* The pages the buttons offer.
LEMMA PagesOffered ==
  ASSUME TypeOK, data # NoData
  PROVE  /\ TotalPages \in Nat \ {0}
         /\ rows <= TotalPages * PageSize
         /\ \A p \in Nat \ {0} : p < TotalPages => p * PageSize < rows
<1>1. data.total = rows /\ data.size = PageSize
  BY DEF TypeOK, Answer
<1>2. PageSize \in Nat \ {0} /\ rows \in Nat
  BY PageSizeType
<1>3. TotalPages = IF rows = 0 THEN 1 ELSE (rows + PageSize - 1) \div PageSize
  BY <1>1 DEF TotalPages
<1>4. TotalPages \in Nat \ {0} /\ rows <= TotalPages * PageSize
  BY <1>2, <1>3, PagesOfRows
<1>5. ASSUME NEW p \in Nat \ {0}, p < TotalPages PROVE p * PageSize < rows
  BY <1>2, <1>3, <1>5, PagesOfRows
<1>. QED BY <1>4, <1>5

LEMMA TurnPages ==
  ASSUME PagesInv, NextPage \/ PreviousPage \/ \E c \in Schema : ToggleSort(c)
  PROVE  PagesInv'
<1>1. page \in Nat \ {0} /\ PageSize \in Nat \ {0} /\ rows \in Nat /\ sort \in Sorts
      /\ raced \in BOOLEAN
  BY PageSizeType DEF PagesInv, TypeOK
<1>2. CASE NextPage
  <2>1. /\ Load(page + 1, sort) /\ Len(inFlight) < MaxInFlight
        /\ error = "none" /\ UNCHANGED <<rows, size, data, error, raced, walk>>
        /\ page < TotalPages /\ data # NoData
    BY <1>2 DEF NextPage, Turn, Enabled, Visible
  <2>2. page * PageSize < rows
    BY <1>1, <2>1, PagesOffered DEF PagesInv
  <2>3. Reaches(page + 1) /\ page + 1 \in Nat \ {0}
    <3>1. (page + 1) - 1 = page
      BY <1>1
    <3>. QED BY <1>1, <2>2, <3>1 DEF Reaches
  <2>. QED BY <1>1, <2>1, <2>3, LoadPages
<1>3. CASE PreviousPage
  <2>1. /\ Load(page - 1, sort) /\ Len(inFlight) < MaxInFlight
        /\ error = "none" /\ UNCHANGED <<rows, size, data, error, raced, walk>>
        /\ page > 1
    BY <1>3 DEF PreviousPage, Turn, Enabled, Visible
  <2>2. page - 1 \in Nat \ {0} /\ (page - 1) * PageSize < rows
    BY <1>1, <2>1 DEF PagesInv, Reaches
  <2>3. Reaches(page - 1)
    <3>1. PICK k \in Nat : k = page - 2
      BY <1>1, <2>1
    <3>2. k + 1 = page - 1 /\ (page - 1) - 1 = k
      BY <1>1, <3>1
    <3>3. (k + 1) * PageSize = k * PageSize + PageSize /\ k * PageSize \in Nat
      BY <1>1, <3>1, Multiples
    <3>4. k * PageSize < rows
      BY <1>1, <2>2, <3>2, <3>3
    <3>. QED BY <3>2, <3>4 DEF Reaches
  <2>. QED BY <1>1, <2>1, <2>2, <2>3, LoadPages
<1>4. ASSUME NEW c \in Schema, ToggleSort(c) PROVE PagesInv'
  <2>1. /\ Load(1, Toggled(c)) /\ Len(inFlight) < MaxInFlight
        /\ error = "none" /\ UNCHANGED <<rows, size, data, error, walk>>
        /\ raced' = (raced \/ inFlight # <<>>)
    BY <1>4 DEF ToggleSort, Visible
  <2>2. Toggled(c) \in Sorts
    BY <1>4 DEF Toggled, Sorts
  <2>3. raced' \in BOOLEAN
    BY <1>1, <2>1
  <2>4. Reaches(1) /\ 1 \in Nat \ {0}
    BY DEF Reaches
  <2>. QED BY <2>1, <2>2, <2>3, <2>4, LoadPages
<1>. QED BY <1>2, <1>3, <1>4

\* The rows of an answer to a request the table may send.
LEMMA WindowRows ==
  ASSUME TypeOK, NEW req \in Reached, NEW w \in Windows(req),
         NEW first, first = AtMost(Offset(req), rows),
         NEW last, last = AtMost(Offset(req) + PageSize, rows)
  PROVE  /\ Offset(req) \in Nat /\ first \in Nat /\ last \in first .. rows
         /\ w \subseteq 1 .. rows /\ Cardinality(w) = last - first
         /\ rows > 0 => w # {}
         /\ req.sort[1] = "id" => w = Ordered(rows, req.sort, first, last)
<1>1. PageSize \in Nat \ {0} /\ rows \in Nat /\ rows \in 0 .. MaxRows
  BY PageSizeType
<1>2. req.page \in Nat \ {0} /\ req.sort \in Sorts /\ Reaches(req.page)
  BY DEF Reached, Requests
<1>3. Offset(req) \in Nat /\ Offset(req) = (req.page - 1) * PageSize
  BY <1>1, <1>2, Multiples DEF Offset
<1>4. first \in 0 .. MaxRows /\ last \in 0 .. MaxRows /\ first \in 0 .. rows /\ last \in first .. rows
  BY <1>1, <1>3 DEF AtMost
<1>5. w \in Selections[<<rows, req.sort, first, last>>]
  BY DEF Windows
<1>6. /\ w \in Selection(rows, req.sort, first, last)
      /\ w \subseteq 1 .. rows /\ Cardinality(w) = last - first
  BY <1>1, <1>2, <1>4, <1>5, SelectionType
<1>7. req.sort[1] = "id" => w = Ordered(rows, req.sort, first, last)
  BY <1>1, <1>2, <1>4, <1>6, SelectionById
<1>8. rows > 0 => w # {}
  <2>. SUFFICES ASSUME rows > 0 PROVE w # {}
    OBVIOUS
  <2>1. Offset(req) < rows
    <3>1. CASE req.page = 1
      <4>1. Offset(req) = 0
        BY <1>1, <1>3, <3>1
      <4>. QED BY <4>1
    <3>2. CASE req.page # 1
      BY <1>2, <1>3, <3>2 DEF Reaches
    <3>. QED BY <3>1, <3>2
  <2>2. first < last
    BY <1>1, <1>3, <2>1 DEF AtMost
  <2>3. Cardinality(w) # 0
    BY <1>4, <1>6, <2>2
  <2>. QED BY <2>3, FS_EmptySet
<1>. QED BY <1>3, <1>4, <1>6, <1>7, <1>8

\* A request that is refused asks for a page past the deepest, which the rows
\* reach, and one that is served does not.
LEMMA RefusedIsDeep ==
  ASSUME TypeOK, NEW req \in Reached
  PROVE  /\ Servable(req) => req.page <= DeepestPage
         /\ ~Servable(req) => /\ req.page > DeepestPage
                              /\ (rows - 1) \div PageSize >= DeepestPage
<1>1. PageSize \in Nat \ {0} /\ rows \in Nat
  BY PageSizeType
<1>2. req.page \in Nat \ {0} /\ req.sort \in Sorts /\ Reaches(req.page)
  BY DEF Reached, Requests
<1>3. req.sort = NoSort \/ req.sort[1] \in Schema
  BY <1>2 DEF Sorts
<1>4. PICK k \in Nat : k = req.page - 1
  BY <1>2
<1>5. k * PageSize \in Nat /\ Offset(req) = k * PageSize /\ req.page = k + 1
  BY <1>1, <1>2, <1>4, Multiples DEF Offset
<1>6. Servable(req) => req.page <= DeepestPage
  BY <1>5, DeepestType DEF Servable
<1>7. ASSUME ~Servable(req)
      PROVE  req.page > DeepestPage /\ (rows - 1) \div PageSize >= DeepestPage
  <2>1. k * PageSize > MaxOffset
    BY <1>3, <1>5, <1>7 DEF Servable
  <2>2. k * PageSize < rows
    <3>1. CASE k = 0
      BY <1>1, <2>1, <3>1
    <3>2. CASE k # 0
      BY <1>2, <1>4, <3>2 DEF Reaches
    <3>. QED BY <3>1, <3>2
  <2>3. (rows - 1) \div PageSize > MaxOffset \div PageSize
    BY <1>1, <2>1, <2>2, DeepPages
  <2>4. (rows - 1) \div PageSize >= DeepestPage
    <3>1. MaxOffset \div PageSize \in Nat /\ (rows - 1) \div PageSize \in Nat
      <4>1. rows - 1 \in Nat
        BY <1>1, <1>5, <2>2
      <4>. QED BY <1>1, <4>1, Division
    <3>. QED BY <2>3, <3>1 DEF DeepestPage
  <2>. QED BY <1>5, <2>1, <2>4, DeepestType
<1>. QED BY <1>6, <1>7

\* The first rows and those that follow them are the first of more rows.
LEMMA LeadingGrows ==
  ASSUME NEW n \in Nat, NEW by \in Sorts, NEW j \in 0 .. n, NEW k \in j .. n
  PROVE  Ordered(n, by, 0, j) \cup Ordered(n, by, j, k) = Ordered(n, by, 0, k)
<1>1. CASE by[2] = "asc"
  BY <1>1 DEF Ordered
<1>2. CASE by[2] # "asc"
  BY <1>2 DEF Ordered
<1>. QED BY <1>1, <1>2

\* What a walk has shown once an answer is added to it.
LEMMA WalkAnswer ==
  ASSUME PagesInv, NEW req \in Reached, NEW w \in Windows(req),
         walk' = Walked(Answer(req, w)), data' = Answer(req, w), UNCHANGED <<rows, size>>
  PROVE  walk' \in [last : Nat, seen : SUBSET (1 .. rows), shown : Nat] /\ WalkLeads'
<1>. DEFINE d == Answer(req, w)
            first == AtMost(Offset(req), rows)
            last == AtMost(Offset(req) + PageSize, rows)
            first0 == AtMost(walk.last * PageSize, rows)
<1>1. PageSize \in Nat \ {0} /\ rows \in Nat /\ PageSize' = PageSize
  BY PageSizeType DEF PagesInv, PageSize
<1>2. req.page \in Nat \ {0} /\ req.sort \in Sorts
  BY DEF Reached, Requests
<1>3. /\ Offset(req) \in Nat /\ first \in Nat /\ last \in first .. rows
      /\ w \subseteq 1 .. rows /\ Cardinality(w) = last - first
      /\ req.sort[1] = "id" => w = Ordered(rows, req.sort, first, last)
  BY WindowRows DEF PagesInv
<1>4. d.page = req.page /\ d.sort = req.sort /\ d.rows = w /\ d # NoData
  BY <1>2 DEF Answer, NoData
<1>5. \A by, k : Leading(by, k)' = Leading(by, k)
  BY DEF Leading, Ordered
<1>. DEFINE k == AtMost(walk'.last * PageSize, rows)
<1>6. ASSUME walk'.last \in Nat \ {0}, walk'.last = req.page, last = k,
             req.sort[1] = "id" => walk'.seen = Leading(req.sort, k) /\ walk'.shown = k
      PROVE  WalkLeads'
  <2>1. AtMost(walk'.last * PageSize', rows') = k
    BY <1>1
  <2>2. data' = d
    OBVIOUS
  <2>. HIDE DEF d
  <2>. QED BY <1>1, <1>4, <1>5, <1>6, <2>1, <2>2 DEF WalkLeads
<1>7. CASE req.page = 1
  <2>1. walk' = [last |-> 1, seen |-> w, shown |-> Cardinality(w)]
    BY <1>4, <1>7 DEF Walked
  <2>2. Offset(req) = 0 /\ 1 * PageSize = PageSize
    BY <1>1, <1>7 DEF Offset
  <2>3. first = 0 /\ last = k
    BY <1>1, <2>1, <2>2 DEF AtMost
  <2>4. req.sort[1] = "id" => walk'.seen = Leading(req.sort, k) /\ walk'.shown = k
    BY <1>1, <1>3, <2>1, <2>3 DEF Leading
  <2>5. walk' \in [last : Nat, seen : SUBSET (1 .. rows), shown : Nat]
    BY <1>1, <1>3, <2>1
  <2>. QED BY <1>6, <1>7, <2>1, <2>3, <2>4, <2>5
<1>8. CASE req.page # 1 /\ walk.last > 0 /\ req.page = walk.last + 1 /\ req.sort = data.sort
  <2>1. walk' = [last |-> req.page, seen |-> walk.seen \cup w,
                 shown |-> walk.shown + Cardinality(w)]
    BY <1>4, <1>8 DEF Walked
  <2>2. walk \in [last : Nat, seen : SUBSET (1 .. rows), shown : Nat] /\ walk # NoWalk
    BY <1>8 DEF PagesInv, TypeOK, NoWalk
  <2>3. Offset(req) = walk.last * PageSize
        /\ req.page * PageSize = walk.last * PageSize + PageSize
    <3>1. req.page - 1 = walk.last /\ walk.last \in Nat
      BY <1>8, <2>2
    <3>. QED BY <1>1, <1>8, <3>1, Multiples DEF Offset
  <2>4. first = first0 /\ last = k
    BY <2>1, <2>3
  <2>5. req.sort[1] = "id" => walk.seen = Leading(req.sort, first) /\ walk.shown = first
    BY <1>8, <2>2, <2>4 DEF PagesInv, WalkLeads
  <2>6. req.sort[1] = "id" => walk'.seen = Leading(req.sort, k) /\ walk'.shown = k
    <3>1. first \in 0 .. rows /\ last \in first .. rows
      BY <1>1, <1>3
    <3>2. Leading(req.sort, first) \cup Ordered(rows, req.sort, first, last)
            = Leading(req.sort, last)
      BY <1>1, <1>2, <3>1, LeadingGrows DEF Leading
    <3>3. first + (last - first) = last
      BY <1>1, <3>1
    <3>. HIDE DEF first, last, k
    <3>. QED BY <1>3, <2>1, <2>4, <2>5, <3>2, <3>3
  <2>7. walk' \in [last : Nat, seen : SUBSET (1 .. rows), shown : Nat]
    <3>1. Cardinality(w) \in Nat
      BY <1>1, <1>3
    <3>. QED BY <1>2, <1>3, <2>1, <2>2, <3>1
  <2>. QED BY <1>2, <1>6, <2>1, <2>4, <2>6, <2>7
<1>9. CASE ~(req.page = 1)
           /\ ~(walk.last > 0 /\ req.page = walk.last + 1 /\ req.sort = data.sort)
  <2>1. walk' = NoWalk
    BY <1>4, <1>9 DEF Walked
  <2>. QED BY <2>1 DEF NoWalk, WalkLeads
<1>. QED BY <1>7, <1>8, <1>9

LEMMA ReceivePages ==
  ASSUME AskInv, PagesInv, NEW i \in 1 .. Len(inFlight), Receive(i)
  PROVE  PagesInv'
<1>. DEFINE req == inFlight[i]
<1>1. /\ inFlight' = RemoveAt(inFlight, i) /\ loading' = FALSE
      /\ UNCHANGED <<rows, size, page, sort, raced>>
      /\ \/ /\ Servable(req) /\ error' = "none"
            /\ \E w \in Windows(req) : data' = Answer(req, w) /\ walk' = Walked(Answer(req, w))
         \/ /\ ~Servable(req) /\ error' = "refused" /\ UNCHANGED <<data, walk>>
         \/ /\ error' = "failed" /\ UNCHANGED <<data, walk>>
  BY DEF Receive
<1>2. inFlight \in Seq(Requests) /\ inFlight \in Seq(Reached) /\ Len(inFlight) <= MaxInFlight
  BY DEF PagesInv, TypeOK
<1>3. req \in Reached
  BY <1>2
<1>4. /\ PageSize' = PageSize /\ Reached' = Reached /\ Reaches(page)'
      /\ DeepestPage' = DeepestPage
  BY <1>1 DEF PagesInv, PageSize, Reached, Reaches, DeepestPage
<1>5. /\ inFlight' \in Seq(Requests) /\ inFlight' \in Seq(Reached)
      /\ Len(inFlight') <= MaxInFlight
  <2>1. inFlight' \in Seq(Requests) /\ Len(inFlight') = Len(inFlight) - 1
    BY <1>1, <1>2, RemoveType
  <2>2. inFlight' \in Seq(Reached)
    BY <1>1, <1>2, RemoveType
  <2>3. Len(inFlight) \in Nat
    BY <1>2
  <2>. QED BY <1>2, <2>1, <2>2, <2>3
<1>. HIDE DEF req
<1>6. ASSUME /\ data' = NoData \/ /\ [page |-> data'.page, sort |-> data'.sort] \in Requests
                                  /\ data' = Answer(data', data'.rows)
             /\ data'.rows \subseteq 1 .. rows
             /\ error' \in {"none", "refused", "failed"}
             /\ walk' \in [last : Nat, seen : SUBSET (1 .. rows), shown : Nat]
      PROVE  TypeOK'
  <2>1. Answer(data, data.rows)' = Answer(data', data'.rows)
    BY <1>1, <1>4 DEF Answer
  <2>. QED BY <1>1, <1>5, <1>6, <2>1 DEF PagesInv, TypeOK
<1>7. ~raced => req.page = page
  BY ReceivesAsked DEF req
<1>8. CASE Servable(req) /\ error' = "none" /\ \E w \in Windows(req) :
               data' = Answer(req, w) /\ walk' = Walked(Answer(req, w))
  <2>1. PICK w \in Windows(req) : data' = Answer(req, w) /\ walk' = Walked(Answer(req, w))
    BY <1>8
  <2>2. walk' \in [last : Nat, seen : SUBSET (1 .. rows), shown : Nat] /\ WalkLeads'
    BY <1>1, <1>3, <2>1, WalkAnswer
  <2>3. w \subseteq 1 .. rows /\ (rows > 0 => w # {})
    BY <1>3, WindowRows DEF PagesInv
  <2>4. /\ data'.page = req.page /\ data'.sort = req.sort /\ data'.rows = w
        /\ data' = Answer(data', data'.rows)
    BY <2>1 DEF Answer
  <2>5. [page |-> data'.page, sort |-> data'.sort] \in Requests
    BY <1>3, <2>4 DEF Reached, Requests
  <2>6. TypeOK'
    BY <1>6, <1>8, <2>2, <2>3, <2>4, <2>5
  <2>7. OfferedIsServed'
    <3>1. data'.page <= DeepestPage
      BY <1>3, <1>8, <2>4, RefusedIsDeep DEF PagesInv
    <3>. QED BY <1>1, <1>4, <1>8, <2>3, <2>4, <3>1 DEF OfferedIsServed
  <2>. QED BY <1>4, <1>5, <2>2, <2>6, <2>7 DEF PagesInv
<1>9. CASE /\ UNCHANGED <<data, walk>>
           /\ (error' = "refused" /\ ~Servable(req)) \/ error' = "failed"
  <2>1. Answer(data', data'.rows) = Answer(data, data.rows)
    BY <1>9
  <2>2. TypeOK'
    BY <1>6, <1>9, <2>1 DEF PagesInv, TypeOK
  <2>3. WalkLeads'
    BY <1>1, <1>4, <1>9 DEF PagesInv, WalkLeads, Leading, Ordered
  <2>4. OfferedIsServed'
    <3>1. error' = "refused" => /\ (rows - 1) \div PageSize >= DeepestPage
                                /\ ~raced => page > DeepestPage
      BY <1>3, <1>9, <1>7, RefusedIsDeep DEF PagesInv
    <3>. QED BY <1>1, <1>4, <1>9, <3>1 DEF PagesInv, OfferedIsServed
  <2>. QED BY <1>4, <1>5, <2>2, <2>3, <2>4 DEF PagesInv
<1>. QED BY <1>1, <1>8, <1>9

LEMMA StepPages == AskInv /\ PagesInv /\ [Next]_vars => PagesInv'
<1>. SUFFICES ASSUME AskInv, PagesInv, [Next]_vars PROVE PagesInv'
  OBVIOUS
<1>1. CASE UNCHANGED vars
  <2>1. /\ PageSize' = PageSize /\ Reached' = Reached /\ Reaches(page)'
        /\ Answer(data, data.rows)' = Answer(data, data.rows)
    BY <1>1 DEF vars, PagesInv, PageSize, Reached, Reaches, Answer
  <2>2. TypeOK'
    BY <1>1, <2>1 DEF vars, PagesInv, TypeOK
  <2>3. OfferedIsServed' /\ WalkLeads'
    BY <1>1, <2>1 DEF vars, PagesInv, OfferedIsServed, DeepestPage, WalkLeads, Leading, Ordered
  <2>. QED BY <1>1, <2>1, <2>2, <2>3 DEF vars, PagesInv
<1>. QED BY <1>1, TurnPages, ReceivePages DEF Next, Reply

LEMMA PagesAlways == Spec => []PagesInv
<1>. QED BY InitAsks, StepAsks, InitPages, StepPages, PTL DEF Spec

-----------------------------------------------------------------------------
(***************************************************************************)
(* Theorems.                                                               *)
(***************************************************************************)

\* data-table.tsx, jobs/handlers.rs: every reachable state is well typed.
THEOREM TypeCorrect == Spec => []TypeOK
<1>1. PagesInv => TypeOK
  BY DEF PagesInv
<1>. QED BY <1>1, PagesAlways, PTL

\* handlers.rs:163: of the pages the table offers the API serves none past the
\* deepest offset, refuses none of the others and answers none without a row.
THEOREM OfferedPagesAreServed == Spec => []OfferedIsServed
<1>1. PagesInv => OfferedIsServed
  BY DEF PagesInv
<1>. QED BY <1>1, PagesAlways, PTL

\* handlers.rs:161, 207-211: going through the pages of a table sorted by
\* distinct values shows every row once, in tables of any length.
THEOREM SortedWalksAreComplete == Spec => []SortedWalkIsComplete
<1>1. PagesInv => SortedWalkIsComplete
  <2>. SUFFICES ASSUME PagesInv, walk.last = TotalPages, data.sort[1] = "id"
                PROVE  walk.seen = 1 .. rows /\ walk.shown = rows
    BY DEF SortedWalkIsComplete
  <2>1. TotalPages # 0
    <3>1. CASE data = NoData
      BY <3>1 DEF TotalPages, NoData
    <3>2. CASE data # NoData
      BY <3>2, PagesOffered DEF PagesInv
    <3>. QED BY <3>1, <3>2
  <2>2. walk # NoWalk
    BY <2>1 DEF NoWalk
  <2>3. data # NoData
    BY <2>2 DEF PagesInv, WalkLeads
  <2>4. rows <= walk.last * PageSize /\ rows \in Nat
    BY <2>3, PagesOffered, PageSizeType DEF PagesInv
  <2>5. AtMost(walk.last * PageSize, rows) = rows
    <3>1. walk.last * PageSize \in Nat
      BY <2>2, PageSizeType, Multiples DEF PagesInv, WalkLeads
    <3>. QED BY <2>4, <3>1 DEF AtMost
  <2>6. walk.seen = Leading(data.sort, rows) /\ walk.shown = rows
    BY <2>2, <2>5 DEF PagesInv, WalkLeads
  <2>. QED BY <2>4, <2>6 DEF Leading, Ordered
<1>. QED BY <1>1, PagesAlways, PTL

\* data-table.tsx:136, 144: paging alone never leaves the table on one page and
\* its rows on another, in whatever order and with whatever outcome answers arrive.
THEOREM ShowsWhatWasAsked == Spec => []ShownIsAsked
<1>1. AskInv => ShownIsAsked
  BY DEF AskInv
<1>. QED BY InitAsks, StepAsks, <1>1, PTL DEF Spec
=============================================================================
