--------------------------- MODULE Courses_proofs ---------------------------
(***************************************************************************)
(* Theorems about Courses, for every number of pages, users, clients,      *)
(* requests and every finite set of countries.  A request is about to save *)
(* a copy of a row it read, so the invariants say of each copy in flight   *)
(* in what it may differ from the row.                                     *)
(***************************************************************************)
EXTENDS Courses, FiniteSetTheorems, WellFoundedInduction, TLAPS

-----------------------------------------------------------------------------
(* Rows and requests                                                       *)

LEMMA RowTypes ==
  ASSUME NEW row \in PageRow
  PROVE  /\ row # NoPage
         /\ Viewed(row) \in PageRow
         /\ Edited(row) \in PageRow
         /\ \A done \in BOOLEAN : [row EXCEPT !.completed = done] \in PageRow
         /\ \A c \in 0..MaxPages :
              [row EXCEPT !.course = c, !.completed = FALSE, !.likes = 0, !.views = 0,
                          !.public = TRUE, !.regions = {}, !.tagged = {}] \in PageRow
         /\ [row EXCEPT !.regions = {}] \in PageRow
         /\ [row EXCEPT !.regions = {}, !.tagged = {}] \in PageRow
         /\ \A n \in Nat : [row EXCEPT !.likes = n] \in PageRow
         /\ \A T \in SUBSET Countries : [row EXCEPT !.tagged = @ \union T] \in PageRow
         /\ \A u \in Users : NewCourse(u, row) \in PageRow
         /\ IncrementLikeCount(row).likes = row.likes + 1
         /\ DecrementLikeCount(row).likes = (IF row.likes > 0 THEN row.likes - 1 ELSE 0)
         /\ IncrementLikeCount(row).likes \in Nat /\ DecrementLikeCount(row).likes \in Nat
<1>1. row # NoPage
  BY DEF PageRow, NoPage
<1>2. /\ Viewed(row) \in PageRow
      /\ \A done \in BOOLEAN : [row EXCEPT !.completed = done] \in PageRow
  BY DEF PageRow, Viewed
<1>7. Edited(row) \in PageRow
  BY DEF PageRow, Edited
<1>3. \A c \in 0..MaxPages :
        [row EXCEPT !.course = c, !.completed = FALSE, !.likes = 0, !.views = 0,
                    !.public = TRUE, !.regions = {}, !.tagged = {}] \in PageRow
  BY DEF PageRow
<1>4. /\ [row EXCEPT !.regions = {}] \in PageRow
      /\ [row EXCEPT !.regions = {}, !.tagged = {}] \in PageRow
      /\ \A n \in Nat : [row EXCEPT !.likes = n] \in PageRow
      /\ \A T \in SUBSET Countries : [row EXCEPT !.tagged = @ \union T] \in PageRow
  BY DEF PageRow
<1>5. \A u \in Users : NewCourse(u, row) \in PageRow
  BY BoundsAssumption DEF PageRow, NewCourse
<1>6. /\ IncrementLikeCount(row).likes = row.likes + 1
      /\ DecrementLikeCount(row).likes = (IF row.likes > 0 THEN row.likes - 1 ELSE 0)
      /\ IncrementLikeCount(row).likes \in Nat /\ DecrementLikeCount(row).likes \in Nat
  BY DEF PageRow, IncrementLikeCount, DecrementLikeCount
<1> QED
  BY <1>1, <1>2, <1>3, <1>4, <1>5, <1>6, <1>7

LEMMA WrittenTypes ==
  ASSUME NEW row \in PageRow, NEW e \in PageRow, NEW columns \in SUBSET SavedColumns
  PROVE  /\ Written(row, e, columns) \in PageRow
         /\ Written(row, e, columns).course = row.course
         /\ Written(row, e, columns).owner = row.owner
         /\ Written(row, e, columns).date = row.date
         /\ Written(row, e, columns).regions = row.regions
         /\ Written(row, e, columns).tagged = row.tagged
         /\ "likes" \notin columns => Written(row, e, columns).likes = row.likes
         /\ "completed" \notin columns => Written(row, e, columns).completed = row.completed
         /\ "completed" \in columns => Written(row, e, columns).completed = e.completed
  BY DEF PageRow, Written, SavedColumns

LEMMA DifferingTypes ==
  ASSUME NEW row, NEW e
  PROVE  /\ Differing(e, row) \in SUBSET SavedColumns
         /\ e.likes = row.likes => "likes" \notin Differing(e, row)
         /\ e.completed = row.completed => "completed" \notin Differing(e, row)
  BY DEF Differing, SavedColumns

\* Which record a request is follows from where it stands.
LEMMA RequestKinds ==
  ASSUME NEW r \in Requests
  PROVE  /\ r.pc = "idle" => r = Idle
         /\ r.pc = "lock" => r \in LockRequests
         /\ r.pc \in {"like", "unlike"} => r \in LikeRequests
         /\ r.pc = "reload" => r \in ReloadRequests
         /\ r.pc = "write" => r \in WriteRequests
         /\ r.pc \in {"copy", "blog"} => r \in InsertRequests
         /\ r.pc = "deleteBlog" => r \in DeleteBlogRequests
         /\ r.pc \in Transactions => r \in TransactionRequests
  BY DEF Requests, PageRequests, Idle, LockRequests, LikeRequests, ReloadRequests, WriteRequests,
         InsertRequests, DeleteBlogRequests, TransactionRequests, Transactions

LEMMA RequestSets ==
  /\ Idle \in Requests
  /\ LockRequests \subseteq Requests /\ LikeRequests \subseteq Requests
  /\ ReloadRequests \subseteq Requests /\ WriteRequests \subseteq Requests
  /\ InsertRequests \subseteq Requests /\ DeleteBlogRequests \subseteq Requests
  /\ TransactionRequests \subseteq Requests
  BY DEF Requests, PageRequests

-----------------------------------------------------------------------------
(* Visit dates                                                             *)

\* Induction over the naturals, for a set of numbers.
LEMMA NatSetInduction ==
  ASSUME NEW S \in SUBSET Nat, 0 \in S, \A n \in S : n + 1 \in S
  PROVE  S = Nat
<1> SUFFICES ASSUME Nat \ S # {} PROVE FALSE
  OBVIOUS
<1>1. PICK n \in Nat \ S : \A m \in Nat \ S : ~ (<<m, n>> \in OpToRel(<, Nat))
  BY NatLessThanWellFounded, WFMin, Nat \ S \subseteq Nat
<1>2. \A m \in Nat \ S : ~ (m < n)
  BY <1>1 DEF OpToRel
<1>3. n # 0
  OBVIOUS
<1>4. n - 1 \in Nat /\ n - 1 < n /\ n = (n - 1) + 1
  BY <1>3
<1>5. n - 1 \in S
  BY <1>2, <1>4
<1> QED
  BY <1>4, <1>5

\* Among finitely many numbers, one per page, there is a bound.
LEMMA DatesBounded ==
  ASSUME NEW f \in [Ids -> Nat]
  PROVE  \E b \in Nat : \A c \in Ids : f[c] <= b
<1> DEFINE S == {n \in Nat : \E b \in Nat : \A c \in Ids : c <= n => f[c] <= b}
<1>1. 0 \in S
  BY BoundsAssumption DEF Ids
<1>2. ASSUME NEW n \in S PROVE n + 1 \in S
  <2>1. PICK b \in Nat : \A c \in Ids : c <= n => f[c] <= b
    OBVIOUS
  <2>2. CASE n + 1 \in Ids
    <3> DEFINE d == IF f[n + 1] > b THEN f[n + 1] ELSE b
    <3>1. d \in Nat /\ \A c \in Ids : c <= n + 1 => f[c] <= d
      BY <2>1, <2>2, BoundsAssumption DEF Ids
    <3> QED
      BY <3>1
  <2>3. CASE n + 1 \notin Ids
    <3>1. \A c \in Ids : c <= n + 1 => f[c] <= b
      BY <2>1, <2>3, BoundsAssumption DEF Ids
    <3> QED
      BY <3>1
  <2> QED
    BY <2>2, <2>3
<1>3. S = Nat
  <2> HIDE DEF S
  <2>1. S \in SUBSET Nat
    BY DEF S
  <2> QED
    BY <1>1, <1>2, <2>1, NatSetInduction
<1>4. MaxPages \in S
  BY <1>3, BoundsAssumption
<1> QED
  BY <1>4, BoundsAssumption DEF Ids

\* A set of numbers below a bound has a largest one.
LEMMA LargestExists ==
  ASSUME NEW D \in SUBSET Nat, D # {}, NEW b \in Nat, \A d \in D : d <= b
  PROVE  \E d \in D : \A e \in D : e <= d
<1> DEFINE T == {n \in Nat : \E d \in D : n = b - d}
<1>1. T \subseteq Nat /\ T # {}
  <2>1. PICK d \in D : TRUE
    OBVIOUS
  <2>2. b - d \in T
    BY <2>1
  <2> QED
    BY <2>2
<1>2. PICK n \in T : \A m \in T : ~ (<<m, n>> \in OpToRel(<, Nat))
  <2> HIDE DEF T
  <2> QED
    BY <1>1, NatLessThanWellFounded, WFMin
<1>3. \A m \in T : ~ (m < n)
  BY <1>1, <1>2 DEF OpToRel
<1>4. PICK d \in D : n = b - d
  OBVIOUS
<1>5. ASSUME NEW e \in D PROVE e <= d
  <2>1. b - e \in T
    OBVIOUS
  <2> QED
    BY <1>3, <1>4, <2>1
<1> QED
  BY <1>5

Rows == [Ids -> PageRow \union {NoPage}]

LEMMA VisitDatesTypes ==
  ASSUME NEW rows \in Rows, NEW u
  PROVE  VisitDates(rows, u) \in Visits
<1> DEFINE f == [c \in Ids |-> IF rows[c] = NoPage THEN 0 ELSE rows[c].date]
<1>1. \A c \in Ids : rows[c] # NoPage => rows[c] \in PageRow /\ rows[c].date \in Nat
  BY DEF Rows, PageRow
<1>2. f \in [Ids -> Nat]
  BY <1>1
<1>3. PICK b \in Nat : \A c \in Ids : f[c] <= b
  BY <1>2, DatesBounded
<1>4. ASSUME NEW x \in Countries
      PROVE  Latest(Dates(rows, u, x)) \in Nat
  <2>1. \A d \in Dates(rows, u, x) : d \in Nat /\ d <= b
    BY <1>1, <1>3 DEF Completed, Dates
  <2>2. Dates(rows, u, x) # {} =>
          \E d \in Dates(rows, u, x) : \A e \in Dates(rows, u, x) : e <= d
    BY <2>1, LargestExists
  <2> QED
    BY <2>1, <2>2 DEF NoDate, Latest
<1> QED
  BY <1>4 DEF Visits, VisitDates

\* The dates depend only on the completed courses of the user: on which they are,
\* on their dates and on their countries.
LEMMA SameVisitDates ==
  ASSUME NEW rows, NEW others, NEW u,
         Completed(rows, u) = Completed(others, u),
         \A c \in Completed(rows, u) :
           rows[c].date = others[c].date /\ CountriesOf(rows[c]) = CountriesOf(others[c])
  PROVE  VisitDates(rows, u) = VisitDates(others, u)
<1>1. \A x : Dates(rows, u, x) = Dates(others, u, x)
  BY DEF Dates
<1> QED
  BY <1>1 DEF VisitDates

-----------------------------------------------------------------------------
(* Types and shapes of requests                                            *)

\* What the fields of a request say about each other: before its write a
\* completion has the course it saves and a deletion has none; only courses are
\* completed; what is inserted is new.
Shape(r) ==
  /\ r.pc \in Transactions =>
       /\ r.pc \in {"completionReload", "completionWrite"} => r.row # NoPage /\ ~ r.wrote
       /\ r.pc = "drop" => r.row = NoPage /\ ~ r.wrote
       /\ r.row = NoPage => r.columns = {}
       /\ r.row # NoPage => r.row.course = 0
  /\ r.pc = "copy" => r.row.course = 0
  /\ r.pc = "blog" => r.row.course # 0
  /\ r.pc \in {"copy", "blog"} => r.row.likes = 0 /\ ~ r.row.completed

Shapes == \A k \in Clients : Shape(request[k])

\* Replacing one request by another one keeps types and shapes.
LEMMA GotoTypes ==
  ASSUME TypeOK, Shapes, NEW k \in Clients, NEW r \in Requests, Shape(r), Goto(k, r)
  PROVE  request' \in [Clients -> Requests] /\ Shapes'
<1>1. request' \in [Clients -> Requests]
  BY DEF TypeOK, Goto
<1>2. ASSUME NEW j \in Clients PROVE Shape(request'[j])
  BY DEF TypeOK, Goto, Shapes
<1> QED
  BY <1>1, <1>2 DEF Shapes, Shape

LEMMA DoneTypes ==
  ASSUME TypeOK, Shapes, NEW k \in Clients, Done(k)
  PROVE  request' \in [Clients -> Requests] /\ Shapes'
<1>1. Shape(Idle)
  BY DEF Idle, Shape, Transactions
<1> QED
  BY <1>1, RequestSets, GotoTypes DEF Done

LEMMA StartTypes ==
  ASSUME TypeOK, NEW k \in Clients, NEW op, Start(k, op)
  PROVE  started' \in 1..MaxRequests
  BY BoundsAssumption DEF TypeOK, PageTypes, Start

LEMMA LikeTypes ==
  ASSUME TypeOK, Shapes, NEW k \in Clients, UNCHANGED <<workload, visitVars>>,
         \/ \E u \in Users, p \in Ids, op \in {"like", "unlike"} : LikeStart(k, op, u, p)
         \/ LikeStep(k)
  PROVE  TypeOK' /\ Shapes'
<1>1. CASE \E u \in Users, p \in Ids, op \in {"like", "unlike"} : LikeStart(k, op, u, p)
  <2>1. PICK u \in Users, p \in Ids, op \in {"like", "unlike"} : LikeStart(k, op, u, p)
    BY <1>1
  <2> DEFINE r == [pc |-> "lock", op |-> op, user |-> u, page |-> p, id |-> started']
  <2>2. started' \in 1..MaxRequests
    BY <2>1, StartTypes DEF LikeStart
  <2>3. r \in LockRequests /\ Shape(r)
    BY <2>2 DEF LockRequests, Shape, Transactions
  <2>4. request' \in [Clients -> Requests] /\ Shapes'
    BY <2>1, <2>3, RequestSets, GotoTypes DEF LikeStart
  <2> QED
    BY <2>1, <2>2, <2>4 DEF LikeStart, TypeOK, PageTypes, pageVars, visitVars
<1>2. CASE LikeLock(k)
  <2> DEFINE r == request[k]
             s == [pc |-> r.op, user |-> r.user, page |-> r.page, id |-> r.id, row |-> page[r.page]]
  <2>1. r \in LockRequests
    BY <1>2, RequestKinds DEF LikeLock, At, TypeOK
  <2>2. CASE Done(k) /\ UNCHANGED locked
    <3>1. request' \in [Clients -> Requests] /\ Shapes'
      BY <2>2, DoneTypes
    <3> QED
      BY <1>2, <2>2, <3>1 DEF LikeLock, TypeOK, PageTypes, visitVars
  <2>3. CASE Exists(r.page) /\ LockRow(r.page) /\ Goto(k, s)
    <3>1. page[r.page] \in PageRow /\ r.page \in Ids
      BY <2>1, <2>3 DEF LockRequests, TypeOK, PageTypes, Exists
    <3>2. s \in LikeRequests /\ Shape(s)
      BY <2>1, <3>1 DEF LockRequests, LikeRequests, Shape, Transactions
    <3>3. request' \in [Clients -> Requests] /\ Shapes'
      BY <2>3, <3>2, RequestSets, GotoTypes
    <3> QED
      BY <1>2, <2>3, <3>1, <3>3 DEF LikeLock, LockRow, TypeOK, PageTypes, visitVars
  <2> QED
    BY <1>2, <2>2, <2>3 DEF LikeLock
<1>3. CASE LikeCommit(k) \/ UnlikeCommit(k)
  <2> DEFINE r == request[k]
  <2>1. r \in LikeRequests
    BY <1>3, RequestKinds DEF LikeCommit, UnlikeCommit, At, TypeOK
  <2>2. request' \in [Clients -> Requests] /\ Shapes'
    BY <1>3, DoneTypes DEF LikeCommit, UnlikeCommit
  <2>3. r.row \in PageRow /\ r.page \in Ids /\ r.row.likes \in Nat
    BY <2>1 DEF LikeRequests, PageRow
  <2>4. PICK n \in Nat : page' = [page EXCEPT ![r.page].likes = n]
    <3>1. /\ IncrementLikeCount(r.row).likes \in Nat
          /\ DecrementLikeCount(r.row).likes \in Nat
      BY <2>3, RowTypes
    <3>2. \/ page' = [page EXCEPT ![r.page].likes = IncrementLikeCount(r.row).likes]
          \/ page' = [page EXCEPT ![r.page].likes = DecrementLikeCount(r.row).likes]
      BY <1>3 DEF LikeCommit, UnlikeCommit
    <3> QED
      BY <3>1, <3>2
  <2>5. page' \in [Ids -> PageRow \union {NoPage}]
    BY <2>3, <2>4, RowTypes DEF TypeOK, PageTypes, NoPage
  <2>6. likes' \subseteq LikeRow
    BY <1>3, <2>1 DEF LikeCommit, UnlikeCommit, LikeRequests, LikeRow, TypeOK, PageTypes
  <2>7. locked' \subseteq Ids /\ disturbed' \subseteq Ids \X {"likes", "completed"}
    BY <1>3, <2>3 DEF LikeCommit, UnlikeCommit, Unlock, Disturb, TypeOK, PageTypes
  <2> QED
    BY <1>3, <2>2, <2>5, <2>6, <2>7 DEF LikeCommit, UnlikeCommit, TypeOK, PageTypes, visitVars
<1> QED
  BY <1>1, <1>2, <1>3 DEF LikeStep

LEMMA SaveTypes ==
  ASSUME TypeOK, Shapes, NEW k \in Clients, UNCHANGED <<workload, visitVars>>,
         \/ \E u \in Users, p \in Ids : ViewStart(k, u, p) \/ EditStart(k, p)
         \/ SaveStep(k)
  PROVE  TypeOK' /\ Shapes'
<1>1. CASE \E u \in Users, p \in Ids : ViewStart(k, u, p) \/ EditStart(k, p)
  <2>1. PICK u \in Users, p \in Ids : ViewStart(k, u, p) \/ EditStart(k, p)
    BY <1>1
  <2> DEFINE s(row) == [pc |-> "reload", page |-> p, row |-> row, likes |-> LikesOf(p)]
  <2>2. page[p] \in PageRow
    BY <2>1 DEF ViewStart, EditStart, Exists, TypeOK, PageTypes
  <2>3. PICK row \in PageRow : Goto(k, s(row))
    <3>1. Viewed(page[p]) \in PageRow /\ Edited(page[p]) \in PageRow
      BY <2>2, RowTypes
    <3>2. Goto(k, s(Viewed(page[p]))) \/ Goto(k, s(Edited(page[p])))
      BY <2>1 DEF ViewStart, EditStart
    <3> QED
      BY <3>1, <3>2
  <2>4. s(row) \in ReloadRequests /\ Shape(s(row))
    BY DEF ReloadRequests, Shape, Transactions, LikesOf, TypeOK, PageTypes
  <2>5. request' \in [Clients -> Requests] /\ Shapes'
    BY <2>3, <2>4, RequestSets, GotoTypes
  <2>6. started' \in 1..MaxRequests
    BY <2>1, StartTypes DEF ViewStart, EditStart
  <2> QED
    BY <2>1, <2>5, <2>6 DEF ViewStart, EditStart, TypeOK, PageTypes, pageVars, visitVars
<1>2. CASE SaveReload(k)
  <2> DEFINE r == request[k]
             s == [pc |-> "write", page |-> r.page, row |-> r.row,
                   columns |-> Differing(r.row, page[r.page])]
  <2>1. r \in ReloadRequests
    BY <1>2, RequestKinds DEF SaveReload, At, TypeOK
  <2>2. s \in WriteRequests /\ Shape(s)
    BY <2>1, DifferingTypes DEF ReloadRequests, WriteRequests, Shape, Transactions
  <2>3. Done(k) \/ Goto(k, s)
    BY <1>2 DEF SaveReload
  <2>4. request' \in [Clients -> Requests] /\ Shapes'
    BY <2>2, <2>3, RequestSets, GotoTypes, DoneTypes
  <2> QED
    BY <1>2, <2>4 DEF SaveReload, TypeOK, PageTypes, pageVars, visitVars
<1>3. CASE SaveInserts(k)
  <2> DEFINE r == request[k]
  <2>1. r \in ReloadRequests
    BY <1>3, RequestKinds DEF SaveInserts, At, TypeOK
  <2>2. r.page \in Ids /\ [r.row EXCEPT !.regions = {}] \in PageRow
    BY <2>1, RowTypes DEF ReloadRequests
  <2>3. page' \in [Ids -> PageRow \union {NoPage}]
    BY <1>3, <2>2 DEF SaveInserts, TypeOK, PageTypes
  <2>4. request' \in [Clients -> Requests] /\ Shapes'
    BY <1>3, DoneTypes DEF SaveInserts
  <2> QED
    BY <1>3, <2>3, <2>4 DEF SaveInserts, TypeOK, PageTypes, visitVars
<1>4. CASE SaveWrite(k)
  <2> DEFINE r == request[k]
  <2>1. r \in WriteRequests
    BY <1>4, RequestKinds DEF SaveWrite, At, TypeOK
  <2>2. page[r.page] \in PageRow => Written(page[r.page], r.row, r.columns) \in PageRow
    BY <2>1, WrittenTypes DEF WriteRequests
  <2>3. page' \in [Ids -> PageRow \union {NoPage}]
    BY <1>4, <2>1, <2>2 DEF SaveWrite, WriteRequests, Exists, TypeOK, PageTypes
  <2>4. request' \in [Clients -> Requests] /\ Shapes'
    BY <1>4, DoneTypes DEF SaveWrite
  <2> QED
    BY <1>4, <2>3, <2>4 DEF SaveWrite, TypeOK, PageTypes, visitVars
<1> QED
  BY <1>1, <1>2, <1>3, <1>4 DEF SaveStep

\* A new transaction, and those of its user that it overlaps with.
LEMMA BeginTypes ==
  ASSUME TypeOK, Shapes, NEW k \in Clients, NEW r \in TransactionRequests, Shape(r), Begin(k, r)
  PROVE  request' \in [Clients -> Requests] /\ Shapes'
<1>1. ASSUME NEW s \in TransactionRequests, Shape(s), NEW a \in BOOLEAN
      PROVE  [s EXCEPT !.alone = a] \in TransactionRequests /\ Shape([s EXCEPT !.alone = a])
  BY <1>1 DEF TransactionRequests, Shape, Transactions
<1>2. ASSUME NEW j \in Clients, j # k, j \in Others(k, r.user)
      PROVE  request[j] \in TransactionRequests /\ Shape(request[j])
  BY <1>2, RequestKinds DEF Others, InTransaction, TypeOK, Shapes
<1>3. ASSUME NEW j \in Clients
      PROVE  request'[j] \in Requests /\ Shape(request'[j])
  <2>1. CASE j = k
    <3>1. request'[j] = [r EXCEPT !.alone = Others(k, r.user) = {}]
      BY <2>1 DEF Begin
    <3> QED
      BY <1>1, <3>1, RequestSets
  <2>2. CASE j # k /\ j \in Others(k, r.user)
    <3>1. request'[j] = [request[j] EXCEPT !.alone = FALSE]
      BY <2>2 DEF Begin
    <3> QED
      BY <1>1, <1>2, <2>2, <3>1, RequestSets
  <2>3. CASE j # k /\ j \notin Others(k, r.user)
    <3>1. request'[j] = request[j]
      BY <2>3 DEF Begin
    <3> QED
      BY <3>1 DEF TypeOK, Shapes
  <2> QED
    BY <2>1, <2>2, <2>3
<1>4. request' = [j \in Clients |-> request'[j]]
  BY DEF Begin
<1>5. request' \in [Clients -> Requests]
  BY <1>3, <1>4
<1> QED
  BY <1>3, <1>5 DEF Shapes

LEMMA TransactionStartTypes ==
  ASSUME TypeOK, Shapes, NEW k \in Clients, UNCHANGED workload, NEW u \in Users, NEW c \in Ids,
         (\E done \in BOOLEAN : CompleteStart(k, u, c, done)) \/ DeleteCourseStart(k, u, c)
  PROVE  TypeOK' /\ Shapes'
<1>1. Nowhere \in Visits
  BY DEF Nowhere, NoDate, Visits
<1>2. ASSUME NEW pc \in {"completionReload"}, NEW row \in PageRow, row.course = 0
      PROVE  /\ Transaction(pc, u, c, row) \in TransactionRequests
             /\ Shape(Transaction(pc, u, c, row))
  BY <1>1, <1>2, RowTypes DEF Transaction, TransactionRequests, Shape, Transactions
<1>3. /\ Transaction("drop", u, c, NoPage) \in TransactionRequests
      /\ Shape(Transaction("drop", u, c, NoPage))
  BY <1>1 DEF Transaction, TransactionRequests, Shape, Transactions
<1>4. CASE \E done \in BOOLEAN : CompleteStart(k, u, c, done)
  <2>1. PICK done \in BOOLEAN : CompleteStart(k, u, c, done)
    BY <1>4
  <2>2. page[c] \in PageRow /\ page[c].course = 0
    BY <2>1 DEF CompleteStart, IsCourse, Exists, TypeOK, PageTypes
  <2>3. /\ [page[c] EXCEPT !.completed = done] \in PageRow
        /\ [page[c] EXCEPT !.completed = done].course = 0
    BY <2>2 DEF PageRow
  <2>4. request' \in [Clients -> Requests] /\ Shapes'
    BY <1>2, <2>1, <2>3, BeginTypes DEF CompleteStart
  <2>5. started' \in 1..MaxRequests
    BY <2>1, StartTypes DEF CompleteStart
  <2> QED
    BY <2>1, <2>4, <2>5 DEF CompleteStart, TypeOK, PageTypes, pageVars, visitVars
<1>5. CASE DeleteCourseStart(k, u, c)
  <2>1. request' \in [Clients -> Requests] /\ Shapes'
    BY <1>3, <1>5, BeginTypes DEF DeleteCourseStart
  <2>2. started' \in 1..MaxRequests
    BY <1>5, StartTypes DEF DeleteCourseStart
  <2> QED
    BY <1>5, <2>1, <2>2 DEF DeleteCourseStart, TypeOK, PageTypes, pageVars, visitVars
<1> QED
  BY <1>4, <1>5

\* Locks released or taken stay within the pages.
LEMMA LockTypes ==
  ASSUME TypeOK, NEW k \in Clients, request[k] \in TransactionRequests,
         \/ UNCHANGED locked \/ LockRow(request[k].page) \/ Aborted(k)
         \/ locked' = locked \union ({request[k].page} \union BlogsOf(request[k].page))
  PROVE  locked' \subseteq Ids
  BY DEF TypeOK, PageTypes, LockRow, Aborted, BlogsOf, TransactionRequests

LEMMA TransactionStepTypes ==
  ASSUME TypeOK, Shapes, NEW k \in Clients, UNCHANGED workload,
         \/ CompletionReload(k) \/ CompletionWrite(k) \/ DropCourse(k)
         \/ Sync(k) \/ Tag(k) \/ Clear(k) \/ Cleared(k) \/ Fill(k)
  PROVE  TypeOK' /\ Shapes'
<1> DEFINE r == request[k]
<1>1. r \in TransactionRequests /\ Shape(r)
  BY RequestKinds DEF CompletionReload, CompletionWrite, DropCourse, Sync, Tag, Clear, Cleared, Fill,
     At, TypeOK, Shapes, Transactions
<1>2. page[r.page] = NoPage \/ page[r.page] \in PageRow
  BY <1>1 DEF TransactionRequests, TypeOK, PageTypes
<1>3. ASSUME NEW pc \in Transactions \ {"completionReload", "completionWrite", "drop"}, NEW w \in BOOLEAN
      PROVE  /\ [r EXCEPT !.pc = pc] \in TransactionRequests /\ Shape([r EXCEPT !.pc = pc])
             /\ [r EXCEPT !.pc = pc, !.wrote = w] \in TransactionRequests
             /\ Shape([r EXCEPT !.pc = pc, !.wrote = w])
  BY <1>1 DEF TransactionRequests, Shape, Transactions
<1>4. CASE CompletionReload(k)
  <2> DEFINE columns == Differing(r.row, page[r.page])
             gone == [r EXCEPT !.pc = "sync", !.wrote = TRUE,
                               !.row.regions = {}, !.row.tagged = {}]
             there == [r EXCEPT !.pc = IF columns = {} THEN "sync" ELSE "completionWrite",
                                !.columns = columns]
  <2>1. r.pc = "completionReload" /\ r.row \in PageRow /\ r.row.course = 0 /\ ~ r.wrote
    BY <1>1, <1>4 DEF CompletionReload, At, Shape, Transactions, TransactionRequests
  <2>2. gone \in TransactionRequests /\ Shape(gone)
    <3> DEFINE row == [r.row EXCEPT !.regions = {}, !.tagged = {}]
    <3>0. row.course = 0
      BY <2>1 DEF PageRow
    <3>1. row \in PageRow /\ row.course = 0 /\ row # NoPage
      BY <2>1, <3>0, RowTypes
    <3>2. gone = [r EXCEPT !.pc = "sync", !.wrote = TRUE, !.row = row]
      BY <1>1, <2>1 DEF TransactionRequests, PageRow
    <3> HIDE DEF row, gone
    <3> QED
      BY <1>1, <3>1, <3>2 DEF TransactionRequests, Shape, Transactions
  <2>3. there \in TransactionRequests /\ Shape(there)
    <3>1. columns \in SUBSET SavedColumns
      BY DifferingTypes
    <3> HIDE DEF columns
    <3> QED
      BY <1>1, <2>1, <3>1, RowTypes DEF TransactionRequests, Shape, Transactions
  <2>4. Goto(k, gone) \/ Goto(k, there)
    BY <1>4 DEF CompletionReload
  <2>5. request' \in [Clients -> Requests] /\ Shapes'
    <3> HIDE DEF gone, there
    <3> QED
      BY <2>2, <2>3, <2>4, RequestSets, GotoTypes
  <2>6. locked' \subseteq Ids
    BY <1>1, <1>4, LockTypes DEF CompletionReload
  <2> QED
    BY <1>4, <2>5, <2>6 DEF CompletionReload, TypeOK, PageTypes, visitVars
<1>5. CASE CompletionWrite(k) \/ DropCourse(k) \/ Tag(k) \/ Fill(k)
  <2>1. locked' \subseteq Ids
    BY <1>1, <1>5, LockTypes DEF CompletionWrite, DropCourse, Tag, Fill
  <2>2. \/ Done(k)
        \/ Goto(k, [r EXCEPT !.pc = "sync"]) \/ Goto(k, [r EXCEPT !.pc = "sync", !.wrote = TRUE])
        \/ Goto(k, [r EXCEPT !.pc = "clear"]) \/ Goto(k, [r EXCEPT !.pc = "commit"])
    BY <1>5 DEF CompletionWrite, DropCourse, Tag, Fill, Advance
  <2>3. request' \in [Clients -> Requests] /\ Shapes'
    <3>1. {"sync", "clear", "commit"} \subseteq Transactions \ {"completionReload", "completionWrite", "drop"}
      BY DEF Transactions
    <3> QED
      BY <1>3, <2>2, <3>1, RequestSets, GotoTypes, DoneTypes
  <2> QED
    BY <1>5, <2>1, <2>3 DEF CompletionWrite, DropCourse, Tag, Fill, TypeOK, PageTypes, visitVars
<1>6. CASE Sync(k)
  <2> DEFINE missing == UNION {{c} \X (Seen(r)[c].regions \ Seen(r)[c].tagged) :
                                 c \in Completed(Seen(r), r.user)}
             s == [r EXCEPT !.pc = IF missing = {} THEN "clear" ELSE "tag",
                            !.map = VisitedBy(r), !.missing = missing]
  <2>1. Own(r) \in PageRow \union {NoPage}
    BY <1>1, <1>2, WrittenTypes DEF Own, Exists, TransactionRequests
  <2>2. Seen(r) \in Rows
    BY <2>1 DEF Seen, Rows, TypeOK, PageTypes
  <2>3. VisitedBy(r) \in Visits
    BY <2>2, VisitDatesTypes DEF VisitedBy
  <2>4. missing \subseteq Ids \X Countries
    <3>1. \A c \in Completed(Seen(r), r.user) : c \in Ids /\ Seen(r)[c].regions \subseteq Countries
      BY <2>2 DEF Completed, Rows, PageRow
    <3> QED
      BY <3>1
  <2>5. s \in TransactionRequests /\ Shape(s)
    <3> HIDE DEF missing
    <3> QED
      BY <1>1, <2>3, <2>4 DEF TransactionRequests, Shape, Transactions
  <2>6. Goto(k, s)
    BY <1>6 DEF Sync
  <2>7. request' \in [Clients -> Requests] /\ Shapes'
    <3> HIDE DEF s
    <3> QED
      BY <2>5, <2>6, RequestSets, GotoTypes
  <2> QED
    BY <1>6, <2>7 DEF Sync, TypeOK, PageTypes, pageVars, visitVars
<1>7. CASE Clear(k) \/ Cleared(k)
  <2> DEFINE s == [r EXCEPT !.pc = "clearing", !.cleared = VisitedIn(visited[r.user])]
  <2>1. s \in TransactionRequests /\ Shape(s)
    BY <1>1, <1>7 DEF TransactionRequests, Shape, Transactions, VisitedIn
  <2>2. [r EXCEPT !.pc = "fill"] \in TransactionRequests /\ Shape([r EXCEPT !.pc = "fill"])
    BY <1>3 DEF Transactions
  <2>3. Goto(k, s) \/ Goto(k, [r EXCEPT !.pc = "fill"])
    BY <1>7 DEF Clear, Cleared, Advance
  <2>4. request' \in [Clients -> Requests] /\ Shapes'
    BY <2>1, <2>2, <2>3, RequestSets, GotoTypes
  <2> QED
    BY <1>7, <2>4 DEF Clear, Cleared, TypeOK, PageTypes, pageVars, visitVars
<1> QED
  BY <1>4, <1>5, <1>6, <1>7

\* The rows a transaction leaves: what it saw, without what it deletes and with
\* the countries it tags.
Tagged(r, row, p) == [row EXCEPT !.tagged = @ \union {m[2] : m \in {n \in r.missing : n[1] = p}}]

Gone(r) == IF r.row = NoPage THEN LockedBy(r) ELSE {}

LEMMA SeenTypes ==
  ASSUME TypeOK, NEW r \in TransactionRequests
  PROVE  Own(r) \in PageRow \union {NoPage} /\ Seen(r) \in Rows
<1>1. page[r.page] = NoPage \/ page[r.page] \in PageRow
  BY DEF TransactionRequests, TypeOK, PageTypes
<1>2. Own(r) \in PageRow \union {NoPage}
  BY <1>1, WrittenTypes DEF Own, Exists, TransactionRequests
<1> QED
  BY <1>2 DEF Seen, Rows, TypeOK, PageTypes

LEMMA CommitPage ==
  ASSUME TypeOK, NEW k \in Clients, Commit(k)
  PROVE  LET r == request[k] IN
         /\ r \in TransactionRequests
         /\ \A p \in Ids :
              page'[p] = IF p \in Gone(r) \/ Seen(r)[p] = NoPage THEN NoPage
                         ELSE Tagged(r, Seen(r)[p], p)
         /\ likes' = {l \in likes : l.page \notin Gone(r)}
         /\ locked' = locked \ LockedBy(r)
         /\ disturbed' = disturbed \union
              ({p \in {r.page} \union Gone(r) : r.wrote /\ HeldElsewhere(k, p)}
                 \X {"likes", "completed"})
  BY RequestKinds DEF Commit, At, TypeOK, Transactions, Gone, Tagged

\* The others go on as they were, except for the countries they wait to delete.
LEMMA CommitRequests ==
  ASSUME TypeOK, NEW k \in Clients, Commit(k)
  PROVE  /\ request' \in [Clients -> Requests]
         /\ request'[k] = Idle
         /\ \A j \in Clients \ {k} :
              request'[j] =
                IF j \in Others(k, request[k].user) /\ request[j].pc = "clearing"
                  THEN [request[j] EXCEPT !.cleared = @ \ request[k].cleared]
                  ELSE request[j]
<1>1. \A j \in Clients : request'[j] =
        IF j = k THEN Idle
        ELSE IF j \in Others(k, request[k].user) /\ request[j].pc = "clearing"
               THEN [request[j] EXCEPT !.cleared = @ \ request[k].cleared]
               ELSE request[j]
  BY DEF Commit
<1>2. \A s \in TransactionRequests : \A C : [s EXCEPT !.cleared = @ \ C] \in TransactionRequests
  BY DEF TransactionRequests
<1>3. ASSUME NEW j \in Clients PROVE request'[j] \in Requests
  <2>1. request[j].pc = "clearing" => request[j] \in TransactionRequests
    BY RequestKinds DEF TypeOK, Transactions
  <2> QED
    BY <1>1, <1>2, <2>1, RequestSets DEF TypeOK
<1>4. request' = [j \in Clients |-> request'[j]]
  BY DEF Commit
<1> QED
  BY <1>1, <1>3, <1>4

LEMMA CommitTypes ==
  ASSUME TypeOK, Shapes, NEW k \in Clients, UNCHANGED workload, Commit(k)
  PROVE  TypeOK' /\ Shapes'
<1> DEFINE r == request[k]
<1>1. r \in TransactionRequests
  BY CommitPage
<1>2. \A j \in Clients : Shape(request'[j])
  <2>1. Shape(Idle)
    BY DEF Idle, Shape, Transactions
  <2>2. ASSUME NEW j \in Clients, request[j].pc = "clearing", NEW C
        PROVE  Shape([request[j] EXCEPT !.cleared = @ \ C])
    <3>1. request[j] \in TransactionRequests /\ Shape(request[j])
      BY <2>2, RequestKinds DEF TypeOK, Shapes, Transactions
    <3> QED
      BY <2>2, <3>1 DEF Shape, TransactionRequests, Transactions
  <2>3. ASSUME NEW j \in Clients \ {k}
        PROVE  request'[j] = request[j]
                 \/ /\ request[j].pc = "clearing"
                    /\ \E C : request'[j] = [request[j] EXCEPT !.cleared = @ \ C]
    BY <2>3, CommitRequests
  <2>4. ASSUME NEW j \in Clients PROVE Shape(request'[j])
    <3>1. CASE j = k
      BY <2>1, <3>1, CommitRequests
    <3>2. CASE request'[j] = request[j]
      BY <3>2 DEF Shapes
    <3>3. CASE /\ request[j].pc = "clearing"
               /\ \E C : request'[j] = [request[j] EXCEPT !.cleared = @ \ C]
      <4>1. PICK C : request'[j] = [request[j] EXCEPT !.cleared = @ \ C]
        BY <3>3
      <4> QED
        BY <2>2, <3>3, <4>1
    <3> QED
      BY <2>3, <3>1, <3>2, <3>3
  <2> QED
    BY <2>4
<1>3. ASSUME NEW p \in Ids PROVE page'[p] \in PageRow \union {NoPage}
  <2>1. {m[2] : m \in {n \in r.missing : n[1] = p}} \in SUBSET Countries
    BY <1>1 DEF TransactionRequests
  <2>2. Seen(r)[p] = NoPage \/ Seen(r)[p] \in PageRow
    BY <1>1, SeenTypes DEF Rows
  <2>3. Seen(r)[p] \in PageRow => Tagged(r, Seen(r)[p], p) \in PageRow
    BY <2>1, RowTypes DEF Tagged
  <2> QED
    BY <2>2, <2>3, CommitPage
<1>4. page' \in [Ids -> PageRow \union {NoPage}]
  <2>1. page' = [p \in Ids |-> page'[p]]
    BY DEF Commit
  <2> QED
    BY <1>3, <2>1
<1>5. likes' \subseteq LikeRow /\ locked' \subseteq Ids
      /\ disturbed' \subseteq Ids \X {"likes", "completed"}
  <2>1. r.page \in Ids /\ Gone(r) \subseteq Ids
    BY <1>1 DEF Gone, LockedBy, BlogsOf, TransactionRequests
  <2>2. likes' \subseteq likes /\ locked' \subseteq locked
    BY CommitPage
  <2>3. disturbed' \subseteq disturbed \union (Ids \X {"likes", "completed"})
    BY <2>1, CommitPage
  <2> QED
    BY <2>2, <2>3 DEF TypeOK, PageTypes
<1>6. visited' \in [Users -> Visits]
  BY <1>1 DEF Commit, TypeOK, Visits, NoDate, TransactionRequests
<1>7. counted' \in [Users -> Nat]
  <2>1. IsFiniteSet(VisitedIn(r.map))
    BY CountriesAssumption, FS_Subset DEF VisitedIn
  <2>2. VisitedCount(r) \in Nat
    BY <2>1, FS_CardinalityType DEF VisitedCount
  <2> QED
    BY <2>2 DEF Commit, TypeOK
<1>8. alone' \in [Users -> BOOLEAN]
  BY <1>1 DEF Commit, TypeOK, TransactionRequests
<1>9. request' \in [Clients -> Requests]
  BY CommitRequests
<1>10. workload' \in Workloads /\ started' \in 0..MaxRequests /\ made' \in Ids
  BY DEF Commit, TypeOK, PageTypes
<1> QED
  BY <1>2, <1>4, <1>5, <1>6, <1>7, <1>8, <1>9, <1>10 DEF TypeOK, PageTypes, Shapes

LEMMA InsertTypes ==
  ASSUME TypeOK, NEW row \in PageRow, Insert(row)
  PROVE  /\ made' \in Ids /\ made' = made + 1
         /\ page' = [page EXCEPT ![made'] = row]
         /\ page' \in [Ids -> PageRow \union {NoPage}]
<1>1. made' \in Ids /\ made' = made + 1
  BY BoundsAssumption DEF Insert, TypeOK, Ids
<1> QED
  BY <1>1 DEF Insert, TypeOK, PageTypes

LEMMA NewPageTypes ==
  ASSUME TypeOK, Shapes, NEW k \in Clients, UNCHANGED workload,
         \/ \E u \in Users, c \in Ids :
              CopyStart(k, u, c) \/ BlogStart(k, u, c) \/ DeleteBlogStart(k, u, c)
         \/ Copy(k) \/ Blog(k) \/ DeleteBlog(k)
  PROVE  TypeOK' /\ Shapes'
<1>1. ASSUME NEW u \in Users, NEW c \in Ids, CopyStart(k, u, c) \/ BlogStart(k, u, c)
      PROVE  TypeOK' /\ Shapes'
  <2>1. page[c] \in PageRow /\ c # 0 /\ c \in 0..MaxPages
    <3>1. page[c] # NoPage
      BY <1>1 DEF CopyStart, BlogStart, IsCourse, Exists
    <3> QED
      BY <3>1, BoundsAssumption DEF TypeOK, PageTypes, Ids
  <2> DEFINE copy == [pc |-> "copy", row |-> NewCourse(u, page[c])]
             row == [page[c] EXCEPT !.course = c, !.completed = FALSE, !.likes = 0, !.views = 0,
                                    !.public = TRUE, !.regions = {}, !.tagged = {}]
             blog == [pc |-> "blog", row |-> row]
  <2>2. copy \in InsertRequests /\ Shape(copy)
    <3>1. NewCourse(u, page[c]) \in PageRow
      BY <2>1, RowTypes
    <3>2. /\ NewCourse(u, page[c]).course = 0 /\ NewCourse(u, page[c]).likes = 0
          /\ ~ NewCourse(u, page[c]).completed
      BY DEF NewCourse
    <3> QED
      BY <3>1, <3>2 DEF InsertRequests, Shape, Transactions
  <2>3. row \in PageRow
    BY <2>1, RowTypes
  <2>4. row.course = c /\ row.likes = 0 /\ ~ row.completed
    BY <2>1 DEF PageRow
  <2>5. blog \in InsertRequests /\ Shape(blog)
    <3> HIDE DEF row
    <3> QED
      BY <2>1, <2>3, <2>4 DEF InsertRequests, Shape, Transactions
  <2>6. Goto(k, copy) \/ Goto(k, blog)
    BY <1>1 DEF CopyStart, BlogStart
  <2>7. request' \in [Clients -> Requests] /\ Shapes'
    <3> HIDE DEF copy, blog
    <3> QED
      BY <2>2, <2>5, <2>6, RequestSets, GotoTypes
  <2>8. started' \in 1..MaxRequests
    BY <1>1, StartTypes DEF CopyStart, BlogStart
  <2>9. UNCHANGED <<pageVars, visitVars>>
    BY <1>1 DEF CopyStart, BlogStart
  <2> QED
    BY <2>7, <2>8, <2>9 DEF TypeOK, PageTypes, pageVars, visitVars
<1>2. ASSUME NEW u \in Users, NEW c \in Ids, DeleteBlogStart(k, u, c)
      PROVE  TypeOK' /\ Shapes'
  <2> DEFINE s == [pc |-> "deleteBlog", page |-> c]
  <2>1. s \in DeleteBlogRequests /\ Shape(s)
    BY DEF DeleteBlogRequests, Shape, Transactions
  <2>2. request' \in [Clients -> Requests] /\ Shapes'
    BY <1>2, <2>1, RequestSets, GotoTypes DEF DeleteBlogStart
  <2>3. started' \in 1..MaxRequests
    BY <1>2, StartTypes DEF DeleteBlogStart
  <2> QED
    BY <1>2, <2>2, <2>3 DEF DeleteBlogStart, TypeOK, PageTypes, pageVars, visitVars
<1>3. ASSUME Copy(k) \/ Blog(k)
      PROVE  TypeOK' /\ Shapes'
  <2>1. request[k].row \in PageRow
    BY <1>3, RequestKinds DEF Copy, Blog, At, TypeOK, InsertRequests
  <2>2. made' \in Ids /\ page' \in [Ids -> PageRow \union {NoPage}]
    BY <1>3, <2>1, InsertTypes DEF Copy, Blog, TypeOK, PageTypes
  <2>3. request' \in [Clients -> Requests] /\ Shapes'
    BY <1>3, DoneTypes DEF Copy, Blog
  <2> QED
    BY <1>3, <2>2, <2>3 DEF Copy, Blog, TypeOK, PageTypes
<1>4. ASSUME DeleteBlog(k)
      PROVE  TypeOK' /\ Shapes'
  <2>1. request[k].page \in Ids
    BY <1>4, RequestKinds DEF DeleteBlog, At, TypeOK, DeleteBlogRequests
  <2>2. request' \in [Clients -> Requests] /\ Shapes'
    BY <1>4, DoneTypes DEF DeleteBlog
  <2>3. /\ page' \in [Ids -> PageRow \union {NoPage}] /\ likes' \subseteq LikeRow
        /\ disturbed' \subseteq Ids \X {"likes", "completed"}
    BY <1>4, <2>1 DEF DeleteBlog, Disturb, TypeOK, PageTypes
  <2> QED
    BY <1>4, <2>2, <2>3 DEF DeleteBlog, TypeOK, PageTypes, visitVars
<1> QED
  BY <1>1, <1>2, <1>3, <1>4

LEMMA InitTypes ==
  ASSUME Init
  PROVE  TypeOK /\ Shapes
<1>1. PICK w \in Workloads : workload = w
  BY DEF Init
<1>2. /\ workload.page \in [Ids -> PageRow \union {NoPage}] /\ workload.made \in Ids
      /\ workload.visited = [u \in Users |-> VisitDates(workload.page, u)]
  BY <1>1, WorkloadAssumption
<1>3. request \in [Clients -> Requests] /\ Shapes
  BY RequestSets DEF Init, Shapes, Shape, Idle, Transactions
<1>4. visited \in [Users -> Visits]
  BY <1>2, VisitDatesTypes DEF Init, Rows
<1>5. counted \in [Users -> Nat]
  <2>1. \A u \in Users : Cardinality(VisitedIn(visited[u])) \in Nat
    BY CountriesAssumption, FS_Subset, FS_CardinalityType DEF VisitedIn
  <2> QED
    BY <2>1 DEF Init
<1> QED
  BY <1>1, <1>2, <1>3, <1>4, <1>5, BoundsAssumption DEF Init, TypeOK, PageTypes

LEMMA NextTypes ==
  ASSUME TypeOK, Shapes, [Next]_vars
  PROVE  TypeOK' /\ Shapes'
<1>1. CASE UNCHANGED vars
  BY <1>1 DEF vars, pageVars, TypeOK, PageTypes, Shapes
<1>2. CASE Next
  <2>1. PICK k \in Clients :
          \/ \E u \in Users : UserStarts(k, u)
          \/ (LikeStep(k) \/ SaveStep(k)) /\ UNCHANGED visitVars
          \/ TransactionStep(k)
          \/ Copy(k) \/ Blog(k) \/ DeleteBlog(k)
    BY <1>2 DEF Next
  <2>2. UNCHANGED workload
    BY <1>2 DEF Next
  <2>3. CASE \E u \in Users : UserStarts(k, u)
    <3>1. PICK u \in Users, p \in Ids :
            \/ \E done \in BOOLEAN : CompleteStart(k, u, p, done)
            \/ DeleteCourseStart(k, u, p) \/ CopyStart(k, u, p)
            \/ BlogStart(k, u, p) \/ DeleteBlogStart(k, u, p)
            \/ \E op \in {"like", "unlike"} : LikeStart(k, op, u, p) /\ UNCHANGED visitVars
            \/ (ViewStart(k, u, p) \/ EditStart(k, p)) /\ UNCHANGED visitVars
      BY <2>3 DEF UserStarts
    <3> QED
      BY <2>2, <3>1, TransactionStartTypes, NewPageTypes, LikeTypes, SaveTypes
  <2>4. CASE (LikeStep(k) \/ SaveStep(k)) /\ UNCHANGED visitVars
    BY <2>2, <2>4, LikeTypes, SaveTypes
  <2>5. CASE TransactionStep(k)
    BY <2>2, <2>5, TransactionStepTypes, CommitTypes DEF TransactionStep
  <2>6. CASE Copy(k) \/ Blog(k) \/ DeleteBlog(k)
    BY <2>2, <2>6, NewPageTypes
  <2> QED
    BY <2>1, <2>3, <2>4, <2>5, <2>6
<1> QED
  BY <1>1, <1>2

\* Every variable and every request has its type: a like count is never negative
\* and a visit date is one of a completed course, whatever copies were saved.
THEOREM TypeCorrect == Spec => []TypeOK
<1>1. Init => TypeOK /\ Shapes
  BY InitTypes
<1>2. TypeOK /\ Shapes /\ [Next]_vars => TypeOK' /\ Shapes'
  BY NextTypes
<1> QED
  BY <1>1, <1>2, PTL DEF Spec

-----------------------------------------------------------------------------
(* What a step does to the other requests                                  *)

\* The same but for the two fields that others may change: whether the
\* transaction is alone, and what it waits to delete.
Kept(r, s) ==
  \/ s = r
  \/ /\ r \in TransactionRequests /\ s \in TransactionRequests
     /\ s.pc = r.pc /\ s.user = r.user /\ s.page = r.page /\ s.row = r.row
     /\ s.columns = r.columns /\ s.wrote = r.wrote /\ s.map = r.map /\ s.missing = r.missing

LEMMA BeginKeeps ==
  ASSUME TypeOK, NEW k \in Clients, NEW r, Begin(k, r)
  PROVE  /\ request'[k] = [r EXCEPT !.alone = Others(k, r.user) = {}]
         /\ \A j \in Clients \ {k} :
              /\ Kept(request[j], request'[j])
              /\ request'[j] = IF j \in Others(k, r.user) THEN [request[j] EXCEPT !.alone = FALSE]
                               ELSE request[j]
<1>1. ASSUME NEW j \in Clients \ {k}, j \in Others(k, r.user)
      PROVE  Kept(request[j], [request[j] EXCEPT !.alone = FALSE])
  <2>1. request[j] \in TransactionRequests
    BY <1>1, RequestKinds DEF Others, InTransaction, TypeOK
  <2> QED
    BY <2>1 DEF Kept, TransactionRequests
<1>2. \A j \in Clients \ {k} :
        request'[j] = IF j \in Others(k, r.user) THEN [request[j] EXCEPT !.alone = FALSE]
                      ELSE request[j]
  BY DEF Begin
<1>3. request'[k] = [r EXCEPT !.alone = Others(k, r.user) = {}]
  BY DEF Begin
<1>4. \A j \in Clients \ {k} : Kept(request[j], request'[j])
  BY <1>1, <1>2 DEF Kept
<1> QED
  BY <1>2, <1>3, <1>4

LEMMA CommitKeeps ==
  ASSUME TypeOK, NEW k \in Clients, Commit(k), NEW j \in Clients \ {k}
  PROVE  Kept(request[j], request'[j])
<1>1. CASE request'[j] = request[j]
  BY <1>1 DEF Kept
<1>2. CASE request[j].pc = "clearing"
           /\ request'[j] = [request[j] EXCEPT !.cleared = @ \ request[k].cleared]
  <2>1. request[j] \in TransactionRequests
    BY <1>2, RequestKinds DEF TypeOK, Transactions
  <2> QED
    BY <1>2, <2>1 DEF Kept, TransactionRequests
<1> QED
  BY <1>1, <1>2, CommitRequests

LEMMA GotoKeeps ==
  ASSUME TypeOK, NEW k \in Clients, NEW r, Goto(k, r)
  PROVE  /\ request'[k] = r
         /\ \A j \in Clients \ {k} : request'[j] = request[j] /\ Kept(request[j], request'[j])
  BY DEF Goto, TypeOK, Kept

-----------------------------------------------------------------------------
(* Who owns a page and whether it is a course or a blog never changes      *)

HoldsRow(r) == r.pc \in Copies \union Transactions /\ r.row # NoPage

Fact(p, row) == [page |-> p, course |-> row.course, owner |-> row.owner]

\* What the rows, and the copies of rows that may be saved, say about pages.
Facts ==
  {Fact(p, page[p]) : p \in {q \in Ids : Exists(q)}}
  \union {Fact(request[k].page, request[k].row) : k \in {j \in Clients : HoldsRow(request[j])}}

IsAlwaysCourse(p) == p \in 1..made /\ \A f \in Facts : f.page = p => f.course = 0

IsAlwaysCourseOf(p, u) ==
  p \in 1..made /\ \A f \in Facts : f.page = p => f.course = 0 /\ f.owner = u

IsAlwaysBlog(p) == p \in 1..made /\ \A f \in Facts : f.page = p => f.course # 0

\* Rows and copies agree on every page, and blogs tell about courses.
Agreed ==
  /\ \A f, g \in Facts : f.page = g.page => f = g
  /\ \A f \in Facts : f.page \in 1..made /\ (f.course # 0 => IsAlwaysCourse(f.course))

NamedBy(k) ==
  /\ At(k, "blog") => IsAlwaysCourse(request[k].row.course)
  /\ At(k, "deleteBlog") => IsAlwaysBlog(request[k].page)
  /\ request[k].pc \in Transactions =>
       /\ IsAlwaysCourseOf(request[k].page, request[k].user)
       /\ \A m \in request[k].missing : IsAlwaysCourseOf(m[1], request[k].user)

\* What a request names without having its row is of the kind it was checked for.
Named == \A k \in Clients : NamedBy(k)

LEMMA KeptFact ==
  ASSUME NEW r, NEW s, Kept(r, s)
  PROVE  HoldsRow(s) <=> HoldsRow(r)
  BY DEF Kept, HoldsRow

\* The facts of a step come from the rows it leaves and the request it goes on with.
LEMMA FactsCome ==
  ASSUME TypeOK, NEW k \in Clients, NEW F,
         \A j \in Clients \ {k} : Kept(request[j], request'[j]),
         \A p \in Ids : page'[p] # NoPage => Fact(p, page'[p]) \in Facts \union F,
         HoldsRow(request'[k]) => Fact(request'[k].page, request'[k].row) \in Facts \union F
  PROVE  Facts' \subseteq Facts \union F
<1>1. ASSUME NEW j \in Clients \ {k}, HoldsRow(request'[j])
      PROVE  Fact(request'[j].page, request'[j].row) \in Facts
  <2>1. HoldsRow(request[j]) /\ request'[j].page = request[j].page /\ request'[j].row = request[j].row
    BY <1>1, KeptFact DEF Kept
  <2> QED
    BY <2>1 DEF Facts
<1>2. ASSUME NEW f \in Facts'
      PROVE  f \in Facts \union F
  <2>1. \/ \E p \in Ids : page'[p] # NoPage /\ f = Fact(p, page'[p])
        \/ \E j \in Clients : HoldsRow(request'[j]) /\ f = Fact(request'[j].page, request'[j].row)
    BY DEF Facts, Exists, HoldsRow, Fact
  <2> QED
    BY <1>1, <2>1
<1> QED
  BY <1>2

LEMMA FactsKept ==
  ASSUME Agreed, Named, NEW k \in Clients,
         \A j \in Clients \ {k} : Kept(request[j], request'[j]),
         Facts' \subseteq Facts, made' = made, NamedBy(k)'
  PROVE  Agreed' /\ Named'
<1>1. \A p, u : /\ IsAlwaysCourse(p) => IsAlwaysCourse(p)'
                /\ IsAlwaysCourseOf(p, u) => IsAlwaysCourseOf(p, u)'
                /\ IsAlwaysBlog(p) => IsAlwaysBlog(p)'
  BY DEF IsAlwaysCourse, IsAlwaysCourseOf, IsAlwaysBlog
<1>2. Agreed'
  BY <1>1 DEF Agreed
<1>3. ASSUME NEW j \in Clients \ {k} PROVE NamedBy(j)'
  <2>1. CASE request'[j] = request[j]
    BY <1>1, <2>1 DEF Named, NamedBy, At
  <2>2. CASE request'[j] # request[j]
    <3>1. /\ request[j].pc \in Transactions /\ request'[j].pc = request[j].pc
          /\ request'[j].user = request[j].user /\ request'[j].page = request[j].page
          /\ request'[j].missing = request[j].missing
      BY <2>2 DEF Kept, TransactionRequests
    <3>2. request'[j].pc # "blog" /\ request'[j].pc # "deleteBlog"
      BY <3>1 DEF Transactions
    <3> QED
      BY <1>1, <3>1, <3>2 DEF Named, NamedBy, At
  <2> QED
    BY <2>1, <2>2
<1> QED
  BY <1>2, <1>3 DEF Named

\* A request that is done, or waits for a page to lock or like, says nothing.
LEMMA SilentFacts ==
  ASSUME NEW k \in Clients, request'[k].pc \in {"idle", "lock", "like", "unlike"}
  PROVE  ~ HoldsRow(request'[k]) /\ NamedBy(k)'
  BY DEF HoldsRow, Copies, Transactions, NamedBy, At

LEMMA PageFacts ==
  /\ \A p \in Ids : page[p] # NoPage => Fact(p, page[p]) \in Facts
  /\ \A k \in Clients : HoldsRow(request[k]) => Fact(request[k].page, request[k].row) \in Facts
  BY DEF Facts, Exists

LEMMA LikeFacts ==
  ASSUME TypeOK, Agreed, Named, NEW k \in Clients, UNCHANGED <<workload, visitVars>>,
         \/ \E u \in Users, p \in Ids, op \in {"like", "unlike"} : LikeStart(k, op, u, p)
         \/ LikeStep(k)
  PROVE  Agreed' /\ Named'
<1>1. /\ request'[k].pc \in {"idle", "lock", "like", "unlike"}
      /\ \A j \in Clients \ {k} : Kept(request[j], request'[j])
  <2>1. CASE \E u \in Users, p \in Ids, op \in {"like", "unlike"} : LikeStart(k, op, u, p)
    BY <2>1, GotoKeeps DEF LikeStart
  <2>2. CASE LikeLock(k)
    <3>1. request[k].op \in {"like", "unlike"}
      BY <2>2, RequestKinds DEF LikeLock, At, TypeOK, LockRequests
    <3> QED
      BY <2>2, <3>1, GotoKeeps DEF LikeLock, Done, Idle
  <2>3. CASE LikeCommit(k) \/ UnlikeCommit(k)
    BY <2>3, GotoKeeps DEF LikeCommit, UnlikeCommit, Done, Idle
  <2> QED
    BY <2>1, <2>2, <2>3 DEF LikeStep
<1>2. \A p \in Ids : page'[p] # NoPage => page[p] # NoPage /\ Fact(p, page'[p]) = Fact(p, page[p])
  <2>1. CASE UNCHANGED page
    BY <2>1
  <2>2. CASE LikeCommit(k) \/ UnlikeCommit(k)
    <3>1. PICK n : page' = [page EXCEPT ![request[k].page].likes = n]
      BY <2>2 DEF LikeCommit, UnlikeCommit
    <3> QED
      BY <3>1 DEF TypeOK, PageTypes, PageRow, NoPage, Fact
  <2> QED
    BY <2>1, <2>2 DEF LikeStart, LikeStep, LikeLock, pageVars
<1>3. \A p \in Ids : page'[p] # NoPage => Fact(p, page'[p]) \in Facts
  BY <1>2, PageFacts
<1>4. ~ HoldsRow(request'[k]) /\ NamedBy(k)'
  BY <1>1, SilentFacts
<1>5. Facts' \subseteq Facts \union {}
  BY <1>1, <1>3, <1>4, FactsCome
<1>6. made' = made
  BY DEF visitVars
<1> QED
  BY <1>1, <1>4, <1>5, <1>6, FactsKept

LEMMA SaveFacts ==
  ASSUME TypeOK, Agreed, Named, NEW k \in Clients, UNCHANGED <<workload, visitVars>>,
         \/ \E u \in Users, p \in Ids : ViewStart(k, u, p) \/ EditStart(k, p)
         \/ SaveStep(k)
  PROVE  Agreed' /\ Named'
<1>1. CASE \E u \in Users, p \in Ids : ViewStart(k, u, p) \/ EditStart(k, p)
  <2>1. PICK u \in Users, p \in Ids : ViewStart(k, u, p) \/ EditStart(k, p)
    BY <1>1
  <2>2. page[p] # NoPage /\ page[p] \in PageRow /\ UNCHANGED page
    BY <2>1 DEF ViewStart, EditStart, Exists, TypeOK, PageTypes, pageVars
  <2>3. PICK row : /\ Goto(k, [pc |-> "reload", page |-> p, row |-> row, likes |-> LikesOf(p)])
                   /\ row \in {Viewed(page[p]), Edited(page[p])}
    BY <2>1 DEF ViewStart, EditStart
  <2>4. row.course = page[p].course /\ row.owner = page[p].owner
    BY <2>2, <2>3 DEF PageRow, Viewed, Edited
  <2>5. request'[k].pc = "reload" /\ request'[k].page = p /\ request'[k].row = row
    BY <2>3, GotoKeeps
  <2>6. Fact(request'[k].page, request'[k].row) \in Facts \union {}
    BY <2>2, <2>4, <2>5, PageFacts DEF Fact
  <2>7. \A q \in Ids : page'[q] # NoPage => Fact(q, page'[q]) \in Facts \union {}
    BY <2>2, PageFacts
  <2>8. \A j \in Clients \ {k} : Kept(request[j], request'[j])
    BY <2>3, GotoKeeps
  <2>9. NamedBy(k)'
    BY <2>5 DEF NamedBy, At, Transactions
  <2>10. Facts' \subseteq Facts \union {}
    BY <2>6, <2>7, <2>8, FactsCome
  <2> QED
    BY <2>8, <2>9, <2>10, FactsKept DEF visitVars
<1>2. CASE SaveStep(k)
  <2> DEFINE r == request[k]
  <2>1. r \in ReloadRequests \union WriteRequests
    BY <1>2, RequestKinds DEF SaveStep, SaveReload, SaveInserts, SaveWrite, At, TypeOK
  <2>2. Fact(r.page, r.row) \in Facts /\ r.page \in Ids /\ r.row \in PageRow
    <3>1. r.page \in Ids /\ r.row \in PageRow /\ r.pc \in Copies
      BY <2>1 DEF ReloadRequests, WriteRequests, Copies
    <3> QED
      BY <3>1, RowTypes, PageFacts DEF HoldsRow
  <2>3. \/ request'[k].pc = "idle"
        \/ request'[k].pc = "write" /\ request'[k].page = r.page /\ request'[k].row = r.row
    BY <1>2, GotoKeeps DEF SaveStep, SaveReload, SaveInserts, SaveWrite, Done, Idle
  <2>4. \A j \in Clients \ {k} : Kept(request[j], request'[j])
    BY <1>2, GotoKeeps DEF SaveStep, SaveReload, SaveInserts, SaveWrite, Done
  <2>5. ASSUME NEW p \in Ids, page'[p] # NoPage
        PROVE  Fact(p, page'[p]) \in Facts \union {}
    <3>1. CASE page'[p] = page[p]
      BY <2>5, <3>1, PageFacts
    <3>2. CASE SaveInserts(k) /\ page'[p] # page[p]
      <4>1. p = r.page /\ page'[p] = [r.row EXCEPT !.regions = {}]
        BY <3>2 DEF SaveInserts, TypeOK, PageTypes
      <4> QED
        BY <2>2, <4>1 DEF Fact, PageRow
    <3>3. CASE SaveWrite(k) /\ page'[p] # page[p]
      <4>1. p = r.page /\ page[p] # NoPage /\ page'[p] = Written(page[p], r.row, r.columns)
        BY <3>3 DEF SaveWrite, Exists, TypeOK, PageTypes
      <4>2. page[p] \in PageRow /\ r.columns \in SUBSET SavedColumns
        BY <3>3, <4>1, RequestKinds DEF SaveWrite, At, WriteRequests, TypeOK, PageTypes
      <4>3. Fact(p, page'[p]) = Fact(p, page[p])
        BY <2>2, <4>1, <4>2, WrittenTypes DEF Fact
      <4> QED
        BY <4>1, <4>3, PageFacts
    <3> QED
      BY <1>2, <3>1, <3>2, <3>3 DEF SaveStep, SaveReload, pageVars
  <2>6. NamedBy(k)'
    BY <2>3 DEF NamedBy, At, Transactions
  <2>7. Facts' \subseteq Facts \union {}
    <3>1. HoldsRow(request'[k]) => Fact(request'[k].page, request'[k].row) \in Facts \union {}
      BY <2>2, <2>3 DEF HoldsRow, Copies, Transactions
    <3> QED
      BY <2>4, <2>5, <3>1, FactsCome
  <2> QED
    BY <2>4, <2>6, <2>7, FactsKept DEF visitVars
<1> QED
  BY <1>1, <1>2

\* A page with a row is of the kind the row says.
LEMMA RowNames ==
  ASSUME Agreed, NEW f \in Facts
  PROVE  /\ f.page \in 1..made
         /\ f.course = 0 => IsAlwaysCourseOf(f.page, f.owner) /\ IsAlwaysCourse(f.page)
         /\ f.course # 0 => IsAlwaysBlog(f.page)
  BY DEF Agreed, IsAlwaysCourseOf, IsAlwaysCourse, IsAlwaysBlog

\* The names of pages stay true as long as nothing new is said.
LEMMA NamesStay ==
  ASSUME Facts' \subseteq Facts, made' = made
  PROVE  \A p, u : /\ IsAlwaysCourse(p) => IsAlwaysCourse(p)'
                   /\ IsAlwaysCourseOf(p, u) => IsAlwaysCourseOf(p, u)'
                   /\ IsAlwaysBlog(p) => IsAlwaysBlog(p)'
  BY DEF IsAlwaysCourse, IsAlwaysCourseOf, IsAlwaysBlog

LEMMA TransactionStartFacts ==
  ASSUME TypeOK, Agreed, Named, NEW k \in Clients, UNCHANGED workload, NEW u \in Users, NEW c \in Ids,
         (\E done \in BOOLEAN : CompleteStart(k, u, c, done)) \/ DeleteCourseStart(k, u, c)
  PROVE  Agreed' /\ Named'
<1>1. page[c] # NoPage /\ page[c] \in PageRow /\ page[c].course = 0 /\ page[c].owner = u
      /\ UNCHANGED <<page, made>>
  BY DEF CompleteStart, DeleteCourseStart, IsCourse, Exists, TypeOK, PageTypes, pageVars, visitVars
<1>2. PICK pc, row : /\ Begin(k, Transaction(pc, u, c, row))
                     /\ row = NoPage \/ \E done \in BOOLEAN : row = [page[c] EXCEPT !.completed = done]
                     /\ pc \in Transactions
  BY DEF CompleteStart, DeleteCourseStart, Transactions
<1>3. /\ request'[k].pc = pc /\ request'[k].page = c /\ request'[k].user = u
      /\ request'[k].row = row /\ request'[k].missing = {}
  <2> DEFINE t == Transaction(pc, u, c, row)
             a == Others(k, t.user) = {}
  <2>1. request'[k] = [t EXCEPT !.alone = a]
    BY <1>2, BeginKeeps
  <2>2. t.pc = pc /\ t.page = c /\ t.user = u /\ t.row = row /\ t.missing = {}
    BY DEF Transaction
  <2>3. DOMAIN t = {"pc", "user", "page", "row", "columns", "wrote", "map", "missing", "cleared", "alone"}
    BY DEF Transaction
  <2> HIDE DEF t, a
  <2> QED
    BY <2>1, <2>2, <2>3
<1>4. Fact(c, page[c]) \in Facts
  BY <1>1, PageFacts
<1>5. HoldsRow(request'[k]) => Fact(request'[k].page, request'[k].row) = Fact(c, page[c])
  BY <1>1, <1>2, <1>3 DEF HoldsRow, Fact, PageRow
<1>6. \A j \in Clients \ {k} : Kept(request[j], request'[j])
  BY <1>2, BeginKeeps
<1>7. \A p \in Ids : page'[p] # NoPage => Fact(p, page'[p]) \in Facts \union {}
  BY <1>1, PageFacts
<1>8. Facts' \subseteq Facts \union {}
  BY <1>4, <1>5, <1>6, <1>7, FactsCome
<1>9. IsAlwaysCourseOf(c, u)
  BY <1>1, <1>4, RowNames DEF Fact
<1>10. NamedBy(k)'
  <2>1. IsAlwaysCourseOf(c, u)'
    BY <1>1, <1>8, <1>9, NamesStay
  <2>2. request'[k].pc # "blog" /\ request'[k].pc # "deleteBlog"
    BY <1>2, <1>3 DEF Transactions
  <2> QED
    BY <1>3, <2>1, <2>2 DEF NamedBy, At
<1> QED
  BY <1>1, <1>6, <1>8, <1>10, FactsKept

LEMMA TransactionStepFacts ==
  ASSUME TypeOK, Shapes, Agreed, Named, NEW k \in Clients, UNCHANGED workload,
         \/ CompletionReload(k) \/ CompletionWrite(k) \/ DropCourse(k)
         \/ Sync(k) \/ Tag(k) \/ Clear(k) \/ Cleared(k) \/ Fill(k)
  PROVE  Agreed' /\ Named'
<1> DEFINE r == request[k]
<1>1. r \in TransactionRequests /\ r.pc \in Transactions
  BY RequestKinds DEF CompletionReload, CompletionWrite, DropCourse, Sync, Tag, Clear, Cleared, Fill,
     At, TypeOK, Transactions
<1>2. UNCHANGED <<page, made>>
  BY DEF CompletionReload, CompletionWrite, DropCourse, Sync, Tag, Clear, Cleared, Fill,
     pageVars, visitVars
<1> DEFINE found == UNION {{c} \X (Seen(r)[c].regions \ Seen(r)[c].tagged) :
                             c \in Completed(Seen(r), r.user)}
           SameRow(s) == IF r.row = NoPage THEN s.row = NoPage
                         ELSE s.row.course = r.row.course /\ s.row.owner = r.row.owner
           Onward(s) == /\ s.pc \in Transactions /\ s.page = r.page /\ s.user = r.user
                        /\ SameRow(s) /\ s.missing \in {r.missing, found}
<1>3. \E s : Goto(k, s) /\ (s = Idle \/ Onward(s))
  <2>1. CASE CompletionReload(k)
    <3>1. r.row \in PageRow
      BY <1>1, <2>1 DEF CompletionReload, At, Shapes, Shape, Transactions, TransactionRequests
    <3> DEFINE gone == [r EXCEPT !.pc = "sync", !.wrote = TRUE,
                                 !.row.regions = {}, !.row.tagged = {}]
               there(pc, columns) == [r EXCEPT !.pc = pc, !.columns = columns]
    <3>2. Onward(gone)
      <4>1. /\ gone.pc = "sync" /\ gone.page = r.page /\ gone.user = r.user
            /\ gone.row.course = r.row.course /\ gone.row.owner = r.row.owner
            /\ gone.missing = r.missing
        BY <1>1, <3>1 DEF TransactionRequests, PageRow
      <4> HIDE DEF gone
      <4> QED
        BY <3>1, <4>1, RowTypes DEF Transactions
    <3>3. \A pc \in Transactions : \A columns : Onward(there(pc, columns))
      BY <1>1 DEF TransactionRequests
    <3>4. Goto(k, gone) \/ \E pc \in Transactions : \E columns : Goto(k, there(pc, columns))
      <4>1. {"sync", "completionWrite"} \subseteq Transactions
        BY DEF Transactions
      <4> QED
        BY <2>1, <4>1 DEF CompletionReload
    <3> HIDE DEF gone, there, Onward
    <3> QED
      BY <3>2, <3>3, <3>4
  <2>2. CASE CompletionWrite(k) \/ DropCourse(k) \/ Tag(k) \/ Fill(k) \/ Cleared(k)
    <3>1. \/ Goto(k, Idle)
          \/ \E pc \in Transactions : \/ Goto(k, [r EXCEPT !.pc = pc])
                                     \/ Goto(k, [r EXCEPT !.pc = pc, !.wrote = TRUE])
      BY <2>2 DEF CompletionWrite, DropCourse, Tag, Fill, Cleared, Advance, Done, Transactions
    <3>2. \A pc \in Transactions : /\ Onward([r EXCEPT !.pc = pc])
                                 /\ Onward([r EXCEPT !.pc = pc, !.wrote = TRUE])
      BY <1>1 DEF TransactionRequests
    <3> HIDE DEF Onward
    <3> QED
      BY <3>1, <3>2
  <2>3. CASE Clear(k)
    <3> DEFINE s == [r EXCEPT !.pc = "clearing", !.cleared = VisitedIn(visited[r.user])]
    <3>1. Goto(k, s)
      BY <2>3 DEF Clear
    <3>2. Onward(s)
      BY <1>1 DEF TransactionRequests, Transactions
    <3> QED
      BY <3>1, <3>2
  <2>4. CASE Sync(k)
    <3> DEFINE s(pc) == [r EXCEPT !.pc = pc, !.map = VisitedBy(r), !.missing = found]
    <3>1. \E pc \in {"clear", "tag"} : Goto(k, s(pc))
      BY <2>4 DEF Sync
    <3>2. \A pc \in {"clear", "tag"} : Onward(s(pc))
      <4> HIDE DEF found
      <4> QED
        BY <1>1 DEF TransactionRequests, Transactions
    <3> HIDE DEF s, Onward
    <3> QED
      BY <3>1, <3>2
  <2> QED
    BY <2>1, <2>2, <2>3, <2>4
<1>4. \A j \in Clients \ {k} : Kept(request[j], request'[j])
  BY <1>3, GotoKeeps
<1>5. Facts' \subseteq Facts \union {}
  <2>1. \A p \in Ids : page'[p] # NoPage => Fact(p, page'[p]) \in Facts \union {}
    BY <1>2, PageFacts
  <2>2. HoldsRow(request'[k]) => Fact(request'[k].page, request'[k].row) \in Facts \union {}
    <3> SUFFICES ASSUME HoldsRow(request'[k]) PROVE Fact(request'[k].page, request'[k].row) \in Facts
      OBVIOUS
    <3>1. request'[k] # Idle
      BY DEF HoldsRow, Idle, Copies, Transactions
    <3>2. PICK s : Goto(k, s) /\ (s = Idle \/ Onward(s))
      BY <1>3
    <3>3. request'[k] = s /\ Onward(s)
      BY <3>1, <3>2, GotoKeeps
    <3>4. HoldsRow(r)
      BY <1>1, <3>3 DEF HoldsRow
    <3> QED
      BY <3>3, <3>4, PageFacts DEF Fact, HoldsRow
  <2> QED
    BY <1>4, <2>1, <2>2, FactsCome
<1>6. NamedBy(k)'
  <2>1. PICK s : Goto(k, s) /\ (s = Idle \/ Onward(s))
    BY <1>3
  <2>2. request'[k] = s
    BY <2>1, GotoKeeps
  <2>3. CASE s = Idle
    BY <2>2, <2>3, SilentFacts DEF Idle
  <2>4. CASE s # Idle
    <3>1. IsAlwaysCourseOf(r.page, r.user) /\ \A m \in r.missing : IsAlwaysCourseOf(m[1], r.user)
      BY <1>1 DEF Named, NamedBy
    <3>2. ASSUME NEW c \in Completed(Seen(r), r.user)
          PROVE  IsAlwaysCourseOf(c, r.user)
      <4>1. c \in Ids /\ Seen(r)[c] # NoPage /\ Seen(r)[c].course = 0 /\ Seen(r)[c].owner = r.user
        BY DEF Completed
      <4>2. CASE c = r.page
        BY <3>1, <4>2
      <4>3. CASE c # r.page
        <5>1. Seen(r)[c] = page[c]
          BY <4>1, <4>3 DEF Seen, TypeOK, PageTypes
        <5> QED
          BY <4>1, <5>1, PageFacts, RowNames DEF Fact
      <4> QED
        BY <4>2, <4>3
    <3>3. \A m \in s.missing : IsAlwaysCourseOf(m[1], r.user)
      <4>1. CASE s.missing = r.missing
        BY <3>1, <4>1
      <4>2. CASE s.missing = found
        <5>1. \A m \in s.missing : m[1] \in Completed(Seen(r), r.user)
          BY <4>2
        <5> QED
          BY <3>2, <5>1
      <4> QED
        BY <2>1, <2>4, <4>1, <4>2
    <3>4. s.pc \in Transactions /\ s.page = r.page /\ s.user = r.user
      BY <2>1, <2>4
    <3>5. s.pc # "blog" /\ s.pc # "deleteBlog"
      BY <3>4 DEF Transactions
    <3>6. \A p, u : IsAlwaysCourseOf(p, u) => IsAlwaysCourseOf(p, u)'
      BY <1>2, <1>5, NamesStay
    <3> QED
      BY <2>2, <3>1, <3>3, <3>4, <3>5, <3>6 DEF NamedBy, At
  <2> QED
    BY <2>3, <2>4
<1> QED
  BY <1>2, <1>4, <1>5, <1>6, FactsKept

LEMMA CommitFacts ==
  ASSUME TypeOK, Shapes, Agreed, Named, NEW k \in Clients, UNCHANGED workload, Commit(k)
  PROVE  Agreed' /\ Named'
<1> DEFINE r == request[k]
<1>1. r \in TransactionRequests /\ r.pc = "commit"
  BY CommitPage DEF Commit, At
<1>2. r.row # NoPage => Fact(r.page, r.row) \in Facts /\ r.row \in PageRow
  BY <1>1, PageFacts DEF HoldsRow, Transactions, TransactionRequests
<1>3. ASSUME NEW p \in Ids, page'[p] # NoPage
      PROVE  Fact(p, page'[p]) \in Facts
  <2>1. Seen(r)[p] # NoPage /\ page'[p] = Tagged(r, Seen(r)[p], p)
    BY <1>3, CommitPage
  <2>2. Seen(r)[p] \in PageRow
    BY <1>1, <2>1, SeenTypes DEF Rows
  <2>3. Fact(p, page'[p]) = Fact(p, Seen(r)[p])
    BY <2>1, <2>2 DEF Tagged, Fact, PageRow
  <2>4. Fact(p, Seen(r)[p]) \in Facts
    <3>1. CASE Seen(r)[p] = page[p]
      BY <2>1, <3>1, PageFacts
    <3>2. CASE Seen(r)[p] # page[p]
      <4>1. p = r.page /\ Seen(r)[p] = Own(r)
        BY <3>2 DEF Seen, TypeOK, PageTypes
      <4>2. CASE r.row = NoPage \/ page[p] = NoPage
        BY <1>2, <2>1, <4>1, <4>2 DEF Own, Exists
      <4>3. CASE r.row # NoPage /\ page[p] # NoPage
        <5>1. Own(r) = Written(page[p], r.row, r.columns)
          BY <4>1, <4>3 DEF Own, Exists
        <5>2. page[p] \in PageRow /\ r.columns \in SUBSET SavedColumns
          BY <1>1, <4>3 DEF TransactionRequests, TypeOK, PageTypes
        <5> QED
          BY <1>2, <4>1, <4>3, <5>1, <5>2, WrittenTypes, PageFacts DEF Fact
      <4> QED
        BY <4>2, <4>3
    <3> QED
      BY <3>1, <3>2
  <2> QED
    BY <2>3, <2>4
<1>4. ~ HoldsRow(request'[k]) /\ NamedBy(k)'
  BY CommitRequests, SilentFacts DEF Idle
<1>5. \A j \in Clients \ {k} : Kept(request[j], request'[j])
  BY CommitKeeps
<1>6. Facts' \subseteq Facts \union {}
  BY <1>3, <1>4, <1>5, FactsCome
<1>7. made' = made
  BY DEF Commit
<1> QED
  BY <1>4, <1>5, <1>6, <1>7, FactsKept

\* What a new id says agrees with everything: nobody knew it before.
LEMMA InsertFacts ==
  ASSUME TypeOK, Agreed, Named, NEW k \in Clients, NEW row \in PageRow, Insert(row), Done(k),
         row.course # 0 => IsAlwaysCourse(row.course)
  PROVE  Agreed' /\ Named'
<1> DEFINE new == Fact(made', row)
<1>1. /\ made \in Nat /\ made' = made + 1 /\ made' \in Ids
      /\ page' = [page EXCEPT ![made'] = row]
  BY InsertTypes, BoundsAssumption DEF TypeOK, Ids
<1>2. /\ request'[k] = Idle
      /\ \A j \in Clients \ {k} : request'[j] = request[j] /\ Kept(request[j], request'[j])
  BY GotoKeeps DEF Done
<1>3. ~ HoldsRow(request'[k]) /\ NamedBy(k)'
  BY <1>2, SilentFacts DEF Idle
<1>4. Facts' \subseteq Facts \union {new}
  <2>1. \A p \in Ids : page'[p] # NoPage => Fact(p, page'[p]) \in Facts \union {new}
    BY <1>1, PageFacts DEF TypeOK, PageTypes
  <2> QED
    BY <1>2, <1>3, <2>1, FactsCome
<1>5. new.page = made + 1 /\ new.course = row.course
  BY <1>1 DEF Fact
<1>6. \A f \in Facts : f.page \in 1..made /\ f.page # made + 1
  BY <1>1 DEF Agreed
<1>7. \A p, u : /\ IsAlwaysCourse(p) => IsAlwaysCourse(p)'
                /\ IsAlwaysCourseOf(p, u) => IsAlwaysCourseOf(p, u)'
                /\ IsAlwaysBlog(p) => IsAlwaysBlog(p)'
  <2> HIDE DEF new
  <2> QED
    BY <1>1, <1>4, <1>5 DEF IsAlwaysCourse, IsAlwaysCourseOf, IsAlwaysBlog
<1>8. Agreed'
  <2> HIDE DEF new
  <2>1. \A f, g \in Facts' : f.page = g.page => f = g
    BY <1>4, <1>5, <1>6 DEF Agreed
  <2>2. ASSUME NEW f \in Facts'
        PROVE  f.page \in 1..made' /\ (f.course # 0 => IsAlwaysCourse(f.course)')
    <3>1. CASE f \in Facts
      BY <1>1, <1>7, <3>1 DEF Agreed
    <3>2. CASE f = new
      BY <1>1, <1>5, <1>7, <3>2
    <3> QED
      BY <1>4, <3>1, <3>2
  <2> QED
    BY <2>1, <2>2 DEF Agreed
<1>9. ASSUME NEW j \in Clients PROVE NamedBy(j)'
  <2>1. CASE j = k
    BY <1>3, <2>1
  <2>2. CASE j # k
    BY <1>2, <1>7, <2>2 DEF Named, NamedBy, At
  <2> QED
    BY <2>1, <2>2
<1> QED
  BY <1>8, <1>9 DEF Named

LEMMA NewPageFacts ==
  ASSUME TypeOK, Shapes, Agreed, Named, NEW k \in Clients, UNCHANGED workload,
         \/ \E u \in Users, c \in Ids :
              CopyStart(k, u, c) \/ BlogStart(k, u, c) \/ DeleteBlogStart(k, u, c)
         \/ Copy(k) \/ Blog(k) \/ DeleteBlog(k)
  PROVE  Agreed' /\ Named'
<1>1. ASSUME NEW u \in Users, NEW c \in Ids,
             CopyStart(k, u, c) \/ BlogStart(k, u, c) \/ DeleteBlogStart(k, u, c)
      PROVE  Agreed' /\ Named'
  <2>1. page[c] # NoPage /\ UNCHANGED <<page, made>>
    BY <1>1 DEF CopyStart, BlogStart, DeleteBlogStart, IsCourse, Exists, pageVars, visitVars
  <2>2. IF page[c].course = 0 THEN IsAlwaysCourse(c) ELSE IsAlwaysBlog(c)
    BY <2>1, PageFacts, RowNames DEF Fact
  <2>3. \A j \in Clients \ {k} : Kept(request[j], request'[j])
    BY <1>1, GotoKeeps DEF CopyStart, BlogStart, DeleteBlogStart
  <2>4. \/ request'[k].pc = "copy"
        \/ request'[k].pc = "blog" /\ request'[k].row.course = c /\ page[c].course = 0
        \/ request'[k].pc = "deleteBlog" /\ request'[k].page = c /\ page[c].course # 0
    <3>1. CASE CopyStart(k, u, c)
      BY <3>1, GotoKeeps DEF CopyStart
    <3>2. CASE BlogStart(k, u, c)
      <4>1. page[c] \in PageRow /\ page[c].course = 0
        BY <2>1, <3>2 DEF BlogStart, IsCourse, TypeOK, PageTypes
      <4> DEFINE row == [page[c] EXCEPT !.course = c, !.completed = FALSE, !.likes = 0, !.views = 0,
                                        !.public = TRUE, !.regions = {}, !.tagged = {}]
      <4>2. request'[k] = [pc |-> "blog", row |-> row]
        BY <3>2, GotoKeeps DEF BlogStart
      <4>3. row.course = c
        BY <4>1 DEF PageRow
      <4> HIDE DEF row
      <4> QED
        BY <4>1, <4>2, <4>3
    <3>3. CASE DeleteBlogStart(k, u, c)
      BY <3>3, GotoKeeps DEF DeleteBlogStart
    <3> QED
      BY <1>1, <3>1, <3>2, <3>3
  <2>5. Facts' \subseteq Facts \union {}
    <3>1. ~ HoldsRow(request'[k])
      BY <2>4 DEF HoldsRow, Copies, Transactions
    <3>2. \A p \in Ids : page'[p] # NoPage => Fact(p, page'[p]) \in Facts \union {}
      BY <2>1, PageFacts
    <3> QED
      BY <2>3, <3>1, <3>2, FactsCome
  <2>6. NamedBy(k)'
    <3>1. IF page[c].course = 0 THEN IsAlwaysCourse(c)' ELSE IsAlwaysBlog(c)'
      BY <2>1, <2>2, <2>5, NamesStay
    <3> QED
      BY <2>4, <3>1 DEF NamedBy, At, Transactions
  <2> QED
    BY <2>1, <2>3, <2>5, <2>6, FactsKept
<1>2. ASSUME Copy(k) \/ Blog(k), Insert(request[k].row)
      PROVE  Agreed' /\ Named'
  <2>1. request[k].row \in PageRow
    BY <1>2, RequestKinds DEF Copy, Blog, At, TypeOK, InsertRequests
  <2>2. request[k].row.course # 0 => IsAlwaysCourse(request[k].row.course)
    BY <1>2 DEF Copy, Blog, At, Shapes, Shape, Named, NamedBy
  <2>3. Done(k)
    BY <1>2 DEF Copy, Blog
  <2> QED
    BY <1>2, <2>1, <2>2, <2>3, InsertFacts
<1>3. ASSUME Blog(k) \/ DeleteBlog(k), made' = made,
             \A p \in Ids : page'[p] # NoPage => page'[p] = page[p]
      PROVE  Agreed' /\ Named'
  <2>1. /\ request'[k] = Idle
        /\ \A j \in Clients \ {k} : Kept(request[j], request'[j])
    BY <1>3, GotoKeeps DEF Blog, DeleteBlog, Done
  <2>2. ~ HoldsRow(request'[k]) /\ NamedBy(k)'
    BY <2>1, SilentFacts DEF Idle
  <2>3. Facts' \subseteq Facts \union {}
    <3>1. \A p \in Ids : page'[p] # NoPage => Fact(p, page'[p]) \in Facts \union {}
      BY <1>3, PageFacts
    <3> QED
      BY <2>1, <2>2, <3>1, FactsCome
  <2> QED
    BY <1>3, <2>1, <2>2, <2>3, FactsKept
<1>4. DeleteBlog(k) => made' = made /\ \A p \in Ids : page'[p] # NoPage => page'[p] = page[p]
  BY DEF DeleteBlog, TypeOK, PageTypes, visitVars
<1>5. Blog(k) => \/ Insert(request[k].row)
                 \/ made' = made /\ \A p \in Ids : page'[p] # NoPage => page'[p] = page[p]
  BY DEF Blog
<1>6. Copy(k) => Insert(request[k].row)
  BY DEF Copy
<1> QED
  BY <1>1, <1>2, <1>3, <1>4, <1>5, <1>6

LEMMA InitFacts ==
  ASSUME Init
  PROVE  Agreed /\ Named
<1>1. PICK w \in Workloads : workload = w
  BY DEF Init
<1>2. /\ page = w.page /\ made = w.made /\ made \in Ids
      /\ page \in [Ids -> PageRow \union {NoPage}]
      /\ \A k \in Clients : request[k] = Idle
  BY <1>1, WorkloadAssumption DEF Init
<1>3. ASSUME NEW p \in Ids, page[p] # NoPage
      PROVE  /\ p <= made
             /\ page[p].course \in 0..MaxPages
             /\ page[p].course # 0 => page[page[p].course] # NoPage /\ page[page[p].course].course = 0
  <2>1. page[p] \in PageRow
    BY <1>2, <1>3
  <2> QED
    BY <1>1, <1>2, <1>3, <2>1, WorkloadAssumption DEF PageRow
<1>4. \A f \in Facts : f.page \in Ids /\ page[f.page] # NoPage /\ f = Fact(f.page, page[f.page])
  <2>1. \A k \in Clients : ~ HoldsRow(request[k])
    BY <1>2 DEF HoldsRow, Idle, Copies, Transactions
  <2>2. ASSUME NEW f \in Facts
        PROVE  \E p \in Ids : page[p] # NoPage /\ f = Fact(p, page[p])
    BY <2>1 DEF Facts, Exists
  <2> QED
    BY <2>2 DEF Fact
<1>5. Agreed
  <2>1. ASSUME NEW f \in Facts
        PROVE  f.page \in 1..made /\ (f.course # 0 => IsAlwaysCourse(f.course))
    <3>1. f.page \in Ids /\ page[f.page] # NoPage /\ f.course = page[f.page].course
      BY <1>4 DEF Fact
    <3>2. f.page \in 1..made
      BY <1>2, <1>3, <3>1, BoundsAssumption DEF Ids
    <3>3. ASSUME f.course # 0 PROVE IsAlwaysCourse(f.course)
      <4>1. f.course \in Ids /\ page[f.course] # NoPage /\ page[f.course].course = 0
        BY <1>3, <3>1, <3>3, BoundsAssumption DEF Ids
      <4>2. f.course \in 1..made
        BY <1>2, <1>3, <4>1, BoundsAssumption DEF Ids
      <4> QED
        BY <1>4, <4>1, <4>2 DEF IsAlwaysCourse, Fact
    <3> QED
      BY <3>2, <3>3
  <2> QED
    BY <1>4, <2>1 DEF Agreed
<1> QED
  BY <1>2, <1>5 DEF Named, NamedBy, At, Idle, Transactions

\* The steps of the system, grouped as the lemmas take them.
Liking(k) ==
  /\ UNCHANGED <<workload, visitVars>>
  /\ \/ \E u \in Users, p \in Ids, op \in {"like", "unlike"} : LikeStart(k, op, u, p)
     \/ LikeStep(k)

Saving(k) ==
  /\ UNCHANGED <<workload, visitVars>>
  /\ \/ \E u \in Users, p \in Ids : ViewStart(k, u, p) \/ EditStart(k, p)
     \/ SaveStep(k)

Beginning(k, u, c) ==
  /\ UNCHANGED workload
  /\ (\E done \in BOOLEAN : CompleteStart(k, u, c, done)) \/ DeleteCourseStart(k, u, c)

Working(k) ==
  /\ UNCHANGED workload
  /\ \/ CompletionReload(k) \/ CompletionWrite(k) \/ DropCourse(k)
     \/ Sync(k) \/ Tag(k) \/ Clear(k) \/ Cleared(k) \/ Fill(k)

Committing(k) == UNCHANGED workload /\ Commit(k)

Publishing(k) ==
  /\ UNCHANGED workload
  /\ \/ \E u \in Users, c \in Ids :
          CopyStart(k, u, c) \/ BlogStart(k, u, c) \/ DeleteBlogStart(k, u, c)
     \/ Copy(k) \/ Blog(k) \/ DeleteBlog(k)

LEMMA NextCases ==
  ASSUME Next
  PROVE  \E k \in Clients :
           \/ Liking(k) \/ Saving(k) \/ (\E u \in Users, c \in Ids : Beginning(k, u, c))
           \/ Working(k) \/ Committing(k) \/ Publishing(k)
<1>1. PICK k \in Clients :
        \/ \E u \in Users : UserStarts(k, u)
        \/ (LikeStep(k) \/ SaveStep(k)) /\ UNCHANGED visitVars
        \/ TransactionStep(k)
        \/ Copy(k) \/ Blog(k) \/ DeleteBlog(k)
  BY DEF Next
<1>2. UNCHANGED workload
  BY DEF Next
<1>3. CASE \E u \in Users : UserStarts(k, u)
  <2>1. PICK u \in Users, p \in Ids :
          \/ \E done \in BOOLEAN : CompleteStart(k, u, p, done)
          \/ DeleteCourseStart(k, u, p) \/ CopyStart(k, u, p)
          \/ BlogStart(k, u, p) \/ DeleteBlogStart(k, u, p)
          \/ \E op \in {"like", "unlike"} : LikeStart(k, op, u, p) /\ UNCHANGED visitVars
          \/ (ViewStart(k, u, p) \/ EditStart(k, p)) /\ UNCHANGED visitVars
    BY <1>3 DEF UserStarts
  <2> QED
    BY <1>2, <2>1 DEF Liking, Saving, Beginning, Publishing
<1>4. CASE (LikeStep(k) \/ SaveStep(k)) /\ UNCHANGED visitVars
  BY <1>2, <1>4 DEF Liking, Saving
<1>5. CASE TransactionStep(k)
  BY <1>2, <1>5 DEF TransactionStep, Working, Committing
<1>6. CASE Copy(k) \/ Blog(k) \/ DeleteBlog(k)
  BY <1>2, <1>6 DEF Publishing
<1> QED
  BY <1>1, <1>3, <1>4, <1>5, <1>6

LEMMA NextFacts ==
  ASSUME TypeOK, Shapes, Agreed, Named, [Next]_vars
  PROVE  Agreed' /\ Named'
<1>1. CASE UNCHANGED vars
  BY <1>1 DEF vars, pageVars, Agreed, Named, NamedBy, At, Facts, Exists, Fact, HoldsRow,
              IsAlwaysCourse, IsAlwaysCourseOf, IsAlwaysBlog
<1>2. CASE Next
  <2>1. PICK k \in Clients :
           \/ Liking(k) \/ Saving(k) \/ (\E u \in Users, c \in Ids : Beginning(k, u, c))
           \/ Working(k) \/ Committing(k) \/ Publishing(k)
    BY <1>2, NextCases
  <2>2. CASE Liking(k) \/ Saving(k)
    BY <2>2, LikeFacts, SaveFacts DEF Liking, Saving
  <2>3. CASE \E u \in Users, c \in Ids : Beginning(k, u, c)
    BY <2>3, TransactionStartFacts DEF Beginning
  <2>4. CASE Working(k)
    BY <2>4, TransactionStepFacts DEF Working
  <2>5. CASE Committing(k)
    BY <2>5, CommitFacts DEF Committing
  <2>6. CASE Publishing(k)
    BY <2>6, NewPageFacts DEF Publishing
  <2> QED
    BY <2>1, <2>2, <2>3, <2>4, <2>5, <2>6
<1> QED
  BY <1>1, <1>2

LEMMA FactsCorrect == Spec => [](TypeOK /\ Shapes /\ Agreed /\ Named)
<1>1. Init => TypeOK /\ Shapes /\ Agreed /\ Named
  BY InitTypes, InitFacts
<1>2. TypeOK /\ Shapes /\ Agreed /\ Named /\ [Next]_vars => (TypeOK /\ Shapes /\ Agreed /\ Named)'
  BY NextTypes, NextFacts
<1> QED
  BY <1>1, <1>2, PTL DEF Spec

-----------------------------------------------------------------------------
(* Locks                                                                   *)

\* The rows a request has locked.
Held(k) ==
  IF request[k].pc \in {"like", "unlike"} THEN {request[k].page}
  ELSE IF request[k].pc \in Transactions THEN LockedBy(request[k])
  ELSE {}

\* A locked row has one holder.
Locking ==
  /\ \A k \in Clients : Held(k) \subseteq locked
  /\ \A j, k \in Clients : j # k => Held(j) \intersect Held(k) = {}

\* No blog is made of a course that is locked.
LEMMA LockingKept ==
  ASSUME TypeOK, Locking, NEW k \in Clients,
         \A j \in Clients \ {k} : Kept(request[j], request'[j]),
         \A b \in Ids : page'[b] # NoPage /\ page'[b].course \in locked =>
           page[b] # NoPage /\ page[b].course = page'[b].course,
         Held(k)' \subseteq locked', locked \ Held(k) \subseteq locked',
         Held(k)' \subseteq Held(k) \union (locked' \ locked)
  PROVE  Locking'
<1>1. ASSUME NEW j \in Clients \ {k}
      PROVE  Held(j)' \subseteq Held(j)
  <2>1. /\ request'[j].pc = request[j].pc
        /\ request[j].pc \in {"like", "unlike"} => request'[j] = request[j]
        /\ request[j].pc \in Transactions =>
              /\ request'[j].wrote = request[j].wrote /\ request'[j].page = request[j].page
              /\ request'[j].row = request[j].row
    BY DEF Kept, TransactionRequests, Transactions
  <2>2. request[j].pc \in {"like", "unlike"} => request[j].pc \notin Transactions
    BY DEF Transactions
  <2>3. CASE request[j].pc \in Transactions /\ request[j].wrote
    <3>1. request[j].page \in locked
      BY <2>2, <2>3 DEF Locking, Held, LockedBy
    <3>2. /\ Held(j)' = {request[j].page} \union
                (IF request[j].row = NoPage
                   THEN {b \in Ids : page'[b] # NoPage /\ page'[b].course = request[j].page} ELSE {})
          /\ Held(j) = {request[j].page} \union
                (IF request[j].row = NoPage
                   THEN {b \in Ids : page[b] # NoPage /\ page[b].course = request[j].page} ELSE {})
      BY <2>1, <2>2, <2>3 DEF Held, LockedBy, BlogsOf, Exists
    <3> QED
      BY <3>1, <3>2
  <2>4. CASE ~ (request[j].pc \in Transactions /\ request[j].wrote)
    BY <2>1, <2>2, <2>4 DEF Held, LockedBy
  <2> QED
    BY <2>3, <2>4
<1>2. ASSUME NEW j \in Clients \ {k}
      PROVE  Held(j)' \subseteq locked' /\ Held(j)' \intersect Held(k)' = {}
  <2>1. Held(j) \subseteq locked /\ Held(j) \intersect Held(k) = {}
    BY DEF Locking
  <2> QED
    BY <1>1, <2>1
<1>3. ASSUME NEW i \in Clients, NEW j \in Clients, i # j
      PROVE  Held(i)' \intersect Held(j)' = {}
  <2>1. CASE i # k /\ j # k
    <3>1. Held(i) \intersect Held(j) = {}
      BY <1>3 DEF Locking
    <3> QED
      BY <1>1, <2>1, <3>1
  <2>2. CASE i = k \/ j = k
    BY <1>2, <1>3, <2>2
  <2> QED
    BY <2>1, <2>2
<1> QED
  BY <1>2, <1>3 DEF Locking

LEMMA LikeLocking ==
  ASSUME TypeOK, Locking, NEW k \in Clients, Liking(k)
  PROVE  Locking'
<1>1. CASE \E u \in Users, p \in Ids, op \in {"like", "unlike"} : LikeStart(k, op, u, p)
  <2>1. request'[k].pc = "lock" /\ UNCHANGED <<page, locked>>
        /\ \A j \in Clients \ {k} : Kept(request[j], request'[j])
    BY <1>1, GotoKeeps DEF LikeStart, pageVars
  <2>2. Held(k)' = {} /\ Held(k) = {}
    BY <1>1, <2>1 DEF Held, Transactions, LikeStart, Start, At
  <2> QED
    BY <2>1, <2>2, LockingKept
<1>2. CASE LikeLock(k)
  <2>1. UNCHANGED page /\ \A j \in Clients \ {k} : Kept(request[j], request'[j])
    BY <1>2, GotoKeeps DEF LikeLock, Done
  <2>2. \/ request'[k].pc = "idle" /\ UNCHANGED locked
        \/ /\ request'[k].pc \in {"like", "unlike"} /\ request'[k].page = request[k].page
           /\ request[k].page \notin locked /\ locked' = locked \union {request[k].page}
    <3>1. request[k].op \in {"like", "unlike"}
      BY <1>2, RequestKinds DEF LikeLock, At, TypeOK, LockRequests
    <3> QED
      BY <1>2, <3>1, GotoKeeps DEF LikeLock, Done, Idle, LockRow
  <2>3. Held(k) = {}
    BY <1>2 DEF Held, Transactions, LikeLock, At
  <2>4. Held(k)' \subseteq locked' \ locked /\ locked \subseteq locked'
    BY <2>2 DEF Held, Transactions
  <2> QED
    BY <2>1, <2>3, <2>4, LockingKept
<1>3. CASE LikeCommit(k) \/ UnlikeCommit(k)
  <2>1. /\ request'[k].pc = "idle" /\ locked' = locked \ {request[k].page}
        /\ \A j \in Clients \ {k} : Kept(request[j], request'[j])
    BY <1>3, GotoKeeps DEF LikeCommit, UnlikeCommit, Done, Idle, Unlock
  <2>2. Held(k) = {request[k].page} /\ Held(k)' = {}
    BY <1>3, <2>1 DEF Held, Transactions, LikeCommit, UnlikeCommit, At
  <2>3. ASSUME NEW b \in Ids, page'[b] # NoPage
        PROVE  page[b] # NoPage /\ page[b].course = page'[b].course
    <3>1. PICK n : page' = [page EXCEPT ![request[k].page].likes = n]
      BY <1>3 DEF LikeCommit, UnlikeCommit
    <3> QED
      BY <2>3, <3>1 DEF TypeOK, PageTypes, PageRow, NoPage
  <2> QED
    BY <2>1, <2>2, <2>3, LockingKept
<1> QED
  BY <1>1, <1>2, <1>3 DEF Liking, LikeStep

LEMMA SaveLocking ==
  ASSUME TypeOK, Locking, NEW k \in Clients, Saving(k)
  PROVE  Locking'
<1>1. /\ request'[k].pc \in {"idle", "reload", "write"} /\ request[k].pc \in {"idle", "reload", "write"}
      /\ UNCHANGED locked /\ \A j \in Clients \ {k} : Kept(request[j], request'[j])
  <2>1. CASE \E u \in Users, p \in Ids : ViewStart(k, u, p) \/ EditStart(k, p)
    BY <2>1, GotoKeeps DEF ViewStart, EditStart, At, Start, pageVars
  <2>2. CASE SaveReload(k)
    BY <2>2, GotoKeeps DEF SaveReload, Done, Idle, At, pageVars
  <2>3. CASE SaveInserts(k) \/ SaveWrite(k)
    BY <2>3, GotoKeeps DEF SaveInserts, SaveWrite, Done, Idle, At
  <2> QED
    BY <2>1, <2>2, <2>3 DEF Saving, SaveStep
<1>2. Held(k) = {} /\ Held(k)' = {}
  BY <1>1 DEF Held, Transactions
<1>3. ASSUME NEW b \in Ids, page'[b] # NoPage, page'[b].course \in locked
      PROVE  page[b] # NoPage /\ page[b].course = page'[b].course
  <2>1. CASE page'[b] = page[b]
    BY <1>3, <2>1
  <2>2. CASE SaveInserts(k) /\ page'[b] # page[b]
    <3>1. page'[b] = [request[k].row EXCEPT !.regions = {}] /\ request[k].row.course \notin locked
      BY <2>2 DEF SaveInserts, TypeOK, PageTypes
    <3>2. request[k].row \in PageRow
      BY <2>2, RequestKinds DEF SaveInserts, At, TypeOK, ReloadRequests
    <3> QED
      BY <1>3, <3>1, <3>2 DEF PageRow
  <2>3. CASE SaveWrite(k) /\ page'[b] # page[b]
    <3>1. page[b] # NoPage /\ page'[b] = Written(page[b], request[k].row, request[k].columns)
      BY <2>3 DEF SaveWrite, Exists, TypeOK, PageTypes
    <3>2. request[k] \in WriteRequests
      BY <2>3, RequestKinds DEF SaveWrite, At, TypeOK
    <3> QED
      BY <3>1, <3>2, WrittenTypes DEF WriteRequests, TypeOK, PageTypes
  <2> QED
    BY <2>1, <2>2, <2>3
       DEF Saving, SaveStep, ViewStart, EditStart, SaveReload, pageVars
<1> QED
  BY <1>1, <1>2, <1>3, LockingKept

LEMMA BeginLocking ==
  ASSUME TypeOK, Locking, NEW k \in Clients, NEW u \in Users, NEW c \in Ids, Beginning(k, u, c)
  PROVE  Locking'
<1>1. PICK pc, row : Begin(k, Transaction(pc, u, c, row)) /\ pc \in Transactions
  BY DEF Beginning, CompleteStart, DeleteCourseStart, Transactions
<1>2. UNCHANGED <<page, locked>> /\ At(k, "idle")
  BY DEF Beginning, CompleteStart, DeleteCourseStart, Start, pageVars
<1>3. request'[k].pc = pc /\ ~ request'[k].wrote
  <2> DEFINE t == Transaction(pc, u, c, row)
             a == Others(k, t.user) = {}
  <2>1. request'[k] = [t EXCEPT !.alone = a]
    BY <1>1, BeginKeeps
  <2>2. /\ t.pc = pc /\ t.wrote = FALSE
        /\ DOMAIN t = {"pc", "user", "page", "row", "columns", "wrote", "map", "missing", "cleared", "alone"}
    BY DEF Transaction
  <2> HIDE DEF t, a
  <2> QED
    BY <2>1, <2>2
<1>4. Held(k) = {} /\ Held(k)' = {}
  BY <1>1, <1>2, <1>3 DEF Held, LockedBy, Transactions, At
<1>5. \A j \in Clients \ {k} : Kept(request[j], request'[j])
  BY <1>1, BeginKeeps
<1> QED
  BY <1>2, <1>4, <1>5, LockingKept

\* A transaction that goes on holds what it held, or has just locked more.
LEMMA WorkLocking ==
  ASSUME TypeOK, Shapes, Locking, NEW k \in Clients, Working(k)
  PROVE  Locking'
<1> DEFINE r == request[k]
<1>1. r \in TransactionRequests /\ r.pc \in Transactions /\ Held(k) = LockedBy(r) /\ Shape(r)
  <2>1. r.pc \in Transactions
    BY DEF Working, CompletionReload, CompletionWrite, DropCourse, Sync, Tag, Clear, Cleared, Fill,
           At, Transactions
  <2> QED
    BY <2>1, RequestKinds DEF TypeOK, Held, Transactions, Shapes
<1>2. UNCHANGED page
  BY DEF Working, CompletionReload, CompletionWrite, DropCourse, Sync, Tag, Clear, Cleared, Fill, pageVars
<1>3. ASSUME NEW s, Goto(k, s), s.pc \in Transactions, s.page = r.page, s.wrote = r.wrote,
             s.row = r.row, UNCHANGED locked
      PROVE  Locking'
  <2>1. request'[k] = s /\ \A j \in Clients \ {k} : Kept(request[j], request'[j])
    BY <1>3, GotoKeeps
  <2>2. Held(k)' = Held(k)
    BY <1>1, <1>2, <1>3, <2>1 DEF Held, LockedBy, BlogsOf, Exists, Transactions
  <2>3. Held(k) \subseteq locked
    BY DEF Locking
  <2> QED
    BY <1>2, <1>3, <2>1, <2>2, <2>3, LockingKept
<1>4. ASSUME Aborted(k), Done(k)
      PROVE  Locking'
  <2>1. request'[k] = Idle /\ \A j \in Clients \ {k} : Kept(request[j], request'[j])
    BY <1>4, GotoKeeps DEF Done
  <2>2. Held(k)' = {}
    BY <2>1 DEF Held, Idle, Transactions
  <2>3. locked' = locked \ Held(k)
    BY <1>1, <1>4 DEF Aborted
  <2> QED
    BY <1>2, <2>1, <2>2, <2>3, LockingKept
<1>5. ASSUME NEW s, Goto(k, s), s.pc \in Transactions, s.page = r.page, s.wrote, ~ r.wrote,
             (s.row = NoPage) = (r.row = NoPage),
             LockedBy([r EXCEPT !.wrote = TRUE]) \intersect locked = {},
             locked' = locked \union LockedBy([r EXCEPT !.wrote = TRUE])
      PROVE  Locking'
  <2>1. request'[k] = s /\ \A j \in Clients \ {k} : Kept(request[j], request'[j])
    BY <1>5, GotoKeeps
  <2>2. Held(k) = {}
    BY <1>1, <1>5 DEF LockedBy
  <2>3. Held(k)' = LockedBy([r EXCEPT !.wrote = TRUE])
    <3>1. /\ [r EXCEPT !.wrote = TRUE].wrote /\ [r EXCEPT !.wrote = TRUE].page = r.page
          /\ [r EXCEPT !.wrote = TRUE].row = r.row
      BY <1>1 DEF TransactionRequests
    <3> QED
      BY <1>1, <1>2, <1>5, <2>1, <3>1 DEF Held, LockedBy, BlogsOf, Exists, Transactions
  <2> QED
    BY <1>2, <1>5, <2>1, <2>2, <2>3, LockingKept
<1>6. CASE CompletionReload(k)
  <2>1. r.row \in PageRow /\ ~ r.wrote
    BY <1>1, <1>6 DEF CompletionReload, At, Shape, Transactions, TransactionRequests
  <2>2. LockedBy([r EXCEPT !.wrote = TRUE]) = {r.page}
    BY <1>1, <2>1, RowTypes DEF LockedBy, TransactionRequests
  <2>3. CASE Exists(r.page)
    <3>1. PICK pc \in Transactions : \E columns : Goto(k, [r EXCEPT !.pc = pc, !.columns = columns])
      <4>1. {"sync", "completionWrite"} \subseteq Transactions
        BY DEF Transactions
      <4> QED
        BY <1>6, <2>3, <4>1 DEF CompletionReload
    <3>2. PICK columns : Goto(k, [r EXCEPT !.pc = pc, !.columns = columns])
      BY <3>1
    <3> DEFINE s == [r EXCEPT !.pc = pc, !.columns = columns]
    <3>3. s.pc \in Transactions /\ s.page = r.page /\ s.wrote = r.wrote /\ s.row = r.row
      BY <1>1 DEF TransactionRequests
    <3>4. UNCHANGED locked
      BY <1>6, <2>3 DEF CompletionReload
    <3> HIDE DEF s
    <3> QED
      BY <1>3, <3>2, <3>3, <3>4 DEF s
  <2>4. CASE ~ Exists(r.page)
    <3> DEFINE gone == [r EXCEPT !.pc = "sync", !.wrote = TRUE,
                                 !.row.regions = {}, !.row.tagged = {}]
               row == [r.row EXCEPT !.regions = {}, !.tagged = {}]
    <3>1. row \in PageRow
      BY <2>1, RowTypes
    <3>2. gone = [r EXCEPT !.pc = "sync", !.wrote = TRUE, !.row = row]
      BY <1>1, <2>1 DEF TransactionRequests, PageRow
    <3>3. gone.pc = "sync" /\ gone.page = r.page /\ gone.wrote = TRUE /\ gone.row = row
      <4> HIDE DEF row, gone
      <4> QED
        BY <1>1, <3>2 DEF TransactionRequests
    <3>4. row # NoPage /\ r.row # NoPage
      BY <2>1, <3>1, RowTypes
    <3>5. Goto(k, gone) /\ LockRow(r.page)
      BY <1>6, <2>4 DEF CompletionReload
    <3>6. gone.pc \in Transactions
      BY <3>3 DEF Transactions
    <3> HIDE DEF row, gone
    <3> QED
      BY <1>5, <2>1, <2>2, <3>3, <3>4, <3>5, <3>6 DEF LockRow
  <2> QED
    BY <2>3, <2>4
<1>7. CASE CompletionWrite(k) \/ DropCourse(k)
  <2> DEFINE s == [r EXCEPT !.pc = "sync", !.wrote = TRUE]
             t == [r EXCEPT !.pc = "sync"]
  <2>1. /\ s.pc \in Transactions /\ s.page = r.page /\ s.wrote = TRUE /\ s.row = r.row
        /\ t.pc \in Transactions /\ t.page = r.page /\ t.wrote = r.wrote /\ t.row = r.row
    BY <1>1 DEF TransactionRequests, Transactions
  <2>2. ~ r.wrote
    BY <1>1, <1>7 DEF CompletionWrite, DropCourse, At, Shape
  <2>3. LockedBy([r EXCEPT !.wrote = TRUE]) =
          {r.page} \union (IF r.row = NoPage THEN BlogsOf(r.page) ELSE {})
    BY <1>1 DEF LockedBy, TransactionRequests
  <2>4. \/ Goto(k, t) /\ UNCHANGED locked
        \/ /\ Goto(k, s)
           /\ LockedBy([r EXCEPT !.wrote = TRUE]) \intersect locked = {}
           /\ locked' = locked \union LockedBy([r EXCEPT !.wrote = TRUE])
    <3>1. CASE CompletionWrite(k)
      <4>1. r.row # NoPage
        BY <1>1, <3>1 DEF CompletionWrite, At, Shape
      <4> QED
        BY <2>3, <3>1, <4>1 DEF CompletionWrite, Advance, LockRow
    <3>2. CASE DropCourse(k)
      <4>1. r.row = NoPage
        BY <1>1, <3>2 DEF DropCourse, At, Shape
      <4> QED
        BY <2>3, <3>2, <4>1 DEF DropCourse, Advance
    <3> QED
      BY <1>7, <3>1, <3>2
  <2> HIDE DEF s, t
  <2> QED
    BY <1>3, <1>5, <2>1, <2>2, <2>4
<1>8. CASE Sync(k) \/ Clear(k) \/ Cleared(k)
  <2> DEFINE synced(pc, map, missing) == [r EXCEPT !.pc = pc, !.map = map, !.missing = missing]
             clearing(cleared) == [r EXCEPT !.pc = "clearing", !.cleared = cleared]
             filling == [r EXCEPT !.pc = "fill"]
             Same(s) == s.pc \in Transactions /\ s.page = r.page /\ s.wrote = r.wrote /\ s.row = r.row
  <2>1. /\ \A pc \in {"clear", "tag"} : \A map, missing : Same(synced(pc, map, missing))
        /\ \A cleared : Same(clearing(cleared))
        /\ Same(filling)
    BY <1>1 DEF TransactionRequests, Transactions
  <2>2. \E s : Goto(k, s) /\ Same(s)
    <3>1. \/ \E pc \in {"clear", "tag"} : \E map, missing : Goto(k, synced(pc, map, missing))
          \/ \E cleared : Goto(k, clearing(cleared))
          \/ Goto(k, filling)
      BY <1>8 DEF Sync, Clear, Cleared, Advance
    <3> HIDE DEF synced, clearing, filling, Same
    <3> QED
      BY <2>1, <3>1
  <2>3. UNCHANGED locked
    BY <1>8 DEF Sync, Clear, Cleared, pageVars
  <2> QED
    BY <1>3, <2>2, <2>3
<1>9. CASE Tag(k) \/ Fill(k)
  <2>1. \/ Aborted(k) /\ Done(k)
        \/ UNCHANGED locked /\ \E pc \in {"clear", "commit"} : Goto(k, [r EXCEPT !.pc = pc])
    BY <1>9 DEF Tag, Fill, Advance
  <2>2. \A pc \in {"clear", "commit"} :
          LET s == [r EXCEPT !.pc = pc]
          IN s.pc \in Transactions /\ s.page = r.page /\ s.wrote = r.wrote /\ s.row = r.row
    BY <1>1 DEF TransactionRequests, Transactions
  <2> QED
    BY <1>3, <1>4, <2>1, <2>2
<1> QED
  BY <1>6, <1>7, <1>8, <1>9 DEF Working

\* What a transaction commits: where a page is left, it was there, or it is the
\* course the transaction inserts again.
LEMMA CommitRow ==
  ASSUME TypeOK, Shapes, NEW k \in Clients, Commit(k), NEW p \in Ids, page'[p] # NoPage
  PROVE  LET r == request[k] IN
         /\ p \notin Gone(r) /\ Seen(r)[p] \in PageRow
         /\ page'[p] = Tagged(r, Seen(r)[p], p)
         /\ page'[p].course = Seen(r)[p].course /\ page'[p].owner = Seen(r)[p].owner
         /\ page'[p].likes = Seen(r)[p].likes /\ page'[p].completed = Seen(r)[p].completed
         /\ page'[p].date = Seen(r)[p].date /\ page'[p].regions = Seen(r)[p].regions
         /\ \/ /\ page[p] = NoPage /\ p = r.page /\ r.wrote /\ r.row \in PageRow
               /\ Seen(r)[p] = r.row /\ page'[p].course = 0
            \/ /\ page[p] \in PageRow /\ ~ (p = r.page /\ r.wrote)
               /\ Seen(r)[p] = page[p]
            \/ /\ page[p] \in PageRow /\ p = r.page /\ r.wrote /\ r.row \in PageRow
               /\ Seen(r)[p] = Written(page[p], r.row, r.columns)
               /\ page'[p].course = page[p].course
<1> DEFINE r == request[k]
<1>1. r \in TransactionRequests /\ Shape(r) /\ r.pc \in Transactions
  BY CommitPage DEF Shapes, Commit, At, Transactions
<1>2. p \notin Gone(r) /\ Seen(r)[p] # NoPage /\ page'[p] = Tagged(r, Seen(r)[p], p)
  BY CommitPage
<1>3. Seen(r)[p] \in PageRow
  BY <1>1, <1>2, SeenTypes DEF Rows
<1>4. /\ page'[p].course = Seen(r)[p].course /\ page'[p].owner = Seen(r)[p].owner
      /\ page'[p].likes = Seen(r)[p].likes /\ page'[p].completed = Seen(r)[p].completed
      /\ page'[p].date = Seen(r)[p].date /\ page'[p].regions = Seen(r)[p].regions
  BY <1>2, <1>3 DEF Tagged, PageRow
<1>5. page[p] = NoPage \/ page[p] \in PageRow
  BY DEF TypeOK, PageTypes
<1>6. CASE ~ (p = r.page /\ r.wrote)
  <2>1. Seen(r)[p] = page[p]
    BY <1>6 DEF Seen, TypeOK, PageTypes
  <2> QED
    BY <1>2, <1>3, <1>4, <1>5, <1>6, <2>1
<1>7. CASE p = r.page /\ r.wrote
  <2>1. Seen(r)[p] = Own(r)
    BY <1>7 DEF Seen, TypeOK, PageTypes
  <2>2. r.row \in PageRow /\ r.row.course = 0
    <3>1. r.row # NoPage
      BY <1>2, <2>1 DEF Own
    <3> QED
      BY <1>1, <3>1 DEF Shape, TransactionRequests
  <2>3. CASE page[p] = NoPage
    <3>1. Seen(r)[p] = r.row
      BY <1>7, <2>1, <2>3 DEF Own, Exists
    <3> QED
      BY <1>2, <1>3, <1>4, <1>7, <2>2, <2>3, <3>1
  <2>4. CASE page[p] \in PageRow
    <3>1. Seen(r)[p] = Written(page[p], r.row, r.columns)
      BY <1>7, <2>1, <2>2, <2>4, RowTypes DEF Own, Exists
    <3>2. r.columns \in SUBSET SavedColumns
      BY <1>1 DEF TransactionRequests
    <3>3. page'[p].course = page[p].course
      BY <1>4, <2>2, <2>4, <3>1, <3>2, WrittenTypes
    <3> QED
      BY <1>2, <1>3, <1>4, <1>7, <2>2, <2>4, <3>1, <3>3
  <2> QED
    BY <1>5, <2>3, <2>4
<1> QED
  BY <1>6, <1>7

\* A commit deletes nothing but what it dropped.
LEMMA CommitLeaves ==
  ASSUME TypeOK, NEW k \in Clients, Commit(k), NEW p \in Ids, page[p] # NoPage,
         p \notin Gone(request[k])
  PROVE  page'[p] # NoPage
<1> DEFINE r == request[k]
<1>1. r \in TransactionRequests
  BY CommitPage
<1>2. Seen(r)[p] # NoPage
  <2>1. CASE p = r.page /\ r.wrote
    <3>1. r.row # NoPage
      BY <2>1 DEF Gone, LockedBy
    <3>2. r.row \in PageRow /\ page[p] \in PageRow /\ r.columns \in SUBSET SavedColumns
      BY <1>1, <3>1 DEF TransactionRequests, TypeOK, PageTypes
    <3>3. Own(r) = Written(page[p], r.row, r.columns)
      BY <2>1, <3>1 DEF Own, Exists
    <3>4. Seen(r)[p] = Own(r)
      BY <2>1 DEF Seen, TypeOK, PageTypes
    <3>5. Seen(r)[p] \in PageRow
      BY <3>2, <3>3, <3>4, WrittenTypes
    <3> QED
      BY <3>5, RowTypes
  <2>2. CASE ~ (p = r.page /\ r.wrote)
    BY <2>2 DEF Seen, TypeOK, PageTypes
  <2> QED
    BY <2>1, <2>2
<1>3. page'[p] = Tagged(r, Seen(r)[p], p)
  BY <1>2, CommitPage
<1>4. Seen(r)[p] \in PageRow
  BY <1>1, <1>2, SeenTypes DEF Rows
<1> QED
  BY <1>3, <1>4 DEF Tagged, NoPage, PageRow

LEMMA CommitLocking ==
  ASSUME TypeOK, Shapes, Locking, NEW k \in Clients, Committing(k)
  PROVE  Locking'
<1>1. Commit(k) /\ request[k].pc = "commit"
  BY DEF Committing, Commit, At
<1>2. Held(k) = LockedBy(request[k])
  BY <1>1 DEF Held, Transactions
<1>3. locked' = locked \ Held(k)
  BY <1>1, <1>2, CommitPage
<1>4. request'[k] = Idle /\ \A j \in Clients \ {k} : Kept(request[j], request'[j])
  BY <1>1, CommitRequests, CommitKeeps
<1>5. Held(k)' = {}
  BY <1>4 DEF Held, Idle, Transactions
<1>6. ASSUME NEW b \in Ids, page'[b] # NoPage, page'[b].course \in locked
      PROVE  page[b] # NoPage /\ page[b].course = page'[b].course
  <2>1. page'[b].course # 0
    BY <1>6, BoundsAssumption DEF TypeOK, PageTypes, Ids
  <2> QED
    BY <1>1, <1>6, <2>1, CommitRow, RowTypes
<1> QED
  BY <1>3, <1>4, <1>5, <1>6, LockingKept

LEMMA PublishLocking ==
  ASSUME TypeOK, Shapes, Locking, NEW k \in Clients, Publishing(k)
  PROVE  Locking'
<1>1. /\ request'[k].pc \in {"idle", "copy", "blog", "deleteBlog"}
      /\ request[k].pc \in {"idle", "copy", "blog", "deleteBlog"}
      /\ UNCHANGED locked /\ \A j \in Clients \ {k} : Kept(request[j], request'[j])
  <2>1. CASE \E u \in Users, c \in Ids :
               CopyStart(k, u, c) \/ BlogStart(k, u, c) \/ DeleteBlogStart(k, u, c)
    BY <2>1, GotoKeeps DEF CopyStart, BlogStart, DeleteBlogStart, At, Start, pageVars
  <2>2. CASE Copy(k) \/ Blog(k) \/ DeleteBlog(k)
    BY <2>2, GotoKeeps DEF Copy, Blog, DeleteBlog, Done, Idle, At
  <2> QED
    BY <2>1, <2>2 DEF Publishing
<1>2. Held(k) = {} /\ Held(k)' = {}
  BY <1>1 DEF Held, Transactions
<1>3. ASSUME NEW b \in Ids, page'[b] # NoPage, page'[b].course \in locked
      PROVE  page[b] # NoPage /\ page[b].course = page'[b].course
  <2>1. CASE page'[b] = page[b]
    BY <1>3, <2>1
  <2>2. CASE page'[b] # page[b]
    <3>1. Copy(k) \/ Blog(k)
      BY <1>3, <2>2
         DEF Publishing, CopyStart, BlogStart, DeleteBlogStart, DeleteBlog, pageVars, TypeOK, PageTypes
    <3>2. page'[b] = request[k].row
      BY <2>2, <3>1 DEF Copy, Blog, Insert, TypeOK, PageTypes
    <3>3. request[k].row.course \notin locked
      <4>1. CASE Copy(k)
        BY <4>1, BoundsAssumption DEF Copy, At, Shapes, Shape, TypeOK, PageTypes, Ids
      <4>2. CASE Blog(k)
        BY <4>2 DEF Blog
      <4> QED
        BY <3>1, <4>1, <4>2
    <3> QED
      BY <1>3, <3>2, <3>3
  <2> QED
    BY <2>1, <2>2
<1> QED
  BY <1>1, <1>2, <1>3, LockingKept

LEMMA NextLocking ==
  ASSUME TypeOK, Shapes, Locking, [Next]_vars
  PROVE  Locking'
<1>1. CASE UNCHANGED vars
  BY <1>1 DEF vars, pageVars, Locking, Held, LockedBy, BlogsOf, Exists
<1>2. CASE Next
  <2>1. PICK k \in Clients :
           \/ Liking(k) \/ Saving(k) \/ (\E u \in Users, c \in Ids : Beginning(k, u, c))
           \/ Working(k) \/ Committing(k) \/ Publishing(k)
    BY <1>2, NextCases
  <2> QED
    BY <2>1, LikeLocking, SaveLocking, BeginLocking, WorkLocking, CommitLocking, PublishLocking
<1> QED
  BY <1>1, <1>2

LEMMA InitLocking ==
  ASSUME Init
  PROVE  Locking
  BY DEF Init, Locking, Held, Idle, Transactions

-----------------------------------------------------------------------------
(* One blog per course                                                     *)

\* A step that makes no blog and takes none of the courses away.
LEMMA BlogsKept ==
  ASSUME OneBlogPerCourse,
         \A b \in Ids : page'[b] # NoPage /\ page'[b].course # 0 =>
           /\ page[b] # NoPage /\ page[b].course = page'[b].course
           /\ page'[page'[b].course] # NoPage /\ page'[page'[b].course].course = 0
  PROVE  OneBlogPerCourse'
  BY DEF OneBlogPerCourse, IsCourse, Exists

\* A step after which every page is what it was.
LEMMA SamePagesBlogs ==
  ASSUME TypeOK, OneBlogPerCourse,
         \A p \in Ids : /\ (page'[p] # NoPage) = (page[p] # NoPage)
                        /\ page[p] # NoPage => page'[p].course = page[p].course
  PROVE  OneBlogPerCourse'
<1>1. ASSUME NEW b \in Ids, page'[b] # NoPage, page'[b].course # 0
      PROVE  /\ page[b] # NoPage /\ page[b].course = page'[b].course
             /\ page'[page'[b].course] # NoPage /\ page'[page'[b].course].course = 0
  <2>1. page[b] \in PageRow /\ page[b].course = page'[b].course
    BY <1>1 DEF TypeOK, PageTypes
  <2>2. page[b].course \in Ids
    BY <1>1, <2>1, BoundsAssumption DEF PageRow, Ids
  <2>3. page[page[b].course] # NoPage /\ page[page[b].course].course = 0
    BY <1>1, <2>1, RowTypes DEF OneBlogPerCourse, IsCourse, Exists
  <2> QED
    BY <1>1, <2>1, <2>2, <2>3
<1> QED
  BY <1>1, BlogsKept

\* A new page is not in the way of the blogs there are: as a blog it is the first
\* of its course.
LEMMA NewPageBlogs ==
  ASSUME TypeOK, OneBlogPerCourse, NEW p \in Ids, NEW row \in PageRow,
         page[p] = NoPage, page' = [page EXCEPT ![p] = row],
         row.course # 0 => IsCourse(row.course) /\ BlogsOf(row.course) = {}
  PROVE  OneBlogPerCourse'
<1>1. \A b \in Ids : page'[b] = IF b = p THEN row ELSE page[b]
  BY DEF TypeOK, PageTypes
<1>2. ASSUME NEW b \in Ids, page'[b] # NoPage, page'[b].course # 0
      PROVE  /\ page'[b].course \in Ids /\ page'[b].course # p
             /\ page[page'[b].course] # NoPage /\ page[page'[b].course].course = 0
             /\ b # p => page[b] # NoPage /\ page[b].course = page'[b].course
  <2>1. page'[b] \in PageRow
    BY <1>1, <1>2 DEF TypeOK, PageTypes
  <2>2. page'[b].course \in Ids
    BY <1>2, <2>1, BoundsAssumption DEF PageRow, Ids
  <2>3. page[page'[b].course] # NoPage /\ page[page'[b].course].course = 0
    BY <1>1, <1>2 DEF OneBlogPerCourse, IsCourse, Exists
  <2> QED
    BY <1>1, <1>2, <2>2, <2>3
<1>3. \A b \in Ids : page[b] # NoPage => page[b].course # row.course \/ row.course = 0
  BY DEF BlogsOf, Exists
<1>4. ASSUME NEW b \in Ids, NEW d \in Ids, page'[b] # NoPage, page'[b].course # 0,
             page'[d] # NoPage, page'[d].course = page'[b].course
      PROVE  d = b
  <2>1. CASE b # p /\ d # p
    BY <1>1, <1>4, <2>1 DEF OneBlogPerCourse, Exists
  <2>2. CASE b = p \/ d = p
    BY <1>1, <1>3, <1>4, <2>2
  <2> QED
    BY <2>1, <2>2
<1>5. ASSUME NEW b \in Ids, page'[b] # NoPage, page'[b].course # 0
      PROVE  page'[page'[b].course] # NoPage /\ page'[page'[b].course].course = 0
  BY <1>1, <1>2, <1>5
<1> QED
  BY <1>4, <1>5 DEF OneBlogPerCourse, IsCourse, Exists

\* A row that says it is about a course, and the page with that id.
LEMMA KnownCourse ==
  ASSUME Agreed, NEW c \in Ids, IsAlwaysCourse(c), page[c] # NoPage
  PROVE  page[c].course = 0
  BY PageFacts DEF IsAlwaysCourse, Fact

LEMMA LikeBlogs ==
  ASSUME TypeOK, OneBlogPerCourse, NEW k \in Clients, Liking(k)
  PROVE  OneBlogPerCourse'
<1>1. CASE UNCHANGED page
  BY <1>1 DEF OneBlogPerCourse, IsCourse, Exists
<1>2. CASE LikeCommit(k) \/ UnlikeCommit(k)
  <2>1. PICK n : page' = [page EXCEPT ![request[k].page].likes = n]
    BY <1>2 DEF LikeCommit, UnlikeCommit
  <2>2. ASSUME NEW p \in Ids
        PROVE  /\ (page'[p] # NoPage) = (page[p] # NoPage)
               /\ page[p] # NoPage => page'[p].course = page[p].course
    <3>1. page[p] = NoPage \/ page[p] \in PageRow
      BY DEF TypeOK, PageTypes
    <3>2. page'[p] = page[p] \/ page'[p] = [page[p] EXCEPT !.likes = n]
      BY <2>1 DEF TypeOK, PageTypes
    <3>3. CASE page[p] = NoPage
      BY <3>2, <3>3 DEF NoPage
    <3>4. CASE page[p] \in PageRow
      BY <3>2, <3>4 DEF NoPage, PageRow
    <3> QED
      BY <3>1, <3>3, <3>4
  <2> QED
    BY <2>2, SamePagesBlogs
<1> QED
  BY <1>1, <1>2 DEF Liking, LikeStep, LikeStart, LikeLock, pageVars

LEMMA SaveBlogs ==
  ASSUME TypeOK, Agreed, OneBlogPerCourse, NEW k \in Clients, Saving(k)
  PROVE  OneBlogPerCourse'
<1>1. CASE UNCHANGED page
  BY <1>1 DEF OneBlogPerCourse, IsCourse, Exists
<1>2. CASE SaveInserts(k) /\ ~ UNCHANGED page
  <2> DEFINE row == [request[k].row EXCEPT !.regions = {}]
             p == request[k].page
             c == request[k].row.course
  <2>1. request[k] \in ReloadRequests
    BY <1>2, RequestKinds DEF SaveInserts, At, TypeOK
  <2>2. /\ p \in Ids /\ request[k].row \in PageRow /\ request[k].row # NoPage
        /\ row \in PageRow
    BY <2>1, RowTypes DEF ReloadRequests
  <2>3. row.course = c
    BY <2>2 DEF PageRow
  <2>4. page[p] = NoPage /\ page' = [page EXCEPT ![p] = row] /\ (c = 0 \/ ~ BlogRefused(c))
    BY <1>2 DEF SaveInserts, Exists
  <2>5. ASSUME c # 0
        PROVE  IsCourse(c) /\ BlogsOf(c) = {}
    <3>1. page[c] # NoPage /\ BlogsOf(c) = {}
      BY <2>4, <2>5 DEF BlogRefused, Exists
    <3>2. c \in Ids
      BY <2>2, <2>5, BoundsAssumption DEF PageRow, Ids
    <3>3. Fact(p, request[k].row) \in Facts
      BY <2>1, <2>2, PageFacts DEF HoldsRow, Copies, ReloadRequests
    <3>4. IsAlwaysCourse(c)
      BY <2>5, <3>3 DEF Agreed, Fact
    <3> QED
      BY <3>1, <3>2, <3>4, KnownCourse DEF IsCourse, Exists
  <2> HIDE DEF row
  <2> QED
    BY <2>2, <2>3, <2>4, <2>5, NewPageBlogs
<1>3. CASE SaveWrite(k)
  <2> DEFINE r == request[k]
  <2>1. r \in WriteRequests
    BY <1>3, RequestKinds DEF SaveWrite, At, TypeOK
  <2>2. ASSUME NEW p \in Ids
        PROVE  /\ (page'[p] # NoPage) = (page[p] # NoPage)
               /\ page[p] # NoPage => page'[p].course = page[p].course
    <3>1. page'[p] = page[p] \/ (page[p] # NoPage /\ page'[p] = Written(page[p], r.row, r.columns))
      BY <1>3, <2>1 DEF SaveWrite, Exists, TypeOK, PageTypes, WriteRequests
    <3>2. CASE page[p] # NoPage /\ page'[p] = Written(page[p], r.row, r.columns)
      <4>1. /\ page[p] \in PageRow /\ r.row \in PageRow /\ r.columns \in SUBSET SavedColumns
        BY <2>1, <3>2 DEF WriteRequests, TypeOK, PageTypes
      <4>2. page'[p] \in PageRow /\ page'[p].course = page[p].course
        BY <3>2, <4>1, WrittenTypes
      <4> QED
        BY <3>2, <4>2, RowTypes
    <3> QED
      BY <3>1, <3>2
  <2> QED
    BY <2>2, SamePagesBlogs
<1> QED
  BY <1>1, <1>2, <1>3 DEF Saving, SaveStep, ViewStart, EditStart, SaveReload, pageVars

LEMMA CommitBlogs ==
  ASSUME TypeOK, Shapes, Agreed, Named, OneBlogPerCourse, NEW k \in Clients, Committing(k)
  PROVE  OneBlogPerCourse'
<1> DEFINE r == request[k]
<1>1. Commit(k) /\ r \in TransactionRequests
  BY CommitPage DEF Committing
<1>2. ASSUME NEW b \in Ids, page'[b] # NoPage, page'[b].course # 0
      PROVE  /\ page[b] # NoPage /\ page[b].course = page'[b].course
             /\ page'[page'[b].course] # NoPage /\ page'[page'[b].course].course = 0
  <2>1. page[b] \in PageRow /\ page[b].course = page'[b].course /\ b \notin Gone(r)
    BY <1>1, <1>2, CommitRow
  <2> DEFINE c == page[b].course
  <2>2. c \in Ids
    BY <1>2, <2>1, BoundsAssumption DEF PageRow, Ids
  <2>3. page[c] # NoPage /\ page[c].course = 0
    BY <1>2, <2>1, RowTypes DEF OneBlogPerCourse, IsCourse, Exists
  <2>4. c \notin Gone(r)
    <3>1. ASSUME c \in Gone(r) PROVE FALSE
      <4>1. c = r.page \/ c \in BlogsOf(r.page)
        BY <3>1 DEF Gone, LockedBy
      <4>2. r.page # 0
        BY <1>1, BoundsAssumption DEF TransactionRequests, Ids
      <4>3. c = r.page
        BY <2>3, <4>1, <4>2 DEF BlogsOf
      <4>4. b \in BlogsOf(r.page)
        BY <2>1, <4>3, RowTypes DEF BlogsOf, Exists
      <4>5. b \in Gone(r)
        BY <3>1, <4>4 DEF Gone, LockedBy
      <4> QED
        BY <2>1, <4>5
    <3> QED
      BY <3>1
  <2>6. page'[c] # NoPage
    BY <1>1, <2>2, <2>3, <2>4, CommitLeaves
  <2>7. page'[c].course = 0
    BY <1>1, <2>2, <2>3, <2>6, CommitRow
  <2> QED
    BY <2>1, <2>6, <2>7, RowTypes
<1> QED
  BY <1>2, BlogsKept

LEMMA PublishBlogs ==
  ASSUME TypeOK, Shapes, Agreed, Named, OneBlogPerCourse, NEW k \in Clients, Publishing(k)
  PROVE  OneBlogPerCourse'
<1> DEFINE row == request[k].row
<1>1. CASE UNCHANGED page
  BY <1>1 DEF OneBlogPerCourse, IsCourse, Exists
<1>2. ASSUME Copy(k) \/ Blog(k), Insert(row),
             row.course # 0 => IsCourse(row.course) /\ BlogsOf(row.course) = {}
      PROVE  OneBlogPerCourse'
  <2>1. row \in PageRow
    BY <1>2, RequestKinds DEF Copy, Blog, At, TypeOK, InsertRequests
  <2>2. made' \in Ids /\ made' = made + 1 /\ page' = [page EXCEPT ![made'] = row]
    BY <1>2, <2>1, InsertTypes
  <2>3. page[made'] = NoPage
    <3>1. \A p \in Ids : page[p] # NoPage => p \in 1..made
      BY PageFacts DEF Agreed, Fact
    <3>2. made \in Nat
      BY BoundsAssumption DEF TypeOK, Ids
    <3> QED
      BY <2>2, <3>1, <3>2
  <2> HIDE DEF row
  <2> QED
    BY <1>2, <2>1, <2>2, <2>3, NewPageBlogs
<1>3. CASE Copy(k)
  <2>1. row.course = 0 /\ Insert(row)
    BY <1>3 DEF Copy, At, Shapes, Shape
  <2> QED
    BY <1>2, <1>3, <2>1
<1>4. CASE Blog(k) /\ ~ UNCHANGED page
  <2>1. Insert(row) /\ ~ BlogRefused(row.course) /\ row.course # 0 /\ IsAlwaysCourse(row.course)
    BY <1>4 DEF Blog, At, Shapes, Shape, Named, NamedBy
  <2>2. row.course \in Ids
    BY <1>4, <2>1, RequestKinds, BoundsAssumption DEF Blog, At, TypeOK, InsertRequests, PageRow, Ids
  <2>3. IsCourse(row.course) /\ BlogsOf(row.course) = {}
    BY <2>1, <2>2, KnownCourse DEF BlogRefused, IsCourse, Exists
  <2> QED
    BY <1>2, <1>4, <2>1, <2>3
<1>5. CASE DeleteBlog(k)
  <2> DEFINE p == request[k].page
  <2>1. p \in Ids /\ IsAlwaysBlog(p)
    BY <1>5, RequestKinds DEF DeleteBlog, At, TypeOK, DeleteBlogRequests, Named, NamedBy
  <2>2. page[p] # NoPage => page[p].course # 0
    BY <2>1, PageFacts DEF IsAlwaysBlog, Fact
  <2>3. \A b \in Ids : page'[b] = IF b = p THEN NoPage ELSE page[b]
    BY <1>5 DEF DeleteBlog, TypeOK, PageTypes
  <2>4. ASSUME NEW b \in Ids, page'[b] # NoPage, page'[b].course # 0
        PROVE  /\ page[b] # NoPage /\ page[b].course = page'[b].course
               /\ page'[page'[b].course] # NoPage /\ page'[page'[b].course].course = 0
    <3>1. page[b] # NoPage /\ page'[b] = page[b] /\ page[b] \in PageRow
      BY <2>3, <2>4 DEF TypeOK, PageTypes
    <3>2. page[b].course \in Ids
      BY <2>4, <3>1, BoundsAssumption DEF PageRow, Ids
    <3>3. page[page[b].course] # NoPage /\ page[page[b].course].course = 0
      BY <2>4, <3>1 DEF OneBlogPerCourse, IsCourse, Exists
    <3> QED
      BY <2>2, <2>3, <3>1, <3>2, <3>3
  <2> QED
    BY <2>4, BlogsKept
<1> QED
  BY <1>1, <1>3, <1>4, <1>5 DEF Publishing, CopyStart, BlogStart, DeleteBlogStart, pageVars

LEMMA InitBlogs ==
  ASSUME Init
  PROVE  OneBlogPerCourse
<1>1. PICK w \in Workloads : workload = w
  BY DEF Init
<1>2. page = w.page
  BY <1>1 DEF Init
<1> QED
  BY <1>1, <1>2, WorkloadAssumption DEF OneBlogPerCourse, IsCourse, Exists

LEMMA NextBlogs ==
  ASSUME TypeOK, Shapes, Agreed, Named, OneBlogPerCourse, [Next]_vars
  PROVE  OneBlogPerCourse'
<1>1. CASE UNCHANGED page
  BY <1>1 DEF OneBlogPerCourse, IsCourse, Exists
<1>2. CASE Next
  <2>1. PICK k \in Clients :
           \/ Liking(k) \/ Saving(k) \/ (\E u \in Users, c \in Ids : Beginning(k, u, c))
           \/ Working(k) \/ Committing(k) \/ Publishing(k)
    BY <1>2, NextCases
  <2>2. CASE (\E u \in Users, c \in Ids : Beginning(k, u, c)) \/ Working(k)
    <3>1. UNCHANGED page
      BY <2>2 DEF Beginning, CompleteStart, DeleteCourseStart, Working, CompletionReload,
         CompletionWrite, DropCourse, Sync, Tag, Clear, Cleared, Fill, pageVars
    <3> QED
      BY <1>1, <3>1
  <2> QED
    BY <2>1, <2>2, LikeBlogs, SaveBlogs, CommitBlogs, PublishBlogs
<1> QED
  BY <1>1, <1>2 DEF vars, pageVars

\* A course has one blog at most, however many requests found none, and no blog
\* outlives its course: also when a blog that was deleted is saved again.
THEOREM BlogsCorrect == Spec => []OneBlogPerCourse
<1>1. Init => TypeOK /\ Shapes /\ Agreed /\ Named /\ OneBlogPerCourse
  BY InitTypes, InitFacts, InitBlogs
<1>2. TypeOK /\ Shapes /\ Agreed /\ Named /\ OneBlogPerCourse /\ [Next]_vars
        => (TypeOK /\ Shapes /\ Agreed /\ Named /\ OneBlogPerCourse)'
  BY NextTypes, NextFacts, NextBlogs
<1> QED
  BY <1>1, <1>2, PTL DEF Spec

-----------------------------------------------------------------------------
(* The count of visited countries                                          *)

\* users.visited_countries never counts more countries than the list behind it
\* has, however the transactions of a user overlap.
THEOREM CountsCorrect == Spec => []CountedCountriesExist
<1>1. Init => CountedCountriesExist
  <2> SUFFICES ASSUME Init PROVE CountedCountriesExist
    OBVIOUS
  <2>1. \A u \in Users : Cardinality(VisitedIn(visited[u])) \in Nat
    BY CountriesAssumption, FS_Subset, FS_CardinalityType DEF VisitedIn
  <2> QED
    BY <2>1 DEF Init, CountedCountriesExist
<1>2. ASSUME TypeOK, CountedCountriesExist, [Next]_vars
      PROVE  CountedCountriesExist'
  <2>1. CASE UNCHANGED <<visited, counted>>
    BY <1>2, <2>1 DEF CountedCountriesExist, VisitedIn
  <2>2. ASSUME NEW k \in Clients, Commit(k)
        PROVE  CountedCountriesExist'
    <3> DEFINE r == request[k]
    <3>1. r.user \in Users
      BY <1>2, <2>2, CommitPage DEF TransactionRequests
    <3>2. \A x \in Countries : r.map[x] # NoDate => visited'[r.user][x] = r.map[x]
      BY <1>2, <2>2, <3>1 DEF Commit, TypeOK, Visits
    <3>3. VisitedIn(r.map) \subseteq VisitedIn(visited'[r.user])
      BY <3>2 DEF VisitedIn
    <3>4. IsFiniteSet(VisitedIn(visited'[r.user]))
      BY CountriesAssumption, FS_Subset DEF VisitedIn
    <3>5. Cardinality(VisitedIn(r.map)) <= Cardinality(VisitedIn(visited'[r.user]))
      BY <3>3, <3>4, FS_Subset
    <3>6. counted'[r.user] = Cardinality(VisitedIn(r.map))
      BY <1>2, <2>2, <3>1 DEF Commit, TypeOK, VisitedCount
    <3>7. \A u \in Users \ {r.user} : visited'[u] = visited[u] /\ counted'[u] = counted[u]
      BY <1>2, <2>2 DEF Commit, TypeOK
    <3>8. \A u \in Users : counted'[u] <= Cardinality(VisitedIn(visited'[u]))
      BY <1>2, <3>5, <3>6, <3>7 DEF CountedCountriesExist
    <3> QED
      BY <3>8 DEF CountedCountriesExist, VisitedIn
  <2>3. Next => UNCHANGED <<visited, counted>> \/ \E k \in Clients : Commit(k)
    <3> SUFFICES ASSUME Next PROVE UNCHANGED <<visited, counted>> \/ \E k \in Clients : Commit(k)
      OBVIOUS
    <3>1. PICK k \in Clients :
             \/ Liking(k) \/ Saving(k) \/ (\E u \in Users, c \in Ids : Beginning(k, u, c))
             \/ Working(k) \/ Committing(k) \/ Publishing(k)
      BY NextCases
    <3> QED
      BY <3>1 DEF Liking, Saving, Beginning, Working, Committing, Publishing, CompleteStart,
         DeleteCourseStart, CompletionReload, CompletionWrite, DropCourse, Sync, Tag, Clear, Cleared,
         Fill, CopyStart, BlogStart, DeleteBlogStart, Copy, Blog, DeleteBlog, visitVars
  <2> QED
    BY <1>2, <2>1, <2>2, <2>3 DEF vars
<1> QED
  BY <1>1, <1>2, TypeCorrect, PTL DEF Spec

-----------------------------------------------------------------------------
(* Likes                                                                   *)

\* No copy older than the last like or unlike of p may still be saved.
Counted(p) == <<p, "likes">> \notin disturbed

\* Likes are of pages that are there, at most one by a user.
LikesLive ==
  /\ IsFiniteSet(likes)
  /\ \A l \in likes : Exists(l.page)
  /\ \A l, m \in likes : l.user = m.user /\ l.page = m.page => l = m

\* Who holds the lock sees the count and the like that are there.
LikerSees(k) ==
  request[k].pc \in {"like", "unlike"} =>
    /\ Exists(request[k].page)
    /\ request[k].row.likes = page[request[k].page].likes
    /\ (\E l \in likes : l.page = request[k].page /\ l.user = request[k].user)
         <=> request[k].pc = "unlike"

\* A copy that may be saved has the count that is there, unless the page is
\* disturbed, and then its save leaves the count alone.
CopyAgrees(k) ==
  /\ request[k].pc \in Copies /\ Counted(request[k].page) =>
       Exists(request[k].page) /\ request[k].row.likes = page[request[k].page].likes
  /\ request[k].pc \in Transactions /\ request[k].wrote /\ request[k].row # NoPage
       /\ Counted(request[k].page) => Exists(request[k].page)
  /\ request[k].pc \in Transactions \union {"write"} /\ Counted(request[k].page) =>
       "likes" \notin request[k].columns

LikeInv ==
  /\ LikesLive /\ LikesAreCounted
  /\ \A k \in Clients : LikerSees(k) /\ CopyAgrees(k)

\* The count and the likes of p stay as they are.
LikesStay(p) ==
  /\ (page'[p] # NoPage) = (page[p] # NoPage)
  /\ page[p] # NoPage => page'[p].likes = page[p].likes
  /\ {l \in likes' : l.page = p} = {l \in likes : l.page = p}

\* What the others rely on is kept by a step that changes only pages nobody else
\* has locked, and that disturbs those of which somebody else has a copy.
LEMMA OthersLike ==
  ASSUME TypeOK, LikeInv, NEW k \in Clients, NEW P,
         \A j \in Clients \ {k} : Kept(request[j], request'[j]),
         \A p \in Ids \ P : LikesStay(p),
         disturbed \subseteq disturbed',
         \A j \in Clients \ {k} : Held(j) \intersect P = {},
         \A j \in Clients \ {k} : request[j].pc \in Copies /\ request[j].page \in P =>
           <<request[j].page, "likes">> \in disturbed'
  PROVE  /\ \A j \in Clients \ {k} : LikerSees(j)' /\ CopyAgrees(j)'
         /\ \A p \in Ids \ P : page'[p] # NoPage /\ <<p, "likes">> \notin disturbed' =>
              page'[p].likes = Cardinality({l \in likes' : l.page = p})
<1>1. ASSUME NEW p \in Ids \ P, page'[p] # NoPage, <<p, "likes">> \notin disturbed'
      PROVE  page'[p].likes = Cardinality({l \in likes' : l.page = p})
  <2>1. page[p] # NoPage /\ page'[p].likes = page[p].likes
        /\ {l \in likes' : l.page = p} = LikesOf(p) /\ <<p, "likes">> \notin disturbed
    BY <1>1 DEF LikesStay, LikesOf
  <2> QED
    BY <2>1 DEF LikeInv, LikesAreCounted, Exists
<1>2. ASSUME NEW j \in Clients \ {k}
      PROVE  LikerSees(j)'
  <2> SUFFICES ASSUME request'[j].pc \in {"like", "unlike"} PROVE LikerSees(j)'
    BY DEF LikerSees
  <2>1. request'[j] = request[j] /\ request[j].pc \in {"like", "unlike"}
    BY DEF Kept, TransactionRequests, Transactions
  <2>2. request[j].page \in Held(j) /\ request[j].page \in Ids
    BY <2>1, RequestKinds DEF Held, TypeOK, LikeRequests
  <2>3. request[j].page \in Ids \ P
    BY <2>2
  <2>4. LikesStay(request[j].page)
    BY <2>3
  <2>5. LikerSees(j)
    BY DEF LikeInv
  <2>6. page'[request[j].page] # NoPage /\ request[j].row.likes = page'[request[j].page].likes
    BY <2>1, <2>4, <2>5 DEF LikesStay, LikerSees, Exists
  <2>7. (\E l \in likes' : l.page = request[j].page /\ l.user = request[j].user)
          <=> request[j].pc = "unlike"
    BY <2>1, <2>4, <2>5 DEF LikesStay, LikerSees
  <2> QED
    BY <2>1, <2>6, <2>7 DEF LikerSees, Exists
<1>3. ASSUME NEW j \in Clients \ {k}
      PROVE  CopyAgrees(j)'
  <2>1. CopyAgrees(j)
    BY DEF LikeInv
  <2> DEFINE p == request[j].page
  <2>2. ASSUME request'[j].pc \in Copies, <<request'[j].page, "likes">> \notin disturbed'
        PROVE  page'[request'[j].page] # NoPage /\ request'[j].row.likes = page'[request'[j].page].likes
    <3>1. request[j].pc \in Copies /\ request'[j].page = p /\ request'[j].row = request[j].row
      BY <2>2 DEF Kept
    <3>2. p \in Ids
      BY <3>1, RequestKinds
         DEF Copies, Transactions, TypeOK, ReloadRequests, WriteRequests, TransactionRequests
    <3>3. p \notin P /\ Counted(p)
      BY <2>2, <3>1 DEF Counted
    <3>4. LikesStay(p)
      BY <3>2, <3>3
    <3> QED
      BY <2>1, <3>1, <3>3, <3>4 DEF LikesStay, CopyAgrees, Exists
  <2>3. ASSUME request'[j].pc \in Transactions, request'[j].wrote, request'[j].row # NoPage,
               <<request'[j].page, "likes">> \notin disturbed'
        PROVE  page'[request'[j].page] # NoPage
    <3>1. /\ request[j].pc \in Transactions /\ request[j].wrote /\ request[j].row # NoPage
          /\ request'[j].page = p
      BY <2>3 DEF Kept
    <3>2. p \in Held(j)
      BY <3>1 DEF Held, LockedBy, Transactions
    <3>3. p \in Ids
      BY <3>1, RequestKinds DEF TypeOK, TransactionRequests
    <3>4. LikesStay(p) /\ Counted(p)
      BY <2>3, <3>1, <3>2, <3>3 DEF Counted
    <3> QED
      BY <2>1, <3>1, <3>4 DEF LikesStay, CopyAgrees, Exists
  <2>4. ASSUME request'[j].pc \in Transactions \union {"write"},
               <<request'[j].page, "likes">> \notin disturbed'
        PROVE  "likes" \notin request'[j].columns
    <3>1. /\ request[j].pc \in Transactions \union {"write"} /\ request'[j].page = p
          /\ request'[j].columns = request[j].columns
      BY <2>4 DEF Kept
    <3>2. Counted(p)
      BY <2>4, <3>1 DEF Counted
    <3> QED
      BY <2>1, <3>1, <3>2 DEF CopyAgrees
  <2> QED
    BY <2>2, <2>3, <2>4 DEF CopyAgrees, Counted, Exists
<1> QED
  BY <1>1, <1>2, <1>3

\* A step keeps the counts right if those of the pages it changes are, and if what
\* its own request goes on with agrees with the rows.
LEMMA LikesKept ==
  ASSUME TypeOK, LikeInv, NEW k \in Clients, NEW P,
         \A j \in Clients \ {k} : Kept(request[j], request'[j]),
         \A p \in Ids \ P : LikesStay(p),
         disturbed \subseteq disturbed',
         \A j \in Clients \ {k} : Held(j) \intersect P = {},
         \A j \in Clients \ {k} : request[j].pc \in Copies /\ request[j].page \in P =>
           <<request[j].page, "likes">> \in disturbed',
         \A p \in Ids \intersect P : page'[p] # NoPage /\ <<p, "likes">> \notin disturbed' =>
           page'[p].likes = Cardinality({l \in likes' : l.page = p}),
         LikesLive', LikerSees(k)', CopyAgrees(k)'
  PROVE  LikeInv'
<1>1. /\ \A j \in Clients \ {k} : LikerSees(j)' /\ CopyAgrees(j)'
      /\ \A p \in Ids \ P : page'[p] # NoPage /\ <<p, "likes">> \notin disturbed' =>
           page'[p].likes = Cardinality({l \in likes' : l.page = p})
  BY OthersLike
<1>2. \A j \in Clients : LikerSees(j)' /\ CopyAgrees(j)'
  BY <1>1
<1>3. LikesAreCounted'
  BY <1>1 DEF LikesAreCounted, LikesOf, Exists
<1> QED
  BY <1>2, <1>3 DEF LikeInv

\* A step that leaves pages and likes alone; only its own request is to be checked.
LEMMA QuietLikes ==
  ASSUME TypeOK, LikeInv, NEW k \in Clients,
         \A j \in Clients \ {k} : Kept(request[j], request'[j]),
         UNCHANGED <<page, likes, disturbed>>, LikerSees(k)', CopyAgrees(k)'
  PROVE  LikeInv'
<1> DEFINE P == {}
<1>1. \A p \in Ids \ P : LikesStay(p)
  BY DEF LikesStay
<1>2. /\ \A j \in Clients \ {k} : Held(j) \intersect P = {}
      /\ \A j \in Clients \ {k} : request[j].pc \in Copies /\ request[j].page \in P =>
           <<request[j].page, "likes">> \in disturbed'
      /\ \A p \in Ids \intersect P : page'[p] # NoPage /\ <<p, "likes">> \notin disturbed' =>
           page'[p].likes = Cardinality({l \in likes' : l.page = p})
  OBVIOUS
<1>3. LikesLive'
  BY DEF LikeInv, LikesLive, Exists
<1> HIDE DEF P
<1> QED
  BY <1>1, <1>2, <1>3, LikesKept

\* A request without a lock on a page and without a copy of one.
LEMMA SilentLikes ==
  ASSUME NEW k \in Clients, request'[k].pc \notin {"like", "unlike"} \union Copies \union Transactions
  PROVE  LikerSees(k)' /\ CopyAgrees(k)'
  BY DEF LikerSees, CopyAgrees, Copies

\* The likes of a page are as many as its count says, and finitely many.
LEMMA LikesOfPage ==
  ASSUME TypeOK, LikeInv, NEW p \in Ids
  PROVE  /\ IsFiniteSet(LikesOf(p)) /\ Cardinality(LikesOf(p)) \in Nat
         /\ Exists(p) /\ Counted(p) => page[p].likes = Cardinality(LikesOf(p))
<1>1. IsFiniteSet(LikesOf(p))
  BY FS_Subset DEF LikeInv, LikesLive, LikesOf
<1>2. Cardinality(LikesOf(p)) \in Nat
  BY <1>1, FS_CardinalityType
<1> QED
  BY <1>1, <1>2 DEF LikeInv, LikesAreCounted, Counted

\* What giving or taking back a like does under the lock.
LEMMA LockedLikes ==
  ASSUME TypeOK, LikeInv, Locking, NEW k \in Clients, LikeCommit(k) \/ UnlikeCommit(k),
         NEW n \in Nat, page' = [page EXCEPT ![request[k].page].likes = n],
         \A q \in Ids \ {request[k].page} :
           {l \in likes' : l.page = q} = {l \in likes : l.page = q},
         Counted(request[k].page) =>
           n = Cardinality({l \in likes' : l.page = request[k].page}),
         LikesLive'
  PROVE  LikeInv'
<1> DEFINE p == request[k].page
           P == {p}
<1>1. request[k] \in LikeRequests /\ p \in Ids /\ Held(k) = {p}
  BY RequestKinds DEF LikeCommit, UnlikeCommit, At, TypeOK, LikeRequests, Held
<1>2. page[p] \in PageRow
  BY <1>1 DEF LikeInv, LikerSees, LikeCommit, UnlikeCommit, At, Exists, TypeOK, PageTypes
<1>3. request'[k] = Idle /\ \A j \in Clients \ {k} : Kept(request[j], request'[j])
  BY GotoKeeps DEF LikeCommit, UnlikeCommit, Done
<1>4. LikerSees(k)' /\ CopyAgrees(k)'
  BY <1>3, SilentLikes DEF Idle, Copies, Transactions
<1>5. \A q \in Ids \ P : LikesStay(q)
  BY DEF LikesStay, TypeOK, PageTypes
<1>6. Disturb(k, p, {"likes"})
  BY DEF LikeCommit, UnlikeCommit
<1>7. disturbed \subseteq disturbed'
      /\ \A j \in Clients \ {k} : request[j].pc \in Copies /\ request[j].page \in P =>
           <<request[j].page, "likes">> \in disturbed'
  BY <1>6 DEF Disturb, HeldElsewhere
<1>8. \A j \in Clients \ {k} : Held(j) \intersect P = {}
  BY <1>1 DEF Locking
<1>9. page'[p].likes = n
  BY <1>1, <1>2 DEF TypeOK, PageTypes, PageRow
<1>10. \A q \in Ids \intersect P : page'[q] # NoPage /\ <<q, "likes">> \notin disturbed' =>
         page'[q].likes = Cardinality({l \in likes' : l.page = q})
  BY <1>7, <1>9 DEF Counted
<1> HIDE DEF P
<1> QED
  BY <1>3, <1>4, <1>5, <1>7, <1>8, <1>10, LikesKept

LEMMA LikeLikes ==
  ASSUME TypeOK, LikeInv, Locking, NEW k \in Clients, Liking(k)
  PROVE  LikeInv'
<1> DEFINE r == request[k]
<1>1. CASE \E u \in Users, p \in Ids, op \in {"like", "unlike"} : LikeStart(k, op, u, p)
  <2>1. /\ request'[k].pc = "lock" /\ UNCHANGED <<page, likes, disturbed>>
        /\ \A j \in Clients \ {k} : Kept(request[j], request'[j])
    BY <1>1, GotoKeeps DEF LikeStart, pageVars
  <2>2. LikerSees(k)' /\ CopyAgrees(k)'
    BY <2>1, SilentLikes DEF Copies, Transactions
  <2> QED
    BY <2>1, <2>2, QuietLikes
<1>2. CASE LikeLock(k)
  <2>1. UNCHANGED <<page, likes, disturbed>> /\ \A j \in Clients \ {k} : Kept(request[j], request'[j])
    BY <1>2, GotoKeeps DEF LikeLock, Done
  <2>2. r.op \in {"like", "unlike"}
    BY <1>2, RequestKinds DEF LikeLock, At, TypeOK, LockRequests
  <2>3. \/ request'[k] = Idle
        \/ /\ Exists(r.page) /\ ((\E l \in LikesOf(r.page) : l.user = r.user) <=> r.op = "unlike")
           /\ request'[k] = [pc |-> r.op, user |-> r.user, page |-> r.page, id |-> r.id,
                             row |-> page[r.page]]
    BY <1>2, <2>2, GotoKeeps DEF LikeLock, Done
  <2>4. LikerSees(k)' /\ CopyAgrees(k)'
    <3>1. CASE request'[k] = Idle
      BY <3>1, SilentLikes DEF Idle, Copies, Transactions
    <3>2. CASE request'[k] # Idle
      <4>1. CopyAgrees(k)'
        BY <2>2, <2>3, <3>2 DEF CopyAgrees, Copies, Transactions
      <4>2. LikerSees(k)'
        BY <2>1, <2>2, <2>3, <3>2 DEF LikerSees, LikesOf, Exists
      <4> QED
        BY <4>1, <4>2
    <3> QED
      BY <3>1, <3>2
  <2> QED
    BY <2>1, <2>4, QuietLikes
<1>3. CASE LikeCommit(k) \/ UnlikeCommit(k)
  <2> DEFINE p == r.page
  <2>1. r \in LikeRequests /\ p \in Ids /\ r.row \in PageRow
    BY <1>3, RequestKinds DEF LikeCommit, UnlikeCommit, At, TypeOK, LikeRequests
  <2>2. /\ Exists(p) /\ r.row.likes = page[p].likes /\ page[p].likes \in Nat
        /\ (\E l \in LikesOf(p) : l.user = r.user) <=> r.pc = "unlike"
    BY <1>3, <2>1 DEF LikeInv, LikerSees, LikesOf, LikeCommit, UnlikeCommit, At, PageRow
  <2>3. /\ IsFiniteSet(LikesOf(p)) /\ Cardinality(LikesOf(p)) \in Nat
        /\ Counted(p) => page[p].likes = Cardinality(LikesOf(p))
    BY <2>1, <2>2, LikesOfPage
  <2>4. \A q \in Ids : Exists(q) => page'[q] # NoPage
    <3>1. PICK n : page' = [page EXCEPT ![p].likes = n]
      BY <1>3 DEF LikeCommit, UnlikeCommit
    <3> QED
      BY <3>1 DEF Exists, TypeOK, PageTypes, PageRow, NoPage
  <2>5. CASE LikeCommit(k)
    <3> DEFINE m == [user |-> r.user, page |-> p, id |-> r.id]
               n == page[p].likes + 1
    <3>1. likes' = likes \union {m} /\ page' = [page EXCEPT ![p].likes = n] /\ n \in Nat
      BY <2>1, <2>2, <2>5 DEF LikeCommit, IncrementLikeCount, PageRow
    <3>2. m \notin likes /\ \A l \in likes : l.page = p => l.user # r.user
      BY <2>2, <2>5 DEF LikeCommit, At, LikesOf
    <3>3. {l \in likes' : l.page = p} = LikesOf(p) \union {m} /\ m \notin LikesOf(p)
      BY <3>1, <3>2 DEF LikesOf
    <3>4. Cardinality(LikesOf(p) \union {m}) = Cardinality(LikesOf(p)) + 1
      BY <2>3, <3>3, FS_AddElement
    <3>5. \A q \in Ids \ {p} : {l \in likes' : l.page = q} = {l \in likes : l.page = q}
      BY <3>1
    <3>6. IsFiniteSet(likes')
      BY <3>1, FS_AddElement DEF LikeInv, LikesLive
    <3>7. LikesLive'
      <4>1. \A l \in likes' : page'[l.page] # NoPage
        BY <2>1, <2>2, <2>4, <3>1 DEF LikeInv, LikesLive, Exists, TypeOK, PageTypes, LikeRow
      <4>2. \A l, i \in likes' : l.user = i.user /\ l.page = i.page => l = i
        BY <3>1, <3>2 DEF LikeInv, LikesLive
      <4> QED
        BY <3>6, <4>1, <4>2 DEF LikesLive, Exists
    <3> HIDE DEF m, n
    <3>8. Counted(p) => n = Cardinality({l \in likes' : l.page = p})
      BY <2>3, <3>3, <3>4 DEF n
    <3> QED
      BY <2>5, <3>1, <3>5, <3>7, <3>8, LockedLikes
  <2>6. CASE UnlikeCommit(k)
    <3> DEFINE n == IF page[p].likes > 0 THEN page[p].likes - 1 ELSE 0
    <3>1. /\ likes' = {l \in likes : ~ (l.user = r.user /\ l.page = p)}
          /\ page' = [page EXCEPT ![p].likes = n] /\ n \in Nat
      BY <2>1, <2>2, <2>6 DEF UnlikeCommit, DecrementLikeCount, PageRow
    <3>2. PICK m \in LikesOf(p) : m.user = r.user
      BY <2>2, <2>6 DEF UnlikeCommit, At
    <3>3. \A l \in likes : l.user = r.user /\ l.page = p => l = m
      BY <3>2 DEF LikeInv, LikesLive, LikesOf
    <3>4. {l \in likes' : l.page = p} = LikesOf(p) \ {m}
      BY <3>1, <3>2, <3>3 DEF LikesOf
    <3>5. Cardinality(LikesOf(p) \ {m}) = Cardinality(LikesOf(p)) - 1
      BY <2>3, <3>2, FS_RemoveElement
    <3>6. \A q \in Ids \ {p} : {l \in likes' : l.page = q} = {l \in likes : l.page = q}
      BY <3>1
    <3>7. IsFiniteSet(likes')
      BY <3>1, FS_Subset DEF LikeInv, LikesLive
    <3>8. LikesLive'
      <4>1. \A l \in likes' : page'[l.page] # NoPage
        BY <2>4, <3>1 DEF LikeInv, LikesLive, Exists, TypeOK, PageTypes, LikeRow
      <4>2. \A l, i \in likes' : l.user = i.user /\ l.page = i.page => l = i
        BY <3>1 DEF LikeInv, LikesLive
      <4> QED
        BY <3>7, <4>1, <4>2 DEF LikesLive, Exists
    <3>9. Counted(p) => n = Cardinality({l \in likes' : l.page = p})
      <4>1. Cardinality(LikesOf(p) \ {m}) \in Nat
        BY <2>3, FS_RemoveElement, FS_CardinalityType
      <4>2. Cardinality({l \in likes' : l.page = p}) = Cardinality(LikesOf(p) \ {m})
        BY <3>4
      <4> HIDE DEF p
      <4> QED
        BY <2>2, <2>3, <3>5, <4>1, <4>2
    <3> HIDE DEF n
    <3> QED
      BY <2>6, <3>1, <3>6, <3>8, <3>9, LockedLikes
  <2> QED
    BY <1>3, <2>5, <2>6
<1> QED
  BY <1>1, <1>2, <1>3 DEF Liking, LikeStep

\* A save leaves the count of likes alone, unless the page is disturbed.
LEMMA SavedLikes ==
  ASSUME TypeOK, LikeInv, Locking, NEW k \in Clients, Done(k), NEW p \in Ids, NEW row \in PageRow,
         page' = [page EXCEPT ![p] = row], UNCHANGED <<likes, disturbed>>, p \notin locked,
         Counted(p) => page[p] # NoPage /\ row.likes = page[p].likes
  PROVE  LikeInv'
<1>1. request'[k] = Idle /\ \A j \in Clients \ {k} : Kept(request[j], request'[j])
  BY GotoKeeps DEF Done
<1>2. LikerSees(k)' /\ CopyAgrees(k)'
  BY <1>1, SilentLikes DEF Idle, Copies, Transactions
<1>3. \A q \in Ids : page'[q] = IF q = p THEN row ELSE page[q]
  BY DEF TypeOK, PageTypes
<1>4. LikesLive'
  BY <1>3, RowTypes DEF LikeInv, LikesLive, Exists, TypeOK, PageTypes, LikeRow
<1>5. \A q \in Ids \ {p} : LikesStay(q)
  BY <1>3 DEF LikesStay
<1>6. CASE Counted(p)
  <2> DEFINE P == {}
  <2>1. LikesStay(p)
    BY <1>3, <1>6, RowTypes DEF LikesStay
  <2>2. \A q \in Ids \ P : LikesStay(q)
    BY <1>5, <2>1
  <2>3. /\ \A j \in Clients \ {k} : Held(j) \intersect P = {}
        /\ \A j \in Clients \ {k} : request[j].pc \in Copies /\ request[j].page \in P =>
             <<request[j].page, "likes">> \in disturbed'
        /\ \A q \in Ids \intersect P : page'[q] # NoPage /\ <<q, "likes">> \notin disturbed' =>
             page'[q].likes = Cardinality({l \in likes' : l.page = q})
    OBVIOUS
  <2> HIDE DEF P
  <2> QED
    BY <1>1, <1>2, <1>4, <2>2, <2>3, LikesKept
<1>7. CASE ~ Counted(p)
  <2> DEFINE P == {p}
  <2>1. \A q \in Ids \ P : LikesStay(q)
    BY <1>5
  <2>2. \A j \in Clients \ {k} : Held(j) \intersect P = {}
    BY DEF Locking
  <2>3. /\ \A j \in Clients \ {k} : request[j].pc \in Copies /\ request[j].page \in P =>
             <<request[j].page, "likes">> \in disturbed'
        /\ \A q \in Ids \intersect P : page'[q] # NoPage /\ <<q, "likes">> \notin disturbed' =>
             page'[q].likes = Cardinality({l \in likes' : l.page = q})
    BY <1>7 DEF Counted
  <2> HIDE DEF P
  <2> QED
    BY <1>1, <1>2, <1>4, <2>1, <2>2, <2>3, LikesKept
<1> QED
  BY <1>6, <1>7

LEMMA SaveLikes ==
  ASSUME TypeOK, LikeInv, Locking, NEW k \in Clients, Saving(k)
  PROVE  LikeInv'
<1> DEFINE r == request[k]
<1>1. ASSUME NEW p \in Ids, Exists(p), NEW row, NEW liked, row.likes = page[p].likes,
             Goto(k, [pc |-> "reload", page |-> p, row |-> row, likes |-> liked]),
             UNCHANGED <<page, likes, disturbed>>
      PROVE  LikeInv'
  <2>1. /\ request'[k] = [pc |-> "reload", page |-> p, row |-> row, likes |-> liked]
        /\ \A j \in Clients \ {k} : Kept(request[j], request'[j])
    BY <1>1, GotoKeeps
  <2>2. LikerSees(k)' /\ CopyAgrees(k)'
    BY <1>1, <2>1 DEF LikerSees, CopyAgrees, Exists, Transactions
  <2> QED
    BY <1>1, <2>1, <2>2, QuietLikes
<1>2. CASE \E u \in Users, p \in Ids : ViewStart(k, u, p) \/ EditStart(k, p)
  <2>1. PICK p \in Ids : Exists(p) /\ UNCHANGED <<page, likes, disturbed>>
           /\ \E row \in {Viewed(page[p]), Edited(page[p])} :
                Goto(k, [pc |-> "reload", page |-> p, row |-> row, likes |-> LikesOf(p)])
    BY <1>2 DEF ViewStart, EditStart, pageVars
  <2>2. page[p] \in PageRow
    BY <2>1 DEF Exists, TypeOK, PageTypes
  <2>3. Viewed(page[p]).likes = page[p].likes /\ Edited(page[p]).likes = page[p].likes
    BY <2>2 DEF Viewed, Edited, PageRow
  <2> QED
    BY <1>1, <2>1, <2>3
<1>3. CASE SaveReload(k)
  <2> DEFINE columns == Differing(r.row, page[r.page])
  <2>1. /\ UNCHANGED <<page, likes, disturbed>> /\ Exists(r.page) /\ r.pc = "reload"
        /\ \A j \in Clients \ {k} : Kept(request[j], request'[j])
        /\ \/ request'[k] = Idle
           \/ request'[k] = [pc |-> "write", page |-> r.page, row |-> r.row, columns |-> columns]
    BY <1>3, GotoKeeps DEF SaveReload, Done, At, pageVars
  <2>2. Counted(r.page) => r.row.likes = page[r.page].likes
    BY <2>1 DEF LikeInv, CopyAgrees, Copies
  <2>3. Counted(r.page) => "likes" \notin columns
    BY <2>2 DEF Differing
  <2>4. LikerSees(k)' /\ CopyAgrees(k)'
    <3>1. CASE request'[k] = Idle
      BY <3>1, SilentLikes DEF Idle, Copies, Transactions
    <3>2. CASE request'[k] = [pc |-> "write", page |-> r.page, row |-> r.row, columns |-> columns]
      <4> HIDE DEF columns
      <4>1. /\ request'[k].pc = "write" /\ request'[k].page = r.page
            /\ request'[k].row = r.row /\ request'[k].columns = columns
        BY <3>2
      <4> QED
        BY <2>1, <2>2, <2>3, <4>1 DEF LikerSees, CopyAgrees, Counted, Exists, Transactions
    <3> QED
      BY <2>1, <3>1, <3>2
  <2> QED
    BY <2>1, <2>4, QuietLikes
<1>4. ASSUME Done(k), UNCHANGED <<page, likes, disturbed>>
      PROVE  LikeInv'
  <2>1. request'[k] = Idle /\ \A j \in Clients \ {k} : Kept(request[j], request'[j])
    BY <1>4, GotoKeeps DEF Done
  <2>2. LikerSees(k)' /\ CopyAgrees(k)'
    BY <2>1, SilentLikes DEF Idle, Copies, Transactions
  <2> QED
    BY <1>4, <2>1, <2>2, QuietLikes
<1>5. CASE SaveInserts(k) /\ ~ UNCHANGED page
  <2> DEFINE row == [r.row EXCEPT !.regions = {}]
  <2>1. r \in ReloadRequests
    BY <1>5, RequestKinds DEF SaveInserts, At, TypeOK
  <2>2. r.page \in Ids /\ row \in PageRow
    BY <2>1, RowTypes DEF ReloadRequests
  <2>3. ~ Counted(r.page)
    BY <1>5 DEF SaveInserts, At, LikeInv, CopyAgrees, Copies
  <2>4. /\ page' = [page EXCEPT ![r.page] = row] /\ Done(k)
        /\ UNCHANGED <<likes, disturbed>> /\ r.page \notin locked
    BY <1>5 DEF SaveInserts
  <2> HIDE DEF row
  <2> QED
    BY <2>2, <2>3, <2>4, SavedLikes
<1>6. CASE SaveWrite(k) /\ ~ UNCHANGED page
  <2> DEFINE row == Written(page[r.page], r.row, r.columns)
  <2>1. r \in WriteRequests
    BY <1>6, RequestKinds DEF SaveWrite, At, TypeOK
  <2>2. /\ page' = [page EXCEPT ![r.page] = row] /\ Done(k) /\ Exists(r.page)
        /\ UNCHANGED <<likes, disturbed>> /\ r.page \notin locked
    BY <1>6 DEF SaveWrite
  <2>3. page[r.page] \in PageRow /\ r.row \in PageRow /\ r.page \in Ids
        /\ r.columns \in SUBSET SavedColumns
    BY <2>1, <2>2 DEF WriteRequests, Exists, TypeOK, PageTypes
  <2>4. row \in PageRow
    BY <2>3, WrittenTypes
  <2>5. Counted(r.page) => "likes" \notin r.columns
    BY <1>6 DEF SaveWrite, At, LikeInv, CopyAgrees
  <2>6. Counted(r.page) => row.likes = page[r.page].likes
    BY <2>3, <2>5 DEF Written, PageRow
  <2> HIDE DEF row
  <2> QED
    BY <2>2, <2>3, <2>4, <2>6, SavedLikes DEF Exists
<1> QED
  BY <1>2, <1>3, <1>4, <1>5, <1>6 DEF Saving, SaveStep, SaveInserts, SaveWrite

LEMMA BeginLikes ==
  ASSUME TypeOK, LikeInv, NEW k \in Clients, NEW u \in Users, NEW c \in Ids, Beginning(k, u, c)
  PROVE  LikeInv'
<1>1. page[c] \in PageRow /\ UNCHANGED <<page, likes, disturbed>>
  BY DEF Beginning, CompleteStart, DeleteCourseStart, IsCourse, Exists, TypeOK, PageTypes, pageVars
<1>2. PICK pc \in {"completionReload", "drop"}, row \in PageRow \union {NoPage} :
        /\ Begin(k, Transaction(pc, u, c, row))
        /\ pc = "completionReload" => row.likes = page[c].likes
  <2>1. ASSUME NEW done \in BOOLEAN
        PROVE  /\ [page[c] EXCEPT !.completed = done] \in PageRow
               /\ [page[c] EXCEPT !.completed = done].likes = page[c].likes
    BY <1>1 DEF PageRow
  <2> QED
    BY <2>1 DEF Beginning, CompleteStart, DeleteCourseStart
<1>3. /\ request'[k].pc = pc /\ request'[k].page = c /\ request'[k].row = row
      /\ request'[k].columns = {} /\ ~ request'[k].wrote
  <2> DEFINE t == Transaction(pc, u, c, row)
             a == Others(k, t.user) = {}
  <2>1. request'[k] = [t EXCEPT !.alone = a]
    BY <1>2, BeginKeeps
  <2>2. /\ t.pc = pc /\ t.wrote = FALSE /\ t.page = c /\ t.row = row /\ t.columns = {}
        /\ DOMAIN t = {"pc", "user", "page", "row", "columns", "wrote", "map", "missing", "cleared", "alone"}
    BY DEF Transaction
  <2> HIDE DEF t, a
  <2> QED
    BY <2>1, <2>2
<1>4. LikerSees(k)' /\ CopyAgrees(k)'
  BY <1>1, <1>2, <1>3, RowTypes DEF LikerSees, CopyAgrees, Copies, Exists
<1>5. \A j \in Clients \ {k} : Kept(request[j], request'[j])
  BY <1>2, BeginKeeps
<1> QED
  BY <1>1, <1>4, <1>5, QuietLikes

LEMMA WorkLikes ==
  ASSUME TypeOK, Shapes, LikeInv, NEW k \in Clients, Working(k)
  PROVE  LikeInv'
<1> DEFINE r == request[k]
<1>1. r \in TransactionRequests /\ r.pc \in Transactions /\ Shape(r)
  <2>1. r.pc \in Transactions
    BY DEF Working, CompletionReload, CompletionWrite, DropCourse, Sync, Tag, Clear, Cleared, Fill,
           At, Transactions
  <2> QED
    BY <2>1, RequestKinds DEF TypeOK, Shapes
<1>2. UNCHANGED <<page, likes, disturbed>>
  BY DEF Working, CompletionReload, CompletionWrite, DropCourse, Sync, Tag, Clear, Cleared, Fill, pageVars
<1>3. ASSUME NEW s, Goto(k, s), s.pc \notin {"like", "unlike"}, s.page = r.page,
             Counted(r.page) => "likes" \notin s.columns,
             s.pc \in Copies /\ Counted(r.page) => Exists(r.page) /\ s.row.likes = page[r.page].likes,
             s.wrote /\ s.row # NoPage /\ Counted(r.page) => Exists(r.page)
      PROVE  LikeInv'
  <2>1. request'[k] = s /\ \A j \in Clients \ {k} : Kept(request[j], request'[j])
    BY <1>3, GotoKeeps
  <2>2. LikerSees(k)' /\ CopyAgrees(k)'
    BY <1>2, <1>3, <2>1 DEF LikerSees, CopyAgrees, Counted, Exists
  <2> QED
    BY <1>2, <2>1, <2>2, QuietLikes
<1>4. ASSUME Done(k)
      PROVE  LikeInv'
  <2>1. request'[k] = Idle /\ \A j \in Clients \ {k} : Kept(request[j], request'[j])
    BY <1>4, GotoKeeps DEF Done
  <2>2. LikerSees(k)' /\ CopyAgrees(k)'
    BY <2>1, SilentLikes DEF Idle, Copies, Transactions
  <2> QED
    BY <1>2, <2>1, <2>2, QuietLikes
<1>5. /\ Counted(r.page) => "likes" \notin r.columns
      /\ r.pc \in Copies /\ Counted(r.page) => Exists(r.page) /\ r.row.likes = page[r.page].likes
      /\ r.wrote /\ r.row # NoPage /\ Counted(r.page) => Exists(r.page)
  BY <1>1 DEF LikeInv, CopyAgrees
<1>6. CASE CompletionReload(k)
  <2>1. r.row \in PageRow /\ ~ r.wrote /\ r.pc \in Copies
    BY <1>1, <1>6 DEF CompletionReload, At, Shape, Copies, TransactionRequests
  <2>2. CASE Exists(r.page)
    <3> DEFINE columns == Differing(r.row, page[r.page])
               s(pc) == [r EXCEPT !.pc = pc, !.columns = columns]
    <3>1. PICK pc \in {"sync", "completionWrite"} : Goto(k, s(pc))
      BY <1>6, <2>2 DEF CompletionReload
    <3>2. Counted(r.page) => "likes" \notin columns
      BY <1>5, <2>1 DEF Differing
    <3> HIDE DEF columns
    <3>3. /\ s(pc).pc = pc /\ s(pc).page = r.page /\ s(pc).columns = columns
          /\ s(pc).row = r.row /\ s(pc).wrote = r.wrote
      BY <1>1 DEF TransactionRequests
    <3>4. Counted(r.page) => Exists(r.page) /\ r.row.likes = page[r.page].likes
      BY <1>5, <2>1
    <3> HIDE DEF s
    <3> QED
      BY <1>3, <2>1, <2>2, <3>1, <3>2, <3>3, <3>4
  <2>3. CASE ~ Exists(r.page)
    <3> DEFINE s == [r EXCEPT !.pc = "sync", !.wrote = TRUE, !.row.regions = {}, !.row.tagged = {}]
    <3>1. Goto(k, s) /\ ~ Counted(r.page)
      BY <1>5, <1>6, <2>1, <2>3 DEF CompletionReload
    <3>2. s.pc = "sync" /\ s.page = r.page
      BY <1>1 DEF TransactionRequests
    <3> HIDE DEF s
    <3> QED
      BY <1>3, <3>1, <3>2
  <2> QED
    BY <2>2, <2>3
<1>7. CASE CompletionWrite(k) \/ DropCourse(k)
  <2> DEFINE s == [r EXCEPT !.pc = "sync", !.wrote = TRUE]
             t == [r EXCEPT !.pc = "sync"]
  <2>1. /\ s.pc = "sync" /\ s.page = r.page /\ s.wrote = TRUE /\ s.row = r.row
        /\ s.columns = r.columns
        /\ t.pc = "sync" /\ t.page = r.page /\ t.wrote = r.wrote /\ t.row = r.row
        /\ t.columns = r.columns
    BY <1>1 DEF TransactionRequests
  <2>2. Goto(k, t) \/ (Goto(k, s) /\ Exists(r.page))
    BY <1>7 DEF CompletionWrite, DropCourse, Advance
  <2> HIDE DEF s, t
  <2> QED
    BY <1>3, <1>5, <2>1, <2>2 DEF Copies
<1>8. CASE Sync(k) \/ Tag(k) \/ Clear(k) \/ Cleared(k) \/ Fill(k)
  <2> DEFINE Same(s) == /\ s.pc \in {"clear", "tag", "clearing", "fill", "commit"}
                        /\ s.page = r.page /\ s.wrote = r.wrote /\ s.row = r.row
                        /\ s.columns = r.columns
             synced(pc, map, missing) == [r EXCEPT !.pc = pc, !.map = map, !.missing = missing]
             clearing(cleared) == [r EXCEPT !.pc = "clearing", !.cleared = cleared]
             on(pc) == [r EXCEPT !.pc = pc]
  <2>1. /\ \A pc \in {"clear", "tag"} : \A map, missing : Same(synced(pc, map, missing))
        /\ \A cleared : Same(clearing(cleared))
        /\ \A pc \in {"clear", "fill", "commit"} : Same(on(pc))
    BY <1>1 DEF TransactionRequests
  <2>2. \/ Done(k)
        \/ \E pc \in {"clear", "tag"} : \E map, missing : Goto(k, synced(pc, map, missing))
        \/ \E cleared : Goto(k, clearing(cleared))
        \/ \E pc \in {"clear", "fill", "commit"} : Goto(k, on(pc))
    BY <1>8 DEF Sync, Tag, Clear, Cleared, Fill, Advance
  <2>3. Done(k) \/ \E s : Goto(k, s) /\ Same(s)
    <3> HIDE DEF synced, clearing, on, Same
    <3> QED
      BY <2>1, <2>2
  <2> QED
    BY <1>3, <1>4, <1>5, <2>3 DEF Copies
<1> QED
  BY <1>6, <1>7, <1>8 DEF Working

\* A commit gives its course the count it found, and takes the likes of what it
\* dropped along.
LEMMA CommitLikes ==
  ASSUME TypeOK, Shapes, LikeInv, Locking, NEW k \in Clients, Committing(k)
  PROVE  LikeInv'
<1> DEFINE r == request[k]
           P == LockedBy(r)
<1>1. Commit(k) /\ r \in TransactionRequests /\ r.pc = "commit" /\ Held(k) = P
  BY CommitPage DEF Committing, Commit, At, Held, Transactions
<1>2. request'[k] = Idle /\ \A j \in Clients \ {k} : Kept(request[j], request'[j])
  BY <1>1, CommitRequests, CommitKeeps
<1>3. LikerSees(k)' /\ CopyAgrees(k)'
  BY <1>2, SilentLikes DEF Idle, Copies, Transactions
<1>4. /\ r.wrote => r.page \in P
      /\ \A p \in P : r.wrote /\ (p \in Gone(r) \/ (p = r.page /\ r.row # NoPage))
      /\ Gone(r) \subseteq P
  BY DEF LockedBy, Gone
<1>5. /\ likes' = {l \in likes : l.page \notin Gone(r)}
      /\ disturbed' = disturbed \union
           ({p \in {r.page} \union Gone(r) : r.wrote /\ HeldElsewhere(k, p)} \X {"likes", "completed"})
  BY <1>1, CommitPage
<1>6. \A p \in Ids \ P : LikesStay(p)
  <2> SUFFICES ASSUME NEW p \in Ids \ P PROVE LikesStay(p)
    OBVIOUS
  <2>1. ASSUME page'[p] # NoPage PROVE page[p] # NoPage /\ page'[p].likes = page[p].likes
    <3>1. ~ (p = r.page /\ r.wrote)
      BY <1>4
    <3>2. page[p] \in PageRow /\ Seen(r)[p] = page[p] /\ page'[p].likes = Seen(r)[p].likes
      BY <1>1, <2>1, <3>1, CommitRow
    <3> QED
      BY <3>2, RowTypes
  <2>2. page[p] # NoPage => page'[p] # NoPage
    <3>1. p \in Ids /\ p \notin Gone(r)
      BY <1>4
    <3>2. \A q \in Ids : page[q] # NoPage /\ q \notin Gone(r) => page'[q] # NoPage
      BY <1>1, CommitLeaves
    <3> QED
      BY <3>1, <3>2
  <2>3. {l \in likes' : l.page = p} = {l \in likes : l.page = p}
    BY <1>4, <1>5
  <2> QED
    BY <2>1, <2>2, <2>3 DEF LikesStay
<1>7. disturbed \subseteq disturbed'
  BY <1>5
<1>8. \A j \in Clients \ {k} : request[j].pc \in Copies /\ request[j].page \in P =>
        <<request[j].page, "likes">> \in disturbed'
  BY <1>4, <1>5 DEF HeldElsewhere
<1>9. \A j \in Clients \ {k} : Held(j) \intersect P = {}
  BY <1>1 DEF Locking
<1>10. ASSUME NEW p \in Ids \intersect P, page'[p] # NoPage, <<p, "likes">> \notin disturbed'
       PROVE  page'[p].likes = Cardinality({l \in likes' : l.page = p})
  <2>1. p \notin Gone(r) /\ page'[p].likes = Seen(r)[p].likes
    BY <1>1, <1>10, CommitRow
  <2>2. r.wrote /\ p = r.page /\ r.row # NoPage /\ Counted(p)
    BY <1>4, <1>7, <1>10, <2>1 DEF Counted
  <2>3. page[p] # NoPage /\ "likes" \notin r.columns
    BY <1>1, <2>2 DEF LikeInv, CopyAgrees, Transactions, Exists
  <2>4. page[p] \in PageRow /\ Seen(r)[p] = Written(page[p], r.row, r.columns)
    BY <1>1, <1>10, <2>2, <2>3, CommitRow
  <2>5. page'[p].likes = page[p].likes
    BY <2>1, <2>3, <2>4 DEF Written, PageRow
  <2>6. {l \in likes' : l.page = p} = LikesOf(p)
    BY <1>5, <2>1 DEF LikesOf
  <2> QED
    BY <2>2, <2>3, <2>5, <2>6 DEF LikeInv, LikesAreCounted, Counted, Exists
<1>11. LikesLive'
  <2>1. IsFiniteSet(likes')
    BY <1>5, FS_Subset DEF LikeInv, LikesLive
  <2>2. ASSUME NEW l \in likes'
        PROVE  page'[l.page] # NoPage
    <3>1. l \in likes /\ l.page \notin Gone(r) /\ l.page \in Ids
      BY <1>5 DEF TypeOK, PageTypes, LikeRow
    <3>2. page[l.page] # NoPage
      BY <3>1 DEF LikeInv, LikesLive, Exists
    <3>3. \A p \in Ids : page[p] # NoPage /\ p \notin Gone(r) => page'[p] # NoPage
      BY <1>1, CommitLeaves
    <3> QED
      BY <3>1, <3>2, <3>3
  <2>3. likes' \subseteq likes
    BY <1>5
  <2> QED
    BY <2>1, <2>2, <2>3 DEF LikeInv, LikesLive, Exists
<1> HIDE DEF P
<1> QED
  BY <1>2, <1>3, <1>6, <1>7, <1>8, <1>9, <1>10, <1>11, LikesKept

LEMMA PublishLikes ==
  ASSUME TypeOK, Shapes, Agreed, Named, LikeInv, Locking, NEW k \in Clients, Publishing(k)
  PROVE  LikeInv'
<1> DEFINE r == request[k]
<1>1. /\ request'[k].pc \in {"idle", "copy", "blog", "deleteBlog"}
      /\ \A j \in Clients \ {k} : Kept(request[j], request'[j])
  <2>1. CASE \E u \in Users, c \in Ids :
               CopyStart(k, u, c) \/ BlogStart(k, u, c) \/ DeleteBlogStart(k, u, c)
    BY <2>1, GotoKeeps DEF CopyStart, BlogStart, DeleteBlogStart
  <2>2. CASE Copy(k) \/ Blog(k) \/ DeleteBlog(k)
    BY <2>2, GotoKeeps DEF Copy, Blog, DeleteBlog, Done, Idle
  <2> QED
    BY <2>1, <2>2 DEF Publishing
<1>2. LikerSees(k)' /\ CopyAgrees(k)'
  BY <1>1, SilentLikes DEF Copies, Transactions
<1>3. CASE UNCHANGED <<page, likes, disturbed>>
  BY <1>1, <1>2, <1>3, QuietLikes
<1>4. CASE (Copy(k) \/ Blog(k)) /\ Insert(r.row)
  <2> DEFINE p == made'
             P == {p}
  <2>1. r.row \in PageRow /\ r.row.likes = 0 /\ UNCHANGED <<likes, disturbed>>
    BY <1>4, RequestKinds DEF Copy, Blog, At, TypeOK, InsertRequests, Shapes, Shape
  <2>2. p \in Ids /\ p = made + 1 /\ made \in Nat /\ page' = [page EXCEPT ![p] = r.row]
    BY <1>4, <2>1, InsertTypes, BoundsAssumption DEF TypeOK, Ids
  <2>3. \A f \in Facts : f.page # p
    BY <2>2 DEF Agreed
  <2>4. page[p] = NoPage
    BY <2>2, <2>3, PageFacts DEF Fact
  <2>5. \A q \in Ids : page'[q] = IF q = p THEN r.row ELSE page[q]
    BY <2>2 DEF TypeOK, PageTypes
  <2>6. {l \in likes' : l.page = p} = {}
    BY <2>1, <2>2, <2>4 DEF LikeInv, LikesLive, Exists
  <2>7. \A q \in Ids \ P : LikesStay(q)
    BY <2>1, <2>5 DEF LikesStay
  <2>8. ASSUME NEW j \in Clients \ {k}
        PROVE  Held(j) \intersect P = {} /\ ~ (request[j].pc \in Copies /\ request[j].page \in P)
    <3>1. request[j].pc \in Copies => request[j].page # p
      <4>1. CASE request[j].pc \in {"reload", "write"}
        <5>1. request[j].row \in PageRow
          BY <4>1, RequestKinds DEF TypeOK, ReloadRequests, WriteRequests
        <5> QED
          BY <2>3, <4>1, <5>1, RowTypes, PageFacts DEF HoldsRow, Copies, Fact
      <4>2. CASE request[j].pc \in Transactions
        BY <2>2, <4>2 DEF Named, NamedBy, IsAlwaysCourseOf
      <4> QED
        BY <4>1, <4>2 DEF Copies, Transactions
    <3>2. request[j].pc \in {"like", "unlike"} => request[j].page # p
      BY <2>4 DEF LikeInv, LikerSees, Exists
    <3>3. request[j].pc \in Transactions => request[j].page # p /\ p \notin BlogsOf(request[j].page)
      BY <2>2, <2>4 DEF Named, NamedBy, IsAlwaysCourseOf, BlogsOf, Exists
    <3> QED
      BY <3>1, <3>2, <3>3 DEF Held, LockedBy
  <2>9. LikesLive'
    BY <2>1, <2>5, RowTypes DEF LikeInv, LikesLive, Exists, TypeOK, PageTypes, LikeRow
  <2>10. \A q \in Ids \intersect P : page'[q] # NoPage /\ <<q, "likes">> \notin disturbed' =>
           page'[q].likes = Cardinality({l \in likes' : l.page = q})
    BY <2>1, <2>5, <2>6, FS_EmptySet
  <2> HIDE DEF P
  <2> QED
    BY <1>1, <1>2, <2>1, <2>7, <2>8, <2>9, <2>10, LikesKept
<1>5. CASE DeleteBlog(k)
  <2> DEFINE p == r.page
             P == {p}
  <2>1. /\ p \in Ids /\ p \notin locked /\ Disturb(k, p, {"likes", "completed"})
        /\ likes' = {l \in likes : l.page # p}
    BY <1>5, RequestKinds DEF DeleteBlog, At, TypeOK, DeleteBlogRequests, LikesOf
  <2>2. \A q \in Ids : page'[q] = IF q = p THEN NoPage ELSE page[q]
    BY <1>5 DEF DeleteBlog, TypeOK, PageTypes
  <2>3. \A q \in Ids \ P : LikesStay(q)
    BY <2>1, <2>2 DEF LikesStay
  <2>4. \A j \in Clients \ {k} : Held(j) \intersect P = {}
    BY <2>1 DEF Locking
  <2>5. disturbed \subseteq disturbed'
        /\ \A j \in Clients \ {k} : request[j].pc \in Copies /\ request[j].page \in P =>
             <<request[j].page, "likes">> \in disturbed'
    BY <2>1 DEF Disturb, HeldElsewhere
  <2>6. LikesLive'
    <3>1. IsFiniteSet(likes')
      BY <2>1, FS_Subset DEF LikeInv, LikesLive
    <3> QED
      BY <2>1, <2>2, <3>1 DEF LikeInv, LikesLive, Exists, TypeOK, PageTypes, LikeRow
  <2>7. \A q \in Ids \intersect P : page'[q] # NoPage /\ <<q, "likes">> \notin disturbed' =>
           page'[q].likes = Cardinality({l \in likes' : l.page = q})
    BY <2>2
  <2> HIDE DEF P
  <2> QED
    BY <1>1, <1>2, <2>3, <2>4, <2>5, <2>6, <2>7, LikesKept
<1> QED
  BY <1>3, <1>4, <1>5 DEF Publishing, CopyStart, BlogStart, DeleteBlogStart, Copy, Blog, pageVars

LEMMA InitLikes ==
  ASSUME Init
  PROVE  LikeInv
<1>1. PICK w \in Workloads : workload = w
  BY DEF Init
<1>2. page = w.page /\ likes = {} /\ disturbed = {} /\ \A k \in Clients : request[k] = Idle
  BY <1>1 DEF Init
<1>3. LikesLive
  BY <1>2, FS_EmptySet DEF LikesLive
<1>4. LikesAreCounted
  <2>1. \A p \in Ids : LikesOf(p) = {} /\ Cardinality(LikesOf(p)) = 0
    BY <1>2, FS_EmptySet DEF LikesOf
  <2> QED
    BY <1>1, <1>2, <2>1, WorkloadAssumption DEF LikesAreCounted, Exists
<1> QED
  BY <1>2, <1>3, <1>4 DEF LikeInv, LikerSees, CopyAgrees, Copies, Transactions, Idle

LEMMA NextLikes ==
  ASSUME TypeOK, Shapes, Agreed, Named, Locking, LikeInv, [Next]_vars
  PROVE  LikeInv'
<1>1. CASE UNCHANGED vars
  BY <1>1 DEF vars, pageVars, LikeInv, LikesLive, LikesAreCounted, LikerSees, CopyAgrees, Counted,
              Exists, LikesOf
<1>2. CASE Next
  <2>1. PICK k \in Clients :
           \/ Liking(k) \/ Saving(k) \/ (\E u \in Users, c \in Ids : Beginning(k, u, c))
           \/ Working(k) \/ Committing(k) \/ Publishing(k)
    BY <1>2, NextCases
  <2> QED
    BY <2>1, LikeLikes, SaveLikes, BeginLikes, WorkLikes, CommitLikes, PublishLikes
<1> QED
  BY <1>1, <1>2

\* The like count of every page that is not disturbed is the number of its likes,
\* through likes, saves, completions and deletions in any order.
THEOREM LikesCorrect == Spec => []LikesAreCounted
<1>1. Init => TypeOK /\ Shapes /\ Agreed /\ Named /\ Locking /\ LikeInv
  BY InitTypes, InitFacts, InitLocking, InitLikes
<1>2. TypeOK /\ Shapes /\ Agreed /\ Named /\ Locking /\ LikeInv /\ [Next]_vars
        => (TypeOK /\ Shapes /\ Agreed /\ Named /\ Locking /\ LikeInv)'
  BY NextTypes, NextFacts, NextLocking, NextLikes
<1>3. LikeInv => LikesAreCounted
  BY DEF LikeInv
<1> QED
  BY <1>1, <1>2, <1>3, PTL DEF Spec

-----------------------------------------------------------------------------
(* Visited countries.  What a transaction computes it computes from the    *)
(* rows it sees, so the invariant says that what a transaction sees stays  *)
(* what it was until it commits: for a transaction that overlaps no other  *)
(* of its user, and as long as no copy older than a completion may still   *)
(* be saved.                                                               *)

\* No copy older than the last completion of a course may still be saved.
Undisturbed == \A c \in Ids : <<c, "completed">> \notin disturbed

\* What u sees of a page in the list of visited countries.
CountsFor(u, row) == row # NoPage /\ row.course = 0 /\ row.owner = u /\ row.completed

Alike(u, a, b) ==
  /\ CountsFor(u, a) <=> CountsFor(u, b)
  /\ CountsFor(u, a) => a.date = b.date /\ CountriesOf(a) = CountriesOf(b)

\* A transaction that says it is alone is the only one of its user.
AloneIsAlone ==
  \A j, k \in Clients :
    j # k /\ request[j].pc \in Transactions /\ request[j].alone =>
      ~ InTransaction(k, request[j].user)

\* What may be saved keeps the course completed or not, as it is; the countries to
\* be tagged are of the regions of their course.
CompletionAgrees(k) ==
  LET r == request[k]
  IN /\ r.pc \in Copies => Exists(r.page)
     /\ r.pc = "reload" => r.row.completed = page[r.page].completed
     /\ r.pc = "write" => "completed" \notin r.columns
     /\ r.pc \in Transactions /\ r.wrote /\ r.row # NoPage => Exists(r.page)
     /\ r.pc \in Transactions =>
          \A m \in r.missing : Exists(m[1]) => m[2] \in page[m[1]].regions

\* The dates and countries an overlapped by none transaction goes on with are those
\* it would read now.
AloneSees(k) ==
  LET r == request[k]
  IN r.pc \in Transactions /\ r.alone =>
       /\ r.pc \in {"tag", "clear", "clearing", "fill", "commit"} =>
            r.map = VisitDates(Seen(r), r.user)
       /\ r.pc \in {"clearing", "fill", "commit"} => r.cleared = VisitedIn(visited[r.user])

Visited(u) ==
  alone[u] => /\ visited[u] = VisitDates(page, u)
              /\ counted[u] = Cardinality(VisitedIn(visited[u]))

VisitInv ==
  Undisturbed => /\ \A k \in Clients : CompletionAgrees(k) /\ AloneSees(k)
                 /\ \A u \in Users : Visited(u)

-----------------------------------------------------------------------------
(* What the dates depend on                                                *)

LEMMA AlikeDates ==
  ASSUME NEW rows, NEW others, NEW u, \A p \in Ids : Alike(u, rows[p], others[p])
  PROVE  VisitDates(rows, u) = VisitDates(others, u)
<1>1. Completed(rows, u) = Completed(others, u)
  BY DEF Completed, Alike, CountsFor
<1>2. \A c \in Completed(rows, u) :
        rows[c].date = others[c].date /\ CountriesOf(rows[c]) = CountriesOf(others[c])
  BY DEF Completed, Alike, CountsFor
<1> QED
  BY <1>1, <1>2, SameVisitDates

\* A row and what is made of it by changes of other columns.
LEMMA AlikeRows ==
  ASSUME NEW a \in PageRow, NEW b \in PageRow, NEW u,
         a.course = b.course, a.owner = b.owner, a.completed = b.completed, a.date = b.date,
         CountriesOf(a) = CountriesOf(b)
  PROVE  Alike(u, a, b)
  BY RowTypes DEF Alike, CountsFor

LEMMA AlikeRefl ==
  ASSUME NEW a, NEW u
  PROVE  Alike(u, a, a)
  BY DEF Alike

LEMMA AlikeTrans ==
  ASSUME NEW a, NEW b, NEW c, NEW u, Alike(u, a, b), Alike(u, b, c)
  PROVE  Alike(u, a, c)
  BY DEF Alike

\* What a transaction sees, but for what it wrote, is what is there.
LEMMA SeenRows ==
  ASSUME TypeOK, NEW r \in TransactionRequests, NEW p \in Ids
  PROVE  Seen(r)[p] = IF r.wrote /\ p = r.page THEN Own(r) ELSE page[p]
  BY DEF Seen, TypeOK, PageTypes

\* What others do changes nothing a lone transaction sees, if the rows of its user
\* stay alike and the one it wrote stays as it is.
LEMMA SameSeen ==
  ASSUME TypeOK, TypeOK', NEW r \in TransactionRequests,
         \A p \in Ids : Alike(r.user, page'[p], page[p]),
         r.wrote => page'[r.page] = page[r.page]
  PROVE  VisitDates(Seen(r)', r.user) = VisitDates(Seen(r), r.user)
<1>1. \A p \in Ids : Seen(r)[p] = IF r.wrote /\ p = r.page THEN Own(r) ELSE page[p]
  BY SeenRows
<1>2. \A p \in Ids : Seen(r)'[p] = IF r.wrote /\ p = r.page THEN Own(r)' ELSE page'[p]
  BY DEF Seen, TypeOK, PageTypes
<1>3. r.wrote => Own(r)' = Own(r)
  BY DEF Own, Exists
<1>4. \A p \in Ids : Alike(r.user, Seen(r)'[p], Seen(r)[p])
  BY <1>1, <1>2, <1>3, AlikeRefl
<1> QED
  BY <1>4, AlikeDates

-----------------------------------------------------------------------------
(* Transactions that overlap                                               *)

LEMMA AloneKept ==
  ASSUME AloneIsAlone, NEW k \in Clients,
         \A j \in Clients \ {k} : Kept(request[j], request'[j]),
         \A j \in Clients \ {k} :
           request'[j].pc \in Transactions /\ request'[j].alone => request[j].alone,
         request'[k].pc \in Transactions =>
           /\ request[k].pc \in Transactions /\ request'[k].user = request[k].user
           /\ request'[k].alone = request[k].alone
  PROVE  AloneIsAlone'
<1>1. ASSUME NEW j \in Clients, request'[j].pc \in Transactions
      PROVE  /\ request[j].pc \in Transactions /\ request'[j].user = request[j].user
             /\ request'[j].alone => request[j].alone
  BY <1>1 DEF Kept
<1> QED
  BY <1>1 DEF AloneIsAlone, InTransaction

LEMMA BeginAlone ==
  ASSUME TypeOK, AloneIsAlone, NEW k \in Clients, NEW u \in Users, NEW c \in Ids, Beginning(k, u, c)
  PROVE  /\ AloneIsAlone'
         /\ \A j \in Clients \ {k} :
              request'[j].pc \in Transactions /\ request'[j].alone => request'[j] = request[j]
<1>1. PICK pc, row : Begin(k, Transaction(pc, u, c, row)) /\ pc \in Transactions
  BY DEF Beginning, CompleteStart, DeleteCourseStart, Transactions
<1> DEFINE t == Transaction(pc, u, c, row)
           a == Others(k, t.user) = {}
<1>2. /\ request'[k] = [t EXCEPT !.alone = a]
      /\ \A j \in Clients \ {k} :
           /\ Kept(request[j], request'[j])
           /\ request'[j] = IF j \in Others(k, t.user) THEN [request[j] EXCEPT !.alone = FALSE]
                            ELSE request[j]
  BY <1>1, BeginKeeps
<1>3. t.user = u
  BY DEF Transaction
<1>4. request'[k].user = u /\ request'[k].alone = a
  <2>1. DOMAIN t = {"pc", "user", "page", "row", "columns", "wrote", "map", "missing", "cleared", "alone"}
    BY DEF Transaction
  <2> HIDE DEF t, a
  <2> QED
    BY <1>2, <1>3, <2>1
<1>5. ASSUME NEW j \in Clients \ {k}, request'[j].pc \in Transactions
      PROVE  /\ request[j].pc \in Transactions /\ request'[j].user = request[j].user
             /\ request[j].user = u => ~ request'[j].alone /\ ~ a
             /\ request'[j].alone => request'[j] = request[j]
  <2>1. request[j].pc \in Transactions /\ request'[j].user = request[j].user
    BY <1>2, <1>5 DEF Kept
  <2>2. request[j] \in TransactionRequests
    BY <2>1, RequestKinds DEF TypeOK
  <2>3. j \in Others(k, u) <=> request[j].user = u
    BY <2>1 DEF Others, InTransaction
  <2>4. j \in Others(k, u) => ~ request'[j].alone
    BY <1>2, <1>3, <2>2 DEF TransactionRequests
  <2>5. j \notin Others(k, u) => request'[j] = request[j]
    BY <1>2, <1>3
  <2>6. j \in Others(k, u) => ~ a
    BY <1>3
  <2> QED
    BY <2>1, <2>3, <2>4, <2>5, <2>6
<1> HIDE DEF a, t
<1>6. AloneIsAlone'
  <2> SUFFICES ASSUME NEW i \in Clients, NEW j \in Clients, i # j,
                      request'[i].pc \in Transactions, request'[i].alone,
                      request'[j].pc \in Transactions, request'[j].user = request'[i].user
               PROVE  FALSE
    BY DEF AloneIsAlone, InTransaction
  <2>1. CASE i = k
    BY <1>4, <1>5, <2>1
  <2>2. CASE j = k
    BY <1>4, <1>5, <2>2
  <2>3. CASE i # k /\ j # k
    BY <1>5, <2>3 DEF AloneIsAlone, InTransaction
  <2> QED
    BY <2>1, <2>2, <2>3
<1> QED
  BY <1>5, <1>6

\* A transaction that goes on stays the same user's, alone or not as it was.
LEMMA WorkAlone ==
  ASSUME TypeOK, AloneIsAlone, NEW k \in Clients, Working(k)
  PROVE  AloneIsAlone'
<1> DEFINE r == request[k]
           Same(s) == s.user = r.user /\ s.alone = r.alone
<1>1. r \in TransactionRequests /\ r.pc \in Transactions
  <2>1. r.pc \in Transactions
    BY DEF Working, CompletionReload, CompletionWrite, DropCourse, Sync, Tag, Clear, Cleared, Fill,
           At, Transactions
  <2> QED
    BY <2>1, RequestKinds DEF TypeOK
<1> DEFINE reload(pc, columns) == [r EXCEPT !.pc = pc, !.columns = columns]
           again == [r EXCEPT !.pc = "sync", !.wrote = TRUE, !.row.regions = {}, !.row.tagged = {}]
           written == [r EXCEPT !.pc = "sync", !.wrote = TRUE]
           synced(pc, map, missing) == [r EXCEPT !.pc = pc, !.map = map, !.missing = missing]
           clearing(cleared) == [r EXCEPT !.pc = "clearing", !.cleared = cleared]
           on(pc) == [r EXCEPT !.pc = pc]
<1>2. /\ \A pc, columns : Same(reload(pc, columns))
      /\ Same(again) /\ Same(written)
      /\ \A pc, map, missing : Same(synced(pc, map, missing))
      /\ \A cleared : Same(clearing(cleared))
      /\ \A pc : Same(on(pc))
  BY <1>1 DEF TransactionRequests
<1>3. \/ Done(k)
      \/ \E pc, columns : Goto(k, reload(pc, columns))
      \/ Goto(k, again) \/ Goto(k, written)
      \/ \E pc, map, missing : Goto(k, synced(pc, map, missing))
      \/ \E cleared : Goto(k, clearing(cleared))
      \/ \E pc : Goto(k, on(pc))
  BY DEF Working, CompletionReload, CompletionWrite, DropCourse, Sync, Tag, Clear, Cleared, Fill, Advance
<1>4. Done(k) \/ \E s : Goto(k, s) /\ Same(s)
  <2> HIDE DEF reload, again, written, synced, clearing, on, Same
  <2> QED
    BY <1>2, <1>3
<1>5. \E s : Goto(k, s) /\ (s.pc \in Transactions => Same(s))
  BY <1>4 DEF Done, Idle, Transactions
<1>6. PICK s : Goto(k, s) /\ (s.pc \in Transactions => Same(s))
  BY <1>5
<1>7. request'[k] = s
      /\ \A j \in Clients \ {k} : request'[j] = request[j] /\ Kept(request[j], request'[j])
  BY <1>6, GotoKeeps
<1> QED
  BY <1>1, <1>6, <1>7, AloneKept

LEMMA NextAlone ==
  ASSUME TypeOK, AloneIsAlone, [Next]_vars
  PROVE  AloneIsAlone'
<1>1. CASE UNCHANGED vars
  BY <1>1 DEF vars, AloneIsAlone, InTransaction
<1>2. CASE Next
  <2>1. PICK k \in Clients :
           \/ Liking(k) \/ Saving(k) \/ (\E u \in Users, c \in Ids : Beginning(k, u, c))
           \/ Working(k) \/ Committing(k) \/ Publishing(k)
    BY <1>2, NextCases
  <2>2. ASSUME request'[k].pc \in {"idle", "lock", "like", "unlike", "reload", "write", "copy",
                                   "blog", "deleteBlog"},
               \A j \in Clients \ {k} : request'[j] = request[j]
        PROVE  AloneIsAlone'
    <3>1. request'[k].pc \notin Transactions
      BY <2>2 DEF Transactions
    <3> QED
      BY <2>2, <3>1, AloneKept DEF Kept
  <2>3. CASE Liking(k)
    <3>1. CASE LikeLock(k)
      <4>1. request[k].op \in {"like", "unlike"}
        BY <3>1, RequestKinds DEF LikeLock, At, TypeOK, LockRequests
      <4> QED
        BY <2>2, <3>1, <4>1, GotoKeeps DEF LikeLock, Done, Idle
    <3>2. CASE LikeCommit(k) \/ UnlikeCommit(k)
      BY <2>2, <3>2, GotoKeeps DEF LikeCommit, UnlikeCommit, Done, Idle
    <3>3. CASE \E u \in Users, p \in Ids, op \in {"like", "unlike"} : LikeStart(k, op, u, p)
      BY <2>2, <3>3, GotoKeeps DEF LikeStart
    <3> QED
      BY <2>3, <3>1, <3>2, <3>3 DEF Liking, LikeStep
  <2>4. CASE Saving(k)
    <3>1. CASE \E u \in Users, p \in Ids : ViewStart(k, u, p) \/ EditStart(k, p)
      BY <2>2, <3>1, GotoKeeps DEF ViewStart, EditStart
    <3>2. CASE SaveStep(k)
      BY <2>2, <3>2, GotoKeeps DEF SaveStep, SaveReload, SaveInserts, SaveWrite, Done, Idle
    <3> QED
      BY <2>4, <3>1, <3>2 DEF Saving
  <2>5. CASE Publishing(k)
    <3>1. CASE \E u \in Users, c \in Ids :
                 CopyStart(k, u, c) \/ BlogStart(k, u, c) \/ DeleteBlogStart(k, u, c)
      BY <2>2, <3>1, GotoKeeps DEF CopyStart, BlogStart, DeleteBlogStart
    <3>2. CASE Copy(k) \/ Blog(k) \/ DeleteBlog(k)
      BY <2>2, <3>2, GotoKeeps DEF Copy, Blog, DeleteBlog, Done, Idle
    <3> QED
      BY <2>5, <3>1, <3>2 DEF Publishing
  <2>6. CASE Committing(k)
    <3>1. request'[k] = Idle
          /\ \A j \in Clients \ {k} :
               request'[j] = IF j \in Others(k, request[k].user) /\ request[j].pc = "clearing"
                               THEN [request[j] EXCEPT !.cleared = @ \ request[k].cleared]
                               ELSE request[j]
      BY <2>6, CommitRequests DEF Committing
    <3>2. \A j \in Clients \ {k} : Kept(request[j], request'[j])
      BY <2>6, CommitKeeps DEF Committing
    <3>3. ASSUME NEW j \in Clients \ {k}, request'[j].pc \in Transactions, request'[j].alone
          PROVE  request[j].alone
      <4>1. CASE request'[j] = request[j]
        BY <3>3, <4>1
      <4>2. CASE request[j].pc = "clearing"
        <5>1. request[j] \in TransactionRequests
          BY <4>2, RequestKinds DEF TypeOK, Transactions
        <5> QED
          BY <3>1, <3>3, <5>1 DEF TransactionRequests
      <4> QED
        BY <3>1, <4>1, <4>2
    <3> QED
      BY <3>1, <3>2, <3>3, AloneKept DEF Idle, Transactions
  <2>7. CASE \E u \in Users, c \in Ids : Beginning(k, u, c)
    BY <2>7, BeginAlone
  <2>8. CASE Working(k)
    BY <2>8, WorkAlone
  <2> QED
    BY <2>1, <2>3, <2>4, <2>5, <2>6, <2>7, <2>8
<1> QED
  BY <1>1, <1>2

-----------------------------------------------------------------------------
(* What the others see stays what it is                                    *)

\* What a step has to leave alone, of which other requests rely on.
LEMMA OthersVisits ==
  ASSUME TypeOK, TypeOK', Named, VisitInv, Undisturbed, NEW k \in Clients,
         \A j \in Clients \ {k} : Kept(request[j], request'[j]),
         \A p \in 1..made : page'[p] # NoPage =>
           page[p] # NoPage /\ page'[p].regions = page[p].regions,
         \A j \in Clients \ {k} :
           /\ \/ request[j].pc \in Copies
              \/ request[j].pc \in Transactions /\ request[j].wrote
           /\ page[request[j].page] # NoPage
           => /\ page'[request[j].page] # NoPage
              /\ page'[request[j].page].completed = page[request[j].page].completed,
         \A j \in Clients \ {k} : request'[j].pc \in Transactions /\ request'[j].alone =>
           /\ request'[j] = request[j]
           /\ visited'[request[j].user] = visited[request[j].user]
           /\ \A p \in Ids : Alike(request[j].user, page'[p], page[p])
           /\ request[j].wrote => page'[request[j].page] = page[request[j].page]
  PROVE  \A j \in Clients \ {k} : CompletionAgrees(j)' /\ AloneSees(j)'
<1> SUFFICES ASSUME NEW j \in Clients \ {k} PROVE CompletionAgrees(j)' /\ AloneSees(j)'
  OBVIOUS
<1>1. CompletionAgrees(j) /\ AloneSees(j)
  BY DEF VisitInv
<1>2. ASSUME request'[j].pc \in Copies
      PROVE  page'[request'[j].page] # NoPage
  <2>1. request[j].pc \in Copies /\ request'[j].page = request[j].page
    BY <1>2 DEF Kept
  <2> QED
    BY <1>1, <2>1 DEF CompletionAgrees, Exists
<1>3. ASSUME request'[j].pc = "reload"
      PROVE  request'[j].row.completed = page'[request'[j].page].completed
  <2>1. request'[j] = request[j] /\ request[j].pc = "reload"
    BY <1>3 DEF Kept, TransactionRequests, Transactions
  <2>2. request[j].pc \in Copies
    BY <2>1 DEF Copies
  <2>3. page[request[j].page] # NoPage
    BY <1>1, <2>2 DEF CompletionAgrees, Exists
  <2>4. page'[request[j].page].completed = page[request[j].page].completed
    BY <2>2, <2>3
  <2> QED
    BY <1>1, <2>1, <2>4 DEF CompletionAgrees
<1>4. ASSUME request'[j].pc = "write"
      PROVE  "completed" \notin request'[j].columns
  <2>1. request'[j] = request[j] /\ request[j].pc = "write"
    BY <1>4 DEF Kept, TransactionRequests, Transactions
  <2> QED
    BY <1>1, <2>1 DEF CompletionAgrees
<1>5. ASSUME request'[j].pc \in Transactions, request'[j].wrote, request'[j].row # NoPage
      PROVE  page'[request'[j].page] # NoPage
  <2>1. /\ request[j].pc \in Transactions /\ request[j].wrote /\ request[j].row # NoPage
        /\ request'[j].page = request[j].page
    BY <1>5 DEF Kept
  <2> QED
    BY <1>1, <2>1 DEF CompletionAgrees, Exists
<1>6. ASSUME request'[j].pc \in Transactions, NEW m \in request'[j].missing, page'[m[1]] # NoPage
      PROVE  m[2] \in page'[m[1]].regions
  <2>1. request[j].pc \in Transactions /\ request'[j].missing = request[j].missing
    BY <1>6 DEF Kept
  <2>2. m[1] \in 1..made
    BY <1>6, <2>1 DEF Named, NamedBy, IsAlwaysCourseOf
  <2>3. page[m[1]] # NoPage /\ page'[m[1]].regions = page[m[1]].regions
    BY <1>6, <2>2
  <2> QED
    BY <1>1, <1>6, <2>1, <2>3 DEF CompletionAgrees, Exists
<1>7. CompletionAgrees(j)'
  BY <1>2, <1>3, <1>4, <1>5, <1>6 DEF CompletionAgrees, Exists
<1>8. AloneSees(j)'
  <2> SUFFICES ASSUME request'[j].pc \in Transactions, request'[j].alone PROVE AloneSees(j)'
    BY DEF AloneSees
  <2>1. PICK r : r = request[j]
    OBVIOUS
  <2>2. /\ request'[j] = r /\ visited'[r.user] = visited[r.user]
        /\ \A p \in Ids : Alike(r.user, page'[p], page[p])
        /\ r.wrote => page'[r.page] = page[r.page]
    BY <2>1
  <2>3. r \in TransactionRequests
    BY <2>1, <2>2, RequestKinds DEF TypeOK
  <2>4. VisitDates(Seen(r)', r.user) = VisitDates(Seen(r), r.user)
    BY <2>2, <2>3, SameSeen
  <2>5. /\ r.pc \in {"tag", "clear", "clearing", "fill", "commit"} =>
             r.map = VisitDates(Seen(r), r.user)
        /\ r.pc \in {"clearing", "fill", "commit"} => r.cleared = VisitedIn(visited[r.user])
    BY <1>1, <2>1, <2>2 DEF AloneSees
  <2>6. VisitedIn(visited'[r.user]) = VisitedIn(visited[r.user])
    BY <2>2
  <2>7. /\ r.pc \in {"tag", "clear", "clearing", "fill", "commit"} =>
             r.map = VisitDates(Seen(r)', r.user)
        /\ r.pc \in {"clearing", "fill", "commit"} => r.cleared = VisitedIn(visited'[r.user])
    BY <2>4, <2>5, <2>6
  <2> QED
    BY <2>2, <2>7 DEF AloneSees, Seen, Own, Exists, VisitedIn
<1> QED
  BY <1>7, <1>8

\* The list of a user whose rows stay alike.
LEMMA SameVisited ==
  ASSUME NEW u \in Users, Visited(u),
         visited'[u] = visited[u], counted'[u] = counted[u], alone'[u] = alone[u],
         \A p \in Ids : Alike(u, page'[p], page[p])
  PROVE  Visited(u)'
<1>1. VisitDates(page', u) = VisitDates(page, u)
  BY AlikeDates
<1> QED
  BY <1>1 DEF Visited, VisitedIn

\* A step that leaves the rows alone; only its own request is to be checked.
LEMMA QuietVisits ==
  ASSUME TypeOK, TypeOK', Named, VisitInv, Undisturbed, NEW k \in Clients,
         \A j \in Clients \ {k} : Kept(request[j], request'[j]),
         \A j \in Clients \ {k} :
           request'[j].pc \in Transactions /\ request'[j].alone => request'[j] = request[j],
         UNCHANGED <<page, visited, counted, alone>>,
         CompletionAgrees(k)', AloneSees(k)'
  PROVE  VisitInv'
<1>1. \A j \in Clients \ {k} : CompletionAgrees(j)' /\ AloneSees(j)'
  BY OthersVisits, AlikeRefl
<1>2. \A u \in Users : Visited(u)'
  BY SameVisited, AlikeRefl DEF VisitInv
<1> QED
  BY <1>1, <1>2 DEF VisitInv

\* A request that has no copy and is no transaction.
LEMMA SilentVisits ==
  ASSUME NEW k \in Clients, request'[k].pc \notin Copies \union Transactions
  PROVE  CompletionAgrees(k)' /\ AloneSees(k)'
  BY DEF CompletionAgrees, AloneSees, Copies

\* A step that changes one row, in columns the list does not depend on, and that
\* no transaction has locked.
LEMMA ColumnVisits ==
  ASSUME TypeOK, TypeOK', Named, Locking, VisitInv, Undisturbed, NEW k \in Clients,
         NEW p \in Ids, NEW row \in PageRow, page[p] \in PageRow, page' = [page EXCEPT ![p] = row],
         row.course = page[p].course, row.owner = page[p].owner,
         row.completed = page[p].completed, row.date = page[p].date,
         row.regions = page[p].regions, row.tagged = page[p].tagged,
         \A j \in Clients \ {k} : p \notin Held(j),
         \A j \in Clients \ {k} : request'[j] = request[j],
         request'[k] = Idle, UNCHANGED <<visited, counted, alone>>
  PROVE  VisitInv'
<1>1. \A q \in Ids : page'[q] = IF q = p THEN row ELSE page[q]
  BY DEF TypeOK, PageTypes
<1>2. ASSUME NEW q \in Ids, NEW u
      PROVE  Alike(u, page'[q], page[q])
  <2>1. CASE q = p
    <3>1. CountriesOf(row) = CountriesOf(page[p])
      BY DEF CountriesOf
    <3> QED
      BY <1>1, <2>1, <3>1, AlikeRows
  <2>2. CASE q # p
    BY <1>1, <2>2, AlikeRefl
  <2> QED
    BY <2>1, <2>2
<1>3. row # NoPage /\ page[p] # NoPage
  BY RowTypes
<1>4. \A q \in Ids :
        /\ page[q] # NoPage => page'[q] # NoPage /\ page'[q].completed = page[q].completed
        /\ page'[q] # NoPage => page[q] # NoPage /\ page'[q].regions = page[q].regions
  BY <1>1, <1>3
<1>5. 1..made \subseteq Ids
  BY BoundsAssumption DEF TypeOK, Ids
<1>6. ASSUME NEW j \in Clients \ {k}
      PROVE  request[j].pc \in Copies \union Transactions => request[j].page \in Ids
  BY RequestKinds DEF Copies, Transactions, TypeOK, ReloadRequests, WriteRequests, TransactionRequests
<1>7. ASSUME NEW j \in Clients \ {k}, request[j].pc \in Transactions, request[j].wrote
      PROVE  page'[request[j].page] = page[request[j].page]
  <2>1. request[j].page \in Held(j)
    BY <1>7 DEF Held, LockedBy, Transactions
  <2> QED
    BY <1>1, <1>6, <1>7, <2>1
<1>8. \A j \in Clients \ {k} : Kept(request[j], request'[j])
  BY DEF Kept
<1>9. \A j \in Clients \ {k} : CompletionAgrees(j)' /\ AloneSees(j)'
  BY <1>2, <1>4, <1>5, <1>6, <1>7, <1>8, OthersVisits
<1>10. \A u \in Users : Visited(u)'
  BY <1>2, SameVisited DEF VisitInv
<1>11. CompletionAgrees(k)' /\ AloneSees(k)'
  BY SilentVisits DEF Idle, Copies, Transactions
<1> QED
  BY <1>9, <1>10, <1>11 DEF VisitInv

LEMMA LikeVisits ==
  ASSUME TypeOK, TypeOK', Named, Locking, LikeInv, VisitInv, Undisturbed, NEW k \in Clients, Liking(k)
  PROVE  VisitInv'
<1> DEFINE r == request[k]
<1>1. UNCHANGED <<visited, counted, alone>>
  BY DEF Liking, visitVars
<1>2. CASE ~ (LikeCommit(k) \/ UnlikeCommit(k))
  <2>1. request'[k].pc \in {"idle", "lock", "like", "unlike"} /\ UNCHANGED page
        /\ \A j \in Clients \ {k} : request'[j] = request[j] /\ Kept(request[j], request'[j])
    <3>1. CASE LikeLock(k)
      <4>1. r.op \in {"like", "unlike"}
        BY <3>1, RequestKinds DEF LikeLock, At, TypeOK, LockRequests
      <4> QED
        BY <3>1, <4>1, GotoKeeps DEF LikeLock, Done, Idle
    <3>2. CASE \E u \in Users, p \in Ids, op \in {"like", "unlike"} : LikeStart(k, op, u, p)
      BY <3>2, GotoKeeps DEF LikeStart, pageVars
    <3> QED
      BY <1>2, <3>1, <3>2 DEF Liking, LikeStep
  <2>2. CompletionAgrees(k)' /\ AloneSees(k)'
    BY <2>1, SilentVisits DEF Copies, Transactions
  <2> QED
    BY <1>1, <2>1, <2>2, QuietVisits
<1>3. CASE LikeCommit(k) \/ UnlikeCommit(k)
  <2>1. PICK n \in Nat : page' = [page EXCEPT ![r.page].likes = n]
    <3>1. r.row.likes \in Nat
      BY <1>3, RequestKinds DEF LikeCommit, UnlikeCommit, At, TypeOK, LikeRequests, PageRow
    <3>2. IncrementLikeCount(r.row).likes \in Nat /\ DecrementLikeCount(r.row).likes \in Nat
      BY <1>3, <3>1, RequestKinds
         DEF LikeCommit, UnlikeCommit, At, TypeOK, LikeRequests, PageRow,
             IncrementLikeCount, DecrementLikeCount
    <3> QED
      BY <1>3, <3>2 DEF LikeCommit, UnlikeCommit
  <2> DEFINE row == [page[r.page] EXCEPT !.likes = n]
  <2>2. r.page \in Ids /\ page[r.page] \in PageRow /\ Held(k) = {r.page}
    BY <1>3, RequestKinds DEF LikeCommit, UnlikeCommit, At, TypeOK, LikeRequests, Held, LikeInv,
       LikerSees, Exists, PageTypes
  <2>3. row \in PageRow
    BY <2>2, RowTypes
  <2>4. /\ row.course = page[r.page].course /\ row.owner = page[r.page].owner
        /\ row.completed = page[r.page].completed /\ row.date = page[r.page].date
        /\ row.regions = page[r.page].regions /\ row.tagged = page[r.page].tagged
    BY <2>2 DEF PageRow
  <2>5. page' = [page EXCEPT ![r.page] = row]
    BY <2>1
  <2>6. request'[k] = Idle /\ \A j \in Clients \ {k} : request'[j] = request[j]
    BY <1>3, GotoKeeps DEF LikeCommit, UnlikeCommit, Done
  <2>7. \A j \in Clients \ {k} : r.page \notin Held(j)
    BY <2>2 DEF Locking
  <2> HIDE DEF row
  <2> QED
    BY <1>1, <2>2, <2>3, <2>4, <2>5, <2>6, <2>7, ColumnVisits
<1> QED
  BY <1>2, <1>3

LEMMA SaveVisits ==
  ASSUME TypeOK, TypeOK', Named, Locking, VisitInv, Undisturbed, NEW k \in Clients, Saving(k)
  PROVE  VisitInv'
<1> DEFINE r == request[k]
<1>1. UNCHANGED <<visited, counted, alone>>
  BY DEF Saving, visitVars
<1>2. CompletionAgrees(k)
  BY DEF VisitInv
<1>3. \A j \in Clients \ {k} : request'[j] = request[j] /\ Kept(request[j], request'[j])
  <2>1. CASE \E u \in Users, p \in Ids : ViewStart(k, u, p) \/ EditStart(k, p)
    BY <2>1, GotoKeeps DEF ViewStart, EditStart
  <2>2. CASE SaveStep(k)
    BY <2>2, GotoKeeps DEF SaveStep, SaveReload, SaveInserts, SaveWrite, Done
  <2> QED
    BY <2>1, <2>2 DEF Saving
<1>4. CASE \E u \in Users, p \in Ids : ViewStart(k, u, p) \/ EditStart(k, p)
  <2>1. PICK p \in Ids : Exists(p) /\ UNCHANGED page
           /\ \E row \in {Viewed(page[p]), Edited(page[p])} :
                Goto(k, [pc |-> "reload", page |-> p, row |-> row, likes |-> LikesOf(p)])
    BY <1>4 DEF ViewStart, EditStart, pageVars
  <2>2. page[p] \in PageRow
    BY <2>1 DEF Exists, TypeOK, PageTypes
  <2>3. Viewed(page[p]).completed = page[p].completed /\ Edited(page[p]).completed = page[p].completed
    BY <2>2 DEF Viewed, Edited, PageRow
  <2>4. /\ request'[k].pc = "reload" /\ request'[k].page = p
        /\ request'[k].row.completed = page[p].completed
    BY <2>1, <2>3, GotoKeeps
  <2>5. CompletionAgrees(k)' /\ AloneSees(k)'
    BY <2>1, <2>4 DEF CompletionAgrees, AloneSees, Exists, Transactions
  <2> QED
    BY <1>1, <1>3, <2>1, <2>5, QuietVisits
<1>5. CASE SaveReload(k)
  <2> DEFINE columns == Differing(r.row, page[r.page])
  <2>1. /\ UNCHANGED page /\ Exists(r.page) /\ r.pc = "reload"
        /\ \/ request'[k] = Idle
           \/ request'[k] = [pc |-> "write", page |-> r.page, row |-> r.row, columns |-> columns]
    BY <1>5, GotoKeeps DEF SaveReload, Done, At, pageVars
  <2>2. "completed" \notin columns
    BY <1>2, <2>1 DEF CompletionAgrees, Differing
  <2>3. CompletionAgrees(k)' /\ AloneSees(k)'
    <3>1. CASE request'[k] = Idle
      BY <3>1, SilentVisits DEF Idle, Copies, Transactions
    <3>2. CASE request'[k] = [pc |-> "write", page |-> r.page, row |-> r.row, columns |-> columns]
      <4> HIDE DEF columns
      <4>1. request'[k].pc = "write" /\ request'[k].page = r.page /\ request'[k].columns = columns
        BY <3>2
      <4> QED
        BY <2>1, <2>2, <4>1 DEF CompletionAgrees, AloneSees, Exists, Transactions
    <3> QED
      BY <2>1, <3>1, <3>2
  <2> QED
    BY <1>1, <1>3, <2>1, <2>3, QuietVisits
<1>6. CASE SaveInserts(k)
  BY <1>2, <1>6 DEF SaveInserts, At, CompletionAgrees, Copies
<1>7. CASE SaveWrite(k)
  <2> DEFINE row == Written(page[r.page], r.row, r.columns)
  <2>1. r \in WriteRequests /\ r.pc = "write"
    BY <1>7, RequestKinds DEF SaveWrite, At, TypeOK
  <2>2. Exists(r.page) /\ "completed" \notin r.columns
    BY <1>2, <2>1 DEF CompletionAgrees, Copies
  <2>3. /\ page' = [page EXCEPT ![r.page] = row] /\ request'[k] = Idle /\ r.page \notin locked
    BY <1>7, <2>2, GotoKeeps DEF SaveWrite, Done
  <2>4. page[r.page] \in PageRow /\ r.row \in PageRow /\ r.page \in Ids
        /\ r.columns \in SUBSET SavedColumns
    BY <2>1, <2>2 DEF WriteRequests, Exists, TypeOK, PageTypes
  <2>5. row \in PageRow
    BY <2>4, WrittenTypes
  <2>6. /\ row.course = page[r.page].course /\ row.owner = page[r.page].owner
        /\ row.completed = page[r.page].completed /\ row.date = page[r.page].date
        /\ row.regions = page[r.page].regions /\ row.tagged = page[r.page].tagged
    BY <2>2, <2>4 DEF Written, PageRow, SavedColumns
  <2>7. \A j \in Clients \ {k} : r.page \notin Held(j)
    BY <2>3 DEF Locking
  <2> HIDE DEF row
  <2> QED
    BY <1>1, <1>3, <2>3, <2>4, <2>5, <2>6, <2>7, ColumnVisits
<1> QED
  BY <1>4, <1>5, <1>6, <1>7 DEF Saving, SaveStep

LEMMA BeginVisits ==
  ASSUME TypeOK, TypeOK', Named, AloneIsAlone, VisitInv, Undisturbed, NEW k \in Clients,
         NEW u \in Users, NEW c \in Ids, Beginning(k, u, c)
  PROVE  VisitInv'
<1>1. page[c] # NoPage /\ UNCHANGED <<page, visited, counted, alone>>
  BY DEF Beginning, CompleteStart, DeleteCourseStart, IsCourse, Exists, pageVars, visitVars
<1>2. PICK pc \in {"completionReload", "drop"} : \E row : Begin(k, Transaction(pc, u, c, row))
  BY DEF Beginning, CompleteStart, DeleteCourseStart
<1>3. PICK row : Begin(k, Transaction(pc, u, c, row))
  BY <1>2
<1>4. /\ request'[k].pc = pc /\ request'[k].page = c /\ request'[k].missing = {}
      /\ ~ request'[k].wrote
  <2> DEFINE t == Transaction(pc, u, c, row)
             a == Others(k, t.user) = {}
  <2>1. request'[k] = [t EXCEPT !.alone = a]
    BY <1>3, BeginKeeps
  <2>2. /\ t.pc = pc /\ t.wrote = FALSE /\ t.page = c /\ t.missing = {}
        /\ DOMAIN t = {"pc", "user", "page", "row", "columns", "wrote", "map", "missing", "cleared", "alone"}
    BY DEF Transaction
  <2> HIDE DEF t, a
  <2> QED
    BY <2>1, <2>2
<1>5. CompletionAgrees(k)' /\ AloneSees(k)'
  BY <1>1, <1>4 DEF CompletionAgrees, AloneSees, Exists
<1>6. \A j \in Clients \ {k} : Kept(request[j], request'[j])
  BY <1>3, BeginKeeps
<1>7. \A j \in Clients \ {k} :
        request'[j].pc \in Transactions /\ request'[j].alone => request'[j] = request[j]
  BY BeginAlone
<1> QED
  BY <1>1, <1>5, <1>6, <1>7, QuietVisits

\* What the list is computed from is tagged with countries of its own regions.
LEMMA SyncMissing ==
  ASSUME TypeOK, NEW k \in Clients, request[k] \in TransactionRequests,
         CompletionAgrees(k), request[k].pc \in Transactions,
         NEW c \in Ids, Seen(request[k])[c] # NoPage, page[c] # NoPage,
         NEW x \in Seen(request[k])[c].regions
  PROVE  x \in page[c].regions
<1> DEFINE r == request[k]
<1>1. CASE ~ (r.wrote /\ c = r.page)
  BY <1>1, SeenRows
<1>2. CASE r.wrote /\ c = r.page
  <2>1. Seen(r)[c] = Own(r)
    BY <1>2, SeenRows
  <2>2. CASE r.row = NoPage
    BY <2>1, <2>2 DEF Own
  <2>3. CASE r.row # NoPage
    <3>1. /\ r.row \in PageRow /\ page[c] \in PageRow /\ r.columns \in SUBSET SavedColumns
      BY <2>3 DEF TransactionRequests, TypeOK, PageTypes
    <3>2. Own(r) = Written(page[c], r.row, r.columns)
      BY <1>2, <2>3 DEF Own, Exists
    <3>3. Own(r).regions = page[c].regions
      BY <3>1, <3>2 DEF Written, PageRow, SavedColumns
    <3> QED
      BY <2>1, <3>3
  <2> QED
    BY <2>2, <2>3
<1> QED
  BY <1>1, <1>2

LEMMA WorkVisits ==
  ASSUME TypeOK, TypeOK', Shapes, Named, VisitInv, Undisturbed, NEW k \in Clients, Working(k)
  PROVE  VisitInv'
<1> DEFINE r == request[k]
<1>1. r \in TransactionRequests /\ r.pc \in Transactions /\ Shape(r)
  <2>1. r.pc \in Transactions
    BY DEF Working, CompletionReload, CompletionWrite, DropCourse, Sync, Tag, Clear, Cleared, Fill,
           At, Transactions
  <2> QED
    BY <2>1, RequestKinds DEF TypeOK, Shapes
<1>2. UNCHANGED <<page, visited, counted, alone>>
  BY DEF Working, CompletionReload, CompletionWrite, DropCourse, Sync, Tag, Clear, Cleared, Fill,
     pageVars, visitVars
<1>3. CompletionAgrees(k) /\ AloneSees(k)
  BY DEF VisitInv
<1>4. /\ r.pc \in Copies => page[r.page] # NoPage
      /\ r.wrote /\ r.row # NoPage => page[r.page] # NoPage
      /\ \A m \in r.missing : page[m[1]] # NoPage => m[2] \in page[m[1]].regions
  BY <1>1, <1>3 DEF CompletionAgrees, Exists
<1>5. ASSUME NEW s, Goto(k, s), s.pc \in Transactions, s.page = r.page,
             s.pc \in Copies => page[s.page] # NoPage,
             s.wrote /\ s.row # NoPage => page[s.page] # NoPage,
             \A m \in s.missing : page[m[1]] # NoPage => m[2] \in page[m[1]].regions,
             s.alone /\ s.pc \in {"tag", "clear", "clearing", "fill", "commit"} =>
               s.map = VisitDates(Seen(s), s.user),
             s.alone /\ s.pc \in {"clearing", "fill", "commit"} =>
               s.cleared = VisitedIn(visited[s.user])
      PROVE  VisitInv'
  <2>1. request'[k] = s
        /\ \A j \in Clients \ {k} : request'[j] = request[j] /\ Kept(request[j], request'[j])
    BY <1>5, GotoKeeps
  <2>2. CompletionAgrees(k)'
    BY <1>2, <1>5, <2>1 DEF CompletionAgrees, Exists, Transactions
  <2>3. Seen(request[k])' = Seen(s)
    BY <1>2, <2>1 DEF Seen, Own, Exists
  <2>4. AloneSees(k)'
    BY <1>2, <1>5, <2>1, <2>3 DEF AloneSees
  <2> QED
    BY <1>2, <2>1, <2>2, <2>4, QuietVisits
<1>6. ASSUME Done(k)
      PROVE  VisitInv'
  <2>1. request'[k] = Idle
        /\ \A j \in Clients \ {k} : request'[j] = request[j] /\ Kept(request[j], request'[j])
    BY <1>6, GotoKeeps DEF Done
  <2>2. CompletionAgrees(k)' /\ AloneSees(k)'
    BY <2>1, SilentVisits DEF Idle, Copies, Transactions
  <2> QED
    BY <1>2, <2>1, <2>2, QuietVisits
<1>7. ASSUME NEW s, s.page = r.page, s.user = r.user, s.row = r.row, s.wrote = r.wrote,
             s.columns = r.columns
      PROVE  Seen(s) = Seen(r)
  BY <1>7 DEF Seen, Own
<1>8. CASE CompletionReload(k)
  <2> DEFINE s(pc, columns) == [r EXCEPT !.pc = pc, !.columns = columns]
  <2>1. r.pc = "completionReload" /\ page[r.page] # NoPage /\ ~ r.wrote
    BY <1>1, <1>4, <1>8 DEF CompletionReload, At, Copies, Shape
  <2>2. PICK pc \in {"sync", "completionWrite"} : \E columns : Goto(k, s(pc, columns))
    BY <1>8, <2>1 DEF CompletionReload, Exists
  <2>3. PICK columns : Goto(k, s(pc, columns))
    BY <2>2
  <2> DEFINE t == s(pc, columns)
  <2>4. /\ t.pc = pc /\ t.page = r.page /\ t.missing = r.missing /\ pc \in Transactions
    BY <1>1 DEF TransactionRequests, Transactions
  <2> HIDE DEF s
  <2> QED
    BY <1>4, <1>5, <2>1, <2>3, <2>4
<1>9. CASE CompletionWrite(k) \/ DropCourse(k)
  <2> DEFINE s == [r EXCEPT !.pc = "sync", !.wrote = TRUE]
             t == [r EXCEPT !.pc = "sync"]
  <2>1. /\ s.pc = "sync" /\ s.page = r.page /\ s.row = r.row /\ s.missing = r.missing
        /\ t.pc = "sync" /\ t.page = r.page /\ t.wrote = r.wrote /\ t.row = r.row
        /\ t.missing = r.missing /\ "sync" \in Transactions /\ "sync" \notin Copies
    BY <1>1 DEF TransactionRequests, Transactions, Copies
  <2>2. Goto(k, t) \/ (Goto(k, s) /\ Exists(r.page))
    BY <1>9 DEF CompletionWrite, DropCourse, Advance
  <2> HIDE DEF s, t
  <2> QED
    BY <1>4, <1>5, <2>1, <2>2 DEF Exists
<1>10. CASE Sync(k)
  <2> DEFINE rows == Seen(r)
             map == VisitDates(rows, r.user)
             missing == UNION {{c} \X (rows[c].regions \ rows[c].tagged) : c \in Completed(rows, r.user)}
             s(pc) == [r EXCEPT !.pc = pc, !.map = map, !.missing = missing]
  <2>1. PICK pc \in {"clear", "tag"} : Goto(k, s(pc))
    BY <1>10 DEF Sync, VisitedBy
  <2>2. ASSUME NEW m \in missing, page[m[1]] # NoPage
        PROVE  m[2] \in page[m[1]].regions
    <3>1. PICK c \in Completed(rows, r.user) : m \in {c} \X (rows[c].regions \ rows[c].tagged)
      OBVIOUS
    <3>2. m[1] = c /\ m[2] \in rows[c].regions /\ c \in Ids /\ rows[c] # NoPage
      BY <3>1 DEF Completed
    <3> HIDE DEF missing, rows
    <3> QED
      BY <1>1, <1>3, <2>2, <3>2, SyncMissing DEF rows
  <2> HIDE DEF map, missing, rows
  <2>3. /\ s(pc).pc = pc /\ s(pc).page = r.page /\ s(pc).wrote = r.wrote /\ s(pc).row = r.row
        /\ s(pc).columns = r.columns /\ s(pc).user = r.user /\ s(pc).alone = r.alone
        /\ s(pc).map = map /\ s(pc).missing = missing
    BY <1>1 DEF TransactionRequests
  <2> HIDE DEF s
  <2>4. Seen(s(pc)) = rows
    BY <1>7, <2>3 DEF rows
  <2>5. pc \in Transactions /\ pc \notin Copies
    BY DEF Transactions, Copies
  <2> QED
    BY <1>4, <1>5, <2>1, <2>2, <2>3, <2>4, <2>5 DEF map
<1>11. CASE Clear(k)
  <2> DEFINE cleared == VisitedIn(visited[r.user])
             s == [r EXCEPT !.pc = "clearing", !.cleared = cleared]
  <2>1. Goto(k, s) /\ r.pc = "clear"
    BY <1>11 DEF Clear, At
  <2> HIDE DEF cleared
  <2>2. /\ s.pc = "clearing" /\ s.page = r.page /\ s.wrote = r.wrote /\ s.row = r.row
        /\ s.columns = r.columns /\ s.user = r.user /\ s.alone = r.alone
        /\ s.map = r.map /\ s.missing = r.missing /\ s.cleared = cleared
    BY <1>1 DEF TransactionRequests
  <2> HIDE DEF s
  <2>3. Seen(s) = Seen(r)
    BY <1>7, <2>2
  <2>4. r.alone => r.map = VisitDates(Seen(r), r.user)
    BY <1>1, <1>3, <2>1 DEF AloneSees
  <2>5. "clearing" \in Transactions /\ "clearing" \notin Copies
    BY DEF Transactions, Copies
  <2> QED
    BY <1>4, <1>5, <2>1, <2>2, <2>3, <2>4, <2>5 DEF cleared
<1>12. CASE Tag(k) \/ Cleared(k) \/ Fill(k)
  <2> DEFINE s(pc) == [r EXCEPT !.pc = pc]
  <2>1. \/ Done(k)
        \/ r.pc = "tag" /\ Goto(k, s("clear"))
        \/ r.pc = "clearing" /\ Goto(k, s("fill"))
        \/ r.pc = "fill" /\ Goto(k, s("commit"))
    BY <1>12 DEF Tag, Cleared, Fill, Advance, At
  <2>2. ASSUME NEW pc \in {"clear", "fill", "commit"}, Goto(k, s(pc)),
               r.pc \in {"tag", "clearing", "fill"}, pc # "clear" => r.pc # "tag"
        PROVE  VisitInv'
    <3>1. /\ s(pc).pc = pc /\ s(pc).page = r.page /\ s(pc).wrote = r.wrote /\ s(pc).row = r.row
          /\ s(pc).columns = r.columns /\ s(pc).user = r.user /\ s(pc).alone = r.alone
          /\ s(pc).map = r.map /\ s(pc).missing = r.missing /\ s(pc).cleared = r.cleared
      BY <1>1 DEF TransactionRequests
    <3> HIDE DEF s
    <3>2. Seen(s(pc)) = Seen(r)
      BY <1>7, <3>1
    <3>3. /\ r.alone => r.map = VisitDates(Seen(r), r.user)
          /\ r.alone /\ pc # "clear" => r.cleared = VisitedIn(visited[r.user])
      BY <1>1, <1>3, <2>2 DEF AloneSees
    <3>4. pc \in Transactions /\ pc \notin Copies
      BY DEF Transactions, Copies
    <3> QED
      BY <1>4, <1>5, <2>2, <3>1, <3>2, <3>3, <3>4
  <2> HIDE DEF s
  <2> QED
    BY <1>6, <2>1, <2>2
<1> QED
  BY <1>8, <1>9, <1>10, <1>11, <1>12 DEF Working

\* What a transaction commits is, to the list of every user, what it saw ...
LEMMA CommitSeen ==
  ASSUME TypeOK, Shapes, Named, VisitInv, Undisturbed, NEW k \in Clients, Commit(k),
         NEW p \in Ids, NEW u
  PROVE  Alike(u, page'[p], Seen(request[k])[p])
<1> DEFINE r == request[k]
           tags == {m[2] : m \in {n \in r.missing : n[1] = p}}
<1>1. r \in TransactionRequests /\ r.pc \in Transactions /\ CompletionAgrees(k)
  BY CommitPage DEF Commit, At, Transactions, VisitInv
<1>2. CASE page'[p] # NoPage
  <2>1. /\ Seen(r)[p] \in PageRow /\ page'[p] = Tagged(r, Seen(r)[p], p)
        /\ page'[p].course = Seen(r)[p].course /\ page'[p].owner = Seen(r)[p].owner
        /\ page'[p].completed = Seen(r)[p].completed
        /\ page'[p].date = Seen(r)[p].date /\ page'[p].regions = Seen(r)[p].regions
    BY <1>2, CommitRow
  <2>2. page[p] \in PageRow
        /\ (Seen(r)[p] = page[p] \/ Seen(r)[p] = Written(page[p], r.row, r.columns))
    <3>1. r.wrote /\ r.row # NoPage => page[r.page] # NoPage
      BY <1>1 DEF CompletionAgrees, Exists
    <3> QED
      BY <1>2, <3>1, CommitRow, RowTypes
  <2>3. Seen(r)[p].regions = page[p].regions
    <3>1. r.columns \in SUBSET SavedColumns
      BY <1>1 DEF TransactionRequests
    <3> QED
      BY <2>2, <3>1 DEF Written, PageRow, SavedColumns
  <2>4. tags \subseteq page[p].regions
    <3>1. page[p] # NoPage
      BY <2>2, RowTypes
    <3> QED
      BY <1>1, <3>1 DEF CompletionAgrees, Exists
  <2>5. page'[p].tagged = Seen(r)[p].tagged \union tags
    BY <2>1 DEF Tagged, PageRow
  <2>6. CountriesOf(page'[p]) = CountriesOf(Seen(r)[p])
    <3> HIDE DEF tags
    <3> QED
      BY <2>1, <2>3, <2>4, <2>5 DEF CountriesOf
  <2> QED
    BY <1>2, <2>1, <2>6, RowTypes DEF Alike, CountsFor
<1>3. CASE page'[p] = NoPage
  <2>1. p \in Gone(r) \/ Seen(r)[p] = NoPage
    <3>1. Seen(r)[p] \in PageRow => Tagged(r, Seen(r)[p], p) # NoPage
      BY DEF Tagged, PageRow, NoPage
    <3>2. Seen(r)[p] = NoPage \/ Seen(r)[p] \in PageRow
      BY <1>1, SeenTypes DEF Rows
    <3> QED
      BY <1>3, <3>1, <3>2, CommitPage
  <2>2. ASSUME p \in Gone(r)
        PROVE  ~ CountsFor(u, Seen(r)[p])
    <3>1. r.wrote /\ r.row = NoPage /\ (p = r.page \/ p \in BlogsOf(r.page))
      BY <2>2 DEF Gone, LockedBy
    <3>2. CASE p = r.page
      BY <1>1, <3>1, <3>2, SeenRows DEF Own, CountsFor
    <3>3. CASE p # r.page
      <4>1. Seen(r)[p] = page[p]
        BY <1>1, <3>3, SeenRows
      <4>2. page[p].course = r.page /\ r.page # 0
        BY <1>1, <3>1, <3>3, BoundsAssumption DEF BlogsOf, TransactionRequests, Ids
      <4> QED
        BY <4>1, <4>2 DEF CountsFor
    <3> QED
      BY <3>2, <3>3
  <2> QED
    BY <1>3, <2>1, <2>2 DEF Alike, CountsFor
<1> QED
  BY <1>2, <1>3

\* ... and to the lists of the others what was there before.
LEMMA CommitOthers ==
  ASSUME TypeOK, Shapes, Named, VisitInv, Undisturbed, NEW k \in Clients, Commit(k),
         NEW p \in Ids, NEW u, u # request[k].user
  PROVE  Alike(u, page'[p], page[p])
<1> DEFINE r == request[k]
<1>1. r \in TransactionRequests /\ r.pc \in Transactions /\ CompletionAgrees(k)
  BY CommitPage DEF Commit, At, Transactions, VisitInv
<1>2. Alike(u, Seen(r)[p], page[p])
  <2>1. CASE ~ (r.wrote /\ p = r.page)
    BY <1>1, <2>1, SeenRows, AlikeRefl
  <2>2. CASE r.wrote /\ p = r.page
    <3>1. page[p] # NoPage => page[p] \in PageRow /\ page[p].owner = r.user
      <4>1. IsAlwaysCourseOf(r.page, r.user)
        BY <1>1 DEF Named, NamedBy
      <4> QED
        BY <2>2, <4>1, PageFacts DEF IsAlwaysCourseOf, Fact, TypeOK, PageTypes
    <3>2. Seen(r)[p] = Own(r)
      BY <1>1, <2>2, SeenRows
    <3>3. Own(r) # NoPage => Own(r).owner = r.user
      <4>1. ASSUME Own(r) # NoPage
            PROVE  /\ r.row \in PageRow /\ page[p] \in PageRow /\ page[p].owner = r.user
                   /\ Own(r) = Written(page[p], r.row, r.columns)
        <5>1. r.row # NoPage
          BY <4>1 DEF Own
        <5>2. page[p] # NoPage
          BY <1>1, <2>2, <5>1 DEF CompletionAgrees, Exists
        <5> QED
          BY <1>1, <2>2, <3>1, <5>1, <5>2 DEF Own, Exists, TransactionRequests
      <4>2. r.columns \in SUBSET SavedColumns
        BY <1>1 DEF TransactionRequests
      <4> QED
        BY <4>1, <4>2 DEF Written, PageRow, SavedColumns
    <3> QED
      BY <3>1, <3>2, <3>3 DEF Alike, CountsFor
  <2> QED
    BY <2>1, <2>2
<1> QED
  BY <1>2, CommitSeen, AlikeTrans

\* What a commit leaves of the rows another request relies on.
LEMMA CommitKeepsRow ==
  ASSUME TypeOK, Shapes, Locking, Undisturbed', NEW k \in Clients, Commit(k), NEW j \in Clients \ {k},
         request[j].pc \in Copies \/ (request[j].pc \in Transactions /\ request[j].wrote)
  PROVE  LET p == request[j].page
             r == request[k]
         IN p \in Ids /\ p \notin Gone(r) /\ ~ (p = r.page /\ r.wrote)
<1> DEFINE p == request[j].page
           r == request[k]
<1>1. p \in Ids /\ r.pc = "commit"
  BY RequestKinds DEF Copies, Transactions, TypeOK, ReloadRequests, WriteRequests, TransactionRequests,
     Commit, At
<1>2. Gone(r) \subseteq LockedBy(r) /\ (r.wrote => r.page \in LockedBy(r))
      /\ (Gone(r) # {} => r.wrote)
  BY DEF Gone, LockedBy
<1>3. CASE request[j].pc \in Copies
  <2>1. <<p, "completed">> \notin disturbed'
    BY <1>1 DEF Undisturbed
  <2>2. HeldElsewhere(k, p)
    BY <1>3 DEF HeldElsewhere
  <2>3. disturbed' = disturbed \union
          ({q \in {r.page} \union Gone(r) : r.wrote /\ HeldElsewhere(k, q)} \X {"likes", "completed"})
    BY CommitPage
  <2> QED
    BY <1>1, <1>2, <2>1, <2>2, <2>3
<1>4. CASE request[j].pc \in Transactions /\ request[j].wrote
  <2>1. p \in Held(j) /\ Held(k) = LockedBy(r)
    BY <1>1, <1>4 DEF Held, LockedBy, Transactions
  <2>2. p \notin LockedBy(r)
    BY <2>1 DEF Locking
  <2> QED
    BY <1>1, <1>2, <2>2
<1> QED
  BY <1>3, <1>4

LEMMA CommitVisits ==
  ASSUME TypeOK, TypeOK', Shapes, Agreed, Named, Locking, AloneIsAlone, VisitInv,
         Undisturbed, Undisturbed', NEW k \in Clients, Commit(k)
  PROVE  VisitInv'
<1> DEFINE r == request[k]
<1>1. /\ r \in TransactionRequests /\ r.pc = "commit" /\ r.pc \in Transactions
      /\ CompletionAgrees(k) /\ AloneSees(k)
  BY CommitPage DEF Commit, At, Transactions, VisitInv
<1>2. /\ request'[k] = Idle
      /\ \A j \in Clients \ {k} :
           /\ Kept(request[j], request'[j])
           /\ request'[j] = IF j \in Others(k, r.user) /\ request[j].pc = "clearing"
                              THEN [request[j] EXCEPT !.cleared = @ \ r.cleared] ELSE request[j]
  BY CommitRequests, CommitKeeps
<1>3. CompletionAgrees(k)' /\ AloneSees(k)'
  BY <1>2, SilentVisits DEF Idle, Copies, Transactions
<1>4. ASSUME NEW p \in Ids, page'[p] # NoPage
      PROVE  page[p] # NoPage /\ page'[p].regions = page[p].regions
  <2>1. r.wrote /\ r.row # NoPage => page[r.page] # NoPage
    BY <1>1 DEF CompletionAgrees, Exists
  <2>2. /\ page'[p].regions = Seen(r)[p].regions
        /\ \/ page[p] = NoPage /\ p = r.page /\ r.wrote /\ r.row \in PageRow
           \/ page[p] \in PageRow /\ Seen(r)[p] = page[p]
           \/ page[p] \in PageRow /\ Seen(r)[p] = Written(page[p], r.row, r.columns)
    BY <1>4, CommitRow
  <2>3. r.row \in PageRow => r.row # NoPage
    BY RowTypes
  <2>4. r.columns \in SUBSET SavedColumns
    BY <1>1 DEF TransactionRequests
  <2> QED
    <3>1. page[p] \in PageRow /\ page[p] # NoPage
      BY <2>1, <2>2, <2>3, RowTypes
    <3>2. Seen(r)[p] = page[p] \/ Seen(r)[p] = Written(page[p], r.row, r.columns)
      BY <2>2, <3>1
    <3>3. Written(page[p], r.row, r.columns).regions = page[p].regions
      BY <2>4, <3>1 DEF Written, PageRow, SavedColumns
    <3> QED
      BY <2>2, <3>1, <3>2, <3>3
<1>5. \A p \in 1..made : page'[p] # NoPage => page[p] # NoPage /\ page'[p].regions = page[p].regions
  BY <1>4, BoundsAssumption DEF TypeOK, Ids
<1>6. ASSUME NEW j \in Clients \ {k},
             request[j].pc \in Copies \/ (request[j].pc \in Transactions /\ request[j].wrote),
             page[request[j].page] # NoPage
      PROVE  /\ page'[request[j].page] # NoPage
             /\ page'[request[j].page].completed = page[request[j].page].completed
  <2> DEFINE p == request[j].page
  <2>1. p \in Ids /\ p \notin Gone(r) /\ ~ (p = r.page /\ r.wrote)
    BY <1>6, CommitKeepsRow
  <2>2. page'[p] # NoPage
    BY <1>6, <2>1, CommitLeaves
  <2>3. page'[p].completed = Seen(r)[p].completed
    BY <2>1, <2>2, CommitRow
  <2>4. Seen(r)[p] = page[p]
    BY <1>1, <2>1, SeenRows
  <2> QED
    BY <2>2, <2>3, <2>4
<1>7. ASSUME NEW j \in Clients \ {k}, request'[j].pc \in Transactions, request'[j].alone
      PROVE  /\ request'[j] = request[j]
             /\ visited'[request[j].user] = visited[request[j].user]
             /\ \A p \in Ids : Alike(request[j].user, page'[p], page[p])
             /\ request[j].wrote => page'[request[j].page] = page[request[j].page]
  <2> DEFINE u == request[j].user
  <2>1. /\ request[j].pc \in Transactions /\ request[j] \in TransactionRequests
        /\ request'[j].user = u
    BY <1>2, <1>7, RequestKinds DEF Kept, TypeOK
  <2>2. request[j].alone
    BY <1>2, <1>7, <2>1 DEF TransactionRequests
  <2>3. u # r.user
    BY <1>1, <2>1, <2>2 DEF AloneIsAlone, InTransaction
  <2>4. request'[j] = request[j]
    BY <1>2, <2>3 DEF Others, InTransaction
  <2>5. visited'[u] = visited[u]
    BY <2>1, <2>3 DEF Commit, TypeOK, TransactionRequests
  <2>6. \A p \in Ids : Alike(u, page'[p], page[p])
    BY <2>3, CommitOthers
  <2>7. ASSUME request[j].wrote
        PROVE  page'[request[j].page] = page[request[j].page]
    <3> DEFINE p == request[j].page
    <3>1. p \in Ids /\ p \notin Gone(r) /\ ~ (p = r.page /\ r.wrote)
      BY <2>1, <2>7, CommitKeepsRow
    <3>2. Seen(r)[p] = page[p]
      BY <1>1, <3>1, SeenRows
    <3>3. CASE page[p] = NoPage
      BY <3>1, <3>2, <3>3, CommitPage
    <3>4. CASE page[p] # NoPage
      <4>1. IsAlwaysCourseOf(p, u) /\ \A m \in r.missing : IsAlwaysCourseOf(m[1], r.user)
        BY <1>1, <2>1 DEF Named, NamedBy
      <4>2. Fact(p, page[p]) \in Facts
        BY <3>1, <3>4, PageFacts
      <4>3. \A m \in r.missing : m[1] # p
        BY <2>3, <4>1, <4>2 DEF IsAlwaysCourseOf, Fact
      <4>4. {m[2] : m \in {n \in r.missing : n[1] = p}} = {}
        BY <4>3
      <4>5. page[p] \in PageRow
        BY <3>1, <3>4 DEF TypeOK, PageTypes
      <4>6. page'[p] = Tagged(r, page[p], p)
        BY <3>1, <3>2, <3>4, CommitPage
      <4>7. page'[p] = [page[p] EXCEPT !.tagged = @ \union {}]
        BY <4>4, <4>6 DEF Tagged
      <4> QED
        BY <4>5, <4>7 DEF PageRow
    <3> QED
      BY <3>3, <3>4
  <2> QED
    BY <2>4, <2>5, <2>6, <2>7
<1>8. \A j \in Clients \ {k} : Kept(request[j], request'[j])
  BY <1>2
<1>9. \A j \in Clients \ {k} : CompletionAgrees(j)' /\ AloneSees(j)'
  BY <1>5, <1>6, <1>7, <1>8, OthersVisits
<1>10. ASSUME NEW u \in Users, u # r.user
       PROVE  Visited(u)'
  <2>1. visited'[u] = visited[u] /\ counted'[u] = counted[u] /\ alone'[u] = alone[u]
    BY <1>10 DEF Commit, TypeOK
  <2>2. \A p \in Ids : Alike(u, page'[p], page[p])
    BY <1>10, CommitOthers
  <2> QED
    BY <2>1, <2>2, SameVisited DEF VisitInv
<1>11. ASSUME NEW u \in Users, u = r.user
       PROVE  Visited(u)'
  <2>1. u \in Users /\ r.map \in Visits /\ visited[u] \in Visits
    BY <1>1, <1>11 DEF TransactionRequests, TypeOK
  <2>2. alone'[u] = r.alone /\ counted'[u] = Cardinality(VisitedIn(r.map))
    BY <1>11, <2>1 DEF Commit, TypeOK, VisitedCount
  <2>3. visited'[u] = [x \in Countries |->
           IF r.map[x] # NoDate THEN r.map[x] ELSE IF x \in r.cleared THEN NoDate ELSE visited[u][x]]
    BY <1>11, <2>1 DEF Commit, TypeOK
  <2>4. VisitDates(page', u) = VisitDates(Seen(r), u)
    <3>1. \A p \in Ids : Alike(u, page'[p], Seen(r)[p])
      BY CommitSeen
    <3> QED
      BY <3>1, AlikeDates
  <2>5. ASSUME r.alone
        PROVE  visited'[u] = r.map /\ r.map = VisitDates(page', u)
    <3>1. r.map = VisitDates(Seen(r), u) /\ r.cleared = VisitedIn(visited[u])
      BY <1>1, <1>11, <2>5 DEF AloneSees
    <3>2. \A x \in Countries : visited'[u][x] = r.map[x]
      BY <2>3, <3>1 DEF VisitedIn
    <3>3. visited'[u] = r.map
      BY <2>1, <2>3, <3>2 DEF Visits
    <3> QED
      BY <2>4, <3>1, <3>3
  <2> QED
    BY <2>2, <2>5 DEF Visited, VisitedIn
<1>12. \A u \in Users : Visited(u)'
  BY <1>10, <1>11
<1> QED
  BY <1>3, <1>9, <1>12 DEF VisitInv

LEMMA PublishVisits ==
  ASSUME TypeOK, TypeOK', Shapes, Agreed, Named, Locking, VisitInv, Undisturbed, Undisturbed',
         NEW k \in Clients, Publishing(k)
  PROVE  VisitInv'
<1> DEFINE r == request[k]
<1>1. /\ request'[k].pc \in {"idle", "copy", "blog", "deleteBlog"}
      /\ \A j \in Clients \ {k} : request'[j] = request[j] /\ Kept(request[j], request'[j])
  <2>1. CASE \E u \in Users, c \in Ids :
               CopyStart(k, u, c) \/ BlogStart(k, u, c) \/ DeleteBlogStart(k, u, c)
    BY <2>1, GotoKeeps DEF CopyStart, BlogStart, DeleteBlogStart
  <2>2. CASE Copy(k) \/ Blog(k) \/ DeleteBlog(k)
    BY <2>2, GotoKeeps DEF Copy, Blog, DeleteBlog, Done, Idle
  <2> QED
    BY <2>1, <2>2 DEF Publishing
<1>2. CompletionAgrees(k)' /\ AloneSees(k)'
  BY <1>1, SilentVisits DEF Copies, Transactions
<1>3. UNCHANGED <<visited, counted, alone>>
  BY DEF Publishing, CopyStart, BlogStart, DeleteBlogStart, Copy, Blog, DeleteBlog, visitVars
<1>4. CASE UNCHANGED page
  BY <1>1, <1>2, <1>3, <1>4, QuietVisits
<1>5. ASSUME NEW p \in Ids,
             \A q \in Ids \ {p} : page'[q] = page[q],
             \A u : ~ CountsFor(u, page[p]) /\ ~ CountsFor(u, page'[p]),
             p \in 1..made => page'[p] = NoPage,
             \A j \in Clients \ {k} : request[j].pc \in Copies =>
               request[j].page # p \/ page[p] = NoPage,
             \A j \in Clients \ {k} : request[j].pc \in Transactions /\ request[j].wrote =>
               request[j].page # p
      PROVE  VisitInv'
  <2>1. \A q \in Ids : \A u : Alike(u, page'[q], page[q])
    BY <1>5, AlikeRefl DEF Alike
  <2>2. \A j \in Clients \ {k} : request[j].pc \in Copies \union Transactions => request[j].page \in Ids
    BY RequestKinds DEF Copies, Transactions, TypeOK, ReloadRequests, WriteRequests, TransactionRequests
  <2>3. 1..made \subseteq Ids
    BY BoundsAssumption DEF TypeOK, Ids
  <2>4. \A q \in 1..made : page'[q] # NoPage => page[q] # NoPage /\ page'[q].regions = page[q].regions
    BY <1>5, <2>3
  <2>5. \A j \in Clients \ {k} :
           /\ \/ request[j].pc \in Copies
              \/ request[j].pc \in Transactions /\ request[j].wrote
           /\ page[request[j].page] # NoPage
           => page'[request[j].page] = page[request[j].page]
    BY <1>5, <2>2
  <2>6. \A j \in Clients \ {k} : request[j].pc \in Transactions /\ request[j].wrote =>
           page'[request[j].page] = page[request[j].page]
    BY <1>5, <2>2
  <2>7. \A j \in Clients \ {k} : CompletionAgrees(j)' /\ AloneSees(j)'
    BY <1>1, <1>3, <2>1, <2>4, <2>5, <2>6, OthersVisits
  <2>8. \A u \in Users : Visited(u)'
    BY <1>3, <2>1, SameVisited DEF VisitInv
  <2> QED
    BY <1>2, <2>7, <2>8 DEF VisitInv
<1>6. \A j \in Clients \ {k} : request[j].pc \in Transactions => request[j].page \in 1..made
  BY DEF Named, NamedBy, IsAlwaysCourseOf
<1>7. CASE (Copy(k) \/ Blog(k)) /\ Insert(r.row)
  <2> DEFINE p == made'
  <2>1. r.row \in PageRow /\ ~ r.row.completed
    BY <1>7, RequestKinds DEF Copy, Blog, At, TypeOK, InsertRequests, Shapes, Shape
  <2>2. p \in Ids /\ p = made + 1 /\ made \in Nat /\ page' = [page EXCEPT ![p] = r.row]
    BY <1>7, <2>1, InsertTypes, BoundsAssumption DEF TypeOK, Ids
  <2>3. \A f \in Facts : f.page # p
    BY <2>2 DEF Agreed
  <2>4. page[p] = NoPage
    BY <2>2, <2>3, PageFacts DEF Fact
  <2>5. \A q \in Ids : page'[q] = IF q = p THEN r.row ELSE page[q]
    BY <2>2 DEF TypeOK, PageTypes
  <2>6. \A u : ~ CountsFor(u, page[p]) /\ ~ CountsFor(u, page'[p])
    BY <2>1, <2>2, <2>4, <2>5 DEF CountsFor
  <2>7. p \notin 1..made
    BY <2>2
  <2> HIDE DEF p
  <2> QED
    BY <1>5, <1>6, <2>2, <2>4, <2>5, <2>6, <2>7
<1>8. CASE DeleteBlog(k)
  <2> DEFINE p == r.page
  <2>1. /\ p \in Ids /\ p \notin locked /\ Disturb(k, p, {"likes", "completed"})
        /\ IsAlwaysBlog(p)
    BY <1>8, RequestKinds DEF DeleteBlog, At, TypeOK, DeleteBlogRequests, Named, NamedBy
  <2>2. \A q \in Ids : page'[q] = IF q = p THEN NoPage ELSE page[q]
    BY <1>8 DEF DeleteBlog, TypeOK, PageTypes
  <2>3. page[p] # NoPage => page[p].course # 0
    BY <2>1, PageFacts DEF IsAlwaysBlog, Fact
  <2>4. \A u : ~ CountsFor(u, page[p]) /\ ~ CountsFor(u, page'[p])
    BY <2>1, <2>2, <2>3 DEF CountsFor
  <2>5. \A j \in Clients \ {k} : request[j].pc \in Copies => request[j].page # p
    <3>1. <<p, "completed">> \notin disturbed'
      BY <2>1 DEF Undisturbed
    <3> QED
      BY <2>1, <3>1 DEF Disturb, HeldElsewhere
  <2>6. \A j \in Clients \ {k} : request[j].pc \in Transactions /\ request[j].wrote =>
           request[j].page # p
    <3>1. \A j \in Clients \ {k} : p \notin Held(j)
      BY <2>1 DEF Locking
    <3> QED
      BY <3>1 DEF Held, LockedBy, Transactions
  <2> HIDE DEF p
  <2> QED
    BY <1>5, <2>1, <2>2, <2>4, <2>5, <2>6
<1> QED
  BY <1>4, <1>7, <1>8 DEF Publishing, CopyStart, BlogStart, DeleteBlogStart, Copy, Blog, pageVars

LEMMA InitVisits ==
  ASSUME Init
  PROVE  AloneIsAlone /\ VisitInv
<1>1. PICK w \in Workloads : workload = w
  BY DEF Init
<1>2. page = w.page /\ visited = w.visited /\ \A k \in Clients : request[k] = Idle
  BY <1>1 DEF Init
<1>3. w.visited = [u \in Users |-> VisitDates(w.page, u)]
  BY <1>1, WorkloadAssumption
<1>4. \A u \in Users : Visited(u)
  BY <1>2, <1>3 DEF Visited, Init
<1>5. AloneIsAlone
  BY <1>2 DEF AloneIsAlone, Idle, Transactions
<1>6. \A k \in Clients : CompletionAgrees(k) /\ AloneSees(k)
  BY <1>2 DEF CompletionAgrees, AloneSees, Idle, Copies, Transactions
<1> QED
  BY <1>4, <1>5, <1>6 DEF VisitInv

\* Nothing is forgotten of what was disturbed.
LEMMA DisturbedGrows ==
  ASSUME TypeOK, [Next]_vars
  PROVE  disturbed \subseteq disturbed'
<1>1. CASE UNCHANGED vars
  BY <1>1 DEF vars, pageVars
<1>2. CASE Next
  <2>1. PICK k \in Clients :
           \/ Liking(k) \/ Saving(k) \/ (\E u \in Users, c \in Ids : Beginning(k, u, c))
           \/ Working(k) \/ Committing(k) \/ Publishing(k)
    BY <1>2, NextCases
  <2>2. CASE Committing(k)
    BY <2>2, CommitPage DEF Committing
  <2>3. CASE ~ Committing(k)
    BY <2>1, <2>3 DEF Liking, Saving, Beginning, Working, Publishing, LikeStep, SaveStep, LikeStart,
       LikeLock, LikeCommit, UnlikeCommit, ViewStart, EditStart, SaveReload, SaveInserts, SaveWrite,
       CompleteStart, DeleteCourseStart, CompletionReload, CompletionWrite, DropCourse, Sync, Tag,
       Clear, Cleared, Fill, CopyStart, BlogStart, DeleteBlogStart, Copy, Blog, DeleteBlog, Disturb,
       pageVars
  <2> QED
    BY <2>2, <2>3
<1> QED
  BY <1>1, <1>2

LEMMA NextVisits ==
  ASSUME TypeOK, Shapes, Agreed, Named, Locking, LikeInv, AloneIsAlone, VisitInv, [Next]_vars
  PROVE  VisitInv'
<1> SUFFICES ASSUME Undisturbed' PROVE VisitInv'
  BY DEF VisitInv
<1>1. Undisturbed
  BY DisturbedGrows DEF Undisturbed
<1>2. TypeOK'
  BY NextTypes
<1>3. CASE UNCHANGED vars
  BY <1>3 DEF vars, pageVars, VisitInv, Undisturbed, CompletionAgrees, AloneSees, Visited, Exists, Seen,
     Own, VisitedIn
<1>4. CASE Next
  <2>1. PICK k \in Clients :
           \/ Liking(k) \/ Saving(k) \/ (\E u \in Users, c \in Ids : Beginning(k, u, c))
           \/ Working(k) \/ Committing(k) \/ Publishing(k)
    BY <1>4, NextCases
  <2>2. CASE Liking(k) \/ Saving(k)
    BY <1>1, <1>2, <2>2, LikeVisits, SaveVisits
  <2>3. CASE (\E u \in Users, c \in Ids : Beginning(k, u, c)) \/ Working(k)
    BY <1>1, <1>2, <2>3, BeginVisits, WorkVisits
  <2>4. CASE Committing(k)
    BY <1>1, <1>2, <2>4, CommitVisits DEF Committing
  <2>5. CASE Publishing(k)
    BY <1>1, <1>2, <2>5, PublishVisits
  <2> QED
    BY <2>1, <2>2, <2>3, <2>4, <2>5
<1> QED
  BY <1>3, <1>4

\* The list of visited countries and its count follow from the completed courses
\* after a completion or deletion that no other of the same user overlapped, and
\* that no older copy of a course was saved over, whatever all others do.
THEOREM VisitedCorrect == Spec => []VisitedFollowsCompleted
<1> DEFINE Inv == /\ TypeOK /\ Shapes /\ Agreed /\ Named /\ Locking /\ LikeInv
                  /\ AloneIsAlone /\ VisitInv
<1>1. Init => Inv
  BY InitTypes, InitFacts, InitLocking, InitLikes, InitVisits
<1>2. Inv /\ [Next]_vars => Inv'
  BY NextTypes, NextFacts, NextLocking, NextLikes, NextAlone, NextVisits
<1>3. Inv => VisitedFollowsCompleted
  BY DEF VisitInv, Visited, Undisturbed, VisitedFollowsCompleted
<1> HIDE DEF Inv
<1> QED
  BY <1>1, <1>2, <1>3, PTL DEF Spec
=============================================================================
