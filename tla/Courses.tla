------------------------------- MODULE Courses -------------------------------
(***************************************************************************)
(* Courses and blogs: completing, deleting and copying a course, writing   *)
(* and deleting a blog, liking both, and the countries a user has visited, *)
(* which are computed from the completed courses in the transaction that   *)
(* completes or deletes one.  Transactions run at READ COMMITTED: what one *)
(* wrote is seen by others when it commits, and a row it wrote is locked   *)
(* until then.                                                             *)
(***************************************************************************)
EXTENDS Pages

VARIABLES
  made,     \* ids given to courses and blogs so far
  visited,  \* the rows of user_visited_country_table: the visit date of each
            \* country of each user, or NoDate
  counted,  \* users.visited_countries
  alone     \* for the properties only: the last transaction of this user that
            \* committed overlapped with no other

vars == <<workload, request, started, pageVars, made, visited, counted, alone>>

visitVars == <<made, visited, counted, alone>>

NoDate == 0

Visits == [Countries -> Nat]

Nowhere == [x \in Countries |-> NoDate]

VisitedIn(map) == {x \in Countries : map[x] # NoDate}

Init ==
  /\ workload \in Workloads
  /\ request = [k \in Clients |-> Idle]
  /\ started = 0
  /\ page = workload.page
  /\ likes = {} /\ locked = {} /\ disturbed = {}
  /\ made = workload.made
  /\ visited = workload.visited
  /\ counted = [u \in Users |-> Cardinality(VisitedIn(visited[u]))]
  /\ alone = [u \in Users |-> TRUE]

-----------------------------------------------------------------------------
(* updateCompletionStatus and deleteCourse: a transaction                  *)

\* From the SELECT of the course on; "drop" and "tag" are its deletion and the
\* insertion of the missing countries.
Transactions ==
  {"completionReload", "completionWrite", "drop", "sync", "tag", "clear", "clearing",
   "fill", "commit"}

InTransaction(j, u) == request[j].pc \in Transactions /\ request[j].user = u

Others(k, u) == {j \in Clients \ {k} : InTransaction(j, u)}

\* Other transactions of this user are no longer alone, nor is this one.
Begin(k, r) ==
  LET others == Others(k, r.user)
  IN request' = [j \in Clients |->
       IF j = k THEN [r EXCEPT !.alone = others = {}]
       ELSE IF j \in others THEN [request[j] EXCEPT !.alone = FALSE]
       ELSE request[j]]

\* row: what the transaction will have made of the course; wrote: it has, and
\* has locked it; map: the countries visited; missing: to be tagged;
\* cleared: the visited countries it deletes.
Transaction(pc, u, c, row) ==
  [pc |-> pc, user |-> u, page |-> c, row |-> row, columns |-> {}, wrote |-> FALSE,
   map |-> Nowhere, missing |-> {}, cleared |-> {}, alone |-> TRUE]

Advance(k, pc) == Goto(k, [request[k] EXCEPT !.pc = pc])

\* A course that is missing or another's is refused.
CompleteStart(k, u, c, done) ==
  /\ Start(k, "complete")
  /\ IsCourse(c) /\ page[c].owner = u
  /\ Begin(k, Transaction("completionReload", u, c, [page[c] EXCEPT !.completed = done]))
  /\ UNCHANGED <<pageVars, visitVars>>

DeleteCourseStart(k, u, c) ==
  /\ Start(k, "delete")
  /\ IsCourse(c) /\ page[c].owner = u
  /\ Begin(k, Transaction("drop", u, c, NoPage))
  /\ UNCHANGED <<pageVars, visitVars>>

\* save in the transaction: no UPDATE if nothing differs, an INSERT of the course
\* alone if it is gone.
CompletionReload(k) ==
  LET r == request[k]
      columns == Differing(r.row, page[r.page])
  IN /\ At(k, "completionReload")
     /\ IF ~ Exists(r.page)
          THEN /\ LockRow(r.page)
               /\ Goto(k, [r EXCEPT !.pc = "sync", !.wrote = TRUE,
                                    !.row.regions = {}, !.row.tagged = {}])
          ELSE /\ Goto(k, [r EXCEPT !.pc = IF columns = {} THEN "sync" ELSE "completionWrite",
                                    !.columns = columns])
               /\ UNCHANGED locked
     /\ UNCHANGED <<started, page, likes, disturbed, visitVars>>

CompletionWrite(k) ==
  LET r == request[k]
  IN /\ At(k, "completionWrite")
     /\ IF Exists(r.page)
          THEN LockRow(r.page) /\ Goto(k, [r EXCEPT !.pc = "sync", !.wrote = TRUE])
          ELSE Advance(k, "sync") /\ UNCHANGED locked
     /\ UNCHANGED <<started, page, likes, disturbed, visitVars>>

\* DELETE of the course, which locks it and, by cascade, its blogs.
DropCourse(k) ==
  LET r == request[k]
      rows == {r.page} \union BlogsOf(r.page)
  IN /\ At(k, "drop")
     /\ rows \intersect locked = {}
     /\ IF Exists(r.page)
          THEN locked' = locked \union rows /\ Goto(k, [r EXCEPT !.pc = "sync", !.wrote = TRUE])
          ELSE Advance(k, "sync") /\ UNCHANGED locked
     /\ UNCHANGED <<started, page, likes, disturbed, visitVars>>

-----------------------------------------------------------------------------
(* syncVisitedCountriesFromCompletedCourses                                *)

\* What the transaction reads: the committed rows and its own write.
Own(r) ==
  IF r.row = NoPage \/ ~ Exists(r.page) THEN r.row
  ELSE Written(page[r.page], r.row, r.columns)

Seen(r) == IF r.wrote THEN [page EXCEPT ![r.page] = Own(r)] ELSE page

Completed(rows, u) ==
  {c \in Ids : rows[c] # NoPage /\ rows[c].course = 0 /\ rows[c].owner = u /\ rows[c].completed}

\* The countries of a course: those it is tagged with and those of its regions.
CountriesOf(row) == row.tagged \union row.regions

Dates(rows, u, x) == {rows[c].date : c \in {d \in Completed(rows, u) : x \in CountriesOf(rows[d])}}

Latest(dates) == IF dates = {} THEN NoDate ELSE CHOOSE d \in dates : \A e \in dates : e <= d

\* For each country the latest date among the completed courses that go there.
VisitDates(rows, u) == [x \in Countries |-> Latest(Dates(rows, u, x))]

\* Mutation: the courses are read outside the transaction.
VisitedBy_Committed(r) == VisitDates(page, r.user)

VisitedBy(r) == VisitDates(Seen(r), r.user)

Sync(k) ==
  LET r == request[k]
      rows == Seen(r)
      missing == UNION {{c} \X (rows[c].regions \ rows[c].tagged) : c \in Completed(rows, r.user)}
  IN /\ At(k, "sync")
     /\ Goto(k, [r EXCEPT !.pc = IF missing = {} THEN "clear" ELSE "tag",
                          !.map = VisitedBy(r), !.missing = missing])
     /\ UNCHANGED <<started, pageVars, visitVars>>

\* The rows a transaction has locked: the course once it wrote it, and the blogs
\* that go with a course it deleted.
LockedBy(r) ==
  IF ~ r.wrote THEN {} ELSE {r.page} \union (IF r.row = NoPage THEN BlogsOf(r.page) ELSE {})

Aborted(k) == locked' = locked \ LockedBy(request[k])

\* INSERT of the missing course_country rows.  It waits for a transaction that
\* inserted the same row or deletes the course, and fails if the row is there
\* or the course is not.
Tag(k) ==
  LET r == request[k]
      elsewhere == UNION {request[j].missing : j \in {i \in Clients \ {k} :
                            request[i].pc \in {"clear", "clearing", "fill", "commit"}}}
      dropped == {c \in Ids : \E j \in Clients \ {k} :
                    request[j].pc \in Transactions /\ request[j].wrote
                    /\ request[j].page = c /\ request[j].row = NoPage}
      fails == \E m \in r.missing : IF Exists(m[1]) THEN m[2] \in page[m[1]].tagged
                                    ELSE m[1] # r.page
  IN /\ At(k, "tag")
     /\ r.missing \intersect elsewhere = {}
     /\ \A m \in r.missing : m[1] \notin dropped
     /\ IF fails THEN Aborted(k) /\ Done(k) ELSE Advance(k, "clear") /\ UNCHANGED locked
     /\ UNCHANGED <<started, page, likes, disturbed, visitVars>>

\* DELETE of the user's rows: those it sees when it starts ...
Clear(k) ==
  LET r == request[k]
  IN /\ At(k, "clear")
     /\ Goto(k, [r EXCEPT !.pc = "clearing", !.cleared = VisitedIn(visited[r.user])])
     /\ UNCHANGED <<started, pageVars, visitVars>>

\* ... and that nobody else is deleting or has deleted meanwhile (Commit).
Cleared(k) ==
  LET r == request[k]
  IN /\ At(k, "clearing")
     /\ \A j \in Others(k, r.user) :
          request[j].pc \in {"fill", "commit"} => request[j].cleared \intersect r.cleared = {}
     /\ Advance(k, "fill")
     /\ UNCHANGED <<started, pageVars, visitVars>>

\* INSERT of the countries visited: one row per user and country, so it waits
\* for a transaction that inserts or deletes one of these, and fails if one
\* that this transaction does not delete is there.
Fill(k) ==
  LET r == request[k]
      mine == VisitedIn(r.map)
      fails == mine \intersect (VisitedIn(visited[r.user]) \ r.cleared) # {}
  IN /\ At(k, "fill")
     /\ \A j \in Others(k, r.user) :
          /\ request[j].pc = "commit" => VisitedIn(request[j].map) \intersect mine = {}
          /\ request[j].pc \in {"fill", "commit"} => request[j].cleared \intersect mine = {}
     /\ IF fails THEN Aborted(k) /\ Done(k) ELSE Advance(k, "commit") /\ UNCHANGED locked
     /\ UNCHANGED <<started, page, likes, disturbed, visitVars>>

\* Mutation: added to what was counted before.
VisitedCount_Added(r) == counted[r.user] + Cardinality(VisitedIn(r.map))

VisitedCount(r) == Cardinality(VisitedIn(r.map))

\* UPDATE of users.visited_countries, and COMMIT.
Commit(k) ==
  LET r == request[k]
      u == r.user
      gone == IF r.row = NoPage THEN LockedBy(r) ELSE {}
      dropCleared(j) == IF j \in Others(k, u) /\ request[j].pc = "clearing"
                          THEN [request[j] EXCEPT !.cleared = @ \ r.cleared] ELSE request[j]
  IN /\ At(k, "commit")
     /\ page' = [p \in Ids |-> IF p \in gone \/ Seen(r)[p] = NoPage THEN NoPage
                               ELSE [Seen(r)[p] EXCEPT !.tagged =
                                 @ \union {m[2] : m \in {n \in r.missing : n[1] = p}}]]
     /\ likes' = {l \in likes : l.page \notin gone}
     /\ locked' = locked \ LockedBy(r)
     /\ disturbed' = disturbed \union
          ({p \in {r.page} \union gone : r.wrote /\ HeldElsewhere(k, p)} \X {"likes", "completed"})
     /\ visited' = [visited EXCEPT ![u] = [x \in Countries |->
          IF r.map[x] # NoDate THEN r.map[x]
          ELSE IF x \in r.cleared THEN NoDate ELSE visited[u][x]]]
     /\ counted' = [counted EXCEPT ![u] = VisitedCount(r)]
     /\ alone' = [alone EXCEPT ![u] = r.alone]
     /\ request' = [j \in Clients |-> IF j = k THEN Idle ELSE dropCleared(j)]
     /\ UNCHANGED <<started, made>>

-----------------------------------------------------------------------------
(* New courses and blogs                                                   *)

Insert(row) ==
  /\ made < MaxPages
  /\ made' = made + 1
  /\ page' = [page EXCEPT ![made'] = row]

NewCourse(u, source) ==
  [course |-> 0, owner |-> u, public |-> FALSE, completed |-> FALSE, likes |-> 0, views |-> 0,
   regions |-> source.regions, tagged |-> source.tagged, date |-> source.date]

\* The source is read before the transaction that inserts the copy.
CopyStart(k, u, c) ==
  /\ Start(k, "copy")
  /\ IsCourse(c) /\ MayRead(u, page[c])
  /\ Goto(k, [pc |-> "copy", row |-> NewCourse(u, page[c])])
  /\ UNCHANGED <<pageVars, visitVars>>

Copy(k) ==
  /\ At(k, "copy")
  /\ Insert(request[k].row)
  /\ Done(k)
  /\ UNCHANGED <<started, likes, locked, disturbed, visited, counted, alone>>

\* The course must be the user's, completed, and without a blog.
BlogStart(k, u, c) ==
  /\ Start(k, "blog")
  /\ IsCourse(c) /\ page[c].owner = u /\ page[c].completed
  /\ BlogsOf(c) = {}
  /\ Goto(k, [pc |-> "blog", row |-> [page[c] EXCEPT !.course = c, !.completed = FALSE,
                                        !.likes = 0, !.views = 0, !.public = TRUE,
                                        !.regions = {}, !.tagged = {}]])
  /\ UNCHANGED <<pageVars, visitVars>>

Blog(k) ==
  LET r == request[k]
  IN /\ At(k, "blog")
     /\ r.row.course \notin locked
     /\ IF BlogRefused(r.row.course) THEN UNCHANGED <<page, made>> ELSE Insert(r.row)
     /\ Done(k)
     /\ UNCHANGED <<started, likes, locked, disturbed, visited, counted, alone>>

\* TravelBlogService.delete: its likes go with it.
DeleteBlogStart(k, u, p) ==
  /\ Start(k, "deleteBlog")
  /\ Exists(p) /\ page[p].course # 0 /\ page[p].owner = u
  /\ Goto(k, [pc |-> "deleteBlog", page |-> p])
  /\ UNCHANGED <<pageVars, visitVars>>

DeleteBlog(k) ==
  LET p == request[k].page
  IN /\ At(k, "deleteBlog")
     /\ p \notin locked
     /\ page' = [page EXCEPT ![p] = NoPage]
     /\ likes' = likes \ LikesOf(p)
     /\ Disturb(k, p, {"likes", "completed"})
     /\ Done(k)
     /\ UNCHANGED <<started, locked, visitVars>>

-----------------------------------------------------------------------------

UserStarts(k, u) ==
  \E p \in Ids :
    \/ \E done \in BOOLEAN : CompleteStart(k, u, p, done)
    \/ DeleteCourseStart(k, u, p) \/ CopyStart(k, u, p)
    \/ BlogStart(k, u, p) \/ DeleteBlogStart(k, u, p)
    \/ \E op \in {"like", "unlike"} : LikeStart(k, op, u, p) /\ UNCHANGED visitVars
    \/ (ViewStart(k, u, p) \/ EditStart(k, p)) /\ UNCHANGED visitVars

TransactionStep(k) ==
  \/ CompletionReload(k) \/ CompletionWrite(k) \/ DropCourse(k)
  \/ Sync(k) \/ Tag(k) \/ Clear(k) \/ Cleared(k) \/ Fill(k) \/ Commit(k)

Next ==
  /\ \E k \in Clients :
       \/ \E u \in Users : UserStarts(k, u)
       \/ (LikeStep(k) \/ SaveStep(k)) /\ UNCHANGED visitVars
       \/ TransactionStep(k)
       \/ Copy(k) \/ Blog(k) \/ DeleteBlog(k)
  /\ UNCHANGED workload

Spec == Init /\ [][Next]_vars

ASSUME CountriesAssumption == IsFiniteSet(Countries)

\* What a workload starts from: rows with ids given so far and no likes yet, each
\* blog the only one of a course that is there, and for every user the visited
\* countries that follow from the completed courses.
ASSUME WorkloadAssumption ==
  \A w \in Workloads :
    /\ w.page \in [Ids -> PageRow \union {NoPage}]
    /\ w.made \in Ids
    /\ \A p \in Ids : w.page[p] # NoPage =>
         /\ p <= w.made
         /\ w.page[p].likes = 0
         /\ w.page[p].course # 0 =>
              /\ w.page[w.page[p].course] # NoPage /\ w.page[w.page[p].course].course = 0
              /\ \A q \in Ids : w.page[q] # NoPage /\ w.page[q].course = w.page[p].course => q = p
    /\ w.visited = [u \in Users |-> VisitDates(w.page, u)]

-----------------------------------------------------------------------------

TransactionRequests ==
  [pc : Transactions, user : Users, page : Ids, row : PageRow \union {NoPage},
   columns : SUBSET SavedColumns, wrote : BOOLEAN,
   map : Visits, missing : SUBSET (Ids \X Countries), cleared : SUBSET Countries,
   alone : BOOLEAN]

InsertRequests == [pc : {"copy", "blog"}, row : PageRow]

DeleteBlogRequests == [pc : {"deleteBlog"}, page : Ids]

Requests == PageRequests \union TransactionRequests \union InsertRequests \union DeleteBlogRequests

\* Every variable, and what each request under way has read, is what its columns
\* can hold: a like count in particular is never negative, however stale the
\* copies that were saved over it.
TypeOK ==
  /\ PageTypes
  /\ request \in [Clients -> Requests]
  /\ made \in Ids
  /\ visited \in [Users -> Visits]
  /\ counted \in [Users -> Nat]
  /\ alone \in [Users -> BOOLEAN]

\* The like count of a course or a blog is the number of users who like it,
\* through likes and unlikes of several users at once, deletions, and saves of
\* other columns; only a like given or taken back while somebody held an older
\* copy of the row may be lost from the count (CourseLikeService.addLike, :86).
LikesAreCounted ==
  \A p \in Ids : Exists(p) /\ <<p, "likes">> \notin disturbed =>
    page[p].likes = Cardinality(LikesOf(p))

\* The countries a user has visited are those of the completed courses, with the
\* latest date of each, and users.visited_countries is their number, once the
\* last transaction that computed them ran alone and no older copy of one of the
\* courses was saved over its completion (syncVisitedCountries, :466).
VisitedFollowsCompleted ==
  \A u \in Users :
    alone[u] /\ (\A c \in Ids : <<c, "completed">> \notin disturbed) =>
      /\ visited[u] = VisitDates(page, u)
      /\ counted[u] = Cardinality(VisitedIn(visited[u]))

\* However the transactions of a user overlap, the count shown on the page is
\* not larger than the list behind it (:533-552).
CountedCountriesExist ==
  \A u \in Users : counted[u] <= Cardinality(VisitedIn(visited[u]))

\* At most one blog tells about a course, though two requests may both have found
\* none, and no blog outlives its course (TravelBlogService.createBlog, :170).
OneBlogPerCourse ==
  \A b, d \in Ids :
    Exists(b) /\ page[b].course # 0 =>
      /\ IsCourse(page[b].course)
      /\ Exists(d) /\ page[d].course = page[b].course => d = b
=============================================================================
