-------------------------------- MODULE Pages --------------------------------
(***************************************************************************)
(* The pages users like: the rows of travel_course_table and               *)
(* travel_blog_table, the like rows of both, and the requests that work on *)
(* one page.  A like locks the page; viewing, editing and completing save  *)
(* an entity that was loaded before, without a lock.                       *)
(***************************************************************************)
EXTENDS Naturals, FiniteSets

CONSTANTS
  Users, Countries,
  Clients,     \* bound: requests under way at once
  MaxPages,    \* bound: pages that ever exist
  MaxRequests, \* bound: requests in a behaviour
  Workloads    \* what the users do and which pages exist: see Courses

ASSUME BoundsAssumption == MaxPages \in Nat /\ MaxRequests \in Nat

VARIABLES
  workload,  \* fixed: one of Workloads
  request,   \* what each request under way is about to do
  started,   \* requests started so far; the number is the request's id
  page,      \* the rows of the two tables
  likes,     \* the rows of course_like_table and blog_like_table
  locked,    \* pages whose row a transaction under way has locked
  disturbed  \* for the properties only: <<page, column>> changed while another
             \* request held a copy of the row that it may save

pageVars == <<page, likes, locked, disturbed>>

Ids == 1..MaxPages

\* A blog names its course; a course names none.  regions: the countries of the
\* course's regions; tagged: those of its course_country rows; date:
\* travel_finish_day.
PageRow == [course : 0..MaxPages, owner : Users, public : BOOLEAN, completed : BOOLEAN,
            likes : Nat, views : Nat, regions : SUBSET Countries, tagged : SUBSET Countries,
            date : Nat]

NoPage == [course |-> 0]

Exists(p) == page[p] # NoPage

IsCourse(p) == Exists(p) /\ page[p].course = 0

BlogsOf(c) == {b \in Ids : Exists(b) /\ page[b].course = c}

LikesOf(p) == {l \in likes : l.page = p}

MayRead(u, row) == row.public \/ row.owner = u

Idle == [pc |-> "idle"]

At(k, pc) == request[k].pc = pc

Goto(k, r) == request' = [request EXCEPT ![k] = r]

Done(k) == Goto(k, Idle)

\* A free request slot starts what the workload has.
Start(k, op) ==
  /\ At(k, "idle") /\ op \in workload.ops
  /\ workload.overlap \/ \A j \in Clients : At(j, "idle")
  /\ started < MaxRequests
  /\ started' = started + 1

-----------------------------------------------------------------------------
(* Copies of a row that may be stale when they are saved                   *)

Copies == {"reload", "write", "completionReload", "completionWrite"}

HeldElsewhere(k, p) == \E j \in Clients \ {k} : request[j].pc \in Copies /\ request[j].page = p

Disturb(k, p, columns) ==
  disturbed' = IF HeldElsewhere(k, p) THEN disturbed \union ({p} \X columns) ELSE disturbed

SavedColumns == {"public", "completed", "likes", "views"}

\* The columns a save sends: those in which the entity differs from the row it
\* reloads.
Differing(e, row) == {f \in SavedColumns : e[f] # row[f]}

Written(row, e, columns) == [f \in DOMAIN row |-> IF f \in columns THEN e[f] ELSE row[f]]

-----------------------------------------------------------------------------
(* CourseLikeService, BlogLikeService                                      *)

IncrementLikeCount(row) == [row EXCEPT !.likes = @ + 1]

\* Mutation: not stopped at zero.
DecrementLikeCount_Unbounded(row) == [row EXCEPT !.likes = @ - 1]

DecrementLikeCount(row) == [row EXCEPT !.likes = IF @ > 0 THEN @ - 1 ELSE 0]

LikeStart(k, op, u, p) ==
  /\ op \in {"like", "unlike"}
  /\ Start(k, op)
  /\ Goto(k, [pc |-> "lock", op |-> op, user |-> u, page |-> p, id |-> started'])
  /\ UNCHANGED pageVars

\* Mutation: the row is read without pessimistic_write.
LockRow_Unlocked(p) == UNCHANGED locked

\* SELECT ... FOR UPDATE: waits for who has the row.
LockRow(p) == p \notin locked /\ locked' = locked \union {p}

Unlock(p) == locked' = locked \ {p}

\* The locked row, the access check and the like that is there or not.
LikeLock(k) ==
  LET r == request[k]
      refused == ~ Exists(r.page) \/ ~ MayRead(r.user, page[r.page])
      liked == \E l \in LikesOf(r.page) : l.user = r.user
  IN /\ At(k, "lock")
     /\ r.page \notin locked
     /\ IF refused \/ (liked <=> r.op = "like")
          THEN Done(k) /\ UNCHANGED locked
          ELSE /\ LockRow(r.page)
               /\ Goto(k, [pc |-> r.op, user |-> r.user, page |-> r.page, id |-> r.id,
                           row |-> page[r.page]])
     /\ UNCHANGED <<started, page, likes, disturbed>>

\* The like and the counter are committed together.
LikeCommit(k) ==
  LET r == request[k]
  IN /\ At(k, "like")
     /\ likes' = likes \union {[user |-> r.user, page |-> r.page, id |-> r.id]}
     /\ page' = [page EXCEPT ![r.page].likes = IncrementLikeCount(r.row).likes]
     /\ Unlock(r.page)
     /\ Disturb(k, r.page, {"likes"})
     /\ Done(k)
     /\ UNCHANGED started

UnlikeCommit(k) ==
  LET r == request[k]
  IN /\ At(k, "unlike")
     /\ likes' = {l \in likes : ~ (l.user = r.user /\ l.page = r.page)}
     /\ page' = [page EXCEPT ![r.page].likes = DecrementLikeCount(r.row).likes]
     /\ Unlock(r.page)
     /\ Disturb(k, r.page, {"likes"})
     /\ Done(k)
     /\ UNCHANGED started

-----------------------------------------------------------------------------
(* Viewing a blog, changing a course or a blog: load, change, save         *)

Viewed(row) == [row EXCEPT !.views = @ + 1]

Edited(row) == [row EXCEPT !.public = ~ @]

ViewStart(k, u, p) ==
  /\ Start(k, "view")
  /\ Exists(p) /\ MayRead(u, page[p])
  /\ Goto(k, [pc |-> "reload", page |-> p, row |-> Viewed(page[p]), likes |-> LikesOf(p)])
  /\ UNCHANGED pageVars

EditStart(k, p) ==
  /\ Start(k, "edit")
  /\ Exists(p)
  /\ Goto(k, [pc |-> "reload", page |-> p, row |-> Edited(page[p]), likes |-> LikesOf(p)])
  /\ UNCHANGED pageVars

\* save: what is sent is decided by the row as it is now.  A blog was loaded with
\* its likes: one that came since would be unlinked from it, which the NOT NULL
\* column refuses, and the request fails.  A course is loaded without them.
SaveReload(k) ==
  LET r == request[k]
      newLike == r.row.course # 0 /\ LikesOf(r.page) \ r.likes # {}
  IN /\ At(k, "reload")
     /\ Exists(r.page)
     /\ IF newLike THEN Done(k)
        ELSE Goto(k, [pc |-> "write", page |-> r.page, row |-> r.row,
                      columns |-> Differing(r.row, page[r.page])])
     /\ UNCHANGED <<started, pageVars>>

\* Mutation: travel_course_id is not unique.
BlogRefused_NotUnique(c) == ~ Exists(c)

\* One blog per course, of a course that exists: the keys of the blog table.
BlogRefused(c) == ~ Exists(c) \/ BlogsOf(c) # {}

\* The row is gone: it is inserted again, without its regions, unless it is a
\* blog and its keys refuse it.  It waits for who deletes the row or its course.
SaveInserts(k) ==
  LET r == request[k]
      kept == r.row.course = 0 \/ ~ BlogRefused(r.row.course)
  IN /\ At(k, "reload")
     /\ ~ Exists(r.page)
     /\ {r.page, r.row.course} \intersect locked = {}
     /\ page' = IF kept THEN [page EXCEPT ![r.page] = [r.row EXCEPT !.regions = {}]] ELSE page
     /\ Done(k)
     /\ UNCHANGED <<started, likes, locked, disturbed>>

\* UPDATE waits for the lock, and changes nothing if the row is gone.
SaveWrite(k) ==
  LET r == request[k]
  IN /\ At(k, "write")
     /\ r.page \notin locked
     /\ page' = IF Exists(r.page)
                  THEN [page EXCEPT ![r.page] = Written(@, r.row, r.columns)]
                  ELSE page
     /\ Done(k)
     /\ UNCHANGED <<started, likes, locked, disturbed>>

-----------------------------------------------------------------------------

LikeStep(k) == LikeLock(k) \/ LikeCommit(k) \/ UnlikeCommit(k)

SaveStep(k) == SaveReload(k) \/ SaveInserts(k) \/ SaveWrite(k)

LikeRow == [user : Users, page : Ids, id : 1..MaxRequests]

LockRequests ==
  [pc : {"lock"}, op : {"like", "unlike"}, user : Users, page : Ids, id : 1..MaxRequests]

LikeRequests ==
  [pc : {"like", "unlike"}, user : Users, page : Ids, id : 1..MaxRequests, row : PageRow]

ReloadRequests == [pc : {"reload"}, page : Ids, row : PageRow, likes : SUBSET LikeRow]

WriteRequests == [pc : {"write"}, page : Ids, row : PageRow, columns : SUBSET SavedColumns]

PageRequests == {Idle} \union LockRequests \union LikeRequests \union ReloadRequests \union WriteRequests

PageTypes ==
  /\ workload \in Workloads
  /\ started \in 0..MaxRequests
  /\ page \in [Ids -> PageRow \union {NoPage}]
  /\ likes \subseteq LikeRow
  /\ locked \subseteq Ids
  /\ disturbed \subseteq Ids \X {"likes", "completed"}
=============================================================================
