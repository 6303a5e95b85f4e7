------------------------ MODULE ItineraryModification ------------------------
(***************************************************************************)
(* Modifying a course by chat: the request that counts it and creates a    *)
(* job, the BullMQ queue and its worker, the Python server, the callback   *)
(* that rewrites the course, the owner who marks the course completed, and *)
(* the cleanup cron.  One action is one stretch of code between two awaits.*)
(*                                                                         *)
(*   POST /itineraries/:id/chat   Find -> CheckActive -> Insert            *)
(*                                -> SaveCourse -> Enqueue                 *)
(*   worker     Take -> Load -> SaveProcessing -> FindCourse -> Post -> Ack*)
(*   callback   Begin -> DeleteDays -> CommitEdit  |  Begin -> CommitAnswer*)
(*              Begin -> SaveRetry -> ReEnqueue | SaveFailure              *)
(*   PATCH /courses/:id/completion   Load -> Save                          *)
(***************************************************************************)
EXTENDS BullQueue, ItineraryJobTable

CONSTANTS
  Courses,          \* ids of courses, numbers above 0
  CourseOf,         \* the course a job's request names
  Handlers,         \* callback requests the server may be working on at once
  Toggles,          \* completion requests
  MaxModifications, \* modifications of one course (5 in the code)
  MaxRetry,         \* MAX_RETRY_COUNT of the callback service (1 in the code)
  MaxEdits          \* bound: edits ever committed

ASSUME ConstantsAssumption ==
  /\ Courses \subseteq Nat \ {0}
  /\ CourseOf \in [Jobs -> Courses]
  /\ MaxModifications \in Nat
  /\ MaxRetry \in Nat
  /\ MaxEdits \in Nat
  /\ Faults \subseteq FaultKinds

VARIABLES
  courses,  \* the course table
  edits,    \* every edit ever committed: edits[n] is the job that made edit n
  days,     \* course_day_table: the edits the days of a course come from
  chats,    \* exchanges (USER and AI message) saved for a job
  tasks,    \* modifications Python has accepted and not yet called back
  request, toggle, worker, handler  \* code in flight, besides the cron

vars == <<rows, gone, aged, courses, edits, days, chats, queue, tasks,
          request, toggle, worker, handler, cron>>

tables == <<rows, gone, aged, courses, edits, days, chats>>

\* Edit 0 stands for what the course was made with.
Original == 0

\* modification_count, is_completed, and the columns that updateTravelCourse
\* writes: title, description, nights, days, people, dates.
CourseRow == [count : Nat, completed : BOOLEAN, meta : Nat]

NewCourse == [count |-> 0, completed |-> FALSE, meta |-> Original]

Entry == EntryOf([job : Jobs, course : Courses \union {NoCourse}])

\* `base` is what the plan that Python is given was made of.
Task == [entry : Nat \ {0}, run : Nat, base : SUBSET Nat]

Copied == [pc : {"found", "checked", "inserted"}, course : CourseRow]

TypeOK ==
  /\ rows \in [Jobs -> MaybeRow]
  /\ gone \in SUBSET Courses
  /\ aged \in SUBSET Jobs
  /\ courses \in [Courses -> CourseRow]
  /\ edits \in Seq(Jobs)
  /\ days \in [Courses -> SUBSET Nat]
  /\ chats \in [Jobs -> Nat]
  /\ queue \in Seq(Entry)
  /\ tasks \in SUBSET Task
  /\ \A t \in tasks : t.entry \in DOMAIN queue
  /\ request \in [Jobs -> Copied \union [pc : {"new", "saved", "addFailed", "done"}]]
  /\ toggle \in [Toggles -> [pc : {"new", "done"}]
       \union [pc : {"save"}, course : Courses, row : CourseRow, value : BOOLEAN]]
  /\ worker \in {Idle}
       \union [pc : {"load"}, entry : DOMAIN queue]
       \union [pc : {"save", "course", "refuse", "post", "posted"},
               entry : DOMAIN queue, row : Row, base : SUBSET Nat]
  /\ handler \in [Handlers -> {Idle}
       \union [pc : {"edit", "answer", "retry", "enqueue", "fail"}, job : Jobs, row : Row,
               base : SUBSET Nat]
       \union [pc : {"commit"}, job : Jobs, row : Row, base : SUBSET Nat,
               seen : SUBSET Nat]]
  /\ cron \in {Idle}
       \union [pc : {"next"}, todo : SUBSET Jobs]
       \union [pc : {"save"}, todo : SUBSET Jobs, job : Jobs, row : Row]

Init ==
  /\ rows = [j \in Jobs |-> Absent]
  /\ gone = {}
  /\ aged = {}
  /\ courses = [c \in Courses |-> NewCourse]
  /\ edits = <<>>
  /\ days = [c \in Courses |-> {Original}]
  /\ chats = [j \in Jobs |-> 0]
  /\ queue = <<>>
  /\ tasks = {}
  /\ request = [j \in Jobs |-> [pc |-> "new"]]
  /\ toggle = [g \in Toggles |-> [pc |-> "new"]]
  /\ worker = Idle
  /\ handler = [h \in Handlers |-> Idle]
  /\ cron = Idle

-----------------------------------------------------------------------------
(* Saving a course                                                         *)

ChangedCourseColumns(loaded, e, row) ==
  [count     |-> IF e.count     = loaded.count     THEN row.count     ELSE e.count,
   completed |-> IF e.completed = loaded.completed THEN row.completed ELSE e.completed,
   meta      |-> IF e.meta      = loaded.meta      THEN row.meta      ELSE e.meta]

\* As for jobs; a course that was deleted since it was loaded is inserted again.
SaveCourse(c, loaded, e) ==
  \/ /\ c \notin gone
     /\ \E r \in {e, ChangedCourseColumns(loaded, e, courses[c])} :
          courses' = [courses EXCEPT ![c] = r]
     /\ UNCHANGED gone
  \/ /\ c \in gone
     /\ courses' = [courses EXCEPT ![c] = e]
     /\ gone' = gone \ {c}

\* Mutation: the count is not increased.
IncrementModificationCount_Forgets(course) == course

IncrementModificationCount(course) == [course EXCEPT !.count = @ + 1]

CanModify(course) == course.count < MaxModifications

-----------------------------------------------------------------------------
(* POST /itineraries/:id/chat: ItineraryModificationService                *)

\* Without "overlap" the owner waits for the answer to one message before
\* sending the next.
Awaited(j) ==
  \/ "overlap" \in Faults
  \/ \A k \in Jobs \ {j} :
       CourseOf[k] = CourseOf[j] => request[k].pc \in {"new", "done"}

\* Mutation: off by one in canModify.
RequestFind_OneMore(j) ==
  LET c == CourseOf[j]
  IN  /\ request[j].pc = "new" /\ Awaited(j)
      /\ c \notin gone
      /\ ~courses[c].completed
      /\ courses[c].count <= MaxModifications
      /\ request' = [request EXCEPT ![j] = [pc |-> "found", course |-> courses[c]]]
      /\ UNCHANGED <<tables, queue, tasks, toggle, worker, handler, cron>>

RequestFind(j) ==
  LET c == CourseOf[j]
  IN  /\ request[j].pc = "new" /\ Awaited(j)
      /\ c \notin gone
      /\ ~courses[c].completed
      /\ CanModify(courses[c])
      /\ request' = [request EXCEPT ![j] = [pc |-> "found", course |-> courses[c]]]
      /\ UNCHANGED <<tables, queue, tasks, toggle, worker, handler, cron>>

\* Mutation: only PENDING jobs count as active.
ActiveOf_PendingOnly(c) ==
  {j \in Jobs : rows[j].course = c /\ rows[j].status = "PENDING"}

ActiveOf(c) == {j \in Jobs : rows[j].course = c /\ rows[j].status \in Active}

RequestCheckActive(j) ==
  /\ request[j].pc = "found"
  /\ ActiveOf(CourseOf[j]) = {}
  /\ request' = [request EXCEPT ![j].pc = "checked"]
  /\ UNCHANGED <<tables, queue, tasks, toggle, worker, handler, cron>>

\* ITINERARY_NOT_FOUND, COMPLETED_ITINERARY_EDIT_LOCKED, CHAT_LIMIT_EXCEEDED,
\* ITINERARY_JOB_ALREADY_PROCESSING, or a query or the insert fails.
RequestReject(j) ==
  LET c == CourseOf[j]
  IN  /\ \/ /\ request[j].pc = "new" /\ Awaited(j)
            /\ c \in gone \/ courses[c].completed \/ ~CanModify(courses[c])
         \/ request[j].pc = "found" /\ ActiveOf(c) # {}
         \/ request[j].pc \in {"new", "found"} /\ "dbRead" \in Faults
         \/ request[j].pc = "checked" /\ (c \in gone \/ "dbWrite" \in Faults)
      /\ request' = [request EXCEPT ![j] = [pc |-> "done"]]
      /\ UNCHANGED <<tables, queue, tasks, toggle, worker, handler, cron>>

RequestInsert(j) ==
  /\ request[j].pc = "checked"
  /\ CourseOf[j] \notin gone
  /\ rows' = [rows EXCEPT ![j] = NewJob(CourseOf[j])]
  /\ request' = [request EXCEPT ![j].pc = "inserted"]
  /\ UNCHANGED <<gone, aged, courses, edits, days, chats, queue, tasks,
                 toggle, worker, handler, cron>>

RequestSaveCourse(j) ==
  LET course == request[j].course
  IN  /\ request[j].pc = "inserted"
      /\ SaveCourse(CourseOf[j], course, IncrementModificationCount(course))
      /\ request' = [request EXCEPT ![j] = [pc |-> "saved"]]
      /\ UNCHANGED <<rows, aged, edits, days, chats, queue, tasks,
                     toggle, worker, handler, cron>>

\* This save is outside the try block.
RequestSaveCourseFails(j) ==
  /\ request[j].pc = "inserted"
  /\ "dbWrite" \in Faults
  /\ request' = [request EXCEPT ![j] = [pc |-> "done"]]
  /\ UNCHANGED <<tables, queue, tasks, toggle, worker, handler, cron>>

\* Mutation: the two ids of the payload are swapped.
AddJob_Swapped(j, c) == Add([job |-> c, course |-> j])

AddJob(j, c) == Add([job |-> j, course |-> c])

RequestEnqueue(j) ==
  /\ request[j].pc = "saved"
  /\ AddJob(j, CourseOf[j])
  /\ request' = [request EXCEPT ![j] = [pc |-> "done"]]
  /\ UNCHANGED <<tables, tasks, toggle, worker, handler, cron>>

AddRejected(j, c) ==
  \/ "queueAdd" \in Faults /\ UNCHANGED queue
  \/ "queueAck" \in Faults /\ AddJob(j, c)

RequestEnqueueFails(j) ==
  /\ request[j].pc = "saved"
  /\ AddRejected(j, CourseOf[j])
  /\ request' = [request EXCEPT ![j] = [pc |-> "addFailed"]]
  /\ UNCHANGED <<tables, tasks, toggle, worker, handler, cron>>

\* The job is QUEUE_ERROR; the count stays as it was increased.
RequestSaveFailure(j) ==
  LET inserted == NewJob(CourseOf[j])
  IN  /\ request[j].pc = "addFailed"
      /\ Exists(j)
      /\ SaveRow(j, inserted, MarkFailed(inserted, "QUEUE_ERROR"))
      /\ request' = [request EXCEPT ![j] = [pc |-> "done"]]
      /\ UNCHANGED <<gone, aged, courses, edits, days, chats, queue, tasks,
                     toggle, worker, handler, cron>>

\* The inner catch only logs.
RequestSaveFailureFails(j) ==
  /\ request[j].pc = "addFailed"
  /\ SaveThrows(j, NewJob(CourseOf[j]))
  /\ request' = [request EXCEPT ![j] = [pc |-> "done"]]
  /\ UNCHANGED <<tables, queue, tasks, toggle, worker, handler, cron>>

RequestStep(j) ==
  \/ RequestFind(j) \/ RequestReject(j) \/ RequestCheckActive(j)
  \/ RequestInsert(j) \/ RequestSaveCourse(j) \/ RequestSaveCourseFails(j)
  \/ RequestEnqueue(j) \/ RequestEnqueueFails(j)
  \/ RequestSaveFailure(j) \/ RequestSaveFailureFails(j)

-----------------------------------------------------------------------------
(* PATCH /courses/:id/completion: TravelCourseService                      *)

ToggleLoad(g, c, value) ==
  /\ toggle[g].pc = "new"
  /\ c \notin gone
  /\ toggle' = [toggle EXCEPT ![g] =
       [pc |-> "save", course |-> c, row |-> courses[c], value |-> value]]
  /\ UNCHANGED <<tables, queue, tasks, request, worker, handler, cron>>

ToggleSave(g) ==
  LET loaded == toggle[g].row
  IN  /\ toggle[g].pc = "save"
      /\ SaveCourse(toggle[g].course, loaded, [loaded EXCEPT !.completed = toggle[g].value])
      /\ toggle' = [toggle EXCEPT ![g] = [pc |-> "done"]]
      /\ UNCHANGED <<rows, aged, edits, days, chats, queue, tasks,
                     request, worker, handler, cron>>

ToggleFails(g) ==
  /\ toggle[g].pc = "save"
  /\ "dbWrite" \in Faults
  /\ toggle' = [toggle EXCEPT ![g] = [pc |-> "done"]]
  /\ UNCHANGED <<tables, queue, tasks, request, worker, handler, cron>>

ToggleStep(g) ==
  \/ \E c \in Courses, value \in BOOLEAN : ToggleLoad(g, c, value)
  \/ ToggleSave(g) \/ ToggleFails(g)

-----------------------------------------------------------------------------
(* BullMQ and ItineraryModificationProcessor.process                       *)

JobOf(i) == queue[i].data.job

WorkerTake(i) ==
  /\ worker = Idle
  /\ queue[i].state = "waiting"
  /\ SetEntry(i, "active")
  /\ worker' = [pc |-> "load", entry |-> i]
  /\ UNCHANGED <<tables, tasks, request, toggle, handler, cron>>

WorkerLoad ==
  LET j == JobOf(worker.entry)
  IN  /\ worker.pc = "load"
      /\ Exists(j)
      /\ worker' = [pc |-> "save", entry |-> worker.entry, row |-> rows[j], base |-> {}]
      /\ UNCHANGED <<tables, queue, tasks, request, toggle, handler, cron>>

\* The repository answers null for a QueryFailedError too, and process returns.
WorkerDrop ==
  /\ worker.pc = "load"
  /\ ~Exists(JobOf(worker.entry)) \/ "dbRead" \in Faults
  /\ SetEntry(worker.entry, "completed")
  /\ worker' = Idle
  /\ UNCHANGED <<tables, tasks, request, toggle, handler, cron>>

WorkerSaveProcessing ==
  LET j == JobOf(worker.entry)
      e == IncrementAttempt(MarkProcessing(worker.row))
  IN  /\ worker.pc = "save"
      /\ Exists(j)
      /\ SaveRow(j, worker.row, e)
      /\ aged' = aged \ {j}
      /\ worker' = [worker EXCEPT !.pc = "course", !.row = e]
      /\ UNCHANGED <<gone, courses, edits, days, chats, queue, tasks,
                     request, toggle, handler, cron>>

\* The courses findOne may return: TypeORM ignores a null id in `where`, so an
\* entry whose course is null finds any course.
Found(c) == (IF c = NoCourse THEN Courses ELSE {c}) \ gone

\* The plan is read; the chat history and the survey are read after it.
WorkerFindCourse ==
  /\ worker.pc = "course"
  /\ \E c \in Found(queue[worker.entry].data.course) :
       worker' = [worker EXCEPT !.pc = "post", !.base = days[c]]
  /\ UNCHANGED <<tables, queue, tasks, request, toggle, handler, cron>>

\* COURSE_NOT_FOUND, INVALID_SURVEY_CONTEXT.
WorkerRefuse ==
  /\ worker.pc = "course"
  /\ Found(queue[worker.entry].data.course) = {} \/ "surveyGone" \in Faults
  /\ worker' = [worker EXCEPT !.pc = "refuse"]
  /\ UNCHANGED <<tables, queue, tasks, request, toggle, handler, cron>>

WorkerSaveRefused ==
  LET j == JobOf(worker.entry)
  IN  /\ worker.pc = "refuse"
      /\ Exists(j)
      /\ SaveRow(j, worker.row, MarkFailed(worker.row, "NO_CONTEXT"))
      /\ SetEntry(worker.entry, "completed")
      /\ worker' = Idle
      /\ UNCHANGED <<gone, aged, courses, edits, days, chats, tasks,
                     request, toggle, handler, cron>>

WorkerPost ==
  LET i == worker.entry
  IN  /\ worker.pc = "post"
      /\ tasks' = tasks \union
           {[entry |-> i, run |-> queue[i].made + queue[i].stalls, base |-> worker.base]}
      /\ worker' = [worker EXCEPT !.pc = "posted"]
      /\ UNCHANGED <<tables, queue, request, toggle, handler, cron>>

WorkerAck ==
  /\ worker.pc = "posted"
  /\ SetEntry(worker.entry, "completed")
  /\ worker' = Idle
  /\ UNCHANGED <<tables, tasks, request, toggle, handler, cron>>

\* Mutation: the answer 202 of Python counts as an error.
WorkerCanThrow_OnAccept ==
  \/ worker.pc = "posted"
  \/ worker.pc = "post" /\ "postLost" \in Faults

WorkerCanThrow ==
  \/ worker.pc \in {"load", "course"} /\ "dbRead" \in Faults
  \/ worker.pc \in {"save", "refuse"} /\ SaveThrows(JobOf(worker.entry), worker.row)
  \/ worker.pc = "post" /\ "postLost" \in Faults
  \/ worker.pc = "posted" /\ "postTimeout" \in Faults

WorkerThrow ==
  /\ WorkerCanThrow
  /\ queue' = [queue EXCEPT ![worker.entry] = TriedAgain(queue[worker.entry])]
  /\ worker' = Idle
  /\ UNCHANGED <<tables, tasks, request, toggle, handler, cron>>

WorkerStep ==
  \/ \E i \in DOMAIN queue : WorkerTake(i)
  \/ WorkerLoad \/ WorkerDrop
  \/ WorkerSaveProcessing \/ WorkerFindCourse \/ WorkerRefuse \/ WorkerSaveRefused
  \/ WorkerPost \/ WorkerAck \/ WorkerThrow

-----------------------------------------------------------------------------
(* The Python server and POST /itineraries/:jobId/chat-result              *)

Receive(t) ==
  \/ tasks' = tasks \ {t}
  \/ "duplicate" \in Faults /\ UNCHANGED tasks

CallbackLost(t) ==
  /\ "callbackLost" \in Faults
  /\ tasks' = tasks \ {t}
  /\ UNCHANGED <<tables, queue, request, toggle, worker, handler, cron>>

\* The job is not found or already finished.
CallbackIgnored(t) ==
  /\ rows[JobOf(t.entry)].status \notin Active \/ "dbRead" \in Faults
  /\ Receive(t)
  /\ UNCHANGED <<tables, queue, request, toggle, worker, handler, cron>>

CallbackBegin(h, t, pc) ==
  LET j == JobOf(t.entry)
  IN  /\ handler[h] = Idle
      /\ rows[j].status \in Active
      /\ Receive(t)
      /\ handler' = [handler EXCEPT ![h] =
           [pc |-> pc, job |-> j, row |-> rows[j], base |-> t.base]]
      /\ UNCHANGED <<tables, queue, request, toggle, worker, cron>>

\* status SUCCESS, or one of the three that leave the course alone.
SuccessBegin(h, t) == CallbackBegin(h, t, "edit") \/ CallbackBegin(h, t, "answer")

FailureBegin(h, t) ==
  CallbackBegin(h, t,
    IF rows[JobOf(t.entry)].attempts <= MaxRetry THEN "retry" ELSE "fail")

\* The chat rows need a course, so without one the transaction is rolled back.
HasCourse(h) == handler[h].row.course \in Courses \ gone

\* Mutation: the days there are stay.
DeleteDays_Keeps(h) ==
  /\ handler[h].pc = "edit"
  /\ HasCourse(h)
  /\ handler' = [handler EXCEPT ![h] =
       [pc |-> "commit", job |-> handler[h].job, row |-> handler[h].row,
        base |-> handler[h].base, seen |-> {}]]
  /\ UNCHANGED <<tables, queue, tasks, request, toggle, worker, cron>>

\* The transaction of updateTravelCourse, up to the DELETE of the days: under
\* READ COMMITTED it reaches the days that are committed now, and waits for a
\* transaction that deletes the same ones.
DeleteDays(h) ==
  /\ handler[h].pc = "edit"
  /\ HasCourse(h)
  /\ handler' = [handler EXCEPT ![h] =
       [pc |-> "commit", job |-> handler[h].job, row |-> handler[h].row,
        base |-> handler[h].base, seen |-> days[handler[h].row.course]]]
  /\ UNCHANGED <<tables, queue, tasks, request, toggle, worker, cron>>

\* Mutation: the course is written although the chat has none.
CommitEdit_AnyCourse(h) ==
  LET j == handler[h].job
      n == Len(edits) + 1
  IN  /\ handler[h].pc = "commit"
      /\ Exists(j)
      /\ Len(edits) < MaxEdits
      /\ \E c \in Courses \ gone :
           /\ edits' = Append(edits, j)
           /\ days' = [days EXCEPT ![c] = (@ \ handler[h].seen) \union {n}]
           /\ courses' = [courses EXCEPT ![c].meta = n]
      /\ SaveRow(j, handler[h].row, MarkSuccessWithIntent(handler[h].row, "EDITED"))
      /\ chats' = [chats EXCEPT ![j] = @ + 1]
      /\ handler' = [handler EXCEPT ![h] = Idle]
      /\ UNCHANGED <<gone, aged, queue, tasks, request, toggle, worker, cron>>

\* The rest of it, up to the commit.  Neither the job nor is_completed is
\* looked at again.
CommitEdit(h) ==
  LET j == handler[h].job
      c == handler[h].row.course
      n == Len(edits) + 1
  IN  /\ handler[h].pc = "commit"
      /\ HasCourse(h)
      /\ Exists(j)
      /\ Len(edits) < MaxEdits
      /\ edits' = Append(edits, j)
      /\ days' = [days EXCEPT ![c] = (@ \ handler[h].seen) \union {n}]
      /\ courses' = [courses EXCEPT ![c].meta = n]
      /\ SaveRow(j, handler[h].row, MarkSuccessWithIntent(handler[h].row, "EDITED"))
      /\ chats' = [chats EXCEPT ![j] = @ + 1]
      /\ handler' = [handler EXCEPT ![h] = Idle]
      /\ UNCHANGED <<gone, aged, queue, tasks, request, toggle, worker, cron>>

CommitAnswer(h) ==
  LET j == handler[h].job
  IN  /\ handler[h].pc = "answer"
      /\ HasCourse(h)
      /\ Exists(j)
      /\ SaveRow(j, handler[h].row, MarkSuccessWithIntent(handler[h].row, "ANSWERED"))
      /\ chats' = [chats EXCEPT ![j] = @ + 1]
      /\ handler' = [handler EXCEPT ![h] = Idle]
      /\ UNCHANGED <<gone, aged, courses, edits, days, queue, tasks,
                     request, toggle, worker, cron>>

SaveRetry(h) ==
  LET j == handler[h].job
  IN  /\ handler[h].pc = "retry"
      /\ Exists(j)
      /\ SaveRow(j, handler[h].row, ResetForRetry(handler[h].row))
      /\ aged' = IF rows'[j].status = "PENDING" THEN aged \ {j} ELSE aged
      /\ handler' = [handler EXCEPT ![h].pc = "enqueue"]
      /\ UNCHANGED <<gone, courses, edits, days, chats, queue, tasks,
                     request, toggle, worker, cron>>

\* Mutation: the queue drops a second entry with the same job id.
ReEnqueue_Deduplicated(h) ==
  /\ handler[h].pc = "enqueue"
  /\ UNCHANGED queue
  /\ handler' = [handler EXCEPT ![h] = Idle]
  /\ UNCHANGED <<tables, tasks, request, toggle, worker, cron>>

\* The entry names the course of the entity, null once that was deleted.
ReEnqueue(h) ==
  /\ handler[h].pc = "enqueue"
  /\ AddJob(handler[h].job, handler[h].row.course)
  /\ handler' = [handler EXCEPT ![h] = Idle]
  /\ UNCHANGED <<tables, tasks, request, toggle, worker, cron>>

SaveFailure(h) ==
  LET j == handler[h].job
  IN  /\ handler[h].pc = "fail"
      /\ Exists(j)
      /\ SaveRow(j, handler[h].row, MarkFailed(handler[h].row, "LLM_ERROR"))
      /\ handler' = [handler EXCEPT ![h] = Idle]
      /\ UNCHANGED <<gone, aged, courses, edits, days, chats, queue, tasks,
                     request, toggle, worker, cron>>

\* The handler throws: only the transaction is undone.
HandlerThrow(h) ==
  /\ \/ /\ handler[h].pc \in {"edit", "commit", "answer"}
        /\ \/ ~HasCourse(h) \/ ~Exists(handler[h].job)
           \/ "dbWrite" \in Faults \/ "rollback" \in Faults
        /\ UNCHANGED queue
     \/ /\ handler[h].pc \in {"retry", "fail"}
        /\ SaveThrows(handler[h].job, handler[h].row)
        /\ UNCHANGED queue
     \/ /\ handler[h].pc = "enqueue"
        /\ AddRejected(handler[h].job, handler[h].row.course)
  /\ handler' = [handler EXCEPT ![h] = Idle]
  /\ UNCHANGED <<tables, tasks, request, toggle, worker, cron>>

HandlerStep(h) ==
  \/ DeleteDays(h) \/ CommitEdit(h) \/ CommitAnswer(h)
  \/ SaveRetry(h) \/ ReEnqueue(h) \/ SaveFailure(h) \/ HandlerThrow(h)

PythonStep ==
  \E t \in tasks :
    \/ CallbackLost(t) \/ CallbackIgnored(t)
    \/ \E h \in Handlers : SuccessBegin(h, t) \/ FailureBegin(h, t)

-----------------------------------------------------------------------------
(* The cron and the environment                                            *)

Cleanup ==
  /\ CronStep
  /\ UNCHANGED <<gone, aged, courses, edits, days, chats, queue, tasks,
                 request, toggle, worker, handler>>

\* A worker needs seconds, so ten minutes do not pass while it is at work on
\* the job.
Age(j) ==
  /\ GrowsOld(j)
  /\ worker # Idle => JobOf(worker.entry) # j
  /\ UNCHANGED <<rows, gone, courses, edits, days, chats, queue, tasks,
                 request, toggle, worker, handler, cron>>

\* TravelCourseService.deleteCourse: the days go with the course.
CourseGone(c) ==
  /\ "courseGone" \in Faults
  /\ c \notin gone
  /\ DeleteCourse(c)
  /\ days' = [days EXCEPT ![c] = {}]
  /\ UNCHANGED <<aged, courses, edits, chats, queue, tasks,
                 request, toggle, worker, handler, cron>>

\* The process restarts: code in flight is lost, Postgres and Redis are not.
Crash ==
  /\ "crash" \in Faults
  /\ request' = [j \in Jobs |->
       IF request[j].pc = "new" THEN request[j] ELSE [pc |-> "done"]]
  /\ toggle' = [g \in Toggles |->
       IF toggle[g].pc = "new" THEN toggle[g] ELSE [pc |-> "done"]]
  /\ StallActive
  /\ worker' = Idle
  /\ handler' = [h \in Handlers |-> Idle]
  /\ cron' = Idle
  /\ UNCHANGED <<tables, tasks>>

Next ==
  \/ \E j \in Jobs : RequestStep(j) \/ Age(j)
  \/ \E g \in Toggles : ToggleStep(g)
  \/ \E h \in Handlers : HandlerStep(h)
  \/ \E c \in Courses : CourseGone(c)
  \/ WorkerStep \/ PythonStep \/ Cleanup \/ Crash

Spec == Init /\ [][Next]_vars

-----------------------------------------------------------------------------
(* What holds whatever the environment does                                *)

\* A job that reports SUCCESS has its exchange in the chat history, and one
\* that reports intent SUCCESS has edited the course: updateTravelCourse and
\* saveChatHistoryOnly keep status, intent, chat and plan together through
\* every stale save, retry and second callback.
SuccessIsAnswered ==
  \A j \in Jobs : rows[j].status = "SUCCESS" =>
    /\ chats[j] > 0
    /\ rows[j].intent = "EDITED" => \E n \in DOMAIN edits : edits[n] = j

\* A finished job that nothing works on: its request was answered, its queue
\* entries are used up, no callback that found it unfinished is under way, and
\* the cron has not re-read it.  Python may still call back any number of times.
Settled(j) ==
  /\ rows[j].status \in Terminal
  /\ request[j].pc = "done"
  /\ \A i \in DOMAIN queue : JobOf(i) = j => queue[i].state \in {"completed", "failed"}
  /\ worker # Idle => JobOf(worker.entry) # j
  /\ \A h \in Handlers : handler[h] # Idle => handler[h].job # j
  /\ cron.pc = "save" => cron.job # j

EditsMadeBy(j) == {n \in DOMAIN edits : edits[n] = j}

\* Callbacks that come after a job was settled are ignored, however late and
\* however often they come, and so is the cron's list of stale jobs: no step
\* takes the job up again, changes it, answers its message once more or edits
\* the course for it.  The owner may delete the course.
SettledStays ==
  [][\A j \in Jobs : Settled(j) =>
       /\ Settled(j)'
       /\ rows'[j] \in {rows[j], [rows[j] EXCEPT !.course = NoCourse]}
       /\ chats'[j] = chats[j]
       /\ EditsMadeBy(j)' = EditsMadeBy(j)]_vars

\* An edit only ever reaches the course its request named, also when that
\* course was deleted and the retried entry finds another one instead.
EditsStayInTheirCourse ==
  \A c \in Courses : \A n \in days[c] \union {courses[c].meta} :
    n # Original => n \in DOMAIN edits /\ CourseOf[edits[n]] = c

\* "Up to five times": modification_count never passes the limit, whatever
\* stale copies of the course requests and completion requests save.
CountWithinLimit ==
  \A c \in Courses : courses[c].count <= MaxModifications

(* What holds while the database answers and the process stays up          *)

WillEnqueue(j) ==
  \/ request[j].pc \in {"inserted", "saved", "addFailed"}
  \/ \E h \in Handlers : handler[h].pc = "enqueue" /\ handler[h].job = j

Queued(j) ==
  \E i \in DOMAIN queue :
    /\ JobOf(i) = j
    /\ \/ queue[i].state = "waiting"
       \/ worker.pc \in {"load", "save"} /\ worker.entry = i

\* ItineraryStatus.enum: "PENDING: waiting (registered in the queue)".  A
\* PENDING job also blocks every further modification of its course.
PendingIsQueued ==
  \A j \in Jobs : rows[j].status = "PENDING" => WillEnqueue(j) \/ Queued(j)

(* What holds while the owner sends one message at a time and Python       *)
(* answers each generation once and in time                                *)

Enqueued(j) == \E i \in DOMAIN queue : JobOf(i) = j

\* modification_count: "number of modification requests".  Each request that
\* reached the queue is counted, so that the limit limits what Python is asked.
RequestsAreCounted ==
  \A c \in Courses \ gone :
    Cardinality({j \in Jobs : CourseOf[j] = c /\ Enqueued(j)}) <= courses[c].count

\* "Prevents concurrent modification": the edit that is committed was made
\* from the days it replaces, so no edit undoes another one unseen.
EditsBuildOnEachOther ==
  [][\A h \in Handlers :
       edits' # edits /\ handler'[h] # handler[h]
       => handler[h].base = days[handler[h].row.course]]_vars

\* "All-or-nothing": the days of a course come from one edit.
DaysFromOneEdit == \A c \in Courses \ gone : Cardinality(days[c]) = 1

\* In that environment a message is answered once.  Two callbacks at once, or a
\* message posted twice, answer it twice.
OneExchangePerJob == \A j \in Jobs : chats[j] <= 1

\* A job that the client is told has failed has left the course alone.
FailedLeavesTheCourse ==
  \A j \in Jobs : rows[j].status = "FAILED" =>
    \A n \in DOMAIN edits : edits[n] # j

(* What the comments promise and the interleavings break                   *)

\* "All-or-nothing": title, dates and length are of the same edit as the days.
PlanIsWhole == \A c \in Courses \ gone : days[c] = {courses[c].meta}

(* Liveness, with the fairness of ItineraryGeneration.                     *)
Fairness ==
  /\ \A j \in Jobs : WF_vars(RequestStep(j)) /\ WF_vars(Age(j))
  /\ \A h \in Handlers : WF_vars(HandlerStep(h))
  /\ WF_vars(WorkerStep)
  /\ WF_vars(Cleanup)

FairSpec == Spec /\ Fairness

\* Whatever Python does, the course is free for the next message in the end:
\* no job of it stays active.
CourseIsFreed ==
  \A c \in Courses : ActiveOf(c) # {} ~> ActiveOf(c) = {}

-----------------------------------------------------------------------------
(* The life of a job as a client that polls its status may expect it       *)

\* The results of a modification are its exchanges in the chat history.
Lifecycle == INSTANCE JobLifecycle WITH
  status  <- [j \in Jobs |-> rows[j].status],
  results <- [j \in Jobs |-> 1..chats[j]]

\* While the owner and Python behave so: a message is answered once, in the step
\* that makes its job SUCCESS, a job that is SUCCESS or FAILED stays it, and only
\* a failure callback takes one back to PENDING, whatever retries, rollbacks and
\* failing saves do.
ImplementsLifecycle == Lifecycle!Spec
=============================================================================
