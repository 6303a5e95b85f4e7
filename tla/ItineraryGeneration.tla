------------------------- MODULE ItineraryGeneration -------------------------
(***************************************************************************)
(* Generating an itinerary: the request that creates the job, the BullMQ   *)
(* queue and its worker, the Python LLM server, its callbacks and the      *)
(* cleanup cron.  One action is one stretch of code between two awaits, so *)
(* that every object a handler loaded may be stale when it is saved.       *)
(*                                                                         *)
(*   POST /itineraries   Check -> Insert -> Enqueue                        *)
(*   worker              Take -> Load -> SaveProcessing -> FindSurvey      *)
(*                       -> Post -> Ack                                    *)
(*   callback            Begin -> CommitCourse                             *)
(*                       Begin -> SaveRetry -> ReEnqueue | SaveFailure     *)
(*   cron                Scan -> Reread -> SaveTimeout, for each stale job *)
(***************************************************************************)
EXTENDS BullQueue, ItineraryJobTable

CONSTANTS
  Surveys,
  SurveyOf,  \* the survey a job's request names
  Handlers,  \* callback requests the server may be working on at once
  MaxRetry,  \* MAX_RETRY_COUNT of the callback service (1 in the code)
  MaxCourses \* bound: courses ever made

ASSUME ConstantsAssumption ==
  /\ SurveyOf \in [Jobs -> Surveys]
  /\ MaxRetry \in Nat
  /\ MaxCourses \in Nat
  /\ Faults \subseteq FaultKinds

VARIABLES
  surveys,  \* ids in the survey table
  linked,   \* CourseSurvey.travelCourseId
  courses,  \* every course ever made: courses[n] is the job that made course n
  tasks,    \* generations Python has accepted and not yet called back
  request, worker, handler  \* code in flight, besides the cron

vars == <<rows, gone, aged, surveys, linked, courses, queue, tasks,
          request, worker, handler, cron>>

tables == <<rows, gone, aged, surveys, linked, courses>>

Entry == EntryOf(Jobs)

Task == [entry : Nat \ {0}, run : Nat]

TypeOK ==
  /\ rows \in [Jobs -> MaybeRow]
  /\ gone \in SUBSET DOMAIN courses
  /\ aged \in SUBSET Jobs
  /\ surveys \in SUBSET Surveys
  /\ linked \in [Surveys -> Nat]
  /\ courses \in Seq(Jobs)
  /\ queue \in Seq(Entry)
  /\ tasks \in SUBSET Task
  /\ \A t \in tasks : t.entry \in DOMAIN queue
  /\ request \in [Jobs -> {"new", "checked", "saved", "addFailed", "done"}]
  /\ worker \in {Idle}
       \union [pc : {"load"}, entry : DOMAIN queue]
       \union [pc : {"save", "survey", "post", "posted"},
               entry : DOMAIN queue, row : Row]
  /\ handler \in [Handlers -> {Idle}
       \union [pc : {"course", "retry", "enqueue", "fail"}, job : Jobs, row : Row]]
  /\ cron \in {Idle}
       \union [pc : {"next"}, todo : SUBSET Jobs]
       \union [pc : {"save"}, todo : SUBSET Jobs, job : Jobs, row : Row]

Init ==
  /\ rows = [j \in Jobs |-> Absent]
  /\ gone = {}
  /\ aged = {}
  /\ surveys = Surveys
  /\ linked = [s \in Surveys |-> NoCourse]
  /\ courses = <<>>
  /\ queue = <<>>
  /\ tasks = {}
  /\ request = [j \in Jobs |-> "new"]
  /\ worker = Idle
  /\ handler = [h \in Handlers |-> Idle]
  /\ cron = Idle

-----------------------------------------------------------------------------
(* POST /itineraries: ItineraryService.createItinerary                     *)

ActiveJobs(s) ==
  {j \in Jobs : SurveyOf[j] = s /\ rows[j].status \in Active}

RequestCheck(j) ==
  /\ request[j] = "new"
  /\ SurveyOf[j] \in surveys
  /\ ActiveJobs(SurveyOf[j]) = {}
  /\ request' = [request EXCEPT ![j] = "checked"]
  /\ UNCHANGED <<tables, queue, tasks, worker, handler, cron>>

\* SurveyNotFoundException, ItineraryJobAlreadyProcessingException.
RequestReject(j) ==
  /\ request[j] = "new"
  /\ \/ SurveyOf[j] \notin surveys
     \/ ActiveJobs(SurveyOf[j]) # {}
  /\ request' = [request EXCEPT ![j] = "done"]
  /\ UNCHANGED <<tables, queue, tasks, worker, handler, cron>>

RequestInsert(j) ==
  /\ request[j] = "checked"
  /\ SurveyOf[j] \in surveys
  /\ rows' = [rows EXCEPT ![j] = NewJob(NoCourse)]
  /\ request' = [request EXCEPT ![j] = "saved"]
  /\ UNCHANGED <<gone, aged, surveys, linked, courses, queue, tasks, worker, handler, cron>>

RequestInsertFails(j) ==
  /\ request[j] = "checked"
  /\ SurveyOf[j] \notin surveys \/ "dbWrite" \in Faults
  /\ request' = [request EXCEPT ![j] = "done"]
  /\ UNCHANGED <<tables, queue, tasks, worker, handler, cron>>

RequestEnqueue(j) ==
  /\ request[j] = "saved"
  /\ Add(j)
  /\ request' = [request EXCEPT ![j] = "done"]
  /\ UNCHANGED <<tables, tasks, worker, handler, cron>>

AddRejected(j) ==
  \/ "queueAdd" \in Faults /\ UNCHANGED queue
  \/ "queueAck" \in Faults /\ Add(j)

RequestEnqueueFails(j) ==
  /\ request[j] = "saved"
  /\ AddRejected(j)
  /\ request' = [request EXCEPT ![j] = "addFailed"]
  /\ UNCHANGED <<tables, tasks, worker, handler, cron>>

\* The catch block saves the entity it inserted, marked QUEUE_ERROR.
RequestSaveFailure(j) ==
  /\ request[j] = "addFailed"
  /\ Exists(j)
  /\ SaveRow(j, NewJob(NoCourse), MarkFailed(NewJob(NoCourse), "QUEUE_ERROR"))
  /\ request' = [request EXCEPT ![j] = "done"]
  /\ UNCHANGED <<gone, aged, surveys, linked, courses, queue, tasks, worker, handler, cron>>

\* The inner catch only logs.
RequestSaveFailureFails(j) ==
  /\ request[j] = "addFailed"
  /\ ~Exists(j) \/ "dbWrite" \in Faults
  /\ request' = [request EXCEPT ![j] = "done"]
  /\ UNCHANGED <<tables, queue, tasks, worker, handler, cron>>

RequestStep(j) ==
  \/ RequestCheck(j) \/ RequestReject(j)
  \/ RequestInsert(j) \/ RequestInsertFails(j)
  \/ RequestEnqueue(j) \/ RequestEnqueueFails(j)
  \/ RequestSaveFailure(j) \/ RequestSaveFailureFails(j)

-----------------------------------------------------------------------------
(* BullMQ and ItineraryProcessor.process.  One server process runs one     *)
(* worker with concurrency 1, so entries are processed one at a time.      *)

JobOf(i) == queue[i].data

WorkerTake(i) ==
  /\ worker = Idle
  /\ i \in DOMAIN queue
  /\ queue[i].state = "waiting"
  /\ SetEntry(i, "active")
  /\ worker' = [pc |-> "load", entry |-> i]
  /\ UNCHANGED <<tables, tasks, request, handler, cron>>

\* No status is looked at: an entry of a finished job is processed as well.
WorkerLoad ==
  /\ worker.pc = "load"
  /\ Exists(JobOf(worker.entry))
  /\ worker' = [pc |-> "save", entry |-> worker.entry,
                row |-> rows[JobOf(worker.entry)]]
  /\ UNCHANGED <<tables, queue, tasks, request, handler, cron>>

\* findById answers null for a missing row and for a QueryFailedError alike;
\* process returns, and BullMQ takes that for success.
WorkerDrop ==
  /\ worker.pc = "load"
  /\ ~Exists(JobOf(worker.entry)) \/ "dbRead" \in Faults
  /\ SetEntry(worker.entry, "completed")
  /\ worker' = Idle
  /\ UNCHANGED <<tables, tasks, request, handler, cron>>

WorkerSaveProcessing ==
  LET j == JobOf(worker.entry)
      e == IncrementAttempt(MarkProcessing(worker.row))
  IN  /\ worker.pc = "save"
      /\ Exists(j)
      /\ SaveRow(j, worker.row, e)
      /\ aged' = aged \ {j}
      /\ worker' = [worker EXCEPT !.pc = "survey", !.row = e]
      /\ UNCHANGED <<gone, surveys, linked, courses, queue, tasks, request, handler, cron>>

WorkerFindSurvey ==
  /\ worker.pc = "survey"
  /\ SurveyOf[JobOf(worker.entry)] \in surveys
  /\ worker' = [worker EXCEPT !.pc = "post"]
  /\ UNCHANGED <<tables, queue, tasks, request, handler, cron>>

\* Python accepts the generation; its answer is still under way.
WorkerPost ==
  LET i == worker.entry
  IN  /\ worker.pc = "post"
      /\ tasks' = tasks \union {[entry |-> i, run |-> queue[i].made + queue[i].stalls]}
      /\ worker' = [worker EXCEPT !.pc = "posted"]
      /\ UNCHANGED <<tables, queue, request, handler, cron>>

WorkerAck ==
  /\ worker.pc = "posted"
  /\ SetEntry(worker.entry, "completed")
  /\ worker' = Idle
  /\ UNCHANGED <<tables, tasks, request, handler, cron>>

\* Where process can throw.  With the survey gone its job is gone too, so the
\* save of SURVEY_NOT_FOUND violates the foreign key and throws as well.
WorkerCanThrow ==
  \/ worker.pc = "load" /\ "dbRead" \in Faults
  \/ worker.pc = "save" /\ SaveThrows(JobOf(worker.entry), worker.row)
  \/ /\ worker.pc = "survey"
     /\ SurveyOf[JobOf(worker.entry)] \notin surveys \/ "dbRead" \in Faults
  \/ worker.pc = "post" /\ "postLost" \in Faults
  \/ worker.pc = "posted" /\ "postTimeout" \in Faults

WorkerThrow ==
  /\ WorkerCanThrow
  /\ queue' = [queue EXCEPT ![worker.entry] = TriedAgain(queue[worker.entry])]
  /\ worker' = Idle
  /\ UNCHANGED <<tables, tasks, request, handler, cron>>

WorkerStep ==
  \/ \E i \in DOMAIN queue : WorkerTake(i)
  \/ WorkerLoad \/ WorkerDrop
  \/ WorkerSaveProcessing \/ WorkerFindSurvey
  \/ WorkerPost \/ WorkerAck \/ WorkerThrow

-----------------------------------------------------------------------------
(* The Python server and POST /itineraries/:jobId/result                   *)

Receive(t) ==
  \/ tasks' = tasks \ {t}
  \/ "duplicate" \in Faults /\ UNCHANGED tasks

\* Python crashes, gives up, or calls back with SUCCESS and no data or FAILED and
\* no error, which handleCallback answers with 200 and ignores.
CallbackLost(t) ==
  /\ t \in tasks
  /\ "callbackLost" \in Faults
  /\ tasks' = tasks \ {t}
  /\ UNCHANGED <<tables, queue, request, worker, handler, cron>>

\* ItineraryJobNotFoundException, or the job is already finished.
CallbackIgnored(t) ==
  /\ t \in tasks
  /\ rows[JobOf(t.entry)].status \notin Active \/ "dbRead" \in Faults
  /\ Receive(t)
  /\ UNCHANGED <<tables, queue, request, worker, handler, cron>>

\* Mutation: the check that the job exists is dropped.
CallbackBegin_Unchecked(h, t, pc) ==
  LET j == JobOf(t.entry)
  IN  /\ handler[h] = Idle
      /\ t \in tasks
      /\ rows[j].status \notin Terminal
      /\ Receive(t)
      /\ handler' = [handler EXCEPT ![h] = [pc |-> pc, job |-> j, row |-> rows[j]]]
      /\ UNCHANGED <<tables, queue, request, worker, cron>>

\* Mutation: a finished job is not left alone.
CallbackBegin_Again(h, t, pc) ==
  LET j == JobOf(t.entry)
  IN  /\ handler[h] = Idle
      /\ t \in tasks
      /\ Exists(j)
      /\ Receive(t)
      /\ handler' = [handler EXCEPT ![h] = [pc |-> pc, job |-> j, row |-> rows[j]]]
      /\ UNCHANGED <<tables, queue, request, worker, cron>>

CallbackBegin(h, t, pc) ==
  LET j == JobOf(t.entry)
  IN  /\ handler[h] = Idle
      /\ t \in tasks
      /\ rows[j].status \in Active
      /\ Receive(t)
      /\ handler' = [handler EXCEPT ![h] = [pc |-> pc, job |-> j, row |-> rows[j]]]
      /\ UNCHANGED <<tables, queue, request, worker, cron>>

SuccessBegin(h, t) == CallbackBegin(h, t, "course")

\* Mutation: off by one in the retry budget.
FailureBegin_OneMore(h, t) ==
  CallbackBegin(h, t,
    IF rows[JobOf(t.entry)].attempts <= MaxRetry + 1 THEN "retry" ELSE "fail")

FailureBegin(h, t) ==
  CallbackBegin(h, t,
    IF rows[JobOf(t.entry)].attempts <= MaxRetry THEN "retry" ELSE "fail")

\* Mutation: a survey keeps the first course it was given.
CommitCourse_FirstWins(h) ==
  LET j == handler[h].job
      c == Len(courses) + 1
  IN  /\ handler[h].pc = "course"
      /\ Exists(j)
      /\ Len(courses) < MaxCourses
      /\ courses' = Append(courses, j)
      /\ SaveRow(j, handler[h].row, MarkSuccess(handler[h].row, c))
      /\ linked' = [linked EXCEPT ![SurveyOf[j]] = IF @ = NoCourse THEN c ELSE @]
      /\ handler' = [handler EXCEPT ![h] = Idle]
      /\ UNCHANGED <<gone, aged, surveys, queue, tasks, request, worker, cron>>

\* The transaction of handleSuccess.  It does not look at the job again.
CommitCourse(h) ==
  LET j == handler[h].job
      c == Len(courses) + 1
  IN  /\ handler[h].pc = "course"
      /\ Exists(j)
      /\ Len(courses) < MaxCourses
      /\ courses' = Append(courses, j)
      /\ SaveRow(j, handler[h].row, MarkSuccess(handler[h].row, c))
      /\ linked' = [linked EXCEPT ![SurveyOf[j]] = c]
      /\ handler' = [handler EXCEPT ![h] = Idle]
      /\ UNCHANGED <<gone, aged, surveys, queue, tasks, request, worker, cron>>

SaveRetry(h) ==
  LET j == handler[h].job
  IN  /\ handler[h].pc = "retry"
      /\ Exists(j)
      /\ SaveRow(j, handler[h].row, ResetForRetry(handler[h].row))
      /\ aged' = IF rows'[j].status = "PENDING" THEN aged \ {j} ELSE aged
      /\ handler' = [handler EXCEPT ![h].pc = "enqueue"]
      /\ UNCHANGED <<gone, surveys, linked, courses, queue, tasks, request, worker, cron>>

\* Mutation: the queue drops a second entry with the same job id.
ReEnqueue_Deduplicated(h) ==
  /\ handler[h].pc = "enqueue"
  /\ UNCHANGED queue
  /\ handler' = [handler EXCEPT ![h] = Idle]
  /\ UNCHANGED <<tables, tasks, request, worker, cron>>

ReEnqueue(h) ==
  /\ handler[h].pc = "enqueue"
  /\ Add(handler[h].job)
  /\ handler' = [handler EXCEPT ![h] = Idle]
  /\ UNCHANGED <<tables, tasks, request, worker, cron>>

SaveFailure(h) ==
  LET j == handler[h].job
  IN  /\ handler[h].pc = "fail"
      /\ Exists(j)
      /\ SaveRow(j, handler[h].row, MarkFailed(handler[h].row, "LLM_ERROR"))
      /\ handler' = [handler EXCEPT ![h] = Idle]
      /\ UNCHANGED <<gone, aged, surveys, linked, courses, queue, tasks, request, worker, cron>>

\* The handler throws: Python is answered with an error and nothing is undone
\* except the transaction.  queue.add has no catch block here.
HandlerThrow(h) ==
  /\ \/ handler[h].pc = "course" /\ "rollback" \in Faults /\ UNCHANGED queue
     \/ /\ handler[h].pc = "course"
        /\ ~Exists(handler[h].job) \/ "dbWrite" \in Faults
        /\ UNCHANGED queue
     \/ /\ handler[h].pc \in {"retry", "fail"}
        /\ SaveThrows(handler[h].job, handler[h].row)
        /\ UNCHANGED queue
     \/ handler[h].pc = "enqueue" /\ AddRejected(handler[h].job)
  /\ handler' = [handler EXCEPT ![h] = Idle]
  /\ UNCHANGED <<tables, tasks, request, worker, cron>>

HandlerStep(h) ==
  \/ CommitCourse(h) \/ SaveRetry(h) \/ ReEnqueue(h) \/ SaveFailure(h)
  \/ HandlerThrow(h)

PythonStep ==
  \E t \in tasks :
    \/ CallbackLost(t) \/ CallbackIgnored(t)
    \/ \E h \in Handlers : SuccessBegin(h, t) \/ FailureBegin(h, t)

-----------------------------------------------------------------------------
(* ItineraryJobCleanupService.detectStaleJobs, every minute                *)

Cleanup ==
  /\ CronStep
  /\ UNCHANGED <<gone, aged, surveys, linked, courses, queue, tasks,
                 request, worker, handler>>

-----------------------------------------------------------------------------
(* The environment                                                         *)

\* A worker needs seconds, so ten minutes do not pass while it is at work on
\* the job.
Age(j) ==
  /\ GrowsOld(j)
  /\ worker # Idle => JobOf(worker.entry) # j
  /\ UNCHANGED <<rows, gone, surveys, linked, courses, queue, tasks,
                 request, worker, handler, cron>>

\* TravelCourseService.deleteCourse; course_id of the survey is set null too.
CourseGone(c) ==
  /\ "courseGone" \in Faults
  /\ c \notin gone
  /\ DeleteCourse(c)
  /\ linked' = [s \in Surveys |-> IF linked[s] = c THEN NoCourse ELSE linked[s]]
  /\ UNCHANGED <<aged, surveys, courses, queue, tasks, request, worker, handler, cron>>

SurveyGone(s) ==
  /\ "surveyGone" \in Faults
  /\ s \in surveys
  /\ surveys' = surveys \ {s}
  /\ rows' = [j \in Jobs |-> IF SurveyOf[j] = s THEN Absent ELSE rows[j]]
  /\ aged' = {j \in aged : SurveyOf[j] # s}
  /\ UNCHANGED <<gone, linked, courses, queue, tasks, request, worker, handler, cron>>

\* The process restarts: code in flight is lost, Postgres and Redis are not.
\* BullMQ notices that the active entry stalled and queues it again, once.
Crash ==
  /\ "crash" \in Faults
  /\ request' = [j \in Jobs |-> IF request[j] = "new" THEN "new" ELSE "done"]
  /\ StallActive
  /\ worker' = Idle
  /\ handler' = [h \in Handlers |-> Idle]
  /\ cron' = Idle
  /\ UNCHANGED <<tables, tasks>>

Next ==
  \/ \E j \in Jobs : RequestStep(j) \/ Age(j)
  \/ \E h \in Handlers : HandlerStep(h)
  \/ \E s \in Surveys : SurveyGone(s)
  \/ \E c \in DOMAIN courses : CourseGone(c)
  \/ WorkerStep \/ PythonStep \/ Cleanup \/ Crash

Spec == Init /\ [][Next]_vars

-----------------------------------------------------------------------------
(* What holds whatever the environment does                                *)

\* A job that reports SUCCESS names a course that a callback for this very job
\* created, or none because the owner has deleted it: the status, the
\* travel_course_id and the course of handleSuccess stay together through every
\* stale save.
SuccessNamesItsCourse ==
  \A j \in Jobs : rows[j].status = "SUCCESS" =>
    \/ rows[j].course \in DOMAIN courses \ gone /\ courses[rows[j].course] = j
    \/ rows[j].course = NoCourse /\ \E n \in gone : courses[n] = j

\* CourseSurvey.travelCourseId is null until a job of the survey has made a
\* course, and from then on names the last course made for that survey, until
\* that one is deleted.
SurveyNamesItsLastCourse ==
  \A s \in Surveys :
    LET made == {n \in DOMAIN courses : SurveyOf[courses[n]] = s}
    IN  \/ made = {} /\ linked[s] = NoCourse
        \/ \E last \in made :
             /\ \A n \in made : n <= last
             /\ linked[s] = IF last \in gone THEN NoCourse ELSE last

\* A finished job that nothing works on: its request was answered, its queue
\* entries are used up, no callback that found it unfinished is under way, and
\* the cron has not re-read it.  Python may still call back any number of times.
Settled(j) ==
  /\ rows[j].status \in Terminal
  /\ request[j] = "done"
  /\ \A i \in DOMAIN queue : JobOf(i) = j => queue[i].state \in {"completed", "failed"}
  /\ worker # Idle => JobOf(worker.entry) # j
  /\ \A h \in Handlers : handler[h] # Idle => handler[h].job # j
  /\ cron.pc = "save" => cron.job # j

CoursesMadeBy(j) == {n \in DOMAIN courses : courses[n] = j}

\* Callbacks that come after a job was settled are ignored, however late and
\* however often they come, and so is the cron's list of stale jobs: no step
\* takes the job up again, changes it or makes it another course.  Its owner may
\* delete its course, and its survey with it.
SettledStays ==
  [][\A j \in Jobs : Settled(j) =>
       \/ rows'[j] = Absent
       \/ /\ Settled(j)'
          /\ rows'[j] \in {rows[j], [rows[j] EXCEPT !.course = NoCourse]}
          /\ CoursesMadeBy(j)' = CoursesMadeBy(j)]_vars

(* What holds while the database answers, queue.add is reliable and the    *)
(* process stays up                                                        *)

WillEnqueue(j) ==
  \/ request[j] \in {"saved", "addFailed"}
  \/ \E h \in Handlers : handler[h].pc = "enqueue" /\ handler[h].job = j

Queued(j) ==
  \E i \in DOMAIN queue :
    /\ JobOf(i) = j
    /\ \/ queue[i].state = "waiting"
       \/ worker.pc \in {"load", "save"} /\ worker.entry = i

\* ItineraryStatus.enum: "PENDING: waiting (registered in the queue)".  A
\* PENDING job has an entry the worker has yet to process, or code in flight
\* that adds one, so no job is left PENDING with nothing that can move it.
PendingIsQueued ==
  \A j \in Jobs : rows[j].status = "PENDING" => WillEnqueue(j) \/ Queued(j)

(* What holds while Python sees a generation once and answers it in time,  *)
(* so that at most one piece of work is under way for a job                *)

\* In that environment SUCCESS and FAILED are final at once.  It delivers no
\* callback twice and gives the cron nothing to do; for those, see SettledStays.
TerminalIsFinal ==
  [][\A j \in Jobs : rows[j].status \in Terminal => rows'[j] = rows[j]]_vars

\* In that environment a job makes at most one course.  Two callbacks at once,
\* or a generation posted twice, make a second one.
OneCoursePerJob ==
  \A m, n \in DOMAIN courses : courses[m] = courses[n] => m = n

EntriesOf(j) == {i \in DOMAIN queue : JobOf(i) = j}

\* "Retry once": a failure callback enqueues a job again MaxRetry times.
RetriesAreBounded ==
  \A j \in Jobs : Cardinality(EntriesOf(j)) <= 1 + MaxRetry

(* Liveness.  The event loop runs every handler it has begun, BullMQ hands *)
(* out waiting entries, and time passes.  Python need never answer.        *)
Fairness ==
  /\ \A j \in Jobs : WF_vars(RequestStep(j)) /\ WF_vars(Age(j))
  /\ \A h \in Handlers : WF_vars(HandlerStep(h))
  /\ WF_vars(WorkerStep)
  /\ WF_vars(Cleanup)

FairSpec == Spec /\ Fairness

\* Whatever Python does, a job that was created is finished in the end, and
\* then stays finished.
JobsFinish ==
  \A j \in Jobs : Exists(j) ~> [](rows[j].status \in Terminal)

-----------------------------------------------------------------------------
(* The life of a job as a client that polls its status may expect it       *)

Lifecycle == INSTANCE JobLifecycle WITH
  status  <- [j \in Jobs |-> rows[j].status],
  results <- [j \in Jobs |-> {n \in DOMAIN courses : courses[n] = j}]

\* While Python sees each generation once and answers it in time: a job is made
\* once, its course in the step that makes it SUCCESS, and a job that is SUCCESS
\* or FAILED stays it, whatever retries, rollbacks and failing saves do.
ImplementsLifecycle == Lifecycle!Spec
=============================================================================
