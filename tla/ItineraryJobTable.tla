-------------------------- MODULE ItineraryJobTable --------------------------
(***************************************************************************)
(* itinerary_job_table and ItineraryJobCleanupService, the cron that every *)
(* minute fails the jobs, of either type, that are PROCESSING for more     *)
(* than ten minutes.  Generation and modification share both.              *)
(***************************************************************************)
EXTENDS FiniteSets, ItineraryJobRow

CONSTANTS
  Jobs,   \* ids of the jobs; the request that creates job j is named j
  Faults  \* what the environment may do wrong in this instance

FaultKinds ==
  { "queueAdd",     \* queue.add rejects and the entry is not in Redis
    "queueAck",     \* queue.add rejects although the entry is in Redis
    "dbRead",       \* a SELECT fails
    "dbWrite",      \* an INSERT or UPDATE fails
    "postLost",     \* the POST to Python fails and Python never sees it
    "postTimeout",  \* the POST fails (10 s) although Python accepted it
    "callbackLost", \* Python gives up without a usable callback
    "duplicate",    \* Python delivers a callback more than once
    "rollback",     \* the success transaction throws
    "slow",         \* a job stays PROCESSING for more than 10 minutes
    "crash",        \* the server process restarts
    "surveyGone",   \* a survey row is removed, its jobs by ON DELETE CASCADE
    "courseGone",   \* a course is deleted
    "overlap" }     \* a user sends a request before the last one is answered

VARIABLES
  rows,  \* the table
  gone,  \* courses that are deleted
  aged,  \* jobs whose started_at lies more than ten minutes back
  cron   \* detectStaleJobs in flight

Idle == [pc |-> "idle"]

MaybeRow == Row \union {Absent}

Exists(j) == rows[j].status # "ABSENT"

\* repository.save(e) of an existing row, e having been loaded as `loaded`.
\* The foreign key admits no course that is gone.
SaveRow(j, loaded, e) ==
  \E r \in Saves(loaded, e, rows[j]) :
    r.course \notin gone /\ rows' = [rows EXCEPT ![j] = r]

\* The database rejects the save: a row that is gone would be inserted with a
\* survey_id that is gone as well, or the entity names a course that is gone.
SaveThrows(j, e) ==
  ~Exists(j) \/ e.course \in gone \/ "dbWrite" \in Faults

\* Mutation: started_at is not compared.
StaleJobs_AnyAge == {j \in Jobs : rows[j].status = "PROCESSING"}

\* Mutation: the wrong status is looked for.
StaleJobs_Pending == {j \in aged : rows[j].status = "PENDING"}

StaleJobs == {j \in aged : rows[j].status = "PROCESSING"}

CronScan ==
  /\ cron = Idle
  /\ StaleJobs # {}
  /\ cron' = [pc |-> "next", todo |-> StaleJobs]
  /\ UNCHANGED rows

\* Mutation: the status is not looked at again.
CronReread_Blindly(j) ==
  /\ cron.pc = "next"
  /\ j \in cron.todo
  /\ Exists(j)
  /\ cron' = [pc |-> "save", todo |-> cron.todo \ {j}, job |-> j, row |-> rows[j]]
  /\ UNCHANGED rows

CronReread(j) ==
  /\ cron.pc = "next"
  /\ j \in cron.todo
  /\ rows[j].status = "PROCESSING"
  /\ cron' = [pc |-> "save", todo |-> cron.todo \ {j}, job |-> j, row |-> rows[j]]
  /\ UNCHANGED rows

CronSkip(j) ==
  /\ cron.pc = "next"
  /\ j \in cron.todo
  /\ rows[j].status # "PROCESSING" \/ "dbRead" \in Faults
  /\ cron' = [cron EXCEPT !.todo = @ \ {j}]
  /\ UNCHANGED rows

\* The save; the Redis message published after it has no subscriber.
CronSaveTimeout ==
  /\ cron.pc = "save"
  /\ Exists(cron.job)
  /\ SaveRow(cron.job, cron.row, MarkFailed(cron.row, "TIMEOUT"))
  /\ cron' = [pc |-> "next", todo |-> cron.todo]

\* A save that throws ends this minute's run.
CronEnd ==
  /\ \/ cron.pc = "next" /\ cron.todo = {}
     \/ cron.pc = "save" /\ SaveThrows(cron.job, cron.row)
  /\ cron' = Idle
  /\ UNCHANGED rows

CronStep ==
  \/ CronScan \/ CronSaveTimeout \/ CronEnd
  \/ \E j \in Jobs : CronReread(j) \/ CronSkip(j)

\* DELETE of a course: travel_course_id is ON DELETE SET NULL.
DeleteCourse(c) ==
  /\ gone' = gone \union {c}
  /\ rows' = [j \in Jobs |->
       IF rows[j].course = c THEN [rows[j] EXCEPT !.course = NoCourse] ELSE rows[j]]

\* Ten minutes pass since started_at.
GrowsOld(j) ==
  /\ "slow" \in Faults
  /\ rows[j].status = "PROCESSING"
  /\ j \notin aged
  /\ aged' = aged \union {j}
=============================================================================
