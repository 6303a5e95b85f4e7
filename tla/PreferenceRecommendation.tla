---------------------- MODULE PreferenceRecommendation ----------------------
(***************************************************************************)
(* Recommending destinations from the first survey of one user: every      *)
(* answer to the survey replaces the user's preference, makes a job and    *)
(* enqueues it; the worker sends it to the Python server, whose callback   *)
(* saves the recommendations; a cron fails jobs that take too long.        *)
(*                                                                         *)
(*   POST /v1/preferences  Find -> Replace -> InsertJob -> Enqueue         *)
(*   worker                Take -> Load -> SaveProcessing -> FindPreference*)
(*                         -> Post -> Ack                                  *)
(*   callback              Begin -> SaveRecommendations -> SaveSuccess     *)
(*                         Begin -> SaveFailure                            *)
(*   cron                  Scan -> Reread -> SaveTimeout, for each job     *)
(*                                                                         *)
(* The n-th answer makes preference n and job n, so one id names all three.*)
(* Users do not share rows, so one user is enough.                         *)
(***************************************************************************)
EXTENDS BullQueue, FiniteSets

CONSTANTS
  Answers,    \* answers to the survey
  Handlers,   \* callback requests the server may be working on at once
  Offers,     \* how many destinations a success callback may carry
  MaxSaved,   \* recommendations kept of one callback (5 in the code)
  FaultSets   \* the environments of this instance, as sets of faults

FaultKinds ==
  { "queueAdd",     \* queue.add rejects and the entry is not in Redis
    "queueAck",     \* queue.add rejects although the entry is in Redis
    "dbRead",       \* a SELECT fails
    "dbWrite",      \* an INSERT or UPDATE fails
    "postLost",     \* the POST to Python fails and Python never sees it
    "postTimeout",  \* the POST fails (10 s) although Python accepted it
    "callbackLost", \* Python gives up without a callback
    "slow",         \* a job stays PROCESSING for more than 10 minutes
    "crash" }       \* the server process restarts

ASSUME RecommendationAssumption ==
  /\ Offers \subseteq Nat
  /\ MaxSaved \in Nat
  /\ FaultSets \subseteq SUBSET FaultKinds

VARIABLES
  faults,      \* what may go wrong, fixed for a behaviour
  preference,  \* ids in user_preference_table (user_id is unique)
  rows,        \* preference_job_table: the status of each job
  recs,        \* preference_recommendation_table: rows, and saves that made them
  aged,        \* jobs whose started_at lies more than ten minutes back
  tasks,       \* recommendations Python has accepted and not yet called back
  request, worker, handler, cron  \* code in flight

vars == <<faults, preference, rows, recs, aged, queue, tasks,
          request, worker, handler, cron>>

tables == <<faults, preference, rows, recs, aged>>

Statuses == {"PENDING", "PROCESSING", "SUCCESS", "FAILED"}
Terminal == {"SUCCESS", "FAILED"}

Idle == [pc |-> "idle"]

NoRecs == [saves |-> 0, rows |-> 0]

Entry == EntryOf(Answers)

Task == [entry : Nat \ {0}, run : Nat]

TypeOK ==
  /\ faults \in FaultSets
  /\ preference \in SUBSET Answers
  /\ rows \in [Answers -> Statuses \union {"ABSENT"}]
  /\ recs \in [Answers -> [saves : Nat, rows : Nat]]
  /\ aged \in SUBSET Answers
  /\ queue \in Seq(Entry)
  /\ tasks \in SUBSET Task
  /\ \A t \in tasks : t.entry \in DOMAIN queue
  /\ request \in [Answers ->
       [pc : {"new", "stored", "saved", "addFailed", "done"}]
       \union [pc : {"found"}, seen : SUBSET Answers]]
  /\ worker \in {Idle}
       \union [pc : {"load"}, entry : DOMAIN queue]
       \union [pc : {"save", "find", "post", "posted"},
               entry : DOMAIN queue, row : Statuses]
  /\ handler \in [Handlers -> {Idle}
       \union [pc : {"recs", "mark", "fail"}, job : Answers, row : Statuses]]
  /\ cron \in {Idle}
       \union [pc : {"next"}, todo : SUBSET Answers]
       \union [pc : {"save"}, todo : SUBSET Answers, job : Answers, row : Statuses]

Init ==
  /\ faults \in FaultSets
  /\ preference = {}
  /\ rows = [a \in Answers |-> "ABSENT"]
  /\ recs = [a \in Answers |-> NoRecs]
  /\ aged = {}
  /\ queue = <<>>
  /\ tasks = {}
  /\ request = [a \in Answers |-> [pc |-> "new"]]
  /\ worker = Idle
  /\ handler = [h \in Handlers |-> Idle]
  /\ cron = Idle

-----------------------------------------------------------------------------
(* The job table                                                           *)

Exists(a) == rows[a] # "ABSENT"

\* save(job) reloads the row and updates what differs: the row takes the
\* status of the entity, unless the entity's status is as it was loaded and
\* another write fell between the reload and the UPDATE.
Saves(loaded, status, row) ==
  {status} \union (IF status = loaded THEN {row} ELSE {})

SaveRow(a, loaded, status) ==
  \E s \in Saves(loaded, status, rows[a]) : rows' = [rows EXCEPT ![a] = s]

\* A row that is gone would be inserted again, and its preference is gone too.
SaveThrows(a) == ~Exists(a) \/ "dbWrite" \in faults

\* Mutation: the foreign keys do not cascade.
Replace_KeepsJobs(old, new) ==
  /\ preference' = new
  /\ UNCHANGED <<rows, recs, aged>>

\* DELETE of the old preference takes its jobs, and their recommendations,
\* along (ON DELETE CASCADE); the new one is inserted.
Replace(old, new) ==
  /\ preference' = new
  /\ rows' = [a \in Answers |-> IF a \in old THEN "ABSENT" ELSE rows[a]]
  /\ recs' = [a \in Answers |-> IF a \in old THEN NoRecs ELSE recs[a]]
  /\ aged' = aged \ old

-----------------------------------------------------------------------------
(* POST /v1/preferences: UserPreferenceService.createOrUpdateAndEnqueue    *)

RequestFind(a) ==
  /\ request[a].pc = "new"
  /\ request' = [request EXCEPT ![a] = [pc |-> "found", seen |-> preference]]
  /\ UNCHANGED <<tables, queue, tasks, worker, handler, cron>>

\* The transaction commits.  user_id is unique, so it can only if no other
\* answer has been stored since this one looked.
RequestReplace(a) ==
  /\ request[a].pc = "found"
  /\ preference \subseteq request[a].seen
  /\ Replace(preference, {a})
  /\ request' = [request EXCEPT ![a] = [pc |-> "stored"]]
  /\ UNCHANGED <<faults, queue, tasks, worker, handler, cron>>

RequestReplaceFails(a) ==
  /\ request[a].pc = "found"
  /\ ~(preference \subseteq request[a].seen) \/ "dbWrite" \in faults
  /\ request' = [request EXCEPT ![a] = [pc |-> "done"]]
  /\ UNCHANGED <<tables, queue, tasks, worker, handler, cron>>

RequestInsertJob(a) ==
  /\ request[a].pc = "stored"
  /\ a \in preference
  /\ rows' = [rows EXCEPT ![a] = "PENDING"]
  /\ request' = [request EXCEPT ![a] = [pc |-> "saved"]]
  /\ UNCHANGED <<faults, preference, recs, aged, queue, tasks, worker, handler, cron>>

\* The preference has been replaced already, so the foreign key refuses the job.
RequestInsertJobFails(a) ==
  /\ request[a].pc = "stored"
  /\ a \notin preference \/ "dbWrite" \in faults
  /\ request' = [request EXCEPT ![a] = [pc |-> "done"]]
  /\ UNCHANGED <<tables, queue, tasks, worker, handler, cron>>

RequestEnqueue(a) ==
  /\ request[a].pc = "saved"
  /\ Add(a)
  /\ request' = [request EXCEPT ![a] = [pc |-> "done"]]
  /\ UNCHANGED <<tables, tasks, worker, handler, cron>>

RequestEnqueueFails(a) ==
  /\ request[a].pc = "saved"
  /\ \/ "queueAdd" \in faults /\ UNCHANGED queue
     \/ "queueAck" \in faults /\ Add(a)
  /\ request' = [request EXCEPT ![a] = [pc |-> "addFailed"]]
  /\ UNCHANGED <<tables, tasks, worker, handler, cron>>

\* Mutation: the catch block only throws on.
RequestSaveFailure_Skipped(a) ==
  /\ request[a].pc = "addFailed"
  /\ Exists(a)
  /\ request' = [request EXCEPT ![a] = [pc |-> "done"]]
  /\ UNCHANGED <<tables, queue, tasks, worker, handler, cron>>

\* The catch block saves the entity it inserted, marked QUEUE_ERROR.
RequestSaveFailure(a) ==
  /\ request[a].pc = "addFailed"
  /\ Exists(a)
  /\ SaveRow(a, "PENDING", "FAILED")
  /\ request' = [request EXCEPT ![a] = [pc |-> "done"]]
  /\ UNCHANGED <<faults, preference, recs, aged, queue, tasks, worker, handler, cron>>

\* The inner catch only logs.
RequestSaveFailureFails(a) ==
  /\ request[a].pc = "addFailed"
  /\ SaveThrows(a)
  /\ request' = [request EXCEPT ![a] = [pc |-> "done"]]
  /\ UNCHANGED <<tables, queue, tasks, worker, handler, cron>>

RequestStep(a) ==
  \/ RequestFind(a) \/ RequestReplace(a) \/ RequestReplaceFails(a)
  \/ RequestInsertJob(a) \/ RequestInsertJobFails(a)
  \/ RequestEnqueue(a) \/ RequestEnqueueFails(a)
  \/ RequestSaveFailure(a) \/ RequestSaveFailureFails(a)

-----------------------------------------------------------------------------
(* BullMQ and PreferenceProcessor.process                                  *)

JobOf(i) == queue[i].data

WorkerTake(i) ==
  /\ worker = Idle
  /\ i \in DOMAIN queue
  /\ queue[i].state = "waiting"
  /\ SetEntry(i, "active")
  /\ worker' = [pc |-> "load", entry |-> i]
  /\ UNCHANGED <<tables, tasks, request, handler, cron>>

\* No status is looked at.
WorkerLoad ==
  /\ worker.pc = "load"
  /\ Exists(JobOf(worker.entry))
  /\ worker' = [pc |-> "save", entry |-> worker.entry, row |-> rows[JobOf(worker.entry)]]
  /\ UNCHANGED <<tables, queue, tasks, request, handler, cron>>

\* The job is gone: process returns, and BullMQ takes that for success.
WorkerDrop ==
  /\ worker.pc = "load"
  /\ ~Exists(JobOf(worker.entry))
  /\ SetEntry(worker.entry, "completed")
  /\ worker' = Idle
  /\ UNCHANGED <<tables, tasks, request, handler, cron>>

WorkerSaveProcessing ==
  LET a == JobOf(worker.entry)
  IN  /\ worker.pc = "save"
      /\ Exists(a)
      /\ SaveRow(a, worker.row, "PROCESSING")
      /\ aged' = aged \ {a}
      /\ worker' = [worker EXCEPT !.pc = "find", !.row = "PROCESSING"]
      /\ UNCHANGED <<faults, preference, recs, queue, tasks, request, handler, cron>>

WorkerFindPreference ==
  /\ worker.pc = "find"
  /\ JobOf(worker.entry) \in preference
  /\ worker' = [worker EXCEPT !.pc = "post"]
  /\ UNCHANGED <<tables, queue, tasks, request, handler, cron>>

\* Python accepts the task; its answer is still under way.
WorkerPost ==
  LET i == worker.entry
  IN  /\ worker.pc = "post"
      /\ tasks' = tasks \union {[entry |-> i, run |-> queue[i].made + queue[i].stalls]}
      /\ worker' = [worker EXCEPT !.pc = "posted"]
      /\ UNCHANGED <<tables, queue, request, handler, cron>>

WorkerAck ==
  /\ worker.pc = "posted"
  /\ SetEntry(worker.entry, "completed")
  /\ worker' = Idle
  /\ UNCHANGED <<tables, tasks, request, handler, cron>>

\* Where process can throw.  With the preference gone its job is gone too, so
\* the save of PREFERENCE_NOT_FOUND violates the foreign key and throws as well.
WorkerCanThrow ==
  \/ worker.pc = "load" /\ "dbRead" \in faults
  \/ worker.pc = "save" /\ SaveThrows(JobOf(worker.entry))
  \/ /\ worker.pc = "find"
     /\ JobOf(worker.entry) \notin preference \/ "dbRead" \in faults
  \/ worker.pc = "post" /\ "postLost" \in faults
  \/ worker.pc = "posted" /\ "postTimeout" \in faults

WorkerThrow ==
  /\ WorkerCanThrow
  /\ queue' = [queue EXCEPT ![worker.entry] = TriedAgain(queue[worker.entry])]
  /\ worker' = Idle
  /\ UNCHANGED <<tables, tasks, request, handler, cron>>

WorkerStep ==
  \/ \E i \in DOMAIN queue : WorkerTake(i)
  \/ WorkerLoad \/ WorkerDrop
  \/ WorkerSaveProcessing \/ WorkerFindPreference
  \/ WorkerPost \/ WorkerAck \/ WorkerThrow

-----------------------------------------------------------------------------
(* The Python server and POST /v1/preferences/jobs/:jobId/result           *)

\* A second callback for a job comes from a second task: its POST timed out, or
\* its entry stalled, after Python had accepted it.
Receive(t) == tasks' = tasks \ {t}

CallbackLost(t) ==
  /\ t \in tasks
  /\ "callbackLost" \in faults
  /\ tasks' = tasks \ {t}
  /\ UNCHANGED <<tables, queue, request, worker, handler, cron>>

\* The job is not found (answered 200 all the same), or the SELECT failed.
CallbackIgnored(t) ==
  /\ t \in tasks
  /\ ~Exists(JobOf(t.entry)) \/ "dbRead" \in faults
  /\ Receive(t)
  /\ UNCHANGED <<tables, queue, request, worker, handler, cron>>

\* Mutation: the check that the job exists is dropped.
CallbackBegin_Unchecked(h, t, pc) ==
  LET a == JobOf(t.entry)
  IN  /\ handler[h] = Idle
      /\ t \in tasks
      /\ Receive(t)
      /\ handler' = [handler EXCEPT ![h] = [pc |-> pc, job |-> a, row |-> rows[a]]]
      /\ UNCHANGED <<tables, queue, request, worker, cron>>

CallbackBegin(h, t, pc) ==
  LET a == JobOf(t.entry)
  IN  /\ handler[h] = Idle
      /\ t \in tasks
      /\ Exists(a)
      /\ Receive(t)
      /\ handler' = [handler EXCEPT ![h] = [pc |-> pc, job |-> a, row |-> rows[a]]]
      /\ UNCHANGED <<tables, queue, request, worker, cron>>

\* Mutation: the job is marked first, the recommendations are saved after.
SuccessBegin_MarksFirst(h, t) == CallbackBegin(h, t, "mark")

\* No status is looked at.
SuccessBegin(h, t) == CallbackBegin(h, t, "recs")

\* A finished job is left alone.
FailureBegin(h, t) ==
  /\ rows[JobOf(t.entry)] \notin Terminal
  /\ CallbackBegin(h, t, "fail")

FailureIgnored(t) ==
  /\ t \in tasks
  /\ rows[JobOf(t.entry)] \in Terminal
  /\ Receive(t)
  /\ UNCHANGED <<tables, queue, request, worker, handler, cron>>

\* The first MaxSaved destinations become rows.  TypeORM saves the list in one
\* transaction; job_id is a foreign key.
SaveRecommendations(h, offered) ==
  LET a    == handler[h].job
      kept == IF offered > MaxSaved THEN MaxSaved ELSE offered
  IN  /\ handler[h].pc = "recs"
      /\ Exists(a)
      /\ recs' = [recs EXCEPT ![a] = [saves |-> @.saves + 1, rows |-> @.rows + kept]]
      /\ handler' = [handler EXCEPT ![h].pc = "mark"]
      /\ UNCHANGED <<faults, preference, rows, aged, queue, tasks, request, worker, cron>>

SaveSuccess(h) ==
  /\ handler[h].pc = "mark"
  /\ Exists(handler[h].job)
  /\ SaveRow(handler[h].job, handler[h].row, "SUCCESS")
  /\ handler' = [handler EXCEPT ![h] = Idle]
  /\ UNCHANGED <<faults, preference, recs, aged, queue, tasks, request, worker, cron>>

SaveFailure(h) ==
  /\ handler[h].pc = "fail"
  /\ Exists(handler[h].job)
  /\ SaveRow(handler[h].job, handler[h].row, "FAILED")
  /\ handler' = [handler EXCEPT ![h] = Idle]
  /\ UNCHANGED <<faults, preference, recs, aged, queue, tasks, request, worker, cron>>

\* Python is answered with an error; what was saved stays saved.
HandlerThrow(h) ==
  /\ handler[h] # Idle
  /\ SaveThrows(handler[h].job)
  /\ handler' = [handler EXCEPT ![h] = Idle]
  /\ UNCHANGED <<tables, queue, tasks, request, worker, cron>>

HandlerStep(h) ==
  \/ \E offered \in Offers : SaveRecommendations(h, offered)
  \/ SaveSuccess(h) \/ SaveFailure(h) \/ HandlerThrow(h)

PythonStep ==
  \E t \in tasks :
    \/ CallbackLost(t) \/ CallbackIgnored(t) \/ FailureIgnored(t)
    \/ \E h \in Handlers : SuccessBegin(h, t) \/ FailureBegin(h, t)

-----------------------------------------------------------------------------
(* PreferenceJobCleanupService.detectStaleJobs, every minute               *)

\* Mutation: the wrong status is looked for.
StaleJobs_Pending == {a \in aged : rows[a] = "PENDING"}

StaleJobs == {a \in aged : rows[a] = "PROCESSING"}

CronScan ==
  /\ cron = Idle
  /\ StaleJobs # {}
  /\ cron' = [pc |-> "next", todo |-> StaleJobs]
  /\ UNCHANGED rows

CronReread(a) ==
  /\ cron.pc = "next"
  /\ a \in cron.todo
  /\ rows[a] = "PROCESSING"
  /\ cron' = [pc |-> "save", todo |-> cron.todo \ {a}, job |-> a, row |-> rows[a]]
  /\ UNCHANGED rows

CronSkip(a) ==
  /\ cron.pc = "next"
  /\ a \in cron.todo
  /\ rows[a] # "PROCESSING"
  /\ cron' = [cron EXCEPT !.todo = @ \ {a}]
  /\ UNCHANGED rows

CronSaveTimeout ==
  /\ cron.pc = "save"
  /\ Exists(cron.job)
  /\ SaveRow(cron.job, cron.row, "FAILED")
  /\ cron' = [pc |-> "next", todo |-> cron.todo]

\* A query that throws ends this minute's run.
CronEnd ==
  /\ \/ cron.pc = "next" /\ (cron.todo = {} \/ "dbRead" \in faults)
     \/ cron.pc = "save" /\ SaveThrows(cron.job)
  /\ cron' = Idle
  /\ UNCHANGED rows

Cleanup ==
  /\ \/ CronScan \/ CronSaveTimeout \/ CronEnd
     \/ \E a \in Answers : CronReread(a) \/ CronSkip(a)
  /\ UNCHANGED <<faults, preference, recs, aged, queue, tasks, request, worker, handler>>

-----------------------------------------------------------------------------
(* The environment                                                         *)

\* Ten minutes pass since started_at; the worker needs seconds.
Age(a) ==
  /\ "slow" \in faults
  /\ rows[a] = "PROCESSING"
  /\ a \notin aged
  /\ worker # Idle => JobOf(worker.entry) # a
  /\ aged' = aged \union {a}
  /\ UNCHANGED <<faults, preference, rows, recs, queue, tasks,
                 request, worker, handler, cron>>

\* The process restarts: code in flight is lost, Postgres and Redis are not.
Crash ==
  /\ "crash" \in faults
  /\ request' = [a \in Answers |->
       IF request[a].pc = "new" THEN request[a] ELSE [pc |-> "done"]]
  /\ StallActive
  /\ worker' = Idle
  /\ handler' = [h \in Handlers |-> Idle]
  /\ cron' = Idle
  /\ UNCHANGED <<tables, tasks>>

Next ==
  \/ \E a \in Answers : RequestStep(a) \/ Age(a)
  \/ \E h \in Handlers : HandlerStep(h)
  \/ WorkerStep \/ PythonStep \/ Cleanup \/ Crash

Spec == Init /\ [][Next]_vars

-----------------------------------------------------------------------------
(* What holds whatever the environment does                                *)

\* A job that reports SUCCESS has its recommendations: handleSuccess saves them
\* before it marks the job, and neither a stale save of the worker, the cron or
\* another callback, nor a new answer, separates the two.
SuccessHasRecommendations ==
  \A a \in Answers : rows[a] = "SUCCESS" => recs[a].saves > 0

\* However answers, workers and callbacks overlap, everything in the tables
\* belongs to the one preference the user has: no job and no recommendation of
\* an answer that was replaced is left over or comes back.
OnlyTheLatestAnswerCounts ==
  /\ Cardinality(preference) <= 1
  /\ \A a \in Answers \ preference : rows[a] = "ABSENT" /\ recs[a] = NoRecs

(* What holds while the database answers, queue.add tells the truth and    *)
(* the process stays up                                                    *)

Dependable == faults \intersect {"queueAck", "dbRead", "dbWrite", "crash"} = {}

Queued(a) ==
  \E i \in DOMAIN queue :
    /\ JobOf(i) = a
    /\ \/ queue[i].state = "waiting"
       \/ worker.pc \in {"load", "save"} /\ worker.entry = i

\* A PENDING job has an entry the worker has yet to process, or a request that
\* adds one or marks the job failed.
PendingIsQueued ==
  Dependable =>
    \A a \in Answers :
      rows[a] = "PENDING" => request[a].pc \in {"saved", "addFailed"} \/ Queued(a)

-----------------------------------------------------------------------------
(* Liveness                                                                *)

Fairness ==
  /\ \A a \in Answers : WF_vars(RequestStep(a)) /\ WF_vars(Age(a))
  /\ \A h \in Handlers : WF_vars(HandlerStep(h))
  /\ WF_vars(WorkerStep)
  /\ WF_vars(Cleanup)

FairSpec == Spec /\ Fairness

\* Whatever Python does, the client that polls a job sees it finish, unless the
\* user answers the survey again.
JobsFinish ==
  \A a \in Answers :
    Dependable /\ "slow" \in faults /\ Exists(a) ~> [](rows[a] \in Terminal \union {"ABSENT"})

-----------------------------------------------------------------------------
(* What a user who answers again, and polls, may expect                    *)

\* Nothing makes Python answer a job twice, and no job is slow.
Orderly == faults \intersect {"queueAck", "postTimeout", "slow", "crash"} = {}

LatestOnly == INSTANCE LatestAnswer WITH
  orderly  <- Orderly,
  answered <- {a \in Answers : request[a].pc \notin {"new", "found"}},
  latest   <- preference,
  status   <- rows,
  saved    <- [a \in Answers |-> recs[a].saves]

\* However answers, workers and callbacks overlap, jobs and recommendations are
\* those of the latest answer alone, and none of a replaced one comes back; where
\* nothing is repeated or slow, a job ends once and is not touched after.
ImplementsLatestAnswer == LatestOnly!Spec
=============================================================================
