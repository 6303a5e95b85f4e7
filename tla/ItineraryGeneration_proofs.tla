---------------------- MODULE ItineraryGeneration_proofs ----------------------
(***************************************************************************)
(* Theorems about ItineraryGeneration, for every set of jobs, surveys and  *)
(* concurrent callbacks, every retry limit and every set of faults, except *)
(* that a theorem may ASSUME some faults absent: NothingIsLost,            *)
(* NothingIsRepeated, NothingIsSlow, NothingIsDeleted.                     *)
(***************************************************************************)
EXTENDS ItineraryGeneration, ItineraryJobTable_proofs, BullQueue_proofs,
        FiniteSetTheorems, TLAPS

-----------------------------------------------------------------------------
(* Type correctness                                                        *)

\* The lemmas of the queue and of the job table, for the queue of job ids.
LEMMA GenerationJobType == NewJob(NoCourse) \in Row
  BY NewJobType DEF NoCourse

LEMMA AddJobType ==
  ASSUME TypeOK, NEW j \in Jobs, Add(j)
  PROVE  /\ queue' \in Seq(Entry)
         /\ DOMAIN queue \subseteq DOMAIN queue'
         /\ \A i \in DOMAIN queue : queue'[i] = queue[i]
         /\ \E i \in DOMAIN queue' : JobOf(i)' = j /\ queue'[i].state = "waiting"
<1>1. queue \in Seq(EntryOf(Jobs))
  BY DEF TypeOK, Entry
<1>. QED
  BY <1>1, AddType DEF Entry, JobOf

LEMMA SetJobEntryType ==
  ASSUME TypeOK, NEW i \in DOMAIN queue, NEW state \in EntryStates,
         SetEntry(i, state)
  PROVE  queue' \in Seq(Entry) /\ DOMAIN queue' = DOMAIN queue
  BY SetEntryType DEF TypeOK, Entry

LEMMA RequestType ==
  ASSUME TypeOK, NEW j \in Jobs, RequestStep(j)
  PROVE  TypeOK'
<1>. USE DEF TypeOK, tables
<1>1. CASE RequestCheck(j)
  BY <1>1 DEF RequestCheck
<1>2. CASE RequestReject(j)
  BY <1>2 DEF RequestReject
<1>3. CASE RequestInsert(j)
  BY <1>3, GenerationJobType DEF RequestInsert, MaybeRow
<1>4. CASE RequestInsertFails(j)
  BY <1>4 DEF RequestInsertFails
<1>5. CASE RequestEnqueue(j)
  BY <1>5, AddJobType DEF RequestEnqueue
<1>6. CASE RequestEnqueueFails(j)
  BY <1>6, AddJobType DEF RequestEnqueueFails, AddRejected
<1>7. CASE RequestSaveFailure(j)
  <2>1. MarkFailed(NewJob(NoCourse), "QUEUE_ERROR") \in Row
    BY GenerationJobType, EntityTypes DEF ErrorCodes
  <2>2. rows' \in [Jobs -> MaybeRow]
    BY <1>7, <2>1, GenerationJobType, SaveRowType DEF RequestSaveFailure
  <2>. QED
    BY <1>7, <2>2 DEF RequestSaveFailure
<1>8. CASE RequestSaveFailureFails(j)
  BY <1>8 DEF RequestSaveFailureFails
<1>. QED
  BY <1>1, <1>2, <1>3, <1>4, <1>5, <1>6, <1>7, <1>8 DEF RequestStep

\* A worker that is not idle works on an entry of the queue; past "load" it
\* holds the row it loaded.
LEMMA WorkerFields ==
  ASSUME TypeOK
  PROVE  /\ worker.pc # "idle" => worker.entry \in DOMAIN queue
         /\ worker.pc \notin {"idle", "load"} =>
              worker \in [pc : {"save", "survey", "post", "posted"},
                         entry : DOMAIN queue, row : Row]
<1>1. CASE worker = Idle
  BY <1>1 DEF Idle
<1>2. CASE worker \in [pc : {"load"}, entry : DOMAIN queue]
  BY <1>2
<1>3. CASE worker \in [pc : {"save", "survey", "post", "posted"},
                      entry : DOMAIN queue, row : Row]
  BY <1>3
<1>. QED
  BY <1>1, <1>2, <1>3 DEF TypeOK

LEMMA EntryJob ==
  ASSUME TypeOK, NEW i \in DOMAIN queue
  PROVE  /\ queue[i] \in Entry
         /\ JobOf(i) \in Jobs
         /\ i \in Nat \ {0}
<1>1. queue[i] \in Entry
  BY DEF TypeOK
<1>2. i \in Nat \ {0}
  BY DEF TypeOK
<1>. QED
  BY <1>1, <1>2 DEF Entry, EntryOf, EntryStates, JobOf

LEMMA WorkerType ==
  ASSUME TypeOK, WorkerStep
  PROVE  TypeOK'
<1>. USE DEF TypeOK, tables
<1>0. "active" \in EntryStates /\ "completed" \in EntryStates
  BY DEF EntryStates
<1>1. ASSUME NEW i \in DOMAIN queue, WorkerTake(i) PROVE TypeOK'
  <2>1. queue' \in Seq(Entry) /\ DOMAIN queue' = DOMAIN queue
    BY <1>0, <1>1, SetJobEntryType DEF WorkerTake
  <2>. QED
    BY <1>1, <2>1 DEF WorkerTake
<1>2. CASE WorkerLoad
  <2>1. worker.entry \in DOMAIN queue
    BY <1>2, WorkerFields DEF WorkerLoad
  <2>2. rows[JobOf(worker.entry)] \in Row
    BY <1>2, <2>1, EntryJob, ExistingRow DEF WorkerLoad, Exists
  <2>. QED
    BY <1>2, <2>1, <2>2 DEF WorkerLoad
<1>3. CASE WorkerDrop
  <2>1. worker.entry \in DOMAIN queue
    BY <1>3, WorkerFields DEF WorkerDrop
  <2>2. queue' \in Seq(Entry) /\ DOMAIN queue' = DOMAIN queue
    BY <1>0, <1>3, <2>1, SetJobEntryType DEF WorkerDrop
  <2>. QED
    BY <1>3, <2>2 DEF WorkerDrop
<1>4. CASE WorkerSaveProcessing
  <2>. DEFINE j == JobOf(worker.entry)
              e == IncrementAttempt(MarkProcessing(worker.row))
  <2>1. worker \in [pc : {"save", "survey", "post", "posted"},
                    entry : DOMAIN queue, row : Row]
    BY <1>4, WorkerFields DEF WorkerSaveProcessing
  <2>2. j \in Jobs /\ worker.row \in Row
    BY <2>1, EntryJob
  <2>3. e \in Row
    BY <2>2, EntityTypes
  <2>4. rows' \in [Jobs -> MaybeRow]
    BY <1>4, <2>2, <2>3, SaveRowType DEF WorkerSaveProcessing
  <2>5. worker' \in [pc : {"save", "survey", "post", "posted"},
                     entry : DOMAIN queue, row : Row]
    BY <1>4, <2>1, <2>3 DEF WorkerSaveProcessing
  <2>. QED
    BY <1>4, <2>4, <2>5 DEF WorkerSaveProcessing
<1>5. CASE WorkerFindSurvey
  BY <1>5, WorkerFields DEF WorkerFindSurvey
<1>6. CASE WorkerPost
  <2>1. worker \in [pc : {"save", "survey", "post", "posted"},
                    entry : DOMAIN queue, row : Row]
    BY <1>6, WorkerFields DEF WorkerPost
  <2>2. [entry |-> worker.entry,
         run |-> queue[worker.entry].made + queue[worker.entry].stalls] \in Task
    BY <2>1, EntryJob DEF Task, Entry, EntryOf, EntryStates
  <2>. QED
    BY <1>6, <2>1, <2>2 DEF WorkerPost
<1>7. CASE WorkerAck
  <2>1. worker.entry \in DOMAIN queue
    BY <1>7, WorkerFields DEF WorkerAck
  <2>2. queue' \in Seq(Entry) /\ DOMAIN queue' = DOMAIN queue
    BY <1>0, <1>7, <2>1, SetJobEntryType DEF WorkerAck
  <2>. QED
    BY <1>7, <2>2 DEF WorkerAck
<1>8. CASE WorkerThrow
  <2>1. worker.entry \in DOMAIN queue
    BY <1>8, WorkerFields DEF WorkerThrow, WorkerCanThrow
  <2>2. queue' \in Seq(Entry) /\ DOMAIN queue' = DOMAIN queue
    BY <1>8, <2>1, ThrowType DEF WorkerThrow, Entry
  <2>. QED
    BY <1>8, <2>2 DEF WorkerThrow
<1>. QED
  BY <1>1, <1>2, <1>3, <1>4, <1>5, <1>6, <1>7, <1>8 DEF WorkerStep

\* A callback handler that is at work holds the row it loaded.
LEMMA HandlerFields ==
  ASSUME TypeOK, NEW h \in Handlers, handler[h].pc # "idle"
  PROVE  handler[h] \in [pc : {"course", "retry", "enqueue", "fail"},
                         job : Jobs, row : Row]
  BY DEF TypeOK, Idle

LEMMA HandlerType ==
  ASSUME TypeOK, NEW h \in Handlers, HandlerStep(h)
  PROVE  TypeOK'
<1>. USE DEF TypeOK, tables
<1>1. CASE CommitCourse(h)
  <2>. DEFINE c == Len(courses) + 1
              e == MarkSuccess(handler[h].row, c)
  <2>1. handler[h].job \in Jobs /\ handler[h].row \in Row
    BY <1>1, HandlerFields DEF CommitCourse
  <2>2. c \in Nat
    OBVIOUS
  <2>3. e \in Row
    BY <2>1, <2>2, EntityTypes
  <2>4. rows' \in [Jobs -> MaybeRow]
    BY <1>1, <2>1, <2>3, SaveRowType DEF CommitCourse
  <2>5. linked' \in [Surveys -> Nat]
    BY <1>1, <2>2 DEF CommitCourse
  <2>. QED
    BY <1>1, <2>1, <2>4, <2>5 DEF CommitCourse
<1>2. CASE SaveRetry(h)
  <2>1. handler[h].job \in Jobs /\ handler[h].row \in Row
    BY <1>2, HandlerFields DEF SaveRetry
  <2>2. rows' \in [Jobs -> MaybeRow]
    BY <1>2, <2>1, EntityTypes, SaveRowType DEF SaveRetry
  <2>3. handler' \in [Handlers -> {Idle} \union
          [pc : {"course", "retry", "enqueue", "fail"}, job : Jobs, row : Row]]
    BY <1>2, HandlerFields DEF SaveRetry
  <2>. QED
    BY <1>2, <2>1, <2>2, <2>3 DEF SaveRetry
<1>3. CASE ReEnqueue(h)
  <2>1. handler[h].job \in Jobs
    BY <1>3, HandlerFields DEF ReEnqueue
  <2>. QED
    BY <1>3, <2>1, AddJobType DEF ReEnqueue
<1>4. CASE SaveFailure(h)
  <2>1. handler[h].job \in Jobs /\ handler[h].row \in Row
    BY <1>4, HandlerFields DEF SaveFailure
  <2>2. MarkFailed(handler[h].row, "LLM_ERROR") \in Row
    BY <2>1, EntityTypes DEF ErrorCodes
  <2>3. rows' \in [Jobs -> MaybeRow]
    BY <1>4, <2>1, <2>2, SaveRowType DEF SaveFailure
  <2>. QED
    BY <1>4, <2>3 DEF SaveFailure
<1>5. CASE HandlerThrow(h)
  <2>1. CASE UNCHANGED queue
    BY <1>5, <2>1 DEF HandlerThrow
  <2>2. CASE Add(handler[h].job) /\ handler[h].pc = "enqueue"
    <3>1. handler[h].job \in Jobs
      BY <2>2, HandlerFields
    <3>. QED
      BY <1>5, <2>2, <3>1, AddJobType DEF HandlerThrow
  <2>. QED
    BY <1>5, <2>1, <2>2 DEF HandlerThrow, AddRejected
<1>. QED
  BY <1>1, <1>2, <1>3, <1>4, <1>5 DEF HandlerStep

LEMMA PythonType ==
  ASSUME TypeOK, PythonStep
  PROVE  TypeOK'
<1>. USE DEF TypeOK, tables
<1>1. ASSUME NEW t \in tasks, CallbackLost(t) PROVE TypeOK'
  BY <1>1 DEF CallbackLost
<1>2. ASSUME NEW t \in tasks, CallbackIgnored(t) PROVE TypeOK'
  BY <1>2 DEF CallbackIgnored, Receive
<1>3. ASSUME NEW t \in tasks, NEW h \in Handlers,
             NEW pc \in {"course", "retry", "fail"}, CallbackBegin(h, t, pc)
      PROVE  TypeOK'
  <2>. DEFINE j == JobOf(t.entry)
  <2>1. j \in Jobs
    BY EntryJob
  <2>2. rows[j] \in Row
    BY <1>3, <2>1, ExistingRow DEF CallbackBegin, Active
  <2>. HIDE DEF j
  <2>3. handler' = [handler EXCEPT ![h] = [pc |-> pc, job |-> j, row |-> rows[j]]]
    BY <1>3 DEF CallbackBegin, j
  <2>4. handler' \in [Handlers -> {Idle} \union
          [pc : {"course", "retry", "enqueue", "fail"}, job : Jobs, row : Row]]
    BY <2>1, <2>2, <2>3
  <2>. QED
    BY <1>3, <2>4 DEF CallbackBegin, Receive
<1>. QED
  BY <1>1, <1>2, <1>3 DEF PythonStep, SuccessBegin, FailureBegin

LEMMA CronType ==
  ASSUME TypeOK, Cleanup
  PROVE  TypeOK'
<1>1. rows' \in [Jobs -> MaybeRow] /\ cron' \in CronStates
  BY CronStepType DEF Cleanup, TypeOK, CronStates
<1>. QED
  BY <1>1 DEF Cleanup, TypeOK, CronStates

LEMMA CrashType ==
  ASSUME TypeOK, Crash
  PROVE  TypeOK'
<1>1. queue' \in Seq(Entry) /\ DOMAIN queue' = DOMAIN queue
  BY StallType DEF TypeOK, Crash, Entry
<1>2. request' \in [Jobs -> {"new", "checked", "saved", "addFailed", "done"}]
  BY DEF TypeOK, Crash
<1>. QED
  BY <1>1, <1>2 DEF TypeOK, Crash, tables

\* The owner deletes a course: what the jobs point at becomes null.
LEMMA CourseGoneType ==
  ASSUME TypeOK, NEW c \in DOMAIN courses, CourseGone(c)
  PROVE  TypeOK'
<1>1. c \in Nat \ {0}
  BY DEF TypeOK
<1>2. rows' \in [Jobs -> MaybeRow]
  BY <1>1, DeleteCourseType DEF TypeOK, CourseGone
<1>3. linked' \in [Surveys -> Nat]
  BY DEF TypeOK, CourseGone, NoCourse
<1>. QED
  BY <1>2, <1>3 DEF TypeOK, CourseGone, DeleteCourse

\* Every state of every instance is well-typed: the rows in the table, the
\* entities that the code in flight holds, and what is left in the queue.
THEOREM TypeCorrect == Spec => []TypeOK
<1>1. Init => TypeOK
  BY ConstantsAssumption DEF Init, TypeOK, MaybeRow, NoCourse
<1>2. TypeOK /\ [Next]_vars => TypeOK'
  <2>. SUFFICES ASSUME TypeOK, [Next]_vars
                PROVE  TypeOK'
    OBVIOUS
  <2>1. ASSUME NEW j \in Jobs, RequestStep(j) PROVE TypeOK'
    BY <2>1, RequestType
  <2>2. ASSUME NEW j \in Jobs, Age(j) PROVE TypeOK'
    BY <2>2 DEF Age, GrowsOld, TypeOK
  <2>3. ASSUME NEW h \in Handlers, HandlerStep(h) PROVE TypeOK'
    BY <2>3, HandlerType
  <2>4. ASSUME NEW s \in Surveys, SurveyGone(s) PROVE TypeOK'
    BY <2>4 DEF SurveyGone, TypeOK, MaybeRow
  <2>10. ASSUME NEW c \in DOMAIN courses, CourseGone(c) PROVE TypeOK'
    BY <2>10, CourseGoneType
  <2>5. CASE WorkerStep
    BY <2>5, WorkerType
  <2>6. CASE PythonStep
    BY <2>6, PythonType
  <2>7. CASE Cleanup
    BY <2>7, CronType
  <2>8. CASE Crash
    BY <2>8, CrashType
  <2>9. CASE UNCHANGED vars
    BY <2>9 DEF vars, TypeOK
  <2>. QED
    BY <2>1, <2>2, <2>3, <2>4, <2>5, <2>6, <2>7, <2>8, <2>9, <2>10 DEF Next
<1>. QED
  BY <1>1, <1>2, PTL DEF Spec

-----------------------------------------------------------------------------
(* SUCCESS names the job's own course                                      *)

\* Whatever a piece of code holds, the course it names exists.  Needed so that
\* the id of a new course differs from the one in the transaction's stale job,
\* and TypeORM writes it.
CoursesAreKnown ==
  /\ \A j \in Jobs : rows[j].course <= Len(courses)
  /\ worker.pc \notin {"idle", "load"} => worker.row.course <= Len(courses)
  /\ cron.pc = "save" => cron.row.course <= Len(courses)
  /\ \A h \in Handlers : handler[h].pc # "idle" => handler[h].row.course <= Len(courses)

\* A callback works on a job it found unfinished, so that SUCCESS is a change
\* TypeORM writes.
CallbacksFoundTheJobOpen ==
  \A h \in Handlers : handler[h].pc # "idle" => handler[h].row.status # "SUCCESS"

SuccessInv == SuccessNamesItsCourse /\ CoursesAreKnown /\ CallbacksFoundTheJobOpen

\* A save whose entity keeps the loaded course and is no success, of code
\* that holds known courses, keeps the two conjuncts about rows.
LEMMA OtherSave ==
  ASSUME TypeOK, SuccessInv, NEW j \in Jobs, Exists(j),
         NEW loaded \in Row, NEW e \in Row, SaveRow(j, loaded, e),
         e.course = loaded.course, e.status # "SUCCESS",
         loaded.course <= Len(courses), UNCHANGED <<courses, gone>>
  PROVE  /\ SuccessNamesItsCourse'
         /\ \A k \in Jobs : rows'[k].course <= Len(courses')
<1>1. PICK r \in Saves(loaded, e, rows[j]) : rows' = [rows EXCEPT ![j] = r]
  BY DEF SaveRow
<1>2. rows[j] \in Row
  BY ExistingRow DEF TypeOK, Exists
<1>3. r \in Row
  BY <1>1, <1>2, SaveType
<1>4. r.status = "SUCCESS" => rows[j].status = "SUCCESS" /\ r.course = rows[j].course
  BY <1>1, <1>2, SaveKeepsSuccess
<1>5. r.course \in {loaded.course, rows[j].course}
  BY <1>1, <1>2 DEF Saves, ChangedColumns, Row
<1>6. \A k \in Jobs : rows'[k] = IF k = j THEN r ELSE rows[k]
  BY <1>1 DEF TypeOK
<1>7. SuccessNamesItsCourse'
  BY <1>4, <1>6 DEF SuccessInv, SuccessNamesItsCourse
<1>. QED
  BY <1>5, <1>6, <1>7 DEF SuccessInv, CoursesAreKnown

LEMMA RequestSuccess ==
  ASSUME TypeOK, SuccessInv, NEW j \in Jobs, RequestStep(j)
  PROVE  SuccessInv'
<1>. USE DEF SuccessInv, CoursesAreKnown, CallbacksFoundTheJobOpen, tables
<1>1. CASE UNCHANGED <<rows, gone, courses, worker, cron, handler>>
  BY <1>1 DEF SuccessNamesItsCourse
<1>2. CASE RequestInsert(j)
  <2>1. \A k \in Jobs : rows'[k] = IF k = j THEN NewJob(NoCourse) ELSE rows[k]
    BY <1>2 DEF RequestInsert, TypeOK
  <2>2. Len(courses) \in Nat
    BY DEF TypeOK
  <2>. QED
    BY <1>2, <2>1, <2>2 DEF RequestInsert, NewJob, NoCourse, SuccessNamesItsCourse
<1>3. CASE RequestSaveFailure(j)
  <2>1. MarkFailed(NewJob(NoCourse), "QUEUE_ERROR") \in Row
    BY GenerationJobType, EntityTypes DEF ErrorCodes
  <2>2. /\ MarkFailed(NewJob(NoCourse), "QUEUE_ERROR").course = NewJob(NoCourse).course
        /\ MarkFailed(NewJob(NoCourse), "QUEUE_ERROR").status # "SUCCESS"
        /\ NewJob(NoCourse).course <= Len(courses)
    BY DEF MarkFailed, NewJob, NoCourse, TypeOK
  <2>3. /\ SuccessNamesItsCourse'
        /\ \A k \in Jobs : rows'[k].course <= Len(courses')
    BY <1>3, <2>1, <2>2, GenerationJobType, OtherSave DEF RequestSaveFailure
  <2>. QED
    BY <1>3, <2>3 DEF RequestSaveFailure
<1>. QED
  BY <1>1, <1>2, <1>3
  DEF RequestStep, RequestCheck, RequestReject, RequestInsertFails,
      RequestEnqueue, RequestEnqueueFails, RequestSaveFailureFails

LEMMA WorkerSuccess ==
  ASSUME TypeOK, SuccessInv, WorkerStep
  PROVE  SuccessInv'
<1>. USE DEF SuccessInv, CoursesAreKnown, CallbacksFoundTheJobOpen, tables
<1>1. CASE UNCHANGED <<rows, gone, courses, cron, handler>> /\ worker'.pc \in {"idle", "load"}
  BY <1>1 DEF SuccessNamesItsCourse
<1>2. CASE WorkerLoad
  <2>1. JobOf(worker.entry) \in Jobs
    BY <1>2, WorkerFields, EntryJob DEF WorkerLoad
  <2>. QED
    BY <1>2, <2>1 DEF WorkerLoad, SuccessNamesItsCourse
<1>3. CASE WorkerSaveProcessing
  <2>. DEFINE j == JobOf(worker.entry)
              e == IncrementAttempt(MarkProcessing(worker.row))
  <2>1. worker \in [pc : {"save", "survey", "post", "posted"},
                    entry : DOMAIN queue, row : Row]
    BY <1>3, WorkerFields DEF WorkerSaveProcessing
  <2>2. j \in Jobs /\ worker.row \in Row
    BY <2>1, EntryJob
  <2>3. e \in Row
    BY <2>2, EntityTypes
  <2>4. e.course = worker.row.course /\ e.status # "SUCCESS"
    <3>1. MarkProcessing(worker.row) \in Row
      BY <2>2, EntityTypes
    <3>. QED
      BY <2>2, <3>1 DEF IncrementAttempt, MarkProcessing, Row
  <2>5. worker.row.course <= Len(courses)
    BY <1>3 DEF WorkerSaveProcessing
  <2>. HIDE DEF e, j
  <2>6. /\ SuccessNamesItsCourse'
        /\ \A k \in Jobs : rows'[k].course <= Len(courses')
    BY <1>3, <2>2, <2>3, <2>4, <2>5, OtherSave DEF WorkerSaveProcessing, e, j
  <2>7. worker'.row = e
    BY <1>3, <2>1 DEF WorkerSaveProcessing, e
  <2>. QED
    BY <1>3, <2>4, <2>5, <2>6, <2>7 DEF WorkerSaveProcessing
<1>4. CASE WorkerFindSurvey \/ WorkerPost
  <2>1. worker \in [pc : {"save", "survey", "post", "posted"},
                    entry : DOMAIN queue, row : Row]
    BY <1>4, WorkerFields DEF WorkerFindSurvey, WorkerPost
  <2>2. worker'.row = worker.row
    BY <1>4, <2>1 DEF WorkerFindSurvey, WorkerPost
  <2>. QED
    BY <1>4, <2>2 DEF WorkerFindSurvey, WorkerPost, SuccessNamesItsCourse
<1>. QED
  BY <1>1, <1>2, <1>3, <1>4
  DEF WorkerStep, WorkerTake, WorkerDrop, WorkerAck, WorkerThrow, Idle

LEMMA HandlerSuccess ==
  ASSUME TypeOK, SuccessInv, NEW h \in Handlers, HandlerStep(h)
  PROVE  SuccessInv'
<1>. USE DEF SuccessInv, CoursesAreKnown, CallbacksFoundTheJobOpen, tables
<1>1. CASE CommitCourse(h)
  <2>. DEFINE j == handler[h].job
              c == Len(courses) + 1
              loaded == handler[h].row
  <2>1. j \in Jobs /\ loaded \in Row
    BY <1>1, HandlerFields DEF CommitCourse
  <2>2. c \in Nat /\ Len(courses) \in Nat
    BY DEF TypeOK
  <2>3. loaded.status # "SUCCESS" /\ loaded.course # c
    BY <1>1, <2>1, <2>2 DEF CommitCourse, Row
  <2>4. PICK r \in Saves(loaded, MarkSuccess(loaded, c), rows[j]) :
               rows' = [rows EXCEPT ![j] = r]
    BY <1>1 DEF CommitCourse, SaveRow
  <2>5. rows[j] \in Row
    BY <1>1, <2>1, ExistingRow DEF CommitCourse, TypeOK, Exists
  <2>6. r.status = "SUCCESS" /\ r.course = c
    BY <2>1, <2>2, <2>3, <2>4, <2>5, SaveOfSuccess
  <2>7. courses' = Append(courses, j)
    BY <1>1 DEF CommitCourse
  <2>. HIDE DEF j, c, loaded
  <2>8. /\ Len(courses') = c
        /\ courses'[c] = j
        /\ \A n \in DOMAIN courses : n \in DOMAIN courses' /\ courses'[n] = courses[n]
    BY <2>1, <2>7 DEF TypeOK, c
  <2>9. \A k \in Jobs : rows'[k] = IF k = j THEN r ELSE rows[k]
    BY <2>4 DEF TypeOK
  <2>10. \A n \in Nat : n <= Len(courses) => n <= Len(courses')
    BY <2>2, <2>8 DEF c
  <2>11. c \in DOMAIN courses'
    BY <2>1, <2>2, <2>7 DEF TypeOK, c
  <2>12. SuccessNamesItsCourse'
    <3>1. UNCHANGED gone /\ gone \subseteq DOMAIN courses /\ c \notin gone
      BY <1>1, <2>2 DEF CommitCourse, TypeOK, c
    <3>2. ASSUME NEW k \in Jobs, rows'[k].status = "SUCCESS", k # j
          PROVE  \/ rows'[k].course \in DOMAIN courses' \ gone' /\ courses'[rows'[k].course] = k
                 \/ rows'[k].course = NoCourse /\ \E n \in gone' : courses'[n] = k
      BY <2>8, <2>9, <3>1, <3>2 DEF SuccessNamesItsCourse
    <3>3. /\ rows'[j].course \in DOMAIN courses' \ gone'
          /\ courses'[rows'[j].course] = j
      BY <2>1, <2>6, <2>8, <2>9, <2>11, <3>1
    <3>. QED
      BY <3>2, <3>3 DEF SuccessNamesItsCourse
  <2>13. \A k \in Jobs : rows[k].course \in Nat
    BY DEF TypeOK, MaybeRow, Row, Absent, NoCourse
  <2>14. \A k \in Jobs : rows'[k].course <= Len(courses')
    BY <2>2, <2>6, <2>8, <2>9, <2>10, <2>13
  <2>15. (worker.pc \notin {"idle", "load"} => worker.row.course <= Len(courses))'
    BY <1>1, <2>10, WorkerFields DEF CommitCourse, Row
  <2>16. (cron.pc = "save" => cron.row.course <= Len(courses))'
    BY <1>1, <2>10 DEF CommitCourse, TypeOK, Row, Idle
  <2>17. \A g \in Handlers : handler'[g].pc # "idle" =>
           /\ handler'[g] = handler[g]
           /\ handler[g].row.course \in Nat
    BY <1>1, HandlerFields DEF CommitCourse, TypeOK, Row, Idle
  <2>. QED
    BY <2>10, <2>12, <2>14, <2>15, <2>16, <2>17
<1>2. CASE SaveRetry(h)
  <2>1. handler[h].job \in Jobs /\ handler[h].row \in Row
    BY <1>2, HandlerFields DEF SaveRetry
  <2>2. /\ ResetForRetry(handler[h].row).course = handler[h].row.course
        /\ ResetForRetry(handler[h].row).status # "SUCCESS"
    BY <2>1 DEF ResetForRetry, Row
  <2>3. /\ SuccessNamesItsCourse'
        /\ \A k \in Jobs : rows'[k].course <= Len(courses')
    BY <1>2, <2>1, <2>2, EntityTypes, OtherSave DEF SaveRetry
  <2>4. \A g \in Handlers : /\ handler'[g].row = handler[g].row
                            /\ handler'[g].pc # "idle" => handler[g].pc # "idle"
    BY <1>2, HandlerFields DEF SaveRetry, TypeOK
  <2>. QED
    BY <1>2, <2>3, <2>4 DEF SaveRetry
<1>3. CASE SaveFailure(h)
  <2>1. handler[h].job \in Jobs /\ handler[h].row \in Row
    BY <1>3, HandlerFields DEF SaveFailure
  <2>2. MarkFailed(handler[h].row, "LLM_ERROR") \in Row
    BY <2>1, EntityTypes DEF ErrorCodes
  <2>3. /\ MarkFailed(handler[h].row, "LLM_ERROR").course = handler[h].row.course
        /\ MarkFailed(handler[h].row, "LLM_ERROR").status # "SUCCESS"
    BY <2>1 DEF MarkFailed, Row
  <2>4. /\ SuccessNamesItsCourse'
        /\ \A k \in Jobs : rows'[k].course <= Len(courses')
    BY <1>3, <2>1, <2>2, <2>3, OtherSave DEF SaveFailure
  <2>. QED
    BY <1>3, <2>4 DEF SaveFailure, TypeOK, Idle
<1>4. CASE ReEnqueue(h) \/ HandlerThrow(h)
  <2>1. UNCHANGED <<rows, gone, courses, worker, cron>>
    BY <1>4 DEF ReEnqueue, HandlerThrow
  <2>2. handler' = [handler EXCEPT ![h] = Idle]
    BY <1>4 DEF ReEnqueue, HandlerThrow
  <2>3. \A g \in Handlers : handler'[g].pc # "idle" => handler'[g] = handler[g]
    BY <2>2 DEF TypeOK, Idle
  <2>. QED
    BY <2>1, <2>3 DEF SuccessNamesItsCourse
<1>. QED
  BY <1>1, <1>2, <1>3, <1>4 DEF HandlerStep

LEMMA PythonSuccess ==
  ASSUME TypeOK, SuccessInv, PythonStep
  PROVE  SuccessInv'
<1>. USE DEF SuccessInv, CoursesAreKnown, CallbacksFoundTheJobOpen, tables
<1>1. CASE UNCHANGED <<rows, gone, courses, worker, cron, handler>>
  BY <1>1 DEF SuccessNamesItsCourse
<1>2. ASSUME NEW t \in tasks, NEW h \in Handlers, NEW pc, CallbackBegin(h, t, pc)
      PROVE  SuccessInv'
  <2>. DEFINE j == JobOf(t.entry)
  <2>1. j \in Jobs
    BY EntryJob DEF TypeOK
  <2>2. rows[j].status # "SUCCESS" /\ rows[j].course <= Len(courses)
    BY <1>2, <2>1 DEF CallbackBegin, Active
  <2>3. \A g \in Handlers : handler'[g] =
          IF g = h THEN [pc |-> pc, job |-> j, row |-> rows[j]] ELSE handler[g]
    BY <1>2 DEF CallbackBegin, TypeOK
  <2>. HIDE DEF j
  <2>. QED
    BY <1>2, <2>2, <2>3 DEF CallbackBegin, SuccessNamesItsCourse
<1>. QED
  BY <1>1, <1>2
  DEF PythonStep, SuccessBegin, FailureBegin, CallbackLost, CallbackIgnored

LEMMA CronSuccess ==
  ASSUME TypeOK, SuccessInv, Cleanup
  PROVE  SuccessInv'
<1>. USE DEF SuccessInv, CoursesAreKnown, CallbacksFoundTheJobOpen
<1>0. UNCHANGED <<gone, courses, worker, handler>>
  BY DEF Cleanup
<1>1. CASE UNCHANGED rows /\ cron'.pc # "save"
  BY <1>0, <1>1 DEF SuccessNamesItsCourse
<1>2. ASSUME NEW j \in Jobs, CronReread(j) PROVE SuccessInv'
  BY <1>0, <1>2 DEF CronReread, SuccessNamesItsCourse
<1>3. CASE CronSaveTimeout
  <2>1. cron \in [pc : {"save"}, todo : SUBSET Jobs, job : Jobs, row : Row]
    BY <1>3 DEF CronSaveTimeout, Idle, TypeOK
  <2>2. MarkFailed(cron.row, "TIMEOUT") \in Row
    BY <2>1, EntityTypes DEF ErrorCodes
  <2>3. /\ MarkFailed(cron.row, "TIMEOUT").course = cron.row.course
        /\ MarkFailed(cron.row, "TIMEOUT").status # "SUCCESS"
    BY <2>1 DEF MarkFailed, Row
  <2>4. /\ SuccessNamesItsCourse'
        /\ \A k \in Jobs : rows'[k].course <= Len(courses')
    BY <1>0, <1>3, <2>1, <2>2, <2>3, OtherSave DEF CronSaveTimeout
  <2>. QED
    BY <1>0, <1>3, <2>4 DEF CronSaveTimeout
<1>4. ASSUME NEW j \in Jobs, CronSkip(j) PROVE SuccessInv'
  <2>1. cron \in [pc : {"next"}, todo : SUBSET Jobs]
    BY <1>4 DEF CronSkip, Idle, TypeOK
  <2>2. cron'.pc = "next"
    BY <1>4, <2>1 DEF CronSkip
  <2>. QED
    BY <1>1, <1>4, <2>2 DEF CronSkip
<1>5. CASE CronScan \/ CronEnd
  BY <1>1, <1>5 DEF CronScan, CronEnd, Idle
<1>. QED
  BY <1>2, <1>3, <1>4, <1>5 DEF Cleanup, CronStep

\* Deleting a course takes it from the jobs that name it, and adds it to gone.
LEMMA CourseGoneSuccess ==
  ASSUME TypeOK, SuccessInv, NEW c \in DOMAIN courses, CourseGone(c)
  PROVE  SuccessInv'
<1>1. ASSUME NEW j \in Jobs
      PROVE  /\ rows[j].course # c => rows'[j] = rows[j]
             /\ rows[j].course = c => /\ rows'[j].course = NoCourse
                                     /\ rows'[j].status = rows[j].status
  BY DEF CourseGone, DeleteCourse, TypeOK, MaybeRow, Row, Absent
<1>2. UNCHANGED <<courses, worker, handler, cron>> /\ gone' = gone \union {c}
  BY DEF CourseGone, DeleteCourse
<1>3. \A j \in Jobs : rows'[j].course <= Len(courses')
  BY <1>1, <1>2 DEF SuccessInv, CoursesAreKnown, TypeOK, NoCourse
<1>4. SuccessNamesItsCourse'
  BY <1>1, <1>2 DEF SuccessInv, SuccessNamesItsCourse
<1>. QED
  BY <1>2, <1>3, <1>4 DEF SuccessInv, CoursesAreKnown, CallbacksFoundTheJobOpen

\* A job that answers SUCCESS to the polling client always names a course, and
\* one that was made for it: no stale save, duplicate callback, retry, timeout
\* or crash separates the status from the course.
THEOREM SuccessCorrect == Spec => []SuccessNamesItsCourse
<1>1. Init => SuccessInv
  BY DEF Init, SuccessInv, SuccessNamesItsCourse, CoursesAreKnown,
         CallbacksFoundTheJobOpen, Absent, Idle, NoCourse
<1>2. TypeOK /\ SuccessInv /\ [Next]_vars => SuccessInv'
  <2>. SUFFICES ASSUME TypeOK, SuccessInv, [Next]_vars
                PROVE  SuccessInv'
    OBVIOUS
  <2>. USE DEF SuccessInv, CoursesAreKnown, CallbacksFoundTheJobOpen,
               SuccessNamesItsCourse
  <2>1. ASSUME NEW j \in Jobs, RequestStep(j) PROVE SuccessInv'
    BY <2>1, RequestSuccess
  <2>2. ASSUME NEW j \in Jobs, Age(j) PROVE SuccessInv'
    BY <2>2 DEF Age
  <2>3. ASSUME NEW h \in Handlers, HandlerStep(h) PROVE SuccessInv'
    BY <2>3, HandlerSuccess
  <2>4. ASSUME NEW s \in Surveys, SurveyGone(s) PROVE SuccessInv'
    BY <2>4 DEF SurveyGone, Absent, NoCourse, TypeOK
  <2>10. ASSUME NEW c \in DOMAIN courses, CourseGone(c) PROVE SuccessInv'
    BY <2>10, CourseGoneSuccess
  <2>5. CASE WorkerStep
    BY <2>5, WorkerSuccess
  <2>6. CASE PythonStep
    BY <2>6, PythonSuccess
  <2>7. CASE Cleanup
    BY <2>7, CronSuccess
  <2>8. CASE Crash
    BY <2>8 DEF Crash, Idle, tables
  <2>9. CASE UNCHANGED vars
    BY <2>9 DEF vars
  <2>. QED
    BY <2>1, <2>2, <2>3, <2>4, <2>5, <2>6, <2>7, <2>8, <2>9, <2>10
    DEF Next
<1>. QED
  BY <1>1, <1>2, TypeCorrect, PTL DEF Spec, SuccessInv

-----------------------------------------------------------------------------
(* A survey names the last course made for it                              *)

\* CourseSurvey.travelCourseId changes only in the transaction that makes a
\* course, and then names that course, and when that very course is deleted.
THEOREM SurveyCorrect == Spec => []SurveyNamesItsLastCourse
<1>1. Init => SurveyNamesItsLastCourse
  BY DEF Init, SurveyNamesItsLastCourse
<1>2. TypeOK /\ SurveyNamesItsLastCourse /\ [Next]_vars => SurveyNamesItsLastCourse'
  <2>. SUFFICES ASSUME TypeOK, SurveyNamesItsLastCourse, [Next]_vars
                PROVE  SurveyNamesItsLastCourse'
    OBVIOUS
  <2>1. CASE UNCHANGED <<linked, courses, gone>>
    BY <2>1 DEF SurveyNamesItsLastCourse
  <2>2. ASSUME NEW h \in Handlers, CommitCourse(h)
        PROVE  SurveyNamesItsLastCourse'
    <3>. DEFINE j == handler[h].job
                c == Len(courses) + 1
                made(s) == {n \in DOMAIN courses : SurveyOf[courses[n]] = s}
                madeThen(s) == {n \in DOMAIN courses' : SurveyOf[courses'[n]] = s}
    <3>1. j \in Jobs /\ SurveyOf[j] \in Surveys
      BY <2>2, HandlerFields, ConstantsAssumption DEF CommitCourse
    <3>2. courses' = Append(courses, j) /\ linked' = [linked EXCEPT ![SurveyOf[j]] = c]
      BY <2>2 DEF CommitCourse
    <3>. HIDE DEF j
    <3>3. /\ DOMAIN courses = 1..Len(courses) /\ Len(courses) \in Nat
          /\ DOMAIN courses' = 1..c
          /\ courses'[c] = j
          /\ \A n \in DOMAIN courses : courses'[n] = courses[n]
      BY <3>1, <3>2 DEF TypeOK
    <3>4. ASSUME NEW s \in Surveys, s # SurveyOf[j]
          PROVE  madeThen(s) = made(s) /\ linked'[s] = linked[s]
      <4>1. DOMAIN courses' = DOMAIN courses \union {c}
        BY <3>3
      <4>2. \A n \in DOMAIN courses' :
              SurveyOf[courses'[n]] = s <=> n # c /\ SurveyOf[courses[n]] = s
        BY <3>3, <3>4, <4>1
      <4>3. c \notin DOMAIN courses
        BY <3>3
      <4>. QED
        BY <3>2, <4>1, <4>2, <4>3 DEF TypeOK
    <3>5. c \in madeThen(SurveyOf[j]) /\ \A n \in madeThen(SurveyOf[j]) : n <= c
      BY <3>3
    <3>6. linked'[SurveyOf[j]] = c
      BY <3>1, <3>2 DEF TypeOK
    <3>7. UNCHANGED gone /\ gone \subseteq DOMAIN courses /\ c \notin gone
      BY <2>2, <3>3 DEF CommitCourse, TypeOK
    <3>8. ASSUME NEW s \in Surveys
          PROVE  \/ madeThen(s) = {} /\ linked'[s] = NoCourse
                 \/ \E last \in madeThen(s) :
                      /\ \A n \in madeThen(s) : n <= last
                      /\ linked'[s] = IF last \in gone' THEN NoCourse ELSE last
      <4>1. CASE s = SurveyOf[j]
        BY <3>5, <3>6, <3>7, <4>1
      <4>2. CASE s # SurveyOf[j]
        BY <3>4, <3>7, <4>2 DEF SurveyNamesItsLastCourse
      <4>. QED
        BY <4>1, <4>2
    <3>. QED
      BY <3>8 DEF SurveyNamesItsLastCourse
  <2>3. ASSUME NEW c \in DOMAIN courses, CourseGone(c)
        PROVE  SurveyNamesItsLastCourse'
    <3>1. /\ UNCHANGED courses /\ gone' = gone \union {c} /\ c # NoCourse
          /\ \A s \in Surveys :
               linked'[s] = IF linked[s] = c THEN NoCourse ELSE linked[s]
      BY <2>3 DEF CourseGone, DeleteCourse, TypeOK, NoCourse
    <3>. QED
      BY <3>1 DEF SurveyNamesItsLastCourse
  <2>. QED
    BY <2>1, <2>2, <2>3
    DEF Next, vars, tables, RequestStep, RequestCheck, RequestReject, RequestInsert,
        RequestInsertFails, RequestEnqueue, RequestEnqueueFails, RequestSaveFailure,
        RequestSaveFailureFails, Age, HandlerStep, SaveRetry, ReEnqueue, SaveFailure,
        HandlerThrow, SurveyGone, WorkerStep, WorkerTake, WorkerLoad, WorkerDrop,
        WorkerSaveProcessing, WorkerFindSurvey, WorkerPost, WorkerAck, WorkerThrow,
        PythonStep, SuccessBegin, FailureBegin, CallbackBegin, CallbackLost,
        CallbackIgnored, Cleanup, Crash
<1>. QED
  BY <1>1, <1>2, TypeCorrect, PTL DEF Spec

-----------------------------------------------------------------------------
(* A PENDING job is in the queue, unless the queue, the database or the    *)
(* process fails                                                           *)

NothingIsLost ==
  Faults \cap {"queueAdd", "dbRead", "dbWrite", "crash", "courseGone"} = {}

Waiting(j) ==
  \E i \in DOMAIN queue : JobOf(i) = j /\ queue[i].state = "waiting"

\* The save of a worker that loaded the job PROCESSING need not write the
\* status, so its own entry does not count for a job that was reset since.
ResetBehindTheWorker ==
  worker.pc = "save" =>
    LET j == JobOf(worker.entry)
    IN  rows[j].status = "PENDING" /\ worker.row.status = "PROCESSING"
          => WillEnqueue(j) \/ Waiting(j)

\* What a callback and the cron hold, they loaded unfinished, so FAILED and
\* SUCCESS are changes TypeORM writes.
CopiesAreUnfinished ==
  /\ \A h \in Handlers : handler[h].pc # "idle" => handler[h].row.status \in Active
  /\ cron.pc = "save" => cron.row.status = "PROCESSING"

QueueInv == PendingIsQueued /\ ResetBehindTheWorker /\ CopiesAreUnfinished

\* A step that makes no job PENDING, lets the entries and the code in flight
\* of every PENDING job be, and does not advance the worker, keeps QueueInv.
LEMMA StillQueued ==
  ASSUME QueueInv, CopiesAreUnfinished', UNCHANGED worker,
         \A j \in Jobs : rows'[j].status = "PENDING" =>
           /\ rows[j].status = "PENDING"
           /\ WillEnqueue(j) => WillEnqueue(j)' \/ Waiting(j)'
           /\ Waiting(j) => Waiting(j)'
           /\ Queued(j) => Queued(j)',
         worker.pc = "save" => JobOf(worker.entry) \in Jobs /\ JobOf(worker.entry)' = JobOf(worker.entry)
  PROVE  QueueInv'
<1>1. \A j \in Jobs : Waiting(j)' => Queued(j)'
  BY DEF Waiting, Queued
<1>2. PendingIsQueued'
  BY <1>1 DEF QueueInv, PendingIsQueued
<1>3. ResetBehindTheWorker'
  BY DEF QueueInv, ResetBehindTheWorker
<1>. QED
  BY <1>2, <1>3 DEF QueueInv

\* An added entry waits, and those there were are as they were.
LEMMA AddKeepsEntries ==
  ASSUME TypeOK, NEW j \in Jobs, Add(j)
  PROVE  /\ Waiting(j)'
         /\ \A i \in DOMAIN queue : i \in DOMAIN queue' /\ queue'[i] = queue[i]
  BY AddJobType DEF Waiting

\* The worker's entry has a job.
LEMMA WorkerJob ==
  ASSUME TypeOK
  PROVE  worker.pc \in {"load", "save"} =>
           worker.entry \in DOMAIN queue /\ JobOf(worker.entry) \in Jobs
  BY WorkerFields, EntryJob

LEMMA RequestQueue ==
  ASSUME NothingIsLost, TypeOK, QueueInv, NEW j \in Jobs, RequestStep(j)
  PROVE  QueueInv'
<1>1. UNCHANGED worker /\ UNCHANGED handler /\ UNCHANGED cron
  BY DEF RequestStep, RequestCheck, RequestReject, RequestInsert,
         RequestInsertFails, RequestEnqueue, RequestEnqueueFails,
         RequestSaveFailure, RequestSaveFailureFails
<1>2. CopiesAreUnfinished'
  BY <1>1 DEF QueueInv, CopiesAreUnfinished
<1>3. ASSUME UNCHANGED queue
      PROVE  /\ \A k \in Jobs : Waiting(k) => Waiting(k)'
             /\ \A k \in Jobs : Queued(k) => Queued(k)'
             /\ worker.pc = "save" => /\ JobOf(worker.entry) \in Jobs
                                      /\ JobOf(worker.entry)' = JobOf(worker.entry)
  BY <1>1, <1>3, WorkerJob DEF Waiting, Queued, JobOf
<1>4. ASSUME Add(j)
      PROVE  /\ Waiting(j)'
             /\ \A k \in Jobs : Waiting(k) => Waiting(k)'
             /\ \A k \in Jobs : Queued(k) => Queued(k)'
             /\ worker.pc = "save" => /\ JobOf(worker.entry) \in Jobs
                                      /\ JobOf(worker.entry)' = JobOf(worker.entry)
  BY <1>1, <1>4, AddKeepsEntries, WorkerJob DEF Waiting, Queued, JobOf
<1>5. ASSUME NEW k \in Jobs, k # j, WillEnqueue(k) PROVE WillEnqueue(k)'
  BY <1>1, <1>5
  DEF WillEnqueue, TypeOK, RequestStep, RequestCheck, RequestReject, RequestInsert,
      RequestInsertFails, RequestEnqueue, RequestEnqueueFails,
      RequestSaveFailure, RequestSaveFailureFails
<1>6. ASSUME request[j] \in {"new", "checked"}, WillEnqueue(j) PROVE WillEnqueue(j)'
  BY <1>1, <1>6 DEF WillEnqueue
<1>7. CASE RequestCheck(j) \/ RequestReject(j) \/ RequestInsertFails(j)
  <2>1. UNCHANGED <<rows, queue>> /\ request[j] \in {"new", "checked"}
    BY <1>7 DEF RequestCheck, RequestReject, RequestInsertFails, tables
  <2>. QED
    BY <1>1, <1>2, <1>3, <1>5, <1>6, <2>1, StillQueued
<1>8. CASE RequestInsert(j)
  <2>1. UNCHANGED queue /\ request' = [request EXCEPT ![j] = "saved"]
    BY <1>8 DEF RequestInsert
  <2>2. WillEnqueue(j)'
    BY <2>1 DEF WillEnqueue, TypeOK
  <2>3. \A k \in Jobs : k # j => rows'[k] = rows[k]
    BY <1>8 DEF RequestInsert, TypeOK
  <2>4. PendingIsQueued'
    BY <1>3, <1>5, <2>1, <2>2, <2>3 DEF QueueInv, PendingIsQueued
  <2>5. ResetBehindTheWorker'
    BY <1>1, <1>3, <1>5, <2>1, <2>2, <2>3 DEF QueueInv, ResetBehindTheWorker
  <2>. QED
    BY <1>2, <2>4, <2>5 DEF QueueInv
<1>9. CASE RequestEnqueue(j)
  <2>1. UNCHANGED rows /\ Add(j)
    BY <1>9 DEF RequestEnqueue, tables
  <2>. QED
    BY <1>1, <1>2, <1>4, <1>5, <2>1, StillQueued
<1>10. CASE RequestEnqueueFails(j)
  <2>1. UNCHANGED rows /\ (Add(j) \/ UNCHANGED queue)
    BY <1>10 DEF RequestEnqueueFails, AddRejected, tables
  <2>2. WillEnqueue(j)'
    BY <1>10 DEF RequestEnqueueFails, WillEnqueue, TypeOK
  <2>. QED
    BY <1>1, <1>2, <1>3, <1>4, <1>5, <2>1, <2>2, StillQueued
<1>11. CASE RequestSaveFailure(j)
  <2>1. UNCHANGED queue
    BY <1>11 DEF RequestSaveFailure
  <2>2. /\ MarkFailed(NewJob(NoCourse), "QUEUE_ERROR").status = "FAILED"
        /\ NewJob(NoCourse).status = "PENDING"
    BY DEF MarkFailed, NewJob
  <2>3. /\ rows'[j].status = "FAILED"
        /\ \A k \in Jobs : k # j => rows'[k] = rows[k]
    BY <1>11, <2>2, StatusIsWritten DEF RequestSaveFailure, TypeOK
  <2>. QED
    BY <1>1, <1>2, <1>3, <1>5, <2>1, <2>3, StillQueued
<1>12. CASE RequestSaveFailureFails(j)
  <2>1. UNCHANGED <<rows, queue>> /\ rows[j].status # "PENDING"
    BY <1>12 DEF RequestSaveFailureFails, NothingIsLost, Exists, tables
  <2>. QED
    BY <1>1, <1>2, <1>3, <1>5, <2>1, StillQueued
<1>. QED
  BY <1>7, <1>8, <1>9, <1>10, <1>11, <1>12 DEF RequestStep

\* The worker's entry is the one BullMQ marked active, whatever the others add.
EntryIsActive ==
  worker.pc # "idle" =>
    worker.entry \in DOMAIN queue /\ queue[worker.entry].state = "active"

\* An added entry, or none, leaves the worker its entry.
LEMMA OthersLeaveTheEntry ==
  ASSUME TypeOK, EntryIsActive, UNCHANGED worker,
         UNCHANGED queue \/ \E j \in Jobs : Add(j)
  PROVE  EntryIsActive'
  BY AddKeepsEntries DEF EntryIsActive

LEMMA EntryStaysActive ==
  ASSUME TypeOK, EntryIsActive, [Next]_vars
  PROVE  EntryIsActive'
<1>1. ASSUME NEW j \in Jobs, RequestStep(j) PROVE EntryIsActive'
  <2>1. UNCHANGED worker /\ (UNCHANGED queue \/ Add(j))
    BY <1>1 DEF RequestStep, RequestCheck, RequestReject, RequestInsert,
         RequestInsertFails, RequestEnqueue, RequestEnqueueFails, AddRejected,
         RequestSaveFailure, RequestSaveFailureFails
  <2>. QED
    BY <2>1, OthersLeaveTheEntry
<1>2. ASSUME NEW h \in Handlers, HandlerStep(h) PROVE EntryIsActive'
  <2>1. CASE handler[h].pc = "enqueue" /\ Add(handler[h].job) /\ UNCHANGED worker
    BY <2>1, HandlerFields, OthersLeaveTheEntry
  <2>2. CASE UNCHANGED <<queue, worker>>
    BY <2>2, OthersLeaveTheEntry
  <2>. QED
    BY <1>2, <2>1, <2>2 DEF HandlerStep, CommitCourse, SaveRetry, ReEnqueue,
         SaveFailure, HandlerThrow, AddRejected
<1>3. ASSUME NEW i \in DOMAIN queue, WorkerTake(i) PROVE EntryIsActive'
  <2>1. worker'.entry = i
    BY <1>3 DEF WorkerTake
  <2>2. queue[i] \in Entry /\ queue' = [queue EXCEPT ![i].state = "active"]
    BY <1>3, EntryJob DEF WorkerTake, SetEntry
  <2>3. [queue[i] EXCEPT !.state = "active"].state = "active"
    BY <2>2 DEF Entry, EntryOf, EntryStates
  <2>4. i \in DOMAIN queue' /\ queue'[i].state = "active"
    BY <2>2, <2>3 DEF TypeOK
  <2>. QED
    BY <2>1, <2>4 DEF EntryIsActive
<1>4. CASE WorkerLoad
  BY <1>4 DEF WorkerLoad, EntryIsActive
<1>5. CASE WorkerSaveProcessing \/ WorkerFindSurvey \/ WorkerPost
  <2>1. worker.pc \notin {"idle", "load"} /\ UNCHANGED queue
    BY <1>5 DEF WorkerSaveProcessing, WorkerFindSurvey, WorkerPost
  <2>2. worker'.entry = worker.entry
    BY <1>5, <2>1, WorkerFields DEF WorkerSaveProcessing, WorkerFindSurvey, WorkerPost
  <2>. QED
    BY <2>1, <2>2 DEF EntryIsActive
<1>6. CASE WorkerDrop \/ WorkerAck \/ WorkerThrow
  BY <1>6 DEF WorkerDrop, WorkerAck, WorkerThrow, EntryIsActive, Idle
<1>7. CASE UNCHANGED <<queue, worker>>
  BY <1>7, OthersLeaveTheEntry
<1>8. CASE Crash
  BY <1>8 DEF Crash, EntryIsActive, Idle
<1>. QED
  BY <1>1, <1>2, <1>3, <1>4, <1>5, <1>6, <1>7, <1>8
  DEF Next, vars, WorkerStep, Age, SurveyGone, PythonStep, CallbackLost,
      CallbackIgnored, SuccessBegin, FailureBegin, CallbackBegin, Cleanup, CourseGone

\* A worker that neither loads nor saves a row keeps QueueInv: its entry is
\* not one of those that wait.
LEMMA WorkerElsewhere ==
  ASSUME QueueInv, UNCHANGED <<rows, request, handler, cron>>,
         \A j \in Jobs : rows[j].status = "PENDING" => (Queued(j) => Queued(j)'),
         worker'.pc # "save"
  PROVE  QueueInv'
<1>1. \A j \in Jobs : WillEnqueue(j)' = WillEnqueue(j)
  BY DEF WillEnqueue
<1>2. PendingIsQueued'
  BY <1>1 DEF QueueInv, PendingIsQueued
<1>3. ResetBehindTheWorker'
  BY DEF ResetBehindTheWorker
<1>4. CopiesAreUnfinished'
  BY DEF QueueInv, CopiesAreUnfinished
<1>. QED
  BY <1>2, <1>3, <1>4 DEF QueueInv

LEMMA WorkerQueue ==
  ASSUME NothingIsLost, TypeOK, QueueInv, EntryIsActive, gone = {}, WorkerStep
  PROVE  QueueInv'
<1>1. ASSUME NEW i \in DOMAIN queue, WorkerTake(i) PROVE QueueInv'
  <2>1. /\ worker'.pc = "load" /\ worker'.entry = i
        /\ \A k \in DOMAIN queue : /\ k \in DOMAIN queue' /\ queue'[k].data = queue[k].data
                                   /\ k # i => queue'[k].state = queue[k].state
    BY <1>1 DEF WorkerTake, SetEntry, TypeOK, Entry, EntryOf, EntryStates
  <2>2. worker.pc = "idle"
    BY <1>1 DEF WorkerTake, Idle
  <2>3. \A j \in Jobs : Queued(j) => Queued(j)'
    BY <2>1, <2>2 DEF Queued, JobOf
  <2>. QED
    BY <1>1, <2>1, <2>3, WorkerElsewhere DEF WorkerTake, tables
<1>2. CASE WorkerLoad
  <2>1. /\ worker'.pc = "save" /\ worker'.entry = worker.entry
        /\ worker'.row = rows[JobOf(worker.entry)]
        /\ UNCHANGED <<rows, queue, request, handler, cron>>
    BY <1>2 DEF WorkerLoad, tables
  <2>2. \A j \in Jobs : (Queued(j) => Queued(j)') /\ WillEnqueue(j)' = WillEnqueue(j)
    BY <2>1 DEF Queued, JobOf, WillEnqueue
  <2>3. PendingIsQueued'
    BY <2>1, <2>2 DEF QueueInv, PendingIsQueued
  <2>4. ResetBehindTheWorker'
    BY <2>1 DEF ResetBehindTheWorker, JobOf
  <2>5. CopiesAreUnfinished'
    BY <2>1 DEF QueueInv, CopiesAreUnfinished
  <2>. QED
    BY <2>3, <2>4, <2>5 DEF QueueInv
<1>3. ASSUME WorkerDrop \/ WorkerAck \/ WorkerThrow PROVE QueueInv'
  <2>1. /\ worker.entry \in DOMAIN queue
        /\ queue[worker.entry].state = "active"
        /\ worker' = Idle /\ UNCHANGED <<rows, request, handler, cron>>
        /\ worker.pc \in {"load", "save"} => ~Exists(JobOf(worker.entry))
    BY <1>3 DEF WorkerDrop, WorkerAck, WorkerThrow, WorkerCanThrow, SaveThrows,
                NothingIsLost, EntryIsActive, tables
  <2>2. \A k \in DOMAIN queue : k # worker.entry => k \in DOMAIN queue' /\ queue'[k] = queue[k]
    BY <1>3 DEF WorkerDrop, WorkerAck, WorkerThrow, SetEntry, TypeOK
  <2>3. ASSUME NEW j \in Jobs, rows[j].status = "PENDING", Queued(j) PROVE Queued(j)'
    <3>1. PICK i \in DOMAIN queue :
            /\ JobOf(i) = j
            /\ \/ queue[i].state = "waiting"
               \/ worker.pc \in {"load", "save"} /\ worker.entry = i
      BY <2>3 DEF Queued
    <3>2. i # worker.entry
      BY <2>1, <2>3, <3>1 DEF Exists
    <3>3. queue[i].state = "waiting"
      BY <3>1, <3>2
    <3>. QED
      BY <2>2, <3>1, <3>2, <3>3 DEF Queued, JobOf
  <2>. QED
    BY <2>1, <2>3, WorkerElsewhere DEF Idle
<1>4. CASE WorkerSaveProcessing
  <2>. DEFINE j == JobOf(worker.entry)
              e == IncrementAttempt(MarkProcessing(worker.row))
  <2>1. j \in Jobs /\ worker.row \in Row /\ worker.entry \in DOMAIN queue /\ worker.pc = "save"
    BY <1>4, WorkerFields, EntryJob DEF WorkerSaveProcessing
  <2>2. e.status = "PROCESSING"
    BY <2>1 DEF IncrementAttempt, MarkProcessing, Row
  <2>3. SaveRow(j, worker.row, e) /\ UNCHANGED <<queue, request, handler, cron>>
    BY <1>4 DEF WorkerSaveProcessing
  <2>4. worker'.pc = "survey"
    BY <1>4, <2>1, WorkerFields DEF WorkerSaveProcessing
  <2>. HIDE DEF e
  <2>5. \A k \in Jobs : k # j => rows'[k] = rows[k]
    BY <2>3 DEF SaveRow, TypeOK
  <2>6. rows'[j].status = "PENDING" =>
          rows[j].status = "PENDING" /\ worker.row.status = "PROCESSING"
    <3>1. PICK r \in Saves(worker.row, e, rows[j]) : rows' = [rows EXCEPT ![j] = r]
      BY <2>3 DEF SaveRow
    <3>2. rows'[j] = r
      BY <2>1, <3>1 DEF TypeOK
    <3>. QED
      BY <2>2, <3>1, <3>2 DEF Saves, ChangedColumns
  <2>7. \A k \in Jobs : WillEnqueue(k)' = WillEnqueue(k) /\ (Waiting(k) => Queued(k)')
    BY <2>3 DEF WillEnqueue, Waiting, Queued, JobOf
  <2>8. ASSUME NEW k \in Jobs, rows'[k].status = "PENDING"
        PROVE  WillEnqueue(k)' \/ Queued(k)'
    <3>1. CASE k = j
      BY <2>1, <2>6, <2>7, <2>8, <3>1 DEF QueueInv, ResetBehindTheWorker
    <3>2. CASE k # j
      <4>1. WillEnqueue(k) \/ Queued(k)
        BY <2>5, <2>8, <3>2 DEF QueueInv, PendingIsQueued
      <4>2. Queued(k) => Waiting(k)
        BY <3>2 DEF Queued, Waiting
      <4>. QED
        BY <2>7, <4>1, <4>2
    <3>. QED
      BY <3>1, <3>2
  <2>9. PendingIsQueued'
    BY <2>8 DEF PendingIsQueued
  <2>10. ResetBehindTheWorker' /\ CopiesAreUnfinished'
    BY <2>3, <2>4 DEF QueueInv, ResetBehindTheWorker, CopiesAreUnfinished
  <2>. QED
    BY <2>9, <2>10 DEF QueueInv
<1>5. CASE WorkerFindSurvey \/ WorkerPost
  <2>1. /\ worker.pc \in {"survey", "post"}
        /\ worker'.pc \in {"post", "posted"}
        /\ UNCHANGED <<rows, queue, request, handler, cron>>
    BY <1>5, WorkerFields DEF WorkerFindSurvey, WorkerPost, tables
  <2>2. \A j \in Jobs : Queued(j) => Queued(j)'
    BY <2>1 DEF Queued, JobOf
  <2>. QED
    BY <2>1, <2>2, WorkerElsewhere
<1>. QED
  BY <1>1, <1>2, <1>3, <1>4, <1>5 DEF WorkerStep

\* A handler step that leaves the queue alone leaves the entries where they are.
LEMMA QueueAlone ==
  ASSUME TypeOK, UNCHANGED <<queue, worker>>
  PROVE  /\ \A k \in Jobs : Waiting(k) => Waiting(k)'
         /\ \A k \in Jobs : Queued(k) => Queued(k)'
         /\ worker.pc = "save" => /\ JobOf(worker.entry) \in Jobs
                                  /\ JobOf(worker.entry)' = JobOf(worker.entry)
  BY WorkerJob DEF Waiting, Queued, JobOf

\* So does an added entry, and the job it is added for waits.
LEMMA QueueGrows ==
  ASSUME TypeOK, UNCHANGED worker, NEW j \in Jobs, Add(j)
  PROVE  /\ Waiting(j)'
         /\ \A k \in Jobs : Waiting(k) => Waiting(k)'
         /\ \A k \in Jobs : Queued(k) => Queued(k)'
         /\ worker.pc = "save" => /\ JobOf(worker.entry) \in Jobs
                                  /\ JobOf(worker.entry)' = JobOf(worker.entry)
  BY AddKeepsEntries, WorkerJob DEF Waiting, Queued, JobOf

\* Handlers other than h still add the entries they are about to add.
LEMMA OtherHandlers ==
  ASSUME TypeOK, NEW h \in Handlers, UNCHANGED request,
         \A g \in Handlers : g # h => handler'[g] = handler[g],
         NEW k \in Jobs, WillEnqueue(k),
         handler[h].pc = "enqueue" => handler[h].job # k
  PROVE  WillEnqueue(k)'
  BY DEF WillEnqueue

LEMMA HandlerQueue ==
  ASSUME NothingIsLost, TypeOK, QueueInv, NEW h \in Handlers, HandlerStep(h)
  PROVE  QueueInv'
<1>1. UNCHANGED <<worker, request, cron>>
  BY DEF HandlerStep, CommitCourse, SaveRetry, ReEnqueue, SaveFailure, HandlerThrow
<1>2. \A g \in Handlers : g # h => handler'[g] = handler[g]
  BY DEF HandlerStep, CommitCourse, SaveRetry, ReEnqueue, SaveFailure, HandlerThrow, TypeOK
<1>3. /\ handler[h] \in [pc : {"course", "retry", "enqueue", "fail"},
                         job : Jobs, row : Row]
      /\ handler[h].row.status \in Active
  <2>1. handler[h].pc # "idle"
    BY DEF HandlerStep, CommitCourse, SaveRetry, ReEnqueue, SaveFailure, HandlerThrow
  <2>. QED
    BY <2>1, HandlerFields DEF QueueInv, CopiesAreUnfinished
<1>4. CopiesAreUnfinished'
  <2>1. handler'[h] = Idle \/ handler'[h].row = handler[h].row
    BY <1>3 DEF HandlerStep, CommitCourse, SaveRetry, ReEnqueue, SaveFailure,
                HandlerThrow, TypeOK
  <2>. QED
    BY <1>1, <1>2, <1>3, <2>1 DEF QueueInv, CopiesAreUnfinished, Idle
<1>5. CASE CommitCourse(h) \/ SaveFailure(h)
  <2>1. PICK e :
          /\ SaveRow(handler[h].job, handler[h].row, e)
          /\ e.status \in Terminal
    <3>1. /\ MarkFailed(handler[h].row, "LLM_ERROR").status = "FAILED"
          /\ \A c : MarkSuccess(handler[h].row, c).status = "SUCCESS"
      BY <1>3 DEF MarkFailed, MarkSuccess, Row
    <3>. QED
      BY <1>5, <3>1 DEF CommitCourse, SaveFailure, Terminal
  <2>2. e.status # handler[h].row.status
    BY <1>3, <2>1 DEF Active, Terminal
  <2>3. /\ rows'[handler[h].job].status # "PENDING"
        /\ \A k \in Jobs : k # handler[h].job => rows'[k] = rows[k]
    BY <1>3, <2>1, <2>2, StatusIsWritten DEF Terminal, TypeOK
  <2>4. handler[h].pc # "enqueue" /\ UNCHANGED queue
    BY <1>5 DEF CommitCourse, SaveFailure
  <2>. QED
    BY <1>1, <1>2, <1>4, <2>3, <2>4, QueueAlone, OtherHandlers, StillQueued
<1>6. CASE SaveRetry(h)
  <2>. PICK j \in Jobs : j = handler[h].job
    BY <1>3
  <2>1. handler[h].pc # "enqueue" /\ UNCHANGED queue
    BY <1>6 DEF SaveRetry
  <2>2. SaveRow(j, handler[h].row, ResetForRetry(handler[h].row))
    BY <1>6 DEF SaveRetry
  <2>3. \A k \in Jobs : k # j => rows'[k] = rows[k]
    BY <2>2 DEF SaveRow, TypeOK
  <2>4. handler'[h].pc = "enqueue" /\ handler'[h].job = j
    BY <1>3, <1>6 DEF SaveRetry, TypeOK
  <2>5. WillEnqueue(j)'
    BY <2>4 DEF WillEnqueue
  <2>6. \A k \in Jobs : k # j => (WillEnqueue(k) => WillEnqueue(k)')
    BY <1>1, <1>2, <2>1, OtherHandlers
  <2>7. PendingIsQueued'
    BY <1>1, <2>1, <2>3, <2>5, <2>6, QueueAlone DEF QueueInv, PendingIsQueued
  <2>8. ResetBehindTheWorker'
    BY <1>1, <2>1, <2>3, <2>5, <2>6, QueueAlone DEF QueueInv, ResetBehindTheWorker
  <2>. QED
    BY <1>4, <2>7, <2>8 DEF QueueInv
<1>7. CASE Add(handler[h].job) /\ UNCHANGED rows
  BY <1>1, <1>2, <1>3, <1>4, <1>7, QueueGrows, OtherHandlers, StillQueued
<1>8. CASE UNCHANGED <<rows, queue>> /\ handler[h].pc # "enqueue"
  BY <1>1, <1>2, <1>4, <1>8, QueueAlone, OtherHandlers, StillQueued
<1>9. CASE ReEnqueue(h) \/ HandlerThrow(h)
  <2>1. ~("queueAdd" \in Faults)
    BY DEF NothingIsLost
  <2>. QED
    BY <1>7, <1>8, <1>9, <2>1 DEF ReEnqueue, HandlerThrow, AddRejected, tables
<1>. QED
  BY <1>5, <1>6, <1>9 DEF HandlerStep

LEMMA PythonQueue ==
  ASSUME TypeOK, QueueInv, PythonStep
  PROVE  QueueInv'
<1>1. UNCHANGED <<rows, queue, request, worker, cron>>
  BY DEF PythonStep, CallbackLost, CallbackIgnored, SuccessBegin, FailureBegin,
         CallbackBegin, tables
<1>2. CASE UNCHANGED handler
  <2>1. CopiesAreUnfinished' /\ \A k \in Jobs : WillEnqueue(k) => WillEnqueue(k)'
    BY <1>1, <1>2 DEF QueueInv, CopiesAreUnfinished, WillEnqueue
  <2>. QED
    BY <1>1, <2>1, QueueAlone, StillQueued
<1>3. ASSUME NEW t \in tasks, NEW h \in Handlers,
             NEW pc \in {"course", "retry", "fail"}, CallbackBegin(h, t, pc)
      PROVE  QueueInv'
  <2>1. /\ handler[h].pc = "idle"
        /\ \A g \in Handlers : g # h => handler'[g] = handler[g]
        /\ handler'[h].row = rows[JobOf(t.entry)]
        /\ rows[JobOf(t.entry)].status \in Active
    BY <1>3 DEF CallbackBegin, Idle, TypeOK
  <2>2. CopiesAreUnfinished'
    BY <1>1, <2>1 DEF QueueInv, CopiesAreUnfinished
  <2>3. \A k \in Jobs : WillEnqueue(k) => WillEnqueue(k)'
    BY <1>1, <2>1, OtherHandlers
  <2>. QED
    BY <1>1, <2>2, <2>3, QueueAlone, StillQueued
<1>. QED
  BY <1>2, <1>3 DEF PythonStep, CallbackLost, CallbackIgnored, SuccessBegin, FailureBegin

\* A step that changes neither the code in flight nor the queue, and makes no
\* job PENDING.
LEMMA OutsideTheQueue ==
  ASSUME TypeOK, QueueInv, UNCHANGED <<queue, request, worker, handler>>,
         cron'.pc = "save" => cron'.row.status = "PROCESSING",
         \A j \in Jobs : rows'[j].status = "PENDING" => rows[j].status = "PENDING"
  PROVE  QueueInv'
<1>1. CopiesAreUnfinished'
  BY DEF QueueInv, CopiesAreUnfinished
<1>2. \A k \in Jobs : WillEnqueue(k) => WillEnqueue(k)'
  BY DEF WillEnqueue
<1>. QED
  BY <1>1, <1>2, QueueAlone, StillQueued

LEMMA CronQueue ==
  ASSUME TypeOK, QueueInv, Cleanup
  PROVE  QueueInv'
<1>1. UNCHANGED <<queue, request, worker, handler>>
  BY DEF Cleanup
<1>2. CASE CronSaveTimeout
  <2>1. cron \in [pc : {"save"}, todo : SUBSET Jobs, job : Jobs, row : Row]
    BY <1>2 DEF CronSaveTimeout, Idle, TypeOK
  <2>2. /\ cron.row.status = "PROCESSING"
        /\ MarkFailed(cron.row, "TIMEOUT").status = "FAILED"
    BY <2>1 DEF QueueInv, CopiesAreUnfinished, MarkFailed, Row
  <2>3. /\ rows'[cron.job].status = "FAILED"
        /\ \A k \in Jobs : k # cron.job => rows'[k] = rows[k]
    BY <1>2, <2>1, <2>2, StatusIsWritten DEF CronSaveTimeout, TypeOK
  <2>4. cron'.pc = "next"
    BY <1>2 DEF CronSaveTimeout
  <2>. QED
    BY <1>1, <2>3, <2>4, OutsideTheQueue
<1>3. CASE UNCHANGED rows /\ cron'.pc # "save"
  BY <1>1, <1>3, OutsideTheQueue
<1>4. ASSUME NEW j \in Jobs, CronSkip(j) PROVE cron'.pc # "save"
  <2>1. cron \in [pc : {"next"}, todo : SUBSET Jobs]
    BY <1>4 DEF CronSkip, Idle, TypeOK
  <2>. QED
    BY <1>4, <2>1 DEF CronSkip
<1>5. ASSUME NEW j \in Jobs, CronReread(j) PROVE QueueInv'
  BY <1>1, <1>5, OutsideTheQueue DEF CronReread, tables
<1>6. CASE CronScan \/ CronEnd
  BY <1>3, <1>6 DEF CronScan, CronEnd, Idle, tables
<1>. QED
  BY <1>2, <1>3, <1>4, <1>5, <1>6 DEF Cleanup, CronStep, CronSkip

\* Without "courseGone" no course is ever deleted.
LEMMA NoneIsGone ==
  ASSUME NothingIsLost, gone = {}, [Next]_vars
  PROVE  gone' = {}
<1>1. "courseGone" \notin Faults
  BY DEF NothingIsLost
<1>. QED
  BY <1>1
  DEF Next, vars, tables, RequestStep, RequestCheck, RequestReject, RequestInsert,
      RequestInsertFails, RequestEnqueue, RequestEnqueueFails, RequestSaveFailure,
      RequestSaveFailureFails, Age, HandlerStep, CommitCourse, SaveRetry, ReEnqueue,
      SaveFailure, HandlerThrow, SurveyGone, CourseGone, WorkerStep, WorkerTake,
      WorkerLoad, WorkerDrop, WorkerSaveProcessing, WorkerFindSurvey, WorkerPost,
      WorkerAck, WorkerThrow, PythonStep, SuccessBegin, FailureBegin, CallbackBegin,
      CallbackLost, CallbackIgnored, Cleanup, Crash

\* With a queue.add that is rejected only when the entry is in Redis, a
\* database that answers, a process that stays up and owners who delete no
\* course, no job is left PENDING with nothing that can move it: whatever
\* callbacks, retries and stale saves do, its entry waits, or the worker has
\* yet to save it, or code in flight adds one.
THEOREM PendingCorrect ==
  ASSUME NothingIsLost
  PROVE  Spec => []PendingIsQueued
<1>. DEFINE Inv == QueueInv /\ EntryIsActive /\ gone = {}
<1>1. Init => Inv
  BY DEF Init, QueueInv, PendingIsQueued, ResetBehindTheWorker,
         CopiesAreUnfinished, EntryIsActive, Absent, Idle
<1>2. TypeOK /\ Inv /\ [Next]_vars => Inv'
  <2>. SUFFICES ASSUME TypeOK, QueueInv, EntryIsActive, gone = {}, [Next]_vars
                PROVE  QueueInv'
    BY EntryStaysActive, NoneIsGone
  <2>1. ASSUME NEW j \in Jobs, RequestStep(j) PROVE QueueInv'
    BY <2>1, RequestQueue
  <2>2. ASSUME NEW j \in Jobs, Age(j) PROVE QueueInv'
    BY <2>2, OutsideTheQueue DEF Age, GrowsOld, QueueInv, CopiesAreUnfinished
  <2>3. ASSUME NEW h \in Handlers, HandlerStep(h) PROVE QueueInv'
    BY <2>3, HandlerQueue
  <2>4. ASSUME NEW s \in Surveys, SurveyGone(s) PROVE QueueInv'
    BY <2>4, OutsideTheQueue
    DEF SurveyGone, Absent, QueueInv, CopiesAreUnfinished
  <2>5. CASE WorkerStep
    BY <2>5, WorkerQueue
  <2>6. CASE PythonStep
    BY <2>6, PythonQueue
  <2>7. CASE Cleanup
    BY <2>7, CronQueue
  <2>8. CASE Crash
    BY <2>8 DEF Crash, NothingIsLost
  <2>9. ASSUME NEW c \in DOMAIN courses, CourseGone(c) PROVE QueueInv'
    BY <2>9 DEF CourseGone, NothingIsLost
  <2>10. CASE UNCHANGED vars
    BY <2>10, OutsideTheQueue DEF vars, QueueInv, CopiesAreUnfinished
  <2>. QED
    BY <2>1, <2>2, <2>3, <2>4, <2>5, <2>6, <2>7, <2>8, <2>9, <2>10
    DEF Next
<1>. QED
  BY <1>1, <1>2, TypeCorrect, PTL DEF Spec, QueueInv

-----------------------------------------------------------------------------
(* One piece of work per job, while nothing is delivered or run twice      *)

\* BullMQ confirms what it stored, Python answers an accepted generation within
\* the timeout and calls back once, and the process stays up.
NothingIsRepeated ==
  Faults \cap {"queueAck", "postTimeout", "duplicate", "crash"} = {}

\* What a job is worked on by: an entry that waits or that the worker has yet
\* to post, a generation Python has yet to answer, a callback under way, or, in
\* the end, a course.
AtWork(i) ==
  \/ queue[i].state = "waiting"
  \/ worker.pc \in {"load", "save", "survey", "post"} /\ worker.entry = i

EntriesAtWork(j) == {i \in EntriesOf(j) : AtWork(i)}

AnswersFor(j) == {t \in tasks : JobOf(t.entry) = j}

CallbacksFor(j) == {h \in Handlers : handler[h].pc # "idle" /\ handler[h].job = j}

WorkOf(j) ==
  {<<"entry", i>> : i \in EntriesAtWork(j)}
  \union {<<"answer", t>> : t \in AnswersFor(j)}
  \union {<<"callback", h>> : h \in CallbacksFor(j)}
  \union {<<"course", n>> : n \in CoursesMadeBy(j)}

OnePieceOfWork ==
  \A j \in Jobs :
    /\ \A v, w \in WorkOf(j) : v = w
    /\ request[j] # "done" => WorkOf(j) = {} /\ EntriesOf(j) = {}

\* Entries whose data stays belong to the same jobs.
LEMMA SameEntries ==
  ASSUME DOMAIN queue' = DOMAIN queue,
         \A i \in DOMAIN queue : queue'[i].data = queue[i].data
  PROVE  \A k \in Jobs : EntriesOf(k)' = EntriesOf(k)
  BY DEF EntriesOf, JobOf

\* An added entry is the job's, waits, and disturbs no other.
LEMMA AddedEntry ==
  ASSUME TypeOK, NEW j \in Jobs, Add(j)
  PROVE  /\ Len(queue) + 1 \in DOMAIN queue' \ DOMAIN queue
         /\ queue'[Len(queue) + 1] = NewEntry(j)
         /\ \A i \in DOMAIN queue : queue'[i] = queue[i]
         /\ EntriesOf(j)' = EntriesOf(j) \union {Len(queue) + 1}
         /\ \A k \in Jobs \ {j} : EntriesOf(k)' = EntriesOf(k)
<1>1. queue \in Seq(Entry) /\ queue' = Append(queue, NewEntry(j))
  BY DEF TypeOK, Add
<1>2. /\ Len(queue) + 1 \in DOMAIN queue' \ DOMAIN queue
      /\ queue'[Len(queue) + 1] = NewEntry(j)
      /\ \A i \in DOMAIN queue : queue'[i] = queue[i]
      /\ DOMAIN queue' = DOMAIN queue \union {Len(queue) + 1}
  BY <1>1
<1>3. NewEntry(j).data = j
  BY DEF NewEntry
<1>4. \A k \in Jobs : EntriesOf(k)' = EntriesOf(k) \union (IF k = j THEN {Len(queue) + 1} ELSE {})
  BY <1>2, <1>3 DEF EntriesOf, JobOf
<1>. QED
  BY <1>2, <1>4

\* A step that gives no job another piece of work.
LEMMA LessWork ==
  ASSUME OnePieceOfWork,
         \A k \in Jobs : /\ EntriesAtWork(k)' \subseteq EntriesAtWork(k)
                         /\ AnswersFor(k)' \subseteq AnswersFor(k)
                         /\ CallbacksFor(k)' \subseteq CallbacksFor(k)
                         /\ CoursesMadeBy(k)' \subseteq CoursesMadeBy(k),
         \A k \in Jobs : request'[k] # "done" => /\ request[k] # "done"
                                                 /\ EntriesOf(k)' = EntriesOf(k)
  PROVE  OnePieceOfWork'
<1>1. \A k \in Jobs : WorkOf(k)' \subseteq WorkOf(k)
  BY DEF WorkOf
<1>2. ASSUME NEW j \in Jobs
      PROVE  /\ \A v, w \in WorkOf(j)' : v = w
             /\ request'[j] # "done" => WorkOf(j)' = {} /\ EntriesOf(j)' = {}
  BY <1>1 DEF OnePieceOfWork
<1>. QED
  BY <1>2 DEF OnePieceOfWork

\* A step that replaces the piece of work of one job, or gives it its first.
LEMMA WorkMoves ==
  ASSUME OnePieceOfWork, NEW j \in Jobs, NEW w,
         WorkOf(j)' \subseteq {w}, request'[j] = "done",
         \A k \in Jobs \ {j} : /\ EntriesAtWork(k)' \subseteq EntriesAtWork(k)
                               /\ AnswersFor(k)' \subseteq AnswersFor(k)
                               /\ CallbacksFor(k)' \subseteq CallbacksFor(k)
                               /\ CoursesMadeBy(k)' \subseteq CoursesMadeBy(k),
         \A k \in Jobs \ {j} : request'[k] # "done" => /\ request[k] # "done"
                                                       /\ EntriesOf(k)' = EntriesOf(k)
  PROVE  OnePieceOfWork'
<1>1. \A k \in Jobs \ {j} : WorkOf(k)' \subseteq WorkOf(k)
  BY DEF WorkOf
<1>2. ASSUME NEW k \in Jobs, k # j
      PROVE  /\ \A u, v \in WorkOf(k)' : u = v
             /\ request'[k] # "done" => WorkOf(k)' = {} /\ EntriesOf(k)' = {}
  BY <1>1, <1>2 DEF OnePieceOfWork
<1>. QED
  BY <1>2 DEF OnePieceOfWork

\* A job has work of one kind at most, and then only one piece of it.
LEMMA Kinds ==
  ASSUME OnePieceOfWork, NEW j \in Jobs
  PROVE  /\ \A i, k \in EntriesAtWork(j) : i = k
         /\ \A t, u \in AnswersFor(j) : t = u
         /\ \A g, h \in CallbacksFor(j) : g = h
         /\ EntriesAtWork(j) # {} => AnswersFor(j) = {} /\ CallbacksFor(j) = {} /\ CoursesMadeBy(j) = {}
         /\ AnswersFor(j) # {} => CallbacksFor(j) = {} /\ CoursesMadeBy(j) = {}
         /\ CallbacksFor(j) # {} => CoursesMadeBy(j) = {}
         /\ WorkOf(j) # {} => request[j] = "done"
<1>1. \A v, w \in WorkOf(j) : v = w
  BY DEF OnePieceOfWork
<1>2. /\ \A i \in EntriesAtWork(j) : <<"entry", i>> \in WorkOf(j)
      /\ \A t \in AnswersFor(j) : <<"answer", t>> \in WorkOf(j)
      /\ \A h \in CallbacksFor(j) : <<"callback", h>> \in WorkOf(j)
      /\ \A n \in CoursesMadeBy(j) : <<"course", n>> \in WorkOf(j)
  BY DEF WorkOf
<1>3. \A i, k : /\ <<"entry", i>> # <<"answer", k>> /\ <<"entry", i>> # <<"callback", k>>
                /\ <<"entry", i>> # <<"course", k>> /\ <<"answer", i>> # <<"callback", k>>
                /\ <<"answer", i>> # <<"course", k>> /\ <<"callback", i>> # <<"course", k>>
  OBVIOUS
<1>4. \A i, k \in EntriesAtWork(j) : i = k
  <2>1. \A i, k \in EntriesAtWork(j) : <<"entry", i>> = <<"entry", k>>
    BY <1>1, <1>2
  <2>. QED
    BY <2>1
<1>5. \A i, k \in AnswersFor(j) : i = k
  <2>1. \A i, k \in AnswersFor(j) : <<"answer", i>> = <<"answer", k>>
    BY <1>1, <1>2
  <2>. QED
    BY <2>1
<1>6. \A i, k \in CallbacksFor(j) : i = k
  <2>1. \A i, k \in CallbacksFor(j) : <<"callback", i>> = <<"callback", k>>
    BY <1>1, <1>2
  <2>. QED
    BY <2>1
<1>7. EntriesAtWork(j) # {} => AnswersFor(j) = {} /\ CallbacksFor(j) = {} /\ CoursesMadeBy(j) = {}
  BY <1>1, <1>2, <1>3
<1>8. AnswersFor(j) # {} => CallbacksFor(j) = {} /\ CoursesMadeBy(j) = {}
  BY <1>1, <1>2, <1>3
<1>9. CallbacksFor(j) # {} => CoursesMadeBy(j) = {}
  BY <1>1, <1>2, <1>3
<1>10. WorkOf(j) # {} => request[j] = "done"
  BY DEF OnePieceOfWork
<1>. QED
  BY <1>4, <1>5, <1>6, <1>7, <1>8, <1>9, <1>10

\* So one piece of work known is all the work the job has.
LEMMA OnlyEntry ==
  ASSUME OnePieceOfWork, NEW j \in Jobs, NEW i \in EntriesAtWork(j)
  PROVE  /\ EntriesAtWork(j) = {i} /\ AnswersFor(j) = {} /\ CallbacksFor(j) = {}
         /\ CoursesMadeBy(j) = {} /\ request[j] = "done"
<1>1. WorkOf(j) # {}
  BY DEF WorkOf
<1>. QED
  BY <1>1, Kinds

LEMMA OnlyAnswer ==
  ASSUME OnePieceOfWork, NEW j \in Jobs, NEW t \in AnswersFor(j)
  PROVE  /\ EntriesAtWork(j) = {} /\ AnswersFor(j) = {t} /\ CallbacksFor(j) = {}
         /\ CoursesMadeBy(j) = {} /\ request[j] = "done"
<1>1. WorkOf(j) # {}
  BY DEF WorkOf
<1>. QED
  BY <1>1, Kinds

LEMMA OnlyCallback ==
  ASSUME OnePieceOfWork, NEW j \in Jobs, NEW h \in CallbacksFor(j)
  PROVE  /\ EntriesAtWork(j) = {} /\ AnswersFor(j) = {} /\ CallbacksFor(j) = {h}
         /\ CoursesMadeBy(j) = {} /\ request[j] = "done"
<1>1. WorkOf(j) # {}
  BY DEF WorkOf
<1>. QED
  BY <1>1, Kinds

\* A step that leaves the queue and the worker alone, or the tasks, the
\* callbacks, the courses.
LEMMA SameWork ==
  /\ UNCHANGED <<queue, worker>> =>
       \A k \in Jobs : EntriesAtWork(k)' = EntriesAtWork(k) /\ EntriesOf(k)' = EntriesOf(k)
  /\ UNCHANGED <<queue, tasks>> => \A k \in Jobs : AnswersFor(k)' = AnswersFor(k)
  /\ UNCHANGED handler => \A k \in Jobs : CallbacksFor(k)' = CallbacksFor(k)
  /\ UNCHANGED courses => \A k \in Jobs : CoursesMadeBy(k)' = CoursesMadeBy(k)
  BY DEF EntriesAtWork, EntriesOf, AtWork, JobOf, AnswersFor, CallbacksFor, CoursesMadeBy

\* An entry added by code in flight: every other job keeps its work, and the
\* job it is for has at most this entry and what it had.
LEMMA AddedWork ==
  ASSUME TypeOK, EntryIsActive, NEW j \in Jobs, Add(j), UNCHANGED <<worker, tasks>>
  PROVE  /\ \A k \in Jobs \ {j} : EntriesAtWork(k)' \subseteq EntriesAtWork(k)
         /\ EntriesAtWork(j)' \subseteq EntriesAtWork(j) \union {Len(queue) + 1}
         /\ \A k \in Jobs : AnswersFor(k)' = AnswersFor(k)
<1>1. \A k \in Jobs : \A i \in EntriesOf(k) : AtWork(i)' = AtWork(i)
  BY AddedEntry DEF AtWork, EntriesOf
<1>2. \A k \in Jobs : AnswersFor(k)' = AnswersFor(k)
  BY AddedEntry DEF AnswersFor, JobOf, TypeOK
<1>. QED
  BY <1>1, <1>2, AddedEntry DEF EntriesAtWork

\* A request's first entry is the first work its job has.
LEMMA RequestWork ==
  ASSUME NothingIsRepeated, TypeOK, EntryIsActive, OnePieceOfWork,
         NEW j \in Jobs, RequestStep(j)
  PROVE  OnePieceOfWork'
<1>1. /\ UNCHANGED <<worker, tasks, handler, courses>>
      /\ \A k \in Jobs : request'[k] # "done" => request[k] # "done"
      /\ \A k \in Jobs \ {j} : request'[k] = request[k]
  BY DEF RequestStep, RequestCheck, RequestReject, RequestInsert, RequestInsertFails,
         RequestEnqueue, RequestEnqueueFails, RequestSaveFailure,
         RequestSaveFailureFails, tables, TypeOK
<1>2. CASE UNCHANGED queue
  BY <1>1, <1>2, SameWork, LessWork
<1>3. CASE RequestEnqueue(j)
  <2>1. /\ Add(j) /\ request[j] # "done" /\ request'[j] = "done"
    BY <1>3 DEF RequestEnqueue, TypeOK
  <2>2. WorkOf(j) = {} /\ EntriesOf(j) = {}
    BY <2>1 DEF OnePieceOfWork
  <2>3. EntriesAtWork(j) = {} /\ AnswersFor(j) = {} /\ CallbacksFor(j) = {} /\ CoursesMadeBy(j) = {}
    BY <2>2 DEF WorkOf
  <2>4. /\ EntriesAtWork(j)' \subseteq {Len(queue) + 1}
        /\ AnswersFor(j)' = {} /\ CallbacksFor(j)' = {} /\ CoursesMadeBy(j)' = {}
    BY <1>1, <2>1, <2>3, SameWork, AddedWork
  <2>5. WorkOf(j)' \subseteq {<<"entry", Len(queue) + 1>>}
    BY <2>4 DEF WorkOf
  <2>. QED
    BY <1>1, <2>1, <2>5, SameWork, AddedWork, AddedEntry, WorkMoves
<1>. QED
  BY <1>2, <1>3
  DEF NothingIsRepeated, RequestStep, RequestCheck, RequestReject, RequestInsert,
      RequestInsertFails, RequestEnqueueFails, AddRejected, RequestSaveFailure,
      RequestSaveFailureFails, tables

\* The worker adds no entry and changes the data of none.
LEMMA WorkerKeepsEntries ==
  ASSUME TypeOK, WorkerStep
  PROVE  DOMAIN queue' = DOMAIN queue /\ \A i \in DOMAIN queue : queue'[i].data = queue[i].data
<1>1. \A i \in DOMAIN queue : queue[i] \in Entry
  BY EntryJob
<1>2. ASSUME NEW i \in DOMAIN queue, NEW s \in EntryStates, SetEntry(i, s)
      PROVE  DOMAIN queue' = DOMAIN queue /\ \A k \in DOMAIN queue : queue'[k].data = queue[k].data
  BY <1>1, <1>2 DEF SetEntry, TypeOK, Entry, EntryOf
<1>3. CASE worker.entry \in DOMAIN queue /\ queue' = [queue EXCEPT ![worker.entry] = TriedAgain(queue[worker.entry])]
  BY <1>1, <1>3 DEF TriedAgain, TypeOK, Entry, EntryOf
<1>4. "active" \in EntryStates /\ "completed" \in EntryStates
  BY DEF EntryStates
<1>5. worker.pc # "idle" => worker.entry \in DOMAIN queue
  BY WorkerFields
<1>. QED
  BY <1>2, <1>3, <1>4, <1>5 DEF WorkerStep, WorkerTake, WorkerLoad, WorkerDrop,
       WorkerSaveProcessing, WorkerFindSurvey, WorkerPost, WorkerAck, WorkerThrow,
       WorkerCanThrow

\* The worker takes up no work: an entry it takes was waiting.
LEMMA WorkerEntries ==
  ASSUME NothingIsRepeated, TypeOK, EntryIsActive, WorkerStep
  PROVE  /\ \A i \in DOMAIN queue : AtWork(i)' => AtWork(i)
         /\ \A k \in Jobs : /\ EntriesOf(k)' = EntriesOf(k)
                             /\ EntriesAtWork(k)' \subseteq EntriesAtWork(k)
<1>1. \A k \in Jobs : EntriesOf(k)' = EntriesOf(k)
  BY WorkerKeepsEntries, SameEntries
<1>2. SUFFICES \A i \in DOMAIN queue : AtWork(i)' => AtWork(i)
  BY <1>1 DEF EntriesAtWork, EntriesOf
<1>3. ASSUME NEW i \in DOMAIN queue, WorkerTake(i)
      PROVE  \A k \in DOMAIN queue : AtWork(k)' => AtWork(k)
  <2>1. /\ worker.pc = "idle" /\ queue[i].state = "waiting"
        /\ worker'.pc = "load" /\ worker'.entry = i
        /\ \A k \in DOMAIN queue \ {i} : queue'[k] = queue[k]
    BY <1>3 DEF WorkerTake, SetEntry, Idle, TypeOK
  <2>. QED
    BY <2>1 DEF AtWork
<1>4. CASE WorkerLoad
  BY <1>4 DEF WorkerLoad, AtWork
<1>5. CASE WorkerSaveProcessing \/ WorkerFindSurvey \/ WorkerPost
  <2>1. /\ UNCHANGED queue /\ worker'.entry = worker.entry
        /\ worker.pc \in {"save", "survey", "post"}
    BY <1>5, WorkerFields DEF WorkerSaveProcessing, WorkerFindSurvey, WorkerPost
  <2>. QED
    BY <2>1 DEF AtWork
<1>6. CASE WorkerDrop \/ WorkerAck
  <2>1. /\ worker' = Idle /\ SetEntry(worker.entry, "completed") /\ worker.pc # "idle"
    BY <1>6 DEF WorkerDrop, WorkerAck
  <2>2. /\ queue'[worker.entry].state = "completed"
        /\ \A i \in DOMAIN queue \ {worker.entry} : queue'[i] = queue[i]
    BY <2>1, WorkerFields, EntryJob DEF SetEntry, TypeOK, Entry, EntryOf
  <2>. QED
    BY <2>1, <2>2 DEF AtWork, Idle
<1>7. CASE WorkerThrow
  <2>1. /\ worker' = Idle
        /\ worker.pc \in {"load", "save", "survey", "post"}
        /\ \A i \in DOMAIN queue \ {worker.entry} : queue'[i] = queue[i]
    BY <1>7 DEF WorkerThrow, WorkerCanThrow, NothingIsRepeated, TypeOK
  <2>. QED
    BY <2>1 DEF AtWork, Idle
<1>. QED
  BY <1>3, <1>4, <1>5, <1>6, <1>7 DEF WorkerStep

\* The worker hands an entry it has posted to Python, and keeps the others.
LEMMA WorkerWork ==
  ASSUME NothingIsRepeated, TypeOK, EntryIsActive, OnePieceOfWork, WorkerStep
  PROVE  OnePieceOfWork'
<1>1. UNCHANGED <<request, handler, courses>>
  BY DEF WorkerStep, WorkerTake, WorkerLoad, WorkerDrop, WorkerSaveProcessing,
         WorkerFindSurvey, WorkerPost, WorkerAck, WorkerThrow, tables
<1>2. CASE UNCHANGED tasks
  <2>1. \A k \in Jobs : AnswersFor(k)' = AnswersFor(k)
    BY <1>2, WorkerKeepsEntries DEF AnswersFor, JobOf, TypeOK
  <2>. QED
    BY <1>1, <2>1, SameWork, WorkerEntries, LessWork
<1>3. CASE WorkerPost
  <2>. PICK i \in DOMAIN queue : i = worker.entry /\ worker.pc = "post"
    BY <1>3, WorkerFields DEF WorkerPost
  <2>. PICK j \in Jobs : j = JobOf(i)
    BY EntryJob
  <2>. DEFINE t == [entry |-> i, run |-> queue[i].made + queue[i].stalls]
  <2>1. /\ UNCHANGED queue /\ tasks' = tasks \union {t}
        /\ worker'.pc = "posted" /\ t.entry = i
    BY <1>3, WorkerFields DEF WorkerPost
  <2>2. ~ AtWork(i)'
    BY <2>1 DEF AtWork, EntryIsActive
  <2>3. i \in EntriesAtWork(j)
    BY DEF EntriesAtWork, EntriesOf, AtWork
  <2>. HIDE DEF t
  <2>4. EntriesAtWork(j)' \subseteq EntriesAtWork(j) \ {i}
    BY <2>2, WorkerEntries DEF EntriesAtWork
  <2>5. /\ AnswersFor(j)' \subseteq AnswersFor(j) \union {t}
        /\ \A k \in Jobs \ {j} : AnswersFor(k)' \subseteq AnswersFor(k)
    BY <2>1 DEF AnswersFor, JobOf
  <2>6. /\ EntriesAtWork(j)' = {} /\ AnswersFor(j)' \subseteq {t}
        /\ CallbacksFor(j)' = {} /\ CoursesMadeBy(j)' = {} /\ request'[j] = "done"
    BY <1>1, <2>3, <2>4, <2>5, OnlyEntry, SameWork
  <2>7. WorkOf(j)' \subseteq {<<"answer", t>>}
    BY <2>6 DEF WorkOf
  <2>. QED
    BY <1>1, <2>5, <2>6, <2>7, SameWork, WorkerEntries, WorkMoves
<1>. QED
  BY <1>2, <1>3 DEF WorkerStep, WorkerTake, WorkerLoad, WorkerDrop,
     WorkerSaveProcessing, WorkerFindSurvey, WorkerAck, WorkerThrow

\* A callback under way holds a job and the row it loaded, keeps the job, and
\* disturbs no other callback.
LEMMA CallbackAtWork ==
  ASSUME TypeOK, NEW h \in Handlers, HandlerStep(h)
  PROVE  /\ handler[h] \in [pc : {"course", "retry", "enqueue", "fail"}, job : Jobs, row : Row]
         /\ handler'[h].pc = "idle" \/ handler'[h].job = handler[h].job
         /\ \A g \in Handlers \ {h} : handler'[g] = handler[g]
<1>1. handler[h].pc # "idle"
  BY DEF HandlerStep, CommitCourse, SaveRetry, ReEnqueue, SaveFailure, HandlerThrow
<1>2. handler[h] \in [pc : {"course", "retry", "enqueue", "fail"}, job : Jobs, row : Row]
  BY <1>1, HandlerFields
<1>3. handler'[h].pc = "idle" \/ handler'[h].job = handler[h].job
  BY <1>2 DEF HandlerStep, CommitCourse, SaveRetry, ReEnqueue, SaveFailure,
              HandlerThrow, Idle, TypeOK
<1>4. \A g \in Handlers \ {h} : handler'[g] = handler[g]
  BY DEF HandlerStep, CommitCourse, SaveRetry, ReEnqueue, SaveFailure, HandlerThrow, TypeOK
<1>. QED
  BY <1>2, <1>3, <1>4

\* A callback ends in a course or in an entry, or in nothing.
LEMMA HandlerWork ==
  ASSUME NothingIsRepeated, TypeOK, EntryIsActive, OnePieceOfWork,
         NEW h \in Handlers, HandlerStep(h)
  PROVE  OnePieceOfWork'
<1>1. UNCHANGED <<request, worker, tasks>>
  BY DEF HandlerStep, CommitCourse, SaveRetry, ReEnqueue, SaveFailure, HandlerThrow
<1>2. /\ handler[h] \in [pc : {"course", "retry", "enqueue", "fail"}, job : Jobs, row : Row]
      /\ handler'[h].pc = "idle" \/ handler'[h].job = handler[h].job
      /\ \A g \in Handlers \ {h} : handler'[g] = handler[g]
  BY CallbackAtWork
<1>. PICK j \in Jobs : j = handler[h].job
  BY <1>2
<1>3. h \in CallbacksFor(j)
  BY <1>2 DEF CallbacksFor
<1>4. /\ EntriesAtWork(j) = {} /\ AnswersFor(j) = {} /\ CallbacksFor(j) = {h}
      /\ CoursesMadeBy(j) = {} /\ request[j] = "done"
  BY <1>3, OnlyCallback
<1>5. \A k \in Jobs \ {j} : CallbacksFor(k)' \subseteq CallbacksFor(k)
  BY <1>2 DEF CallbacksFor
<1>6. CASE UNCHANGED <<queue, courses>>
  <2>1. CallbacksFor(j)' \subseteq {h}
    BY <1>2, <1>4 DEF CallbacksFor
  <2>. QED
    BY <1>1, <1>4, <1>5, <1>6, <2>1, SameWork, LessWork
<1>7. CASE ReEnqueue(h)
  <2>1. Add(j) /\ handler'[h].pc = "idle" /\ UNCHANGED courses
    BY <1>7 DEF ReEnqueue, Idle, tables, TypeOK
  <2>2. CallbacksFor(j)' = {}
    BY <1>2, <1>4, <2>1 DEF CallbacksFor
  <2>3. /\ EntriesAtWork(j)' \subseteq {Len(queue) + 1}
        /\ AnswersFor(j)' = {} /\ CallbacksFor(j)' = {} /\ CoursesMadeBy(j)' = {}
    BY <1>1, <1>4, <2>1, <2>2, SameWork, AddedWork
  <2>4. WorkOf(j)' \subseteq {<<"entry", Len(queue) + 1>>}
    BY <2>3 DEF WorkOf
  <2>5. \A k \in Jobs \ {j} :
          /\ EntriesAtWork(k)' \subseteq EntriesAtWork(k)
          /\ AnswersFor(k)' \subseteq AnswersFor(k)
          /\ CallbacksFor(k)' \subseteq CallbacksFor(k)
          /\ CoursesMadeBy(k)' \subseteq CoursesMadeBy(k)
          /\ request'[k] # "done" => request[k] # "done" /\ EntriesOf(k)' = EntriesOf(k)
    BY <1>1, <1>5, <2>1, SameWork, AddedWork, AddedEntry
  <2>. QED
    BY <1>1, <1>4, <2>4, <2>5, WorkMoves
<1>8. CASE CommitCourse(h)
  <2>1. /\ courses' = Append(courses, j) /\ UNCHANGED queue /\ handler'[h].pc = "idle"
    BY <1>8 DEF CommitCourse, Idle, TypeOK
  <2>2. CallbacksFor(j)' = {}
    BY <1>2, <1>4, <2>1 DEF CallbacksFor
  <2>3. /\ DOMAIN courses' = DOMAIN courses \union {Len(courses) + 1}
        /\ courses'[Len(courses) + 1] = j
        /\ \A n \in DOMAIN courses : courses'[n] = courses[n]
        /\ Len(courses) + 1 \notin DOMAIN courses
    BY <2>1 DEF TypeOK
  <2>4. CoursesMadeBy(j)' \subseteq {Len(courses) + 1}
    BY <1>4, <2>3 DEF CoursesMadeBy
  <2>5. \A k \in Jobs \ {j} : CoursesMadeBy(k)' \subseteq CoursesMadeBy(k)
    BY <2>3 DEF CoursesMadeBy
  <2>6. EntriesAtWork(j)' = {} /\ AnswersFor(j)' = {}
    BY <1>1, <1>4, <2>1, SameWork
  <2>7. WorkOf(j)' \subseteq {<<"course", Len(courses) + 1>>}
    BY <2>2, <2>4, <2>6 DEF WorkOf
  <2>8. \A k \in Jobs \ {j} :
          /\ EntriesAtWork(k)' \subseteq EntriesAtWork(k)
          /\ AnswersFor(k)' \subseteq AnswersFor(k)
          /\ CallbacksFor(k)' \subseteq CallbacksFor(k)
          /\ CoursesMadeBy(k)' \subseteq CoursesMadeBy(k)
          /\ request'[k] # "done" => request[k] # "done" /\ EntriesOf(k)' = EntriesOf(k)
    BY <1>1, <1>5, <2>1, <2>5, SameWork
  <2>. QED
    BY <1>1, <1>4, <2>7, <2>8, WorkMoves
<1>9. HandlerThrow(h) => UNCHANGED <<queue, courses>>
  BY DEF HandlerThrow, AddRejected, NothingIsRepeated, tables
<1>. QED
  BY <1>6, <1>7, <1>8, <1>9 DEF HandlerStep, SaveRetry, SaveFailure

\* An answer that is received becomes a callback, once.
LEMMA PythonWork ==
  ASSUME NothingIsRepeated, TypeOK, OnePieceOfWork, PythonStep
  PROVE  OnePieceOfWork'
<1>1. UNCHANGED <<request, worker, queue, courses>>
  BY DEF PythonStep, CallbackLost, CallbackIgnored, SuccessBegin, FailureBegin,
         CallbackBegin, tables
<1>2. CASE UNCHANGED handler /\ tasks' \subseteq tasks
  <2>1. \A k \in Jobs : AnswersFor(k)' \subseteq AnswersFor(k)
    BY <1>1, <1>2 DEF AnswersFor, JobOf
  <2>. QED
    BY <1>1, <1>2, <2>1, SameWork, LessWork
<1>3. ASSUME NEW t \in tasks, NEW h \in Handlers, NEW pc, pc # "idle", CallbackBegin(h, t, pc)
      PROVE  OnePieceOfWork'
  <2>. PICK j \in Jobs : j = JobOf(t.entry)
    BY EntryJob DEF TypeOK
  <2>1. /\ tasks' = tasks \ {t}
        /\ handler[h].pc = "idle" /\ handler'[h].job = j
        /\ \A g \in Handlers \ {h} : handler'[g] = handler[g]
    BY <1>3 DEF CallbackBegin, Receive, NothingIsRepeated, Idle, TypeOK
  <2>2. t \in AnswersFor(j)
    BY DEF AnswersFor
  <2>3. /\ EntriesAtWork(j) = {} /\ AnswersFor(j) = {t} /\ CallbacksFor(j) = {}
        /\ CoursesMadeBy(j) = {} /\ request[j] = "done"
    BY <2>2, OnlyAnswer
  <2>4. /\ \A k \in Jobs : AnswersFor(k)' \subseteq AnswersFor(k) \ {t}
        /\ \A k \in Jobs \ {j} : CallbacksFor(k)' \subseteq CallbacksFor(k)
        /\ CallbacksFor(j)' \subseteq CallbacksFor(j) \union {h}
    BY <1>1, <2>1 DEF AnswersFor, CallbacksFor, JobOf
  <2>5. WorkOf(j)' \subseteq {<<"callback", h>>}
    BY <1>1, <2>3, <2>4, SameWork DEF WorkOf
  <2>. QED
    BY <1>1, <2>3, <2>4, <2>5, SameWork, WorkMoves
<1>. QED
  BY <1>2, <1>3
  DEF PythonStep, CallbackLost, CallbackIgnored, Receive, SuccessBegin, FailureBegin

\* A job is worked on in one place at a time: each step hands the work on, from
\* the request to the queue, the worker, Python, a callback, and to a course or
\* to the queue again.
LEMMA WorkIsHandedOn ==
  ASSUME NothingIsRepeated, TypeOK, EntryIsActive, OnePieceOfWork, [Next]_vars
  PROVE  OnePieceOfWork'
<1>1. CASE UNCHANGED <<queue, worker, tasks, handler, courses, request>>
  BY <1>1, SameWork, LessWork
<1>. QED
  BY <1>1, RequestWork, WorkerWork, HandlerWork, PythonWork
  DEF Next, vars, Age, SurveyGone, CourseGone, Cleanup, Crash, NothingIsRepeated

\* At first there is no work.
LEMMA NoWorkYet == Init => OnePieceOfWork
  BY DEF Init, OnePieceOfWork, WorkOf, EntriesAtWork, EntriesOf, AnswersFor,
         CallbacksFor, CoursesMadeBy, Idle

\* While BullMQ, Python and the process repeat nothing they were told has
\* arrived, a job makes one course at most, whatever fails, is lost, deleted or
\* late.  The hypothesis is needed: two callbacks at once make two courses.
THEOREM CoursesCorrect ==
  ASSUME NothingIsRepeated
  PROVE  Spec => []OneCoursePerJob
<1>1. Init => EntryIsActive
  BY DEF Init, EntryIsActive, Idle
<1>2. TypeOK /\ OnePieceOfWork => OneCoursePerJob
  <2>. SUFFICES ASSUME TypeOK, OnePieceOfWork, NEW m \in DOMAIN courses,
                       NEW n \in DOMAIN courses, courses[m] = courses[n]
                PROVE  m = n
    BY DEF OneCoursePerJob
  <2>. PICK j \in Jobs : j = courses[m]
    BY DEF TypeOK
  <2>1. <<"course", m>> \in WorkOf(j) /\ <<"course", n>> \in WorkOf(j)
    BY DEF WorkOf, CoursesMadeBy
  <2>2. <<"course", m>> = <<"course", n>>
    BY <2>1 DEF OnePieceOfWork
  <2>. QED
    BY <2>2
<1>. QED
  BY <1>1, <1>2, NoWorkYet, EntryStaysActive, WorkIsHandedOn, TypeCorrect, PTL DEF Spec

-----------------------------------------------------------------------------
(* The retry budget                                                        *)

\* No job stays PROCESSING for ten minutes.
NothingIsSlow == "slow" \notin Faults

\* Without "slow" the cron finds no job to fail.
CronSleeps == cron = Idle /\ aged = {}

\* A cron that sleeps does nothing, and goes on sleeping.
LEMMA NoStaleJobs == CronSleeps => ~ Cleanup
  BY DEF CronSleeps, Cleanup, CronStep, CronScan, CronReread, CronSkip,
         CronSaveTimeout, CronEnd, StaleJobs, Idle

LEMMA CronStaysAsleep ==
  ASSUME NothingIsSlow, CronSleeps, [Next]_vars
  PROVE  CronSleeps'
<1>1. ~ Cleanup
  BY NoStaleJobs
<1>2. cron' = Idle
  BY <1>1
  DEF Next, vars, CronSleeps, RequestStep, RequestCheck, RequestReject, RequestInsert,
      RequestInsertFails, RequestEnqueue, RequestEnqueueFails, RequestSaveFailure,
      RequestSaveFailureFails, Age, HandlerStep, CommitCourse, SaveRetry, ReEnqueue,
      SaveFailure, HandlerThrow, SurveyGone, CourseGone, WorkerStep, WorkerTake,
      WorkerLoad, WorkerDrop, WorkerSaveProcessing, WorkerFindSurvey, WorkerPost,
      WorkerAck, WorkerThrow, PythonStep, SuccessBegin, FailureBegin, CallbackBegin,
      CallbackLost, CallbackIgnored, Crash
<1>3. aged' \subseteq aged
  BY <1>1
  DEF Next, vars, tables, NothingIsSlow, RequestStep, RequestCheck, RequestReject,
      RequestInsert, RequestInsertFails, RequestEnqueue, RequestEnqueueFails,
      RequestSaveFailure, RequestSaveFailureFails, Age, GrowsOld, HandlerStep,
      CommitCourse, SaveRetry, ReEnqueue, SaveFailure, HandlerThrow, SurveyGone,
      CourseGone, WorkerStep, WorkerTake, WorkerLoad, WorkerDrop, WorkerSaveProcessing,
      WorkerFindSurvey, WorkerPost, WorkerAck, WorkerThrow, PythonStep, SuccessBegin,
      FailureBegin, CallbackBegin, CallbackLost, CallbackIgnored, Crash
<1>. QED
  BY <1>2, <1>3 DEF CronSleeps

Sent(j) == Cardinality(EntriesOf(j))

\* Every entry of the job has been counted in attempt_count.
Charged(j) == Exists(j) => Sent(j) <= rows[j].attempts

WorkerIsAt(j) ==
  worker.pc \in {"save", "survey", "post"} /\ JobOf(worker.entry) = j

\* A job is enqueued again only after its attempts counted every entry it had,
\* and only while they are within the limit: handleFailure compares attempt_count
\* with MAX_RETRY_COUNT, and the worker counts an entry before it posts it.
Budget(j) ==
  /\ Sent(j) <= 1 + MaxRetry
  /\ Exists(j) => Sent(j) <= rows[j].attempts + 1
  /\ WorkerIsAt(j) => IF worker.pc = "save" THEN Sent(j) <= worker.row.attempts + 1
                                            ELSE Charged(j)
  /\ AnswersFor(j) # {} => Charged(j)
  /\ \A h \in CallbacksFor(j) :
       /\ Charged(j)
       /\ Sent(j) <= handler[h].row.attempts
       /\ handler[h].pc \in {"retry", "enqueue"} => Sent(j) <= MaxRetry

BudgetInv == \A j \in Jobs : Budget(j)

\* A job has finitely many entries.
LEMMA SentType ==
  ASSUME TypeOK, NEW j \in Jobs
  PROVE  IsFiniteSet(EntriesOf(j)) /\ Sent(j) \in Nat
<1>1. IsFiniteSet(1..Len(queue)) /\ EntriesOf(j) \subseteq 1..Len(queue)
  BY FS_Interval DEF TypeOK, EntriesOf
<1>2. IsFiniteSet(EntriesOf(j))
  BY <1>1, FS_Subset
<1>. QED
  BY <1>2, FS_CardinalityType DEF Sent

\* An added entry is one more, and the other jobs have as many as before.
LEMMA AddedSent ==
  ASSUME TypeOK, NEW j \in Jobs, Add(j)
  PROVE  Sent(j)' = Sent(j) + 1 /\ \A k \in Jobs \ {j} : Sent(k)' = Sent(k)
<1>1. Len(queue) + 1 \notin EntriesOf(j)
  BY AddedEntry DEF EntriesOf
<1>2. Cardinality(EntriesOf(j) \union {Len(queue) + 1}) = Cardinality(EntriesOf(j)) + 1
  BY <1>1, SentType, FS_AddElement
<1>. QED
  BY <1>2, AddedEntry DEF Sent

\* A job the step does not concern keeps its budget.
LEMMA SameBudget ==
  ASSUME NEW k \in Jobs, Budget(k), EntriesOf(k)' = EntriesOf(k),
         Exists(k)' => Exists(k) /\ rows'[k].attempts = rows[k].attempts,
         WorkerIsAt(k)' => WorkerIsAt(k) /\ UNCHANGED worker,
         AnswersFor(k)' \subseteq AnswersFor(k),
         CallbacksFor(k)' \subseteq CallbacksFor(k),
         \A h \in CallbacksFor(k)' : handler'[h] = handler[h]
  PROVE  Budget(k)'
  BY DEF Budget, Charged, Sent

\* A job with no entries has all its budget.
LEMMA FullBudget ==
  ASSUME TypeOK, TypeOK', NEW k \in Jobs, Sent(k)' = 0, UNCHANGED <<worker, handler>>
  PROVE  Budget(k)'
<1>1. MaxRetry \in Nat
  BY ConstantsAssumption
<1>2. Exists(k)' => rows'[k].attempts \in Nat
  BY ExistingRow DEF Exists, TypeOK, Row
<1>3. WorkerIsAt(k)' => worker'.row.attempts \in Nat
  BY WorkerFields DEF WorkerIsAt, Row
<1>4. \A h \in CallbacksFor(k)' : handler'[h].row.attempts \in Nat
  BY HandlerFields DEF CallbacksFor, Row
<1>. QED
  BY <1>1, <1>2, <1>3, <1>4 DEF Budget, Charged

\* Where the worker is, there is the work.
LEMMA WorkerWorks ==
  ASSUME TypeOK, NEW j \in Jobs, WorkerIsAt(j)
  PROVE  worker.entry \in EntriesAtWork(j)
  BY WorkerFields DEF WorkerIsAt, EntriesAtWork, EntriesOf, AtWork

\* The budget through a request, whose job has no entry before it.
LEMMA RequestBudget ==
  ASSUME NothingIsRepeated, TypeOK, TypeOK', EntryIsActive, OnePieceOfWork, BudgetInv,
         NEW j \in Jobs, RequestStep(j)
  PROVE  BudgetInv'
<1>1. /\ UNCHANGED <<worker, tasks, handler>>
      /\ \A k \in Jobs \ {j} : rows'[k] = rows[k]
      /\ request[j] # "done"
  BY DEF RequestStep, RequestCheck, RequestReject, RequestInsert, RequestInsertFails,
         RequestEnqueue, RequestEnqueueFails, RequestSaveFailure,
         RequestSaveFailureFails, tables, TypeOK, SaveRow
<1>2. EntriesOf(j) = {} /\ WorkOf(j) = {}
  BY <1>1 DEF OnePieceOfWork
<1>3. Sent(j) = 0
  BY <1>2, FS_EmptySet DEF Sent
<1>4. CASE UNCHANGED queue
  <2>1. Budget(j)'
    <3>1. Sent(j)' = 0
      BY <1>3, <1>4, SameEntries DEF Sent
    <3>. QED
      BY <1>1, <3>1, FullBudget
  <2>2. \A k \in Jobs \ {j} : Budget(k)'
    BY <1>1, <1>4, SameWork, SameBudget DEF BudgetInv, Exists, WorkerIsAt, JobOf
  <2>. QED
    BY <2>1, <2>2 DEF BudgetInv
<1>5. CASE RequestEnqueue(j)
  <2>1. Add(j) /\ UNCHANGED rows
    BY <1>5 DEF RequestEnqueue, tables
  <2>2. Sent(j)' = 1
    BY <1>3, <2>1, AddedSent
  <2>3. ~ WorkerIsAt(j)' /\ AnswersFor(j)' = {} /\ CallbacksFor(j)' = {}
    <3>1. EntriesAtWork(j) = {} /\ AnswersFor(j) = {} /\ CallbacksFor(j) = {}
      BY <1>2 DEF WorkOf
    <3>2. ~ WorkerIsAt(j)
      BY <3>1, WorkerWorks
    <3>3. WorkerIsAt(j)' => WorkerIsAt(j)
      BY <1>1, <2>1, AddedEntry, WorkerFields DEF WorkerIsAt, JobOf
    <3>. QED
      BY <1>1, <2>1, <3>1, <3>2, <3>3, AddedWork, SameWork
  <2>4. MaxRetry \in Nat /\ (Exists(j) => rows[j].attempts \in Nat)
    BY ConstantsAssumption, ExistingRow DEF Exists, TypeOK, Row
  <2>5. Budget(j)'
    BY <2>1, <2>2, <2>3, <2>4 DEF Budget, Exists
  <2>6. ASSUME NEW k \in Jobs \ {j} PROVE Budget(k)'
    <3>1. /\ EntriesOf(k)' = EntriesOf(k) /\ AnswersFor(k)' = AnswersFor(k)
          /\ CallbacksFor(k)' = CallbacksFor(k)
      BY <1>1, <2>1, AddedEntry, AddedWork, SameWork
    <3>2. WorkerIsAt(k)' => WorkerIsAt(k)
      BY <1>1, <2>1, AddedEntry, WorkerFields DEF WorkerIsAt, JobOf
    <3>. QED
      BY <1>1, <3>1, <3>2, SameBudget DEF BudgetInv, Exists
  <2>. QED
    BY <2>5, <2>6 DEF BudgetInv
<1>. QED
  BY <1>4, <1>5
  DEF NothingIsRepeated, RequestStep, RequestCheck, RequestReject, RequestInsert,
      RequestInsertFails, RequestEnqueueFails, AddRejected, RequestSaveFailure,
      RequestSaveFailureFails, tables

\* Through the worker, which counts an entry before it posts it.
LEMMA WorkerBudget ==
  ASSUME NothingIsRepeated, TypeOK, TypeOK', EntryIsActive, OnePieceOfWork, BudgetInv,
         WorkerStep
  PROVE  BudgetInv'
<1>1. UNCHANGED <<request, handler>>
  BY DEF WorkerStep, WorkerTake, WorkerLoad, WorkerDrop, WorkerSaveProcessing,
         WorkerFindSurvey, WorkerPost, WorkerAck, WorkerThrow
<1>2. \A k \in Jobs : EntriesOf(k)' = EntriesOf(k)
  BY WorkerKeepsEntries, SameEntries
<1>3. \A k \in Jobs : CallbacksFor(k)' = CallbacksFor(k)
  BY <1>1, SameWork
<1>4. UNCHANGED tasks => \A k \in Jobs : AnswersFor(k)' = AnswersFor(k)
  BY WorkerKeepsEntries DEF AnswersFor, JobOf, TypeOK
<1>5. CASE UNCHANGED <<rows, tasks>> /\ worker'.pc \notin {"save", "survey", "post"}
  BY <1>1, <1>2, <1>3, <1>4, <1>5, SameBudget DEF BudgetInv, Exists, WorkerIsAt
<1>6. ASSUME NEW i \in DOMAIN queue, WorkerTake(i) PROVE BudgetInv'
  BY <1>5, <1>6 DEF WorkerTake, tables
<1>7. CASE WorkerDrop \/ WorkerAck \/ WorkerThrow
  BY <1>5, <1>7 DEF WorkerDrop, WorkerAck, WorkerThrow, tables, Idle
<1>. DEFINE i == worker.entry
            j == JobOf(worker.entry)
<1>8. CASE WorkerLoad \/ WorkerSaveProcessing \/ WorkerFindSurvey \/ WorkerPost
  <2>1. i \in DOMAIN queue /\ j \in Jobs /\ worker.pc \in {"load", "save", "survey", "post"}
    BY <1>8, WorkerFields, EntryJob DEF WorkerLoad, WorkerSaveProcessing,
            WorkerFindSurvey, WorkerPost
  <2>2. /\ worker'.entry = i /\ UNCHANGED queue
        /\ worker.pc # "load" => worker'.row = worker.row \/ WorkerSaveProcessing
        /\ \A k \in Jobs \ {j} : rows'[k] = rows[k]
        /\ worker.pc # "post" => UNCHANGED tasks
    <3>1. CASE WorkerLoad
      BY <3>1 DEF WorkerLoad, tables
    <3>2. CASE WorkerSaveProcessing \/ WorkerFindSurvey \/ WorkerPost
      BY <3>2, WorkerFields DEF WorkerSaveProcessing, WorkerFindSurvey, WorkerPost,
              tables, SaveRow, TypeOK
    <3>. QED
      BY <1>8, <3>1, <3>2
  <2>3. i \in EntriesAtWork(j)
    BY <2>1 DEF EntriesAtWork, EntriesOf, AtWork
  <2>4. AnswersFor(j) = {} /\ CallbacksFor(j) = {}
    BY <2>1, <2>3, OnlyEntry
  <2>5. ASSUME NEW k \in Jobs \ {j} PROVE Budget(k)'
    <3>1. ~ WorkerIsAt(k)'
      BY <2>2 DEF WorkerIsAt, JobOf
    <3>2. AnswersFor(k)' \subseteq AnswersFor(k)
      BY <1>4, <1>8, <2>2 DEF WorkerPost, AnswersFor, JobOf, WorkerLoad,
              WorkerSaveProcessing, WorkerFindSurvey
    <3>. QED
      BY <1>1, <1>2, <1>3, <2>2, <3>1, <3>2, SameBudget DEF BudgetInv, Exists
  <2>6. Budget(j)
    BY <2>1 DEF BudgetInv
  <2>7. Sent(j)' = Sent(j) /\ CallbacksFor(j)' = {} /\ Sent(j) \in Nat
    BY <1>2, <1>3, <2>1, <2>2, <2>4, SentType DEF Sent, JobOf
  <2>8. Budget(j)'
    <3>1. CASE WorkerLoad
      <4>1. /\ UNCHANGED <<rows, tasks>> /\ worker'.pc = "save"
            /\ worker'.row = rows[j] /\ Exists(j)
        BY <3>1 DEF WorkerLoad, tables
      <4>. QED
        BY <1>4, <2>1, <2>2, <2>4, <2>6, <2>7, <4>1 DEF Budget, Exists, JobOf
    <3>2. CASE WorkerSaveProcessing
      <4>. DEFINE e == IncrementAttempt(MarkProcessing(worker.row))
      <4>1. worker.pc = "save" /\ worker.row \in Row /\ UNCHANGED tasks /\ worker'.pc = "survey"
        BY <3>2, WorkerFields DEF WorkerSaveProcessing
      <4>2. e.attempts = worker.row.attempts + 1 /\ worker.row.attempts \in Nat
        BY <4>1 DEF IncrementAttempt, MarkProcessing, Row
      <4>. HIDE DEF e
      <4>3. PICK r \in Saves(worker.row, e, rows[j]) : rows' = [rows EXCEPT ![j] = r]
        BY <3>2 DEF WorkerSaveProcessing, SaveRow, e
      <4>4. rows'[j].attempts = worker.row.attempts + 1
        BY <2>1, <4>2, <4>3 DEF Saves, ChangedColumns, TypeOK
      <4>5. Sent(j) <= worker.row.attempts + 1 /\ Sent(j) <= 1 + MaxRetry
        BY <2>1, <2>6, <4>1 DEF Budget, WorkerIsAt
      <4>. QED
        BY <1>4, <2>1, <2>2, <2>4, <2>7, <4>1, <4>2, <4>4, <4>5 DEF Budget, Charged, JobOf
    <3>3. CASE WorkerFindSurvey
      <4>1. worker.pc = "survey" /\ worker'.pc = "post" /\ UNCHANGED <<rows, tasks>>
        BY <3>3, WorkerFields DEF WorkerFindSurvey, tables
      <4>2. Charged(j)
        BY <2>1, <2>6, <4>1 DEF Budget, WorkerIsAt
      <4>. QED
        BY <1>4, <2>1, <2>2, <2>4, <2>6, <2>7, <4>1, <4>2 DEF Budget, Charged, Exists, JobOf
    <3>4. CASE WorkerPost
      <4>1. worker.pc = "post" /\ worker'.pc = "posted" /\ UNCHANGED rows
        BY <3>4, WorkerFields DEF WorkerPost, tables
      <4>2. Charged(j)
        BY <2>1, <2>6, <4>1 DEF Budget, WorkerIsAt
      <4>. QED
        BY <2>1, <2>2, <2>6, <2>7, <4>1, <4>2 DEF Budget, Charged, Exists, JobOf, WorkerIsAt
    <3>. QED
      BY <1>8, <3>1, <3>2, <3>3, <3>4
  <2>. QED
    BY <2>5, <2>8, <2>1, <2>2 DEF BudgetInv, JobOf
<1>. QED
  BY <1>6, <1>7, <1>8 DEF WorkerStep

\* Through a callback, which enqueues again only within the limit.
LEMMA HandlerBudget ==
  ASSUME NothingIsRepeated, TypeOK, TypeOK', EntryIsActive, OnePieceOfWork, BudgetInv,
         NEW h \in Handlers, HandlerStep(h)
  PROVE  BudgetInv'
<1>1. UNCHANGED <<request, worker, tasks>>
  BY DEF HandlerStep, CommitCourse, SaveRetry, ReEnqueue, SaveFailure, HandlerThrow
<1>2. /\ handler[h] \in [pc : {"course", "retry", "enqueue", "fail"}, job : Jobs, row : Row]
      /\ \A g \in Handlers \ {h} : handler'[g] = handler[g]
  BY CallbackAtWork
<1>. PICK j \in Jobs : j = handler[h].job
  BY <1>2
<1>3. h \in CallbacksFor(j)
  BY <1>2 DEF CallbacksFor
<1>4. EntriesAtWork(j) = {} /\ AnswersFor(j) = {} /\ CallbacksFor(j) = {h}
  BY <1>3, OnlyCallback
<1>5. /\ \A k \in Jobs \ {j} : rows'[k] = rows[k]
      /\ UNCHANGED queue \/ Add(j)
      /\ handler'[h].pc = "idle" \/ handler'[h].job = j
  BY <1>2 DEF HandlerStep, CommitCourse, SaveRetry, ReEnqueue, SaveFailure, HandlerThrow,
     AddRejected, tables, SaveRow, Idle, TypeOK
<1>6. /\ \A k \in Jobs \ {j} : EntriesOf(k)' = EntriesOf(k)
      /\ \A k \in Jobs : AnswersFor(k)' = AnswersFor(k)
      /\ \A k \in Jobs : WorkerIsAt(k)' => WorkerIsAt(k)
  <2>1. CASE UNCHANGED queue
    BY <1>1, <2>1, SameWork DEF WorkerIsAt, JobOf
  <2>2. CASE Add(j)
    BY <1>1, <2>2, AddedEntry, AddedWork, WorkerFields DEF WorkerIsAt, JobOf
  <2>. QED
    BY <1>5, <2>1, <2>2
<1>7. ASSUME NEW k \in Jobs \ {j} PROVE Budget(k)'
  <2>1. CallbacksFor(k)' \subseteq CallbacksFor(k) /\ h \notin CallbacksFor(k)'
    BY <1>2, <1>5 DEF CallbacksFor
  <2>. QED
    BY <1>1, <1>2, <1>5, <1>6, <2>1, SameBudget DEF BudgetInv, Exists, CallbacksFor
<1>8. AnswersFor(j)' = {} /\ ~ WorkerIsAt(j)'
  BY <1>4, <1>6, WorkerWorks
<1>9. /\ Sent(j) <= 1 + MaxRetry /\ Sent(j) <= handler[h].row.attempts /\ Charged(j)
      /\ handler[h].pc \in {"retry", "enqueue"} => Sent(j) <= MaxRetry
      /\ Sent(j) \in Nat /\ handler[h].row.attempts \in Nat
      /\ Exists(j) => rows[j].attempts \in Nat
      /\ MaxRetry \in Nat
  <2>1. Budget(j)
    BY DEF BudgetInv
  <2>2. handler[h].row.attempts \in Nat /\ MaxRetry \in Nat /\ Sent(j) \in Nat
    BY <1>2, SentType, ConstantsAssumption DEF Row
  <2>3. Exists(j) => rows[j].attempts \in Nat
    BY ExistingRow DEF Exists, TypeOK, Row
  <2>. QED
    BY <1>3, <2>1, <2>2, <2>3 DEF Budget
<1>10. CASE UNCHANGED rows /\ UNCHANGED queue /\ handler'[h].pc = "idle"
  <2>1. CallbacksFor(j)' = {} /\ Sent(j)' = Sent(j)
    BY <1>1, <1>2, <1>4, <1>10, SameWork DEF CallbacksFor, Sent
  <2>2. Budget(j)'
    BY <1>8, <1>9, <1>10, <2>1 DEF Budget, Charged, Exists
  <2>. QED
    BY <1>7, <2>2 DEF BudgetInv
<1>11. CASE ReEnqueue(h)
  <2>1. Add(j) /\ UNCHANGED rows /\ handler'[h].pc = "idle" /\ handler[h].pc = "enqueue"
    BY <1>11 DEF ReEnqueue, tables, Idle, TypeOK
  <2>2. CallbacksFor(j)' = {} /\ Sent(j)' = Sent(j) + 1
    BY <1>2, <1>4, <2>1, AddedSent DEF CallbacksFor
  <2>3. Budget(j)'
    BY <1>8, <1>9, <2>1, <2>2 DEF Budget, Charged, Exists
  <2>. QED
    BY <1>7, <2>3 DEF BudgetInv
<1>12. CASE CommitCourse(h) \/ SaveRetry(h) \/ SaveFailure(h)
  <2>1. PICK e :
          /\ SaveRow(j, handler[h].row, e) /\ e.attempts = handler[h].row.attempts
          /\ Exists(j)
    BY <1>2, <1>12 DEF CommitCourse, SaveRetry, SaveFailure, MarkSuccess, MarkFailed,
       ResetForRetry, Row
  <2>2. PICK r \in Saves(handler[h].row, e, rows[j]) : rows' = [rows EXCEPT ![j] = r]
    BY <2>1 DEF SaveRow
  <2>3. rows'[j].attempts \in {handler[h].row.attempts, rows[j].attempts}
    BY <2>1, <2>2 DEF Saves, ChangedColumns, TypeOK
  <2>4. UNCHANGED queue /\ Sent(j)' = Sent(j)
    BY <1>1, <1>12, SameWork DEF CommitCourse, SaveRetry, SaveFailure, Sent
  <2>5. Charged(j)'
    BY <1>9, <2>1, <2>3, <2>4 DEF Charged
  <2>6. ASSUME NEW g \in CallbacksFor(j)'
        PROVE  /\ Sent(j) <= handler'[g].row.attempts
               /\ handler'[g].pc \in {"retry", "enqueue"} => Sent(j) <= MaxRetry
    <3>1. g = h
      BY <1>2, <1>4 DEF CallbacksFor
    <3>2. handler'[h] = Idle \/ (SaveRetry(h) /\ handler'[h] = [handler[h] EXCEPT !.pc = "enqueue"])
      BY <1>12 DEF CommitCourse, SaveRetry, SaveFailure, TypeOK
    <3>3. SaveRetry(h) /\ handler'[h].row = handler[h].row
      BY <1>2, <3>1, <3>2 DEF CallbacksFor, Idle
    <3>. QED
      BY <1>9, <3>1, <3>3 DEF SaveRetry
  <2>7. Budget(j)'
    BY <1>8, <1>9, <2>1, <2>3, <2>4, <2>5, <2>6 DEF Budget, Charged
  <2>. QED
    BY <1>7, <2>7 DEF BudgetInv
<1>13. HandlerThrow(h) => UNCHANGED <<rows, queue>> /\ handler'[h].pc = "idle"
  BY DEF HandlerThrow, AddRejected, NothingIsRepeated, tables, Idle, TypeOK
<1>. QED
  BY <1>10, <1>11, <1>12, <1>13 DEF HandlerStep

\* Through an answer received, by a job all of whose entries are counted.
LEMMA PythonBudget ==
  ASSUME NothingIsRepeated, TypeOK, TypeOK', OnePieceOfWork, BudgetInv, PythonStep
  PROVE  BudgetInv'
<1>1. UNCHANGED <<rows, request, worker, queue>>
  BY DEF PythonStep, CallbackLost, CallbackIgnored, SuccessBegin, FailureBegin,
         CallbackBegin, tables
<1>2. \A k \in Jobs : EntriesOf(k)' = EntriesOf(k) /\ (WorkerIsAt(k)' => WorkerIsAt(k))
  BY <1>1, SameWork DEF WorkerIsAt, JobOf
<1>3. CASE UNCHANGED handler /\ tasks' \subseteq tasks
  <2>1. \A k \in Jobs : AnswersFor(k)' \subseteq AnswersFor(k)
    BY <1>1, <1>3 DEF AnswersFor, JobOf
  <2>. QED
    BY <1>1, <1>2, <1>3, <2>1, SameWork, SameBudget DEF BudgetInv, Exists
<1>4. ASSUME NEW t \in tasks, NEW h \in Handlers, NEW pc, pc # "idle", CallbackBegin(h, t, pc),
             pc = "retry" => rows[JobOf(t.entry)].attempts <= MaxRetry, pc # "enqueue"
      PROVE  BudgetInv'
  <2>. PICK j \in Jobs : j = JobOf(t.entry)
    BY EntryJob DEF TypeOK
  <2>1. /\ tasks' = tasks \ {t} /\ rows[j].status \in Active
        /\ handler[h].pc = "idle" /\ handler'[h] = [pc |-> pc, job |-> j, row |-> rows[j]]
        /\ \A g \in Handlers \ {h} : handler'[g] = handler[g]
    BY <1>4 DEF CallbackBegin, Receive, NothingIsRepeated, Idle, TypeOK
  <2>2. t \in AnswersFor(j)
    BY DEF AnswersFor
  <2>3. EntriesAtWork(j) = {} /\ AnswersFor(j) = {t} /\ CallbacksFor(j) = {}
    BY <2>2, OnlyAnswer
  <2>4. \A k \in Jobs : AnswersFor(k)' \subseteq AnswersFor(k) \ {t}
    BY <1>1, <2>1 DEF AnswersFor, JobOf
  <2>5. ASSUME NEW k \in Jobs \ {j} PROVE Budget(k)'
    <3>1. CallbacksFor(k)' \subseteq CallbacksFor(k) /\ h \notin CallbacksFor(k)'
      BY <2>1 DEF CallbacksFor
    <3>2. \A g \in CallbacksFor(k)' : handler'[g] = handler[g]
      BY <2>1, <3>1 DEF CallbacksFor
    <3>. QED
      BY <1>1, <1>2, <2>4, <3>1, <3>2, SameBudget DEF BudgetInv, Exists
  <2>6. /\ Exists(j) /\ Sent(j) <= rows[j].attempts /\ Sent(j) <= 1 + MaxRetry
        /\ Sent(j) \in Nat /\ rows[j].attempts \in Nat /\ MaxRetry \in Nat
    <3>1. Exists(j) /\ rows[j] \in Row
      BY <2>1, ExistingRow DEF Exists, Active, TypeOK
    <3>2. Sent(j) \in Nat /\ rows[j].attempts \in Nat /\ MaxRetry \in Nat
      BY <3>1, SentType, ConstantsAssumption DEF Row
    <3>3. Budget(j)
      BY DEF BudgetInv
    <3>. QED
      BY <2>2, <3>1, <3>2, <3>3 DEF Budget, Charged
  <2>7. \A g \in CallbacksFor(j)' : g = h
    BY <2>1, <2>3 DEF CallbacksFor
  <2>8. AnswersFor(j)' = {} /\ ~ WorkerIsAt(j)' /\ Sent(j)' = Sent(j)
    BY <1>2, <2>3, <2>4, WorkerWorks DEF Sent
  <2>9. /\ handler'[h].row = rows[j] /\ handler'[h].pc = pc
    BY <2>1
  <2>10. Budget(j)'
    BY <1>1, <1>4, <2>6, <2>7, <2>8, <2>9 DEF Budget, Charged, Exists
  <2>. QED
    BY <2>5, <2>10 DEF BudgetInv
<1>. QED
  BY <1>3, <1>4
  DEF PythonStep, CallbackLost, CallbackIgnored, Receive, SuccessBegin, FailureBegin

\* The loss of a survey or of a course changes the attempts of no job.
LEMMA LossBudget ==
  ASSUME TypeOK, BudgetInv, UNCHANGED <<queue, worker, tasks, handler>>,
         \A k \in Jobs : Exists(k)' => Exists(k) /\ rows'[k].attempts = rows[k].attempts
  PROVE  BudgetInv'
  BY SameWork, SameBudget DEF BudgetInv, WorkerIsAt, JobOf

\* "Retry once" where nothing is repeated and no job is slow: attempt_count has
\* counted every entry of a job that a failure callback finds, so that a job is
\* enqueued MaxRetry times after the first at most.
THEOREM RetriesCorrect ==
  ASSUME NothingIsRepeated, NothingIsSlow
  PROVE  Spec => []RetriesAreBounded
<1>. DEFINE Inv == EntryIsActive /\ OnePieceOfWork /\ CronSleeps /\ BudgetInv
<1>1. TypeOK /\ Init => Inv
  <2>. SUFFICES ASSUME TypeOK, Init PROVE BudgetInv
    BY NoWorkYet DEF Init, EntryIsActive, CronSleeps, Idle
  <2>1. MaxRetry \in Nat
    BY ConstantsAssumption
  <2>2. ASSUME NEW k \in Jobs
        PROVE  /\ Sent(k) = 0 /\ AnswersFor(k) = {} /\ CallbacksFor(k) = {}
               /\ ~ WorkerIsAt(k) /\ ~ Exists(k)
    <3>1. EntriesOf(k) = {}
      BY DEF Init, EntriesOf
    <3>. QED
      BY <3>1, FS_EmptySet DEF Init, AnswersFor, CallbacksFor, WorkerIsAt, Idle,
         Exists, Absent, Sent
  <2>. QED
    BY <2>1, <2>2 DEF BudgetInv, Budget
<1>2. TypeOK /\ TypeOK' /\ Inv /\ [Next]_vars => Inv'
  <2>. SUFFICES ASSUME TypeOK, TypeOK', EntryIsActive, OnePieceOfWork, CronSleeps, BudgetInv,
                       [Next]_vars
                PROVE  BudgetInv'
    BY EntryStaysActive, WorkIsHandedOn, CronStaysAsleep
  <2>1. CASE UNCHANGED vars
    BY <2>1, LossBudget DEF vars, Exists
  <2>2. ASSUME NEW j \in Jobs, Age(j) PROVE BudgetInv'
    BY <2>2 DEF Age, GrowsOld, NothingIsSlow
  <2>3. ASSUME NEW s \in Surveys, SurveyGone(s) PROVE BudgetInv'
    <3>1. \A k \in Jobs : rows'[k] = Absent \/ rows'[k] = rows[k]
      BY <2>3 DEF SurveyGone
    <3>. QED
      BY <2>3, <3>1, LossBudget DEF SurveyGone, Exists, Absent
  <2>4. ASSUME NEW c \in DOMAIN courses, CourseGone(c) PROVE BudgetInv'
    <3>1. ASSUME NEW k \in Jobs
          PROVE  rows'[k].status = rows[k].status /\ rows'[k].attempts = rows[k].attempts
      <4>1. rows'[k] = rows[k] \/ rows'[k] = [rows[k] EXCEPT !.course = NoCourse]
        BY <2>4 DEF CourseGone, DeleteCourse
      <4>2. rows[k] \in Row \/ rows[k] = Absent
        BY DEF TypeOK, MaybeRow
      <4>. QED
        BY <4>1, <4>2 DEF Row, Absent
    <3>. QED
      BY <2>4, <3>1, LossBudget DEF CourseGone, Exists
  <2>. QED
    BY <2>1, <2>2, <2>3, <2>4, RequestBudget, WorkerBudget, HandlerBudget, PythonBudget,
       NoStaleJobs
    DEF Next, Crash, NothingIsRepeated
<1>3. BudgetInv => RetriesAreBounded
  BY DEF BudgetInv, Budget, Sent, RetriesAreBounded
<1>. QED
  BY <1>1, <1>2, <1>3, TypeCorrect, PTL DEF Spec

-----------------------------------------------------------------------------
(* The life of a job                                                       *)

\* Nobody deletes a survey or a course.
NothingIsDeleted == Faults \cap {"surveyGone", "courseGone"} = {}

\* The status of a job says who works on it, and who works on it knows the
\* status.  Only the status: a course that is deleted takes the travel_course_id
\* of the row away under the copies.
Stage(j) ==
  /\ request[j] \in {"new", "checked"} => rows[j].status = "ABSENT"
  /\ request[j] \in {"saved", "addFailed"} => rows[j].status = "PENDING"
  /\ EntriesAtWork(j) # {} => rows[j].status \in Active
  /\ WorkerIsAt(j) => IF worker.pc = "save" THEN worker.row.status = rows[j].status
                                            ELSE rows[j].status = "PROCESSING"
  /\ AnswersFor(j) # {} => rows[j].status = "PROCESSING"
  /\ \A h \in CallbacksFor(j) :
       IF handler[h].pc = "enqueue"
       THEN rows[j].status = "PENDING"
       ELSE /\ rows[j].status = "PROCESSING"
            /\ handler[h].row.status = "PROCESSING"
  /\ CoursesMadeBy(j) # {} => rows[j].status = "SUCCESS"

StageInv == \A j \in Jobs : Stage(j)

\* A step that changes the row of one job at most, makes no course, and takes
\* the status along one of the edges of JobLifecycle.
MovesOn(j, from, to) ==
  /\ UNCHANGED courses
  /\ rows[j].status \in from /\ rows'[j].status = to
  /\ \A k \in Jobs \ {j} : rows'[k] = rows[k]

Succeeds(j) ==
  /\ rows[j].status = "PROCESSING" /\ rows'[j].status = "SUCCESS"
  /\ CoursesMadeBy(j) = {} /\ courses' = Append(courses, j)
  /\ \A k \in Jobs \ {j} : rows'[k] = rows[k]

Edge ==
  \/ UNCHANGED <<rows, courses>>
  \/ \E c \in DOMAIN courses : CourseGone(c)
  \/ \E j \in Jobs :
       \/ MovesOn(j, {"ABSENT"}, "PENDING")
       \/ MovesOn(j, {"PENDING", "PROCESSING"}, "PROCESSING")
       \/ MovesOn(j, {"PROCESSING"}, "PENDING")
       \/ MovesOn(j, {"PENDING", "PROCESSING"}, "FAILED")
       \/ Succeeds(j)

\* A job the step does not concern stays where it is.
LEMMA SameStage ==
  ASSUME NEW k \in Jobs, Stage(k), rows'[k].status = rows[k].status,
         UNCHANGED request[k],
         EntriesAtWork(k)' \subseteq EntriesAtWork(k),
         WorkerIsAt(k)' => WorkerIsAt(k) /\ UNCHANGED worker,
         AnswersFor(k)' \subseteq AnswersFor(k),
         CallbacksFor(k)' \subseteq CallbacksFor(k),
         \A h \in CallbacksFor(k)' : handler'[h] = handler[h],
         CoursesMadeBy(k)' \subseteq CoursesMadeBy(k)
  PROVE  Stage(k)'
  BY DEF Stage

\* A request takes its job from nothing to PENDING, or to FAILED.
LEMMA RequestStage ==
  ASSUME NothingIsRepeated, TypeOK, EntryIsActive, OnePieceOfWork, StageInv,
         NEW j \in Jobs, RequestStep(j)
  PROVE  StageInv' /\ Edge
<1>1. /\ UNCHANGED <<worker, tasks, handler, courses>>
      /\ \A k \in Jobs \ {j} : request'[k] = request[k] /\ rows'[k] = rows[k]
      /\ request[j] # "done" /\ (UNCHANGED queue \/ Add(j))
  BY DEF RequestStep, RequestCheck, RequestReject, RequestInsert, RequestInsertFails,
         RequestEnqueue, RequestEnqueueFails, AddRejected, RequestSaveFailure,
         RequestSaveFailureFails, tables, TypeOK, SaveRow
<1>2. EntriesAtWork(j) = {} /\ AnswersFor(j) = {} /\ CallbacksFor(j) = {} /\ CoursesMadeBy(j) = {}
  <2>1. WorkOf(j) = {}
    BY <1>1 DEF OnePieceOfWork
  <2>. QED
    BY <2>1 DEF WorkOf
<1>3. /\ \A k \in Jobs : AnswersFor(k)' = AnswersFor(k) /\ CallbacksFor(k)' = CallbacksFor(k)
                         /\ CoursesMadeBy(k)' = CoursesMadeBy(k) /\ (WorkerIsAt(k)' => WorkerIsAt(k))
      /\ \A k \in Jobs \ {j} : EntriesAtWork(k)' \subseteq EntriesAtWork(k)
      /\ UNCHANGED queue => EntriesAtWork(j)' = {}
  <2>1. CASE UNCHANGED queue
    BY <1>1, <1>2, <2>1, SameWork DEF WorkerIsAt, JobOf
  <2>2. CASE Add(j)
    <3>1. Len(queue) + 1 \in DOMAIN queue' \ DOMAIN queue
      BY <2>2, AddedEntry
    <3>2. queue' # queue
      BY <3>1
    <3>3. \A k \in Jobs : WorkerIsAt(k)' => WorkerIsAt(k)
      BY <1>1, <2>2, AddedEntry, WorkerFields DEF WorkerIsAt, JobOf
    <3>. QED
      BY <1>1, <2>2, <3>2, <3>3, AddedWork, SameWork
  <2>. QED
    BY <1>1, <2>1, <2>2
<1>4. ~ WorkerIsAt(j)'
  BY <1>2, <1>3, WorkerWorks
<1>5. ASSUME NEW k \in Jobs \ {j} PROVE Stage(k)'
  BY <1>1, <1>3, SameStage DEF StageInv
<1>6. Stage(j)
  BY DEF StageInv
<1>7. rows \in [Jobs -> MaybeRow]
  BY DEF TypeOK
<1>8. CASE RequestCheck(j) \/ RequestReject(j) \/ RequestInsertFails(j) \/ RequestSaveFailureFails(j)
  <2>1. /\ UNCHANGED <<rows, queue>>
        /\ request'[j] = "done" \/ (request[j] = "new" /\ request'[j] = "checked")
    BY <1>8 DEF RequestCheck, RequestReject, RequestInsertFails, RequestSaveFailureFails,
       tables, TypeOK
  <2>2. Stage(j)'
    BY <1>2, <1>3, <1>4, <1>6, <2>1 DEF Stage
  <2>. QED
    BY <1>1, <1>5, <2>1, <2>2 DEF StageInv, Edge
<1>9. CASE RequestInsert(j)
  <2>1. /\ rows'[j].status = "PENDING" /\ request'[j] = "saved" /\ UNCHANGED queue
        /\ rows[j].status = "ABSENT"
    BY <1>6, <1>9 DEF RequestInsert, TypeOK, Stage, NewJob
  <2>2. Stage(j)'
    BY <1>2, <1>3, <1>4, <2>1 DEF Stage
  <2>3. MovesOn(j, {"ABSENT"}, "PENDING")
    BY <1>1, <2>1 DEF MovesOn
  <2>. QED
    BY <1>5, <2>2, <2>3 DEF StageInv, Edge
<1>10. CASE RequestEnqueue(j)
  <2>1. /\ request'[j] = "done" /\ UNCHANGED rows /\ rows[j].status = "PENDING"
    BY <1>6, <1>10 DEF RequestEnqueue, tables, TypeOK, Stage
  <2>2. Stage(j)'
    BY <1>2, <1>3, <1>4, <2>1 DEF Stage, Active
  <2>. QED
    BY <1>1, <1>5, <2>1, <2>2 DEF StageInv, Edge
<1>11. CASE RequestEnqueueFails(j)
  <2>1. /\ request'[j] = "addFailed" /\ UNCHANGED <<rows, queue>> /\ rows[j].status = "PENDING"
    BY <1>6, <1>11 DEF RequestEnqueueFails, AddRejected, NothingIsRepeated, tables, TypeOK, Stage
  <2>2. Stage(j)'
    BY <1>2, <1>3, <1>4, <2>1 DEF Stage
  <2>. QED
    BY <1>1, <1>5, <2>1, <2>2 DEF StageInv, Edge
<1>12. CASE RequestSaveFailure(j)
  <2>. PICK e \in Row : e = NewJob(NoCourse)
    BY NewJobType DEF NoCourse
  <2>. PICK s : s = MarkFailed(e, "QUEUE_ERROR")
    OBVIOUS
  <2>1. /\ request'[j] = "done" /\ UNCHANGED queue /\ rows[j].status = "PENDING"
        /\ SaveRow(j, e, s) /\ e.status = "PENDING" /\ s.status = "FAILED"
    BY <1>6, <1>12, MethodsSetTheStatus DEF RequestSaveFailure, TypeOK, Stage, NewJob
  <2>3. rows'[j].status = "FAILED"
    BY <1>7, <2>1, StatusIsSaved
  <2>4. Stage(j)'
    BY <1>2, <1>3, <1>4, <2>1 DEF Stage
  <2>5. MovesOn(j, {"PENDING", "PROCESSING"}, "FAILED")
    BY <1>1, <2>1, <2>3 DEF MovesOn
  <2>. QED
    BY <1>5, <2>4, <2>5 DEF StageInv, Edge
<1>. QED
  BY <1>8, <1>9, <1>10, <1>11, <1>12 DEF RequestStep
\* The worker takes it to PROCESSING.
LEMMA WorkerStage ==
  ASSUME NothingIsRepeated, TypeOK, EntryIsActive, OnePieceOfWork, StageInv, WorkerStep
  PROVE  StageInv' /\ Edge
<1>1. UNCHANGED <<request, handler, courses>>
  BY DEF WorkerStep, WorkerTake, WorkerLoad, WorkerDrop, WorkerSaveProcessing,
         WorkerFindSurvey, WorkerPost, WorkerAck, WorkerThrow, tables
<1>2. \A k \in Jobs : /\ CallbacksFor(k)' = CallbacksFor(k) /\ CoursesMadeBy(k)' = CoursesMadeBy(k)
                      /\ EntriesAtWork(k)' \subseteq EntriesAtWork(k)
  BY <1>1, SameWork, WorkerEntries
<1>3. UNCHANGED tasks => \A k \in Jobs : AnswersFor(k)' = AnswersFor(k)
  BY WorkerKeepsEntries DEF AnswersFor, JobOf, TypeOK
<1>4. CASE UNCHANGED <<rows, tasks>> /\ worker'.pc \notin {"save", "survey", "post"}
  BY <1>1, <1>2, <1>3, <1>4, SameStage DEF StageInv, WorkerIsAt, Edge
<1>5. ASSUME NEW i \in DOMAIN queue, WorkerTake(i) PROVE StageInv' /\ Edge
  BY <1>4, <1>5 DEF WorkerTake, tables
<1>6. CASE WorkerDrop \/ WorkerAck \/ WorkerThrow
  BY <1>4, <1>6 DEF WorkerDrop, WorkerAck, WorkerThrow, tables, Idle
<1>7. CASE WorkerLoad \/ WorkerSaveProcessing \/ WorkerFindSurvey \/ WorkerPost
  <2>1. worker.entry \in DOMAIN queue /\ worker.pc \in {"load", "save", "survey", "post"}
    BY <1>7, WorkerFields DEF WorkerLoad, WorkerSaveProcessing, WorkerFindSurvey, WorkerPost
  <2>. PICK i \in DOMAIN queue : i = worker.entry
    BY <2>1
  <2>. PICK j \in Jobs : j = JobOf(i)
    BY EntryJob
  <2>2. /\ worker'.entry = i /\ UNCHANGED queue
        /\ \A k \in Jobs \ {j} : rows'[k] = rows[k]
        /\ worker.pc # "post" => UNCHANGED tasks
    <3>1. CASE WorkerLoad
      BY <3>1 DEF WorkerLoad, tables
    <3>2. CASE WorkerSaveProcessing
      <4>1. worker.pc = "save" /\ UNCHANGED <<queue, tasks>> /\ worker'.entry = worker.entry
        BY <3>2, WorkerFields DEF WorkerSaveProcessing
      <4>2. \E e : SaveRow(j, worker.row, e)
        BY <3>2 DEF WorkerSaveProcessing, JobOf
      <4>. QED
        BY <4>1, <4>2 DEF SaveRow, TypeOK
    <3>3. CASE WorkerFindSurvey \/ WorkerPost
      BY <3>3, WorkerFields DEF WorkerFindSurvey, WorkerPost, tables
    <3>. QED
      BY <1>7, <3>1, <3>2, <3>3
  <2>3. i \in EntriesAtWork(j)
    BY <2>1 DEF EntriesAtWork, EntriesOf, AtWork
  <2>4. /\ AnswersFor(j) = {} /\ CallbacksFor(j) = {} /\ CoursesMadeBy(j) = {}
        /\ request[j] = "done"
    BY <2>1, <2>3, OnlyEntry
  <2>5. ASSUME NEW k \in Jobs \ {j} PROVE Stage(k)'
    <3>1. ~ WorkerIsAt(k)'
      BY <2>2 DEF WorkerIsAt, JobOf
    <3>2. AnswersFor(k)' \subseteq AnswersFor(k)
      BY <1>3, <1>7, <2>2 DEF WorkerPost, AnswersFor, JobOf, WorkerLoad,
              WorkerSaveProcessing, WorkerFindSurvey
    <3>. QED
      BY <1>1, <1>2, <2>2, <3>1, <3>2, SameStage DEF StageInv
  <2>6. Stage(j) /\ rows[j].status \in Active /\ rows[j] \in Row
    <3>1. Stage(j)
      BY <2>1 DEF StageInv
    <3>2. rows[j].status \in Active
      BY <2>3, <3>1 DEF Stage
    <3>. QED
      BY <2>1, <3>1, <3>2, ExistingRow DEF Active, TypeOK
  <2>7. CallbacksFor(j)' = {} /\ CoursesMadeBy(j)' = {} /\ request'[j] = "done"
    BY <1>1, <1>2, <2>1, <2>4
  <2>8. JobOf(worker.entry)' = j
    BY <2>2 DEF JobOf
  <2>9. Stage(j)' /\ Edge
    <3>1. CASE WorkerLoad
      <4>1. /\ UNCHANGED <<rows, tasks>> /\ worker'.pc = "save" /\ worker'.row = rows[j]
        BY <3>1 DEF WorkerLoad, tables
      <4>. QED
        BY <1>1, <1>3, <2>1, <2>4, <2>6, <2>7, <2>8, <4>1 DEF Stage, WorkerIsAt, Edge
    <3>2. CASE WorkerSaveProcessing
      <4>. PICK e \in Row : e = worker.row
        BY <3>2, WorkerFields DEF WorkerSaveProcessing
      <4>. PICK s : s = IncrementAttempt(MarkProcessing(e))
        OBVIOUS
      <4>1. worker.pc = "save" /\ UNCHANGED tasks /\ worker'.pc = "survey"
        BY <3>2, WorkerFields DEF WorkerSaveProcessing
      <4>2. e.status = rows[j].status
        BY <2>1, <2>6, <4>1 DEF Stage, WorkerIsAt
      <4>3. SaveRow(j, e, s) /\ s.status = "PROCESSING"
        BY <3>2, MethodsSetTheStatus DEF WorkerSaveProcessing
      <4>4. rows \in [Jobs -> MaybeRow]
        BY DEF TypeOK
      <4>5. rows'[j].status = "PROCESSING"
        BY <4>2, <4>3, <4>4, StatusIsSaved
      <4>6. MovesOn(j, {"PENDING", "PROCESSING"}, "PROCESSING")
        BY <1>1, <2>2, <2>6, <4>5 DEF MovesOn, Active
      <4>. QED
        BY <1>3, <2>1, <2>4, <2>7, <2>8, <4>1, <4>5, <4>6 DEF Stage, WorkerIsAt, Edge, Active
    <3>3. CASE WorkerFindSurvey \/ WorkerPost
      <4>1. /\ worker.pc \in {"survey", "post"} /\ worker'.pc \in {"post", "posted"}
            /\ UNCHANGED rows
        BY <3>3, WorkerFields DEF WorkerFindSurvey, WorkerPost, tables
      <4>2. rows[j].status = "PROCESSING"
        BY <2>1, <2>6, <4>1 DEF Stage, WorkerIsAt
      <4>. QED
        BY <1>1, <2>2, <2>6, <2>7, <2>8, <4>1, <4>2 DEF Stage, WorkerIsAt, Edge, Active
    <3>. QED
      BY <1>7, <3>1, <3>2, <3>3
  <2>. QED
    BY <2>5, <2>9, <2>1, <2>2 DEF StageInv, JobOf
<1>. QED
  BY <1>5, <1>6, <1>7 DEF WorkerStep
\* A callback takes it to SUCCESS with a course, to FAILED, or back to PENDING.
LEMMA HandlerStage ==
  ASSUME NothingIsRepeated, TypeOK, EntryIsActive, OnePieceOfWork, StageInv,
         NEW h \in Handlers, HandlerStep(h)
  PROVE  StageInv' /\ Edge
<1>1. UNCHANGED <<request, worker, tasks>>
  BY DEF HandlerStep, CommitCourse, SaveRetry, ReEnqueue, SaveFailure, HandlerThrow
<1>2. /\ handler[h] \in [pc : {"course", "retry", "enqueue", "fail"}, job : Jobs, row : Row]
      /\ handler'[h].pc = "idle" \/ handler'[h].job = handler[h].job
      /\ \A g \in Handlers \ {h} : handler'[g] = handler[g]
  BY CallbackAtWork
<1>. PICK j \in Jobs : j = handler[h].job
  BY <1>2
<1>3. h \in CallbacksFor(j)
  BY <1>2 DEF CallbacksFor
<1>4. /\ EntriesAtWork(j) = {} /\ AnswersFor(j) = {} /\ CallbacksFor(j) = {h}
      /\ CoursesMadeBy(j) = {} /\ request[j] = "done"
  BY <1>3, OnlyCallback
<1>5. /\ \A k \in Jobs \ {j} : rows'[k] = rows[k]
      /\ UNCHANGED queue \/ (Add(j) /\ handler[h].pc = "enqueue")
      /\ UNCHANGED courses \/ courses' = Append(courses, j)
  BY <1>2 DEF HandlerStep, CommitCourse, SaveRetry, ReEnqueue, SaveFailure, HandlerThrow,
     AddRejected, tables, SaveRow, TypeOK
<1>6. /\ \A k \in Jobs \ {j} : /\ EntriesAtWork(k)' \subseteq EntriesAtWork(k)
                               /\ CoursesMadeBy(k)' \subseteq CoursesMadeBy(k)
      /\ \A k \in Jobs : AnswersFor(k)' = AnswersFor(k)
      /\ \A k \in Jobs : WorkerIsAt(k)' => WorkerIsAt(k)
      /\ UNCHANGED courses => CoursesMadeBy(j)' = {}
      /\ UNCHANGED queue => EntriesAtWork(j)' = {}
  <2>1. /\ \A k \in Jobs \ {j} : EntriesAtWork(k)' \subseteq EntriesAtWork(k)
        /\ \A k \in Jobs : AnswersFor(k)' = AnswersFor(k)
        /\ \A k \in Jobs : WorkerIsAt(k)' => WorkerIsAt(k)
    <3>1. CASE UNCHANGED queue
      BY <1>1, <3>1, SameWork DEF WorkerIsAt, JobOf
    <3>2. CASE Add(j)
      BY <1>1, <3>2, AddedEntry, AddedWork, WorkerFields DEF WorkerIsAt, JobOf
    <3>. QED
      BY <1>5, <3>1, <3>2
  <2>2. \A k \in Jobs \ {j} : CoursesMadeBy(k)' \subseteq CoursesMadeBy(k)
    <3>1. CASE UNCHANGED courses
      BY <3>1, SameWork
    <3>2. CASE courses' = Append(courses, j)
      <4>1. \A n \in DOMAIN courses' : (n \in DOMAIN courses /\ courses'[n] = courses[n]) \/ courses'[n] = j
        BY <3>2 DEF TypeOK
      <4>. QED
        BY <4>1 DEF CoursesMadeBy
    <3>. QED
      BY <1>5, <3>1, <3>2
  <2>. QED
    BY <1>1, <1>4, <2>1, <2>2, SameWork
<1>7. ASSUME NEW k \in Jobs \ {j} PROVE Stage(k)'
  <2>1. CallbacksFor(k)' \subseteq CallbacksFor(k) /\ h \notin CallbacksFor(k)'
    BY <1>2 DEF CallbacksFor
  <2>2. \A g \in CallbacksFor(k)' : handler'[g] = handler[g]
    BY <1>2, <2>1 DEF CallbacksFor
  <2>. QED
    BY <1>1, <1>5, <1>6, <2>1, <2>2, SameStage DEF StageInv
<1>8. AnswersFor(j)' = {} /\ ~ WorkerIsAt(j)' /\ request'[j] = "done"
  BY <1>1, <1>4, <1>6, WorkerWorks
<1>9. Stage(j)
  BY DEF StageInv
<1>10. handler'[h].pc = "idle" => CallbacksFor(j)' = {}
  BY <1>2, <1>4 DEF CallbacksFor
<1>11. CASE UNCHANGED <<rows, queue, courses>> /\ handler'[h].pc = "idle"
  <2>1. Stage(j)'
    BY <1>6, <1>8, <1>10, <1>11 DEF Stage
  <2>. QED
    BY <1>7, <1>11, <2>1 DEF StageInv, Edge
<1>12. CASE ReEnqueue(h)
  <2>1. /\ UNCHANGED <<rows, courses>> /\ handler'[h].pc = "idle" /\ handler[h].pc = "enqueue"
    BY <1>12 DEF ReEnqueue, tables, Idle, TypeOK
  <2>2. rows[j].status = "PENDING"
    BY <1>3, <1>9, <2>1 DEF Stage
  <2>3. Stage(j)'
    BY <1>6, <1>8, <1>10, <2>1, <2>2 DEF Stage, Active
  <2>. QED
    BY <1>7, <2>1, <2>3 DEF StageInv, Edge
<1>. PICK e \in Row : e = handler[h].row
  BY <1>2
<1>13. ASSUME handler[h].pc # "enqueue"
       PROVE  e.status = "PROCESSING" /\ rows[j].status = "PROCESSING"
  BY <1>3, <1>9, <1>13 DEF Stage
<1>14. CASE CommitCourse(h)
  <2>. PICK s : s = MarkSuccess(e, Len(courses) + 1)
    OBVIOUS
  <2>1. /\ handler[h].pc = "course" /\ handler'[h].pc = "idle" /\ UNCHANGED queue
        /\ courses' = Append(courses, j) /\ SaveRow(j, e, s) /\ s.status = "SUCCESS"
    BY <1>14, MethodsSetTheStatus DEF CommitCourse, Idle, TypeOK
  <2>4. rows'[j].status = "SUCCESS"
    BY <1>13, <2>1, StatusIsSaved DEF TypeOK
  <2>5. Stage(j)'
    BY <1>6, <1>8, <1>10, <2>1, <2>4 DEF Stage
  <2>6. Succeeds(j)
    BY <1>4, <1>5, <1>13, <2>1, <2>4 DEF Succeeds
  <2>. QED
    BY <1>7, <2>5, <2>6 DEF StageInv, Edge
<1>15. CASE SaveFailure(h)
  <2>. PICK s : s = MarkFailed(e, "LLM_ERROR")
    OBVIOUS
  <2>1. /\ handler[h].pc = "fail" /\ handler'[h].pc = "idle" /\ UNCHANGED <<queue, courses>>
        /\ SaveRow(j, e, s) /\ s.status = "FAILED"
    BY <1>15, MethodsSetTheStatus DEF SaveFailure, Idle, TypeOK
  <2>4. rows'[j].status = "FAILED"
    BY <1>13, <2>1, StatusIsSaved DEF TypeOK
  <2>5. Stage(j)'
    BY <1>6, <1>8, <1>10, <2>1 DEF Stage
  <2>6. MovesOn(j, {"PENDING", "PROCESSING"}, "FAILED")
    BY <1>5, <1>13, <2>1, <2>4 DEF MovesOn
  <2>. QED
    BY <1>7, <2>5, <2>6 DEF StageInv, Edge
<1>16. CASE SaveRetry(h)
  <2>. PICK s : s = ResetForRetry(e)
    OBVIOUS
  <2>1. /\ handler[h].pc = "retry" /\ handler'[h].pc = "enqueue" /\ UNCHANGED <<queue, courses>>
        /\ SaveRow(j, e, s) /\ s.status = "PENDING"
    BY <1>2, <1>16, MethodsSetTheStatus DEF SaveRetry, TypeOK
  <2>4. rows'[j].status = "PENDING"
    BY <1>13, <2>1, StatusIsSaved DEF TypeOK
  <2>5. \A g \in CallbacksFor(j)' : g = h
    BY <1>2, <1>4 DEF CallbacksFor
  <2>6. Stage(j)'
    BY <1>6, <1>8, <2>1, <2>4, <2>5 DEF Stage
  <2>7. MovesOn(j, {"PROCESSING"}, "PENDING")
    BY <1>5, <1>13, <2>1, <2>4 DEF MovesOn
  <2>. QED
    BY <1>7, <2>6, <2>7 DEF StageInv, Edge
<1>17. HandlerThrow(h) => UNCHANGED <<rows, queue, courses>> /\ handler'[h].pc = "idle"
  BY DEF HandlerThrow, AddRejected, NothingIsRepeated, tables, Idle, TypeOK
<1>. QED
  BY <1>11, <1>12, <1>14, <1>15, <1>16, <1>17 DEF HandlerStep

\* Python's answers change no row.
LEMMA PythonStage ==
  ASSUME NothingIsRepeated, TypeOK, OnePieceOfWork, StageInv, PythonStep
  PROVE  StageInv' /\ Edge
<1>1. UNCHANGED <<rows, request, worker, queue, courses>>
  BY DEF PythonStep, CallbackLost, CallbackIgnored, SuccessBegin, FailureBegin,
         CallbackBegin, tables
<1>2. \A k \in Jobs : /\ EntriesAtWork(k)' = EntriesAtWork(k) /\ CoursesMadeBy(k)' = CoursesMadeBy(k)
                      /\ (WorkerIsAt(k)' => WorkerIsAt(k))
  BY <1>1, SameWork DEF WorkerIsAt, JobOf
<1>3. CASE UNCHANGED handler /\ tasks' \subseteq tasks
  <2>1. \A k \in Jobs : AnswersFor(k)' \subseteq AnswersFor(k)
    BY <1>1, <1>3 DEF AnswersFor, JobOf
  <2>2. \A k \in Jobs : Stage(k)'
    BY <1>1, <1>2, <1>3, <2>1, SameWork, SameStage DEF StageInv
  <2>. QED
    BY <1>1, <2>2 DEF StageInv, Edge
<1>4. ASSUME NEW t \in tasks, NEW h \in Handlers, NEW pc, pc \notin {"idle", "enqueue"},
             CallbackBegin(h, t, pc)
      PROVE  StageInv' /\ Edge
  <2>. PICK j \in Jobs : j = JobOf(t.entry)
    BY EntryJob DEF TypeOK
  <2>1. /\ tasks' = tasks \ {t}
        /\ handler[h].pc = "idle" /\ handler'[h] = [pc |-> pc, job |-> j, row |-> rows[j]]
        /\ \A g \in Handlers \ {h} : handler'[g] = handler[g]
    BY <1>4 DEF CallbackBegin, Receive, NothingIsRepeated, Idle, TypeOK
  <2>2. t \in AnswersFor(j)
    BY DEF AnswersFor
  <2>3. /\ EntriesAtWork(j) = {} /\ AnswersFor(j) = {t} /\ CallbacksFor(j) = {}
        /\ CoursesMadeBy(j) = {} /\ request[j] = "done"
    BY <2>2, OnlyAnswer
  <2>4. \A k \in Jobs : AnswersFor(k)' \subseteq AnswersFor(k) \ {t}
    BY <1>1, <2>1 DEF AnswersFor, JobOf
  <2>5. ASSUME NEW k \in Jobs \ {j} PROVE Stage(k)'
    <3>1. CallbacksFor(k)' \subseteq CallbacksFor(k) /\ h \notin CallbacksFor(k)'
      BY <2>1 DEF CallbacksFor
    <3>2. \A g \in CallbacksFor(k)' : handler'[g] = handler[g]
      BY <2>1, <3>1 DEF CallbacksFor
    <3>. QED
      BY <1>1, <1>2, <2>4, <3>1, <3>2, SameStage DEF StageInv
  <2>6. rows[j].status = "PROCESSING"
    BY <2>2 DEF StageInv, Stage
  <2>7. \A g \in CallbacksFor(j)' : g = h
    BY <2>1, <2>3 DEF CallbacksFor
  <2>8. /\ AnswersFor(j)' = {} /\ ~ WorkerIsAt(j)' /\ EntriesAtWork(j)' = {}
        /\ CoursesMadeBy(j)' = {} /\ request'[j] = "done"
    BY <1>1, <1>2, <2>3, <2>4, WorkerWorks
  <2>9. /\ handler'[h].row = rows[j] /\ handler'[h].pc = pc
    BY <2>1
  <2>10. Stage(j)'
    BY <1>1, <1>4, <2>6, <2>7, <2>8, <2>9 DEF Stage
  <2>. QED
    BY <1>1, <2>5, <2>10 DEF StageInv, Edge
<1>. QED
  BY <1>3, <1>4
  DEF PythonStep, CallbackLost, CallbackIgnored, Receive, SuccessBegin, FailureBegin

\* Where nothing is repeated or slow and no survey goes, every step is one of a
\* job's life.
LifeInv == EntryIsActive /\ OnePieceOfWork /\ CronSleeps /\ StageInv

\* The invariant at first, and through every step, each an edge of a job's life.
LEMMA LifeBegins ==
  ASSUME Init
  PROVE  LifeInv
<1>1. ASSUME NEW k \in Jobs PROVE Stage(k)
  <2>1. /\ EntriesAtWork(k) = {} /\ AnswersFor(k) = {} /\ CallbacksFor(k) = {}
        /\ CoursesMadeBy(k) = {} /\ ~ WorkerIsAt(k)
    BY DEF Init, EntriesAtWork, EntriesOf, AnswersFor, CallbacksFor, CoursesMadeBy,
           WorkerIsAt, Idle
  <2>2. rows[k].status = "ABSENT" /\ request[k] = "new"
    BY DEF Init, Absent
  <2>. QED
    BY <2>1, <2>2 DEF Stage
<1>. QED
  BY <1>1, NoWorkYet DEF Init, LifeInv, EntryIsActive, CronSleeps, StageInv, Idle

LEMMA LifeGoesOn ==
  ASSUME NothingIsRepeated, NothingIsSlow, "surveyGone" \notin Faults, TypeOK, LifeInv,
         [Next]_vars
  PROVE  LifeInv' /\ Edge
<1>. USE DEF LifeInv
<1>1. EntryIsActive' /\ OnePieceOfWork' /\ CronSleeps'
  BY EntryStaysActive, WorkIsHandedOn, CronStaysAsleep
<1>2. CASE UNCHANGED <<rows, queue, worker, tasks, handler, courses, request>>
  <2>1. \A k \in Jobs : Stage(k)'
    BY <1>2, SameWork, SameStage DEF StageInv, WorkerIsAt, JobOf
  <2>. QED
    BY <1>1, <1>2, <2>1 DEF StageInv, Edge
<1>3. ASSUME NEW c \in DOMAIN courses, CourseGone(c) PROVE StageInv' /\ Edge
  <2>1. \A k \in Jobs : rows'[k].status = rows[k].status
    BY <1>3, DeletionKeepsTheStatus DEF CourseGone, TypeOK
  <2>2. UNCHANGED <<queue, worker, tasks, handler, courses, request>>
    BY <1>3 DEF CourseGone
  <2>3. \A k \in Jobs : Stage(k)'
    BY <2>1, <2>2, SameWork, SameStage DEF StageInv, WorkerIsAt, JobOf
  <2>. QED
    BY <1>3, <2>3 DEF StageInv, Edge
<1>. QED
  BY <1>1, <1>2, <1>3, RequestStage, WorkerStage, HandlerStage, PythonStage, NoStaleJobs
  DEF Next, vars, Age, GrowsOld, NothingIsSlow, SurveyGone, Crash, NothingIsRepeated

\* SUCCESS and FAILED are final at once where nothing is repeated, slow or
\* deleted: neither a retry nor the one callback nor a request that failed to
\* enqueue changes a finished job again.  Repeated callbacks and the cron are
\* what SettledCorrect is about.
THEOREM FinalCorrect ==
  ASSUME NothingIsRepeated, NothingIsSlow, NothingIsDeleted
  PROVE  Spec => TerminalIsFinal
<1>1. Edge => [\A j \in Jobs : rows[j].status \in Terminal => rows'[j] = rows[j]]_vars
  BY DEF Edge, MovesOn, Succeeds, Terminal, CourseGone, NothingIsDeleted
<1>2. "surveyGone" \notin Faults
  BY DEF NothingIsDeleted
<1>. QED
  BY <1>1, <1>2, LifeBegins, LifeGoesOn, TypeCorrect, PTL DEF Spec, TerminalIsFinal

\* One edge of a job's life, seen through the status and the courses a client
\* may know of, is a step of JobLifecycle.
LEMMA EdgeIsAStep ==
  ASSUME TypeOK, TypeOK', Edge
  PROVE  [Lifecycle!Next]_(Lifecycle!lifeVars)
<1>. DEFINE status == [k \in Jobs |-> rows[k].status]
            results == [k \in Jobs |-> CoursesMadeBy(k)]
<1>1. ASSUME NEW j \in Jobs, NEW from, NEW to, MovesOn(j, from, to)
      PROVE  Lifecycle!Move(j, from, to) /\ UNCHANGED results
  <2>1. status' = [status EXCEPT ![j] = to]
    BY <1>1 DEF MovesOn
  <2>2. UNCHANGED results
    BY <1>1 DEF MovesOn, CoursesMadeBy
  <2>. QED
    BY <1>1, <2>1, <2>2 DEF Lifecycle!Move, MovesOn
<1>2. ASSUME NEW j \in Jobs, Succeeds(j) PROVE Lifecycle!Succeed(j)
  <2>1. status' = [status EXCEPT ![j] = "SUCCESS"]
    BY <1>2 DEF Succeeds
  <2>2. /\ CoursesMadeBy(j)' = {Len(courses) + 1}
        /\ \A k \in Jobs \ {j} : CoursesMadeBy(k)' = CoursesMadeBy(k)
    <3>1. /\ DOMAIN courses' = DOMAIN courses \union {Len(courses) + 1}
          /\ courses'[Len(courses) + 1] = j /\ Len(courses) + 1 \notin DOMAIN courses
          /\ \A n \in DOMAIN courses : courses'[n] = courses[n]
      BY <1>2 DEF Succeeds, TypeOK
    <3>. QED
      BY <1>2, <3>1 DEF Succeeds, CoursesMadeBy
  <2>3. results' = [results EXCEPT ![j] = {Len(courses) + 1}]
    BY <2>2
  <2>4. results[j] = {} /\ Len(courses) + 1 \in results'[j]
    BY <1>2, <2>2 DEF Succeeds
  <2>. QED
    BY <1>2, <2>1, <2>3, <2>4 DEF Lifecycle!Succeed, Lifecycle!Move, Succeeds, CoursesMadeBy
<1>3. UNCHANGED <<rows, courses>> \/ (\E c \in DOMAIN courses : CourseGone(c))
        => UNCHANGED <<status, results>>
  BY DeletionKeepsTheStatus DEF CoursesMadeBy, CourseGone, TypeOK
<1>4. ASSUME NEW j \in Jobs
      PROVE  /\ MovesOn(j, {"ABSENT"}, "PENDING") => Lifecycle!Create(j)
             /\ MovesOn(j, {"PENDING"}, "PROCESSING") => Lifecycle!Start(j)
             /\ MovesOn(j, {"PROCESSING"}, "PENDING") => Lifecycle!Retry(j)
             /\ MovesOn(j, {"PENDING", "PROCESSING"}, "FAILED") => Lifecycle!Fail(j)
  BY <1>1 DEF Lifecycle!Create, Lifecycle!Start, Lifecycle!Retry, Lifecycle!Fail, CoursesMadeBy
<1>5. ASSUME NEW j \in Jobs, MovesOn(j, {"PENDING", "PROCESSING"}, "PROCESSING")
      PROVE  Lifecycle!Start(j) \/ UNCHANGED <<status, results>>
  <2>1. CASE rows[j].status = "PENDING"
    BY <1>4, <1>5, <2>1 DEF MovesOn
  <2>2. CASE rows[j].status = "PROCESSING"
    <3>1. UNCHANGED status
      BY <1>5, <2>2 DEF MovesOn
    <3>. QED
      BY <1>1, <1>5, <3>1
  <2>. QED
    BY <1>5, <2>1, <2>2 DEF MovesOn
<1>6. Lifecycle!Next \/ UNCHANGED <<status, results>>
  <2>1. ASSUME NEW j \in Jobs,
               Lifecycle!Create(j) \/ Lifecycle!Start(j) \/ Lifecycle!Retry(j)
                 \/ Lifecycle!Fail(j) \/ Lifecycle!Succeed(j)
        PROVE  Lifecycle!Next
    BY <2>1 DEF Lifecycle!Next
  <2>. HIDE DEF status, results
  <2>. QED
    BY <1>2, <1>3, <1>4, <1>5, <2>1 DEF Edge
<1>. QED
  BY <1>6 DEF Lifecycle!lifeVars, CoursesMadeBy

\* Generation implements the lifecycle a polling client may expect, with the
\* courses as results: a job is created once, SUCCESS comes with its one course
\* in the same step, and nothing follows it.  Courses may be deleted meanwhile; a
\* survey that is deleted takes its jobs along.
THEOREM LifecycleCorrect ==
  ASSUME NothingIsRepeated, NothingIsSlow, "surveyGone" \notin Faults
  PROVE  Spec => ImplementsLifecycle
<1>1. Init => Lifecycle!Init
  BY DEF Init, Lifecycle!Init, Absent
<1>2. TypeOK /\ TypeOK' /\ LifeInv /\ [Next]_vars => LifeInv' /\ [Lifecycle!Next]_(Lifecycle!lifeVars)
  BY LifeGoesOn, EdgeIsAStep
<1>. QED
  BY <1>1, <1>2, LifeBegins, TypeCorrect, PTL
  DEF Spec, ImplementsLifecycle, Lifecycle!Spec

\* The status a client polls tells of the course: SUCCESS means that the job made
\* one, any other status that it made none.
StatusTellsTheCourse ==
  \A j \in Jobs : IF rows[j].status = "SUCCESS" THEN \E n : CoursesMadeBy(j) = {n}
                                                ELSE CoursesMadeBy(j) = {}

\* No course without SUCCESS, and no SUCCESS without its one course: inherited
\* from the abstract job.
THEOREM OutcomeCorrect ==
  ASSUME NothingIsRepeated, NothingIsSlow, "surveyGone" \notin Faults
  PROVE  Spec => []StatusTellsTheCourse
<1>1. Lifecycle!ResultsMatch => StatusTellsTheCourse
  BY DEF Lifecycle!ResultsMatch, StatusTellsTheCourse, CoursesMadeBy
<1>2. Spec => Lifecycle!Spec
  BY LifecycleCorrect DEF ImplementsLifecycle
<1>. QED
  BY <1>1, <1>2, Lifecycle!ResultsCorrect, PTL

\* A job that polls as SUCCESS or FAILED does so for ever, and makes no course
\* any more, though the course it made may be deleted.
THEOREM EndCorrect ==
  ASSUME NothingIsRepeated, NothingIsSlow, "surveyGone" \notin Faults
  PROVE  Spec => Lifecycle!EndIsFinal
<1>1. Spec => Lifecycle!Spec
  BY LifecycleCorrect DEF ImplementsLifecycle
<1>. QED
  BY <1>1, Lifecycle!EndCorrect, PTL
-----------------------------------------------------------------------------
(* A settled job stays settled                                             *)

EntriesUsedUp(j) ==
  \A i \in DOMAIN queue : JobOf(i) = j => queue[i].state \in {"completed", "failed"}

\* What of Settled is about code in flight, besides the queue.
NotInFlight(j) ==
  /\ request[j] = "done"
  /\ worker # Idle => JobOf(worker.entry) # j
  /\ \A h \in Handlers : handler[h] # Idle => handler[h].job # j
  /\ cron.pc = "save" => cron.job # j

LEMMA SettledParts ==
  ASSUME NEW j \in Jobs
  PROVE  Settled(j) <=> rows[j].status \in Terminal /\ EntriesUsedUp(j) /\ NotInFlight(j)
  BY DEF Settled, EntriesUsedUp, NotInFlight

\* An entry of another job that is added leaves this job's entries used up.
LEMMA OthersAdd ==
  ASSUME TypeOK, NEW j \in Jobs, EntriesUsedUp(j), NEW k \in Jobs, k # j, Add(k)
  PROVE  /\ EntriesUsedUp(j)'
         /\ \A i \in DOMAIN queue : JobOf(i)' = JobOf(i)
<1>1. queue' = Append(queue, NewEntry(k))
  BY DEF Add
<1>2. /\ Len(queue) \in Nat
      /\ DOMAIN queue' = 1..(Len(queue) + 1)
      /\ queue'[Len(queue) + 1] = NewEntry(k)
      /\ \A i \in DOMAIN queue : i \in DOMAIN queue' /\ queue'[i] = queue[i]
  BY <1>1 DEF TypeOK
<1>3. \A i \in DOMAIN queue' : i \in DOMAIN queue \/ i = Len(queue) + 1
  BY <1>2 DEF TypeOK
<1>4. NewEntry(k).data = k
  BY DEF NewEntry
<1>5. EntriesUsedUp(j)'
  BY <1>2, <1>3, <1>4 DEF EntriesUsedUp, JobOf
<1>. QED
  BY <1>2, <1>5 DEF JobOf

\* A worker that stays where it is, on an entry that keeps its job, is no
\* closer to the job.
LEMMA WorkerStaysElsewhere ==
  ASSUME TypeOK, NEW j \in Jobs, NotInFlight(j), UNCHANGED worker,
         \A i \in DOMAIN queue : JobOf(i)' = JobOf(i)
  PROVE  (worker # Idle => JobOf(worker.entry) # j)'
<1>1. worker # Idle => worker.entry \in DOMAIN queue
  BY DEF TypeOK
<1>2. worker # Idle => queue'[worker.entry].data = queue[worker.entry].data
  BY <1>1 DEF JobOf
<1>. QED
  BY <1>2 DEF NotInFlight, JobOf

LEMMA RequestLeavesSettled ==
  ASSUME TypeOK, NEW j \in Jobs, Settled(j), NEW k \in Jobs, RequestStep(k)
  PROVE  Settled(j)' /\ rows'[j] = rows[j] /\ UNCHANGED courses
<1>. USE DEF tables
<1>0. rows[j].status \in Terminal /\ EntriesUsedUp(j) /\ NotInFlight(j)
  BY SettledParts
<1>1. k # j
  BY <1>0 DEF NotInFlight, RequestStep, RequestCheck, RequestReject, RequestInsert,
     RequestInsertFails, RequestEnqueue, RequestEnqueueFails, RequestSaveFailure,
     RequestSaveFailureFails
<1>2. rows'[j] = rows[j] /\ UNCHANGED <<courses, worker, handler, cron>>
  <2>1. CASE RequestSaveFailure(k)
    BY <1>1, <2>1, SaveLeavesOthers DEF RequestSaveFailure, TypeOK
  <2>2. CASE RequestInsert(k)
    BY <1>1, <2>2 DEF RequestInsert, TypeOK
  <2>. QED
    BY <2>1, <2>2 DEF RequestStep, RequestCheck, RequestReject, RequestInsertFails,
       RequestEnqueue, RequestEnqueueFails, RequestSaveFailureFails
<1>3. request'[j] = "done"
  BY <1>0, <1>1 DEF NotInFlight, TypeOK, RequestStep, RequestCheck, RequestReject,
     RequestInsert, RequestInsertFails, RequestEnqueue, RequestEnqueueFails,
     RequestSaveFailure, RequestSaveFailureFails
<1>4. UNCHANGED queue \/ Add(k)
  BY DEF RequestStep, RequestCheck, RequestReject, RequestInsert, RequestInsertFails,
     RequestEnqueue, RequestEnqueueFails, AddRejected, RequestSaveFailure,
     RequestSaveFailureFails
<1>5. EntriesUsedUp(j)' /\ \A i \in DOMAIN queue : JobOf(i)' = JobOf(i)
  BY <1>0, <1>1, <1>4, OthersAdd DEF EntriesUsedUp, JobOf
<1>6. (worker # Idle => JobOf(worker.entry) # j)'
  BY <1>0, <1>2, <1>5, WorkerStaysElsewhere
<1>. QED
  BY <1>0, <1>2, <1>3, <1>5, <1>6 DEF Settled, EntriesUsedUp, NotInFlight
LEMMA HandlerLeavesSettled ==
  ASSUME TypeOK, NEW j \in Jobs, Settled(j), NEW h \in Handlers, HandlerStep(h)
  PROVE  Settled(j)' /\ rows'[j] = rows[j] /\ CoursesMadeBy(j)' = CoursesMadeBy(j)
<1>. USE DEF tables
<1>. DEFINE k == handler[h].job
<1>0. rows[j].status \in Terminal /\ EntriesUsedUp(j) /\ NotInFlight(j)
  BY SettledParts
<1>1. handler[h].pc # "idle"
  BY DEF HandlerStep, CommitCourse, SaveRetry, ReEnqueue, SaveFailure, HandlerThrow
<1>2. k \in Jobs /\ k # j
  BY <1>0, <1>1, HandlerFields DEF NotInFlight, Idle
<1>3. UNCHANGED <<request, worker, cron>>
  BY DEF HandlerStep, CommitCourse, SaveRetry, ReEnqueue, SaveFailure, HandlerThrow
<1>4. rows'[j] = rows[j]
  BY <1>2, SaveLeavesOthers DEF TypeOK, HandlerStep, CommitCourse, SaveRetry, ReEnqueue,
     SaveFailure, HandlerThrow
<1>5. UNCHANGED courses \/ courses' = Append(courses, k)
  BY DEF HandlerStep, CommitCourse, SaveRetry, ReEnqueue, SaveFailure, HandlerThrow
<1>6. CoursesMadeBy(j)' = CoursesMadeBy(j)
  <2>1. CASE UNCHANGED courses
    BY <2>1 DEF CoursesMadeBy
  <2>2. CASE courses' = Append(courses, k)
    <3>. HIDE DEF k
    <3>1. /\ Len(courses) \in Nat
          /\ DOMAIN courses = 1..Len(courses)
          /\ DOMAIN courses' = 1..(Len(courses) + 1)
          /\ courses'[Len(courses) + 1] = k
          /\ \A n \in DOMAIN courses : courses'[n] = courses[n]
      BY <1>2, <2>2 DEF TypeOK
    <3>2. \A n : n \in CoursesMadeBy(j)' <=> n \in CoursesMadeBy(j)
      BY <1>2, <3>1 DEF CoursesMadeBy
    <3>. QED
      BY <3>2
  <2>. QED
    BY <1>5, <2>1, <2>2
<1>7. UNCHANGED queue \/ Add(k)
  BY DEF HandlerStep, CommitCourse, SaveRetry, ReEnqueue, SaveFailure, HandlerThrow,
     AddRejected
<1>8. EntriesUsedUp(j)' /\ \A i \in DOMAIN queue : JobOf(i)' = JobOf(i)
  BY <1>0, <1>2, <1>7, OthersAdd DEF EntriesUsedUp, JobOf
<1>9. (worker # Idle => JobOf(worker.entry) # j)'
  BY <1>0, <1>3, <1>8, WorkerStaysElsewhere
<1>10. \A g \in Handlers : handler'[g] # Idle => handler[g] # Idle /\ handler'[g].job = handler[g].job
  <2>1. CASE SaveRetry(h)
    <3>1. handler'[h].job = handler[h].job /\ \A g \in Handlers \ {h} : handler'[g] = handler[g]
      BY <1>1, <2>1, HandlerFields DEF SaveRetry, TypeOK
    <3>. QED
      BY <1>1, <3>1 DEF Idle
  <2>2. CASE handler' = [handler EXCEPT ![h] = Idle]
    BY <2>2 DEF TypeOK
  <2>. QED
    BY <2>1, <2>2 DEF HandlerStep, CommitCourse, ReEnqueue, SaveFailure, HandlerThrow
<1>. QED
  BY <1>0, <1>3, <1>4, <1>6, <1>8, <1>9, <1>10 DEF Settled, EntriesUsedUp, NotInFlight

\* The worker takes only entries that wait, and works on another job's.
LEMMA WorkerLeavesSettled ==
  ASSUME TypeOK, NEW j \in Jobs, Settled(j), WorkerStep
  PROVE  Settled(j)' /\ rows'[j] = rows[j] /\ UNCHANGED courses
<1>. USE DEF tables
<1>0. rows[j].status \in Terminal /\ EntriesUsedUp(j) /\ NotInFlight(j)
  BY SettledParts
<1>1. UNCHANGED <<courses, request, handler, cron>>
  BY DEF WorkerStep, WorkerTake, WorkerLoad, WorkerDrop, WorkerSaveProcessing,
     WorkerFindSurvey, WorkerPost, WorkerAck, WorkerThrow
<1>2. PICK i \in DOMAIN queue :
        /\ JobOf(i) # j
        /\ worker' # Idle => worker'.entry = i
        /\ \/ UNCHANGED queue
           \/ \E state \in EntryStates : SetEntry(i, state)
           \/ queue' = [queue EXCEPT ![i] = TriedAgain(queue[i])]
  <2>1. ASSUME NEW i \in DOMAIN queue, WorkerTake(i)
        PROVE  /\ JobOf(i) # j /\ worker'.entry = i
               /\ SetEntry(i, "active") /\ "active" \in EntryStates
    BY <1>0, <2>1 DEF WorkerTake, EntriesUsedUp, EntryStates
  <2>2. CASE WorkerLoad \/ WorkerSaveProcessing \/ WorkerFindSurvey \/ WorkerPost
    <3>1. worker.pc # "idle" /\ UNCHANGED queue
      BY <2>2 DEF WorkerLoad, WorkerSaveProcessing, WorkerFindSurvey, WorkerPost
    <3>2. worker.entry \in DOMAIN queue /\ JobOf(worker.entry) # j
      BY <1>0, <3>1, WorkerFields DEF NotInFlight, Idle
    <3>3. worker'.entry = worker.entry
      <4>1. CASE WorkerLoad
        BY <4>1 DEF WorkerLoad
      <4>2. CASE WorkerSaveProcessing \/ WorkerFindSurvey \/ WorkerPost
        <5>1. worker.pc \notin {"idle", "load"}
          BY <4>2 DEF WorkerSaveProcessing, WorkerFindSurvey, WorkerPost
        <5>. QED
          BY <4>2, <5>1, WorkerFields DEF WorkerSaveProcessing, WorkerFindSurvey, WorkerPost
      <4>. QED
        BY <2>2, <4>1, <4>2
    <3>. QED
      BY <3>1, <3>2, <3>3
  <2>3. CASE WorkerDrop \/ WorkerAck \/ WorkerThrow
    <3>1. worker.pc # "idle" /\ worker' = Idle
      BY <2>3 DEF WorkerDrop, WorkerAck, WorkerThrow, WorkerCanThrow
    <3>2. worker.entry \in DOMAIN queue /\ JobOf(worker.entry) # j
      BY <1>0, <3>1, WorkerFields DEF NotInFlight, Idle
    <3>. QED
      BY <2>3, <3>1, <3>2 DEF WorkerDrop, WorkerAck, WorkerThrow, EntryStates
  <2>. QED
    BY <2>1, <2>2, <2>3 DEF WorkerStep
<1>3. rows'[j] = rows[j]
  <2>1. CASE WorkerSaveProcessing
    <3>1. JobOf(worker.entry) # j
      BY <1>0, <2>1 DEF WorkerSaveProcessing, NotInFlight, Idle
    <3>. QED
      BY <2>1, <3>1, SaveLeavesOthers DEF WorkerSaveProcessing, TypeOK
  <2>. QED
    BY <2>1 DEF WorkerStep, WorkerTake, WorkerLoad, WorkerDrop, WorkerFindSurvey,
       WorkerPost, WorkerAck, WorkerThrow
<1>4. /\ DOMAIN queue' = DOMAIN queue
      /\ queue'[i].data = queue[i].data
      /\ \A n \in DOMAIN queue \ {i} : queue'[n] = queue[n]
  <2>1. queue[i] \in EntryOf(Jobs)
    BY EntryJob DEF Entry
  <2>2. CASE UNCHANGED queue
    BY <2>2
  <2>3. ASSUME NEW state \in EntryStates, SetEntry(i, state) PROVE <1>4!:
    <3>1. [queue[i] EXCEPT !.state = state].data = queue[i].data
      BY <2>1 DEF EntryOf
    <3>. QED
      BY <2>3, <3>1 DEF SetEntry, TypeOK
  <2>4. CASE queue' = [queue EXCEPT ![i] = TriedAgain(queue[i])]
    <3>1. TriedAgain(queue[i]).data = queue[i].data
      BY <2>1, EntryChanges
    <3>. QED
      BY <2>4, <3>1 DEF TypeOK
  <2>. QED
    BY <1>2, <2>2, <2>3, <2>4
<1>5. EntriesUsedUp(j)' /\ \A n \in DOMAIN queue : JobOf(n)' = JobOf(n)
  BY <1>0, <1>2, <1>4 DEF EntriesUsedUp, JobOf
<1>6. (worker # Idle => JobOf(worker.entry) # j)'
  BY <1>2, <1>4 DEF JobOf
<1>. QED
  BY <1>0, <1>1, <1>3, <1>5, <1>6 DEF Settled, EntriesUsedUp, NotInFlight

\* A callback is begun only for a job that is found unfinished.
LEMMA PythonLeavesSettled ==
  ASSUME TypeOK, NEW j \in Jobs, Settled(j), PythonStep
  PROVE  Settled(j)' /\ UNCHANGED <<rows, courses>>
<1>. USE DEF tables
<1>1. ASSUME NEW t \in tasks, NEW h \in Handlers, NEW pc, CallbackBegin(h, t, pc)
      PROVE  Settled(j)' /\ UNCHANGED <<rows, courses>>
  <2>1. JobOf(t.entry) # j
    BY <1>1 DEF CallbackBegin, Settled, Active, Terminal
  <2>2. \A g \in Handlers : handler'[g].job = JobOf(t.entry) \/ handler'[g] = handler[g]
    BY <1>1 DEF CallbackBegin, TypeOK
  <2>3. UNCHANGED <<rows, courses, queue, request, worker, cron>>
    BY <1>1 DEF CallbackBegin
  <2>. HIDE DEF Settled
  <2>. QED
    BY <2>1, <2>2, <2>3 DEF Settled, JobOf
<1>. QED
  BY <1>1 DEF PythonStep, CallbackLost, CallbackIgnored, SuccessBegin, FailureBegin,
     Settled, JobOf

LEMMA CrashLeavesSettled ==
  ASSUME TypeOK, NEW j \in Jobs, Settled(j), Crash
  PROVE  Settled(j)' /\ UNCHANGED <<rows, courses>>
<1>1. DOMAIN queue' = DOMAIN queue
  BY DEF Crash, StallActive
<1>2. \A i \in DOMAIN queue :
        /\ queue'[i].data = queue[i].data
        /\ queue[i].state \in {"completed", "failed"} => queue'[i] = queue[i]
  BY StallLeavesTheUsedUp DEF Crash, TypeOK, Entry
<1>3. /\ request'[j] = "done" /\ worker' = Idle /\ cron' = Idle
      /\ \A h \in Handlers : handler'[h] = Idle
      /\ UNCHANGED <<rows, courses>>
  BY DEF Crash, Settled, tables
<1>. QED
  BY <1>1, <1>2, <1>3 DEF Settled, JobOf, Idle

\* Late and repeated callbacks of a settled job are ignored, the cron's old list
\* does it no harm and no entry, retry or restart takes it up again, whatever
\* the faults: it keeps its status and error, and makes no further course.
THEOREM SettledCorrect == Spec => SettledStays
<1>. DEFINE Stays(j) ==
       \/ rows'[j] = Absent
       \/ /\ Settled(j)'
          /\ rows'[j] \in {rows[j], [rows[j] EXCEPT !.course = NoCourse]}
          /\ CoursesMadeBy(j)' = CoursesMadeBy(j)
<1>1. TypeOK /\ [Next]_vars => [\A j \in Jobs : Settled(j) => Stays(j)]_vars
  <2>. SUFFICES ASSUME TypeOK, Next, NEW j \in Jobs, Settled(j)
                PROVE  Stays(j)
    BY DEF vars
  <2>1. ASSUME NEW k \in Jobs, RequestStep(k) PROVE Stays(j)
    BY <2>1, RequestLeavesSettled DEF CoursesMadeBy
  <2>2. ASSUME NEW k \in Jobs, Age(k) PROVE Stays(j)
    BY <2>2 DEF Age, Settled, JobOf, CoursesMadeBy
  <2>3. ASSUME NEW h \in Handlers, HandlerStep(h) PROVE Stays(j)
    BY <2>3, HandlerLeavesSettled
  <2>4. ASSUME NEW s \in Surveys, SurveyGone(s) PROVE Stays(j)
    BY <2>4 DEF SurveyGone, Settled, JobOf, CoursesMadeBy
  <2>5. ASSUME NEW c \in DOMAIN courses, CourseGone(c) PROVE Stays(j)
    <3>1. rows'[j] \in {rows[j], [rows[j] EXCEPT !.course = NoCourse]}
      BY <2>5, DeletionTakesTheCourse DEF CourseGone
    <3>2. rows'[j].status = rows[j].status
      BY <2>5, DeletionKeepsTheStatus DEF CourseGone, TypeOK
    <3>3. Settled(j)' /\ UNCHANGED courses
      BY <2>5, <3>2 DEF CourseGone, Settled, JobOf
    <3>. QED
      BY <3>1, <3>3 DEF CoursesMadeBy
  <2>6. CASE WorkerStep
    BY <2>6, WorkerLeavesSettled DEF CoursesMadeBy
  <2>7. CASE PythonStep
    BY <2>7, PythonLeavesSettled DEF CoursesMadeBy
  <2>8. CASE Cleanup
    <3>1. rows'[j] = rows[j] /\ (cron'.pc = "save" => cron'.job # j)
      BY <2>8, CronLeavesTheFinished DEF Cleanup, TypeOK, CronStates, Settled
    <3>. QED
      BY <2>8, <3>1 DEF Cleanup, Settled, JobOf, CoursesMadeBy
  <2>9. CASE Crash
    BY <2>9, CrashLeavesSettled DEF CoursesMadeBy
  <2>. QED
    BY <2>1, <2>2, <2>3, <2>4, <2>5, <2>6, <2>7, <2>8, <2>9 DEF Next
<1>. QED
  BY <1>1, TypeCorrect, PTL DEF Spec, SettledStays
=============================================================================
