--------------------- MODULE ItineraryModification_proofs ---------------------
(***************************************************************************)
(* Theorems about ItineraryModification, for every set of jobs, courses,   *)
(* completion requests and concurrent callbacks, every limit and every set *)
(* of faults, except that a theorem may ASSUME some faults absent:         *)
(* NothingIsLost, NothingIsRepeated, OneAtATime.                           *)
(***************************************************************************)
EXTENDS ItineraryModification, ItineraryJobTable_proofs, BullQueue_proofs, FiniteSetTheorems,
        TLAPS

-----------------------------------------------------------------------------
(* Type correctness.  TypeOK alone is not inductive: a retry puts the      *)
(* course of the entity it holds into the queue, so that entity, and the   *)
(* row it was loaded from, must name no course but the job's own.          *)

Payload == [job : Jobs, course : Courses \union {NoCourse}]

WorkerAtWork == [pc : {"save", "course", "refuse", "post", "posted"},
                 entry : DOMAIN queue, row : Row, base : SUBSET Nat]

Begun == [pc : {"edit", "answer", "retry", "enqueue", "fail"}, job : Jobs, row : Row,
          base : SUBSET Nat]

Committing == [pc : {"commit"}, job : Jobs, row : Row, base : SUBSET Nat,
               seen : SUBSET Nat]

\* The course a job may name: the one of its request, or null.
Own(j) == {NoCourse, CourseOf[j]}

OwnRows == \A j \in Jobs : rows[j].course \in Own(j)

OwnWorker == worker.pc \notin {"idle", "load"} =>
               worker.row.course \in Own(JobOf(worker.entry))

OwnHandlers == \A h \in Handlers : handler[h].pc # "idle" =>
                 handler[h].row.course \in Own(handler[h].job)

OwnCron == cron.pc = "save" => cron.row.course \in Own(cron.job)

OwnCourses == OwnRows /\ OwnWorker /\ OwnHandlers /\ OwnCron

LEMMA CourseNumbers ==
  ASSUME NEW j \in Jobs
  PROVE  CourseOf[j] \in Courses /\ CourseOf[j] \in Nat \ {0}
  BY ConstantsAssumption

\* No method of a job changes its course here.
LEMMA MethodsKeepTheCourse ==
  ASSUME NEW e \in Row
  PROVE  /\ IncrementAttempt(MarkProcessing(e)) \in Row
         /\ IncrementAttempt(MarkProcessing(e)).course = e.course
         /\ ResetForRetry(e) \in Row /\ ResetForRetry(e).course = e.course
         /\ \A code \in ErrorCodes : /\ MarkFailed(e, code) \in Row
                                     /\ MarkFailed(e, code).course = e.course
         /\ \A i \in Intents : /\ MarkSuccessWithIntent(e, i) \in Row
                               /\ MarkSuccessWithIntent(e, i).course = e.course
<1>1. MarkProcessing(e) \in Row /\ MarkProcessing(e).course = e.course
  BY EntityTypes DEF MarkProcessing, Row
<1>2. /\ IncrementAttempt(MarkProcessing(e)) \in Row
      /\ IncrementAttempt(MarkProcessing(e)).course = e.course
  BY <1>1, EntityTypes DEF IncrementAttempt, Row
<1>3. ResetForRetry(e) \in Row /\ ResetForRetry(e).course = e.course
  BY EntityTypes DEF ResetForRetry, Row
<1>4. ASSUME NEW code \in ErrorCodes
      PROVE  MarkFailed(e, code) \in Row /\ MarkFailed(e, code).course = e.course
  BY EntityTypes DEF MarkFailed, Row
<1>5. ASSUME NEW i \in Intents
      PROVE  /\ MarkSuccessWithIntent(e, i) \in Row
             /\ MarkSuccessWithIntent(e, i).course = e.course
  BY EntityTypes DEF MarkSuccessWithIntent, Row
<1>. QED
  BY <1>2, <1>3, <1>4, <1>5

\* A save of an entity with its own course keeps the table typed and owned.
LEMMA SaveOwn ==
  ASSUME rows \in [Jobs -> MaybeRow], OwnRows, NEW j \in Jobs, Exists(j),
         NEW loaded \in Row, NEW e \in Row, e.course \in Own(j),
         SaveRow(j, loaded, e)
  PROVE  rows' \in [Jobs -> MaybeRow] /\ OwnRows'
<1>1. rows' \in [Jobs -> MaybeRow]
  BY SaveRowType
<1>2. PICK r \in Saves(loaded, e, rows[j]) : rows' = [rows EXCEPT ![j] = r]
  BY DEF SaveRow
<1>3. r.course = e.course \/ r.course = rows[j].course
  BY <1>2 DEF Saves, ChangedColumns
<1>4. r.course \in Own(j)
  BY <1>3 DEF OwnRows
<1>. QED
  BY <1>1, <1>2, <1>4 DEF OwnRows, Own

\* A course save writes a course row and un-deletes at most that course.
LEMMA SaveCourseType ==
  ASSUME TypeOK, NEW c \in Courses, NEW loaded \in CourseRow, NEW e \in CourseRow,
         SaveCourse(c, loaded, e)
  PROVE  courses' \in [Courses -> CourseRow] /\ gone' \in SUBSET Courses
<1>1. courses[c] \in CourseRow
  BY DEF TypeOK
<1>2. ChangedCourseColumns(loaded, e, courses[c]) \in CourseRow
  BY <1>1 DEF ChangedCourseColumns, CourseRow
<1>3. PICK r \in CourseRow : courses' = [courses EXCEPT ![c] = r]
  BY <1>2 DEF SaveCourse
<1>. QED
  BY <1>3 DEF SaveCourse, TypeOK

LEMMA AddJobType ==
  ASSUME TypeOK, NEW j \in Jobs, NEW c \in Courses \union {NoCourse}, AddJob(j, c)
  PROVE  /\ queue' \in Seq(Entry)
         /\ DOMAIN queue \subseteq DOMAIN queue'
         /\ \A i \in DOMAIN queue : queue'[i] = queue[i]
<1>1. [job |-> j, course |-> c] \in Payload /\ queue \in Seq(EntryOf(Payload))
  BY DEF Payload, TypeOK, Entry
<1>. QED
  BY <1>1, AddType DEF AddJob, Entry, Payload

LEMMA SetJobEntryType ==
  ASSUME TypeOK, NEW i \in DOMAIN queue, NEW state \in {"active", "completed"},
         SetEntry(i, state)
  PROVE  /\ queue' \in Seq(Entry) /\ DOMAIN queue' = DOMAIN queue
         /\ \A k \in DOMAIN queue : queue'[k].data = queue[k].data
<1>1. state \in EntryStates /\ queue \in Seq(EntryOf(Payload))
  BY DEF EntryStates, Payload, TypeOK, Entry
<1>2. queue' \in Seq(Entry) /\ DOMAIN queue' = DOMAIN queue
  BY <1>1, SetEntryType DEF Entry, Payload
<1>3. queue[i] \in EntryOf(Payload)
  BY <1>1
<1>4. [queue[i] EXCEPT !.state = state].data = queue[i].data
  BY <1>3 DEF EntryOf
<1>. QED
  BY <1>1, <1>2, <1>4 DEF SetEntry

LEMMA EntryJob ==
  ASSUME TypeOK, NEW i \in DOMAIN queue
  PROVE  /\ queue[i] \in Entry
         /\ JobOf(i) \in Jobs
         /\ i \in Nat \ {0}
<1>1. queue \in Seq(EntryOf(Payload))
  BY DEF TypeOK, Entry, Payload
<1>2. queue[i].data \in Payload /\ i \in Nat \ {0}
  BY <1>1, EntryData
<1>. QED
  BY <1>1, <1>2 DEF Entry, Payload, JobOf

LEMMA WorkerFields ==
  ASSUME TypeOK
  PROVE  /\ worker.pc # "idle" => worker.entry \in DOMAIN queue
         /\ worker.pc \notin {"idle", "load"} => worker \in WorkerAtWork
<1>1. CASE worker = Idle
  BY <1>1 DEF Idle
<1>2. CASE worker \in [pc : {"load"}, entry : DOMAIN queue]
  BY <1>2
<1>3. CASE worker \in WorkerAtWork
  BY <1>3 DEF WorkerAtWork
<1>. QED
  BY <1>1, <1>2, <1>3 DEF TypeOK, WorkerAtWork

LEMMA HandlerFields ==
  ASSUME TypeOK, NEW h \in Handlers, handler[h].pc # "idle"
  PROVE  /\ handler[h].job \in Jobs
         /\ handler[h].row \in Row
         /\ handler[h].base \in SUBSET Nat
         /\ handler[h].pc = "commit" => handler[h] \in Committing
         /\ handler[h].pc # "commit" => handler[h] \in Begun
<1>1. CASE handler[h] \in Begun
  BY <1>1 DEF Begun
<1>2. CASE handler[h] \in Committing
  BY <1>2 DEF Committing
<1>. QED
  BY <1>1, <1>2 DEF TypeOK, Idle, Begun, Committing

TypeInv == TypeOK /\ OwnCourses

\* The entries keep their data, so a job that the worker or a task has stays.
SameJobs == \A i \in DOMAIN queue : i \in DOMAIN queue' /\ JobOf(i)' = JobOf(i)

LEMMA OwnWorkerStays ==
  ASSUME TypeOK, OwnWorker, UNCHANGED worker, SameJobs
  PROVE  OwnWorker'
  BY WorkerFields DEF OwnWorker, SameJobs, Own

LEMMA RequestType ==
  ASSUME TypeOK, OwnCourses, NEW j \in Jobs, RequestStep(j)
  PROVE  TypeOK' /\ OwnCourses'
<1>. USE DEF OwnCourses, tables
<1>. DEFINE C == CourseOf[j]
            Pcs == Copied \union [pc : {"new", "saved", "addFailed", "done"}]
<1>a. C \in Courses /\ C \in Nat
  BY CourseNumbers
<1>b. /\ [pc |-> "saved"] \in Pcs /\ [pc |-> "addFailed"] \in Pcs
      /\ [pc |-> "done"] \in Pcs
  OBVIOUS
<1>c. request \in [Jobs -> Pcs]
  BY DEF TypeOK
<1>d. request[j].pc \in {"found", "checked", "inserted"} => request[j] \in Copied
  BY <1>c DEF Copied
<1>. HIDE DEF Pcs
<1>e. ASSUME request' \in [Jobs -> Pcs], UNCHANGED <<tables, queue, tasks, toggle,
             worker, handler, cron>>
      PROVE  TypeOK' /\ OwnCourses'
  <2>1. SameJobs
    BY <1>e DEF SameJobs, JobOf
  <2>2. OwnWorker'
    BY <1>e, <2>1, OwnWorkerStays
  <2>. QED
    BY <1>e, <2>2 DEF TypeOK, Pcs, OwnRows, OwnHandlers, OwnCron
<1>f. ASSUME request' \in [Jobs -> Pcs], queue' \in Seq(Entry), SameJobs,
             UNCHANGED <<tables, tasks, toggle, worker, handler, cron>>
      PROVE  TypeOK' /\ OwnCourses'
  <2>2. OwnWorker'
    BY <1>f, OwnWorkerStays
  <2>3. \A i \in DOMAIN queue : i \in DOMAIN queue'
    BY <1>f DEF SameJobs
  <2>4. worker' \in {Idle}
       \union [pc : {"load"}, entry : DOMAIN queue']
       \union [pc : {"save", "course", "refuse", "post", "posted"},
               entry : DOMAIN queue', row : Row, base : SUBSET Nat]
    BY <1>f, <2>3 DEF TypeOK
  <2>. QED
    BY <1>f, <2>2, <2>3, <2>4 DEF TypeOK, Pcs, OwnRows, OwnHandlers, OwnCron
<1>1. CASE RequestFind(j)
  <2>1. courses[C] \in CourseRow
    BY <1>a DEF TypeOK
  <2>2. [pc |-> "found", course |-> courses[C]] \in Pcs
    BY <2>1 DEF Copied, Pcs
  <2>. QED
    BY <1>1, <1>c, <1>e, <2>2 DEF RequestFind
<1>2. CASE RequestCheckActive(j)
  <2>1. [request[j] EXCEPT !.pc = "checked"] \in Pcs
    BY <1>2, <1>d DEF RequestCheckActive, Copied, Pcs
  <2>. QED
    BY <1>2, <1>c, <1>e, <2>1 DEF RequestCheckActive
<1>3. CASE RequestReject(j) \/ RequestSaveCourseFails(j) \/ RequestSaveFailureFails(j)
  BY <1>3, <1>b, <1>c, <1>e
  DEF RequestReject, RequestSaveCourseFails, RequestSaveFailureFails
<1>4. CASE RequestInsert(j)
  <2>1. [request[j] EXCEPT !.pc = "inserted"] \in Pcs
    BY <1>4, <1>d DEF RequestInsert, Copied, Pcs
  <2>2. request' \in [Jobs -> Pcs]
    BY <1>4, <1>c, <2>1 DEF RequestInsert
  <2>3. NewJob(C) \in Row /\ NewJob(C).course \in Own(j)
    BY <1>a, NewJobType DEF NewJob, Own
  <2>4. rows' = [rows EXCEPT ![j] = NewJob(C)]
    BY <1>4 DEF RequestInsert
  <2>5. rows' \in [Jobs -> MaybeRow] /\ OwnRows'
    BY <2>3, <2>4 DEF TypeOK, MaybeRow, OwnRows, Own
  <2>6. SameJobs
    BY <1>4 DEF RequestInsert, SameJobs, JobOf
  <2>7. OwnWorker'
    BY <1>4, <2>6, OwnWorkerStays DEF RequestInsert
  <2>. QED
    BY <1>4, <2>2, <2>5, <2>7 DEF RequestInsert, TypeOK, Pcs, OwnHandlers, OwnCron
<1>5. CASE RequestSaveCourse(j)
  <2>1. request[j].course \in CourseRow
    BY <1>5, <1>d DEF RequestSaveCourse, Copied
  <2>2. IncrementModificationCount(request[j].course) \in CourseRow
    BY <2>1 DEF IncrementModificationCount, CourseRow
  <2>3. courses' \in [Courses -> CourseRow] /\ gone' \in SUBSET Courses
    BY <1>5, <1>a, <2>1, <2>2, SaveCourseType DEF RequestSaveCourse
  <2>4. request' \in [Jobs -> Pcs]
    BY <1>5, <1>b, <1>c DEF RequestSaveCourse
  <2>5. OwnWorker'
    BY <1>5, OwnWorkerStays DEF RequestSaveCourse, SameJobs, JobOf
  <2>. QED
    BY <1>5, <2>3, <2>4, <2>5
    DEF RequestSaveCourse, TypeOK, Pcs, OwnRows, OwnHandlers, OwnCron
<1>6. CASE RequestEnqueue(j) \/ RequestEnqueueFails(j)
  <2>1. request' \in [Jobs -> Pcs]
    BY <1>6, <1>b, <1>c DEF RequestEnqueue, RequestEnqueueFails
  <2>2. CASE AddJob(j, C)
    <3>1. queue' \in Seq(Entry) /\ SameJobs
      BY <1>a, <2>2, AddJobType DEF SameJobs, JobOf
    <3>. QED
      BY <1>6, <1>f, <2>1, <3>1 DEF RequestEnqueue, RequestEnqueueFails
  <2>3. CASE UNCHANGED queue
    BY <1>6, <1>e, <2>1, <2>3 DEF RequestEnqueue, RequestEnqueueFails
  <2>. QED
    BY <1>6, <2>2, <2>3 DEF RequestEnqueue, RequestEnqueueFails, AddRejected
<1>7. CASE RequestSaveFailure(j)
  <2>. DEFINE n == NewJob(C)
              e == MarkFailed(n, "QUEUE_ERROR")
  <2>1. n \in Row /\ n.course \in Own(j)
    BY <1>a, NewJobType DEF NewJob, Own
  <2>2. "QUEUE_ERROR" \in ErrorCodes
    BY DEF ErrorCodes
  <2>3. e \in Row /\ e.course \in Own(j)
    BY <2>1, <2>2, MethodsKeepTheCourse
  <2>4. SaveRow(j, n, e)
    BY <1>7 DEF RequestSaveFailure
  <2>5. Exists(j)
    BY <1>7 DEF RequestSaveFailure
  <2>. HIDE DEF n, e
  <2>6. rows' \in [Jobs -> MaybeRow] /\ OwnRows'
    BY <2>1, <2>3, <2>4, <2>5, SaveOwn DEF TypeOK
  <2>7. request' \in [Jobs -> Pcs]
    BY <1>7, <1>b, <1>c DEF RequestSaveFailure
  <2>8. OwnWorker'
    BY <1>7, OwnWorkerStays DEF RequestSaveFailure, SameJobs, JobOf
  <2>. QED
    BY <1>7, <2>6, <2>7, <2>8 DEF RequestSaveFailure, TypeOK, Pcs, OwnHandlers, OwnCron
<1>. QED
  BY <1>1, <1>2, <1>3, <1>4, <1>5, <1>6, <1>7 DEF RequestStep

LEMMA ToggleType ==
  ASSUME TypeOK, OwnCourses, NEW g \in Toggles, ToggleStep(g)
  PROVE  TypeOK' /\ OwnCourses'
<1>. USE DEF OwnCourses, tables
<1>. DEFINE Pcs == [pc : {"new", "done"}] \union
              [pc : {"save"}, course : Courses, row : CourseRow, value : BOOLEAN]
<1>a. toggle \in [Toggles -> Pcs] /\ [pc |-> "done"] \in Pcs
  BY DEF TypeOK
<1>b. toggle[g].pc = "save" =>
        toggle[g] \in [pc : {"save"}, course : Courses, row : CourseRow, value : BOOLEAN]
  BY <1>a
<1>c. UNCHANGED <<rows, aged, edits, days, chats, queue, tasks, request, worker,
                  handler, cron>>
  BY DEF ToggleStep, ToggleLoad, ToggleSave, ToggleFails
<1>d. OwnWorker'
  BY <1>c, OwnWorkerStays DEF SameJobs, JobOf
<1>. HIDE DEF Pcs
<1>1. ASSUME NEW c \in Courses, NEW value \in BOOLEAN, ToggleLoad(g, c, value)
      PROVE  toggle' \in [Toggles -> Pcs] /\ UNCHANGED <<courses, gone>>
  <2>1. courses[c] \in CourseRow
    BY DEF TypeOK
  <2>2. [pc |-> "save", course |-> c, row |-> courses[c], value |-> value] \in Pcs
    BY <2>1 DEF Pcs
  <2>. QED
    BY <1>1, <1>a, <2>2 DEF ToggleLoad
<1>2. ASSUME ToggleSave(g)
      PROVE  /\ toggle' \in [Toggles -> Pcs]
             /\ courses' \in [Courses -> CourseRow] /\ gone' \in SUBSET Courses
  <2>1. /\ toggle[g].course \in Courses /\ toggle[g].row \in CourseRow
        /\ toggle[g].value \in BOOLEAN
    BY <1>2, <1>b DEF ToggleSave
  <2>2. [toggle[g].row EXCEPT !.completed = toggle[g].value] \in CourseRow
    BY <2>1 DEF CourseRow
  <2>3. courses' \in [Courses -> CourseRow] /\ gone' \in SUBSET Courses
    BY <1>2, <2>1, <2>2, SaveCourseType DEF ToggleSave
  <2>. QED
    BY <1>2, <1>a, <2>3 DEF ToggleSave
<1>3. ASSUME ToggleFails(g)
      PROVE  toggle' \in [Toggles -> Pcs] /\ UNCHANGED <<courses, gone>>
  BY <1>3, <1>a DEF ToggleFails
<1>4. /\ toggle' \in [Toggles -> Pcs]
      /\ courses' \in [Courses -> CourseRow] /\ gone' \in SUBSET Courses
  BY <1>1, <1>2, <1>3 DEF ToggleStep, TypeOK
<1>. QED
  BY <1>c, <1>d, <1>4 DEF TypeOK, Pcs, OwnRows, OwnHandlers, OwnCron

\* What the worker does with its own row and entry.
LEMMA WorkerSaves ==
  ASSUME TypeOK, OwnCourses, WorkerSaveProcessing \/ WorkerSaveRefused
  PROVE  rows' \in [Jobs -> MaybeRow] /\ OwnRows'
<1>. DEFINE j == JobOf(worker.entry)
<1>1. worker \in WorkerAtWork
  BY WorkerFields DEF WorkerSaveProcessing, WorkerSaveRefused
<1>2. j \in Jobs /\ worker.row \in Row /\ worker.row.course \in Own(j)
  BY <1>1, EntryJob DEF OwnCourses, OwnWorker, WorkerAtWork
<1>3. "NO_CONTEXT" \in ErrorCodes
  BY DEF ErrorCodes
<1>. HIDE DEF j
<1>4. CASE WorkerSaveProcessing
  <2>. DEFINE e == IncrementAttempt(MarkProcessing(worker.row))
  <2>1. e \in Row /\ e.course \in Own(j)
    BY <1>2, MethodsKeepTheCourse
  <2>2. SaveRow(j, worker.row, e) /\ Exists(j)
    BY <1>4 DEF WorkerSaveProcessing, j
  <2>. HIDE DEF e
  <2>. QED
    BY <1>2, <2>1, <2>2, SaveOwn DEF TypeOK, OwnCourses
<1>5. CASE WorkerSaveRefused
  <2>. DEFINE e == MarkFailed(worker.row, "NO_CONTEXT")
  <2>1. e \in Row /\ e.course \in Own(j)
    BY <1>2, <1>3, MethodsKeepTheCourse
  <2>2. SaveRow(j, worker.row, e) /\ Exists(j)
    BY <1>5 DEF WorkerSaveRefused, j
  <2>. HIDE DEF e
  <2>. QED
    BY <1>2, <2>1, <2>2, SaveOwn DEF TypeOK, OwnCourses
<1>. QED
  BY <1>4, <1>5

LEMMA WorkerQueueType ==
  ASSUME TypeOK, WorkerStep
  PROVE  /\ queue' \in Seq(Entry) /\ DOMAIN queue' = DOMAIN queue
         /\ \A k \in DOMAIN queue : /\ queue'[k].data = queue[k].data
                                    /\ JobOf(k)' = JobOf(k)
<1>1. CASE UNCHANGED queue
  BY <1>1 DEF TypeOK, JobOf
<1>2. ASSUME NEW i \in DOMAIN queue, WorkerTake(i)
      PROVE  /\ queue' \in Seq(Entry) /\ DOMAIN queue' = DOMAIN queue
             /\ \A k \in DOMAIN queue : /\ queue'[k].data = queue[k].data
                                        /\ JobOf(k)' = JobOf(k)
  BY <1>2, SetJobEntryType DEF WorkerTake, JobOf
<1>3. CASE WorkerDrop \/ WorkerSaveRefused \/ WorkerAck
  <2>1. worker.entry \in DOMAIN queue /\ SetEntry(worker.entry, "completed")
    BY <1>3, WorkerFields DEF WorkerDrop, WorkerSaveRefused, WorkerAck
  <2>. QED
    BY <2>1, SetJobEntryType DEF JobOf
<1>4. CASE WorkerThrow
  <2>. DEFINE i == worker.entry
  <2>1. i \in DOMAIN queue /\ queue' = [queue EXCEPT ![i] = TriedAgain(queue[i])]
    BY <1>4, WorkerFields DEF WorkerThrow, WorkerCanThrow
  <2>2. queue \in Seq(EntryOf(Payload))
    BY DEF TypeOK, Entry, Payload
  <2>. HIDE DEF i
  <2>3. queue' \in Seq(EntryOf(Payload)) /\ DOMAIN queue' = DOMAIN queue
    BY <2>1, <2>2, ThrowType
  <2>4. TriedAgain(queue[i]).data = queue[i].data
    <3>1. queue[i] \in EntryOf(Payload)
      BY <2>1, <2>2
    <3>. QED
      BY <3>1, EntryChanges
  <2>5. \A k \in DOMAIN queue : queue'[k].data = queue[k].data
    BY <2>1, <2>2, <2>4
  <2>. QED
    BY <2>3, <2>5 DEF JobOf, Entry, Payload
<1>. QED
  BY <1>1, <1>2, <1>3, <1>4
  DEF WorkerStep, WorkerLoad, WorkerSaveProcessing, WorkerFindCourse, WorkerRefuse,
      WorkerPost, tables

LEMMA WorkerType ==
  ASSUME TypeOK, OwnCourses, WorkerStep
  PROVE  TypeOK' /\ OwnCourses'
<1>1. /\ queue' \in Seq(Entry) /\ DOMAIN queue' = DOMAIN queue
      /\ \A k \in DOMAIN queue : JobOf(k)' = JobOf(k)
  BY WorkerQueueType
<1>2. rows' \in [Jobs -> MaybeRow] /\ OwnRows'
  <2>1. CASE UNCHANGED rows
    BY <2>1 DEF TypeOK, OwnCourses, OwnRows
  <2>. QED
    BY <2>1, WorkerSaves
    DEF WorkerStep, WorkerTake, WorkerLoad, WorkerDrop, WorkerFindCourse,
        WorkerRefuse, WorkerPost, WorkerAck, WorkerThrow, tables
<1>3. UNCHANGED <<gone, courses, edits, days, chats, request, toggle, handler, cron>>
  BY DEF WorkerStep, WorkerTake, WorkerLoad, WorkerDrop, WorkerSaveProcessing,
         WorkerFindCourse, WorkerRefuse, WorkerSaveRefused, WorkerPost, WorkerAck,
         WorkerThrow, tables
<1>4. aged' \in SUBSET Jobs
  BY DEF TypeOK, WorkerStep, WorkerTake, WorkerLoad, WorkerDrop, WorkerSaveProcessing,
         WorkerFindCourse, WorkerRefuse, WorkerSaveRefused, WorkerPost, WorkerAck,
         WorkerThrow, tables
<1>5. tasks' \in SUBSET Task /\ \A t \in tasks' : t.entry \in DOMAIN queue
  <2>1. CASE UNCHANGED tasks
    BY <2>1 DEF TypeOK
  <2>2. CASE WorkerPost
    <3>. DEFINE i == worker.entry
    <3>1. worker \in WorkerAtWork
      BY <2>2, WorkerFields DEF WorkerPost
    <3>2. i \in DOMAIN queue /\ worker.base \in SUBSET Nat
      BY <3>1 DEF WorkerAtWork
    <3>3. i \in Nat \ {0} /\ queue[i].made + queue[i].stalls \in Nat
      BY <3>2, EntryJob DEF Entry, EntryOf
    <3>4. [entry |-> i, run |-> queue[i].made + queue[i].stalls,
           base |-> worker.base] \in Task
      BY <3>2, <3>3 DEF Task
    <3>. QED
      BY <2>2, <3>2, <3>4 DEF WorkerPost, TypeOK
  <2>. QED
    BY <2>1, <2>2
    DEF WorkerStep, WorkerTake, WorkerLoad, WorkerDrop, WorkerSaveProcessing,
        WorkerFindCourse, WorkerRefuse, WorkerSaveRefused, WorkerAck, WorkerThrow
<1>6. /\ worker' \in {Idle} \union [pc : {"load"}, entry : DOMAIN queue]
                     \union WorkerAtWork
      /\ worker'.pc \notin {"idle", "load"} =>
           worker'.row.course \in Own(JobOf(worker'.entry))
  <2>1. CASE worker' = Idle
    BY <2>1 DEF Idle
  <2>2. ASSUME NEW i \in DOMAIN queue, WorkerTake(i)
        PROVE  worker' \in [pc : {"load"}, entry : DOMAIN queue] /\ worker'.pc = "load"
    BY <2>2 DEF WorkerTake
  <2>3. ASSUME WorkerLoad
        PROVE  /\ worker' \in WorkerAtWork
               /\ worker'.row.course \in Own(JobOf(worker'.entry))
    <3>. DEFINE j == JobOf(worker.entry)
    <3>1. worker.entry \in DOMAIN queue /\ j \in Jobs
      BY <2>3, WorkerFields, EntryJob DEF WorkerLoad
    <3>2. rows[j] \in Row /\ rows[j].course \in Own(j)
      BY <2>3, <3>1, ExistingRow DEF WorkerLoad, Exists, TypeOK, OwnCourses, OwnRows
    <3>. HIDE DEF j
    <3>3. worker' = [pc |-> "save", entry |-> worker.entry, row |-> rows[j], base |-> {}]
      BY <2>3 DEF WorkerLoad, j
    <3>. QED
      BY <3>1, <3>2, <3>3 DEF WorkerAtWork, j
  <2>4. ASSUME WorkerSaveProcessing
        PROVE  /\ worker' \in WorkerAtWork
               /\ worker'.row.course \in Own(JobOf(worker'.entry))
    <3>. DEFINE e == IncrementAttempt(MarkProcessing(worker.row))
    <3>1. worker \in WorkerAtWork
      BY <2>4, WorkerFields DEF WorkerSaveProcessing
    <3>2. worker.row \in Row /\ worker.row.course \in Own(JobOf(worker.entry))
      BY <2>4, <3>1 DEF WorkerAtWork, OwnCourses, OwnWorker, WorkerSaveProcessing
    <3>3. e \in Row /\ e.course = worker.row.course
      BY <3>2, MethodsKeepTheCourse
    <3>4. worker' = [worker EXCEPT !.pc = "course", !.row = e]
      BY <2>4 DEF WorkerSaveProcessing
    <3>. HIDE DEF e
    <3>. QED
      BY <3>1, <3>2, <3>3, <3>4 DEF WorkerAtWork
  <2>5. ASSUME WorkerFindCourse \/ WorkerRefuse \/ WorkerPost
        PROVE  /\ worker' \in WorkerAtWork
               /\ worker'.row.course \in Own(JobOf(worker'.entry))
    <3>1. worker \in WorkerAtWork /\ worker.pc \notin {"idle", "load"}
      BY <2>5, WorkerFields DEF WorkerFindCourse, WorkerRefuse, WorkerPost
    <3>2. \A c \in Courses : days[c] \in SUBSET Nat
      BY DEF TypeOK
    <3>3. \A c \in Found(queue[worker.entry].data.course) : days[c] \in SUBSET Nat
      <4>1. worker.entry \in DOMAIN queue
        BY <3>1 DEF WorkerAtWork
      <4>2. queue[worker.entry].data.course \in Courses \union {NoCourse}
        BY <4>1, EntryJob DEF Entry, EntryOf
      <4>. QED
        BY <3>2, <4>2 DEF Found
    <3>4. worker' \in WorkerAtWork
      BY <2>5, <3>1, <3>3 DEF WorkerFindCourse, WorkerRefuse, WorkerPost, WorkerAtWork
    <3>5. worker'.row = worker.row /\ worker'.entry = worker.entry
      BY <2>5, <3>1 DEF WorkerFindCourse, WorkerRefuse, WorkerPost, WorkerAtWork
    <3>. QED
      BY <3>1, <3>4, <3>5 DEF OwnCourses, OwnWorker
  <2>. QED
    BY <2>1, <2>2, <2>3, <2>4, <2>5
    DEF WorkerStep, WorkerDrop, WorkerSaveRefused, WorkerAck, WorkerThrow
<1>7. OwnWorker'
  <2>1. worker'.pc \notin {"idle", "load"} => worker' \in WorkerAtWork
    BY <1>6 DEF Idle
  <2>2. worker'.pc \notin {"idle", "load"} =>
          /\ worker'.entry \in DOMAIN queue
          /\ worker'.row.course \in Own(JobOf(worker'.entry))
    BY <1>6, <2>1 DEF WorkerAtWork
  <2>3. \A k \in DOMAIN queue : queue'[k].data.job = queue[k].data.job
    BY <1>1 DEF JobOf
  <2>. QED
    BY <2>2, <2>3 DEF OwnWorker, Own, JobOf
<1>8. TypeOK'
  BY <1>1, <1>2, <1>3, <1>4, <1>5, <1>6 DEF TypeOK, WorkerAtWork
<1>. QED
  BY <1>2, <1>3, <1>7, <1>8 DEF OwnCourses, OwnHandlers, OwnCron

\* A callback's save is one of the four below, of the row it loaded.
LEMMA HandlerSaves ==
  ASSUME TypeOK, OwnCourses, NEW h \in Handlers,
         CommitEdit(h) \/ CommitAnswer(h) \/ SaveRetry(h) \/ SaveFailure(h)
  PROVE  rows' \in [Jobs -> MaybeRow] /\ OwnRows'
<1>. DEFINE j == handler[h].job
            loaded == handler[h].row
<1>1. handler[h].pc # "idle"
  BY DEF CommitEdit, CommitAnswer, SaveRetry, SaveFailure
<1>2. j \in Jobs /\ loaded \in Row /\ loaded.course \in Own(j)
  BY <1>1, HandlerFields DEF OwnCourses, OwnHandlers
<1>3. /\ "EDITED" \in Intents /\ "ANSWERED" \in Intents
      /\ "LLM_ERROR" \in ErrorCodes
  BY DEF Intents, ErrorCodes
<1>4. \E e \in Row : e.course = loaded.course /\ SaveRow(j, loaded, e) /\ Exists(j)
  <2>1. /\ \A i \in Intents : /\ MarkSuccessWithIntent(loaded, i) \in Row
                              /\ MarkSuccessWithIntent(loaded, i).course = loaded.course
        /\ ResetForRetry(loaded) \in Row
        /\ ResetForRetry(loaded).course = loaded.course
        /\ MarkFailed(loaded, "LLM_ERROR") \in Row
        /\ MarkFailed(loaded, "LLM_ERROR").course = loaded.course
    BY <1>2, <1>3, MethodsKeepTheCourse
  <2>. QED
    BY <1>3, <2>1 DEF CommitEdit, CommitAnswer, SaveRetry, SaveFailure
<1>. HIDE DEF j, loaded
<1>5. PICK e \in Row : e.course = loaded.course /\ SaveRow(j, loaded, e) /\ Exists(j)
  BY <1>4
<1>. QED
  BY <1>2, <1>5, SaveOwn DEF TypeOK, OwnCourses

LEMMA HandlerQueueType ==
  ASSUME TypeOK, OwnCourses, NEW h \in Handlers, HandlerStep(h)
  PROVE  queue' \in Seq(Entry) /\ SameJobs
<1>1. CASE UNCHANGED queue
  BY <1>1 DEF TypeOK, SameJobs, JobOf
<1>2. CASE handler[h].pc = "enqueue" /\ AddJob(handler[h].job, handler[h].row.course)
  <2>1. handler[h].job \in Jobs /\ handler[h].row.course \in Own(handler[h].job)
    BY <1>2, HandlerFields DEF OwnCourses, OwnHandlers
  <2>2. handler[h].row.course \in Courses \union {NoCourse}
    BY <2>1, CourseNumbers DEF Own
  <2>. QED
    BY <1>2, <2>1, <2>2, AddJobType DEF SameJobs, JobOf
<1>. QED
  BY <1>1, <1>2
  DEF HandlerStep, DeleteDays, CommitEdit, CommitAnswer, SaveRetry, ReEnqueue,
      SaveFailure, HandlerThrow, AddRejected

\* What remains of the callback keeps the row it loaded.
LEMMA HandlerStateType ==
  ASSUME TypeOK, OwnCourses, NEW h \in Handlers, HandlerStep(h)
  PROVE  /\ handler' \in [Handlers -> {Idle} \union Begun \union Committing]
         /\ OwnHandlers'
<1>. DEFINE States == {Idle} \union Begun \union Committing
<1>1. handler[h].pc # "idle"
  BY DEF HandlerStep, DeleteDays, CommitEdit, CommitAnswer, SaveRetry, ReEnqueue,
         SaveFailure, HandlerThrow
<1>2. handler \in [Handlers -> States]
  BY DEF TypeOK, Begun, Committing
<1>3. /\ handler[h].job \in Jobs /\ handler[h].row \in Row
      /\ handler[h].row.course \in Own(handler[h].job)
  BY <1>1, HandlerFields DEF OwnCourses, OwnHandlers
<1>4. \E s \in States : /\ handler' = [handler EXCEPT ![h] = s]
                        /\ s.pc # "idle" => /\ s.row = handler[h].row
                                            /\ s.job = handler[h].job
  <2>1. CASE handler' = [handler EXCEPT ![h] = Idle]
    <3>1. Idle \in States /\ Idle.pc = "idle"
      BY DEF Idle
    <3>. QED
      BY <2>1, <3>1
  <2>2. CASE DeleteDays(h)
    <3>. DEFINE s == [pc |-> "commit", job |-> handler[h].job, row |-> handler[h].row,
                      base |-> handler[h].base, seen |-> days[handler[h].row.course]]
    <3>1. handler[h].row.course \in Courses
      BY <2>2 DEF DeleteDays, HasCourse
    <3>2. s \in Committing
      BY <1>1, <1>3, <3>1, HandlerFields DEF Committing, TypeOK
    <3>3. s.row = handler[h].row /\ s.job = handler[h].job
      OBVIOUS
    <3>4. handler' = [handler EXCEPT ![h] = s]
      BY <2>2 DEF DeleteDays
    <3>. HIDE DEF s
    <3>. QED
      BY <3>2, <3>3, <3>4
  <2>3. CASE SaveRetry(h)
    <3>1. handler[h] \in Begun
      BY <1>1, <2>3, HandlerFields DEF SaveRetry
    <3>2. /\ [handler[h] EXCEPT !.pc = "enqueue"] \in Begun
          /\ [handler[h] EXCEPT !.pc = "enqueue"].row = handler[h].row
          /\ [handler[h] EXCEPT !.pc = "enqueue"].job = handler[h].job
      BY <3>1 DEF Begun
    <3>3. handler' = [handler EXCEPT ![h] = [handler[h] EXCEPT !.pc = "enqueue"]]
      BY <2>3 DEF SaveRetry
    <3>. QED
      BY <3>2, <3>3
  <2>. QED
    BY <2>1, <2>2, <2>3
    DEF HandlerStep, CommitEdit, CommitAnswer, ReEnqueue, SaveFailure, HandlerThrow
<1>. HIDE DEF States
<1>5. PICK s \in States : /\ handler' = [handler EXCEPT ![h] = s]
                          /\ s.pc # "idle" => /\ s.row = handler[h].row
                                              /\ s.job = handler[h].job
  BY <1>4
<1>6. handler' \in [Handlers -> States]
  BY <1>2, <1>5
<1>7. OwnHandlers'
  BY <1>2, <1>3, <1>5 DEF OwnCourses, OwnHandlers, Own
<1>. QED
  BY <1>6, <1>7 DEF States

LEMMA HandlerType ==
  ASSUME TypeOK, OwnCourses, NEW h \in Handlers, HandlerStep(h)
  PROVE  TypeOK' /\ OwnCourses'
<1>1. queue' \in Seq(Entry) /\ SameJobs
  BY HandlerQueueType
<1>2. handler' \in [Handlers -> {Idle} \union Begun \union Committing] /\ OwnHandlers'
  BY HandlerStateType
<1>3. rows' \in [Jobs -> MaybeRow] /\ OwnRows'
  <2>1. CASE UNCHANGED rows
    BY <2>1 DEF TypeOK, OwnCourses, OwnRows
  <2>. QED
    BY <2>1, HandlerSaves
    DEF HandlerStep, DeleteDays, ReEnqueue, HandlerThrow, tables
<1>4. UNCHANGED <<gone, tasks, request, toggle, worker, cron>>
  BY DEF HandlerStep, DeleteDays, CommitEdit, CommitAnswer, SaveRetry, ReEnqueue,
         SaveFailure, HandlerThrow, tables
<1>5. aged' \in SUBSET Jobs
  BY DEF TypeOK, HandlerStep, DeleteDays, CommitEdit, CommitAnswer, SaveRetry,
         ReEnqueue, SaveFailure, HandlerThrow, tables
<1>6. /\ courses' \in [Courses -> CourseRow] /\ edits' \in Seq(Jobs)
      /\ days' \in [Courses -> SUBSET Nat] /\ chats' \in [Jobs -> Nat]
  <2>1. CASE UNCHANGED <<courses, edits, days, chats>>
    BY <2>1 DEF TypeOK
  <2>2. CASE CommitAnswer(h)
    BY <2>2, HandlerFields DEF CommitAnswer, TypeOK
  <2>3. CASE CommitEdit(h)
    <3>. DEFINE c == handler[h].row.course
                n == Len(edits) + 1
    <3>1. /\ handler[h].job \in Jobs /\ c \in Courses /\ n \in Nat
          /\ handler[h] \in Committing
      BY <2>3, HandlerFields DEF CommitEdit, HasCourse, TypeOK
    <3>2. days[c] \in SUBSET Nat /\ courses[c] \in CourseRow
      BY <3>1 DEF TypeOK
    <3>3. (days[c] \ handler[h].seen) \union {n} \in SUBSET Nat
      BY <3>1, <3>2
    <3>4. [courses[c] EXCEPT !.meta = n] \in CourseRow
      BY <3>1, <3>2 DEF CourseRow
    <3>5. /\ edits' = Append(edits, handler[h].job)
          /\ days' = [days EXCEPT ![c] = (days[c] \ handler[h].seen) \union {n}]
          /\ courses' = [courses EXCEPT ![c] = [courses[c] EXCEPT !.meta = n]]
          /\ chats' = [chats EXCEPT ![handler[h].job] = chats[handler[h].job] + 1]
      BY <2>3 DEF CommitEdit
    <3>. HIDE DEF c, n
    <3>. QED
      BY <3>1, <3>3, <3>4, <3>5 DEF TypeOK
  <2>. QED
    BY <2>1, <2>2, <2>3
    DEF HandlerStep, DeleteDays, SaveRetry, ReEnqueue, SaveFailure, HandlerThrow, tables
<1>7. OwnWorker'
  BY <1>1, <1>4, OwnWorkerStays DEF OwnCourses
<1>8. \A i \in DOMAIN queue : i \in DOMAIN queue'
  BY <1>1 DEF SameJobs
<1>9. worker' \in {Idle} \union [pc : {"load"}, entry : DOMAIN queue'] \union
       [pc : {"save", "course", "refuse", "post", "posted"},
        entry : DOMAIN queue', row : Row, base : SUBSET Nat]
  BY <1>4, <1>8 DEF TypeOK
<1>10. TypeOK'
  BY <1>1, <1>2, <1>3, <1>4, <1>5, <1>6, <1>8, <1>9 DEF TypeOK, Begun, Committing
<1>. QED
  BY <1>2, <1>3, <1>4, <1>7, <1>10 DEF OwnCourses, OwnCron

LEMMA PythonType ==
  ASSUME TypeOK, OwnCourses, PythonStep
  PROVE  TypeOK' /\ OwnCourses'
<1>1. UNCHANGED <<tables, queue, request, toggle, worker, cron>>
  BY DEF PythonStep, CallbackLost, CallbackIgnored, SuccessBegin, FailureBegin,
         CallbackBegin
<1>2. tasks' \subseteq tasks
  BY DEF PythonStep, CallbackLost, CallbackIgnored, SuccessBegin, FailureBegin,
         CallbackBegin, Receive
<1>3. /\ handler' \in [Handlers -> {Idle} \union Begun \union Committing]
      /\ OwnHandlers'
  <2>1. CASE UNCHANGED handler
    BY <2>1 DEF TypeOK, Begun, Committing, OwnCourses, OwnHandlers
  <2>2. ASSUME NEW t \in tasks, NEW h \in Handlers,
               NEW pc \in {"edit", "answer", "retry", "fail"}, CallbackBegin(h, t, pc)
        PROVE  /\ handler' \in [Handlers -> {Idle} \union Begun \union Committing]
               /\ OwnHandlers'
    <3>. DEFINE j == JobOf(t.entry)
                s == [pc |-> pc, job |-> j, row |-> rows[j], base |-> t.base]
    <3>1. j \in Jobs /\ t.base \in SUBSET Nat
      BY EntryJob DEF TypeOK, Task
    <3>2. rows[j].status # "ABSENT"
      BY <2>2 DEF CallbackBegin, Active
    <3>3. rows[j] \in Row /\ rows[j].course \in Own(j)
      BY <3>1, <3>2, ExistingRow DEF TypeOK, OwnCourses, OwnRows
    <3>4. s \in Begun /\ s.row = rows[j] /\ s.job = j
      BY <3>1, <3>3 DEF Begun
    <3>5. handler' = [handler EXCEPT ![h] = s]
      BY <2>2 DEF CallbackBegin
    <3>. HIDE DEF s, j
    <3>6. handler \in [Handlers -> {Idle} \union Begun \union Committing]
      BY DEF TypeOK, Begun, Committing
    <3>. QED
      BY <3>3, <3>4, <3>5, <3>6 DEF OwnCourses, OwnHandlers, Own
  <2>. QED
    BY <2>1, <2>2
    DEF PythonStep, CallbackLost, CallbackIgnored, SuccessBegin, FailureBegin
<1>4. OwnWorker'
  BY <1>1, OwnWorkerStays DEF OwnCourses, SameJobs, JobOf
<1>. QED
  BY <1>1, <1>2, <1>3, <1>4
  DEF TypeOK, tables, Begun, Committing, OwnCourses, OwnRows, OwnCron

LEMMA CronType ==
  ASSUME TypeOK, OwnCourses, Cleanup
  PROVE  TypeOK' /\ OwnCourses'
<1>0. UNCHANGED <<gone, aged, courses, edits, days, chats, queue, tasks, request,
                  toggle, worker, handler>>
  BY DEF Cleanup
<1>1. rows' \in [Jobs -> MaybeRow] /\ cron' \in CronStates
  BY CronStepType DEF Cleanup, TypeOK, CronStates
<1>2. OwnRows' /\ OwnCron'
  <2>1. ASSUME CronSaveTimeout PROVE OwnRows' /\ OwnCron'
    <3>1. cron \in [pc : {"save"}, todo : SUBSET Jobs, job : Jobs, row : Row]
      BY <2>1 DEF CronSaveTimeout, TypeOK, Idle
    <3>2. "TIMEOUT" \in ErrorCodes
      BY DEF ErrorCodes
    <3>3. cron.job \in Jobs /\ cron.row \in Row /\ cron.row.course \in Own(cron.job)
      BY <3>1 DEF OwnCourses, OwnCron
    <3>4. /\ MarkFailed(cron.row, "TIMEOUT") \in Row
          /\ MarkFailed(cron.row, "TIMEOUT").course \in Own(cron.job)
      BY <3>2, <3>3, MethodsKeepTheCourse
    <3>5. OwnRows'
      BY <2>1, <3>3, <3>4, SaveOwn DEF CronSaveTimeout, TypeOK, OwnCourses
    <3>. QED
      BY <2>1, <3>5 DEF CronSaveTimeout, OwnCron
  <2>2. ASSUME NEW j \in Jobs, CronReread(j) PROVE OwnRows' /\ OwnCron'
    BY <2>2 DEF CronReread, OwnCourses, OwnRows, OwnCron, Own
  <2>3. ASSUME NEW j \in Jobs, CronSkip(j) PROVE OwnRows' /\ OwnCron'
    <3>1. cron \in [pc : {"next"}, todo : SUBSET Jobs]
      BY <2>3 DEF CronSkip, TypeOK, Idle
    <3>2. cron'.pc = "next" /\ UNCHANGED rows
      BY <2>3, <3>1 DEF CronSkip
    <3>. QED
      BY <3>2 DEF OwnCourses, OwnRows, OwnCron
  <2>4. ASSUME CronScan \/ CronEnd PROVE OwnRows' /\ OwnCron'
    BY <2>4 DEF CronScan, CronEnd, Idle, OwnCourses, OwnRows, OwnCron
  <2>. QED
    BY <2>1, <2>2, <2>3, <2>4 DEF Cleanup, CronStep
<1>3. OwnWorker'
  BY <1>0, OwnWorkerStays DEF OwnCourses, SameJobs, JobOf
<1>. QED
  BY <1>0, <1>1, <1>2, <1>3 DEF TypeOK, CronStates, OwnCourses, OwnHandlers

LEMMA CrashType ==
  ASSUME TypeOK, OwnCourses, Crash
  PROVE  TypeOK' /\ OwnCourses'
<1>1. queue \in Seq(EntryOf(Payload))
  BY DEF TypeOK, Entry, Payload
<1>2. queue' \in Seq(EntryOf(Payload)) /\ DOMAIN queue' = DOMAIN queue
  BY <1>1, StallType DEF Crash
<1>3. request' \in [Jobs -> Copied \union [pc : {"new", "saved", "addFailed", "done"}]]
  BY DEF TypeOK, Crash
<1>4. /\ [pc |-> "done"] \in [pc : {"new", "done"}]
      /\ toggle' \in [Toggles -> [pc : {"new", "done"}] \union
           [pc : {"save"}, course : Courses, row : CourseRow, value : BOOLEAN]]
  BY DEF TypeOK, Crash
<1>5. worker' = Idle /\ cron' = Idle /\ handler' = [h \in Handlers |-> Idle]
  BY DEF Crash
<1>6. OwnCourses'
  BY <1>5 DEF Crash, tables, OwnCourses, OwnRows, OwnWorker, OwnHandlers, OwnCron, Idle
<1>. QED
  BY <1>2, <1>3, <1>4, <1>5, <1>6 DEF Crash, TypeOK, tables, Entry, Payload

LEMMA CourseGoneType ==
  ASSUME TypeOK, OwnCourses, NEW c \in Courses, CourseGone(c)
  PROVE  TypeOK' /\ OwnCourses'
<1>0. UNCHANGED <<aged, courses, edits, chats, queue, tasks, request, toggle, worker,
                  handler, cron>>
  BY DEF CourseGone
<1>1. rows' \in [Jobs -> MaybeRow]
  BY ConstantsAssumption, DeleteCourseType DEF TypeOK, CourseGone
<1>2. OwnRows'
  <2>1. ASSUME NEW j \in Jobs
        PROVE  rows'[j].course = rows[j].course \/ rows'[j].course = NoCourse
    BY DEF CourseGone, DeleteCourse, TypeOK, MaybeRow, Row, Absent
  <2>. QED
    BY <2>1 DEF OwnCourses, OwnRows, Own
<1>3. OwnWorker'
  BY <1>0, OwnWorkerStays DEF OwnCourses, SameJobs, JobOf
<1>4. gone' \in SUBSET Courses /\ days' \in [Courses -> SUBSET Nat]
  BY DEF CourseGone, DeleteCourse, TypeOK
<1>. QED
  BY <1>0, <1>1, <1>2, <1>3, <1>4 DEF TypeOK, OwnCourses, OwnHandlers, OwnCron

\* Every state of every instance is well-typed, and no code in flight holds a
\* job that points at a course its request did not name.
THEOREM TypeCorrect == Spec => [](TypeOK /\ OwnCourses)
<1>1. Init => TypeOK /\ OwnCourses
  BY ConstantsAssumption
  DEF Init, TypeOK, MaybeRow, NewCourse, CourseRow, Original, OwnCourses, OwnRows,
      OwnWorker, OwnHandlers, OwnCron, Own, Absent, Idle, NoCourse
<1>2. TypeOK /\ OwnCourses /\ [Next]_vars => TypeOK' /\ OwnCourses'
  <2>. SUFFICES ASSUME TypeOK, OwnCourses, [Next]_vars
                PROVE  TypeOK' /\ OwnCourses'
    OBVIOUS
  <2>1. ASSUME NEW j \in Jobs, RequestStep(j) PROVE TypeOK' /\ OwnCourses'
    BY <2>1, RequestType
  <2>2. ASSUME NEW j \in Jobs, Age(j) PROVE TypeOK' /\ OwnCourses'
    <3>1. OwnWorker'
      BY <2>2, OwnWorkerStays DEF Age, OwnCourses, SameJobs, JobOf
    <3>. QED
      BY <2>2, <3>1 DEF Age, GrowsOld, TypeOK, OwnCourses, OwnRows, OwnHandlers, OwnCron
  <2>3. ASSUME NEW g \in Toggles, ToggleStep(g) PROVE TypeOK' /\ OwnCourses'
    BY <2>3, ToggleType
  <2>4. ASSUME NEW h \in Handlers, HandlerStep(h) PROVE TypeOK' /\ OwnCourses'
    BY <2>4, HandlerType
  <2>5. ASSUME NEW c \in Courses, CourseGone(c) PROVE TypeOK' /\ OwnCourses'
    BY <2>5, CourseGoneType
  <2>6. CASE WorkerStep
    BY <2>6, WorkerType
  <2>7. CASE PythonStep
    BY <2>7, PythonType
  <2>8. CASE Cleanup
    BY <2>8, CronType
  <2>9. CASE Crash
    BY <2>9, CrashType
  <2>10. CASE UNCHANGED vars
    <3>1. OwnWorker'
      BY <2>10, OwnWorkerStays DEF vars, OwnCourses, SameJobs, JobOf
    <3>. QED
      BY <2>10, <3>1 DEF vars, TypeOK, OwnCourses, OwnRows, OwnHandlers, OwnCron
  <2>. QED
    BY <2>1, <2>2, <2>3, <2>4, <2>5, <2>6, <2>7, <2>8, <2>9, <2>10 DEF Next
<1>. QED
  BY <1>1, <1>2, PTL DEF Spec

-----------------------------------------------------------------------------
(* The limit of modifications.  Requests and completion requests write     *)
(* back the count of the copy they loaded, so the copies must respect the  *)
(* limit as well, and those that are about to be increased stay below it.  *)

HasCopy(j) == request[j].pc \in {"found", "checked", "inserted"}

CountInv ==
  /\ CountWithinLimit
  /\ \A j \in Jobs : HasCopy(j) => request[j].course.count < MaxModifications
  /\ \A g \in Toggles : toggle[g].pc = "save" => toggle[g].row.count <= MaxModifications

\* What a copy holds.
LEMMA CopyFields ==
  ASSUME TypeOK
  PROVE  /\ \A j \in Jobs : HasCopy(j) => request[j] \in Copied
         /\ \A g \in Toggles : toggle[g].pc = "save" =>
              /\ toggle[g].course \in Courses /\ toggle[g].row \in CourseRow
              /\ toggle[g].value \in BOOLEAN
  BY DEF TypeOK, HasCopy, Copied

\* A save takes each column from the entity or leaves it.
LEMMA SaveCourseColumns ==
  ASSUME TypeOK, NEW c \in Courses, NEW loaded \in CourseRow, NEW e \in CourseRow,
         SaveCourse(c, loaded, e)
  PROVE  /\ \A d \in Courses : d # c => courses'[d] = courses[d]
         /\ courses'[c].count \in {e.count, courses[c].count}
         /\ courses'[c].meta \in {e.meta, courses[c].meta}
<1>1. PICK r \in {e, ChangedCourseColumns(loaded, e, courses[c])} :
        courses' = [courses EXCEPT ![c] = r]
  BY DEF SaveCourse
<1>2. r.count \in {e.count, courses[c].count} /\ r.meta \in {e.meta, courses[c].meta}
  BY <1>1 DEF ChangedCourseColumns
<1>3. courses \in [Courses -> CourseRow]
  BY DEF TypeOK
<1>. QED
  BY <1>1, <1>2, <1>3

\* The requests and toggles other than the one at work keep their copies.
LEMMA RequestCopies ==
  ASSUME TypeOK, NEW j \in Jobs, RequestStep(j)
  PROVE  /\ UNCHANGED toggle
         /\ \A k \in Jobs : k # j => request'[k] = request[k]
         /\ HasCopy(j)' => \/ HasCopy(j) /\ request'[j].course = request[j].course
                           \/ /\ request'[j].course = courses[CourseOf[j]]
                              /\ CanModify(courses[CourseOf[j]])
<1>1. UNCHANGED toggle /\ \A k \in Jobs : k # j => request'[k] = request[k]
  BY DEF TypeOK, RequestStep, RequestFind, RequestReject, RequestCheckActive,
         RequestInsert, RequestSaveCourse, RequestSaveCourseFails, RequestEnqueue,
         RequestEnqueueFails, RequestSaveFailure, RequestSaveFailureFails
<1>2. CASE RequestFind(j)
  BY <1>1, <1>2 DEF RequestFind, TypeOK
<1>3. CASE RequestCheckActive(j) \/ RequestInsert(j)
  <2>1. HasCopy(j) /\ request[j] \in Copied
    BY <1>3, CopyFields DEF RequestCheckActive, RequestInsert, HasCopy
  <2>2. request'[j].course = request[j].course
    BY <1>3, <2>1 DEF RequestCheckActive, RequestInsert, TypeOK, Copied
  <2>. QED
    BY <1>1, <2>1, <2>2
<1>4. CASE request'[j].pc \in {"saved", "addFailed", "done"}
  BY <1>1, <1>4 DEF HasCopy
<1>. QED
  BY <1>2, <1>3, <1>4
  DEF TypeOK, RequestStep, RequestReject, RequestSaveCourse, RequestSaveCourseFails,
      RequestEnqueue, RequestEnqueueFails, RequestSaveFailure, RequestSaveFailureFails

LEMMA ToggleCopies ==
  ASSUME TypeOK, NEW g \in Toggles, ToggleStep(g)
  PROVE  /\ UNCHANGED request
         /\ \A f \in Toggles : f # g => toggle'[f] = toggle[f]
         /\ toggle'[g].pc = "save" =>
              \E c \in Courses : toggle'[g].course = c /\ toggle'[g].row = courses[c]
<1>1. ASSUME NEW c \in Courses, NEW value \in BOOLEAN, ToggleLoad(g, c, value)
      PROVE  toggle'[g].course = c /\ toggle'[g].row = courses[c]
  BY <1>1 DEF ToggleLoad, TypeOK
<1>2. ASSUME ToggleSave(g) \/ ToggleFails(g) PROVE toggle'[g].pc = "done"
  BY <1>2 DEF ToggleSave, ToggleFails, TypeOK
<1>3. UNCHANGED request /\ \A f \in Toggles : f # g => toggle'[f] = toggle[f]
  BY DEF ToggleStep, ToggleLoad, ToggleSave, ToggleFails, TypeOK
<1>. QED
  BY <1>1, <1>2, <1>3 DEF ToggleStep

\* Steps of the others touch no copy; the edit leaves the count.
LEMMA OtherCopies ==
  ASSUME TypeOK, [Next]_vars,
         \A j \in Jobs : ~RequestStep(j), \A g \in Toggles : ~ToggleStep(g)
  PROVE  /\ \A j \in Jobs : HasCopy(j)' => request'[j] = request[j]
         /\ \A g \in Toggles : toggle'[g].pc = "save" => toggle'[g] = toggle[g]
         /\ \A c \in Courses : courses'[c].count = courses[c].count
<1>1. ASSUME Crash
      PROVE  /\ \A j \in Jobs : HasCopy(j)' => request'[j] = request[j]
             /\ \A g \in Toggles : toggle'[g].pc = "save" => toggle'[g] = toggle[g]
             /\ UNCHANGED courses
  BY <1>1 DEF Crash, HasCopy, tables
<1>2. ASSUME NEW h \in Handlers, CommitEdit(h)
      PROVE  /\ UNCHANGED <<request, toggle>>
             /\ \A c \in Courses : courses'[c].count = courses[c].count
  <2>. DEFINE d == handler[h].row.course
              n == Len(edits) + 1
  <2>1. UNCHANGED <<request, toggle>> /\ d \in Courses
    BY <1>2 DEF CommitEdit, HasCourse
  <2>2. courses[d] \in CourseRow
    BY <2>1 DEF TypeOK
  <2>3. courses' = [courses EXCEPT ![d] = [courses[d] EXCEPT !.meta = n]]
    BY <1>2 DEF CommitEdit
  <2>4. [courses[d] EXCEPT !.meta = n].count = courses[d].count
    BY <2>2 DEF CourseRow
  <2>. HIDE DEF d, n
  <2>. QED
    BY <2>1, <2>3, <2>4 DEF TypeOK
<1>3. CASE UNCHANGED <<request, toggle, courses>>
  BY <1>3 DEF HasCopy
<1>. QED
  BY <1>1, <1>2, <1>3
  DEF Next, vars, tables, Age, HandlerStep, DeleteDays, CommitAnswer, SaveRetry,
      ReEnqueue, SaveFailure, HandlerThrow, CourseGone, WorkerStep, WorkerTake,
      WorkerLoad, WorkerDrop, WorkerSaveProcessing, WorkerFindCourse, WorkerRefuse,
      WorkerSaveRefused, WorkerPost, WorkerAck, WorkerThrow, PythonStep, CallbackLost,
      CallbackIgnored, SuccessBegin, FailureBegin, CallbackBegin, Cleanup

\* No course is modified by chat more often than the limit allows, as far as its
\* count tells: no stale copy that a request or a completion request saves
\* lifts the count above the limit.
THEOREM CountCorrect == Spec => []CountWithinLimit
<1>1. Init => CountInv
  BY ConstantsAssumption
  DEF Init, CountInv, CountWithinLimit, HasCopy, NewCourse
<1>2. TypeOK /\ CountInv /\ [Next]_vars => CountInv'
  <2>. SUFFICES ASSUME TypeOK, CountInv, [Next]_vars
                PROVE  CountInv'
    OBVIOUS
  <2>0. MaxModifications \in Nat
    BY ConstantsAssumption
  <2>a. \A c \in Courses : courses[c] \in CourseRow /\ courses[c].count \in Nat
    BY DEF TypeOK, CourseRow
  <2>1. ASSUME NEW j \in Jobs, RequestStep(j) PROVE CountInv'
    <3>1. CourseOf[j] \in Courses
      BY CourseNumbers
    <3>2. CountWithinLimit'
      <4>1. CASE UNCHANGED courses
        BY <4>1 DEF CountInv, CountWithinLimit
      <4>2. CASE RequestSaveCourse(j)
        <5>. DEFINE e == IncrementModificationCount(request[j].course)
        <5>1. HasCopy(j) /\ request[j].course \in CourseRow
          BY <4>2, CopyFields DEF RequestSaveCourse, HasCopy, Copied
        <5>2. e \in CourseRow /\ e.count = request[j].course.count + 1
          BY <5>1 DEF IncrementModificationCount, CourseRow
        <5>3. e.count <= MaxModifications
          BY <2>0, <5>1, <5>2 DEF CountInv, CourseRow
        <5>4. SaveCourse(CourseOf[j], request[j].course, e)
          BY <4>2 DEF RequestSaveCourse
        <5>. HIDE DEF e
        <5>5. /\ \A d \in Courses : d # CourseOf[j] => courses'[d] = courses[d]
              /\ courses'[CourseOf[j]].count \in {e.count, courses[CourseOf[j]].count}
          BY <3>1, <5>1, <5>2, <5>4, SaveCourseColumns
        <5>. QED
          BY <3>1, <5>3, <5>5 DEF CountInv, CountWithinLimit
      <4>. QED
        BY <2>1, <4>1, <4>2
        DEF RequestStep, RequestFind, RequestReject, RequestCheckActive, RequestInsert,
            RequestSaveCourseFails, RequestEnqueue, RequestEnqueueFails,
            RequestSaveFailure, RequestSaveFailureFails, tables
    <3>3. \A k \in Jobs : HasCopy(k)' => request'[k].course.count < MaxModifications
      BY <2>1, RequestCopies DEF CountInv, HasCopy, CanModify
    <3>. QED
      BY <2>1, <3>2, <3>3, RequestCopies DEF CountInv
  <2>2. ASSUME NEW g \in Toggles, ToggleStep(g) PROVE CountInv'
    <3>1. CountWithinLimit'
      <4>1. CASE UNCHANGED courses
        BY <4>1 DEF CountInv, CountWithinLimit
      <4>2. CASE ToggleSave(g)
        <5>. DEFINE c == toggle[g].course
                    e == [toggle[g].row EXCEPT !.completed = toggle[g].value]
        <5>1. /\ toggle[g].pc = "save" /\ c \in Courses
              /\ toggle[g].row \in CourseRow /\ toggle[g].value \in BOOLEAN
          BY <4>2, CopyFields DEF ToggleSave
        <5>2. e \in CourseRow /\ e.count = toggle[g].row.count
          BY <5>1 DEF CourseRow
        <5>3. e.count <= MaxModifications
          BY <5>1, <5>2 DEF CountInv
        <5>4. SaveCourse(c, toggle[g].row, e)
          BY <4>2 DEF ToggleSave
        <5>. HIDE DEF e, c
        <5>5. /\ \A d \in Courses : d # c => courses'[d] = courses[d]
              /\ courses'[c].count \in {e.count, courses[c].count}
          BY <5>1, <5>2, <5>4, SaveCourseColumns
        <5>. QED
          BY <5>1, <5>3, <5>5 DEF CountInv, CountWithinLimit
      <4>. QED
        BY <2>2, <4>1, <4>2 DEF ToggleStep, ToggleLoad, ToggleFails, tables
    <3>2. \A f \in Toggles : toggle'[f].pc = "save" => toggle'[f].row.count <= MaxModifications
      BY <2>2, ToggleCopies DEF CountInv, CountWithinLimit
    <3>. QED
      BY <2>2, <3>1, <3>2, ToggleCopies DEF CountInv, HasCopy
  <2>3. CASE /\ \A j \in Jobs : ~RequestStep(j)
             /\ \A g \in Toggles : ~ToggleStep(g)
    BY <2>3, OtherCopies DEF CountInv, CountWithinLimit, HasCopy
  <2>. QED
    BY <2>1, <2>2, <2>3
<1>. QED
  BY <1>1, <1>2, TypeCorrect, PTL DEF Spec, CountInv

-----------------------------------------------------------------------------
(* Edits stay in their course                                              *)

EditOf(n, c) == n # Original => n \in DOMAIN edits /\ CourseOf[edits[n]] = c

\* The same after the step.
EditThen(n, c) == n # Original => n \in DOMAIN edits' /\ CourseOf[edits'[n]] = c

EditInv ==
  /\ EditsStayInTheirCourse
  /\ \A j \in Jobs : HasCopy(j) => EditOf(request[j].course.meta, CourseOf[j])
  /\ \A g \in Toggles : toggle[g].pc = "save" =>
       EditOf(toggle[g].row.meta, toggle[g].course)

LEMMA EditsOfCourses ==
  ASSUME EditInv
  PROVE  \A c \in Courses : /\ \A n \in days[c] : EditOf(n, c)
                            /\ EditOf(courses[c].meta, c)
  BY DEF EditInv, EditsStayInTheirCourse, EditOf

LEMMA CoursesOfEdits ==
  ASSUME \A c \in Courses : /\ \A n \in days'[c] : EditThen(n, c)
                            /\ EditThen(courses'[c].meta, c)
  PROVE  EditsStayInTheirCourse'
  BY DEF EditsStayInTheirCourse, EditThen

\* A save brings in no edit but that of its entity.
LEMMA SaveCourseEdits ==
  ASSUME TypeOK, EditInv, UNCHANGED <<edits, days>>, NEW c \in Courses,
         NEW loaded \in CourseRow, NEW e \in CourseRow, EditOf(e.meta, c),
         SaveCourse(c, loaded, e)
  PROVE  EditsStayInTheirCourse'
<1>1. /\ \A d \in Courses : d # c => courses'[d] = courses[d]
      /\ courses'[c].meta \in {e.meta, courses[c].meta}
  BY SaveCourseColumns
<1>2. ASSUME NEW d \in Courses
      PROVE  (\A n \in days'[d] : EditThen(n, d)) /\ EditThen(courses'[d].meta, d)
  <2>1. (\A n \in days[d] : EditOf(n, d)) /\ EditOf(courses[d].meta, d)
    BY EditsOfCourses
  <2>2. EditOf(courses'[d].meta, d)
    BY <1>1, <2>1
  <2>. QED
    BY <2>1, <2>2 DEF EditOf, EditThen
<1>. QED
  BY <1>2, CoursesOfEdits

LEMMA CommitEditEdits ==
  ASSUME TypeOK, OwnCourses, EditInv, NEW h \in Handlers, CommitEdit(h)
  PROVE  EditInv'
<1>. DEFINE j == handler[h].job
            d == handler[h].row.course
            n == Len(edits) + 1
<1>1. j \in Jobs /\ d \in Courses /\ d = CourseOf[j]
  <2>1. j \in Jobs /\ d \in Courses /\ d \in Own(j)
    BY HandlerFields DEF CommitEdit, HasCourse, OwnCourses, OwnHandlers
  <2>2. d # NoCourse
    BY <2>1, ConstantsAssumption DEF NoCourse
  <2>. QED
    BY <2>1, <2>2 DEF Own
<1>2. /\ edits' = Append(edits, j)
      /\ days' = [days EXCEPT ![d] = (days[d] \ handler[h].seen) \union {n}]
      /\ courses' = [courses EXCEPT ![d].meta = n]
      /\ UNCHANGED <<request, toggle>>
  BY DEF CommitEdit
<1>. HIDE DEF j, d
<1>3. /\ \A m \in DOMAIN edits : m \in DOMAIN edits' /\ edits'[m] = edits[m]
      /\ n \in DOMAIN edits' /\ edits'[n] = j
  BY <1>1, <1>2 DEF TypeOK
<1>4. ASSUME NEW m, NEW c, EditOf(m, c)
      PROVE  EditThen(m, c)
  BY <1>3, <1>4 DEF EditOf, EditThen
<1>5. EditThen(n, d)
  BY <1>1, <1>3 DEF EditThen
<1>6. ASSUME NEW c \in Courses
      PROVE  (\A m \in days'[c] : EditThen(m, c)) /\ EditThen(courses'[c].meta, c)
  <2>1. (\A m \in days[c] : EditOf(m, c)) /\ EditOf(courses[c].meta, c)
    BY EditsOfCourses
  <2>2. courses[d] \in CourseRow
    BY <1>1 DEF TypeOK
  <2>3. /\ days'[c] \subseteq days[c] \union (IF c = d THEN {n} ELSE {})
        /\ courses'[c].meta = IF c = d THEN n ELSE courses[c].meta
    BY <1>1, <1>2, <2>2 DEF TypeOK, CourseRow
  <2>. HIDE DEF n
  <2>4. ASSUME NEW m \in days'[c]
        PROVE  EditThen(m, c)
    BY <1>4, <1>5, <2>1, <2>3
  <2>. QED
    BY <1>4, <1>5, <2>1, <2>3, <2>4
<1>7. EditsStayInTheirCourse'
  BY <1>6, CoursesOfEdits
<1>8. ASSUME NEW k \in Jobs, HasCopy(k)'
      PROVE  EditOf(request[k].course.meta, CourseOf[k])'
  <2>1. HasCopy(k)
    BY <1>2, <1>8 DEF HasCopy
  <2>2. EditOf(request[k].course.meta, CourseOf[k])
    BY <2>1 DEF EditInv
  <2>. QED
    BY <1>2, <1>3, <2>2 DEF EditOf
<1>9. ASSUME NEW g \in Toggles, toggle'[g].pc = "save"
      PROVE  EditOf(toggle[g].row.meta, toggle[g].course)'
  <2>1. EditOf(toggle[g].row.meta, toggle[g].course)
    BY <1>2, <1>9 DEF EditInv
  <2>. QED
    BY <1>2, <1>3, <2>1 DEF EditOf
<1>. QED
  BY <1>7, <1>8, <1>9 DEF EditInv

\* A chat never rewrites another course than the one its owner is looking at:
\* not when its own course is deleted and a retried entry finds any other, and
\* not through a stale copy that a request or a completion request saves.
THEOREM EditsStayCorrect == Spec => []EditsStayInTheirCourse
<1>1. Init => EditInv
  BY DEF Init, EditInv, EditsStayInTheirCourse, EditOf, HasCopy, NewCourse, Original
<1>2. TypeOK /\ OwnCourses /\ EditInv /\ [Next]_vars => EditInv'
  <2>. SUFFICES ASSUME TypeOK, OwnCourses, EditInv, [Next]_vars
                PROVE  EditInv'
    OBVIOUS
  <2>1. ASSUME NEW j \in Jobs, RequestStep(j) PROVE EditInv'
    <3>1. UNCHANGED <<edits, days>> /\ CourseOf[j] \in Courses
      BY <2>1, CourseNumbers
      DEF RequestStep, RequestFind, RequestReject, RequestCheckActive, RequestInsert,
          RequestSaveCourse, RequestSaveCourseFails, RequestEnqueue,
          RequestEnqueueFails, RequestSaveFailure, RequestSaveFailureFails, tables
    <3>2. EditsStayInTheirCourse'
      <4>1. CASE UNCHANGED courses
        BY <3>1, <4>1 DEF EditInv, EditsStayInTheirCourse
      <4>2. CASE RequestSaveCourse(j)
        <5>. DEFINE e == IncrementModificationCount(request[j].course)
        <5>1. HasCopy(j) /\ request[j].course \in CourseRow
          BY <4>2, CopyFields DEF RequestSaveCourse, HasCopy, Copied
        <5>2. e \in CourseRow /\ e.meta = request[j].course.meta
          BY <5>1 DEF IncrementModificationCount, CourseRow
        <5>3. EditOf(e.meta, CourseOf[j])
          BY <5>1, <5>2 DEF EditInv
        <5>4. SaveCourse(CourseOf[j], request[j].course, e)
          BY <4>2 DEF RequestSaveCourse
        <5>. HIDE DEF e
        <5>. QED
          BY <3>1, <5>1, <5>2, <5>3, <5>4, SaveCourseEdits
      <4>. QED
        BY <2>1, <4>1, <4>2
        DEF RequestStep, RequestFind, RequestReject, RequestCheckActive, RequestInsert,
            RequestSaveCourseFails, RequestEnqueue, RequestEnqueueFails,
            RequestSaveFailure, RequestSaveFailureFails, tables
    <3>3. ASSUME NEW k \in Jobs, HasCopy(k)'
          PROVE  EditOf(request'[k].course.meta, CourseOf[k])
      <4>1. CASE k = j
        BY <2>1, <3>1, <3>3, <4>1, RequestCopies, EditsOfCourses DEF EditInv
      <4>2. CASE k # j
        BY <2>1, <3>3, <4>2, RequestCopies DEF EditInv, HasCopy
      <4>. QED
        BY <4>1, <4>2
    <3>. QED
      BY <2>1, <3>1, <3>2, <3>3, RequestCopies DEF EditInv, EditOf
  <2>2. ASSUME NEW g \in Toggles, ToggleStep(g) PROVE EditInv'
    <3>1. UNCHANGED <<edits, days>>
      BY <2>2 DEF ToggleStep, ToggleLoad, ToggleSave, ToggleFails, tables
    <3>2. EditsStayInTheirCourse'
      <4>1. CASE UNCHANGED courses
        BY <3>1, <4>1 DEF EditInv, EditsStayInTheirCourse
      <4>2. CASE ToggleSave(g)
        <5>. DEFINE c == toggle[g].course
                    e == [toggle[g].row EXCEPT !.completed = toggle[g].value]
        <5>1. /\ toggle[g].pc = "save" /\ c \in Courses
              /\ toggle[g].row \in CourseRow /\ toggle[g].value \in BOOLEAN
          BY <4>2, CopyFields DEF ToggleSave
        <5>2. e \in CourseRow /\ e.meta = toggle[g].row.meta
          BY <5>1 DEF CourseRow
        <5>3. EditOf(e.meta, c)
          BY <5>1, <5>2 DEF EditInv
        <5>4. SaveCourse(c, toggle[g].row, e)
          BY <4>2 DEF ToggleSave
        <5>. HIDE DEF e, c
        <5>. QED
          BY <3>1, <5>1, <5>2, <5>3, <5>4, SaveCourseEdits
      <4>. QED
        BY <2>2, <4>1, <4>2 DEF ToggleStep, ToggleLoad, ToggleFails, tables
    <3>3. ASSUME NEW f \in Toggles, toggle'[f].pc = "save"
          PROVE  EditOf(toggle'[f].row.meta, toggle'[f].course)
      <4>1. CASE f = g
        BY <2>2, <3>3, <4>1, ToggleCopies, EditsOfCourses
      <4>2. CASE f # g
        BY <2>2, <3>3, <4>2, ToggleCopies DEF EditInv
      <4>. QED
        BY <4>1, <4>2
    <3>. QED
      BY <2>2, <3>1, <3>2, <3>3, ToggleCopies DEF EditInv, EditOf, HasCopy
  <2>3. ASSUME NEW h \in Handlers, CommitEdit(h) PROVE EditInv'
    BY <2>3, CommitEditEdits
  <2>4. CASE /\ UNCHANGED <<courses, edits>>
             /\ \A c \in Courses : days'[c] \subseteq days[c]
             /\ \A j \in Jobs : ~RequestStep(j)
             /\ \A g \in Toggles : ~ToggleStep(g)
    <3>1. EditsStayInTheirCourse'
      BY <2>4 DEF EditInv, EditsStayInTheirCourse
    <3>. QED
      BY <2>4, <3>1, OtherCopies DEF EditInv, EditOf, HasCopy
  <2>5. ASSUME NEW c \in Courses, CourseGone(c)
        PROVE  UNCHANGED <<courses, edits>> /\ \A d \in Courses : days'[d] \subseteq days[d]
    BY <2>5 DEF CourseGone, TypeOK
  <2>. QED
    BY <2>1, <2>2, <2>3, <2>4, <2>5
    DEF Next, vars, tables, Age, HandlerStep, DeleteDays, CommitAnswer, SaveRetry,
        ReEnqueue, SaveFailure, HandlerThrow, WorkerStep, WorkerTake, WorkerLoad,
        WorkerDrop, WorkerSaveProcessing, WorkerFindCourse, WorkerRefuse,
        WorkerSaveRefused, WorkerPost, WorkerAck, WorkerThrow, PythonStep,
        CallbackLost, CallbackIgnored, SuccessBegin, FailureBegin, CallbackBegin,
        Cleanup, Crash
<1>. QED
  BY <1>1, <1>2, TypeCorrect, PTL DEF Spec, EditInv

-----------------------------------------------------------------------------
(* A success is answered                                                   *)

Edited(j) == \E n \in DOMAIN edits : edits[n] = j

\* SuccessIsAnswered is not inductive: a save that falls between another's
\* reload and its UPDATE leaves the intent of the row, or of the copy the code
\* holds.  So the intent is right wherever it is, on jobs that are no success
\* too.
RowsAnswered ==
  \A j \in Jobs : /\ rows[j].status = "SUCCESS" => chats[j] > 0
                  /\ rows[j].intent = "EDITED" => Edited(j)

CopiesAnswered ==
  /\ worker.pc \notin {"idle", "load"} /\ worker.row.intent = "EDITED"
     => Edited(JobOf(worker.entry))
  /\ \A h \in Handlers : handler[h].pc # "idle" /\ handler[h].row.intent = "EDITED"
     => Edited(handler[h].job)
  /\ cron.pc = "save" /\ cron.row.intent = "EDITED" => Edited(cron.job)

AnsweredInv == RowsAnswered /\ CopiesAnswered

\* What was answered and edited stays so.
LEMMA AnswersStay ==
  ASSUME TypeOK, [Next]_vars
  PROVE  /\ \A j \in Jobs : chats[j] > 0 => chats'[j] > 0
         /\ \A j \in Jobs : Edited(j) => Edited(j)'
<1>1. CASE UNCHANGED <<edits, chats>>
  BY <1>1 DEF Edited
<1>2. ASSUME NEW h \in Handlers, CommitEdit(h)
      PROVE  /\ \A j \in Jobs : chats[j] > 0 => chats'[j] > 0
             /\ \A j \in Jobs : Edited(j) => Edited(j)'
  <2>1. handler[h].job \in Jobs
    BY <1>2, HandlerFields DEF CommitEdit
  <2>2. \A n \in DOMAIN edits : n \in DOMAIN edits' /\ edits'[n] = edits[n]
    BY <1>2, <2>1 DEF CommitEdit, TypeOK
  <2>3. chats' = [chats EXCEPT ![handler[h].job] = chats[handler[h].job] + 1]
    BY <1>2 DEF CommitEdit
  <2>4. \A j \in Jobs : chats[j] \in Nat
    BY DEF TypeOK
  <2>. QED
    BY <2>1, <2>2, <2>3, <2>4 DEF TypeOK, Edited
<1>3. ASSUME NEW h \in Handlers, CommitAnswer(h)
      PROVE  /\ \A j \in Jobs : chats[j] > 0 => chats'[j] > 0
             /\ \A j \in Jobs : Edited(j) => Edited(j)'
  <2>1. handler[h].job \in Jobs
    BY <1>3, HandlerFields DEF CommitAnswer
  <2>2. chats' = [chats EXCEPT ![handler[h].job] = chats[handler[h].job] + 1]
    BY <1>3 DEF CommitAnswer
  <2>3. \A j \in Jobs : chats[j] \in Nat
    BY DEF TypeOK
  <2>4. UNCHANGED edits
    BY <1>3 DEF CommitAnswer
  <2>. QED
    BY <2>1, <2>2, <2>3, <2>4 DEF TypeOK, Edited
<1>. QED
  BY <1>1, <1>2, <1>3
  DEF Next, vars, tables, RequestStep, RequestFind, RequestReject, RequestCheckActive,
      RequestInsert, RequestSaveCourse, RequestSaveCourseFails, RequestEnqueue,
      RequestEnqueueFails, RequestSaveFailure, RequestSaveFailureFails, Age,
      ToggleStep, ToggleLoad, ToggleSave, ToggleFails, HandlerStep, DeleteDays,
      SaveRetry, ReEnqueue, SaveFailure, HandlerThrow, CourseGone, WorkerStep,
      WorkerTake, WorkerLoad, WorkerDrop, WorkerSaveProcessing, WorkerFindCourse,
      WorkerRefuse, WorkerSaveRefused, WorkerPost, WorkerAck, WorkerThrow, PythonStep,
      CallbackLost, CallbackIgnored, SuccessBegin, FailureBegin, CallbackBegin, Cleanup,
      Crash

\* The methods other than MarkSuccessWithIntent leave the intent, and do not
\* succeed.
LEMMA MethodsKeepTheIntent ==
  ASSUME NEW e \in Row
  PROVE  /\ IncrementAttempt(MarkProcessing(e)).intent = e.intent
         /\ IncrementAttempt(MarkProcessing(e)).status = "PROCESSING"
         /\ ResetForRetry(e).intent = e.intent /\ ResetForRetry(e).status = "PENDING"
         /\ \A code : /\ MarkFailed(e, code).intent = e.intent
                      /\ MarkFailed(e, code).status = "FAILED"
<1>1. MarkProcessing(e) \in Row /\ MarkProcessing(e).intent = e.intent
  BY EntityTypes DEF MarkProcessing, Row
<1>. QED
  BY <1>1 DEF IncrementAttempt, MarkProcessing, ResetForRetry, MarkFailed, Row

\* A save of an entity that is no success and keeps the intent it was loaded
\* with.
LEMMA UnansweredSave ==
  ASSUME TypeOK, RowsAnswered, NEW j \in Jobs, Exists(j),
         NEW loaded \in Row, NEW e \in Row, SaveRow(j, loaded, e),
         e.status # "SUCCESS", e.intent = loaded.intent,
         loaded.intent = "EDITED" => Edited(j), UNCHANGED <<edits, chats>>
  PROVE  RowsAnswered'
<1>1. PICK r \in Saves(loaded, e, rows[j]) : rows' = [rows EXCEPT ![j] = r]
  BY DEF SaveRow
<1>2. /\ r.status = "SUCCESS" => rows[j].status = "SUCCESS"
      /\ r.intent \in {loaded.intent, rows[j].intent}
  BY <1>1 DEF Saves, ChangedColumns
<1>3. \A k \in Jobs : rows'[k] = IF k = j THEN r ELSE rows[k]
  BY <1>1 DEF TypeOK
<1>. QED
  BY <1>2, <1>3 DEF RowsAnswered, Edited

\* A step that leaves the table, and takes its copies from it.
LEMMA NothingSaved ==
  ASSUME TypeOK, AnsweredInv, [Next]_vars, UNCHANGED rows, CopiesAnswered'
  PROVE  AnsweredInv'
  BY AnswersStay DEF AnsweredInv, RowsAnswered

LEMMA CopiesStay ==
  ASSUME TypeOK, AnsweredInv, [Next]_vars, SameJobs,
         UNCHANGED <<worker, handler, cron>>
  PROVE  CopiesAnswered'
<1>1. worker.pc \notin {"idle", "load"} =>
        /\ worker.entry \in DOMAIN queue /\ JobOf(worker.entry) \in Jobs
        /\ JobOf(worker.entry)' = JobOf(worker.entry)
  BY WorkerFields, EntryJob DEF SameJobs
<1>2. \A h \in Handlers : handler[h].pc # "idle" => handler[h].job \in Jobs
  BY HandlerFields
<1>3. cron.pc = "save" => cron.job \in Jobs
  BY DEF TypeOK, Idle
<1>. QED
  BY <1>1, <1>2, <1>3, AnswersStay DEF AnsweredInv, CopiesAnswered

LEMMA RequestAnswered ==
  ASSUME TypeOK, AnsweredInv, NEW j \in Jobs, RequestStep(j)
  PROVE  AnsweredInv'
<1>0. [Next]_vars
  BY DEF Next
<1>1. UNCHANGED <<worker, handler, cron, edits, chats>>
  BY DEF RequestStep, RequestFind, RequestReject, RequestCheckActive, RequestInsert,
         RequestSaveCourse, RequestSaveCourseFails, RequestEnqueue,
         RequestEnqueueFails, RequestSaveFailure, RequestSaveFailureFails, tables
<1>2. SameJobs
  <2>1. CASE UNCHANGED queue
    BY <2>1 DEF SameJobs, JobOf
  <2>2. CASE AddJob(j, CourseOf[j])
    BY <2>2, CourseNumbers, AddJobType DEF SameJobs, JobOf
  <2>. QED
    BY <2>1, <2>2
    DEF RequestStep, RequestFind, RequestReject, RequestCheckActive, RequestInsert,
        RequestSaveCourse, RequestSaveCourseFails, RequestEnqueue,
        RequestEnqueueFails, AddRejected, RequestSaveFailure, RequestSaveFailureFails
<1>3. CopiesAnswered'
  BY <1>0, <1>1, <1>2, CopiesStay
<1>4. CASE RequestInsert(j)
  <2>1. \A k \in Jobs : rows'[k] = IF k = j THEN NewJob(CourseOf[j]) ELSE rows[k]
    BY <1>4 DEF RequestInsert, TypeOK
  <2>2. RowsAnswered'
    BY <1>1, <2>1 DEF AnsweredInv, RowsAnswered, NewJob, Edited
  <2>. QED
    BY <1>3, <2>2 DEF AnsweredInv
<1>5. CASE RequestSaveFailure(j)
  <2>. DEFINE n == NewJob(CourseOf[j])
              e == MarkFailed(n, "QUEUE_ERROR")
  <2>1. n \in Row /\ n.intent = "null"
    BY CourseNumbers, NewJobType DEF NewJob
  <2>2. "QUEUE_ERROR" \in ErrorCodes
    BY DEF ErrorCodes
  <2>3. e \in Row /\ e.intent = n.intent /\ e.status = "FAILED"
    BY <2>1, <2>2, MethodsKeepTheCourse, MethodsKeepTheIntent
  <2>4. SaveRow(j, n, e) /\ Exists(j)
    BY <1>5 DEF RequestSaveFailure
  <2>. HIDE DEF n, e
  <2>5. RowsAnswered'
    BY <1>1, <2>1, <2>3, <2>4, UnansweredSave DEF AnsweredInv
  <2>. QED
    BY <1>3, <2>5 DEF AnsweredInv
<1>6. CASE UNCHANGED rows
  BY <1>0, <1>3, <1>6, NothingSaved
<1>. QED
  BY <1>4, <1>5, <1>6
  DEF RequestStep, RequestFind, RequestReject, RequestCheckActive, RequestSaveCourse,
      RequestSaveCourseFails, RequestEnqueue, RequestEnqueueFails,
      RequestSaveFailureFails, tables

LEMMA WorkerAnswered ==
  ASSUME TypeOK, AnsweredInv, WorkerStep
  PROVE  AnsweredInv'
<1>0. [Next]_vars
  BY DEF Next
<1>1. UNCHANGED <<handler, cron, edits, chats>>
  BY DEF WorkerStep, WorkerTake, WorkerLoad, WorkerDrop, WorkerSaveProcessing,
         WorkerFindCourse, WorkerRefuse, WorkerSaveRefused, WorkerPost, WorkerAck,
         WorkerThrow, tables
<1>2. \A i \in DOMAIN queue : JobOf(i)' = JobOf(i)
  BY WorkerQueueType
<1>3. ASSUME worker'.pc \notin {"idle", "load"} =>
               /\ worker'.entry \in DOMAIN queue
               /\ worker'.row.intent = "EDITED" => Edited(JobOf(worker'.entry))
      PROVE  CopiesAnswered'
  <2>1. worker'.pc \notin {"idle", "load"} /\ worker'.row.intent = "EDITED"
        => Edited(JobOf(worker.entry))'
    <3>1. ASSUME NEW i \in DOMAIN queue, Edited(JobOf(i)) PROVE Edited(JobOf(i))'
      BY <1>1, <1>2, <3>1 DEF Edited
    <3>. QED
      BY <1>3, <3>1 DEF Edited, JobOf
  <2>. QED
    BY <1>1, <2>1 DEF AnsweredInv, CopiesAnswered, Edited
<1>4. CASE WorkerLoad
  <2>1. worker.entry \in DOMAIN queue /\ JobOf(worker.entry) \in Jobs
    BY <1>4, WorkerFields, EntryJob DEF WorkerLoad
  <2>2. worker'.entry = worker.entry /\ worker'.row = rows[JobOf(worker.entry)]
    BY <1>4 DEF WorkerLoad
  <2>3. CopiesAnswered'
    BY <1>3, <2>1, <2>2 DEF AnsweredInv, RowsAnswered
  <2>. QED
    BY <1>0, <1>4, <2>3, NothingSaved DEF WorkerLoad, tables
<1>5. CASE WorkerSaveProcessing \/ WorkerSaveRefused
  <2>. PICK j \in Jobs : j = JobOf(worker.entry)
    BY <1>5, WorkerFields, EntryJob DEF WorkerSaveProcessing, WorkerSaveRefused
  <2>1. worker \in WorkerAtWork /\ worker.pc \notin {"idle", "load"}
    BY <1>5, WorkerFields DEF WorkerSaveProcessing, WorkerSaveRefused
  <2>2. /\ worker.row \in Row /\ worker.entry \in DOMAIN queue
        /\ worker.row.intent = "EDITED" => Edited(j)
    BY <2>1 DEF AnsweredInv, CopiesAnswered, WorkerAtWork
  <2>3. PICK e \in Row : /\ e.intent = worker.row.intent /\ e.status # "SUCCESS"
                         /\ SaveRow(j, worker.row, e) /\ Exists(j)
                         /\ worker'.pc # "idle" => worker'.row = e
    <3>1. "NO_CONTEXT" \in ErrorCodes
      BY DEF ErrorCodes
    <3>2. CASE WorkerSaveProcessing
      <4>1. IncrementAttempt(MarkProcessing(worker.row)) \in Row
        BY <2>2, MethodsKeepTheCourse
      <4>2. worker'.row = IncrementAttempt(MarkProcessing(worker.row))
        BY <2>1, <3>2 DEF WorkerSaveProcessing, WorkerAtWork
      <4>. QED
        BY <2>2, <3>2, <4>1, <4>2, MethodsKeepTheIntent DEF WorkerSaveProcessing
    <3>3. CASE WorkerSaveRefused
      <4>1. MarkFailed(worker.row, "NO_CONTEXT") \in Row
        BY <2>2, <3>1, MethodsKeepTheCourse
      <4>2. worker'.pc = "idle"
        BY <3>3 DEF WorkerSaveRefused, Idle
      <4>. QED
        BY <2>2, <3>3, <4>1, <4>2, MethodsKeepTheIntent DEF WorkerSaveRefused
    <3>. QED
      BY <1>5, <3>2, <3>3
  <2>4. worker'.pc # "idle" => worker'.entry = worker.entry
    <3>1. CASE WorkerSaveProcessing
      BY <2>1, <3>1 DEF WorkerSaveProcessing, WorkerAtWork
    <3>2. CASE WorkerSaveRefused
      BY <3>2 DEF WorkerSaveRefused, Idle
    <3>. QED
      BY <1>5, <3>1, <3>2
  <2>5. RowsAnswered'
    BY <1>1, <2>2, <2>3, UnansweredSave DEF AnsweredInv
  <2>6. CopiesAnswered'
    BY <1>3, <2>2, <2>3, <2>4
  <2>. QED
    BY <2>5, <2>6 DEF AnsweredInv
<1>6. CASE WorkerFindCourse \/ WorkerRefuse \/ WorkerPost
  <2>1. worker \in WorkerAtWork /\ worker.pc \notin {"idle", "load"}
    BY <1>6, WorkerFields DEF WorkerFindCourse, WorkerRefuse, WorkerPost
  <2>2. worker'.row = worker.row /\ worker'.entry = worker.entry
    BY <1>6, <2>1 DEF WorkerFindCourse, WorkerRefuse, WorkerPost, WorkerAtWork
  <2>3. worker.entry \in DOMAIN queue
    BY <2>1 DEF WorkerAtWork
  <2>4. CopiesAnswered'
    BY <1>3, <2>1, <2>2, <2>3 DEF AnsweredInv, CopiesAnswered
  <2>. QED
    BY <1>0, <1>6, <2>4, NothingSaved DEF WorkerFindCourse, WorkerRefuse, WorkerPost, tables
<1>7. CASE UNCHANGED rows /\ worker'.pc \in {"idle", "load"}
  BY <1>0, <1>3, <1>7, NothingSaved
<1>. QED
  BY <1>4, <1>5, <1>6, <1>7
  DEF WorkerStep, WorkerTake, WorkerDrop, WorkerAck, WorkerThrow, tables, Idle

\* The two transactions of a successful callback leave an answer, and the one
\* that leaves intent SUCCESS an edit.
LEMMA CommitAnswered ==
  ASSUME TypeOK, AnsweredInv, NEW h \in Handlers, CommitEdit(h) \/ CommitAnswer(h)
  PROVE  RowsAnswered'
<1>. PICK j \in Jobs : j = handler[h].job
  BY HandlerFields DEF CommitEdit, CommitAnswer
<1>0. [Next]_vars
  BY DEF Next, HandlerStep
<1>1. /\ handler[h].row \in Row
      /\ handler[h].row.intent = "EDITED" => Edited(j)
  BY HandlerFields DEF CommitEdit, CommitAnswer, AnsweredInv, CopiesAnswered
<1>2. chats'[j] > 0
  <2>1. chats' = [chats EXCEPT ![j] = chats[j] + 1]
    BY DEF CommitEdit, CommitAnswer
  <2>. QED
    BY <2>1 DEF TypeOK
<1>3. PICK intent \in {"EDITED", "ANSWERED"} :
        /\ SaveRow(j, handler[h].row, MarkSuccessWithIntent(handler[h].row, intent))
        /\ intent = "EDITED" => CommitEdit(h)
  BY DEF CommitEdit, CommitAnswer
<1>4. MarkSuccessWithIntent(handler[h].row, intent).intent = intent
  BY <1>1 DEF MarkSuccessWithIntent, Row
<1>5. PICK r : /\ rows' = [rows EXCEPT ![j] = r]
               /\ r.intent \in {intent, rows[j].intent}
  <2>. PICK e : e = MarkSuccessWithIntent(handler[h].row, intent)
    OBVIOUS
  <2>1. SaveRow(j, handler[h].row, e) /\ e.intent = intent
    BY <1>3, <1>4
  <2>2. PICK r \in Saves(handler[h].row, e, rows[j]) : rows' = [rows EXCEPT ![j] = r]
    BY <2>1 DEF SaveRow
  <2>3. r.intent \in {intent, rows[j].intent}
    BY <2>1, <2>2 DEF Saves, ChangedColumns
  <2>. QED
    BY <2>2, <2>3
<1>6. intent = "EDITED" => Edited(j)'
  <2>1. ASSUME CommitEdit(h) PROVE Edited(j)'
    <3>1. edits' = Append(edits, j)
      BY <2>1 DEF CommitEdit
    <3>2. Len(edits) + 1 \in DOMAIN edits' /\ edits'[Len(edits) + 1] = j
      BY <3>1 DEF TypeOK
    <3>. QED
      BY <3>2 DEF Edited
  <2>. QED
    BY <1>3, <2>1
<1>7. \A k \in Jobs : rows'[k] = IF k = j THEN r ELSE rows[k]
  BY <1>5 DEF TypeOK
<1>. QED
  BY <1>0, <1>2, <1>5, <1>6, <1>7, AnswersStay DEF AnsweredInv, RowsAnswered

LEMMA HandlerAnswered ==
  ASSUME TypeOK, OwnCourses, AnsweredInv, NEW h \in Handlers, HandlerStep(h)
  PROVE  AnsweredInv'
<1>0. [Next]_vars
  BY DEF Next
<1>1. SameJobs /\ UNCHANGED <<worker, cron>>
  BY HandlerQueueType
  DEF HandlerStep, DeleteDays, CommitEdit, CommitAnswer, SaveRetry, ReEnqueue,
      SaveFailure, HandlerThrow
<1>2. /\ handler[h].pc # "idle"
      /\ handler[h].job \in Jobs /\ handler[h].row \in Row
      /\ handler[h].row.intent = "EDITED" => Edited(handler[h].job)
  <2>1. handler[h].pc # "idle"
    BY DEF HandlerStep, DeleteDays, CommitEdit, CommitAnswer, SaveRetry, ReEnqueue,
           SaveFailure, HandlerThrow
  <2>. QED
    BY <2>1, HandlerFields DEF AnsweredInv, CopiesAnswered
<1>3. CopiesAnswered'
  <2>1. \A g \in Handlers : g # h => handler'[g] = handler[g]
    BY DEF HandlerStep, DeleteDays, CommitEdit, CommitAnswer, SaveRetry, ReEnqueue,
           SaveFailure, HandlerThrow, TypeOK
  <2>2. handler'[h].pc = "idle" \/ ( /\ handler'[h].row = handler[h].row
                                     /\ handler'[h].job = handler[h].job )
    <3>1. CASE handler' = [handler EXCEPT ![h] = Idle]
      BY <3>1 DEF Idle, TypeOK
    <3>2. CASE DeleteDays(h)
      BY <3>2 DEF DeleteDays, TypeOK
    <3>3. CASE SaveRetry(h)
      <4>1. handler[h] \in Begun
        BY <3>3, HandlerFields DEF SaveRetry
      <4>. QED
        BY <3>3, <4>1 DEF SaveRetry, Begun, TypeOK
    <3>. QED
      BY <3>1, <3>2, <3>3
      DEF HandlerStep, CommitEdit, CommitAnswer, ReEnqueue, SaveFailure, HandlerThrow
  <2>3. \A g \in Handlers : handler'[g].pc # "idle" /\ handler'[g].row.intent = "EDITED"
                            => handler'[g].job \in Jobs /\ Edited(handler'[g].job)
    BY <1>2, <2>1, <2>2, HandlerFields DEF AnsweredInv, CopiesAnswered
  <2>4. \A g \in Handlers : handler'[g].pc # "idle" /\ handler'[g].row.intent = "EDITED"
                            => Edited(handler[g].job)'
    BY <1>0, <2>3, AnswersStay DEF Edited
  <2>5. worker.pc \notin {"idle", "load"} =>
          /\ worker.entry \in DOMAIN queue /\ JobOf(worker.entry) \in Jobs
          /\ JobOf(worker.entry)' = JobOf(worker.entry)
    BY <1>1, WorkerFields, EntryJob DEF SameJobs
  <2>6. cron.pc = "save" => cron.job \in Jobs
    BY DEF TypeOK, Idle
  <2>. QED
    BY <1>0, <1>1, <2>4, <2>5, <2>6, AnswersStay DEF AnsweredInv, CopiesAnswered
<1>4. CASE CommitEdit(h) \/ CommitAnswer(h)
  BY <1>3, <1>4, CommitAnswered DEF AnsweredInv
<1>5. CASE SaveRetry(h) \/ SaveFailure(h)
  <2>1. "LLM_ERROR" \in ErrorCodes
    BY DEF ErrorCodes
  <2>2. PICK e \in Row : /\ e.intent = handler[h].row.intent /\ e.status # "SUCCESS"
                         /\ SaveRow(handler[h].job, handler[h].row, e)
                         /\ Exists(handler[h].job)
    BY <1>2, <1>5, <2>1, MethodsKeepTheCourse, MethodsKeepTheIntent
    DEF SaveRetry, SaveFailure
  <2>3. UNCHANGED <<edits, chats>>
    BY <1>5 DEF SaveRetry, SaveFailure
  <2>4. RowsAnswered'
    BY <1>2, <2>2, <2>3, UnansweredSave DEF AnsweredInv
  <2>. QED
    BY <1>3, <2>4 DEF AnsweredInv
<1>6. CASE UNCHANGED rows
  BY <1>0, <1>3, <1>6, NothingSaved
<1>. QED
  BY <1>4, <1>5, <1>6 DEF HandlerStep, DeleteDays, ReEnqueue, HandlerThrow, tables

LEMMA PythonAnswered ==
  ASSUME TypeOK, AnsweredInv, PythonStep
  PROVE  AnsweredInv'
<1>0. [Next]_vars
  BY DEF Next
<1>1. UNCHANGED <<rows, queue, edits, chats, worker, cron>>
  BY DEF PythonStep, CallbackLost, CallbackIgnored, SuccessBegin, FailureBegin,
         CallbackBegin, tables
<1>2. CASE UNCHANGED handler
  <2>1. CopiesAnswered'
    BY <1>0, <1>1, <1>2, CopiesStay DEF SameJobs, JobOf
  <2>. QED
    BY <1>0, <1>1, <2>1, NothingSaved
<1>3. ASSUME NEW t \in tasks, NEW h \in Handlers,
             NEW pc \in {"edit", "answer", "retry", "fail"}, CallbackBegin(h, t, pc)
      PROVE  AnsweredInv'
  <2>. PICK j \in Jobs : j = JobOf(t.entry)
    BY EntryJob DEF TypeOK
  <2>1. handler' = [handler EXCEPT ![h] =
          [pc |-> pc, job |-> j, row |-> rows[j], base |-> t.base]]
    BY <1>3 DEF CallbackBegin
  <2>2. \A g \in Handlers : \/ handler'[g] = handler[g]
                            \/ handler'[g].job = j /\ handler'[g].row = rows[j]
    BY <2>1 DEF TypeOK
  <2>3. CopiesAnswered'
    BY <1>1, <2>2 DEF AnsweredInv, RowsAnswered, CopiesAnswered, Edited, JobOf
  <2>. QED
    BY <1>0, <1>1, <2>3, NothingSaved
<1>. QED
  BY <1>2, <1>3
  DEF PythonStep, CallbackLost, CallbackIgnored, SuccessBegin, FailureBegin

LEMMA CronAnswered ==
  ASSUME TypeOK, AnsweredInv, Cleanup
  PROVE  AnsweredInv'
<1>0. [Next]_vars
  BY DEF Next
<1>1. UNCHANGED <<queue, edits, chats, worker, handler>>
  BY DEF Cleanup
<1>2. ASSUME cron'.pc = "save" /\ cron'.row.intent = "EDITED" => Edited(cron'.job)
      PROVE  CopiesAnswered'
  BY <1>1, <1>2 DEF AnsweredInv, CopiesAnswered, Edited, JobOf
<1>3. CASE CronSaveTimeout
  <2>. DEFINE e == MarkFailed(cron.row, "TIMEOUT")
  <2>1. cron \in [pc : {"save"}, todo : SUBSET Jobs, job : Jobs, row : Row]
    BY <1>3 DEF CronSaveTimeout, TypeOK, Idle
  <2>2. /\ cron.job \in Jobs /\ cron.row \in Row
        /\ cron.row.intent = "EDITED" => Edited(cron.job)
    BY <2>1 DEF AnsweredInv, CopiesAnswered
  <2>3. "TIMEOUT" \in ErrorCodes
    BY DEF ErrorCodes
  <2>4. e \in Row /\ e.intent = cron.row.intent /\ e.status = "FAILED"
    BY <2>2, <2>3, MethodsKeepTheCourse, MethodsKeepTheIntent
  <2>5. SaveRow(cron.job, cron.row, e) /\ Exists(cron.job) /\ cron'.pc = "next"
    BY <1>3 DEF CronSaveTimeout
  <2>. HIDE DEF e
  <2>6. RowsAnswered'
    BY <1>1, <2>2, <2>4, <2>5, UnansweredSave DEF AnsweredInv
  <2>7. CopiesAnswered'
    BY <1>2, <2>5
  <2>. QED
    BY <2>6, <2>7 DEF AnsweredInv
<1>4. ASSUME NEW j \in Jobs, CronReread(j) PROVE AnsweredInv'
  <2>1. CopiesAnswered'
    BY <1>2, <1>4 DEF CronReread, AnsweredInv, RowsAnswered
  <2>. QED
    BY <1>0, <1>4, <2>1, NothingSaved DEF CronReread
<1>5. ASSUME NEW j \in Jobs, CronSkip(j) PROVE AnsweredInv'
  <2>1. cron \in [pc : {"next"}, todo : SUBSET Jobs]
    BY <1>5 DEF CronSkip, TypeOK, Idle
  <2>2. cron'.pc = "next" /\ UNCHANGED rows
    BY <1>5, <2>1 DEF CronSkip
  <2>. QED
    BY <1>0, <1>2, <2>2, NothingSaved
<1>6. CASE CronScan \/ CronEnd
  <2>1. cron'.pc # "save" /\ UNCHANGED rows
    BY <1>6 DEF CronScan, CronEnd, Idle
  <2>. QED
    BY <1>0, <1>2, <2>1, NothingSaved
<1>. QED
  BY <1>3, <1>4, <1>5, <1>6 DEF Cleanup, CronStep

LEMMA CourseGoneAnswered ==
  ASSUME TypeOK, AnsweredInv, NEW c \in Courses, CourseGone(c)
  PROVE  AnsweredInv'
<1>0. [Next]_vars
  BY DEF Next
<1>1. UNCHANGED <<queue, edits, chats, worker, handler, cron>>
  BY DEF CourseGone
<1>2. \A j \in Jobs : rows'[j].status = rows[j].status /\ rows'[j].intent = rows[j].intent
  BY DEF CourseGone, DeleteCourse, TypeOK, MaybeRow, Row, Absent
<1>3. RowsAnswered'
  BY <1>1, <1>2 DEF AnsweredInv, RowsAnswered, Edited
<1>4. CopiesAnswered'
  BY <1>0, <1>1, CopiesStay DEF SameJobs, JobOf
<1>. QED
  BY <1>3, <1>4 DEF AnsweredInv

\* A job never reports SUCCESS without its exchange in the chat history, and
\* never that the course was edited without the edit: whatever stale entity a
\* request, the worker, a second callback or the cron saves over it, and
\* whatever is lost, repeated, restarted or deleted in between.
THEOREM AnswersCorrect == Spec => []SuccessIsAnswered
<1>1. Init => AnsweredInv
  BY DEF Init, AnsweredInv, RowsAnswered, CopiesAnswered, Absent, Idle
<1>2. TypeOK /\ OwnCourses /\ AnsweredInv /\ [Next]_vars => AnsweredInv'
  <2>. SUFFICES ASSUME TypeOK, OwnCourses, AnsweredInv, [Next]_vars
                PROVE  AnsweredInv'
    OBVIOUS
  <2>1. ASSUME NEW j \in Jobs, RequestStep(j) PROVE AnsweredInv'
    BY <2>1, RequestAnswered
  <2>2. ASSUME NEW h \in Handlers, HandlerStep(h) PROVE AnsweredInv'
    BY <2>2, HandlerAnswered
  <2>3. ASSUME NEW c \in Courses, CourseGone(c) PROVE AnsweredInv'
    BY <2>3, CourseGoneAnswered
  <2>4. CASE WorkerStep
    BY <2>4, WorkerAnswered
  <2>5. CASE PythonStep
    BY <2>5, PythonAnswered
  <2>6. CASE Cleanup
    BY <2>6, CronAnswered
  <2>7. CASE Crash
    <3>1. CopiesAnswered'
      BY <2>7 DEF Crash, CopiesAnswered, Idle
    <3>. QED
      BY <2>7, <3>1, NothingSaved DEF Crash, tables
  <2>8. CASE UNCHANGED <<rows, queue, worker, handler, cron>>
    <3>1. CopiesAnswered'
      BY <2>8, CopiesStay DEF SameJobs, JobOf
    <3>. QED
      BY <2>8, <3>1, NothingSaved
  <2>. QED
    BY <2>1, <2>2, <2>3, <2>4, <2>5, <2>6, <2>7, <2>8
    DEF Next, vars, tables, Age, ToggleStep, ToggleLoad, ToggleSave, ToggleFails
<1>3. AnsweredInv => SuccessIsAnswered
  BY DEF AnsweredInv, RowsAnswered, Edited, SuccessIsAnswered
<1>. QED
  BY <1>1, <1>2, <1>3, TypeCorrect, PTL DEF Spec

-----------------------------------------------------------------------------
(* A PENDING job is in the queue, unless the queue, the database or the    *)
(* process fails                                                           *)

NothingIsLost ==
  Faults \cap {"queueAdd", "dbRead", "dbWrite", "crash", "courseGone"} = {}

Waiting(j) ==
  \E i \in DOMAIN queue : JobOf(i) = j /\ queue[i].state = "waiting"

\* The save of a worker that loaded the job PROCESSING need not write the
\* status, so its own entry does not count for a job that was reset since.
ResetBehindTheWorker ==
  worker.pc = "save" =>
    LET j == JobOf(worker.entry)
    IN  rows[j].status = "PENDING" /\ worker.row.status = "PROCESSING"
          => WillEnqueue(j) \/ Waiting(j)

\* What a callback and the cron hold, they loaded unfinished, and what the
\* worker refuses, it has marked PROCESSING: FAILED and SUCCESS are changes
\* TypeORM writes.
CopiesAreUnfinished ==
  /\ \A h \in Handlers : handler[h].pc # "idle" => handler[h].row.status \in Active
  /\ worker.pc \in {"course", "refuse"} => worker.row.status = "PROCESSING"
  /\ cron.pc = "save" => cron.row.status = "PROCESSING"

QueueInv == PendingIsQueued /\ ResetBehindTheWorker /\ CopiesAreUnfinished

\* The worker's entry is the one BullMQ marked active, whatever the others add.
EntryIsActive ==
  worker.pc # "idle" =>
    worker.entry \in DOMAIN queue /\ queue[worker.entry].state = "active"

\* What the worker and the handlers did not touch stays queued: a step that
\* makes no job PENDING, lets the entries and the code in flight of every
\* PENDING job be, and does not advance the worker, keeps QueueInv.
LEMMA StillQueued ==
  ASSUME QueueInv, CopiesAreUnfinished', UNCHANGED worker,
         \A j \in Jobs : rows'[j].status = "PENDING" =>
           /\ rows[j].status = "PENDING"
           /\ WillEnqueue(j) => WillEnqueue(j)' \/ Waiting(j)'
           /\ Waiting(j) => Waiting(j)'
           /\ Queued(j) => Queued(j)',
         worker.pc = "save" => /\ JobOf(worker.entry) \in Jobs
                               /\ JobOf(worker.entry)' = JobOf(worker.entry)
  PROVE  QueueInv'
<1>1. \A j \in Jobs : Waiting(j)' => Queued(j)'
  BY DEF Waiting, Queued
<1>2. PendingIsQueued'
  BY <1>1 DEF QueueInv, PendingIsQueued
<1>3. ResetBehindTheWorker'
  BY DEF QueueInv, ResetBehindTheWorker
<1>. QED
  BY <1>2, <1>3 DEF QueueInv

\* An added entry waits, and those there were are as they were.
LEMMA AddKeepsEntries ==
  ASSUME TypeOK, NEW j \in Jobs, NEW c \in Courses \union {NoCourse}, AddJob(j, c)
  PROVE  /\ Waiting(j)'
         /\ \A i \in DOMAIN queue : i \in DOMAIN queue' /\ queue'[i] = queue[i]
<1>1. /\ [job |-> j, course |-> c] \in Payload /\ queue \in Seq(EntryOf(Payload))
      /\ Add([job |-> j, course |-> c])
  BY DEF Payload, TypeOK, Entry, AddJob
<1>2. \E i \in DOMAIN queue' :
        queue'[i].data = [job |-> j, course |-> c] /\ queue'[i].state = "waiting"
  BY <1>1, AddType
<1>. QED
  BY <1>2, AddJobType DEF Waiting, JobOf

\* A step that leaves the queue alone leaves the entries where they are.
LEMMA QueueAlone ==
  ASSUME TypeOK, UNCHANGED <<queue, worker>>
  PROVE  /\ \A k \in Jobs : Waiting(k) => Waiting(k)'
         /\ \A k \in Jobs : Queued(k) => Queued(k)'
         /\ worker.pc = "save" => /\ JobOf(worker.entry) \in Jobs
                                  /\ JobOf(worker.entry)' = JobOf(worker.entry)
  BY WorkerFields, EntryJob DEF Waiting, Queued, JobOf

\* So does an added entry, and the job it is added for waits.
LEMMA QueueGrows ==
  ASSUME TypeOK, UNCHANGED worker, NEW j \in Jobs, NEW c \in Courses \union {NoCourse},
         AddJob(j, c)
  PROVE  /\ Waiting(j)'
         /\ \A k \in Jobs : Waiting(k) => Waiting(k)'
         /\ \A k \in Jobs : Queued(k) => Queued(k)'
         /\ worker.pc = "save" => /\ JobOf(worker.entry) \in Jobs
                                  /\ JobOf(worker.entry)' = JobOf(worker.entry)
  BY AddKeepsEntries, WorkerFields, EntryJob DEF Waiting, Queued, JobOf

LEMMA RequestQueue ==
  ASSUME NothingIsLost, TypeOK, QueueInv, gone = {}, NEW j \in Jobs, RequestStep(j)
  PROVE  QueueInv'
<1>1. UNCHANGED worker /\ UNCHANGED handler /\ UNCHANGED cron
  BY DEF RequestStep, RequestFind, RequestReject, RequestCheckActive, RequestInsert,
         RequestSaveCourse, RequestSaveCourseFails, RequestEnqueue,
         RequestEnqueueFails, RequestSaveFailure, RequestSaveFailureFails
<1>2. CopiesAreUnfinished'
  BY <1>1 DEF QueueInv, CopiesAreUnfinished
<1>3. \A k \in Jobs : k # j => request'[k] = request[k]
  BY RequestCopies
<1>4. ASSUME NEW k \in Jobs, k # j, WillEnqueue(k) PROVE WillEnqueue(k)'
  BY <1>1, <1>3, <1>4 DEF WillEnqueue
<1>5. ASSUME request[j].pc \notin {"inserted", "saved", "addFailed"}, WillEnqueue(j)
      PROVE  WillEnqueue(j)'
  BY <1>1, <1>5 DEF WillEnqueue
<1>6. CASE RequestFind(j) \/ RequestCheckActive(j) \/ RequestReject(j)
  <2>1. UNCHANGED <<rows, queue>> /\ request[j].pc \notin {"inserted", "saved", "addFailed"}
    BY <1>6 DEF RequestFind, RequestCheckActive, RequestReject, tables
  <2>. QED
    BY <1>1, <1>2, <1>4, <1>5, <2>1, QueueAlone, StillQueued
<1>7. CASE RequestInsert(j)
  <2>1. UNCHANGED queue
    BY <1>7 DEF RequestInsert
  <2>2. WillEnqueue(j)'
    <3>1. request[j] \in Copied
      BY <1>7, CopyFields DEF RequestInsert, HasCopy
    <3>2. request'[j].pc = "inserted"
      BY <1>7, <3>1 DEF RequestInsert, TypeOK, Copied
    <3>. QED
      BY <3>2 DEF WillEnqueue
  <2>3. \A k \in Jobs : k # j => rows'[k] = rows[k]
    BY <1>7 DEF RequestInsert, TypeOK
  <2>4. PendingIsQueued'
    BY <1>1, <1>4, <2>1, <2>2, <2>3, QueueAlone DEF QueueInv, PendingIsQueued
  <2>5. ResetBehindTheWorker'
    BY <1>1, <1>4, <2>1, <2>2, <2>3, QueueAlone DEF QueueInv, ResetBehindTheWorker
  <2>. QED
    BY <1>2, <2>4, <2>5 DEF QueueInv
<1>8. CASE RequestSaveCourse(j)
  <2>1. UNCHANGED <<rows, queue>>
    BY <1>8 DEF RequestSaveCourse
  <2>2. WillEnqueue(j)'
    BY <1>8 DEF RequestSaveCourse, WillEnqueue, TypeOK
  <2>. QED
    BY <1>1, <1>2, <1>4, <2>1, <2>2, QueueAlone, StillQueued
<1>9. CASE RequestEnqueue(j)
  <2>1. UNCHANGED rows /\ AddJob(j, CourseOf[j])
    BY <1>9 DEF RequestEnqueue, tables
  <2>2. CourseOf[j] \in Courses \union {NoCourse}
    BY CourseNumbers
  <2>. QED
    BY <1>1, <1>2, <1>4, <2>1, <2>2, QueueGrows, StillQueued
<1>10. CASE RequestEnqueueFails(j)
  <2>1. UNCHANGED rows /\ (AddJob(j, CourseOf[j]) \/ UNCHANGED queue)
    BY <1>10 DEF RequestEnqueueFails, AddRejected, tables
  <2>2. WillEnqueue(j)'
    BY <1>10 DEF RequestEnqueueFails, WillEnqueue, TypeOK
  <2>3. CourseOf[j] \in Courses \union {NoCourse}
    BY CourseNumbers
  <2>4. CASE UNCHANGED queue
    BY <1>1, <1>2, <1>4, <2>1, <2>2, <2>4, QueueAlone, StillQueued
  <2>5. CASE AddJob(j, CourseOf[j])
    BY <1>1, <1>2, <1>4, <2>1, <2>2, <2>3, <2>5, QueueGrows, StillQueued
  <2>. QED
    BY <2>1, <2>4, <2>5
<1>11. CASE RequestSaveFailure(j)
  <2>1. UNCHANGED queue
    BY <1>11 DEF RequestSaveFailure
  <2>. PICK n, e : n = NewJob(CourseOf[j]) /\ e = MarkFailed(n, "QUEUE_ERROR")
    OBVIOUS
  <2>2. n.status = "PENDING" /\ e.status = "FAILED"
    BY DEF MarkFailed, NewJob
  <2>3. SaveRow(j, n, e)
    BY <1>11 DEF RequestSaveFailure
  <2>4. /\ rows'[j].status = "FAILED"
        /\ \A k \in Jobs : k # j => rows'[k] = rows[k]
    BY <2>2, <2>3, StatusIsWritten DEF TypeOK
  <2>. QED
    BY <1>1, <1>2, <1>4, <2>1, <2>4, QueueAlone, StillQueued
<1>12. CASE RequestSaveCourseFails(j)
  BY <1>12 DEF RequestSaveCourseFails, NothingIsLost
<1>13. CASE RequestSaveFailureFails(j)
  <2>1. UNCHANGED <<rows, queue>> /\ rows[j].status # "PENDING"
    BY <1>13 DEF RequestSaveFailureFails, SaveThrows, NothingIsLost, Exists, tables
  <2>. QED
    BY <1>1, <1>2, <1>4, <2>1, QueueAlone, StillQueued
<1>. QED
  BY <1>6, <1>7, <1>8, <1>9, <1>10, <1>11, <1>12, <1>13 DEF RequestStep

\* An added entry, or none, leaves the worker its entry.
LEMMA OthersLeaveTheEntry ==
  ASSUME TypeOK, EntryIsActive, UNCHANGED worker,
         \/ UNCHANGED queue
         \/ \E j \in Jobs, c \in Courses \union {NoCourse} : AddJob(j, c)
  PROVE  EntryIsActive'
  BY AddKeepsEntries DEF EntryIsActive

LEMMA EntryStaysActive ==
  ASSUME TypeOK, OwnCourses, EntryIsActive, [Next]_vars
  PROVE  EntryIsActive'
<1>1. ASSUME NEW j \in Jobs, RequestStep(j) PROVE EntryIsActive'
  <2>1. UNCHANGED worker /\ (UNCHANGED queue \/ AddJob(j, CourseOf[j]))
    BY <1>1
    DEF RequestStep, RequestFind, RequestReject, RequestCheckActive, RequestInsert,
        RequestSaveCourse, RequestSaveCourseFails, RequestEnqueue,
        RequestEnqueueFails, AddRejected, RequestSaveFailure, RequestSaveFailureFails
  <2>. QED
    BY <2>1, CourseNumbers, OthersLeaveTheEntry
<1>2. ASSUME NEW h \in Handlers, HandlerStep(h) PROVE EntryIsActive'
  <2>1. CASE /\ handler[h].pc = "enqueue" /\ UNCHANGED worker
             /\ AddJob(handler[h].job, handler[h].row.course)
    <3>1. handler[h].job \in Jobs /\ handler[h].row.course \in Courses \union {NoCourse}
      BY <2>1, HandlerFields, CourseNumbers DEF OwnCourses, OwnHandlers, Own
    <3>. QED
      BY <2>1, <3>1, OthersLeaveTheEntry
  <2>2. CASE UNCHANGED <<queue, worker>>
    BY <2>2, OthersLeaveTheEntry
  <2>. QED
    BY <1>2, <2>1, <2>2
    DEF HandlerStep, DeleteDays, CommitEdit, CommitAnswer, SaveRetry, ReEnqueue,
        SaveFailure, HandlerThrow, AddRejected
<1>3. ASSUME NEW i \in DOMAIN queue, WorkerTake(i) PROVE EntryIsActive'
  <2>1. worker'.entry = i
    BY <1>3 DEF WorkerTake
  <2>2. queue[i] \in Entry /\ queue' = [queue EXCEPT ![i].state = "active"]
    BY <1>3, EntryJob DEF WorkerTake, SetEntry
  <2>3. [queue[i] EXCEPT !.state = "active"].state = "active"
    BY <2>2 DEF Entry, EntryOf, EntryStates
  <2>4. i \in DOMAIN queue' /\ queue'[i].state = "active"
    BY <2>2, <2>3 DEF TypeOK
  <2>. QED
    BY <2>1, <2>4 DEF EntryIsActive
<1>4. CASE WorkerLoad
  BY <1>4 DEF WorkerLoad, EntryIsActive
<1>5. CASE WorkerSaveProcessing \/ WorkerFindCourse \/ WorkerRefuse \/ WorkerPost
  <2>1. worker \in WorkerAtWork /\ worker.pc # "idle" /\ UNCHANGED queue
    BY <1>5, WorkerFields
    DEF WorkerSaveProcessing, WorkerFindCourse, WorkerRefuse, WorkerPost
  <2>2. worker'.entry = worker.entry
    BY <1>5, <2>1
    DEF WorkerSaveProcessing, WorkerFindCourse, WorkerRefuse, WorkerPost, WorkerAtWork
  <2>. QED
    BY <2>1, <2>2 DEF EntryIsActive
<1>6. CASE WorkerDrop \/ WorkerSaveRefused \/ WorkerAck \/ WorkerThrow
  BY <1>6 DEF WorkerDrop, WorkerSaveRefused, WorkerAck, WorkerThrow, EntryIsActive, Idle
<1>7. CASE UNCHANGED <<queue, worker>>
  BY <1>7, OthersLeaveTheEntry
<1>8. CASE Crash
  BY <1>8 DEF Crash, EntryIsActive, Idle
<1>. QED
  BY <1>1, <1>2, <1>3, <1>4, <1>5, <1>6, <1>7, <1>8
  DEF Next, vars, WorkerStep, Age, ToggleStep, ToggleLoad, ToggleSave, ToggleFails,
      PythonStep, CallbackLost, CallbackIgnored, SuccessBegin, FailureBegin,
      CallbackBegin, Cleanup, CourseGone

\* A worker that neither loads nor saves a row keeps QueueInv: its entry is
\* not one of those that wait.
LEMMA WorkerElsewhere ==
  ASSUME QueueInv, UNCHANGED <<request, handler, cron>>,
         \A j \in Jobs : rows'[j].status = "PENDING" =>
           rows[j].status = "PENDING" /\ (Queued(j) => Queued(j)'),
         worker'.pc # "save",
         worker'.pc \in {"course", "refuse"} => worker'.row.status = "PROCESSING"
  PROVE  QueueInv'
<1>1. \A j \in Jobs : WillEnqueue(j)' = WillEnqueue(j)
  BY DEF WillEnqueue
<1>2. PendingIsQueued'
  BY <1>1 DEF QueueInv, PendingIsQueued
<1>3. ResetBehindTheWorker'
  BY DEF ResetBehindTheWorker
<1>4. CopiesAreUnfinished'
  BY DEF QueueInv, CopiesAreUnfinished
<1>. QED
  BY <1>2, <1>3, <1>4 DEF QueueInv

LEMMA WorkerQueue ==
  ASSUME NothingIsLost, TypeOK, OwnCourses, QueueInv, EntryIsActive, gone = {}, WorkerStep
  PROVE  QueueInv'
<1>1. ASSUME NEW i \in DOMAIN queue, WorkerTake(i) PROVE QueueInv'
  <2>1. /\ worker'.pc = "load" /\ worker'.entry = i
        /\ \A k \in DOMAIN queue : /\ k \in DOMAIN queue' /\ queue'[k].data = queue[k].data
                                   /\ k # i => queue'[k].state = queue[k].state
    BY <1>1 DEF WorkerTake, SetEntry, TypeOK, Entry, EntryOf, EntryStates
  <2>2. worker.pc = "idle"
    BY <1>1 DEF WorkerTake, Idle
  <2>3. \A j \in Jobs : Queued(j) => Queued(j)'
    BY <2>1, <2>2 DEF Queued, JobOf
  <2>. QED
    BY <1>1, <2>1, <2>3, WorkerElsewhere DEF WorkerTake, tables
<1>2. CASE WorkerLoad
  <2>1. /\ worker'.pc = "save" /\ worker'.entry = worker.entry
        /\ worker'.row = rows[JobOf(worker.entry)]
        /\ UNCHANGED <<rows, queue, request, handler, cron>>
    BY <1>2 DEF WorkerLoad, tables
  <2>2. \A j \in Jobs : (Queued(j) => Queued(j)') /\ WillEnqueue(j)' = WillEnqueue(j)
    BY <2>1 DEF Queued, JobOf, WillEnqueue
  <2>3. PendingIsQueued'
    BY <2>1, <2>2 DEF QueueInv, PendingIsQueued
  <2>4. ResetBehindTheWorker'
    BY <2>1 DEF ResetBehindTheWorker, JobOf
  <2>5. CopiesAreUnfinished'
    BY <2>1 DEF QueueInv, CopiesAreUnfinished
  <2>. QED
    BY <2>3, <2>4, <2>5 DEF QueueInv
<1>3. ASSUME WorkerDrop \/ WorkerAck \/ WorkerThrow PROVE QueueInv'
  <2>1. /\ worker.entry \in DOMAIN queue
        /\ queue[worker.entry].state = "active"
        /\ worker' = Idle /\ UNCHANGED <<rows, request, handler, cron>>
    BY <1>3 DEF WorkerDrop, WorkerAck, WorkerThrow, WorkerCanThrow, EntryIsActive, tables
  <2>2. worker.pc \in {"load", "save"} => ~Exists(JobOf(worker.entry))
    <3>1. CASE WorkerThrow
      BY <3>1 DEF WorkerThrow, WorkerCanThrow, SaveThrows, NothingIsLost
    <3>. QED
      BY <1>3, <3>1 DEF WorkerDrop, WorkerAck, NothingIsLost
  <2>3. \A k \in DOMAIN queue : k # worker.entry => k \in DOMAIN queue' /\ queue'[k] = queue[k]
    BY <1>3 DEF WorkerDrop, WorkerAck, WorkerThrow, SetEntry, TypeOK
  <2>4. ASSUME NEW j \in Jobs, rows[j].status = "PENDING", Queued(j) PROVE Queued(j)'
    <3>1. PICK i \in DOMAIN queue :
            /\ JobOf(i) = j
            /\ \/ queue[i].state = "waiting"
               \/ worker.pc \in {"load", "save"} /\ worker.entry = i
      BY <2>4 DEF Queued
    <3>2. i # worker.entry
      BY <2>1, <2>2, <2>4, <3>1 DEF Exists
    <3>3. queue[i].state = "waiting"
      BY <3>1, <3>2
    <3>. QED
      BY <2>3, <3>1, <3>2, <3>3 DEF Queued, JobOf
  <2>. QED
    BY <2>1, <2>4, WorkerElsewhere DEF Idle
<1>4. CASE WorkerSaveProcessing
  <2>. PICK j \in Jobs : j = JobOf(worker.entry)
    BY <1>4, WorkerFields, EntryJob DEF WorkerSaveProcessing
  <2>. PICK e : e = IncrementAttempt(MarkProcessing(worker.row))
    OBVIOUS
  <2>1. worker \in WorkerAtWork /\ worker.pc = "save"
    BY <1>4, WorkerFields DEF WorkerSaveProcessing
  <2>2. e.status = "PROCESSING"
    BY <2>1, MethodsKeepTheIntent DEF WorkerAtWork
  <2>3. SaveRow(j, worker.row, e) /\ UNCHANGED <<queue, request, handler, cron>>
    BY <1>4 DEF WorkerSaveProcessing
  <2>4. worker'.pc = "course" /\ worker'.row = e
    BY <1>4, <2>1 DEF WorkerSaveProcessing, WorkerAtWork
  <2>5. \A k \in Jobs : k # j => rows'[k] = rows[k]
    BY <2>3 DEF SaveRow, TypeOK
  <2>6. rows'[j].status = "PENDING" =>
          rows[j].status = "PENDING" /\ worker.row.status = "PROCESSING"
    <3>1. PICK r \in Saves(worker.row, e, rows[j]) : rows' = [rows EXCEPT ![j] = r]
      BY <2>3 DEF SaveRow
    <3>2. rows'[j] = r
      BY <3>1 DEF TypeOK
    <3>. QED
      BY <2>2, <3>1, <3>2 DEF Saves, ChangedColumns
  <2>7. \A k \in Jobs : WillEnqueue(k)' = WillEnqueue(k) /\ (Waiting(k) => Queued(k)')
    BY <2>3 DEF WillEnqueue, Waiting, Queued, JobOf
  <2>8. ASSUME NEW k \in Jobs, rows'[k].status = "PENDING"
        PROVE  WillEnqueue(k)' \/ Queued(k)'
    <3>1. CASE k = j
      BY <2>1, <2>6, <2>7, <2>8, <3>1 DEF QueueInv, ResetBehindTheWorker
    <3>2. CASE k # j
      <4>1. WillEnqueue(k) \/ Queued(k)
        BY <2>5, <2>8, <3>2 DEF QueueInv, PendingIsQueued
      <4>2. Queued(k) => Waiting(k)
        BY <3>2 DEF Queued, Waiting
      <4>. QED
        BY <2>7, <4>1, <4>2
    <3>. QED
      BY <3>1, <3>2
  <2>9. PendingIsQueued'
    BY <2>8 DEF PendingIsQueued
  <2>10. ResetBehindTheWorker' /\ CopiesAreUnfinished'
    BY <2>2, <2>3, <2>4 DEF QueueInv, ResetBehindTheWorker, CopiesAreUnfinished
  <2>. QED
    BY <2>9, <2>10 DEF QueueInv
<1>5. CASE WorkerFindCourse \/ WorkerRefuse \/ WorkerPost
  <2>1. worker \in WorkerAtWork /\ worker.pc \in {"course", "post"}
    BY <1>5, WorkerFields DEF WorkerFindCourse, WorkerRefuse, WorkerPost
  <2>2. /\ worker'.pc \in {"refuse", "post", "posted"}
        /\ worker'.pc = "refuse" => worker.pc = "course" /\ worker'.row = worker.row
        /\ UNCHANGED <<rows, queue, request, handler, cron>>
    BY <1>5, <2>1 DEF WorkerFindCourse, WorkerRefuse, WorkerPost, WorkerAtWork, tables
  <2>3. \A j \in Jobs : Queued(j) => Queued(j)'
    BY <2>1, <2>2 DEF Queued, JobOf
  <2>4. worker'.pc \in {"course", "refuse"} => worker'.row.status = "PROCESSING"
    BY <2>2 DEF QueueInv, CopiesAreUnfinished
  <2>. QED
    BY <2>2, <2>3, <2>4, WorkerElsewhere
<1>6. CASE WorkerSaveRefused
  <2>. PICK j \in Jobs : j = JobOf(worker.entry)
    BY <1>6, WorkerFields, EntryJob DEF WorkerSaveRefused
  <2>. PICK e : e = MarkFailed(worker.row, "NO_CONTEXT")
    OBVIOUS
  <2>1. /\ worker \in WorkerAtWork /\ worker.pc = "refuse"
        /\ worker.row.status = "PROCESSING"
    BY <1>6, WorkerFields DEF WorkerSaveRefused, QueueInv, CopiesAreUnfinished
  <2>2. e.status = "FAILED"
    BY <2>1, MethodsKeepTheIntent DEF WorkerAtWork
  <2>3. /\ SaveRow(j, worker.row, e) /\ SetEntry(worker.entry, "completed")
        /\ UNCHANGED <<request, handler, cron>> /\ worker' = Idle
    BY <1>6 DEF WorkerSaveRefused
  <2>4. rows'[j].status = "FAILED" /\ \A k \in Jobs : k # j => rows'[k] = rows[k]
    BY <2>1, <2>2, <2>3, StatusIsWritten DEF TypeOK
  <2>5. \A k \in DOMAIN queue : k # worker.entry => k \in DOMAIN queue' /\ queue'[k] = queue[k]
    BY <2>3 DEF SetEntry, TypeOK
  <2>6. ASSUME NEW k \in Jobs, Queued(k) PROVE Queued(k)'
    <3>1. PICK i \in DOMAIN queue : JobOf(i) = k /\ queue[i].state = "waiting"
      BY <2>1, <2>6 DEF Queued
    <3>2. i # worker.entry
      BY <2>1, <3>1 DEF EntryIsActive
    <3>. QED
      BY <2>5, <3>1, <3>2 DEF Queued, JobOf
  <2>. QED
    BY <2>3, <2>4, <2>6, WorkerElsewhere DEF Idle
<1>. QED
  BY <1>1, <1>2, <1>3, <1>4, <1>5, <1>6 DEF WorkerStep

\* Handlers other than h still add the entries they are about to add.
LEMMA OtherHandlers ==
  ASSUME TypeOK, NEW h \in Handlers, UNCHANGED request,
         \A g \in Handlers : g # h => handler'[g] = handler[g],
         NEW k \in Jobs, WillEnqueue(k),
         handler[h].pc = "enqueue" => handler[h].job # k
  PROVE  WillEnqueue(k)'
  BY DEF WillEnqueue

\* What remains of a callback is Idle, or holds the job and the row it loaded.
LEMMA HandlerKeeps ==
  ASSUME TypeOK, NEW h \in Handlers, HandlerStep(h)
  PROVE  /\ UNCHANGED <<worker, request, cron>>
         /\ \A g \in Handlers : g # h => handler'[g] = handler[g]
         /\ handler[h].pc # "idle"
         /\ \/ handler'[h] = Idle
            \/ /\ handler'[h].row = handler[h].row /\ handler'[h].job = handler[h].job
               /\ handler'[h].pc \in {"commit", "enqueue"}
<1>1. UNCHANGED <<worker, request, cron>> /\ handler[h].pc # "idle"
  BY DEF HandlerStep, DeleteDays, CommitEdit, CommitAnswer, SaveRetry, ReEnqueue,
         SaveFailure, HandlerThrow
<1>2. \A g \in Handlers : g # h => handler'[g] = handler[g]
  BY DEF HandlerStep, DeleteDays, CommitEdit, CommitAnswer, SaveRetry, ReEnqueue,
         SaveFailure, HandlerThrow, TypeOK
<1>3. CASE handler' = [handler EXCEPT ![h] = Idle]
  BY <1>1, <1>2, <1>3 DEF TypeOK
<1>4. CASE DeleteDays(h)
  BY <1>1, <1>2, <1>4 DEF DeleteDays, TypeOK
<1>5. CASE SaveRetry(h)
  <2>1. handler[h] \in Begun
    BY <1>5, HandlerFields DEF SaveRetry
  <2>. QED
    BY <1>1, <1>2, <1>5, <2>1 DEF SaveRetry, Begun, TypeOK
<1>. QED
  BY <1>3, <1>4, <1>5
  DEF HandlerStep, CommitEdit, CommitAnswer, ReEnqueue, SaveFailure, HandlerThrow

LEMMA HandlerQueue ==
  ASSUME NothingIsLost, TypeOK, OwnCourses, QueueInv, NEW h \in Handlers, HandlerStep(h)
  PROVE  QueueInv'
<1>1. UNCHANGED <<worker, request, cron>>
  BY HandlerKeeps
<1>2. \A g \in Handlers : g # h => handler'[g] = handler[g]
  BY HandlerKeeps
<1>3. /\ handler[h].pc # "idle"
      /\ handler[h].job \in Jobs /\ handler[h].row \in Row
      /\ handler[h].row.status \in Active
      /\ handler[h].row.course \in Courses \union {NoCourse}
  BY HandlerKeeps, HandlerFields, CourseNumbers
  DEF QueueInv, CopiesAreUnfinished, OwnCourses, OwnHandlers, Own
<1>4. CopiesAreUnfinished'
  BY <1>1, <1>2, <1>3, HandlerKeeps DEF QueueInv, CopiesAreUnfinished, Idle
<1>5. CASE CommitEdit(h) \/ CommitAnswer(h) \/ SaveFailure(h)
  <2>1. PICK e :
          /\ SaveRow(handler[h].job, handler[h].row, e)
          /\ e.status \in Terminal
    <3>1. /\ MarkFailed(handler[h].row, "LLM_ERROR").status = "FAILED"
          /\ \A i : MarkSuccessWithIntent(handler[h].row, i).status = "SUCCESS"
      BY <1>3 DEF MarkFailed, MarkSuccessWithIntent, Row
    <3>. QED
      BY <1>5, <3>1 DEF CommitEdit, CommitAnswer, SaveFailure, Terminal
  <2>2. e.status # handler[h].row.status
    BY <1>3, <2>1 DEF Active, Terminal
  <2>3. /\ rows'[handler[h].job].status # "PENDING"
        /\ \A k \in Jobs : k # handler[h].job => rows'[k] = rows[k]
    <3>1. handler[h].job \in Jobs /\ rows \in [Jobs -> MaybeRow]
      BY <1>3 DEF TypeOK
    <3>2. /\ rows'[handler[h].job].status = e.status
          /\ \A k \in Jobs : k # handler[h].job => rows'[k] = rows[k]
      BY <2>1, <2>2, <3>1, StatusIsWritten
    <3>. QED
      BY <2>1, <3>2 DEF Terminal
  <2>4. handler[h].pc # "enqueue" /\ UNCHANGED queue
    BY <1>5 DEF CommitEdit, CommitAnswer, SaveFailure
  <2>. QED
    BY <1>1, <1>2, <1>4, <2>3, <2>4, QueueAlone, OtherHandlers, StillQueued
<1>6. CASE SaveRetry(h)
  <2>. PICK j \in Jobs : j = handler[h].job
    BY <1>3
  <2>1. handler[h].pc # "enqueue" /\ UNCHANGED queue
    BY <1>6 DEF SaveRetry
  <2>2. SaveRow(j, handler[h].row, ResetForRetry(handler[h].row))
    BY <1>6 DEF SaveRetry
  <2>3. \A k \in Jobs : k # j => rows'[k] = rows[k]
    BY <2>2 DEF SaveRow, TypeOK
  <2>4. handler'[h].pc = "enqueue" /\ handler'[h].job = j
    <3>1. handler[h] \in Begun
      BY <1>6, HandlerFields DEF SaveRetry
    <3>. QED
      BY <1>6, <3>1 DEF SaveRetry, Begun, TypeOK
  <2>5. WillEnqueue(j)'
    BY <2>4 DEF WillEnqueue
  <2>6. \A k \in Jobs : k # j => (WillEnqueue(k) => WillEnqueue(k)')
    BY <1>1, <1>2, <2>1, OtherHandlers
  <2>7. PendingIsQueued'
    BY <1>1, <2>1, <2>3, <2>5, <2>6, QueueAlone DEF QueueInv, PendingIsQueued
  <2>8. ResetBehindTheWorker'
    BY <1>1, <2>1, <2>3, <2>5, <2>6, QueueAlone DEF QueueInv, ResetBehindTheWorker
  <2>. QED
    BY <1>4, <2>7, <2>8 DEF QueueInv
<1>7. CASE AddJob(handler[h].job, handler[h].row.course) /\ UNCHANGED rows
  BY <1>1, <1>2, <1>3, <1>4, <1>7, QueueGrows, OtherHandlers, StillQueued
<1>8. CASE UNCHANGED <<rows, queue>> /\ handler[h].pc # "enqueue"
  BY <1>1, <1>2, <1>4, <1>8, QueueAlone, OtherHandlers, StillQueued
<1>9. CASE ReEnqueue(h) \/ HandlerThrow(h)
  <2>1. ~("queueAdd" \in Faults)
    BY DEF NothingIsLost
  <2>. QED
    BY <1>7, <1>8, <1>9, <2>1 DEF ReEnqueue, HandlerThrow, AddRejected, tables
<1>10. CASE DeleteDays(h)
  BY <1>8, <1>10 DEF DeleteDays, tables
<1>. QED
  BY <1>5, <1>6, <1>9, <1>10 DEF HandlerStep

LEMMA PythonQueue ==
  ASSUME TypeOK, QueueInv, PythonStep
  PROVE  QueueInv'
<1>1. UNCHANGED <<rows, queue, request, worker, cron>>
  BY DEF PythonStep, CallbackLost, CallbackIgnored, SuccessBegin, FailureBegin,
         CallbackBegin, tables
<1>2. CASE UNCHANGED handler
  <2>1. CopiesAreUnfinished' /\ \A k \in Jobs : WillEnqueue(k) => WillEnqueue(k)'
    BY <1>1, <1>2 DEF QueueInv, CopiesAreUnfinished, WillEnqueue
  <2>. QED
    BY <1>1, <2>1, QueueAlone, StillQueued
<1>3. ASSUME NEW t \in tasks, NEW h \in Handlers,
             NEW pc \in {"edit", "answer", "retry", "fail"}, CallbackBegin(h, t, pc)
      PROVE  QueueInv'
  <2>1. /\ handler[h].pc = "idle"
        /\ \A g \in Handlers : g # h => handler'[g] = handler[g]
        /\ handler'[h].row = rows[JobOf(t.entry)]
        /\ rows[JobOf(t.entry)].status \in Active
    BY <1>3 DEF CallbackBegin, Idle, TypeOK
  <2>2. CopiesAreUnfinished'
    BY <1>1, <2>1 DEF QueueInv, CopiesAreUnfinished
  <2>3. \A k \in Jobs : WillEnqueue(k) => WillEnqueue(k)'
    BY <1>1, <2>1, OtherHandlers
  <2>. QED
    BY <1>1, <2>2, <2>3, QueueAlone, StillQueued
<1>. QED
  BY <1>2, <1>3 DEF PythonStep, CallbackLost, CallbackIgnored, SuccessBegin, FailureBegin

\* A step that changes neither the code in flight nor the queue, and makes no
\* job PENDING.
LEMMA OutsideTheQueue ==
  ASSUME TypeOK, QueueInv, UNCHANGED <<queue, request, worker, handler>>,
         cron'.pc = "save" => cron'.row.status = "PROCESSING",
         \A j \in Jobs : rows'[j].status = "PENDING" => rows[j].status = "PENDING"
  PROVE  QueueInv'
<1>1. CopiesAreUnfinished'
  BY DEF QueueInv, CopiesAreUnfinished
<1>2. \A k \in Jobs : WillEnqueue(k) => WillEnqueue(k)'
  BY DEF WillEnqueue
<1>. QED
  BY <1>1, <1>2, QueueAlone, StillQueued

LEMMA CronQueue ==
  ASSUME TypeOK, QueueInv, Cleanup
  PROVE  QueueInv'
<1>1. UNCHANGED <<queue, request, worker, handler>>
  BY DEF Cleanup
<1>2. CASE CronSaveTimeout
  <2>1. cron \in [pc : {"save"}, todo : SUBSET Jobs, job : Jobs, row : Row]
    BY <1>2 DEF CronSaveTimeout, Idle, TypeOK
  <2>2. /\ cron.row.status = "PROCESSING"
        /\ MarkFailed(cron.row, "TIMEOUT").status = "FAILED"
    BY <2>1 DEF QueueInv, CopiesAreUnfinished, MarkFailed, Row
  <2>. PICK j \in Jobs : j = cron.job
    BY <2>1
  <2>. PICK e : e = MarkFailed(cron.row, "TIMEOUT")
    OBVIOUS
  <2>5. SaveRow(j, cron.row, e) /\ rows \in [Jobs -> MaybeRow]
    BY <1>2 DEF CronSaveTimeout, TypeOK
  <2>3. rows'[j].status = "FAILED" /\ \A k \in Jobs : k # j => rows'[k] = rows[k]
    BY <2>2, <2>5, StatusIsWritten
  <2>4. cron'.pc = "next"
    BY <1>2 DEF CronSaveTimeout
  <2>. QED
    BY <1>1, <2>3, <2>4, OutsideTheQueue
<1>3. CASE UNCHANGED rows /\ cron'.pc # "save"
  BY <1>1, <1>3, OutsideTheQueue
<1>4. ASSUME NEW j \in Jobs, CronSkip(j) PROVE cron'.pc # "save"
  <2>1. cron \in [pc : {"next"}, todo : SUBSET Jobs]
    BY <1>4 DEF CronSkip, Idle, TypeOK
  <2>. QED
    BY <1>4, <2>1 DEF CronSkip
<1>5. ASSUME NEW j \in Jobs, CronReread(j) PROVE QueueInv'
  BY <1>1, <1>5, OutsideTheQueue DEF CronReread, tables
<1>6. CASE CronScan \/ CronEnd
  BY <1>3, <1>6 DEF CronScan, CronEnd, Idle, tables
<1>. QED
  BY <1>2, <1>3, <1>4, <1>5, <1>6 DEF Cleanup, CronStep, CronSkip

\* Without "courseGone" no course is ever deleted.
LEMMA NoneIsGone ==
  ASSUME "courseGone" \notin Faults, gone = {}, [Next]_vars
  PROVE  gone' = {}
  BY DEF Next, vars, tables, RequestStep, RequestFind, RequestReject,
      RequestCheckActive, RequestInsert, RequestSaveCourse, SaveCourse,
      RequestSaveCourseFails, RequestEnqueue, RequestEnqueueFails, RequestSaveFailure,
      RequestSaveFailureFails, Age, ToggleStep, ToggleLoad, ToggleSave, ToggleFails,
      HandlerStep, DeleteDays, CommitEdit, CommitAnswer, SaveRetry, ReEnqueue,
      SaveFailure, HandlerThrow, CourseGone, WorkerStep, WorkerTake, WorkerLoad,
      WorkerDrop, WorkerSaveProcessing, WorkerFindCourse, WorkerRefuse,
      WorkerSaveRefused, WorkerPost, WorkerAck, WorkerThrow, PythonStep, CallbackLost,
      CallbackIgnored, SuccessBegin, FailureBegin, CallbackBegin, Cleanup, Crash

\* With a queue.add that is rejected only when the entry is in Redis, a
\* database that answers, a process that stays up and owners who delete no
\* course, no modification is left PENDING, blocking every further one of its
\* course, with nothing that can move it: whatever callbacks, retries and stale
\* saves do, its entry waits, or the worker has yet to save it, or code in
\* flight adds one.
THEOREM PendingCorrect ==
  ASSUME NothingIsLost
  PROVE  Spec => []PendingIsQueued
<1>. DEFINE Inv == QueueInv /\ EntryIsActive /\ gone = {}
<1>1. Init => Inv
  BY DEF Init, QueueInv, PendingIsQueued, ResetBehindTheWorker,
         CopiesAreUnfinished, EntryIsActive, Absent, Idle
<1>2. TypeOK /\ OwnCourses /\ Inv /\ [Next]_vars => Inv'
  <2>. SUFFICES ASSUME TypeOK, OwnCourses, QueueInv, EntryIsActive, gone = {}, [Next]_vars
                PROVE  QueueInv'
    BY EntryStaysActive, NoneIsGone DEF NothingIsLost
  <2>1. ASSUME NEW j \in Jobs, RequestStep(j) PROVE QueueInv'
    BY <2>1, RequestQueue
  <2>2. ASSUME NEW j \in Jobs, Age(j) PROVE QueueInv'
    BY <2>2, OutsideTheQueue DEF Age, GrowsOld, QueueInv, CopiesAreUnfinished
  <2>3. ASSUME NEW h \in Handlers, HandlerStep(h) PROVE QueueInv'
    BY <2>3, HandlerQueue
  <2>4. ASSUME NEW g \in Toggles, ToggleStep(g) PROVE QueueInv'
    BY <2>4, OutsideTheQueue
    DEF ToggleStep, ToggleLoad, ToggleSave, ToggleFails, tables, QueueInv,
        CopiesAreUnfinished
  <2>5. CASE WorkerStep
    BY <2>5, WorkerQueue
  <2>6. CASE PythonStep
    BY <2>6, PythonQueue
  <2>7. CASE Cleanup
    BY <2>7, CronQueue
  <2>8. CASE Crash
    BY <2>8 DEF Crash, NothingIsLost
  <2>9. ASSUME NEW c \in Courses, CourseGone(c) PROVE QueueInv'
    BY <2>9 DEF CourseGone, NothingIsLost
  <2>10. CASE UNCHANGED vars
    BY <2>10, OutsideTheQueue DEF vars, QueueInv, CopiesAreUnfinished
  <2>. QED
    BY <2>1, <2>2, <2>3, <2>4, <2>5, <2>6, <2>7, <2>8, <2>9, <2>10
    DEF Next
<1>. QED
  BY <1>1, <1>2, TypeCorrect, PTL DEF Spec, QueueInv

-----------------------------------------------------------------------------
(* One piece of work per job, while nothing is delivered or run twice      *)

\* BullMQ confirms what it stored, Python answers an accepted modification
\* within the timeout and calls back once, and the process stays up.
NothingIsRepeated ==
  Faults \cap {"queueAck", "postTimeout", "duplicate", "crash"} = {}

EntriesOf(j) == {i \in DOMAIN queue : JobOf(i) = j}

\* What a job is worked on by: an entry that waits or that the worker has yet
\* to post, a modification Python has yet to answer, a callback under way, or,
\* in the end, an exchange in the chat history.
AtWork(i) ==
  \/ queue[i].state = "waiting"
  \/ worker.pc \in {"load", "save", "course", "refuse", "post"} /\ worker.entry = i

EntriesAtWork(j) == {i \in EntriesOf(j) : AtWork(i)}

AnswersFor(j) == {t \in tasks : JobOf(t.entry) = j}

CallbacksFor(j) == {h \in Handlers : handler[h].pc # "idle" /\ handler[h].job = j}

ExchangesOf(j) == 1..chats[j]

WorkOf(j) ==
  {<<"entry", i>> : i \in EntriesAtWork(j)}
  \union {<<"answer", t>> : t \in AnswersFor(j)}
  \union {<<"callback", h>> : h \in CallbacksFor(j)}
  \union {<<"exchange", n>> : n \in ExchangesOf(j)}

OnePieceOfWork ==
  \A j \in Jobs :
    /\ \A v, w \in WorkOf(j) : v = w
    /\ request[j].pc # "done" => WorkOf(j) = {} /\ EntriesOf(j) = {}

\* Entries whose data stays belong to the same jobs.
LEMMA SameEntries ==
  ASSUME DOMAIN queue' = DOMAIN queue,
         \A i \in DOMAIN queue : JobOf(i)' = JobOf(i)
  PROVE  \A k \in Jobs : EntriesOf(k)' = EntriesOf(k)
  BY DEF EntriesOf, JobOf

\* An added entry is the job's, waits, and disturbs no other.
LEMMA AddedEntry ==
  ASSUME TypeOK, NEW j \in Jobs, NEW c \in Courses \union {NoCourse}, AddJob(j, c)
  PROVE  /\ Len(queue) + 1 \in DOMAIN queue' \ DOMAIN queue
         /\ queue'[Len(queue) + 1] = NewEntry([job |-> j, course |-> c])
         /\ \A i \in DOMAIN queue : i \in DOMAIN queue' /\ queue'[i] = queue[i]
         /\ \A i \in DOMAIN queue' : i \in DOMAIN queue \/ i = Len(queue) + 1
         /\ EntriesOf(j)' = EntriesOf(j) \union {Len(queue) + 1}
         /\ \A k \in Jobs \ {j} : EntriesOf(k)' = EntriesOf(k)
<1>. PICK d : d = [job |-> j, course |-> c]
  OBVIOUS
<1>1. queue \in Seq(Entry) /\ queue' = Append(queue, NewEntry(d))
  BY DEF TypeOK, AddJob, Add
<1>2. /\ Len(queue) + 1 \in DOMAIN queue' \ DOMAIN queue
      /\ queue'[Len(queue) + 1] = NewEntry(d)
      /\ \A i \in DOMAIN queue : queue'[i] = queue[i]
      /\ DOMAIN queue' = DOMAIN queue \union {Len(queue) + 1}
  BY <1>1
<1>3. NewEntry(d).data.job = j
  BY DEF NewEntry
<1>4. \A k \in Jobs : EntriesOf(k)' = EntriesOf(k) \union (IF k = j THEN {Len(queue) + 1} ELSE {})
  BY <1>2, <1>3 DEF EntriesOf, JobOf
<1>. QED
  BY <1>2, <1>4

\* A step that gives no job another piece of work.
LEMMA LessWork ==
  ASSUME OnePieceOfWork,
         \A k \in Jobs : /\ EntriesAtWork(k)' \subseteq EntriesAtWork(k)
                         /\ AnswersFor(k)' \subseteq AnswersFor(k)
                         /\ CallbacksFor(k)' \subseteq CallbacksFor(k)
                         /\ ExchangesOf(k)' \subseteq ExchangesOf(k),
         \A k \in Jobs : request'[k].pc # "done" => /\ request[k].pc # "done"
                                                    /\ EntriesOf(k)' = EntriesOf(k)
  PROVE  OnePieceOfWork'
<1>1. \A k \in Jobs : WorkOf(k)' \subseteq WorkOf(k)
  BY DEF WorkOf
<1>2. ASSUME NEW j \in Jobs
      PROVE  /\ \A v, w \in WorkOf(j)' : v = w
             /\ request'[j].pc # "done" => WorkOf(j)' = {} /\ EntriesOf(j)' = {}
  BY <1>1 DEF OnePieceOfWork
<1>. QED
  BY <1>2 DEF OnePieceOfWork

\* A step that replaces the piece of work of one job, or gives it its first.
LEMMA WorkMoves ==
  ASSUME OnePieceOfWork, NEW j \in Jobs, NEW w,
         WorkOf(j)' \subseteq {w}, request'[j].pc = "done",
         \A k \in Jobs \ {j} : /\ EntriesAtWork(k)' \subseteq EntriesAtWork(k)
                               /\ AnswersFor(k)' \subseteq AnswersFor(k)
                               /\ CallbacksFor(k)' \subseteq CallbacksFor(k)
                               /\ ExchangesOf(k)' \subseteq ExchangesOf(k),
         \A k \in Jobs \ {j} : request'[k].pc # "done" => /\ request[k].pc # "done"
                                                          /\ EntriesOf(k)' = EntriesOf(k)
  PROVE  OnePieceOfWork'
<1>1. \A k \in Jobs \ {j} : WorkOf(k)' \subseteq WorkOf(k)
  BY DEF WorkOf
<1>2. ASSUME NEW k \in Jobs, k # j
      PROVE  /\ \A u, v \in WorkOf(k)' : u = v
             /\ request'[k].pc # "done" => WorkOf(k)' = {} /\ EntriesOf(k)' = {}
  BY <1>1, <1>2 DEF OnePieceOfWork
<1>. QED
  BY <1>2 DEF OnePieceOfWork

\* A job has work of one kind at most, and then only one piece of it.
LEMMA Kinds ==
  ASSUME OnePieceOfWork, NEW j \in Jobs
  PROVE  /\ \A i, k \in EntriesAtWork(j) : i = k
         /\ \A t, u \in AnswersFor(j) : t = u
         /\ \A g, h \in CallbacksFor(j) : g = h
         /\ EntriesAtWork(j) # {} => AnswersFor(j) = {} /\ CallbacksFor(j) = {} /\ ExchangesOf(j) = {}
         /\ AnswersFor(j) # {} => CallbacksFor(j) = {} /\ ExchangesOf(j) = {}
         /\ CallbacksFor(j) # {} => ExchangesOf(j) = {}
         /\ WorkOf(j) # {} => request[j].pc = "done"
<1>1. \A v, w \in WorkOf(j) : v = w
  BY DEF OnePieceOfWork
<1>2. /\ \A i \in EntriesAtWork(j) : <<"entry", i>> \in WorkOf(j)
      /\ \A t \in AnswersFor(j) : <<"answer", t>> \in WorkOf(j)
      /\ \A h \in CallbacksFor(j) : <<"callback", h>> \in WorkOf(j)
      /\ \A n \in ExchangesOf(j) : <<"exchange", n>> \in WorkOf(j)
  BY DEF WorkOf
<1>3. \A i, k : /\ <<"entry", i>> # <<"answer", k>> /\ <<"entry", i>> # <<"callback", k>>
                /\ <<"entry", i>> # <<"exchange", k>> /\ <<"answer", i>> # <<"callback", k>>
                /\ <<"answer", i>> # <<"exchange", k>> /\ <<"callback", i>> # <<"exchange", k>>
  OBVIOUS
<1>4. \A i, k \in EntriesAtWork(j) : i = k
  <2>1. \A i, k \in EntriesAtWork(j) : <<"entry", i>> = <<"entry", k>>
    BY <1>1, <1>2
  <2>. QED
    BY <2>1
<1>5. \A i, k \in AnswersFor(j) : i = k
  <2>1. \A i, k \in AnswersFor(j) : <<"answer", i>> = <<"answer", k>>
    BY <1>1, <1>2
  <2>. QED
    BY <2>1
<1>6. \A i, k \in CallbacksFor(j) : i = k
  <2>1. \A i, k \in CallbacksFor(j) : <<"callback", i>> = <<"callback", k>>
    BY <1>1, <1>2
  <2>. QED
    BY <2>1
<1>7. EntriesAtWork(j) # {} => AnswersFor(j) = {} /\ CallbacksFor(j) = {} /\ ExchangesOf(j) = {}
  BY <1>1, <1>2, <1>3
<1>8. AnswersFor(j) # {} => CallbacksFor(j) = {} /\ ExchangesOf(j) = {}
  BY <1>1, <1>2, <1>3
<1>9. CallbacksFor(j) # {} => ExchangesOf(j) = {}
  BY <1>1, <1>2, <1>3
<1>10. WorkOf(j) # {} => request[j].pc = "done"
  BY DEF OnePieceOfWork
<1>. QED
  BY <1>4, <1>5, <1>6, <1>7, <1>8, <1>9, <1>10

\* So one piece of work known is all the work the job has.
LEMMA OnlyEntry ==
  ASSUME OnePieceOfWork, NEW j \in Jobs, NEW i \in EntriesAtWork(j)
  PROVE  /\ EntriesAtWork(j) = {i} /\ AnswersFor(j) = {} /\ CallbacksFor(j) = {}
         /\ ExchangesOf(j) = {} /\ request[j].pc = "done"
<1>1. WorkOf(j) # {}
  BY DEF WorkOf
<1>. QED
  BY <1>1, Kinds

LEMMA OnlyAnswer ==
  ASSUME OnePieceOfWork, NEW j \in Jobs, NEW t \in AnswersFor(j)
  PROVE  /\ EntriesAtWork(j) = {} /\ AnswersFor(j) = {t} /\ CallbacksFor(j) = {}
         /\ ExchangesOf(j) = {} /\ request[j].pc = "done"
<1>1. WorkOf(j) # {}
  BY DEF WorkOf
<1>. QED
  BY <1>1, Kinds

LEMMA OnlyCallback ==
  ASSUME OnePieceOfWork, NEW j \in Jobs, NEW h \in CallbacksFor(j)
  PROVE  /\ EntriesAtWork(j) = {} /\ AnswersFor(j) = {} /\ CallbacksFor(j) = {h}
         /\ ExchangesOf(j) = {} /\ request[j].pc = "done"
<1>1. WorkOf(j) # {}
  BY DEF WorkOf
<1>. QED
  BY <1>1, Kinds

\* A step that leaves the queue and the worker alone, or the tasks, the
\* callbacks, the chats.
LEMMA SameWork ==
  /\ UNCHANGED <<queue, worker>> =>
       \A k \in Jobs : EntriesAtWork(k)' = EntriesAtWork(k) /\ EntriesOf(k)' = EntriesOf(k)
  /\ UNCHANGED <<queue, tasks>> => \A k \in Jobs : AnswersFor(k)' = AnswersFor(k)
  /\ UNCHANGED handler => \A k \in Jobs : CallbacksFor(k)' = CallbacksFor(k)
  /\ UNCHANGED chats => \A k \in Jobs : ExchangesOf(k)' = ExchangesOf(k)
  BY DEF EntriesAtWork, EntriesOf, AtWork, JobOf, AnswersFor, CallbacksFor, ExchangesOf

\* An entry added by code in flight: every other job keeps its work, and the
\* job it is for has at most this entry and what it had.
LEMMA AddedWork ==
  ASSUME TypeOK, EntryIsActive, NEW j \in Jobs, NEW c \in Courses \union {NoCourse},
         AddJob(j, c), UNCHANGED <<worker, tasks>>
  PROVE  /\ \A k \in Jobs \ {j} : EntriesAtWork(k)' \subseteq EntriesAtWork(k)
         /\ EntriesAtWork(j)' \subseteq EntriesAtWork(j) \union {Len(queue) + 1}
         /\ \A k \in Jobs : AnswersFor(k)' = AnswersFor(k)
<1>1. \A k \in Jobs : \A i \in EntriesOf(k) : AtWork(i)' = AtWork(i)
  BY AddedEntry DEF AtWork, EntriesOf
<1>2. \A k \in Jobs : AnswersFor(k)' = AnswersFor(k)
  <2>1. \A i \in DOMAIN queue : queue'[i].data.job = queue[i].data.job
    BY AddedEntry
  <2>2. \A t \in tasks : t.entry \in DOMAIN queue
    BY DEF TypeOK
  <2>3. \A t \in tasks : JobOf(t.entry)' = JobOf(t.entry)
    BY <2>1, <2>2 DEF JobOf
  <2>. QED
    BY <2>3 DEF AnswersFor
<1>. QED
  BY <1>1, <1>2, AddedEntry DEF EntriesAtWork

\* A request's first entry is the first work its job has.
LEMMA RequestWork ==
  ASSUME NothingIsRepeated, TypeOK, EntryIsActive, OnePieceOfWork,
         NEW j \in Jobs, RequestStep(j)
  PROVE  OnePieceOfWork'
<1>1. UNCHANGED <<worker, tasks, handler, chats>> /\ request[j].pc # "done"
  BY DEF RequestStep, RequestFind, RequestReject, RequestCheckActive, RequestInsert,
         RequestSaveCourse, RequestSaveCourseFails, RequestEnqueue,
         RequestEnqueueFails, RequestSaveFailure, RequestSaveFailureFails, tables
<1>2. /\ \A k \in Jobs : request'[k].pc # "done" => request[k].pc # "done"
      /\ \A k \in Jobs \ {j} : request'[k] = request[k]
  BY <1>1, RequestCopies
<1>3. CASE UNCHANGED queue
  BY <1>1, <1>2, <1>3, SameWork, LessWork
<1>4. CASE RequestEnqueue(j)
  <2>. PICK c \in Courses \union {NoCourse} : c = CourseOf[j]
    BY CourseNumbers
  <2>1. AddJob(j, c) /\ request'[j].pc = "done"
    BY <1>4 DEF RequestEnqueue, TypeOK
  <2>2. WorkOf(j) = {} /\ EntriesOf(j) = {}
    BY <1>1 DEF OnePieceOfWork
  <2>3. EntriesAtWork(j) = {} /\ AnswersFor(j) = {} /\ CallbacksFor(j) = {} /\ ExchangesOf(j) = {}
    BY <2>2 DEF WorkOf
  <2>4. /\ EntriesAtWork(j)' \subseteq {Len(queue) + 1}
        /\ AnswersFor(j)' = {} /\ CallbacksFor(j)' = {} /\ ExchangesOf(j)' = {}
    BY <1>1, <2>1, <2>3, SameWork, AddedWork
  <2>5. WorkOf(j)' \subseteq {<<"entry", Len(queue) + 1>>}
    BY <2>4 DEF WorkOf
  <2>6. \A k \in Jobs \ {j} :
          /\ EntriesAtWork(k)' \subseteq EntriesAtWork(k)
          /\ AnswersFor(k)' \subseteq AnswersFor(k)
          /\ CallbacksFor(k)' \subseteq CallbacksFor(k)
          /\ ExchangesOf(k)' \subseteq ExchangesOf(k)
          /\ request'[k].pc # "done" => request[k].pc # "done" /\ EntriesOf(k)' = EntriesOf(k)
    BY <1>1, <1>2, <2>1, SameWork, AddedWork, AddedEntry
  <2>. QED
    BY <2>1, <2>5, <2>6, WorkMoves
<1>. QED
  BY <1>3, <1>4
  DEF NothingIsRepeated, RequestStep, RequestFind, RequestReject, RequestCheckActive,
      RequestInsert, RequestSaveCourse, RequestSaveCourseFails, RequestEnqueueFails,
      AddRejected, RequestSaveFailure, RequestSaveFailureFails, tables

\* The worker takes up no work: an entry it takes was waiting.
LEMMA WorkerEntries ==
  ASSUME NothingIsRepeated, TypeOK, EntryIsActive, WorkerStep
  PROVE  /\ \A i \in DOMAIN queue : AtWork(i)' => AtWork(i)
         /\ \A k \in Jobs : /\ EntriesOf(k)' = EntriesOf(k)
                             /\ EntriesAtWork(k)' \subseteq EntriesAtWork(k)
<1>1. \A k \in Jobs : EntriesOf(k)' = EntriesOf(k)
  BY WorkerQueueType, SameEntries
<1>2. SUFFICES \A i \in DOMAIN queue : AtWork(i)' => AtWork(i)
  BY <1>1 DEF EntriesAtWork, EntriesOf
<1>3. ASSUME NEW i \in DOMAIN queue, WorkerTake(i)
      PROVE  \A k \in DOMAIN queue : AtWork(k)' => AtWork(k)
  <2>1. /\ worker.pc = "idle" /\ queue[i].state = "waiting"
        /\ worker'.pc = "load" /\ worker'.entry = i
        /\ \A k \in DOMAIN queue \ {i} : queue'[k] = queue[k]
    BY <1>3 DEF WorkerTake, SetEntry, Idle, TypeOK
  <2>. QED
    BY <2>1 DEF AtWork
<1>4. CASE WorkerLoad
  BY <1>4 DEF WorkerLoad, AtWork
<1>5. CASE WorkerSaveProcessing \/ WorkerFindCourse \/ WorkerRefuse \/ WorkerPost
  <2>1. worker \in WorkerAtWork /\ worker.pc \in {"save", "course", "post"}
    BY <1>5, WorkerFields
    DEF WorkerSaveProcessing, WorkerFindCourse, WorkerRefuse, WorkerPost
  <2>2. UNCHANGED queue /\ worker'.entry = worker.entry
    BY <1>5, <2>1
    DEF WorkerSaveProcessing, WorkerFindCourse, WorkerRefuse, WorkerPost, WorkerAtWork
  <2>. QED
    BY <2>1, <2>2 DEF AtWork
<1>6. CASE WorkerDrop \/ WorkerSaveRefused \/ WorkerAck
  <2>1. /\ worker' = Idle /\ SetEntry(worker.entry, "completed")
        /\ worker.entry \in DOMAIN queue
    BY <1>6, WorkerFields DEF WorkerDrop, WorkerSaveRefused, WorkerAck
  <2>2. queue[worker.entry] \in Entry
    BY <2>1, EntryJob
  <2>3. /\ queue'[worker.entry].state = "completed"
        /\ \A i \in DOMAIN queue \ {worker.entry} : queue'[i] = queue[i]
    BY <2>1, <2>2 DEF SetEntry, TypeOK, Entry, EntryOf
  <2>. QED
    BY <2>1, <2>3 DEF AtWork, Idle
<1>7. CASE WorkerThrow
  <2>1. /\ worker' = Idle
        /\ worker.pc \in {"load", "save", "course", "refuse", "post"}
        /\ \A i \in DOMAIN queue \ {worker.entry} : queue'[i] = queue[i]
    BY <1>7 DEF WorkerThrow, WorkerCanThrow, NothingIsRepeated, TypeOK
  <2>. QED
    BY <2>1 DEF AtWork, Idle
<1>. QED
  BY <1>3, <1>4, <1>5, <1>6, <1>7 DEF WorkerStep

\* The worker hands an entry it has posted to Python, and keeps the others.
LEMMA WorkerWork ==
  ASSUME NothingIsRepeated, TypeOK, EntryIsActive, OnePieceOfWork, WorkerStep
  PROVE  OnePieceOfWork'
<1>1. UNCHANGED <<request, handler, chats>>
  BY DEF WorkerStep, WorkerTake, WorkerLoad, WorkerDrop, WorkerSaveProcessing,
         WorkerFindCourse, WorkerRefuse, WorkerSaveRefused, WorkerPost, WorkerAck,
         WorkerThrow, tables
<1>2. CASE UNCHANGED tasks
  <2>1. \A k \in Jobs : AnswersFor(k)' = AnswersFor(k)
    BY <1>2, WorkerQueueType DEF AnswersFor, JobOf, TypeOK
  <2>. QED
    BY <1>1, <2>1, SameWork, WorkerEntries, LessWork
<1>3. CASE WorkerPost
  <2>. PICK i \in DOMAIN queue : i = worker.entry /\ worker.pc = "post"
    BY <1>3, WorkerFields DEF WorkerPost
  <2>. PICK j \in Jobs : j = JobOf(i)
    BY EntryJob
  <2>. DEFINE t == [entry |-> i, run |-> queue[i].made + queue[i].stalls,
                    base |-> worker.base]
  <2>1. /\ UNCHANGED queue /\ tasks' = tasks \union {t} /\ t.entry = i
        /\ worker'.pc = "posted"
    BY <1>3, WorkerFields DEF WorkerPost, WorkerAtWork
  <2>2. ~ AtWork(i)'
    BY <2>1 DEF AtWork, EntryIsActive
  <2>3. i \in EntriesAtWork(j)
    BY DEF EntriesAtWork, EntriesOf, AtWork
  <2>. HIDE DEF t
  <2>4. EntriesAtWork(j)' \subseteq EntriesAtWork(j) \ {i}
    BY <2>2, WorkerEntries DEF EntriesAtWork
  <2>5. /\ AnswersFor(j)' \subseteq AnswersFor(j) \union {t}
        /\ \A k \in Jobs \ {j} : AnswersFor(k)' \subseteq AnswersFor(k)
    BY <2>1 DEF AnswersFor, JobOf
  <2>6. /\ EntriesAtWork(j)' = {} /\ AnswersFor(j)' \subseteq {t}
        /\ CallbacksFor(j)' = {} /\ ExchangesOf(j)' = {} /\ request'[j].pc = "done"
    BY <1>1, <2>3, <2>4, <2>5, OnlyEntry, SameWork
  <2>7. WorkOf(j)' \subseteq {<<"answer", t>>}
    BY <2>6 DEF WorkOf
  <2>. QED
    BY <1>1, <2>5, <2>6, <2>7, SameWork, WorkerEntries, WorkMoves
<1>. QED
  BY <1>2, <1>3 DEF WorkerStep, WorkerTake, WorkerLoad, WorkerDrop,
     WorkerSaveProcessing, WorkerFindCourse, WorkerRefuse, WorkerSaveRefused, WorkerAck,
     WorkerThrow

\* A callback ends in an exchange or in an entry, or in nothing.
LEMMA HandlerWork ==
  ASSUME NothingIsRepeated, TypeOK, OwnCourses, EntryIsActive, OnePieceOfWork,
         NEW h \in Handlers, HandlerStep(h)
  PROVE  OnePieceOfWork'
<1>1. UNCHANGED <<request, worker, tasks>>
  BY DEF HandlerStep, DeleteDays, CommitEdit, CommitAnswer, SaveRetry, ReEnqueue,
         SaveFailure, HandlerThrow
<1>2. /\ handler[h].pc # "idle" /\ handler[h].job \in Jobs
      /\ handler'[h].pc = "idle" \/ handler'[h].job = handler[h].job
      /\ \A g \in Handlers \ {h} : handler'[g] = handler[g]
  BY HandlerKeeps, HandlerFields DEF Idle
<1>. PICK j \in Jobs : j = handler[h].job
  BY <1>2
<1>3. h \in CallbacksFor(j)
  BY <1>2 DEF CallbacksFor
<1>4. /\ EntriesAtWork(j) = {} /\ AnswersFor(j) = {} /\ CallbacksFor(j) = {h}
      /\ ExchangesOf(j) = {} /\ request[j].pc = "done"
  BY <1>3, OnlyCallback
<1>5. \A k \in Jobs \ {j} : CallbacksFor(k)' \subseteq CallbacksFor(k)
  BY <1>2 DEF CallbacksFor
<1>6. CASE UNCHANGED <<queue, chats>>
  <2>1. CallbacksFor(j)' \subseteq {h}
    BY <1>2, <1>4 DEF CallbacksFor
  <2>. QED
    BY <1>1, <1>4, <1>5, <1>6, <2>1, SameWork, LessWork
<1>7. CASE ReEnqueue(h)
  <2>. PICK c \in Courses \union {NoCourse} : c = handler[h].row.course
    BY <1>2, CourseNumbers DEF OwnCourses, OwnHandlers, Own
  <2>1. AddJob(j, c) /\ handler'[h].pc = "idle" /\ UNCHANGED chats
    BY <1>7 DEF ReEnqueue, Idle, tables, TypeOK
  <2>2. CallbacksFor(j)' = {}
    BY <1>2, <1>4, <2>1 DEF CallbacksFor
  <2>3. /\ EntriesAtWork(j)' \subseteq {Len(queue) + 1}
        /\ AnswersFor(j)' = {} /\ CallbacksFor(j)' = {} /\ ExchangesOf(j)' = {}
    BY <1>1, <1>4, <2>1, <2>2, SameWork, AddedWork
  <2>4. WorkOf(j)' \subseteq {<<"entry", Len(queue) + 1>>}
    BY <2>3 DEF WorkOf
  <2>5. \A k \in Jobs \ {j} :
          /\ EntriesAtWork(k)' \subseteq EntriesAtWork(k)
          /\ AnswersFor(k)' \subseteq AnswersFor(k)
          /\ CallbacksFor(k)' \subseteq CallbacksFor(k)
          /\ ExchangesOf(k)' \subseteq ExchangesOf(k)
          /\ request'[k].pc # "done" => request[k].pc # "done" /\ EntriesOf(k)' = EntriesOf(k)
    BY <1>1, <1>5, <2>1, SameWork, AddedWork, AddedEntry
  <2>. QED
    BY <1>1, <1>4, <2>4, <2>5, WorkMoves
<1>8. CASE CommitEdit(h) \/ CommitAnswer(h)
  <2>1. /\ chats' = [chats EXCEPT ![j] = chats[j] + 1]
        /\ UNCHANGED queue /\ handler'[h].pc = "idle"
    BY <1>8 DEF CommitEdit, CommitAnswer, Idle, TypeOK
  <2>2. CallbacksFor(j)' = {}
    BY <1>2, <1>4, <2>1 DEF CallbacksFor
  <2>3. chats[j] = 0
    <3>1. chats[j] \in Nat
      BY DEF TypeOK
    <3>2. 1 \notin 1..chats[j]
      BY <1>4 DEF ExchangesOf
    <3>. QED
      BY <3>1, <3>2
  <2>4. chats'[j] = 1 /\ \A k \in Jobs \ {j} : chats'[k] = chats[k]
    BY <2>1, <2>3 DEF TypeOK
  <2>5. ExchangesOf(j)' = {1} /\ \A k \in Jobs \ {j} : ExchangesOf(k)' = ExchangesOf(k)
    BY <2>4 DEF ExchangesOf
  <2>6. EntriesAtWork(j)' = {} /\ AnswersFor(j)' = {}
    BY <1>1, <1>4, <2>1, SameWork
  <2>7. WorkOf(j)' \subseteq {<<"exchange", 1>>}
    BY <2>2, <2>5, <2>6 DEF WorkOf
  <2>8. \A k \in Jobs \ {j} :
          /\ EntriesAtWork(k)' \subseteq EntriesAtWork(k)
          /\ AnswersFor(k)' \subseteq AnswersFor(k)
          /\ CallbacksFor(k)' \subseteq CallbacksFor(k)
          /\ ExchangesOf(k)' \subseteq ExchangesOf(k)
          /\ request'[k].pc # "done" => request[k].pc # "done" /\ EntriesOf(k)' = EntriesOf(k)
    BY <1>1, <1>5, <2>1, <2>5, SameWork
  <2>. QED
    BY <1>1, <1>4, <2>7, <2>8, WorkMoves
<1>9. HandlerThrow(h) \/ DeleteDays(h) => UNCHANGED <<queue, chats>>
  BY DEF HandlerThrow, DeleteDays, AddRejected, NothingIsRepeated, tables
<1>. QED
  BY <1>6, <1>7, <1>8, <1>9 DEF HandlerStep, SaveRetry, SaveFailure

\* An answer that is received becomes a callback, once.
LEMMA PythonWork ==
  ASSUME NothingIsRepeated, TypeOK, OnePieceOfWork, PythonStep
  PROVE  OnePieceOfWork'
<1>1. UNCHANGED <<request, worker, queue, chats>>
  BY DEF PythonStep, CallbackLost, CallbackIgnored, SuccessBegin, FailureBegin,
         CallbackBegin, tables
<1>2. CASE UNCHANGED handler /\ tasks' \subseteq tasks
  <2>1. \A k \in Jobs : AnswersFor(k)' \subseteq AnswersFor(k)
    BY <1>1, <1>2 DEF AnswersFor, JobOf
  <2>. QED
    BY <1>1, <1>2, <2>1, SameWork, LessWork
<1>3. ASSUME NEW t \in tasks, NEW h \in Handlers, NEW pc, pc # "idle", CallbackBegin(h, t, pc)
      PROVE  OnePieceOfWork'
  <2>. PICK j \in Jobs : j = JobOf(t.entry)
    BY EntryJob DEF TypeOK
  <2>1. /\ tasks' = tasks \ {t}
        /\ handler[h].pc = "idle" /\ handler'[h].job = j
        /\ \A g \in Handlers \ {h} : handler'[g] = handler[g]
    BY <1>3 DEF CallbackBegin, Receive, NothingIsRepeated, Idle, TypeOK
  <2>2. t \in AnswersFor(j)
    BY DEF AnswersFor
  <2>3. /\ EntriesAtWork(j) = {} /\ AnswersFor(j) = {t} /\ CallbacksFor(j) = {}
        /\ ExchangesOf(j) = {} /\ request[j].pc = "done"
    BY <2>2, OnlyAnswer
  <2>4. /\ \A k \in Jobs : AnswersFor(k)' \subseteq AnswersFor(k) \ {t}
        /\ \A k \in Jobs \ {j} : CallbacksFor(k)' \subseteq CallbacksFor(k)
        /\ CallbacksFor(j)' \subseteq CallbacksFor(j) \union {h}
    BY <1>1, <2>1 DEF AnswersFor, CallbacksFor, JobOf
  <2>5. WorkOf(j)' \subseteq {<<"callback", h>>}
    BY <1>1, <2>3, <2>4, SameWork DEF WorkOf
  <2>. QED
    BY <1>1, <2>3, <2>4, <2>5, SameWork, WorkMoves
<1>. QED
  BY <1>2, <1>3
  DEF PythonStep, CallbackLost, CallbackIgnored, Receive, SuccessBegin, FailureBegin

\* A job is worked on in one place at a time: each step hands the work on, from
\* the request to the queue, the worker, Python, a callback, and to the chat
\* history or to the queue again.
LEMMA WorkIsHandedOn ==
  ASSUME NothingIsRepeated, TypeOK, OwnCourses, EntryIsActive, OnePieceOfWork, [Next]_vars
  PROVE  OnePieceOfWork'
<1>1. CASE UNCHANGED <<queue, worker, tasks, handler, chats, request>>
  BY <1>1, SameWork, LessWork
<1>. QED
  BY <1>1, RequestWork, WorkerWork, HandlerWork, PythonWork
  DEF Next, vars, tables, Age, ToggleStep, ToggleLoad, ToggleSave, ToggleFails,
      CourseGone, Cleanup, Crash, NothingIsRepeated

\* At first there is no work.
LEMMA NoWorkYet == Init => OnePieceOfWork
  BY DEF Init, OnePieceOfWork, WorkOf, EntriesAtWork, EntriesOf, AnswersFor,
         CallbacksFor, ExchangesOf, Idle

\* A callback is answered in the chat once: while BullMQ, Python and the process
\* repeat nothing they were told has arrived, a job has one exchange at most,
\* whatever fails, is lost, deleted, sent too early or late.
THEOREM ExchangesCorrect ==
  ASSUME NothingIsRepeated
  PROVE  Spec => []OneExchangePerJob
<1>1. Init => EntryIsActive
  BY DEF Init, EntryIsActive, Idle
<1>2. TypeOK /\ OnePieceOfWork => OneExchangePerJob
  <2>. SUFFICES ASSUME TypeOK, OnePieceOfWork, NEW j \in Jobs, chats[j] > 1
                PROVE  FALSE
    BY DEF OneExchangePerJob, TypeOK
  <2>1. 1 \in ExchangesOf(j) /\ 2 \in ExchangesOf(j)
    BY DEF ExchangesOf, TypeOK
  <2>2. <<"exchange", 1>> \in WorkOf(j) /\ <<"exchange", 2>> \in WorkOf(j)
    BY <2>1 DEF WorkOf
  <2>3. <<"exchange", 1>> = <<"exchange", 2>>
    BY <2>2 DEF OnePieceOfWork
  <2>. QED
    BY <2>3
<1>. QED
  BY <1>1, <1>2, NoWorkYet, EntryStaysActive, WorkIsHandedOn, TypeCorrect, PTL DEF Spec

-----------------------------------------------------------------------------
(* What was answered is over                                               *)

\* Without "slow" no job is PROCESSING for ten minutes.
CronSleeps == aged = {} /\ cron = Idle

CallbacksFoundTheJobOpen ==
  \A h \in Handlers : handler[h].pc # "idle" => handler[h].row.status \in Active

LEMMA CronSleepsOn ==
  ASSUME "slow" \notin Faults, CronSleeps, [Next]_vars
  PROVE  CronSleeps' /\ ~Cleanup
<1>1. ~CronStep
  BY DEF CronSleeps, CronStep, CronScan, StaleJobs, CronSaveTimeout, CronEnd,
         CronReread, CronSkip, Idle
<1>2. \A j \in Jobs : ~Age(j)
  BY DEF Age, GrowsOld
<1>3. ~Cleanup
  BY <1>1 DEF Cleanup
<1>4. CASE UNCHANGED vars \/ Crash
  BY <1>3, <1>4 DEF vars, CronSleeps, Crash, tables
<1>5. ASSUME NEW j \in Jobs, RequestStep(j)
      PROVE  aged' \subseteq aged /\ UNCHANGED cron
  BY <1>5 DEF RequestStep, RequestFind, RequestReject, RequestCheckActive, RequestInsert,
         RequestSaveCourse, RequestSaveCourseFails, RequestEnqueue,
         RequestEnqueueFails, RequestSaveFailure, RequestSaveFailureFails, tables
<1>6. ASSUME NEW g \in Toggles, ToggleStep(g)
      PROVE  aged' \subseteq aged /\ UNCHANGED cron
  BY <1>6 DEF ToggleStep, ToggleLoad, ToggleSave, ToggleFails, tables
<1>7. ASSUME WorkerStep
      PROVE  aged' \subseteq aged /\ UNCHANGED cron
  BY <1>7 DEF WorkerStep, WorkerTake, WorkerLoad, WorkerDrop, WorkerSaveProcessing,
         WorkerFindCourse, WorkerRefuse, WorkerSaveRefused, WorkerPost, WorkerAck,
         WorkerThrow, tables
<1>8. ASSUME NEW h \in Handlers, HandlerStep(h)
      PROVE  aged' \subseteq aged /\ UNCHANGED cron
  BY <1>8 DEF HandlerStep, DeleteDays, CommitEdit, CommitAnswer, SaveRetry, ReEnqueue,
         SaveFailure, HandlerThrow, tables
<1>9. ASSUME PythonStep \/ \E c \in Courses : CourseGone(c)
      PROVE  aged' \subseteq aged /\ UNCHANGED cron
  BY <1>9 DEF PythonStep, CallbackLost, CallbackIgnored, SuccessBegin, FailureBegin,
         CallbackBegin, CourseGone, tables
<1>10. CASE aged' \subseteq aged /\ UNCHANGED cron
  BY <1>3, <1>10 DEF CronSleeps
<1>. QED
  BY <1>2, <1>3, <1>4, <1>5, <1>6, <1>7, <1>8, <1>9, <1>10 DEF Next

\* A callback only goes on with a job it loaded PENDING or PROCESSING.
LEMMA CallbacksStayOpen ==
  ASSUME TypeOK, CallbacksFoundTheJobOpen, [Next]_vars
  PROVE  CallbacksFoundTheJobOpen'
<1>1. CASE UNCHANGED handler
  BY <1>1 DEF CallbacksFoundTheJobOpen
<1>2. ASSUME NEW h \in Handlers, HandlerStep(h)
      PROVE  CallbacksFoundTheJobOpen'
  BY <1>2, HandlerKeeps DEF CallbacksFoundTheJobOpen, Idle
<1>3. ASSUME NEW t \in tasks, NEW h \in Handlers, NEW pc, CallbackBegin(h, t, pc)
      PROVE  CallbacksFoundTheJobOpen'
  <2>1. /\ handler'[h].row.status \in Active
        /\ \A g \in Handlers \ {h} : handler'[g] = handler[g]
    BY <1>3 DEF CallbackBegin, TypeOK
  <2>. QED
    BY <2>1 DEF CallbacksFoundTheJobOpen
<1>4. CASE Crash
  BY <1>4 DEF Crash, CallbacksFoundTheJobOpen, Idle
<1>. QED
  BY <1>1, <1>2, <1>3, <1>4
  DEF Next, vars, tables, RequestStep, RequestFind, RequestReject, RequestCheckActive,
      RequestInsert, RequestSaveCourse, RequestSaveCourseFails, RequestEnqueue,
      RequestEnqueueFails, RequestSaveFailure, RequestSaveFailureFails,
      ToggleStep, ToggleLoad, ToggleSave, ToggleFails,
      WorkerStep, WorkerTake, WorkerLoad, WorkerDrop, WorkerSaveProcessing,
      WorkerFindCourse, WorkerRefuse, WorkerSaveRefused, WorkerPost, WorkerAck,
      WorkerThrow, PythonStep, CallbackLost, CallbackIgnored, SuccessBegin, FailureBegin,
      Cleanup, Age, CourseGone

\* The status of a job is written by its request, the worker that has its
\* entry, or a callback for it: by nobody else while the cron sleeps.
LEMMA WhoWrites ==
  ASSUME TypeOK, ~Cleanup, [Next]_vars, NEW j \in Jobs, rows'[j].status # rows[j].status
  PROVE  \/ RequestInsert(j) \/ RequestSaveFailure(j)
         \/ /\ WorkerSaveProcessing \/ WorkerSaveRefused
            /\ JobOf(worker.entry) = j
         \/ \E h \in Handlers : /\ CommitEdit(h) \/ CommitAnswer(h) \/ SaveRetry(h) \/ SaveFailure(h)
                                /\ handler[h].job = j
<1>0. rows \in [Jobs -> MaybeRow] /\ ~UNCHANGED rows
  BY DEF TypeOK
<1>1. ASSUME NEW k \in Jobs, RequestStep(k)
      PROVE  RequestInsert(j) \/ RequestSaveFailure(j)
  <2>1. RequestInsert(k) \/ RequestSaveFailure(k)
    BY <1>0, <1>1
    DEF RequestStep, RequestFind, RequestReject, RequestCheckActive,
        RequestSaveCourse, RequestSaveCourseFails, RequestEnqueue,
        RequestEnqueueFails, RequestSaveFailureFails, tables
  <2>2. rows'[j] = rows[j] \/ k = j
    BY <1>0, <2>1 DEF RequestInsert, RequestSaveFailure, SaveRow
  <2>. QED
    BY <2>1, <2>2
<1>2. ASSUME WorkerStep
      PROVE  /\ WorkerSaveProcessing \/ WorkerSaveRefused
             /\ JobOf(worker.entry) = j
  <2>1. WorkerSaveProcessing \/ WorkerSaveRefused
    BY <1>0, <1>2 DEF WorkerStep, WorkerTake, WorkerLoad, WorkerDrop,
         WorkerFindCourse, WorkerRefuse, WorkerPost, WorkerAck, WorkerThrow, tables
  <2>2. rows'[j] = rows[j] \/ JobOf(worker.entry) = j
    BY <1>0, <2>1 DEF WorkerSaveProcessing, WorkerSaveRefused, SaveRow
  <2>. QED
    BY <2>1, <2>2
<1>3. ASSUME NEW h \in Handlers, HandlerStep(h)
      PROVE  /\ CommitEdit(h) \/ CommitAnswer(h) \/ SaveRetry(h) \/ SaveFailure(h)
             /\ handler[h].job = j
  <2>1. CommitEdit(h) \/ CommitAnswer(h) \/ SaveRetry(h) \/ SaveFailure(h)
    BY <1>0, <1>3 DEF HandlerStep, DeleteDays, ReEnqueue, HandlerThrow, tables
  <2>2. rows'[j] = rows[j] \/ handler[h].job = j
    BY <1>0, <2>1 DEF CommitEdit, CommitAnswer, SaveRetry, SaveFailure, SaveRow
  <2>. QED
    BY <2>1, <2>2
<1>4. ASSUME NEW c \in Courses, CourseGone(c)
      PROVE  rows'[j].status = rows[j].status
  BY <1>0, <1>4, DeletionKeepsTheStatus DEF CourseGone
<1>. QED
  BY <1>0, <1>1, <1>2, <1>3, <1>4
  DEF Next, vars, tables, ToggleStep, ToggleLoad, ToggleSave, ToggleFails, Age, Crash,
      PythonStep, CallbackLost, CallbackIgnored, SuccessBegin, FailureBegin, CallbackBegin

\* FailedLeavesTheCourse is not inductive: what is saved over an answered job
\* could be anything.  But nothing is saved over it.
AnsweredIsDone ==
  \A j \in Jobs : /\ Edited(j) => chats[j] > 0
                  /\ chats[j] > 0 => rows[j].status = "SUCCESS"

\* Whoever writes a job's status has its work, so it was not answered.
LEMMA NotAnsweredYet ==
  ASSUME TypeOK, OnePieceOfWork, ~Cleanup, [Next]_vars,
         NEW j \in Jobs, rows'[j].status # rows[j].status
  PROVE  ~(chats[j] > 0)
<1>1. chats[j] \in Nat
  BY DEF TypeOK
<1>2. SUFFICES ExchangesOf(j) = {}
  <2>1. 1 \notin 1..chats[j]
    BY <1>2 DEF ExchangesOf
  <2>. QED
    BY <1>1, <2>1
<1>3. CASE RequestInsert(j) \/ RequestSaveFailure(j)
  <2>1. request[j].pc # "done"
    BY <1>3 DEF RequestInsert, RequestSaveFailure
  <2>2. WorkOf(j) = {}
    BY <2>1 DEF OnePieceOfWork
  <2>. QED
    BY <2>2 DEF WorkOf
<1>4. CASE /\ WorkerSaveProcessing \/ WorkerSaveRefused
           /\ JobOf(worker.entry) = j
  <2>1. worker.entry \in DOMAIN queue /\ worker.pc \in {"save", "refuse"}
    BY <1>4, WorkerFields DEF WorkerSaveProcessing, WorkerSaveRefused
  <2>2. worker.entry \in EntriesAtWork(j)
    BY <1>4, <2>1 DEF EntriesAtWork, EntriesOf, AtWork
  <2>. QED
    BY <2>2, OnlyEntry
<1>5. ASSUME NEW h \in Handlers, handler[h].job = j,
             CommitEdit(h) \/ CommitAnswer(h) \/ SaveRetry(h) \/ SaveFailure(h)
      PROVE  ExchangesOf(j) = {}
  <2>1. h \in CallbacksFor(j)
    BY <1>5 DEF CallbacksFor, CommitEdit, CommitAnswer, SaveRetry, SaveFailure
  <2>. QED
    BY <2>1, OnlyCallback
<1>. QED
  BY <1>3, <1>4, <1>5, WhoWrites

\* The exchanges and edits grow with a commit, which leaves the job SUCCESS.
LEMMA CommitIsSuccess ==
  ASSUME TypeOK, CallbacksFoundTheJobOpen, NEW h \in Handlers,
         CommitEdit(h) \/ CommitAnswer(h), NEW j \in Jobs, j = handler[h].job
  PROVE  /\ chats'[j] > 0 /\ rows'[j].status = "SUCCESS"
         /\ \A k \in Jobs \ {j} : chats'[k] = chats[k] /\ (Edited(k)' => Edited(k))
<1>1. handler[h].pc # "idle" /\ rows \in [Jobs -> MaybeRow]
  BY DEF CommitEdit, CommitAnswer, TypeOK
<1>. PICK e \in Row : e = handler[h].row
  BY <1>1, HandlerFields
<1>2. e.status \in Active
  BY <1>1 DEF CallbacksFoundTheJobOpen
<1>3. \A i : MarkSuccessWithIntent(e, i).status = "SUCCESS"
  BY DEF MarkSuccessWithIntent, Row
<1>4. rows'[j].status = "SUCCESS"
  <2>1. PICK i : SaveRow(j, e, MarkSuccessWithIntent(e, i))
    BY DEF CommitEdit, CommitAnswer
  <2>. PICK s : s = MarkSuccessWithIntent(e, i)
    OBVIOUS
  <2>2. SaveRow(j, e, s) /\ s.status = "SUCCESS" /\ s.status # e.status
    BY <1>2, <1>3, <2>1 DEF Active
  <2>. QED
    BY <1>1, <2>2, StatusIsWritten
<1>5. chats'[j] > 0 /\ \A k \in Jobs \ {j} : chats'[k] = chats[k]
  BY DEF CommitEdit, CommitAnswer, TypeOK
<1>6. \A k \in Jobs \ {j} : Edited(k)' => Edited(k)
  <2>1. edits' = edits \/ edits' = Append(edits, j)
    BY DEF CommitEdit, CommitAnswer
  <2>2. edits \in Seq(Jobs)
    BY DEF TypeOK
  <2>3. \A n \in DOMAIN edits' : edits'[n] # j => n \in DOMAIN edits /\ edits[n] = edits'[n]
    BY <2>1, <2>2
  <2>. QED
    BY <2>3 DEF Edited
<1>. QED
  BY <1>4, <1>5, <1>6

LEMMA AnsweredStaysDone ==
  ASSUME TypeOK, OnePieceOfWork, CallbacksFoundTheJobOpen, ~Cleanup, AnsweredIsDone,
         [Next]_vars
  PROVE  AnsweredIsDone'
<1>1. \A j \in Jobs : chats[j] > 0 => rows'[j].status = "SUCCESS"
  BY NotAnsweredYet DEF AnsweredIsDone
<1>2. ASSUME NEW h \in Handlers, CommitEdit(h) \/ CommitAnswer(h)
      PROVE  AnsweredIsDone'
  <2>. PICK j \in Jobs : j = handler[h].job
    BY <1>2, HandlerFields DEF CommitEdit, CommitAnswer
  <2>1. /\ chats'[j] > 0 /\ rows'[j].status = "SUCCESS"
        /\ \A k \in Jobs \ {j} : chats'[k] = chats[k] /\ (Edited(k)' => Edited(k))
    BY <1>2, CommitIsSuccess
  <2>2. ASSUME NEW k \in Jobs
        PROVE  (Edited(k)' => chats'[k] > 0) /\ (chats'[k] > 0 => rows'[k].status = "SUCCESS")
    BY <1>1, <2>1 DEF AnsweredIsDone
  <2>. QED
    BY <2>2 DEF AnsweredIsDone
<1>3. CASE UNCHANGED <<edits, chats>>
  <2>1. \A j \in Jobs : Edited(j)' => Edited(j)
    BY <1>3 DEF Edited
  <2>. QED
    BY <1>1, <1>3, <2>1 DEF AnsweredIsDone
<1>. QED
  BY <1>2, <1>3
  DEF Next, vars, tables, RequestStep, RequestFind, RequestReject, RequestCheckActive,
      RequestInsert, RequestSaveCourse, RequestSaveCourseFails, RequestEnqueue,
      RequestEnqueueFails, RequestSaveFailure, RequestSaveFailureFails,
      ToggleStep, ToggleLoad, ToggleSave, ToggleFails,
      WorkerStep, WorkerTake, WorkerLoad, WorkerDrop, WorkerSaveProcessing,
      WorkerFindCourse, WorkerRefuse, WorkerSaveRefused, WorkerPost, WorkerAck,
      WorkerThrow, PythonStep, CallbackLost, CallbackIgnored, SuccessBegin, FailureBegin,
      CallbackBegin, HandlerStep, DeleteDays, SaveRetry, ReEnqueue, SaveFailure,
      HandlerThrow, Cleanup, Age, CourseGone, Crash

\* A job that the client is told has failed has left the course alone, as long
\* as nothing is delivered or run twice and no job takes ten minutes: whatever
\* saves, reads, POSTs and callbacks fail, and whatever is deleted meanwhile.
THEOREM FailedCorrect ==
  ASSUME NothingIsRepeated, "slow" \notin Faults
  PROVE  Spec => []FailedLeavesTheCourse
<1>1. Init => /\ EntryIsActive /\ CronSleeps /\ CallbacksFoundTheJobOpen
              /\ AnsweredIsDone
  BY DEF Init, EntryIsActive, CronSleeps, CallbacksFoundTheJobOpen, AnsweredIsDone,
         Edited, Idle
<1>2. AnsweredIsDone => FailedLeavesTheCourse
  BY DEF AnsweredIsDone, FailedLeavesTheCourse, Edited
<1>. QED
  BY <1>1, <1>2, NoWorkYet, EntryStaysActive, WorkIsHandedOn, CronSleepsOn,
     CallbacksStayOpen, AnsweredStaysDone, TypeCorrect, PTL DEF Spec

-----------------------------------------------------------------------------
(* Every request that reached the queue is counted, while the owner sends  *)
(* one message at a time and does not mark the course completed meanwhile: *)
(* the save of either takes back the count of the other.                   *)

InProgress(j) == request[j].pc \notin {"new", "done"}

OneRequestAtATime ==
  \A j, k \in Jobs :
    j # k /\ CourseOf[j] = CourseOf[k] => ~(InProgress(j) /\ InProgress(k))

CallbacksEnqueued ==
  \A h \in Handlers : handler[h].pc # "idle" => Enqueued(handler[h].job)

\* Also what is about to be enqueued is counted.
Counted(c) == {j \in Jobs : CourseOf[j] = c /\ (Enqueued(j) \/ request[j].pc = "saved")}

CountsInv ==
  /\ \A c \in Courses : /\ IsFiniteSet(Counted(c))
                        /\ Cardinality(Counted(c)) <= courses[c].count
  /\ \A j \in Jobs : HasCopy(j) => request[j].course.count = courses[CourseOf[j]].count

\* A request comes in only when no other for the course is under way.
LEMMA OneRequestStays ==
  ASSUME "overlap" \notin Faults, TypeOK, OneRequestAtATime, [Next]_vars
  PROVE  OneRequestAtATime'
<1>1. ASSUME \A j \in Jobs : InProgress(j)' => InProgress(j)
      PROVE  OneRequestAtATime'
  BY <1>1 DEF OneRequestAtATime
<1>2. ASSUME NEW j \in Jobs, RequestStep(j)
      PROVE  OneRequestAtATime'
  <2>1. \A k \in Jobs \ {j} : request'[k] = request[k]
    BY <1>2, RequestCopies
  <2>2. CASE RequestFind(j)
    <3>1. \A k \in Jobs \ {j} : CourseOf[k] = CourseOf[j] => ~InProgress(k)
      BY <2>2 DEF RequestFind, Awaited, InProgress
    <3>. QED
      BY <2>1, <3>1 DEF OneRequestAtATime, InProgress
  <2>3. CASE ~RequestFind(j)
    <3>1. InProgress(j)' => InProgress(j)
      BY <1>2, <2>3
      DEF RequestStep, RequestReject, RequestCheckActive, RequestInsert,
          RequestSaveCourse, RequestSaveCourseFails, RequestEnqueue,
          RequestEnqueueFails, RequestSaveFailure, RequestSaveFailureFails, InProgress,
          TypeOK
    <3>. QED
      BY <1>1, <2>1, <3>1 DEF InProgress
  <2>. QED
    BY <2>2, <2>3
<1>3. CASE UNCHANGED request
  BY <1>1, <1>3 DEF InProgress
<1>4. CASE Crash
  BY <1>1, <1>4 DEF Crash, InProgress, TypeOK
<1>5. ASSUME NEW h \in Handlers, HandlerStep(h)
      PROVE  OneRequestAtATime'
  BY <1>3, <1>5, HandlerKeeps
<1>. QED
  BY <1>2, <1>3, <1>4, <1>5
  DEF Next, vars, tables, ToggleStep, ToggleLoad, ToggleSave, ToggleFails, Age, CourseGone,
      PythonStep, CallbackLost, CallbackIgnored, SuccessBegin, FailureBegin, CallbackBegin,
      WorkerStep, WorkerTake, WorkerLoad, WorkerDrop, WorkerSaveProcessing,
      WorkerFindCourse, WorkerRefuse, WorkerSaveRefused, WorkerPost, WorkerAck,
      WorkerThrow, Cleanup

\* What is in the queue stays in it.
LEMMA JobsStay ==
  ASSUME TypeOK, OwnCourses, [Next]_vars
  PROVE  SameJobs /\ \A k \in Jobs : Enqueued(k) => Enqueued(k)'
<1>1. SUFFICES SameJobs
  BY DEF SameJobs, Enqueued
<1>2. CASE UNCHANGED queue
  BY <1>2 DEF SameJobs, JobOf
<1>3. ASSUME NEW j \in Jobs, RequestStep(j)
      PROVE  SameJobs
  <2>. PICK c \in Courses \union {NoCourse} : c = CourseOf[j]
    BY CourseNumbers
  <2>1. UNCHANGED queue \/ AddJob(j, c)
    BY <1>3 DEF RequestStep, RequestFind, RequestReject, RequestCheckActive,
       RequestInsert, RequestSaveCourse, RequestSaveCourseFails, RequestEnqueue,
       RequestEnqueueFails, AddRejected, RequestSaveFailure, RequestSaveFailureFails
  <2>. QED
    BY <1>2, <2>1, AddedEntry DEF SameJobs, JobOf
<1>4. CASE WorkerStep
  BY <1>4, WorkerQueueType DEF SameJobs
<1>5. ASSUME NEW h \in Handlers, HandlerStep(h)
      PROVE  SameJobs
  BY <1>5, HandlerQueueType
<1>6. CASE Crash
  <2>1. ASSUME NEW i \in DOMAIN queue
        PROVE  i \in DOMAIN queue' /\ queue'[i].data = queue[i].data
    <3>1. queue[i] \in EntryOf(Payload)
      BY EntryJob DEF Entry, Payload
    <3>. QED
      BY <1>6, <3>1, EntryChanges DEF Crash, StallActive
  <2>. QED
    BY <2>1 DEF SameJobs, JobOf
<1>. QED
  BY <1>2, <1>3, <1>4, <1>5, <1>6
  DEF Next, vars, tables, ToggleStep, ToggleLoad, ToggleSave, ToggleFails, Age, CourseGone,
      PythonStep, CallbackLost, CallbackIgnored, SuccessBegin, FailureBegin, CallbackBegin,
      Cleanup

\* A callback is for a job that was in the queue.
LEMMA CallbacksStayEnqueued ==
  ASSUME TypeOK, OwnCourses, CallbacksEnqueued, [Next]_vars
  PROVE  CallbacksEnqueued'
<1>. DEFINE HasEntry(h) == \E i \in DOMAIN queue' : JobOf(i)' = handler'[h].job
<1>0. ASSUME \A h \in Handlers : handler'[h].pc # "idle" => HasEntry(h)
      PROVE  CallbacksEnqueued'
  BY <1>0 DEF CallbacksEnqueued, Enqueued
<1>1. ASSUME NEW h \in Handlers, handler[h].pc # "idle", handler'[h].job = handler[h].job
      PROVE  HasEntry(h)
  <2>. PICK j \in Jobs : j = handler[h].job
    BY <1>1, HandlerFields
  <2>1. Enqueued(j)'
    BY <1>1, JobsStay DEF CallbacksEnqueued
  <2>. QED
    BY <1>1, <2>1 DEF Enqueued
<1>2. CASE UNCHANGED handler
  BY <1>0, <1>1, <1>2
<1>3. ASSUME NEW h \in Handlers, HandlerStep(h)
      PROVE  CallbacksEnqueued'
  BY <1>0, <1>1, <1>3, HandlerKeeps DEF Idle
<1>4. ASSUME NEW t \in tasks, NEW h \in Handlers, NEW pc, CallbackBegin(h, t, pc)
      PROVE  CallbacksEnqueued'
  <2>. PICK j \in Jobs : j = JobOf(t.entry)
    BY EntryJob DEF TypeOK
  <2>1. Enqueued(j)
    BY DEF Enqueued, TypeOK
  <2>2. /\ handler'[h].job = j
        /\ \A g \in Handlers \ {h} : handler'[g] = handler[g]
    BY <1>4 DEF CallbackBegin, TypeOK
  <2>3. Enqueued(j)'
    BY <2>1, JobsStay
  <2>4. HasEntry(h)
    BY <2>2, <2>3 DEF Enqueued
  <2>. QED
    BY <1>0, <1>1, <2>2, <2>4
<1>5. CASE Crash
  BY <1>0, <1>5 DEF Crash, Idle
<1>. QED
  BY <1>2, <1>3, <1>4, <1>5
  DEF Next, vars, tables, RequestStep, RequestFind, RequestReject, RequestCheckActive,
      RequestInsert, RequestSaveCourse, RequestSaveCourseFails, RequestEnqueue,
      RequestEnqueueFails, RequestSaveFailure, RequestSaveFailureFails,
      ToggleStep, ToggleLoad, ToggleSave, ToggleFails,
      WorkerStep, WorkerTake, WorkerLoad, WorkerDrop, WorkerSaveProcessing,
      WorkerFindCourse, WorkerRefuse, WorkerSaveRefused, WorkerPost, WorkerAck,
      WorkerThrow, PythonStep, CallbackLost, CallbackIgnored, SuccessBegin, FailureBegin,
      Cleanup, Age, CourseGone

\* A step that counts nothing, and enqueues only what is counted.
LEMMA NothingNew ==
  ASSUME TypeOK, CountsInv, \A c \in Courses : courses'[c].count = courses[c].count,
         \A k \in Jobs :
           /\ Enqueued(k)' => Enqueued(k) \/ request[k].pc = "saved"
           /\ request'[k].pc = "saved" => request[k].pc = "saved"
           /\ HasCopy(k)' => \/ HasCopy(k) /\ request'[k].course = request[k].course
                             \/ request'[k].course = courses[CourseOf[k]]
  PROVE  CountsInv'
<1>1. ASSUME NEW c \in Courses
      PROVE  /\ IsFiniteSet(Counted(c)')
             /\ Cardinality(Counted(c)') <= courses'[c].count
  <2>1. Counted(c)' \subseteq Counted(c)
    BY DEF Counted
  <2>2. /\ IsFiniteSet(Counted(c)) /\ Cardinality(Counted(c)) <= courses[c].count
        /\ courses[c].count \in Nat
    BY DEF CountsInv, TypeOK, CourseRow
  <2>. PICK S, T : S = Counted(c) /\ T = Counted(c)'
    OBVIOUS
  <2>3. IsFiniteSet(T) /\ Cardinality(T) <= Cardinality(S)
    BY <2>1, <2>2, FS_Subset
  <2>4. Cardinality(S) \in Nat /\ Cardinality(T) \in Nat
    BY <2>2, <2>3, FS_CardinalityType
  <2>. QED
    BY <2>2, <2>3, <2>4
<1>2. \A k \in Jobs : HasCopy(k)' => request'[k].course.count = courses'[CourseOf[k]].count
  BY CourseNumbers DEF CountsInv
<1>. QED
  BY <1>1, <1>2 DEF CountsInv

\* The save of the course counts the request that is about to be enqueued.
LEMMA RequestCounts ==
  ASSUME TypeOK, OneRequestAtATime, CountsInv, NEW j \in Jobs, RequestSaveCourse(j)
  PROVE  CountsInv'
<1>. PICK C \in Courses : C = CourseOf[j]
  BY CourseNumbers
<1>. PICK loaded \in CourseRow : loaded = request[j].course /\ request[j].pc = "inserted"
  BY CopyFields DEF RequestSaveCourse, HasCopy, Copied
<1>. PICK e : e = IncrementModificationCount(loaded)
  OBVIOUS
<1>1. e \in CourseRow /\ e.count = loaded.count + 1 /\ loaded.count \in Nat
  BY DEF IncrementModificationCount, CourseRow
<1>2. loaded.count = courses[C].count
  BY DEF CountsInv, HasCopy
<1>3. SaveCourse(C, loaded, e) /\ UNCHANGED queue /\ request'[j].pc = "saved"
  BY DEF RequestSaveCourse, TypeOK
<1>4. \A k \in Jobs \ {j} : request'[k] = request[k]
  BY RequestCopies DEF RequestStep
<1>5. /\ \A d \in Courses \ {C} : courses'[d] = courses[d]
      /\ courses'[C].count = courses[C].count + 1
  <2>1. \A d \in Courses \ {C} : courses'[d] = courses[d]
    BY <1>1, <1>3, SaveCourseColumns
  <2>2. courses'[C].count = e.count
    BY <1>1, <1>3 DEF SaveCourse, ChangedCourseColumns, TypeOK
  <2>. QED
    BY <1>1, <1>2, <2>1, <2>2
<1>6. ASSUME NEW c \in Courses
      PROVE  /\ IsFiniteSet(Counted(c)')
             /\ Cardinality(Counted(c)') <= courses'[c].count
  <2>. PICK S, T : S = Counted(c) /\ T = Counted(c)'
    OBVIOUS
  <2>1. /\ IsFiniteSet(S) /\ Cardinality(S) <= courses[c].count
        /\ courses[c].count \in Nat /\ Cardinality(S) \in Nat
    BY FS_CardinalityType DEF CountsInv, TypeOK, CourseRow
  <2>2. \A k \in Jobs : Enqueued(k)' <=> Enqueued(k)
    BY <1>3 DEF Enqueued, JobOf
  <2>3. CASE c # C
    <3>1. T \subseteq S
      BY <1>4, <2>2, <2>3 DEF Counted
    <3>2. IsFiniteSet(T) /\ Cardinality(T) <= Cardinality(S)
      BY <2>1, <3>1, FS_Subset
    <3>3. Cardinality(T) \in Nat /\ courses'[c] = courses[c]
      BY <1>5, <2>3, <3>2, FS_CardinalityType
    <3>. QED
      BY <2>1, <3>2, <3>3
  <2>4. CASE c = C
    <3>1. T \subseteq S \union {j}
      BY <1>4, <2>2 DEF Counted
    <3>2. /\ IsFiniteSet(S \union {j})
          /\ Cardinality(S \union {j}) \in {Cardinality(S), Cardinality(S) + 1}
      BY <2>1, FS_AddElement
    <3>3. IsFiniteSet(T) /\ Cardinality(T) <= Cardinality(S \union {j})
      BY <3>1, <3>2, FS_Subset
    <3>4. Cardinality(T) \in Nat
      BY <3>3, FS_CardinalityType
    <3>. QED
      BY <1>5, <2>1, <2>4, <3>2, <3>3, <3>4
  <2>. QED
    BY <2>3, <2>4
<1>7. ASSUME NEW k \in Jobs, HasCopy(k)'
      PROVE  request'[k].course.count = courses'[CourseOf[k]].count
  <2>1. k # j
    BY <1>3, <1>7 DEF HasCopy
  <2>2. request'[k] = request[k] /\ HasCopy(k)
    BY <1>4, <1>7, <2>1 DEF HasCopy
  <2>3. CourseOf[k] # C
    BY <2>1, <2>2 DEF OneRequestAtATime, InProgress, HasCopy
  <2>. QED
    BY <1>5, <2>2, <2>3, CourseNumbers DEF CountsInv
<1>. QED
  BY <1>6, <1>7 DEF CountsInv

LEMMA HaveEntries ==
  \A k \in Jobs : /\ Enqueued(k) <=> EntriesOf(k) # {}
                  /\ Enqueued(k)' <=> EntriesOf(k)' # {}
  BY DEF Enqueued, EntriesOf

\* Nothing else counts, and no request or retry enqueues what is not counted.
LEMMA CountsStay ==
  ASSUME "overlap" \notin Faults, Toggles = {}, TypeOK, OwnCourses, OneRequestAtATime,
         CallbacksEnqueued, CountsInv, [Next]_vars
  PROVE  CountsInv'
<1>1. ASSUME UNCHANGED request, \A c \in Courses : courses'[c].count = courses[c].count,
             \A k \in Jobs : Enqueued(k)' => Enqueued(k)
      PROVE  CountsInv'
  BY <1>1, NothingNew DEF HasCopy
<1>2. CASE UNCHANGED <<queue, courses, request>>
  <2>1. \A k \in Jobs : Enqueued(k)' => Enqueued(k)
    BY <1>2 DEF Enqueued, JobOf
  <2>. QED
    BY <1>1, <1>2, <2>1
<1>3. ASSUME NEW j \in Jobs, RequestStep(j)
      PROVE  CountsInv'
  <2>. PICK c \in Courses \union {NoCourse} : c = CourseOf[j]
    BY CourseNumbers
  <2>1. CASE RequestSaveCourse(j)
    BY <2>1, RequestCounts
  <2>2. CASE ~RequestSaveCourse(j)
    <3>1. UNCHANGED courses
      BY <1>3, <2>2 DEF RequestStep, RequestFind, RequestReject, RequestCheckActive,
         RequestInsert, RequestSaveCourseFails, RequestEnqueue, RequestEnqueueFails,
         RequestSaveFailure, RequestSaveFailureFails, tables
    <3>0. request'[j].pc # "saved"
      <4>1. CASE RequestCheckActive(j) \/ RequestInsert(j)
        <5>1. request[j] \in Copied
          BY <4>1, CopyFields DEF RequestCheckActive, RequestInsert, HasCopy
        <5>. QED
          BY <4>1, <5>1 DEF RequestCheckActive, RequestInsert, TypeOK, Copied
      <4>. QED
        BY <1>3, <2>2, <4>1 DEF RequestStep, RequestFind, RequestReject,
           RequestSaveCourseFails, RequestEnqueue, RequestEnqueueFails,
           RequestSaveFailure, RequestSaveFailureFails, TypeOK
    <3>2. UNCHANGED queue \/ (AddJob(j, c) /\ request[j].pc = "saved")
      BY <1>3, <2>2 DEF RequestStep, RequestFind, RequestReject, RequestCheckActive,
         RequestInsert, RequestSaveCourseFails, RequestEnqueue, RequestEnqueueFails,
         AddRejected, RequestSaveFailure, RequestSaveFailureFails
    <3>3. \A k \in Jobs : Enqueued(k)' => Enqueued(k) \/ request[k].pc = "saved"
      <4>1. CASE UNCHANGED queue
        BY <4>1 DEF Enqueued, JobOf
      <4>2. CASE AddJob(j, c) /\ request[j].pc = "saved"
        BY <4>2, AddedEntry, HaveEntries
      <4>. QED
        BY <3>2, <4>1, <4>2
    <3>4. \A k \in Jobs : request'[k].pc = "saved" => request[k].pc = "saved"
      BY <1>3, <3>0, RequestCopies
    <3>5. \A k \in Jobs : HasCopy(k)' => \/ HasCopy(k) /\ request'[k].course = request[k].course
                                         \/ request'[k].course = courses[CourseOf[k]]
      BY <1>3, RequestCopies DEF HasCopy
    <3>. QED
      BY <3>1, <3>3, <3>4, <3>5, NothingNew
  <2>. QED
    BY <2>1, <2>2
<1>4. CASE WorkerStep
  <2>1. UNCHANGED <<request, courses>>
    BY <1>4 DEF WorkerStep, WorkerTake, WorkerLoad, WorkerDrop, WorkerSaveProcessing,
       WorkerFindCourse, WorkerRefuse, WorkerSaveRefused, WorkerPost, WorkerAck,
       WorkerThrow, tables
  <2>2. \A k \in Jobs : Enqueued(k)' => Enqueued(k)
    BY <1>4, WorkerQueueType DEF Enqueued
  <2>. QED
    BY <1>1, <2>1, <2>2
<1>5. ASSUME NEW h \in Handlers, HandlerStep(h)
      PROVE  CountsInv'
  <2>1. UNCHANGED request /\ handler[h].pc # "idle"
    BY <1>5, HandlerKeeps
  <2>. PICK j \in Jobs : j = handler[h].job
    BY <2>1, HandlerFields
  <2>. PICK c \in Courses \union {NoCourse} : c = handler[h].row.course
    BY <2>1, CourseNumbers DEF OwnCourses, OwnHandlers, Own
  <2>2. UNCHANGED queue \/ AddJob(j, c)
    BY <1>5 DEF HandlerStep, DeleteDays, CommitEdit, CommitAnswer, SaveRetry, ReEnqueue,
       SaveFailure, HandlerThrow, AddRejected
  <2>3. \A k \in Jobs : Enqueued(k)' => Enqueued(k)
    <3>1. CASE UNCHANGED queue
      BY <3>1 DEF Enqueued, JobOf
    <3>2. CASE AddJob(j, c)
      <4>1. Enqueued(j)
        BY <2>1 DEF CallbacksEnqueued
      <4>. QED
        BY <3>2, <4>1, AddedEntry, HaveEntries
    <3>. QED
      BY <2>2, <3>1, <3>2
  <2>4. \A d \in Courses : courses'[d].count = courses[d].count
    <3>1. CASE UNCHANGED courses
      BY <3>1
    <3>2. CASE CommitEdit(h)
      BY <3>2 DEF CommitEdit, TypeOK, CourseRow
    <3>. QED
      BY <1>5, <3>1, <3>2 DEF HandlerStep, DeleteDays, CommitAnswer, SaveRetry, ReEnqueue,
         SaveFailure, HandlerThrow, tables
  <2>. QED
    BY <1>1, <2>1, <2>3, <2>4
<1>6. CASE Crash
  <2>1. \A k \in Jobs : Enqueued(k)' => Enqueued(k)
    <3>1. SameJobs /\ DOMAIN queue' = DOMAIN queue
      BY <1>6, JobsStay DEF Crash, StallActive
    <3>. QED
      BY <3>1 DEF SameJobs, Enqueued
  <2>2. \A k \in Jobs : request'[k] = request[k] \/ request'[k].pc = "done"
    BY <1>6 DEF Crash
  <2>3. UNCHANGED courses
    BY <1>6 DEF Crash, tables
  <2>. QED
    BY <2>1, <2>2, <2>3, NothingNew DEF HasCopy
<1>. QED
  BY <1>2, <1>3, <1>4, <1>5, <1>6
  DEF Next, vars, tables, Age, CourseGone, Cleanup,
      PythonStep, CallbackLost, CallbackIgnored, SuccessBegin, FailureBegin, CallbackBegin

\* Each request that reached the queue is counted, so the limit limits what
\* Python is asked: for every fault of the queue, the database, Python and the
\* process, as long as the owner waits for an answer before the next message
\* and sends no completion request in between.
THEOREM RequestsCorrect ==
  ASSUME "overlap" \notin Faults, Toggles = {}
  PROVE  Spec => []RequestsAreCounted
<1>. DEFINE Inv == OneRequestAtATime /\ CallbacksEnqueued /\ CountsInv
<1>1. Init => Inv
  <2>. SUFFICES ASSUME Init PROVE Inv
    OBVIOUS
  <2>1. OneRequestAtATime /\ CallbacksEnqueued
    BY DEF Init, OneRequestAtATime, InProgress, CallbacksEnqueued, Idle
  <2>2. \A c \in Courses : Counted(c) = {} /\ courses[c].count = 0
    BY DEF Init, Counted, Enqueued, NewCourse
  <2>3. CountsInv
    <3>1. \A c \in Courses : IsFiniteSet(Counted(c)) /\ Cardinality(Counted(c)) <= courses[c].count
      BY <2>2, FS_EmptySet
    <3>2. \A j \in Jobs : ~HasCopy(j)
      BY DEF Init, HasCopy
    <3>. QED
      BY <3>1, <3>2 DEF CountsInv
  <2>. QED
    BY <2>1, <2>3
<1>2. TypeOK /\ OwnCourses /\ Inv /\ [Next]_vars => Inv'
  BY OneRequestStays, CallbacksStayEnqueued, CountsStay
<1>3. TypeOK /\ Inv => RequestsAreCounted
  <2>. SUFFICES ASSUME TypeOK, CountsInv, NEW c \in Courses \ gone
                PROVE  Cardinality({j \in Jobs : CourseOf[j] = c /\ Enqueued(j)}) <= courses[c].count
    BY DEF RequestsAreCounted
  <2>. PICK S, T : S = Counted(c) /\ T = {j \in Jobs : CourseOf[j] = c /\ Enqueued(j)}
    OBVIOUS
  <2>1. /\ IsFiniteSet(S) /\ Cardinality(S) <= courses[c].count
        /\ courses[c].count \in Nat /\ Cardinality(S) \in Nat
    BY FS_CardinalityType DEF CountsInv, TypeOK, CourseRow
  <2>2. T \subseteq S
    BY DEF Counted
  <2>3. IsFiniteSet(T) /\ Cardinality(T) <= Cardinality(S)
    BY <2>1, <2>2, FS_Subset
  <2>4. Cardinality(T) \in Nat
    BY <2>3, FS_CardinalityType
  <2>. QED
    BY <2>1, <2>3, <2>4
<1>. QED
  BY <1>1, <1>2, <1>3, TypeCorrect, PTL DEF Spec

-----------------------------------------------------------------------------
(* One job of a course at a time, and the plan it was given stays the plan *)

\* While no course is deleted, whatever names a course names the job's own.
CoursesAreNamed ==
  /\ \A j \in Jobs : Exists(j) => rows[j].course = CourseOf[j]
  /\ worker.pc \notin {"idle", "load"} => worker.row.course = CourseOf[JobOf(worker.entry)]
  /\ \A h \in Handlers : handler[h].pc # "idle" =>
       handler[h].row.course = CourseOf[handler[h].job]
  /\ \A i \in DOMAIN queue : queue[i].data.course = CourseOf[JobOf(i)]

\* A save of an entity that names the course leaves a row that names it.
LEMMA NamedSave ==
  ASSUME rows \in [Jobs -> MaybeRow], NEW j \in Jobs, rows[j].course = CourseOf[j],
         NEW loaded, loaded.course = CourseOf[j], NEW e, e.course = CourseOf[j],
         SaveRow(j, loaded, e)
  PROVE  /\ rows'[j].course = CourseOf[j]
         /\ \A k \in Jobs \ {j} : rows'[k] = rows[k]
<1>1. PICK r \in Saves(loaded, e, rows[j]) : rows' = [rows EXCEPT ![j] = r]
  BY DEF SaveRow
<1>2. r.course = CourseOf[j]
  BY DEF Saves, ChangedColumns
<1>. QED
  BY <1>1, <1>2

\* Only the cron would write over a row what names no course, and it sleeps.
LEMMA NamedRows ==
  ASSUME "courseGone" \notin Faults, TypeOK, CoursesAreNamed, ~Cleanup, [Next]_vars
  PROVE  \A j \in Jobs : Exists(j)' => rows'[j].course = CourseOf[j]
<1>0. rows \in [Jobs -> MaybeRow]
  BY DEF TypeOK
<1>. DEFINE Named == \A j \in Jobs : Exists(j)' => rows'[j].course = CourseOf[j]
<1>1. CASE UNCHANGED rows
  BY <1>1 DEF CoursesAreNamed, Exists
<1>2. ASSUME NEW j \in Jobs, NEW loaded, loaded.course = CourseOf[j],
             NEW e, e.course = CourseOf[j], Exists(j), SaveRow(j, loaded, e)
      PROVE  Named
  <2>1. rows[j].course = CourseOf[j]
    BY <1>2 DEF CoursesAreNamed
  <2>. QED
    BY <1>0, <1>2, <2>1, NamedSave DEF CoursesAreNamed, Exists
<1>3. ASSUME NEW j \in Jobs, RequestStep(j)
      PROVE  Named
  <2>. PICK c \in Nat : c = CourseOf[j]
    BY CourseNumbers
  <2>0. NewJob(c) \in Row /\ NewJob(c).course = c
    BY NewJobType DEF NewJob
  <2>1. CASE RequestInsert(j)
    BY <1>0, <2>0, <2>1 DEF RequestInsert, CoursesAreNamed, Exists
  <2>2. CASE RequestSaveFailure(j)
    <3>1. MarkFailed(NewJob(c), "QUEUE_ERROR").course = c
      BY <2>0, MethodsKeepTheCourse DEF ErrorCodes
    <3>. QED
      BY <1>2, <2>0, <2>2, <3>1 DEF RequestSaveFailure
  <2>. QED
    BY <1>1, <1>3, <2>1, <2>2
    DEF RequestStep, RequestFind, RequestReject, RequestCheckActive,
        RequestSaveCourse, RequestSaveCourseFails, RequestEnqueue,
        RequestEnqueueFails, RequestSaveFailureFails, tables
<1>4. CASE WorkerSaveProcessing \/ WorkerSaveRefused
  <2>1. worker \in WorkerAtWork /\ worker.entry \in DOMAIN queue /\ worker.pc \notin {"idle", "load"}
    BY <1>4, WorkerFields DEF WorkerSaveProcessing, WorkerSaveRefused
  <2>. PICK j \in Jobs : j = JobOf(worker.entry)
    BY <2>1, EntryJob
  <2>. PICK e \in Row : e = worker.row
    BY <2>1 DEF WorkerAtWork
  <2>2. e.course = CourseOf[j]
    BY <2>1 DEF CoursesAreNamed
  <2>3. PICK s : s.course = e.course /\ SaveRow(j, e, s) /\ Exists(j)
    <3>1. /\ IncrementAttempt(MarkProcessing(e)).course = e.course
          /\ MarkFailed(e, "NO_CONTEXT").course = e.course
      BY MethodsKeepTheCourse DEF ErrorCodes
    <3>. QED
      BY <1>4, <3>1 DEF WorkerSaveProcessing, WorkerSaveRefused
  <2>. QED
    BY <1>2, <2>2, <2>3
<1>5. ASSUME NEW h \in Handlers,
             CommitEdit(h) \/ CommitAnswer(h) \/ SaveRetry(h) \/ SaveFailure(h)
      PROVE  Named
  <2>1. handler[h].pc # "idle"
    BY <1>5 DEF CommitEdit, CommitAnswer, SaveRetry, SaveFailure
  <2>. PICK j \in Jobs : j = handler[h].job
    BY <2>1, HandlerFields
  <2>. PICK e \in Row : e = handler[h].row
    BY <2>1, HandlerFields
  <2>2. e.course = CourseOf[j]
    BY <2>1 DEF CoursesAreNamed
  <2>3. PICK s : s.course = e.course /\ SaveRow(j, e, s) /\ Exists(j)
    <3>1. /\ ResetForRetry(e).course = e.course /\ MarkFailed(e, "LLM_ERROR").course = e.course
          /\ \A i : MarkSuccessWithIntent(e, i).course = e.course
      BY MethodsKeepTheCourse DEF ErrorCodes, MarkSuccessWithIntent, Row
    <3>. QED
      BY <1>5, <3>1 DEF CommitEdit, CommitAnswer, SaveRetry, SaveFailure
  <2>. QED
    BY <1>2, <2>2, <2>3
<1>. QED
  BY <1>1, <1>3, <1>4, <1>5
  DEF Next, vars, tables, ToggleStep, ToggleLoad, ToggleSave, ToggleFails, Age, CourseGone,
      PythonStep, CallbackLost, CallbackIgnored, SuccessBegin, FailureBegin, CallbackBegin,
      WorkerStep, WorkerTake, WorkerLoad, WorkerDrop, WorkerFindCourse, WorkerRefuse,
      WorkerPost, WorkerAck, WorkerThrow, HandlerStep, DeleteDays, ReEnqueue, HandlerThrow,
      Crash

\* An added entry names the course, and the entries there are keep their data.
LEMMA NamedEntries ==
  ASSUME TypeOK, OwnCourses, CoursesAreNamed, [Next]_vars
  PROVE  \A i \in DOMAIN queue' : queue'[i].data.course = CourseOf[JobOf(i)']
<1>. DEFINE Named == \A i \in DOMAIN queue' : queue'[i].data.course = CourseOf[JobOf(i)']
<1>1. CASE UNCHANGED queue
  BY <1>1 DEF CoursesAreNamed, JobOf
<1>2. ASSUME NEW j \in Jobs, NEW c \in Courses \union {NoCourse}, c = CourseOf[j], AddJob(j, c)
      PROVE  Named
  <2>1. queue'[Len(queue) + 1].data = [job |-> j, course |-> c]
    <3>1. queue'[Len(queue) + 1] = NewEntry([job |-> j, course |-> c])
      BY <1>2, AddedEntry
    <3>2. \A d : NewEntry(d).data = d
      BY DEF NewEntry
    <3>. QED
      BY <3>1, <3>2
  <2>2. ASSUME NEW i \in DOMAIN queue'
        PROVE  queue'[i].data.course = CourseOf[queue'[i].data.job]
    BY <1>2, <2>1, AddedEntry DEF CoursesAreNamed, JobOf
  <2>. QED
    BY <2>2 DEF JobOf
<1>3. ASSUME DOMAIN queue' = DOMAIN queue, \A i \in DOMAIN queue : queue'[i].data = queue[i].data
      PROVE  Named
  BY <1>3 DEF CoursesAreNamed, JobOf
<1>4. ASSUME NEW j \in Jobs, RequestStep(j)
      PROVE  Named
  <2>. PICK c \in Courses \union {NoCourse} : c = CourseOf[j]
    BY CourseNumbers
  <2>1. UNCHANGED queue \/ AddJob(j, c)
    BY <1>4 DEF RequestStep, RequestFind, RequestReject, RequestCheckActive,
       RequestInsert, RequestSaveCourse, RequestSaveCourseFails, RequestEnqueue,
       RequestEnqueueFails, AddRejected, RequestSaveFailure, RequestSaveFailureFails
  <2>. QED
    BY <1>1, <1>2, <2>1
<1>5. CASE WorkerStep
  BY <1>1, <1>3, <1>5, WorkerQueueType
<1>6. ASSUME NEW h \in Handlers, HandlerStep(h)
      PROVE  Named
  <2>1. handler[h].pc # "idle"
    BY <1>6, HandlerKeeps
  <2>. PICK j \in Jobs : j = handler[h].job
    BY <2>1, HandlerFields
  <2>. PICK c \in Courses \union {NoCourse} : c = handler[h].row.course
    BY <2>1, CourseNumbers DEF OwnCourses, OwnHandlers, Own
  <2>2. UNCHANGED queue \/ AddJob(j, c)
    BY <1>6 DEF HandlerStep, DeleteDays, CommitEdit, CommitAnswer, SaveRetry, ReEnqueue,
       SaveFailure, HandlerThrow, AddRejected
  <2>3. c = CourseOf[j]
    BY <2>1 DEF CoursesAreNamed
  <2>. QED
    BY <1>1, <1>2, <2>2, <2>3
<1>7. CASE Crash
  <2>1. ASSUME NEW i \in DOMAIN queue
        PROVE  i \in DOMAIN queue' /\ queue'[i].data = queue[i].data
    <3>1. queue[i] \in EntryOf(Payload)
      BY EntryJob DEF Entry, Payload
    <3>. QED
      BY <1>7, <3>1, EntryChanges DEF Crash, StallActive
  <2>. QED
    BY <1>3, <1>7, <2>1 DEF Crash, StallActive
<1>. QED
  BY <1>1, <1>4, <1>5, <1>6, <1>7
  DEF Next, vars, tables, ToggleStep, ToggleLoad, ToggleSave, ToggleFails, Age, CourseGone,
      PythonStep, CallbackLost, CallbackIgnored, SuccessBegin, FailureBegin, CallbackBegin,
      Cleanup

\* What the worker and the callbacks hold, they loaded with its course.
LEMMA NamedCopies ==
  ASSUME TypeOK, OwnCourses, CoursesAreNamed, [Next]_vars
  PROVE  /\ worker'.pc \notin {"idle", "load"} =>
              worker'.row.course = CourseOf[queue'[worker'.entry].data.job]
         /\ \A h \in Handlers : handler'[h].pc # "idle" =>
              handler'[h].row.course = CourseOf[handler'[h].job]
<1>. DEFINE WorkerNamed == worker'.pc \notin {"idle", "load"} =>
              worker'.row.course = CourseOf[queue'[worker'.entry].data.job]
            HandlersNamed == \A h \in Handlers : handler'[h].pc # "idle" =>
              handler'[h].row.course = CourseOf[handler'[h].job]
<1>1. \A i \in DOMAIN queue : JobOf(i)' = JobOf(i)
  BY JobsStay DEF SameJobs
<1>2. ASSUME UNCHANGED worker
      PROVE  WorkerNamed
  BY <1>1, <1>2, WorkerFields DEF CoursesAreNamed, JobOf
<1>3. ASSUME UNCHANGED handler
      PROVE  HandlersNamed
  BY <1>3 DEF CoursesAreNamed
<1>4. ASSUME WorkerStep
      PROVE  WorkerNamed
  <2>1. ASSUME worker.pc \notin {"idle", "load"}, worker'.entry = worker.entry,
               worker'.row.course = worker.row.course
        PROVE  WorkerNamed
    BY <1>1, <2>1, WorkerFields DEF CoursesAreNamed, JobOf
  <2>2. CASE WorkerLoad
    <3>. PICK i \in DOMAIN queue : i = worker.entry
      BY <2>2, WorkerFields DEF WorkerLoad
    <3>1. /\ worker'.entry = i /\ worker'.row = rows[JobOf(i)] /\ Exists(JobOf(i))
          /\ JobOf(i) \in Jobs
      BY <2>2, EntryJob DEF WorkerLoad
    <3>. QED
      BY <1>1, <3>1 DEF CoursesAreNamed, JobOf
  <2>3. CASE WorkerSaveProcessing \/ WorkerFindCourse \/ WorkerRefuse \/ WorkerPost
    <3>1. worker \in WorkerAtWork /\ worker.pc \notin {"idle", "load"}
      BY <2>3, WorkerFields
      DEF WorkerSaveProcessing, WorkerFindCourse, WorkerRefuse, WorkerPost
    <3>. PICK e \in Row : e = worker.row
      BY <3>1 DEF WorkerAtWork
    <3>2. worker'.entry = worker.entry
      BY <2>3, <3>1
      DEF WorkerSaveProcessing, WorkerFindCourse, WorkerRefuse, WorkerPost, WorkerAtWork
    <3>3. worker'.row \in {e, IncrementAttempt(MarkProcessing(e))}
      BY <2>3, <3>1
      DEF WorkerSaveProcessing, WorkerFindCourse, WorkerRefuse, WorkerPost, WorkerAtWork
    <3>4. worker'.row.course = e.course
      BY <3>3, MethodsKeepTheCourse
    <3>. QED
      BY <2>1, <3>1, <3>2, <3>4
  <2>4. CASE worker'.pc \in {"idle", "load"}
    BY <2>4
  <2>. QED
    BY <1>4, <2>2, <2>3, <2>4
    DEF WorkerStep, WorkerTake, WorkerDrop, WorkerSaveRefused, WorkerAck, WorkerThrow, Idle
<1>5. ASSUME NEW h \in Handlers, HandlerStep(h)
      PROVE  HandlersNamed
  BY <1>5, HandlerKeeps DEF CoursesAreNamed, Idle
<1>6. ASSUME NEW t \in tasks, NEW h \in Handlers, NEW pc, CallbackBegin(h, t, pc)
      PROVE  HandlersNamed
  <2>. PICK j \in Jobs : j = JobOf(t.entry)
    BY EntryJob DEF TypeOK
  <2>1. /\ handler'[h].job = j /\ handler'[h].row = rows[j] /\ Exists(j)
        /\ \A g \in Handlers \ {h} : handler'[g] = handler[g]
    BY <1>6 DEF CallbackBegin, Active, Exists, TypeOK
  <2>. QED
    BY <2>1 DEF CoursesAreNamed
<1>7. CASE Crash
  BY <1>7 DEF Crash, Idle
<1>8. ASSUME NEW h \in Handlers, HandlerStep(h)
      PROVE  UNCHANGED worker
  BY <1>8, HandlerKeeps
<1>9. WorkerNamed
  BY <1>2, <1>4, <1>7, <1>8
  DEF Next, vars, tables, RequestStep, RequestFind, RequestReject, RequestCheckActive,
      RequestInsert, RequestSaveCourse, RequestSaveCourseFails, RequestEnqueue,
      RequestEnqueueFails, RequestSaveFailure, RequestSaveFailureFails,
      ToggleStep, ToggleLoad, ToggleSave, ToggleFails, PythonStep, CallbackLost,
      CallbackIgnored, SuccessBegin, FailureBegin, CallbackBegin, Cleanup, Age, CourseGone
<1>10. HandlersNamed
  BY <1>3, <1>5, <1>6, <1>7
  DEF Next, vars, tables, RequestStep, RequestFind, RequestReject, RequestCheckActive,
      RequestInsert, RequestSaveCourse, RequestSaveCourseFails, RequestEnqueue,
      RequestEnqueueFails, RequestSaveFailure, RequestSaveFailureFails,
      ToggleStep, ToggleLoad, ToggleSave, ToggleFails,
      WorkerStep, WorkerTake, WorkerLoad, WorkerDrop, WorkerSaveProcessing,
      WorkerFindCourse, WorkerRefuse, WorkerSaveRefused, WorkerPost, WorkerAck,
      WorkerThrow, PythonStep, CallbackLost, CallbackIgnored, SuccessBegin, FailureBegin,
      Cleanup, Age, CourseGone
<1>. QED
  BY <1>9, <1>10

LEMMA CoursesStayNamed ==
  ASSUME "courseGone" \notin Faults, TypeOK, OwnCourses, CoursesAreNamed, ~Cleanup,
         [Next]_vars
  PROVE  CoursesAreNamed'
  BY NamedRows, NamedEntries, NamedCopies DEF CoursesAreNamed, JobOf

-----------------------------------------------------------------------------
(* Where there is work, the job is PENDING or PROCESSING                   *)

\* Work that is not done: it is with the queue, the worker, Python or a
\* callback, or the request is about to enqueue it.
Open(j) ==
  \/ EntriesAtWork(j) # {} \/ AnswersFor(j) # {} \/ CallbacksFor(j) # {}
  \/ request[j].pc \in {"inserted", "saved"}

WorkIsActive == \A j \in Jobs : Open(j) => rows[j].status \in Active

\* Only an insert opens a job.
LEMMA NoOtherOpens ==
  ASSUME NothingIsRepeated, TypeOK, OwnCourses, EntryIsActive, [Next]_vars,
         NEW j \in Jobs, ~RequestInsert(j), Open(j)'
  PROVE  Open(j)
<1>1. ASSUME UNCHANGED request, EntriesAtWork(j)' \subseteq EntriesAtWork(j),
             AnswersFor(j)' \subseteq AnswersFor(j), CallbacksFor(j)' \subseteq CallbacksFor(j)
      PROVE  Open(j)
  BY <1>1 DEF Open
<1>2. CASE UNCHANGED <<queue, worker, tasks, handler, request>>
  BY <1>1, <1>2, SameWork
<1>3. ASSUME NEW k \in Jobs, RequestStep(k)
      PROVE  Open(j)
  <2>. PICK c \in Courses \union {NoCourse} : c = CourseOf[k]
    BY CourseNumbers
  <2>1. UNCHANGED <<worker, tasks, handler>>
    BY <1>3 DEF RequestStep, RequestFind, RequestReject, RequestCheckActive, RequestInsert,
           RequestSaveCourse, RequestSaveCourseFails, RequestEnqueue,
           RequestEnqueueFails, RequestSaveFailure, RequestSaveFailureFails, tables
  <2>2. request'[j].pc \in {"inserted", "saved"} => request[j].pc \in {"inserted", "saved"}
    <3>1. CASE k # j
      BY <1>3, <3>1, RequestCopies
    <3>2. CASE k = j /\ RequestCheckActive(j)
      <4>1. request[j] \in Copied
        BY <3>2, CopyFields DEF RequestCheckActive, HasCopy
      <4>. QED
        BY <3>2, <4>1 DEF RequestCheckActive, TypeOK, Copied
    <3>. QED
      BY <1>3, <3>1, <3>2 DEF RequestStep, RequestFind, RequestReject,
         RequestSaveCourse, RequestSaveCourseFails, RequestEnqueue, TypeOK,
         RequestEnqueueFails, RequestSaveFailure, RequestSaveFailureFails
  <2>3. UNCHANGED queue \/ (AddJob(k, c) /\ request[k].pc = "saved")
    BY <1>3 DEF NothingIsRepeated, RequestStep, RequestFind, RequestReject,
       RequestCheckActive, RequestInsert, RequestSaveCourse, RequestSaveCourseFails,
       RequestEnqueue, RequestEnqueueFails, AddRejected, RequestSaveFailure,
       RequestSaveFailureFails
  <2>4. CASE UNCHANGED queue
    BY <2>1, <2>2, <2>4, SameWork DEF Open
  <2>5. CASE AddJob(k, c) /\ request[k].pc = "saved"
    <3>1. CASE k = j
      BY <2>5, <3>1 DEF Open
    <3>2. CASE k # j
      BY <2>1, <2>2, <2>5, <3>2, AddedWork, SameWork DEF Open
    <3>. QED
      BY <3>1, <3>2
  <2>. QED
    BY <2>3, <2>4, <2>5
<1>4. CASE WorkerStep
  <2>1. UNCHANGED <<request, handler>>
    BY <1>4 DEF WorkerStep, WorkerTake, WorkerLoad, WorkerDrop, WorkerSaveProcessing,
           WorkerFindCourse, WorkerRefuse, WorkerSaveRefused, WorkerPost, WorkerAck,
           WorkerThrow, tables
  <2>2. CASE UNCHANGED tasks
    <3>1. AnswersFor(j)' = AnswersFor(j)
      BY <1>4, <2>2, WorkerQueueType DEF AnswersFor, JobOf, TypeOK
    <3>. QED
      BY <1>1, <1>4, <2>1, <3>1, SameWork, WorkerEntries
  <2>3. CASE WorkerPost
    <3>. PICK i \in DOMAIN queue : i = worker.entry /\ worker.pc = "post"
      BY <2>3, WorkerFields DEF WorkerPost
    <3>1. CASE JobOf(i) = j
      BY <3>1 DEF Open, EntriesAtWork, EntriesOf, AtWork
    <3>2. CASE JobOf(i) # j
      <4>1. AnswersFor(j)' \subseteq AnswersFor(j)
        BY <2>3, <3>2 DEF WorkerPost, AnswersFor, JobOf
      <4>. QED
        BY <1>1, <1>4, <2>1, <4>1, SameWork, WorkerEntries
    <3>. QED
      BY <3>1, <3>2
  <2>. QED
    BY <1>4, <2>2, <2>3 DEF WorkerStep, WorkerTake, WorkerLoad, WorkerDrop,
       WorkerSaveProcessing, WorkerFindCourse, WorkerRefuse, WorkerSaveRefused, WorkerAck,
       WorkerThrow
<1>5. ASSUME NEW h \in Handlers, HandlerStep(h)
      PROVE  Open(j)
  <2>1. /\ UNCHANGED <<request, worker>> /\ handler[h].pc # "idle"
        /\ CallbacksFor(j)' \subseteq CallbacksFor(j)
    BY <1>5, HandlerKeeps DEF CallbacksFor, Idle
  <2>2. UNCHANGED tasks
    BY <1>5 DEF HandlerStep, DeleteDays, CommitEdit, CommitAnswer, SaveRetry, ReEnqueue,
       SaveFailure, HandlerThrow
  <2>. PICK k \in Jobs : k = handler[h].job
    BY <2>1, HandlerFields
  <2>. PICK c \in Courses \union {NoCourse} : c = handler[h].row.course
    BY <2>1, CourseNumbers DEF OwnCourses, OwnHandlers, Own
  <2>3. UNCHANGED queue \/ AddJob(k, c)
    BY <1>5 DEF HandlerStep, DeleteDays, CommitEdit, CommitAnswer, SaveRetry, ReEnqueue,
       SaveFailure, HandlerThrow, AddRejected
  <2>4. CASE k = j
    BY <2>1, <2>4 DEF Open, CallbacksFor
  <2>5. CASE k # j
    <3>1. EntriesAtWork(j)' \subseteq EntriesAtWork(j) /\ AnswersFor(j)' = AnswersFor(j)
      BY <2>1, <2>2, <2>3, <2>5, SameWork, AddedWork
    <3>. QED
      BY <1>1, <2>1, <3>1
  <2>. QED
    BY <2>4, <2>5
<1>6. CASE PythonStep
  <2>1. UNCHANGED <<request, worker, queue>>
    BY <1>6 DEF PythonStep, CallbackLost, CallbackIgnored, SuccessBegin, FailureBegin,
           CallbackBegin, tables
  <2>2. tasks' \subseteq tasks
    BY <1>6 DEF PythonStep, CallbackLost, CallbackIgnored, SuccessBegin, FailureBegin,
           CallbackBegin, Receive
  <2>3. AnswersFor(j)' \subseteq AnswersFor(j)
    BY <2>1, <2>2 DEF AnswersFor, JobOf
  <2>4. CASE UNCHANGED handler
    BY <1>1, <2>1, <2>3, <2>4, SameWork
  <2>5. ASSUME NEW t \in tasks, NEW h \in Handlers, NEW pc, CallbackBegin(h, t, pc)
        PROVE  Open(j)
    <3>1. /\ handler'[h].job = JobOf(t.entry)
          /\ \A g \in Handlers \ {h} : handler'[g] = handler[g]
      BY <2>5 DEF CallbackBegin, TypeOK
    <3>2. CASE JobOf(t.entry) = j
      BY <3>2 DEF Open, AnswersFor
    <3>3. CASE JobOf(t.entry) # j
      <4>1. CallbacksFor(j)' \subseteq CallbacksFor(j)
        BY <3>1, <3>3 DEF CallbacksFor
      <4>. QED
        BY <1>1, <2>1, <2>3, <4>1, SameWork
    <3>. QED
      BY <3>2, <3>3
  <2>. QED
    BY <1>6, <2>4, <2>5 DEF PythonStep, CallbackLost, CallbackIgnored, SuccessBegin,
       FailureBegin
<1>. QED
  BY <1>2, <1>3, <1>4, <1>5, <1>6
  DEF Next, vars, tables, Age, ToggleStep, ToggleLoad, ToggleSave, ToggleFails,
      CourseGone, Cleanup, Crash, NothingIsRepeated

\* What a save leaves in the status.
LEMMA StatusOfSave ==
  ASSUME rows \in [Jobs -> MaybeRow], NEW j \in Jobs, NEW loaded, NEW e, SaveRow(j, loaded, e)
  PROVE  rows'[j].status \in {e.status, rows[j].status}
  BY DEF SaveRow, Saves, ChangedColumns

\* Who finishes a job has the only work of it, and leaves none; who makes it
\* PENDING or PROCESSING again hands the work on.
LEMMA WorkStaysActive ==
  ASSUME NothingIsRepeated, TypeOK, OwnCourses, EntryIsActive, OnePieceOfWork, ~Cleanup,
         WorkIsActive, [Next]_vars
  PROVE  WorkIsActive'
<1>0. rows \in [Jobs -> MaybeRow]
  BY DEF TypeOK
<1>. SUFFICES ASSUME NEW j \in Jobs, Open(j)'
              PROVE  rows'[j].status \in Active
  BY DEF WorkIsActive
<1>1. CASE RequestInsert(j)
  BY <1>0, <1>1 DEF RequestInsert, NewJob, Active
<1>2. CASE ~RequestInsert(j)
  <2>1. Open(j) /\ rows[j].status \in Active
    BY <1>2, NoOtherOpens DEF WorkIsActive
  <2>. SUFFICES ASSUME rows'[j].status # rows[j].status
                PROVE  rows'[j].status \in Active
    BY <2>1
  <2>2. CASE RequestSaveFailure(j)
    <3>1. request[j].pc = "addFailed"
      BY <2>2 DEF RequestSaveFailure
    <3>2. WorkOf(j) = {}
      BY <3>1 DEF OnePieceOfWork
    <3>. QED
      BY <2>1, <3>1, <3>2 DEF Open, WorkOf
  <2>3. CASE /\ WorkerSaveProcessing \/ WorkerSaveRefused
             /\ JobOf(worker.entry) = j
    <3>1. /\ worker \in WorkerAtWork /\ worker.entry \in DOMAIN queue
          /\ worker.pc \in {"save", "refuse"}
      BY <2>3, WorkerFields DEF WorkerSaveProcessing, WorkerSaveRefused
    <3>2. CASE WorkerSaveProcessing
      <4>. PICK e \in Row : e = worker.row
        BY <3>1 DEF WorkerAtWork
      <4>1. IncrementAttempt(MarkProcessing(e)).status = "PROCESSING"
        BY MethodsKeepTheIntent
      <4>. PICK s : s = IncrementAttempt(MarkProcessing(e))
        OBVIOUS
      <4>2. SaveRow(j, e, s)
        BY <2>3, <3>2 DEF WorkerSaveProcessing
      <4>3. rows'[j].status \in {s.status, rows[j].status}
        BY <1>0, <4>2, StatusOfSave
      <4>. QED
        BY <2>1, <4>1, <4>3 DEF Active
    <3>3. CASE WorkerSaveRefused
      <4>. PICK i \in DOMAIN queue : i = worker.entry
        BY <3>1
      <4>1. i \in EntriesAtWork(j)
        BY <2>3, <3>1 DEF EntriesAtWork, EntriesOf, AtWork
      <4>2. /\ EntriesAtWork(j) = {i} /\ AnswersFor(j) = {} /\ CallbacksFor(j) = {}
            /\ request[j].pc = "done"
        BY <4>1, OnlyEntry
      <4>3. queue[i] \in Entry
        BY EntryJob
      <4>4. /\ queue'[i].state = "completed" /\ worker' = Idle
            /\ UNCHANGED <<tasks, handler, request>>
        BY <3>3, <4>3 DEF WorkerSaveRefused, SetEntry, TypeOK, Entry, EntryOf
      <4>5. ~AtWork(i)'
        BY <4>4 DEF AtWork, Idle
      <4>6. EntriesAtWork(j)' = {}
        BY <3>3, <4>2, <4>5, WorkerEntries DEF EntriesAtWork, WorkerStep
      <4>7. AnswersFor(j)' = {}
        <5>1. \A k \in DOMAIN queue : JobOf(k)' = JobOf(k)
          BY <3>3, WorkerQueueType DEF WorkerStep
        <5>2. \A t \in tasks : t.entry \in DOMAIN queue
          BY DEF TypeOK
        <5>3. \A t \in tasks : JobOf(t.entry)' = JobOf(t.entry)
          BY <5>1, <5>2 DEF JobOf
        <5>. QED
          BY <4>2, <4>4, <5>3 DEF AnswersFor
      <4>8. CallbacksFor(j)' = {}
        BY <4>2, <4>4, SameWork
      <4>. QED
        BY <4>2, <4>4, <4>6, <4>7, <4>8 DEF Open
    <3>. QED
      BY <2>3, <3>2, <3>3
  <2>4. ASSUME NEW h \in Handlers, handler[h].job = j,
               CommitEdit(h) \/ CommitAnswer(h) \/ SaveRetry(h) \/ SaveFailure(h)
        PROVE  rows'[j].status \in Active
    <3>1. handler[h].pc # "idle"
      BY <2>4 DEF CommitEdit, CommitAnswer, SaveRetry, SaveFailure
    <3>2. CASE SaveRetry(h)
      <4>. PICK e \in Row : e = handler[h].row
        BY <3>1, HandlerFields
      <4>1. ResetForRetry(e).status = "PENDING"
        BY MethodsKeepTheIntent
      <4>. PICK s : s = ResetForRetry(e)
        OBVIOUS
      <4>2. SaveRow(j, e, s)
        BY <2>4, <3>2 DEF SaveRetry
      <4>3. rows'[j].status \in {s.status, rows[j].status}
        BY <1>0, <4>2, StatusOfSave
      <4>. QED
        BY <2>1, <4>1, <4>3 DEF Active
    <3>3. CASE CommitEdit(h) \/ CommitAnswer(h) \/ SaveFailure(h)
      <4>1. h \in CallbacksFor(j)
        BY <2>4, <3>1 DEF CallbacksFor
      <4>2. /\ EntriesAtWork(j) = {} /\ AnswersFor(j) = {} /\ CallbacksFor(j) = {h}
            /\ request[j].pc = "done"
        BY <4>1, OnlyCallback
      <4>3. /\ handler'[h] = Idle /\ UNCHANGED <<queue, tasks, worker, request>>
            /\ \A g \in Handlers \ {h} : handler'[g] = handler[g]
        BY <3>3 DEF CommitEdit, CommitAnswer, SaveFailure, TypeOK
      <4>4. CallbacksFor(j)' = {}
        BY <4>2, <4>3 DEF CallbacksFor, Idle
      <4>. QED
        BY <4>2, <4>3, <4>4, SameWork DEF Open
    <3>. QED
      BY <2>4, <3>2, <3>3
  <2>. QED
    BY <1>2, <2>2, <2>3, <2>4, WhoWrites
<1>. QED
  BY <1>1, <1>2

\* A request that has passed the check of the active jobs holds its course, and
\* so does a job until it is finished.
Holds(j) == request[j].pc = "checked" \/ rows[j].status \in Active

OneJobPerCourse ==
  \A j, k \in Jobs :
    j # k /\ CourseOf[j] = CourseOf[k] => ~(Holds(j) /\ Holds(k))

\* Who writes a status has the work, or the check behind it.
LEMMA WritersHold ==
  ASSUME TypeOK, WorkIsActive, ~Cleanup, [Next]_vars, NEW j \in Jobs,
         rows'[j].status # rows[j].status, rows'[j].status \in Active
  PROVE  Holds(j)
<1>0. rows \in [Jobs -> MaybeRow]
  BY DEF TypeOK
<1>1. CASE RequestInsert(j)
  BY <1>1 DEF RequestInsert, Holds
<1>2. CASE RequestSaveFailure(j)
  <2>. PICK e : e = NewJob(CourseOf[j])
    OBVIOUS
  <2>. PICK s : s = MarkFailed(e, "QUEUE_ERROR")
    OBVIOUS
  <2>1. SaveRow(j, e, s) /\ e.status = "PENDING" /\ s.status = "FAILED"
    BY <1>2, CourseNumbers, NewJobType, MethodsKeepTheIntent DEF RequestSaveFailure, NewJob
  <2>2. rows'[j].status = "FAILED"
    BY <1>0, <2>1, StatusIsWritten
  <2>. QED
    BY <2>2 DEF Active
<1>3. CASE /\ WorkerSaveProcessing \/ WorkerSaveRefused
           /\ JobOf(worker.entry) = j
  <2>1. worker.entry \in DOMAIN queue /\ worker.pc \in {"save", "refuse"}
    BY <1>3, WorkerFields DEF WorkerSaveProcessing, WorkerSaveRefused
  <2>2. worker.entry \in EntriesAtWork(j)
    BY <1>3, <2>1 DEF EntriesAtWork, EntriesOf, AtWork
  <2>. QED
    BY <2>2 DEF WorkIsActive, Open, Holds
<1>4. ASSUME NEW h \in Handlers, handler[h].job = j,
             CommitEdit(h) \/ CommitAnswer(h) \/ SaveRetry(h) \/ SaveFailure(h)
      PROVE  Holds(j)
  <2>1. h \in CallbacksFor(j)
    BY <1>4 DEF CallbacksFor, CommitEdit, CommitAnswer, SaveRetry, SaveFailure
  <2>. QED
    BY <2>1 DEF WorkIsActive, Open, Holds
<1>. QED
  BY <1>1, <1>2, <1>3, <1>4, WhoWrites

\* The other code changes no request; a crash only ends them.
LEMMA OtherRequests ==
  ASSUME TypeOK, [Next]_vars, \A j \in Jobs : ~RequestStep(j), NEW j \in Jobs
  PROVE  request'[j] = request[j] \/ request'[j].pc = "done"
<1>1. ASSUME NEW h \in Handlers, HandlerStep(h)
      PROVE  UNCHANGED request
  BY <1>1, HandlerKeeps
<1>2. CASE Crash
  BY <1>2 DEF Crash
<1>. QED
  BY <1>1, <1>2
  DEF Next, vars, tables, ToggleStep, ToggleLoad, ToggleSave, ToggleFails, Age, CourseGone,
      PythonStep, CallbackLost, CallbackIgnored, SuccessBegin, FailureBegin, CallbackBegin,
      WorkerStep, WorkerTake, WorkerLoad, WorkerDrop, WorkerSaveProcessing,
      WorkerFindCourse, WorkerRefuse, WorkerSaveRefused, WorkerPost, WorkerAck,
      WorkerThrow, Cleanup

\* The check finds the course free, and nobody else is between the check and
\* the insert: the owner sends one message at a time.
LEMMA OneJobStays ==
  ASSUME TypeOK, OneRequestAtATime, CoursesAreNamed, WorkIsActive, ~Cleanup,
         OneJobPerCourse, [Next]_vars
  PROVE  OneJobPerCourse'
<1>1. ASSUME NEW j \in Jobs, RequestCheckActive(j)
      PROVE  OneJobPerCourse'
  <2>1. /\ UNCHANGED rows /\ request[j].pc = "found" /\ ActiveOf(CourseOf[j]) = {}
        /\ \A k \in Jobs \ {j} : request'[k] = request[k]
    BY <1>1 DEF RequestCheckActive, tables, TypeOK
  <2>2. ASSUME NEW k \in Jobs, k # j, CourseOf[k] = CourseOf[j]
        PROVE  ~Holds(k)
    <3>1. request[k].pc # "checked"
      BY <2>1, <2>2 DEF OneRequestAtATime, InProgress
    <3>2. rows[k].status \notin Active
      BY <2>1, <2>2 DEF ActiveOf, CoursesAreNamed, Exists, Active
    <3>. QED
      BY <3>1, <3>2 DEF Holds
  <2>3. \A k \in Jobs \ {j} : Holds(k)' <=> Holds(k)
    BY <2>1 DEF Holds
  <2>4. ASSUME NEW k \in Jobs, NEW l \in Jobs, k # l, CourseOf[k] = CourseOf[l]
        PROVE  ~(Holds(k)' /\ Holds(l)')
    BY <2>2, <2>3, <2>4 DEF OneJobPerCourse
  <2>. QED
    BY <2>4 DEF OneJobPerCourse
<1>2. CASE \A j \in Jobs : ~RequestCheckActive(j)
  <2>1. ASSUME NEW j \in Jobs, request'[j].pc = "checked"
        PROVE  request[j].pc = "checked"
    <3>1. ASSUME NEW k \in Jobs, RequestStep(k)
          PROVE  request[j].pc = "checked"
      <4>1. CASE k # j
        BY <2>1, <3>1, <4>1, RequestCopies
      <4>2. CASE k = j /\ RequestInsert(j)
        <5>1. request[j] \in Copied
          BY <4>2, CopyFields DEF RequestInsert, HasCopy
        <5>. QED
          BY <2>1, <4>2, <5>1 DEF RequestInsert, TypeOK, Copied
      <4>. QED
        BY <1>2, <2>1, <3>1, <4>1, <4>2 DEF RequestStep, RequestFind, RequestReject,
           RequestSaveCourse, RequestSaveCourseFails, RequestEnqueue, TypeOK,
           RequestEnqueueFails, RequestSaveFailure, RequestSaveFailureFails
    <3>. QED
      BY <2>1, <3>1, OtherRequests
  <2>2. \A j \in Jobs : Holds(j)' => Holds(j)
    BY <2>1, WritersHold DEF Holds
  <2>. QED
    BY <2>2 DEF OneJobPerCourse
<1>. QED
  BY <1>1, <1>2

-----------------------------------------------------------------------------
(* The plan Python is given is the plan its answer replaces                *)

PlanOf(j) == days[CourseOf[j]]

DaysAreOne == \A c \in Courses : \E n \in Nat : days[c] = {n}

WorkerIsFresh == worker.pc = "post" => worker.base = PlanOf(JobOf(worker.entry))

TasksAreFresh == \A t \in tasks : t.base = PlanOf(JobOf(t.entry))

CallbacksAreFresh ==
  \A h \in Handlers :
    /\ handler[h].pc # "idle" => handler[h].base = PlanOf(handler[h].job)
    /\ handler[h].pc = "commit" => handler[h].seen = PlanOf(handler[h].job)

PlanIsFresh == DaysAreOne /\ WorkerIsFresh /\ TasksAreFresh /\ CallbacksAreFresh

\* The worker reads the plan of its own course.
LEMMA WorkerReads ==
  ASSUME TypeOK, OwnCourses, CoursesAreNamed, PlanIsFresh, WorkerStep
  PROVE  PlanIsFresh'
<1>1. UNCHANGED <<days, handler>>
  BY DEF WorkerStep, WorkerTake, WorkerLoad, WorkerDrop, WorkerSaveProcessing,
         WorkerFindCourse, WorkerRefuse, WorkerSaveRefused, WorkerPost, WorkerAck,
         WorkerThrow, tables
<1>2. \A i \in DOMAIN queue : JobOf(i)' = JobOf(i)
  BY WorkerQueueType
<1>3. DaysAreOne' /\ CallbacksAreFresh'
  BY <1>1 DEF PlanIsFresh, DaysAreOne, CallbacksAreFresh, PlanOf
<1>4. \A t \in tasks : t.base = days[CourseOf[JobOf(t.entry)']]
  BY <1>2 DEF PlanIsFresh, TasksAreFresh, PlanOf, TypeOK
<1>5. CASE WorkerFindCourse
  <2>. PICK i \in DOMAIN queue : i = worker.entry
    BY <1>5, WorkerFields DEF WorkerFindCourse
  <2>1. worker \in WorkerAtWork
    BY <1>5, WorkerFields DEF WorkerFindCourse
  <2>2. queue[i].data.course = CourseOf[JobOf(i)] /\ queue[i].data.course # NoCourse
    BY EntryJob, CourseNumbers DEF CoursesAreNamed, NoCourse
  <2>3. worker'.entry = i /\ worker'.base = days[CourseOf[JobOf(i)]]
    BY <1>5, <2>1, <2>2 DEF WorkerFindCourse, Found, WorkerAtWork
  <2>4. UNCHANGED <<queue, tasks>>
    BY <1>5 DEF WorkerFindCourse
  <2>. QED
    BY <1>1, <1>3, <1>4, <2>3, <2>4 DEF PlanIsFresh, WorkerIsFresh, TasksAreFresh, PlanOf, JobOf
<1>6. CASE WorkerPost
  <2>. PICK i \in DOMAIN queue : i = worker.entry /\ worker.pc = "post"
    BY <1>6, WorkerFields DEF WorkerPost
  <2>1. worker.base = days[CourseOf[JobOf(i)]]
    BY DEF PlanIsFresh, WorkerIsFresh, PlanOf
  <2>. PICK r : r = queue[i].made + queue[i].stalls
    OBVIOUS
  <2>2. /\ UNCHANGED queue /\ worker'.pc = "posted"
        /\ tasks' = tasks \union {[entry |-> i, run |-> r, base |-> worker.base]}
    BY <1>6, WorkerFields DEF WorkerPost, WorkerAtWork
  <2>. QED
    BY <1>1, <1>3, <1>4, <2>1, <2>2
    DEF PlanIsFresh, WorkerIsFresh, TasksAreFresh, PlanOf, JobOf
<1>7. CASE worker'.pc # "post" /\ UNCHANGED tasks
  BY <1>1, <1>3, <1>4, <1>7 DEF PlanIsFresh, WorkerIsFresh, TasksAreFresh, PlanOf, JobOf
<1>8. CASE WorkerSaveProcessing \/ WorkerRefuse
  <2>1. worker \in WorkerAtWork
    BY <1>8, WorkerFields DEF WorkerSaveProcessing, WorkerRefuse
  <2>. QED
    BY <1>7, <1>8, <2>1 DEF WorkerSaveProcessing, WorkerRefuse, WorkerAtWork, tables
<1>. QED
  BY <1>5, <1>6, <1>7, <1>8
  DEF WorkerStep, WorkerTake, WorkerLoad, WorkerDrop, WorkerSaveRefused, WorkerAck,
      WorkerThrow, Idle, tables

\* A commit replaces the days the callback has seen by those of its edit; no
\* other job of the course has a plan, as no other is being worked on.
LEMMA CommitIsFresh ==
  ASSUME NothingIsRepeated, TypeOK, OwnCourses, CoursesAreNamed, OnePieceOfWork,
         WorkIsActive, OneJobPerCourse, PlanIsFresh, NEW h \in Handlers, CommitEdit(h)
  PROVE  PlanIsFresh'
<1>0. handler[h].pc = "commit"
  BY DEF CommitEdit
<1>. PICK j \in Jobs : j = handler[h].job
  BY <1>0, HandlerFields
<1>. PICK C \in Courses : C = CourseOf[j]
  BY CourseNumbers
<1>. PICK n \in Nat : n = Len(edits) + 1
  BY DEF TypeOK
<1>1. handler[h].row.course = C /\ handler[h].seen = days[C]
  BY <1>0 DEF CoursesAreNamed, PlanIsFresh, CallbacksAreFresh, PlanOf
<1>2. /\ days' = [days EXCEPT ![C] = (days[C] \ handler[h].seen) \union {n}]
      /\ handler'[h] = Idle /\ \A g \in Handlers \ {h} : handler'[g] = handler[g]
      /\ UNCHANGED <<queue, tasks, worker, request>>
  BY <1>1 DEF CommitEdit, TypeOK
<1>3. days'[C] = {n} /\ \A c \in Courses \ {C} : days'[c] = days[c]
  BY <1>1, <1>2 DEF TypeOK
<1>4. h \in CallbacksFor(j)
  BY <1>0 DEF CallbacksFor
<1>5. EntriesAtWork(j) = {} /\ AnswersFor(j) = {} /\ CallbacksFor(j) = {h}
  BY <1>4, OnlyCallback
<1>6. ASSUME NEW k \in Jobs, k # j, CourseOf[k] = C
      PROVE  EntriesAtWork(k) = {} /\ AnswersFor(k) = {} /\ CallbacksFor(k) = {}
  <2>1. Holds(j) /\ ~Holds(k)
    BY <1>4, <1>6 DEF WorkIsActive, Open, Holds, OneJobPerCourse
  <2>. QED
    BY <2>1 DEF WorkIsActive, Open, Holds
<1>7. \A k \in Jobs : CourseOf[k] = C =>
        EntriesAtWork(k) = {} /\ AnswersFor(k) = {} /\ CallbacksFor(k) \subseteq {h}
  BY <1>5, <1>6
<1>8. \A k \in Jobs : CourseOf[k] # C => days'[CourseOf[k]] = days[CourseOf[k]]
  BY <1>3, CourseNumbers
<1>9. DaysAreOne'
  <2>1. \A c \in Courses : \E m \in Nat : days'[c] = {m}
    BY <1>3 DEF PlanIsFresh, DaysAreOne
  <2>. QED
    BY <2>1 DEF DaysAreOne
<1>10. WorkerIsFresh'
  <2>. SUFFICES ASSUME worker.pc = "post"
                PROVE  worker.base = days'[CourseOf[JobOf(worker.entry)]]
    BY <1>2 DEF WorkerIsFresh, PlanOf, JobOf
  <2>. PICK i \in DOMAIN queue : i = worker.entry
    BY WorkerFields
  <2>1. JobOf(i) \in Jobs /\ i \in EntriesAtWork(JobOf(i))
    BY EntryJob DEF EntriesAtWork, EntriesOf, AtWork
  <2>2. CourseOf[JobOf(i)] # C
    BY <1>7, <2>1
  <2>. QED
    BY <1>8, <2>1, <2>2 DEF PlanIsFresh, WorkerIsFresh, PlanOf
<1>11. TasksAreFresh'
  <2>. SUFFICES ASSUME NEW t \in tasks
                PROVE  t.base = days'[CourseOf[JobOf(t.entry)]]
    BY <1>2 DEF TasksAreFresh, PlanOf, JobOf
  <2>1. JobOf(t.entry) \in Jobs /\ t \in AnswersFor(JobOf(t.entry))
    BY EntryJob DEF AnswersFor, TypeOK
  <2>2. CourseOf[JobOf(t.entry)] # C
    BY <1>7, <2>1
  <2>. QED
    BY <1>8, <2>1, <2>2 DEF PlanIsFresh, TasksAreFresh, PlanOf
<1>12. CallbacksAreFresh'
  <2>1. ASSUME NEW g \in Handlers, handler'[g].pc # "idle"
        PROVE  /\ handler'[g].base = days'[CourseOf[handler'[g].job]]
               /\ handler'[g].pc = "commit" => handler'[g].seen = days'[CourseOf[handler'[g].job]]
    <3>1. g # h /\ handler'[g] = handler[g]
      BY <1>2, <2>1 DEF Idle
    <3>. PICK k \in Jobs : k = handler[g].job
      BY <2>1, <3>1, HandlerFields
    <3>2. g \in CallbacksFor(k)
      BY <2>1, <3>1 DEF CallbacksFor
    <3>3. CourseOf[k] # C
      BY <1>7, <3>1, <3>2
    <3>4. /\ handler[g].base = days[CourseOf[k]]
          /\ handler[g].pc = "commit" => handler[g].seen = days[CourseOf[k]]
      BY <2>1, <3>1 DEF PlanIsFresh, CallbacksAreFresh, PlanOf
    <3>. QED
      BY <1>8, <3>1, <3>3, <3>4
  <2>2. \A g \in Handlers :
          /\ handler'[g].pc # "idle" => handler'[g].base = days'[CourseOf[handler'[g].job]]
          /\ handler'[g].pc = "commit" => handler'[g].seen = days'[CourseOf[handler'[g].job]]
    BY <2>1
  <2>. QED
    BY <2>2 DEF CallbacksAreFresh, PlanOf
<1>. QED
  BY <1>9, <1>10, <1>11, <1>12 DEF PlanIsFresh

\* So the plan an edit was made from is the plan it replaces.
LEMMA PlanStaysFresh ==
  ASSUME NothingIsRepeated, "courseGone" \notin Faults, TypeOK, OwnCourses, CoursesAreNamed,
         OnePieceOfWork, WorkIsActive, OneJobPerCourse, PlanIsFresh, [Next]_vars
  PROVE  PlanIsFresh'
<1>0. SameJobs
  BY JobsStay
<1>1. ASSUME UNCHANGED <<days, worker>>, tasks' \subseteq tasks, CallbacksAreFresh'
      PROVE  PlanIsFresh'
  <2>1. WorkerIsFresh'
    <3>. SUFFICES ASSUME worker.pc = "post"
                  PROVE  worker.base = days[CourseOf[queue'[worker.entry].data.job]]
      BY <1>1 DEF WorkerIsFresh, PlanOf, JobOf
    <3>1. worker.entry \in DOMAIN queue
      BY WorkerFields
    <3>2. queue'[worker.entry].data.job = queue[worker.entry].data.job
      BY <1>0, <3>1 DEF SameJobs, JobOf
    <3>. QED
      BY <3>2 DEF PlanIsFresh, WorkerIsFresh, PlanOf, JobOf
  <2>2. TasksAreFresh'
    <3>1. ASSUME NEW t \in tasks'
          PROVE  t.base = days[CourseOf[queue'[t.entry].data.job]]
      <4>1. t \in tasks /\ t.entry \in DOMAIN queue
        BY <1>1, <3>1 DEF TypeOK
      <4>2. queue'[t.entry].data.job = queue[t.entry].data.job
        BY <1>0, <4>1 DEF SameJobs, JobOf
      <4>. QED
        BY <4>1, <4>2 DEF PlanIsFresh, TasksAreFresh, PlanOf, JobOf
    <3>. QED
      BY <1>1, <3>1 DEF TasksAreFresh, PlanOf, JobOf
  <2>3. DaysAreOne'
    BY <1>1 DEF PlanIsFresh, DaysAreOne
  <2>. QED
    BY <1>1, <2>1, <2>2, <2>3 DEF PlanIsFresh
<1>2. CASE UNCHANGED <<days, worker, tasks, handler>>
  BY <1>1, <1>2 DEF PlanIsFresh, CallbacksAreFresh, PlanOf
<1>3. CASE WorkerStep
  BY <1>3, WorkerReads
<1>4. ASSUME NEW h \in Handlers, HandlerStep(h)
      PROVE  PlanIsFresh'
  <2>1. CASE CommitEdit(h)
    BY <2>1, CommitIsFresh
  <2>2. CASE ~CommitEdit(h)
    <3>1. UNCHANGED <<days, tasks>>
      BY <1>4, <2>2 DEF HandlerStep, DeleteDays, CommitAnswer, SaveRetry, ReEnqueue,
         SaveFailure, HandlerThrow, tables
    <3>2. /\ UNCHANGED worker /\ handler[h].pc # "idle"
          /\ \A g \in Handlers \ {h} : handler'[g] = handler[g]
      BY <1>4, HandlerKeeps
    <3>3. handler'[h].pc # "idle" =>
            /\ handler'[h].base = handler[h].base /\ handler'[h].job = handler[h].job
            /\ handler'[h].pc = "commit" => handler'[h].seen = days[handler[h].row.course]
      <4>1. CASE DeleteDays(h)
        BY <4>1 DEF DeleteDays, TypeOK
      <4>2. CASE SaveRetry(h)
        <5>1. handler[h] \in Begun
          BY <4>2, HandlerFields DEF SaveRetry
        <5>. QED
          BY <4>2, <5>1 DEF SaveRetry, Begun, TypeOK
      <4>3. CASE handler' = [handler EXCEPT ![h] = Idle]
        BY <4>3 DEF TypeOK, Idle
      <4>. QED
        BY <1>4, <2>2, <4>1, <4>2, <4>3
        DEF HandlerStep, CommitAnswer, ReEnqueue, SaveFailure, HandlerThrow
    <3>4. handler[h].row.course = CourseOf[handler[h].job]
      BY <3>2 DEF CoursesAreNamed
    <3>5. \A g \in Handlers :
            /\ handler'[g].pc # "idle" => handler'[g].base = days[CourseOf[handler'[g].job]]
            /\ handler'[g].pc = "commit" => handler'[g].seen = days[CourseOf[handler'[g].job]]
      BY <3>2, <3>3, <3>4 DEF PlanIsFresh, CallbacksAreFresh, PlanOf
    <3>6. CallbacksAreFresh'
      BY <3>1, <3>5 DEF CallbacksAreFresh, PlanOf
    <3>. QED
      BY <1>1, <3>1, <3>2, <3>6
  <2>. QED
    BY <2>1, <2>2
<1>5. CASE PythonStep
  <2>1. UNCHANGED <<days, worker>>
    BY <1>5 DEF PythonStep, CallbackLost, CallbackIgnored, SuccessBegin, FailureBegin,
       CallbackBegin, tables
  <2>2. tasks' \subseteq tasks
    BY <1>5 DEF PythonStep, CallbackLost, CallbackIgnored, SuccessBegin, FailureBegin,
       CallbackBegin, Receive
  <2>3. CASE UNCHANGED handler
    BY <1>1, <2>1, <2>2, <2>3 DEF PlanIsFresh, CallbacksAreFresh, PlanOf
  <2>4. ASSUME NEW t \in tasks, NEW h \in Handlers, NEW pc, pc # "commit",
               CallbackBegin(h, t, pc)
        PROVE  PlanIsFresh'
    <3>1. /\ handler'[h].pc = pc /\ handler'[h].job = JobOf(t.entry) /\ handler'[h].base = t.base
          /\ \A g \in Handlers \ {h} : handler'[g] = handler[g]
      BY <2>4 DEF CallbackBegin, TypeOK
    <3>2. t.base = days[CourseOf[JobOf(t.entry)]]
      BY DEF PlanIsFresh, TasksAreFresh, PlanOf
    <3>3. \A g \in Handlers :
            /\ handler'[g].pc # "idle" => handler'[g].base = days[CourseOf[handler'[g].job]]
            /\ handler'[g].pc = "commit" => handler'[g].seen = days[CourseOf[handler'[g].job]]
      BY <2>4, <3>1, <3>2 DEF PlanIsFresh, CallbacksAreFresh, PlanOf
    <3>4. CallbacksAreFresh'
      BY <2>1, <3>3 DEF CallbacksAreFresh, PlanOf
    <3>. QED
      BY <1>1, <2>1, <2>2, <3>4
  <2>. QED
    BY <1>5, <2>3, <2>4
    DEF PythonStep, CallbackLost, CallbackIgnored, SuccessBegin, FailureBegin
<1>. QED
  BY <1>2, <1>3, <1>4, <1>5
  DEF Next, vars, tables, RequestStep, RequestFind, RequestReject, RequestCheckActive,
      RequestInsert, RequestSaveCourse, RequestSaveCourseFails, RequestEnqueue,
      RequestEnqueueFails, RequestSaveFailure, RequestSaveFailureFails,
      ToggleStep, ToggleLoad, ToggleSave, ToggleFails, Cleanup, Age, CourseGone, Crash,
      NothingIsRepeated

-----------------------------------------------------------------------------
(* Edits build on each other                                               *)

EditsInv ==
  /\ EntryIsActive /\ OnePieceOfWork /\ CronSleeps /\ CallbacksFoundTheJobOpen
  /\ OneRequestAtATime /\ CoursesAreNamed /\ WorkIsActive /\ OneJobPerCourse /\ PlanIsFresh

LEMMA EditsStart == Init => EditsInv
<1>. SUFFICES ASSUME Init PROVE EditsInv
  OBVIOUS
<1>1. /\ EntryIsActive /\ CronSleeps /\ CallbacksFoundTheJobOpen
      /\ OneRequestAtATime /\ CoursesAreNamed /\ OneJobPerCourse
  BY DEF Init, EntryIsActive, CronSleeps, CallbacksFoundTheJobOpen, OneRequestAtATime,
         InProgress, CoursesAreNamed, Exists, OneJobPerCourse, Holds, Absent, Active, Idle
<1>2. WorkIsActive
  BY DEF Init, WorkIsActive, Open, EntriesAtWork, EntriesOf, AnswersFor, CallbacksFor, Idle
<1>3. PlanIsFresh
  <2>1. DaysAreOne
    BY DEF Init, DaysAreOne, Original
  <2>2. WorkerIsFresh /\ TasksAreFresh /\ CallbacksAreFresh
    BY DEF Init, WorkerIsFresh, TasksAreFresh, CallbacksAreFresh, Idle
  <2>. QED
    BY <2>1, <2>2 DEF PlanIsFresh
<1>. QED
  BY <1>1, <1>2, <1>3, NoWorkYet DEF EditsInv

\* What the two theorems below assume of the environment, and of the owner
\* that one message is answered before the next is sent: the assumptions under
\* which the check for active jobs in createModificationJob is enough.
OneAtATime ==
  NothingIsRepeated /\ Faults \cap {"slow", "overlap", "courseGone"} = {}

LEMMA EditsGoOn ==
  ASSUME OneAtATime, TypeOK, OwnCourses, EditsInv, [Next]_vars
  PROVE  EditsInv'
<1>1. /\ NothingIsRepeated
      /\ "slow" \notin Faults /\ "overlap" \notin Faults /\ "courseGone" \notin Faults
  BY DEF OneAtATime
<1>2. CronSleeps' /\ ~Cleanup
  BY <1>1, CronSleepsOn DEF EditsInv
<1>3. EntryIsActive' /\ OnePieceOfWork' /\ CallbacksFoundTheJobOpen'
  BY <1>1, EntryStaysActive, WorkIsHandedOn, CallbacksStayOpen DEF EditsInv
<1>4. OneRequestAtATime' /\ CoursesAreNamed'
  BY <1>1, <1>2, OneRequestStays, CoursesStayNamed DEF EditsInv
<1>5. WorkIsActive' /\ OneJobPerCourse'
  BY <1>1, <1>2, WorkStaysActive, OneJobStays DEF EditsInv
<1>6. PlanIsFresh'
  BY <1>1, PlanStaysFresh DEF EditsInv
<1>. QED
  BY <1>2, <1>3, <1>4, <1>5, <1>6 DEF EditsInv

\* Only the transaction of a callback edits.
LEMMA OnlyCommitsEdit ==
  ASSUME [Next]_vars, edits' # edits
  PROVE  \E h \in Handlers : CommitEdit(h)
<1>1. ASSUME NEW h \in Handlers, HandlerStep(h)
      PROVE  CommitEdit(h)
  BY <1>1 DEF HandlerStep, DeleteDays, CommitAnswer, SaveRetry, ReEnqueue, SaveFailure,
     HandlerThrow, tables
<1>. QED
  BY <1>1
  DEF Next, vars, tables, RequestStep, RequestFind, RequestReject, RequestCheckActive,
      RequestInsert, RequestSaveCourse, RequestSaveCourseFails, RequestEnqueue,
      RequestEnqueueFails, RequestSaveFailure, RequestSaveFailureFails,
      ToggleStep, ToggleLoad, ToggleSave, ToggleFails,
      WorkerStep, WorkerTake, WorkerLoad, WorkerDrop, WorkerSaveProcessing,
      WorkerFindCourse, WorkerRefuse, WorkerSaveRefused, WorkerPost, WorkerAck,
      WorkerThrow, PythonStep, CallbackLost, CallbackIgnored, SuccessBegin, FailureBegin,
      CallbackBegin, Cleanup, Age, CourseGone, Crash

\* The days of a course come from one edit: a callback deletes the days there
\* are and writes its own, and no second one does the same at the same time.
THEOREM DaysCorrect ==
  ASSUME OneAtATime
  PROVE  Spec => []DaysFromOneEdit
<1>1. EditsInv => DaysFromOneEdit
  BY FS_Singleton DEF EditsInv, PlanIsFresh, DaysAreOne, DaysFromOneEdit
<1>. QED
  BY <1>1, EditsStart, EditsGoOn, TypeCorrect, PTL DEF Spec

\* An edit is committed over the plan it was made from, so none undoes another
\* one unseen.
THEOREM EditsBuildCorrect ==
  ASSUME OneAtATime
  PROVE  Spec => EditsBuildOnEachOther
<1>. DEFINE Builds == \A h \in Handlers :
              edits' # edits /\ handler'[h] # handler[h]
              => handler[h].base = days[handler[h].row.course]
<1>1. ASSUME TypeOK, EditsInv, [Next]_vars
      PROVE  Builds
  <2>. SUFFICES ASSUME NEW h \in Handlers, edits' # edits, handler'[h] # handler[h]
                PROVE  handler[h].base = days[handler[h].row.course]
    OBVIOUS
  <2>1. PICK g \in Handlers : CommitEdit(g)
    BY <1>1, OnlyCommitsEdit
  <2>2. handler[h].pc = "commit"
    BY <1>1, <2>1 DEF CommitEdit, TypeOK
  <2>3. /\ handler[h].base = days[CourseOf[handler[h].job]]
        /\ handler[h].row.course = CourseOf[handler[h].job]
    BY <1>1, <2>2 DEF EditsInv, PlanIsFresh, CallbacksAreFresh, PlanOf, CoursesAreNamed
  <2>. QED
    BY <2>3
<1>2. TypeOK /\ EditsInv /\ [Next]_vars => [Builds]_vars
  BY <1>1
<1>. QED
  BY <1>2, EditsStart, EditsGoOn, TypeCorrect, PTL DEF Spec, EditsBuildOnEachOther

-----------------------------------------------------------------------------
(* The life of a job                                                       *)

\* What the worker holds of a job until it has posted or refused it.
WorkerIsAt(j) ==
  /\ worker.pc \in {"save", "course", "refuse", "post"}
  /\ JobOf(worker.entry) = j

\* The status of a job says who works on it, and who works on it knows the
\* status.  Only the status: a course that is deleted takes the travel_course_id
\* of the row away under the copies.
Stage(j) ==
  /\ request[j].pc \in {"new", "found", "checked"} => rows[j].status = "ABSENT"
  /\ request[j].pc \in {"inserted", "saved", "addFailed"} => rows[j].status = "PENDING"
  /\ EntriesAtWork(j) # {} => rows[j].status \in Active
  /\ WorkerIsAt(j) => /\ worker.row.status = rows[j].status
                      /\ worker.pc # "save" => rows[j].status = "PROCESSING"
  /\ AnswersFor(j) # {} => rows[j].status = "PROCESSING"
  /\ \A h \in CallbacksFor(j) :
       IF handler[h].pc = "enqueue"
       THEN rows[j].status = "PENDING"
       ELSE /\ rows[j].status = "PROCESSING"
            /\ handler[h].row.status = "PROCESSING"
  /\ ExchangesOf(j) # {} => rows[j].status = "SUCCESS"

StageInv == \A j \in Jobs : Stage(j)

\* A step that changes the status of one job at most, saves no exchange, and
\* takes the status along one of the edges of JobLifecycle.
MovesOn(j, from, to) ==
  /\ UNCHANGED chats
  /\ rows[j].status \in from /\ rows'[j].status = to
  /\ \A k \in Jobs \ {j} : rows'[k].status = rows[k].status

Succeeds(j) ==
  /\ rows[j].status = "PROCESSING" /\ rows'[j].status = "SUCCESS"
  /\ chats[j] = 0 /\ chats' = [chats EXCEPT ![j] = 1]
  /\ \A k \in Jobs \ {j} : rows'[k].status = rows[k].status

StaysPut == UNCHANGED chats /\ \A k \in Jobs : rows'[k].status = rows[k].status

Edge ==
  \/ StaysPut
  \/ \E j \in Jobs :
       \/ MovesOn(j, {"ABSENT"}, "PENDING")
       \/ MovesOn(j, {"PENDING", "PROCESSING"}, "PROCESSING")
       \/ MovesOn(j, {"PROCESSING"}, "PENDING")
       \/ MovesOn(j, {"PENDING", "PROCESSING"}, "FAILED")
       \/ Succeeds(j)

\* A job the step does not concern stays where it is.
LEMMA SameStage ==
  ASSUME NEW k \in Jobs, Stage(k), rows'[k].status = rows[k].status,
         UNCHANGED request[k],
         EntriesAtWork(k)' \subseteq EntriesAtWork(k),
         WorkerIsAt(k)' => WorkerIsAt(k) /\ UNCHANGED worker,
         AnswersFor(k)' \subseteq AnswersFor(k),
         CallbacksFor(k)' \subseteq CallbacksFor(k),
         \A h \in CallbacksFor(k)' : handler'[h] = handler[h],
         ExchangesOf(k)' \subseteq ExchangesOf(k)
  PROVE  Stage(k)'
  BY DEF Stage

\* The worker at a job is work for it.
LEMMA WorkerWorks ==
  ASSUME TypeOK, NEW j \in Jobs, WorkerIsAt(j)
  PROVE  EntriesAtWork(j) # {}
<1>1. worker.entry \in DOMAIN queue
  BY WorkerFields DEF WorkerIsAt
<1>2. worker.entry \in EntriesAtWork(j)
  BY <1>1 DEF EntriesAtWork, EntriesOf, AtWork, WorkerIsAt
<1>. QED
  BY <1>2

\* A request takes its job from nothing to PENDING, or to FAILED.
LEMMA RequestStage ==
  ASSUME NothingIsRepeated, TypeOK, TypeOK', EntryIsActive, OnePieceOfWork, StageInv,
         NEW j \in Jobs, RequestStep(j)
  PROVE  StageInv' /\ Edge
<1>0. rows \in [Jobs -> MaybeRow]
  BY DEF TypeOK
<1>. PICK c \in Courses \union {NoCourse} : c = CourseOf[j]
  BY CourseNumbers
<1>1. /\ UNCHANGED <<worker, tasks, handler, chats>>
      /\ request[j].pc # "done"
      /\ UNCHANGED queue \/ (AddJob(j, c) /\ RequestEnqueue(j))
  BY DEF RequestStep, RequestFind, RequestReject, RequestCheckActive, RequestInsert,
         RequestSaveCourse, RequestSaveCourseFails, RequestEnqueue, NothingIsRepeated,
         RequestEnqueueFails, AddRejected, RequestSaveFailure, RequestSaveFailureFails, tables
<1>2. \A k \in Jobs \ {j} : request'[k] = request[k]
  BY RequestCopies
<1>3. /\ EntriesAtWork(j) = {} /\ AnswersFor(j) = {} /\ CallbacksFor(j) = {}
      /\ ExchangesOf(j) = {}
  <2>1. WorkOf(j) = {}
    BY <1>1 DEF OnePieceOfWork
  <2>. QED
    BY <2>1 DEF WorkOf
<1>4. /\ \A k \in Jobs : AnswersFor(k)' = AnswersFor(k) /\ CallbacksFor(k)' = CallbacksFor(k)
                         /\ ExchangesOf(k)' = ExchangesOf(k) /\ (WorkerIsAt(k)' => WorkerIsAt(k))
      /\ \A k \in Jobs \ {j} : EntriesAtWork(k)' \subseteq EntriesAtWork(k)
      /\ UNCHANGED queue => EntriesAtWork(j)' = {}
  <2>1. CASE UNCHANGED queue
    BY <1>1, <1>3, <2>1, SameWork DEF WorkerIsAt, JobOf
  <2>2. CASE AddJob(j, c)
    <3>1. Len(queue) + 1 \in DOMAIN queue' \ DOMAIN queue
      BY <2>2, AddedEntry
    <3>2. queue' # queue
      BY <3>1
    <3>3. \A k \in Jobs : WorkerIsAt(k)' => WorkerIsAt(k)
      BY <1>1, <2>2, AddedEntry, WorkerFields DEF WorkerIsAt, JobOf
    <3>. QED
      BY <1>1, <2>2, <3>2, <3>3, AddedWork, SameWork
  <2>. QED
    BY <1>1, <2>1, <2>2
<1>5. ~ WorkerIsAt(j)
  BY <1>3, WorkerWorks
<1>6. Stage(j)
  BY DEF StageInv
<1>7. ASSUME \A k \in Jobs \ {j} : rows'[k].status = rows[k].status, Stage(j)'
      PROVE  StageInv'
  BY <1>1, <1>2, <1>4, <1>7, SameStage DEF StageInv
<1>8. CASE \/ RequestFind(j) \/ RequestReject(j) \/ RequestCheckActive(j) \/ RequestSaveCourse(j)
           \/ RequestSaveCourseFails(j) \/ RequestEnqueueFails(j) \/ RequestSaveFailureFails(j)
  <2>1. UNCHANGED <<rows, queue>>
    BY <1>8 DEF RequestFind, RequestReject, RequestCheckActive, RequestSaveCourse,
       RequestSaveCourseFails, RequestEnqueueFails, RequestSaveFailureFails, tables,
       AddRejected, NothingIsRepeated
  <2>2. \/ request'[j].pc = "done"
        \/ request[j].pc \in {"new", "found"} /\ request'[j].pc \in {"found", "checked"}
        \/ request[j].pc \in {"inserted", "saved"} /\ request'[j].pc \in {"saved", "addFailed"}
    <3>1. CASE RequestCheckActive(j)
      <4>1. request[j] \in Copied
        BY <3>1, CopyFields DEF RequestCheckActive, HasCopy
      <4>. QED
        BY <3>1, <4>1 DEF RequestCheckActive, TypeOK, Copied
    <3>. QED
      BY <1>8, <3>1 DEF RequestFind, RequestReject, RequestSaveCourse,
       RequestSaveCourseFails, RequestEnqueueFails, RequestSaveFailureFails, TypeOK
  <2>3. Stage(j)'
    BY <1>3, <1>4, <1>5, <1>6, <2>1, <2>2 DEF Stage
  <2>. QED
    BY <1>1, <1>7, <2>1, <2>3 DEF Edge, StaysPut
<1>9. CASE RequestInsert(j)
  <2>1. request[j] \in Copied
    BY <1>9, CopyFields DEF RequestInsert, HasCopy
  <2>2. /\ rows'[j].status = "PENDING" /\ request'[j].pc = "inserted" /\ UNCHANGED queue
        /\ rows[j].status = "ABSENT" /\ \A k \in Jobs \ {j} : rows'[k] = rows[k]
    BY <1>6, <1>9, <2>1 DEF RequestInsert, TypeOK, Stage, NewJob, Copied
  <2>3. Stage(j)'
    BY <1>3, <1>4, <1>5, <2>2 DEF Stage
  <2>4. MovesOn(j, {"ABSENT"}, "PENDING")
    BY <1>1, <2>2 DEF MovesOn
  <2>. QED
    BY <1>7, <2>2, <2>3, <2>4 DEF Edge
<1>10. CASE RequestEnqueue(j)
  <2>1. /\ request'[j].pc = "done" /\ UNCHANGED rows /\ rows[j].status = "PENDING"
    BY <1>6, <1>10 DEF RequestEnqueue, tables, TypeOK, Stage
  <2>2. Stage(j)'
    BY <1>3, <1>4, <1>5, <2>1 DEF Stage, Active
  <2>. QED
    BY <1>1, <1>7, <2>1, <2>2 DEF Edge, StaysPut
<1>11. CASE RequestSaveFailure(j)
  <2>. PICK e \in Row : e = NewJob(CourseOf[j])
    BY CourseNumbers, NewJobType
  <2>. PICK s : s = MarkFailed(e, "QUEUE_ERROR")
    OBVIOUS
  <2>1. /\ request'[j].pc = "done" /\ UNCHANGED queue /\ rows[j].status = "PENDING"
        /\ SaveRow(j, e, s) /\ e.status = "PENDING" /\ s.status = "FAILED"
    BY <1>6, <1>11, MethodsSetTheStatus DEF RequestSaveFailure, TypeOK, Stage, NewJob
  <2>2. rows'[j].status = "FAILED" /\ \A k \in Jobs \ {j} : rows'[k] = rows[k]
    BY <1>0, <2>1, StatusIsSaved
  <2>3. Stage(j)'
    BY <1>3, <1>4, <1>5, <2>1 DEF Stage
  <2>4. MovesOn(j, {"PENDING", "PROCESSING"}, "FAILED")
    BY <1>1, <2>1, <2>2 DEF MovesOn
  <2>. QED
    BY <1>7, <2>2, <2>3, <2>4 DEF Edge
<1>. QED
  BY <1>8, <1>9, <1>10, <1>11 DEF RequestStep

\* The worker takes it to PROCESSING, or refuses it.
LEMMA WorkerStage ==
  ASSUME NothingIsRepeated, TypeOK, TypeOK', EntryIsActive, OnePieceOfWork, StageInv,
         WorkerStep
  PROVE  StageInv' /\ Edge
<1>0. rows \in [Jobs -> MaybeRow]
  BY DEF TypeOK
<1>1. UNCHANGED <<request, handler, chats>>
  BY DEF WorkerStep, WorkerTake, WorkerLoad, WorkerDrop, WorkerSaveProcessing,
         WorkerFindCourse, WorkerRefuse, WorkerSaveRefused, WorkerPost, WorkerAck,
         WorkerThrow, tables
<1>2. \A k \in Jobs : /\ CallbacksFor(k)' = CallbacksFor(k) /\ ExchangesOf(k)' = ExchangesOf(k)
                      /\ EntriesAtWork(k)' \subseteq EntriesAtWork(k)
  BY <1>1, SameWork, WorkerEntries
<1>3. /\ \A i \in DOMAIN queue : JobOf(i)' = JobOf(i)
      /\ UNCHANGED tasks => \A k \in Jobs : AnswersFor(k)' = AnswersFor(k)
  BY WorkerQueueType DEF AnswersFor, JobOf, TypeOK
<1>4. CASE UNCHANGED <<rows, tasks>> /\ worker'.pc \notin {"save", "course", "refuse", "post"}
  BY <1>1, <1>2, <1>3, <1>4, SameStage DEF StageInv, WorkerIsAt, Edge, StaysPut
<1>5. ASSUME NEW i \in DOMAIN queue, WorkerTake(i) PROVE StageInv' /\ Edge
  BY <1>4, <1>5 DEF WorkerTake, tables
<1>6. CASE WorkerDrop \/ WorkerAck \/ WorkerThrow
  BY <1>4, <1>6 DEF WorkerDrop, WorkerAck, WorkerThrow, tables, Idle
<1>7. CASE \/ WorkerLoad \/ WorkerSaveProcessing \/ WorkerFindCourse \/ WorkerRefuse
           \/ WorkerSaveRefused \/ WorkerPost
  <2>1. worker.entry \in DOMAIN queue /\ worker.pc \in {"load", "save", "course", "refuse", "post"}
    BY <1>7, WorkerFields DEF WorkerLoad, WorkerSaveProcessing, WorkerFindCourse,
       WorkerRefuse, WorkerSaveRefused, WorkerPost
  <2>. PICK i \in DOMAIN queue : i = worker.entry
    BY <2>1
  <2>. PICK j \in Jobs : j = JobOf(i)
    BY EntryJob
  <2>2. i \in EntriesAtWork(j)
    BY <2>1 DEF EntriesAtWork, EntriesOf, AtWork
  <2>3. /\ AnswersFor(j) = {} /\ CallbacksFor(j) = {} /\ ExchangesOf(j) = {}
        /\ request[j].pc = "done"
    BY <2>2, OnlyEntry
  <2>4. Stage(j) /\ rows[j].status \in Active
    BY <2>2 DEF StageInv, Stage
  <2>5. worker.pc # "load" => /\ worker \in WorkerAtWork /\ worker.row \in Row
                              /\ worker.row.status = rows[j].status
                              /\ worker.pc # "save" => rows[j].status = "PROCESSING"
    BY <2>1, <2>4, WorkerFields DEF Stage, WorkerIsAt, WorkerAtWork
  <2>6. /\ CallbacksFor(j)' = {} /\ ExchangesOf(j)' = {} /\ request'[j].pc = "done"
        /\ JobOf(i)' = j
    BY <1>1, <1>2, <1>3, <2>3
  <2>7. ASSUME worker'.entry = i \/ worker' = Idle,
               \A k \in Jobs \ {j} : rows'[k].status = rows[k].status,
               \A k \in Jobs \ {j} : AnswersFor(k)' \subseteq AnswersFor(k),
               Stage(j)'
        PROVE  StageInv'
    <3>1. \A k \in Jobs \ {j} : ~ WorkerIsAt(k)'
      BY <2>6, <2>7 DEF WorkerIsAt, JobOf, Idle
    <3>2. \A k \in Jobs \ {j} : Stage(k)'
      BY <1>1, <1>2, <2>7, <3>1, SameStage DEF StageInv
    <3>. QED
      BY <2>7, <3>2 DEF StageInv
  <2>8. CASE WorkerLoad
    <3>1. /\ UNCHANGED <<rows, tasks>>
          /\ worker'.pc = "save" /\ worker'.row = rows[j] /\ worker'.entry = i
      BY <2>8 DEF WorkerLoad, tables
    <3>2. Stage(j)'
      BY <1>3, <2>3, <2>4, <2>6, <3>1 DEF Stage, WorkerIsAt
    <3>. QED
      BY <1>1, <1>3, <2>7, <3>1, <3>2 DEF Edge, StaysPut
  <2>9. CASE WorkerSaveProcessing
    <3>. PICK e \in Row : e = worker.row
      BY <2>5, <2>9 DEF WorkerSaveProcessing
    <3>. PICK s : s = IncrementAttempt(MarkProcessing(e))
      OBVIOUS
    <3>1. /\ worker.pc = "save" /\ UNCHANGED tasks /\ SaveRow(j, e, s)
          /\ s.status = "PROCESSING" /\ e.status = rows[j].status
      BY <2>5, <2>9, MethodsSetTheStatus DEF WorkerSaveProcessing
    <3>2. worker'.pc = "course" /\ worker'.row = s /\ worker'.entry = i
      BY <2>5, <2>9, <3>1 DEF WorkerSaveProcessing, WorkerAtWork
    <3>3. rows'[j].status = "PROCESSING" /\ \A k \in Jobs \ {j} : rows'[k] = rows[k]
      BY <1>0, <3>1, StatusIsSaved
    <3>4. Stage(j)'
      BY <1>3, <2>3, <2>6, <3>1, <3>2, <3>3 DEF Stage, WorkerIsAt, Active
    <3>5. MovesOn(j, {"PENDING", "PROCESSING"}, "PROCESSING")
      BY <1>1, <2>4, <3>3 DEF MovesOn, Active
    <3>. QED
      BY <1>3, <2>7, <3>1, <3>2, <3>3, <3>4, <3>5 DEF Edge
  <2>10. CASE WorkerFindCourse \/ WorkerRefuse \/ WorkerPost
    <3>1. worker \in WorkerAtWork /\ worker.pc \in {"course", "post"} /\ rows[j].status = "PROCESSING"
          /\ worker.row.status = rows[j].status
      BY <2>5, <2>10 DEF WorkerFindCourse, WorkerRefuse, WorkerPost
    <3>2. /\ UNCHANGED rows /\ worker'.entry = i /\ worker'.row = worker.row
          /\ worker'.pc # "save"
      BY <2>10, <3>1 DEF WorkerFindCourse, WorkerRefuse, WorkerPost, tables, WorkerAtWork
    <3>3. \A k \in Jobs \ {j} : AnswersFor(k)' \subseteq AnswersFor(k)
      <4>1. CASE UNCHANGED tasks
        BY <1>3, <4>1
      <4>2. CASE WorkerPost
        BY <4>2 DEF WorkerPost, AnswersFor, JobOf
      <4>. QED
        BY <2>10, <4>1, <4>2 DEF WorkerFindCourse, WorkerRefuse
    <3>4. Stage(j)'
      BY <2>6, <3>1, <3>2 DEF Stage, Active
    <3>. QED
      BY <1>1, <2>7, <3>2, <3>3, <3>4 DEF Edge, StaysPut
  <2>11. CASE WorkerSaveRefused
    <3>. PICK e \in Row : e = worker.row
      BY <2>5, <2>11 DEF WorkerSaveRefused
    <3>. PICK s : s = MarkFailed(e, "NO_CONTEXT")
      OBVIOUS
    <3>1. /\ worker.pc = "refuse" /\ UNCHANGED tasks /\ SaveRow(j, e, s) /\ worker' = Idle
          /\ s.status = "FAILED" /\ e.status = rows[j].status /\ rows[j].status = "PROCESSING"
          /\ SetEntry(i, "completed")
      BY <2>5, <2>11, MethodsSetTheStatus DEF WorkerSaveRefused
    <3>2. rows'[j].status = "FAILED" /\ \A k \in Jobs \ {j} : rows'[k] = rows[k]
      BY <1>0, <3>1, StatusIsSaved
    <3>3. EntriesAtWork(j)' = {}
      <4>1. queue[i] \in Entry
        BY EntryJob
      <4>2. queue'[i].state = "completed"
        BY <3>1, <4>1 DEF SetEntry, TypeOK, Entry, EntryOf
      <4>3. ~AtWork(i)'
        BY <3>1, <4>2 DEF AtWork, Idle
      <4>. QED
        BY <1>2, <2>2, <4>3, OnlyEntry DEF EntriesAtWork
    <3>4. Stage(j)'
      BY <1>3, <2>3, <2>6, <3>1, <3>3 DEF Stage, WorkerIsAt, Idle
    <3>5. MovesOn(j, {"PENDING", "PROCESSING"}, "FAILED")
      BY <1>1, <3>1, <3>2 DEF MovesOn
    <3>. QED
      BY <1>3, <2>7, <3>1, <3>2, <3>4, <3>5 DEF Edge
  <2>. QED
    BY <1>7, <2>8, <2>9, <2>10, <2>11
<1>. QED
  BY <1>5, <1>6, <1>7 DEF WorkerStep

\* A callback takes it to SUCCESS with its exchange, to FAILED, or back to
\* PENDING.
LEMMA HandlerStage ==
  ASSUME NothingIsRepeated, TypeOK, OwnCourses, TypeOK', EntryIsActive, OnePieceOfWork,
         StageInv, NEW h \in Handlers, HandlerStep(h)
  PROVE  StageInv' /\ Edge
<1>0. rows \in [Jobs -> MaybeRow]
  BY DEF TypeOK
<1>1. UNCHANGED <<request, worker, tasks>>
  BY DEF HandlerStep, DeleteDays, CommitEdit, CommitAnswer, SaveRetry, ReEnqueue,
         SaveFailure, HandlerThrow
<1>2. /\ handler[h].pc # "idle" /\ handler[h].job \in Jobs /\ handler[h].row \in Row
      /\ handler'[h].pc = "idle" \/ handler'[h].job = handler[h].job
      /\ \A g \in Handlers \ {h} : handler'[g] = handler[g]
  BY HandlerKeeps, HandlerFields DEF Idle
<1>. PICK j \in Jobs : j = handler[h].job
  BY <1>2
<1>. PICK e \in Row : e = handler[h].row
  BY <1>2
<1>. PICK c \in Courses \union {NoCourse} : c = handler[h].row.course
  BY <1>2, CourseNumbers DEF OwnCourses, OwnHandlers, Own
<1>3. h \in CallbacksFor(j)
  BY <1>2 DEF CallbacksFor
<1>4. /\ EntriesAtWork(j) = {} /\ AnswersFor(j) = {} /\ CallbacksFor(j) = {h}
      /\ ExchangesOf(j) = {} /\ request[j].pc = "done"
  BY <1>3, OnlyCallback
<1>5. UNCHANGED queue \/ (AddJob(j, c) /\ ReEnqueue(h))
  BY DEF HandlerStep, DeleteDays, CommitEdit, CommitAnswer, SaveRetry, ReEnqueue,
     SaveFailure, HandlerThrow, AddRejected, NothingIsRepeated
<1>6. /\ \A k \in Jobs \ {j} : EntriesAtWork(k)' \subseteq EntriesAtWork(k)
      /\ \A k \in Jobs : AnswersFor(k)' = AnswersFor(k)
      /\ \A k \in Jobs : WorkerIsAt(k)' => WorkerIsAt(k)
  <2>1. CASE UNCHANGED queue
    BY <1>1, <2>1, SameWork DEF WorkerIsAt, JobOf
  <2>2. CASE AddJob(j, c)
    BY <1>1, <2>2, AddedEntry, AddedWork, WorkerFields DEF WorkerIsAt, JobOf
  <2>. QED
    BY <1>5, <2>1, <2>2
<1>7. /\ AnswersFor(j)' = {} /\ ~ WorkerIsAt(j)' /\ request'[j].pc = "done"
      /\ UNCHANGED queue => EntriesAtWork(j)' = {}
      /\ UNCHANGED chats => ExchangesOf(j)' = {}
  BY <1>1, <1>4, <1>6, WorkerWorks, SameWork
<1>8. /\ handler'[h].pc = "idle" => CallbacksFor(j)' = {}
      /\ \A g \in CallbacksFor(j)' : g = h
  BY <1>2, <1>4 DEF CallbacksFor
<1>9. IF handler[h].pc = "enqueue"
      THEN rows[j].status = "PENDING"
      ELSE rows[j].status = "PROCESSING" /\ e.status = "PROCESSING"
  BY <1>3 DEF StageInv, Stage
<1>10. ASSUME \A k \in Jobs \ {j} : rows'[k].status = rows[k].status /\ chats'[k] = chats[k],
              Stage(j)'
       PROVE  StageInv'
  <2>1. ASSUME NEW k \in Jobs \ {j} PROVE Stage(k)'
    <3>1. CallbacksFor(k)' \subseteq CallbacksFor(k) /\ h \notin CallbacksFor(k)'
      BY <1>2 DEF CallbacksFor
    <3>2. \A g \in CallbacksFor(k)' : handler'[g] = handler[g]
      BY <1>2, <3>1 DEF CallbacksFor
    <3>3. ExchangesOf(k)' = ExchangesOf(k)
      BY <1>10 DEF ExchangesOf
    <3>. QED
      BY <1>1, <1>6, <1>10, <3>1, <3>2, <3>3, SameStage DEF StageInv
  <2>. QED
    BY <1>10, <2>1 DEF StageInv
<1>11. CASE HandlerThrow(h)
  <2>1. UNCHANGED <<rows, queue, chats>> /\ handler'[h].pc = "idle"
    BY <1>11 DEF HandlerThrow, AddRejected, NothingIsRepeated, tables, Idle, TypeOK
  <2>2. Stage(j)'
    BY <1>7, <1>8, <2>1 DEF Stage
  <2>. QED
    BY <1>10, <2>1, <2>2 DEF Edge, StaysPut
<1>12. CASE DeleteDays(h)
  <2>1. /\ UNCHANGED <<rows, queue, chats>> /\ handler[h].pc = "edit"
        /\ handler'[h].pc = "commit" /\ handler'[h].row = e
    BY <1>12 DEF DeleteDays, tables, TypeOK
  <2>2. Stage(j)'
    BY <1>7, <1>8, <1>9, <2>1 DEF Stage
  <2>. QED
    BY <1>10, <2>1, <2>2 DEF Edge, StaysPut
<1>13. CASE ReEnqueue(h)
  <2>1. UNCHANGED <<rows, chats>> /\ handler'[h].pc = "idle" /\ handler[h].pc = "enqueue"
    BY <1>13 DEF ReEnqueue, tables, Idle, TypeOK
  <2>2. Stage(j)'
    BY <1>7, <1>8, <1>9, <2>1 DEF Stage, Active
  <2>. QED
    BY <1>10, <2>1, <2>2 DEF Edge, StaysPut
<1>14. CASE CommitEdit(h) \/ CommitAnswer(h)
  <2>. PICK i : SaveRow(j, e, MarkSuccessWithIntent(e, i))
    BY <1>14 DEF CommitEdit, CommitAnswer
  <2>. PICK s : s = MarkSuccessWithIntent(e, i)
    OBVIOUS
  <2>1. /\ handler[h].pc \in {"commit", "answer"} /\ handler'[h].pc = "idle" /\ UNCHANGED queue
        /\ chats' = [chats EXCEPT ![j] = chats[j] + 1] /\ SaveRow(j, e, s) /\ s.status = "SUCCESS"
    BY <1>14, MethodsSetTheStatus DEF CommitEdit, CommitAnswer, Idle, TypeOK
  <2>2. rows'[j].status = "SUCCESS" /\ \A k \in Jobs \ {j} : rows'[k] = rows[k]
    BY <1>0, <1>9, <2>1, StatusIsSaved
  <2>3. chats[j] = 0
    <3>1. chats[j] \in Nat
      BY DEF TypeOK
    <3>2. 1 \notin 1..chats[j]
      BY <1>4 DEF ExchangesOf
    <3>. QED
      BY <3>1, <3>2
  <2>4. chats' = [chats EXCEPT ![j] = 1] /\ \A k \in Jobs \ {j} : chats'[k] = chats[k]
    BY <2>1, <2>3 DEF TypeOK
  <2>5. Stage(j)'
    BY <1>7, <1>8, <2>1, <2>2 DEF Stage
  <2>6. Succeeds(j)
    BY <1>9, <2>1, <2>2, <2>3, <2>4 DEF Succeeds
  <2>. QED
    BY <1>10, <2>2, <2>4, <2>5, <2>6 DEF Edge
<1>15. CASE SaveFailure(h)
  <2>. PICK s : s = MarkFailed(e, "LLM_ERROR")
    OBVIOUS
  <2>1. /\ handler[h].pc = "fail" /\ handler'[h].pc = "idle" /\ UNCHANGED <<queue, chats>>
        /\ SaveRow(j, e, s) /\ s.status = "FAILED"
    BY <1>15, MethodsSetTheStatus DEF SaveFailure, Idle, TypeOK
  <2>2. rows'[j].status = "FAILED" /\ \A k \in Jobs \ {j} : rows'[k] = rows[k]
    BY <1>0, <1>9, <2>1, StatusIsSaved
  <2>3. Stage(j)'
    BY <1>7, <1>8, <2>1, <2>2 DEF Stage
  <2>4. MovesOn(j, {"PENDING", "PROCESSING"}, "FAILED")
    BY <1>9, <2>1, <2>2 DEF MovesOn
  <2>. QED
    BY <1>10, <2>1, <2>2, <2>3, <2>4 DEF Edge
<1>16. CASE SaveRetry(h)
  <2>. PICK s : s = ResetForRetry(e)
    OBVIOUS
  <2>1. /\ handler[h].pc = "retry" /\ handler'[h].pc = "enqueue" /\ UNCHANGED <<queue, chats>>
        /\ SaveRow(j, e, s) /\ s.status = "PENDING"
    <3>1. handler[h].pc = "retry" /\ handler[h] \in Begun
      BY <1>2, <1>16, HandlerFields DEF SaveRetry
    <3>. QED
      BY <1>16, <3>1, MethodsSetTheStatus DEF SaveRetry, Begun, TypeOK
  <2>2. rows'[j].status = "PENDING" /\ \A k \in Jobs \ {j} : rows'[k] = rows[k]
    BY <1>0, <1>9, <2>1, StatusIsSaved
  <2>3. Stage(j)'
    BY <1>7, <1>8, <2>1, <2>2 DEF Stage
  <2>4. MovesOn(j, {"PROCESSING"}, "PENDING")
    BY <1>9, <2>1, <2>2 DEF MovesOn
  <2>. QED
    BY <1>10, <2>1, <2>2, <2>3, <2>4 DEF Edge
<1>. QED
  BY <1>11, <1>12, <1>13, <1>14, <1>15, <1>16 DEF HandlerStep

\* Python's answers change no row.
LEMMA PythonStage ==
  ASSUME NothingIsRepeated, TypeOK, OnePieceOfWork, StageInv, PythonStep
  PROVE  StageInv' /\ Edge
<1>1. UNCHANGED <<rows, request, worker, queue, chats>>
  BY DEF PythonStep, CallbackLost, CallbackIgnored, SuccessBegin, FailureBegin,
         CallbackBegin, tables
<1>2. \A k \in Jobs : /\ EntriesAtWork(k)' = EntriesAtWork(k) /\ ExchangesOf(k)' = ExchangesOf(k)
                      /\ (WorkerIsAt(k)' => WorkerIsAt(k))
  BY <1>1, SameWork DEF WorkerIsAt, JobOf
<1>3. CASE UNCHANGED handler /\ tasks' \subseteq tasks
  <2>1. \A k \in Jobs : AnswersFor(k)' \subseteq AnswersFor(k)
    BY <1>1, <1>3 DEF AnswersFor, JobOf
  <2>2. \A k \in Jobs : Stage(k)'
    BY <1>1, <1>2, <1>3, <2>1, SameWork, SameStage DEF StageInv
  <2>. QED
    BY <1>1, <2>2 DEF StageInv, Edge, StaysPut
<1>4. ASSUME NEW t \in tasks, NEW h \in Handlers, NEW pc, pc \notin {"idle", "enqueue"},
             CallbackBegin(h, t, pc)
      PROVE  StageInv' /\ Edge
  <2>. PICK j \in Jobs : j = JobOf(t.entry)
    BY EntryJob DEF TypeOK
  <2>1. /\ tasks' = tasks \ {t}
        /\ handler[h].pc = "idle" /\ handler'[h].row = rows[j] /\ handler'[h].pc = pc
        /\ handler'[h].job = j
        /\ \A g \in Handlers \ {h} : handler'[g] = handler[g]
    BY <1>4 DEF CallbackBegin, Receive, NothingIsRepeated, Idle, TypeOK
  <2>2. t \in AnswersFor(j)
    BY DEF AnswersFor
  <2>3. /\ EntriesAtWork(j) = {} /\ AnswersFor(j) = {t} /\ CallbacksFor(j) = {}
        /\ ExchangesOf(j) = {} /\ request[j].pc = "done"
    BY <2>2, OnlyAnswer
  <2>4. \A k \in Jobs : AnswersFor(k)' \subseteq AnswersFor(k) \ {t}
    BY <1>1, <2>1 DEF AnswersFor, JobOf
  <2>5. ASSUME NEW k \in Jobs \ {j} PROVE Stage(k)'
    <3>1. CallbacksFor(k)' \subseteq CallbacksFor(k) /\ h \notin CallbacksFor(k)'
      BY <2>1 DEF CallbacksFor
    <3>2. \A g \in CallbacksFor(k)' : handler'[g] = handler[g]
      BY <2>1, <3>1 DEF CallbacksFor
    <3>. QED
      BY <1>1, <1>2, <2>4, <3>1, <3>2, SameStage DEF StageInv
  <2>6. rows[j].status = "PROCESSING"
    BY <2>2 DEF StageInv, Stage
  <2>7. \A g \in CallbacksFor(j)' : g = h
    BY <2>1, <2>3 DEF CallbacksFor
  <2>8. /\ AnswersFor(j)' = {} /\ ~ WorkerIsAt(j)' /\ EntriesAtWork(j)' = {}
        /\ ExchangesOf(j)' = {} /\ request'[j].pc = "done"
    BY <1>1, <1>2, <2>3, <2>4, WorkerWorks
  <2>9. Stage(j)'
    BY <1>1, <1>4, <2>1, <2>6, <2>7, <2>8 DEF Stage
  <2>. QED
    BY <1>1, <2>5, <2>9 DEF StageInv, Edge, StaysPut
<1>. QED
  BY <1>3, <1>4
  DEF PythonStep, CallbackLost, CallbackIgnored, Receive, SuccessBegin, FailureBegin

\* Where nothing is repeated or slow, every step is one of a job's life.
LifeInv == EntryIsActive /\ OnePieceOfWork /\ CronSleeps /\ StageInv

\* The invariant at first, and through every step, each an edge of a job's life.
LEMMA LifeBegins ==
  ASSUME Init
  PROVE  LifeInv
<1>1. ASSUME NEW k \in Jobs PROVE Stage(k)
  <2>1. /\ EntriesAtWork(k) = {} /\ AnswersFor(k) = {} /\ CallbacksFor(k) = {}
        /\ ExchangesOf(k) = {} /\ ~ WorkerIsAt(k)
    BY DEF Init, EntriesAtWork, EntriesOf, AnswersFor, CallbacksFor, ExchangesOf,
           WorkerIsAt, Idle
  <2>2. rows[k].status = "ABSENT" /\ request[k].pc = "new"
    BY DEF Init, Absent
  <2>. QED
    BY <2>1, <2>2 DEF Stage
<1>. QED
  BY <1>1, NoWorkYet DEF Init, LifeInv, EntryIsActive, CronSleeps, StageInv, Idle

LEMMA LifeGoesOn ==
  ASSUME NothingIsRepeated, "slow" \notin Faults, TypeOK, OwnCourses, TypeOK', LifeInv,
         [Next]_vars
  PROVE  LifeInv' /\ Edge
<1>. USE DEF LifeInv
<1>1. EntryIsActive' /\ OnePieceOfWork' /\ CronSleeps' /\ ~Cleanup
  BY EntryStaysActive, WorkIsHandedOn, CronSleepsOn
<1>2. ASSUME UNCHANGED <<queue, worker, tasks, handler, chats, request>>,
             \A k \in Jobs : rows'[k].status = rows[k].status
      PROVE  StageInv' /\ Edge
  <2>1. \A k \in Jobs : Stage(k)'
    BY <1>2, SameWork, SameStage DEF StageInv, WorkerIsAt, JobOf
  <2>. QED
    BY <1>2, <2>1 DEF StageInv, Edge, StaysPut
<1>3. ASSUME NEW c \in Courses, CourseGone(c) PROVE StageInv' /\ Edge
  <2>1. \A k \in Jobs : rows'[k].status = rows[k].status
    BY <1>3, DeletionKeepsTheStatus DEF CourseGone, TypeOK
  <2>. QED
    BY <1>2, <1>3, <2>1 DEF CourseGone
<1>4. CASE UNCHANGED <<rows, queue, worker, tasks, handler, chats, request>>
  BY <1>1, <1>2, <1>4
<1>5. ASSUME NEW g \in Toggles, ToggleStep(g) PROVE StageInv' /\ Edge
  BY <1>4, <1>5 DEF ToggleStep, ToggleLoad, ToggleSave, ToggleFails, tables
<1>6. UNCHANGED vars => StageInv' /\ Edge
  BY <1>4 DEF vars
<1>7. (\A j \in Jobs : ~Age(j)) /\ ~Crash
  BY DEF Age, GrowsOld, Crash, NothingIsRepeated
<1>8. ASSUME Next PROVE StageInv' /\ Edge
  BY <1>1, <1>3, <1>5, <1>7, <1>8, RequestStage, WorkerStage, HandlerStage, PythonStage
  DEF Next
<1>. QED
  BY <1>1, <1>6, <1>8

\* One edge of a job's life, seen through the status and the exchanges a client
\* may know of, is a step of JobLifecycle.
LEMMA EdgeIsAStep ==
  ASSUME TypeOK, TypeOK', Edge
  PROVE  [Lifecycle!Next]_(Lifecycle!lifeVars)
<1>. DEFINE status == [k \in Jobs |-> rows[k].status]
            results == [k \in Jobs |-> 1..chats[k]]
<1>1. ASSUME NEW j \in Jobs, NEW from, NEW to, MovesOn(j, from, to)
      PROVE  Lifecycle!Move(j, from, to) /\ UNCHANGED results
  <2>1. status' = [status EXCEPT ![j] = to]
    BY <1>1 DEF MovesOn
  <2>2. UNCHANGED results
    BY <1>1 DEF MovesOn
  <2>. QED
    BY <1>1, <2>1, <2>2 DEF Lifecycle!Move, MovesOn
<1>2. ASSUME NEW j \in Jobs, Succeeds(j) PROVE Lifecycle!Succeed(j)
  <2>1. status' = [status EXCEPT ![j] = "SUCCESS"]
    BY <1>2 DEF Succeeds
  <2>2. 1..chats[j] = {} /\ 1..chats'[j] = {1} /\ \A k \in Jobs \ {j} : chats'[k] = chats[k]
    BY <1>2 DEF Succeeds, TypeOK
  <2>3. results' = [results EXCEPT ![j] = {1}] /\ results[j] = {} /\ 1 \in results'[j]
    BY <2>2
  <2>. QED
    BY <1>2, <2>1, <2>3 DEF Lifecycle!Succeed, Lifecycle!Move, Succeeds
<1>3. StaysPut => UNCHANGED <<status, results>>
  BY DEF StaysPut
<1>4. ASSUME NEW j \in Jobs
      PROVE  /\ MovesOn(j, {"ABSENT"}, "PENDING") => Lifecycle!Create(j)
             /\ MovesOn(j, {"PENDING"}, "PROCESSING") => Lifecycle!Start(j)
             /\ MovesOn(j, {"PROCESSING"}, "PENDING") => Lifecycle!Retry(j)
             /\ MovesOn(j, {"PENDING", "PROCESSING"}, "FAILED") => Lifecycle!Fail(j)
  BY <1>1 DEF Lifecycle!Create, Lifecycle!Start, Lifecycle!Retry, Lifecycle!Fail
<1>5. ASSUME NEW j \in Jobs, MovesOn(j, {"PENDING", "PROCESSING"}, "PROCESSING")
      PROVE  Lifecycle!Start(j) \/ UNCHANGED <<status, results>>
  <2>1. CASE rows[j].status = "PENDING"
    BY <1>4, <1>5, <2>1 DEF MovesOn
  <2>2. CASE rows[j].status = "PROCESSING"
    <3>1. UNCHANGED status
      BY <1>5, <2>2 DEF MovesOn
    <3>. QED
      BY <1>1, <1>5, <3>1
  <2>. QED
    BY <1>5, <2>1, <2>2 DEF MovesOn
<1>6. Lifecycle!Next \/ UNCHANGED <<status, results>>
  <2>1. ASSUME NEW j \in Jobs,
               Lifecycle!Create(j) \/ Lifecycle!Start(j) \/ Lifecycle!Retry(j)
                 \/ Lifecycle!Fail(j) \/ Lifecycle!Succeed(j)
        PROVE  Lifecycle!Next
    BY <2>1 DEF Lifecycle!Next
  <2>. HIDE DEF status, results
  <2>. QED
    BY <1>2, <1>3, <1>4, <1>5, <2>1 DEF Edge
<1>. QED
  BY <1>6 DEF Lifecycle!lifeVars

\* A modification implements the lifecycle a polling client may expect, with the
\* exchanges in the chat history as results: a job is created once, SUCCESS
\* comes with its one exchange in the same step, and nothing follows it or
\* FAILED.  Courses and surveys may be deleted meanwhile and messages sent before
\* the last one is answered.
THEOREM LifecycleCorrect ==
  ASSUME NothingIsRepeated, "slow" \notin Faults
  PROVE  Spec => ImplementsLifecycle
<1>1. Init => Lifecycle!Init
  BY DEF Init, Lifecycle!Init, Absent
<1>2. TypeOK /\ OwnCourses /\ TypeOK' /\ LifeInv /\ [Next]_vars
        => LifeInv' /\ [Lifecycle!Next]_(Lifecycle!lifeVars)
  BY LifeGoesOn, EdgeIsAStep
<1>. QED
  BY <1>1, <1>2, LifeBegins, TypeCorrect, PTL
  DEF Spec, ImplementsLifecycle, Lifecycle!Spec

\* The status a client polls tells of the exchange: SUCCESS means that one is in
\* the chat history, any other status that there is none.
StatusTellsTheExchange ==
  \A j \in Jobs : chats[j] = IF rows[j].status = "SUCCESS" THEN 1 ELSE 0

\* No exchange without SUCCESS, and no SUCCESS without its one exchange: inherited
\* from the abstract job.
THEOREM OutcomeCorrect ==
  ASSUME NothingIsRepeated, "slow" \notin Faults
  PROVE  Spec => []StatusTellsTheExchange
<1>1. TypeOK /\ Lifecycle!ResultsMatch => StatusTellsTheExchange
  <2>. SUFFICES ASSUME TypeOK, Lifecycle!ResultsMatch, NEW j \in Jobs
                PROVE  chats[j] = IF rows[j].status = "SUCCESS" THEN 1 ELSE 0
    BY DEF StatusTellsTheExchange
  <2>. PICK c \in Nat : c = chats[j]
    BY DEF TypeOK
  <2>1. IF rows[j].status = "SUCCESS" THEN \E n : 1..c = {n} ELSE 1..c = {}
    BY DEF Lifecycle!ResultsMatch
  <2>2. CASE rows[j].status = "SUCCESS"
    <3>1. PICK n : 1..c = {n}
      BY <2>1, <2>2
    <3>2. c # 0 => 1 \in 1..c /\ c \in 1..c
      OBVIOUS
    <3>3. c = 0 => 1..c = {}
      OBVIOUS
    <3>. QED
      BY <2>2, <3>1, <3>2, <3>3
  <2>3. CASE rows[j].status # "SUCCESS"
    <3>1. c # 0 => 1 \in 1..c
      OBVIOUS
    <3>. QED
      BY <2>1, <2>3, <3>1
  <2>. QED
    BY <2>2, <2>3
<1>2. Spec => Lifecycle!Spec
  BY LifecycleCorrect DEF ImplementsLifecycle
<1>. QED
  BY <1>1, <1>2, TypeCorrect, Lifecycle!ResultsCorrect, PTL

\* A modification that polls as SUCCESS or FAILED does so for ever, and nothing is
\* added to its exchange.
THEOREM EndCorrect ==
  ASSUME NothingIsRepeated, "slow" \notin Faults
  PROVE  Spec => Lifecycle!EndIsFinal
<1>1. Spec => Lifecycle!Spec
  BY LifecycleCorrect DEF ImplementsLifecycle
<1>. QED
  BY <1>1, Lifecycle!EndCorrect, PTL
-----------------------------------------------------------------------------
(* A settled job stays settled                                             *)

EntriesUsedUp(j) ==
  \A i \in DOMAIN queue : JobOf(i) = j => queue[i].state \in {"completed", "failed"}

\* What of Settled is about code in flight, besides the queue.
NotInFlight(j) ==
  /\ request[j].pc = "done"
  /\ worker # Idle => JobOf(worker.entry) # j
  /\ \A h \in Handlers : handler[h] # Idle => handler[h].job # j
  /\ cron.pc = "save" => cron.job # j

LEMMA SettledParts ==
  ASSUME NEW j \in Jobs
  PROVE  Settled(j) <=> rows[j].status \in Terminal /\ EntriesUsedUp(j) /\ NotInFlight(j)
  BY DEF Settled, EntriesUsedUp, NotInFlight

\* An entry of another job that is added leaves this job's entries used up.
LEMMA OthersAdd ==
  ASSUME TypeOK, NEW j \in Jobs, EntriesUsedUp(j), NEW k \in Jobs, k # j,
         NEW c, AddJob(k, c)
  PROVE  /\ EntriesUsedUp(j)'
         /\ \A i \in DOMAIN queue : JobOf(i)' = JobOf(i)
<1>. DEFINE data == [job |-> k, course |-> c]
<1>1. queue' = Append(queue, NewEntry(data))
  BY DEF Add, AddJob
<1>2. /\ Len(queue) \in Nat
      /\ DOMAIN queue' = 1..(Len(queue) + 1)
      /\ queue'[Len(queue) + 1] = NewEntry(data)
      /\ \A i \in DOMAIN queue : i \in DOMAIN queue' /\ queue'[i] = queue[i]
  BY <1>1 DEF TypeOK
<1>3. \A i \in DOMAIN queue' : i \in DOMAIN queue \/ i = Len(queue) + 1
  BY <1>2 DEF TypeOK
<1>4. NewEntry(data).data.job = k
  BY DEF NewEntry
<1>5. EntriesUsedUp(j)'
  BY <1>2, <1>3, <1>4 DEF EntriesUsedUp, JobOf
<1>. QED
  BY <1>2, <1>5 DEF JobOf

\* A worker that stays where it is, on an entry that keeps its job, is no
\* closer to the job.
LEMMA WorkerStaysElsewhere ==
  ASSUME TypeOK, NEW j \in Jobs, NotInFlight(j), UNCHANGED worker,
         \A i \in DOMAIN queue : JobOf(i)' = JobOf(i)
  PROVE  (worker # Idle => JobOf(worker.entry) # j)'
<1>1. worker # Idle => worker.entry \in DOMAIN queue
  BY DEF TypeOK
<1>2. worker # Idle => queue'[worker.entry].data.job = queue[worker.entry].data.job
  BY <1>1 DEF JobOf
<1>. QED
  BY <1>2 DEF NotInFlight, JobOf

LEMMA RequestLeavesSettled ==
  ASSUME TypeOK, NEW j \in Jobs, Settled(j), NEW k \in Jobs, RequestStep(k)
  PROVE  Settled(j)' /\ rows'[j] = rows[j] /\ UNCHANGED <<chats, edits>>
<1>. USE DEF tables
<1>0. rows[j].status \in Terminal /\ EntriesUsedUp(j) /\ NotInFlight(j)
  BY SettledParts
<1>1. k # j
  BY <1>0 DEF NotInFlight, RequestStep, RequestFind, RequestReject, RequestCheckActive,
     RequestInsert, RequestSaveCourse, RequestSaveCourseFails, RequestEnqueue,
     RequestEnqueueFails, RequestSaveFailure, RequestSaveFailureFails
<1>2. rows'[j] = rows[j] /\ UNCHANGED <<chats, edits, worker, handler, cron>>
  <2>1. CASE RequestSaveFailure(k)
    BY <1>1, <2>1, SaveLeavesOthers DEF RequestSaveFailure, TypeOK
  <2>2. CASE RequestInsert(k)
    BY <1>1, <2>2 DEF RequestInsert, TypeOK
  <2>. QED
    BY <2>1, <2>2 DEF RequestStep, RequestFind, RequestReject, RequestCheckActive,
       RequestSaveCourse, RequestSaveCourseFails, RequestEnqueue, RequestEnqueueFails,
       RequestSaveFailureFails
<1>3. request'[j] = request[j]
  BY <1>1 DEF TypeOK, RequestStep, RequestFind, RequestReject, RequestCheckActive,
     RequestInsert, RequestSaveCourse, RequestSaveCourseFails, RequestEnqueue,
     RequestEnqueueFails, RequestSaveFailure, RequestSaveFailureFails
<1>4. UNCHANGED queue \/ \E c : AddJob(k, c)
  BY DEF RequestStep, RequestFind, RequestReject, RequestCheckActive, RequestInsert,
     RequestSaveCourse, RequestSaveCourseFails, RequestEnqueue, RequestEnqueueFails,
     AddRejected, RequestSaveFailure, RequestSaveFailureFails
<1>5. EntriesUsedUp(j)' /\ \A i \in DOMAIN queue : JobOf(i)' = JobOf(i)
  BY <1>0, <1>1, <1>4, OthersAdd DEF EntriesUsedUp, JobOf
<1>6. (worker # Idle => JobOf(worker.entry) # j)'
  BY <1>0, <1>2, <1>5, WorkerStaysElsewhere
<1>. QED
  BY <1>0, <1>2, <1>3, <1>5, <1>6 DEF Settled, EntriesUsedUp, NotInFlight

LEMMA HandlerLeavesSettled ==
  ASSUME TypeOK, NEW j \in Jobs, Settled(j), NEW h \in Handlers, HandlerStep(h)
  PROVE  /\ Settled(j)' /\ rows'[j] = rows[j] /\ chats'[j] = chats[j]
         /\ EditsMadeBy(j)' = EditsMadeBy(j)
<1>. USE DEF tables
<1>. DEFINE k == handler[h].job
<1>0. rows[j].status \in Terminal /\ EntriesUsedUp(j) /\ NotInFlight(j)
  BY SettledParts
<1>1. handler[h].pc # "idle"
  BY DEF HandlerStep, DeleteDays, CommitEdit, CommitAnswer, SaveRetry, ReEnqueue,
     SaveFailure, HandlerThrow
<1>2. k \in Jobs /\ k # j
  BY <1>0, <1>1, HandlerFields DEF NotInFlight, Idle
<1>3. UNCHANGED <<request, worker, cron>>
  BY DEF HandlerStep, DeleteDays, CommitEdit, CommitAnswer, SaveRetry, ReEnqueue,
     SaveFailure, HandlerThrow
<1>4. rows'[j] = rows[j] /\ chats'[j] = chats[j]
  BY <1>2, SaveLeavesOthers DEF TypeOK, HandlerStep, DeleteDays, CommitEdit, CommitAnswer, SaveRetry, ReEnqueue,
     SaveFailure, HandlerThrow
<1>5. UNCHANGED edits \/ edits' = Append(edits, k)
  BY DEF HandlerStep, DeleteDays, CommitEdit, CommitAnswer, SaveRetry, ReEnqueue,
     SaveFailure, HandlerThrow
<1>6. EditsMadeBy(j)' = EditsMadeBy(j)
  <2>1. CASE UNCHANGED edits
    BY <2>1 DEF EditsMadeBy
  <2>2. CASE edits' = Append(edits, k)
    <3>. HIDE DEF k
    <3>1. /\ Len(edits) \in Nat
          /\ DOMAIN edits = 1..Len(edits)
          /\ DOMAIN edits' = 1..(Len(edits) + 1)
          /\ edits'[Len(edits) + 1] = k
          /\ \A n \in DOMAIN edits : edits'[n] = edits[n]
      BY <1>2, <2>2 DEF TypeOK
    <3>2. \A n : n \in EditsMadeBy(j)' <=> n \in EditsMadeBy(j)
      BY <1>2, <3>1 DEF EditsMadeBy
    <3>. QED
      BY <3>2
  <2>. QED
    BY <1>5, <2>1, <2>2
<1>7. UNCHANGED queue \/ \E c : AddJob(k, c)
  BY DEF HandlerStep, DeleteDays, CommitEdit, CommitAnswer, SaveRetry, ReEnqueue,
     SaveFailure, HandlerThrow, AddRejected
<1>8. EntriesUsedUp(j)' /\ \A i \in DOMAIN queue : JobOf(i)' = JobOf(i)
  BY <1>0, <1>2, <1>7, OthersAdd DEF EntriesUsedUp, JobOf
<1>9. (worker # Idle => JobOf(worker.entry) # j)'
  BY <1>0, <1>3, <1>8, WorkerStaysElsewhere
<1>10. \A g \in Handlers : handler'[g] # Idle => handler[g] # Idle /\ handler'[g].job = handler[g].job
  <2>1. CASE SaveRetry(h) \/ DeleteDays(h)
    <3>1. handler'[h].job = handler[h].job /\ \A g \in Handlers \ {h} : handler'[g] = handler[g]
      <4>1. CASE SaveRetry(h)
        <5>1. handler[h] \in Begun
          BY <4>1, HandlerFields DEF SaveRetry
        <5>. QED
          BY <4>1, <5>1 DEF SaveRetry, Begun, TypeOK
      <4>2. CASE DeleteDays(h)
        BY <4>2 DEF DeleteDays, TypeOK
      <4>. QED
        BY <2>1, <4>1, <4>2
    <3>. QED
      BY <1>1, <3>1 DEF Idle
  <2>2. CASE handler' = [handler EXCEPT ![h] = Idle]
    BY <2>2 DEF TypeOK
  <2>. QED
    BY <2>1, <2>2 DEF HandlerStep, CommitEdit, CommitAnswer, ReEnqueue, SaveFailure, HandlerThrow
<1>. QED
  BY <1>0, <1>3, <1>4, <1>6, <1>8, <1>9, <1>10 DEF Settled, EntriesUsedUp, NotInFlight

\* The worker takes only entries that wait, and works on another job's.
LEMMA WorkerLeavesSettled ==
  ASSUME TypeOK, NEW j \in Jobs, Settled(j), WorkerStep
  PROVE  Settled(j)' /\ rows'[j] = rows[j] /\ UNCHANGED <<chats, edits>>
<1>. USE DEF tables
<1>0. rows[j].status \in Terminal /\ EntriesUsedUp(j) /\ NotInFlight(j)
  BY SettledParts
<1>1. UNCHANGED <<chats, edits, request, handler, cron>>
  BY DEF WorkerStep, WorkerTake, WorkerLoad, WorkerDrop, WorkerSaveProcessing,
     WorkerFindCourse, WorkerRefuse, WorkerSaveRefused, WorkerPost, WorkerAck, WorkerThrow
<1>2. PICK i \in DOMAIN queue :
        /\ JobOf(i) # j
        /\ worker' # Idle => worker'.entry = i
        /\ \/ UNCHANGED queue
           \/ \E state \in EntryStates : SetEntry(i, state)
           \/ queue' = [queue EXCEPT ![i] = TriedAgain(queue[i])]
  <2>1. ASSUME NEW i \in DOMAIN queue, WorkerTake(i)
        PROVE  /\ JobOf(i) # j /\ worker'.entry = i
               /\ SetEntry(i, "active") /\ "active" \in EntryStates
    BY <1>0, <2>1 DEF WorkerTake, EntriesUsedUp, EntryStates
  <2>2. CASE WorkerLoad \/ WorkerSaveProcessing \/ WorkerFindCourse \/ WorkerRefuse \/ WorkerPost
    <3>0. /\ WorkerLoad => worker.pc = "load" /\ UNCHANGED queue
          /\ WorkerSaveProcessing => worker.pc = "save" /\ UNCHANGED queue
          /\ WorkerFindCourse => worker.pc = "course" /\ UNCHANGED queue
          /\ WorkerRefuse => worker.pc = "course" /\ UNCHANGED queue
          /\ WorkerPost => worker.pc = "post" /\ UNCHANGED queue
      <4>1. WorkerLoad => worker.pc = "load" /\ UNCHANGED queue
        BY DEF WorkerLoad
      <4>2. WorkerSaveProcessing => worker.pc = "save" /\ UNCHANGED queue
        BY DEF WorkerSaveProcessing
      <4>3. WorkerFindCourse => worker.pc = "course" /\ UNCHANGED queue
        BY DEF WorkerFindCourse
      <4>4. WorkerRefuse => worker.pc = "course" /\ UNCHANGED queue
        BY DEF WorkerRefuse
      <4>5. WorkerPost => worker.pc = "post" /\ UNCHANGED queue
        BY DEF WorkerPost
      <4>. QED
        BY <4>1, <4>2, <4>3, <4>4, <4>5
    <3>1. worker.pc # "idle" /\ UNCHANGED queue
      BY <2>2, <3>0
    <3>2. worker.entry \in DOMAIN queue /\ JobOf(worker.entry) # j
      BY <1>0, <3>1, WorkerFields DEF NotInFlight, Idle
    <3>3. worker'.entry = worker.entry
      <4>1. CASE WorkerLoad
        BY <4>1 DEF WorkerLoad
      <4>2. CASE WorkerSaveProcessing \/ WorkerFindCourse \/ WorkerRefuse \/ WorkerPost
        <5>1. worker \in WorkerAtWork
          BY <3>0, <4>2, WorkerFields
        <5>2. CASE WorkerSaveProcessing
          BY <5>1, <5>2 DEF WorkerSaveProcessing, WorkerAtWork
        <5>3. CASE WorkerFindCourse
          BY <5>1, <5>3 DEF WorkerFindCourse, WorkerAtWork
        <5>4. CASE WorkerRefuse \/ WorkerPost
          BY <5>1, <5>4 DEF WorkerRefuse, WorkerPost, WorkerAtWork
        <5>. QED
          BY <4>2, <5>2, <5>3, <5>4
      <4>. QED
        BY <2>2, <4>1, <4>2
    <3>. QED
      BY <3>1, <3>2, <3>3
  <2>3. CASE WorkerDrop \/ WorkerSaveRefused \/ WorkerAck \/ WorkerThrow
    <3>1. worker.pc # "idle" /\ worker' = Idle
      BY <2>3 DEF WorkerDrop, WorkerSaveRefused, WorkerAck, WorkerThrow, WorkerCanThrow
    <3>2. worker.entry \in DOMAIN queue /\ JobOf(worker.entry) # j
      BY <1>0, <3>1, WorkerFields DEF NotInFlight, Idle
    <3>. QED
      BY <2>3, <3>1, <3>2 DEF WorkerDrop, WorkerSaveRefused, WorkerAck, WorkerThrow, EntryStates
  <2>. QED
    BY <2>1, <2>2, <2>3 DEF WorkerStep
<1>3. rows'[j] = rows[j]
  <2>1. CASE WorkerSaveProcessing \/ WorkerSaveRefused
    <3>1. JobOf(worker.entry) # j
      BY <1>0, <2>1 DEF WorkerSaveProcessing, WorkerSaveRefused, NotInFlight, Idle
    <3>. QED
      BY <2>1, <3>1, SaveLeavesOthers DEF WorkerSaveProcessing, WorkerSaveRefused, TypeOK
  <2>2. CASE WorkerFindCourse
    BY <2>2 DEF WorkerFindCourse
  <2>3. ASSUME NEW n \in DOMAIN queue, WorkerTake(n) PROVE rows'[j] = rows[j]
    BY <2>3 DEF WorkerTake
  <2>4. CASE WorkerLoad \/ WorkerDrop \/ WorkerAck \/ WorkerThrow
    BY <2>4 DEF WorkerLoad, WorkerDrop, WorkerAck, WorkerThrow
  <2>5. CASE WorkerRefuse \/ WorkerPost
    BY <2>5 DEF WorkerRefuse, WorkerPost
  <2>. QED
    BY <2>1, <2>2, <2>3, <2>4, <2>5 DEF WorkerStep
<1>4. /\ DOMAIN queue' = DOMAIN queue
      /\ queue'[i].data = queue[i].data
      /\ \A n \in DOMAIN queue \ {i} : queue'[n] = queue[n]
  <2>1. queue[i] \in EntryOf(Payload)
    BY EntryJob DEF Entry, Payload
  <2>2. CASE UNCHANGED queue
    BY <2>2
  <2>3. ASSUME NEW state \in EntryStates, SetEntry(i, state) PROVE <1>4!:
    <3>1. [queue[i] EXCEPT !.state = state].data = queue[i].data
      BY <2>1 DEF EntryOf
    <3>. QED
      BY <2>3, <3>1 DEF SetEntry, TypeOK
  <2>4. CASE queue' = [queue EXCEPT ![i] = TriedAgain(queue[i])]
    <3>1. TriedAgain(queue[i]).data = queue[i].data
      BY <2>1, EntryChanges
    <3>. QED
      BY <2>4, <3>1 DEF TypeOK
  <2>. QED
    BY <1>2, <2>2, <2>3, <2>4
<1>5. EntriesUsedUp(j)' /\ \A n \in DOMAIN queue : JobOf(n)' = JobOf(n)
  BY <1>0, <1>2, <1>4 DEF EntriesUsedUp, JobOf
<1>6. (worker # Idle => JobOf(worker.entry) # j)'
  BY <1>2, <1>4 DEF JobOf
<1>. QED
  BY <1>0, <1>1, <1>3, <1>5, <1>6 DEF Settled, EntriesUsedUp, NotInFlight

\* A callback is begun only for a job that is found unfinished.
LEMMA PythonLeavesSettled ==
  ASSUME TypeOK, NEW j \in Jobs, Settled(j), PythonStep
  PROVE  Settled(j)' /\ UNCHANGED <<rows, chats, edits>>
<1>. USE DEF tables
<1>1. ASSUME NEW t \in tasks, NEW h \in Handlers, NEW pc, CallbackBegin(h, t, pc)
      PROVE  Settled(j)' /\ UNCHANGED <<rows, chats, edits>>
  <2>1. JobOf(t.entry) # j
    BY <1>1 DEF CallbackBegin, Settled, Active, Terminal
  <2>2. \A g \in Handlers : handler'[g].job = JobOf(t.entry) \/ handler'[g] = handler[g]
    BY <1>1 DEF CallbackBegin, TypeOK
  <2>3. UNCHANGED <<rows, chats, edits, queue, request, worker, cron>>
    BY <1>1 DEF CallbackBegin
  <2>. HIDE DEF Settled
  <2>. QED
    BY <2>1, <2>2, <2>3 DEF Settled, JobOf
<1>. QED
  BY <1>1 DEF PythonStep, CallbackLost, CallbackIgnored, SuccessBegin, FailureBegin,
     Settled, JobOf

LEMMA CrashLeavesSettled ==
  ASSUME TypeOK, NEW j \in Jobs, Settled(j), Crash
  PROVE  Settled(j)' /\ UNCHANGED <<rows, chats, edits>>
<1>1. DOMAIN queue' = DOMAIN queue
  BY DEF Crash, StallActive
<1>2. \A i \in DOMAIN queue :
        /\ queue'[i].data = queue[i].data
        /\ queue[i].state \in {"completed", "failed"} => queue'[i] = queue[i]
  BY StallLeavesTheUsedUp DEF Crash, TypeOK, Entry, Payload
<1>3. /\ request'[j].pc = "done" /\ worker' = Idle /\ cron' = Idle
      /\ \A h \in Handlers : handler'[h] = Idle
      /\ UNCHANGED <<rows, chats, edits>>
  BY DEF Crash, Settled, tables
<1>. QED
  BY <1>1, <1>2, <1>3 DEF Settled, JobOf, Idle

\* Late and repeated callbacks of a settled job are ignored, the cron's old list
\* does it no harm and no entry, retry or restart takes it up again, whatever
\* the faults: it keeps its status and intent, and makes no further exchange or edit.
THEOREM SettledCorrect == Spec => SettledStays
<1>. DEFINE Stays(j) ==
       /\ Settled(j)'
       /\ rows'[j] \in {rows[j], [rows[j] EXCEPT !.course = NoCourse]}
       /\ chats'[j] = chats[j]
       /\ EditsMadeBy(j)' = EditsMadeBy(j)
<1>1. TypeOK /\ [Next]_vars => [\A j \in Jobs : Settled(j) => Stays(j)]_vars
  <2>. SUFFICES ASSUME TypeOK, Next, NEW j \in Jobs, Settled(j)
                PROVE  Stays(j)
    BY DEF vars
  <2>1. ASSUME NEW k \in Jobs, RequestStep(k) PROVE Stays(j)
    BY <2>1, RequestLeavesSettled DEF EditsMadeBy
  <2>2. ASSUME NEW k \in Jobs, Age(k) PROVE Stays(j)
    BY <2>2 DEF Age, Settled, JobOf, EditsMadeBy
  <2>3. ASSUME NEW h \in Handlers, HandlerStep(h) PROVE Stays(j)
    BY <2>3, HandlerLeavesSettled
  <2>4. ASSUME NEW g \in Toggles, ToggleStep(g) PROVE Stays(j)
    BY <2>4 DEF ToggleStep, ToggleLoad, ToggleSave, ToggleFails, tables, Settled, JobOf,
       EditsMadeBy
  <2>5. ASSUME NEW c \in Courses, CourseGone(c) PROVE Stays(j)
    <3>1. rows'[j] \in {rows[j], [rows[j] EXCEPT !.course = NoCourse]}
      BY <2>5, DeletionTakesTheCourse DEF CourseGone
    <3>2. rows'[j].status = rows[j].status
      BY <2>5, DeletionKeepsTheStatus DEF CourseGone, TypeOK
    <3>3. Settled(j)' /\ UNCHANGED <<chats, edits>>
      BY <2>5, <3>2 DEF CourseGone, Settled, JobOf
    <3>. QED
      BY <3>1, <3>3 DEF EditsMadeBy
  <2>6. CASE WorkerStep
    BY <2>6, WorkerLeavesSettled DEF EditsMadeBy
  <2>7. CASE PythonStep
    BY <2>7, PythonLeavesSettled DEF EditsMadeBy
  <2>8. CASE Cleanup
    <3>1. rows'[j] = rows[j] /\ (cron'.pc = "save" => cron'.job # j)
      BY <2>8, CronLeavesTheFinished DEF Cleanup, TypeOK, CronStates, Settled
    <3>. QED
      BY <2>8, <3>1 DEF Cleanup, Settled, JobOf, EditsMadeBy
  <2>9. CASE Crash
    BY <2>9, CrashLeavesSettled DEF EditsMadeBy
  <2>. QED
    BY <2>1, <2>2, <2>3, <2>4, <2>5, <2>6, <2>7, <2>8, <2>9 DEF Next
<1>. QED
  BY <1>1, TypeCorrect, PTL DEF Spec, SettledStays
=============================================================================
