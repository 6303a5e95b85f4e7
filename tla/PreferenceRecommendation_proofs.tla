------------------- MODULE PreferenceRecommendation_proofs -------------------
(***************************************************************************)
(* Theorems about PreferenceRecommendation, for every number of answers    *)
(* and of concurrent callbacks, every retry limit and every environment.   *)
(***************************************************************************)
EXTENDS PreferenceRecommendation, BullQueue_proofs, FiniteSetTheorems, TLAPS

-----------------------------------------------------------------------------
(* Type correctness                                                        *)

\* The status a save may leave in the row is one of the statuses.
LEMMA SaveRowType ==
  ASSUME rows \in [Answers -> Statuses \union {"ABSENT"}], NEW a \in Answers,
         NEW loaded, NEW status \in Statuses, SaveRow(a, loaded, status)
  PROVE  /\ rows' \in [Answers -> Statuses \union {"ABSENT"}]
         /\ rows'[a] = status \/ (status = loaded /\ rows'[a] = rows[a])
         /\ \A b \in Answers \ {a} : rows'[b] = rows[b]
<1>1. PICK s \in Saves(loaded, status, rows[a]) : rows' = [rows EXCEPT ![a] = s]
  BY DEF SaveRow
<1>2. s = status \/ (status = loaded /\ s = rows[a])
  BY <1>1 DEF Saves
<1>. QED
  BY <1>1, <1>2

LEMMA ExistingRow ==
  ASSUME TypeOK, NEW a \in Answers, Exists(a)
  PROVE  rows[a] \in Statuses
  BY DEF TypeOK, Exists

LEMMA EntryAnswer ==
  ASSUME TypeOK, NEW i \in DOMAIN queue
  PROVE  /\ queue[i] \in Entry
         /\ JobOf(i) \in Answers
         /\ queue[i].made \in Nat /\ queue[i].stalls \in Nat
         /\ i \in Nat \ {0}
<1>1. queue[i] \in Entry /\ i \in Nat \ {0}
  BY DEF TypeOK
<1>. QED
  BY <1>1 DEF Entry, EntryOf, EntryStates, JobOf

LEMMA AddAnswerType ==
  ASSUME TypeOK, NEW a \in Answers, Add(a)
  PROVE  /\ queue' \in Seq(Entry)
         /\ DOMAIN queue \subseteq DOMAIN queue'
         /\ \A i \in DOMAIN queue : queue'[i] = queue[i]
         /\ \E i \in DOMAIN queue' : queue'[i].data = a /\ queue'[i].state = "waiting"
<1>1. queue \in Seq(EntryOf(Answers))
  BY DEF TypeOK, Entry
<1>. QED
  BY <1>1, AddType DEF Entry

LEMMA SetAnswerType ==
  ASSUME TypeOK, NEW i \in DOMAIN queue, NEW state \in EntryStates,
         SetEntry(i, state)
  PROVE  queue' \in Seq(Entry) /\ DOMAIN queue' = DOMAIN queue
  BY SetEntryType DEF TypeOK, Entry

LEMMA RequestType ==
  ASSUME TypeOK, NEW a \in Answers, RequestStep(a)
  PROVE  TypeOK'
<1>. USE DEF TypeOK, tables, Statuses
<1>1. CASE RequestFind(a)
  BY <1>1 DEF RequestFind
<1>2. CASE RequestReplace(a)
  <2>1. NoRecs \in [saves : Nat, rows : Nat]
    BY DEF NoRecs
  <2>2. recs' \in [Answers -> [saves : Nat, rows : Nat]]
    BY <1>2, <2>1 DEF RequestReplace, Replace
  <2>3. /\ rows' \in [Answers -> Statuses \union {"ABSENT"}]
        /\ preference' \in SUBSET Answers
        /\ aged' \in SUBSET Answers
    BY <1>2 DEF RequestReplace, Replace
  <2>. QED
    BY <1>2, <2>2, <2>3 DEF RequestReplace
<1>3. CASE RequestReplaceFails(a)
  BY <1>3 DEF RequestReplaceFails
<1>8. CASE RequestInsertJobFails(a)
  BY <1>8 DEF RequestInsertJobFails
<1>9. CASE RequestSaveFailureFails(a)
  BY <1>9 DEF RequestSaveFailureFails
<1>4. CASE RequestInsertJob(a)
  BY <1>4 DEF RequestInsertJob
<1>5. CASE RequestEnqueue(a)
  BY <1>5, AddAnswerType DEF RequestEnqueue
<1>6. CASE RequestEnqueueFails(a)
  BY <1>6, AddAnswerType DEF RequestEnqueueFails
<1>7. CASE RequestSaveFailure(a)
  BY <1>7, SaveRowType DEF RequestSaveFailure
<1>. QED
  BY <1>1, <1>2, <1>3, <1>4, <1>5, <1>6, <1>7, <1>8, <1>9 DEF RequestStep

\* A worker that is not idle works on an entry of the queue; past "load" it
\* holds the status it loaded or wrote.
LEMMA WorkerFields ==
  ASSUME TypeOK
  PROVE  /\ worker.pc # "idle" => worker.entry \in DOMAIN queue
         /\ worker.pc \notin {"idle", "load"} =>
              worker \in [pc : {"save", "find", "post", "posted"},
                          entry : DOMAIN queue, row : Statuses]
<1>1. CASE worker = Idle
  BY <1>1 DEF Idle
<1>2. CASE worker \in [pc : {"load"}, entry : DOMAIN queue]
  BY <1>2
<1>3. CASE worker \in [pc : {"save", "find", "post", "posted"},
                       entry : DOMAIN queue, row : Statuses]
  BY <1>3
<1>. QED
  BY <1>1, <1>2, <1>3 DEF TypeOK

LEMMA WorkerType ==
  ASSUME TypeOK, WorkerStep
  PROVE  TypeOK'
<1>. USE DEF TypeOK, tables
<1>0. "active" \in EntryStates /\ "completed" \in EntryStates
  BY DEF EntryStates
<1>1. ASSUME NEW i \in DOMAIN queue, WorkerTake(i) PROVE TypeOK'
  <2>1. queue' \in Seq(Entry) /\ DOMAIN queue' = DOMAIN queue
    BY <1>0, <1>1, SetAnswerType DEF WorkerTake
  <2>. QED
    BY <1>1, <2>1 DEF WorkerTake
<1>2. CASE WorkerLoad
  <2>1. worker.entry \in DOMAIN queue
    BY <1>2, WorkerFields DEF WorkerLoad
  <2>2. rows[JobOf(worker.entry)] \in Statuses
    BY <1>2, <2>1, EntryAnswer, ExistingRow DEF WorkerLoad
  <2>. QED
    BY <1>2, <2>1, <2>2 DEF WorkerLoad
<1>3. CASE WorkerDrop \/ WorkerAck
  <2>1. worker.entry \in DOMAIN queue
    BY <1>3, WorkerFields DEF WorkerDrop, WorkerAck
  <2>2. queue' \in Seq(Entry) /\ DOMAIN queue' = DOMAIN queue
    BY <1>0, <1>3, <2>1, SetAnswerType DEF WorkerDrop, WorkerAck
  <2>. QED
    BY <1>3, <2>2 DEF WorkerDrop, WorkerAck
<1>4. CASE WorkerSaveProcessing
  <2>1. worker \in [pc : {"save", "find", "post", "posted"},
                    entry : DOMAIN queue, row : Statuses]
    BY <1>4, WorkerFields DEF WorkerSaveProcessing
  <2>2. JobOf(worker.entry) \in Answers /\ "PROCESSING" \in Statuses
    BY <2>1, EntryAnswer DEF Statuses
  <2>3. rows' \in [Answers -> Statuses \union {"ABSENT"}]
    BY <1>4, <2>2, SaveRowType DEF WorkerSaveProcessing
  <2>4. worker' \in [pc : {"save", "find", "post", "posted"},
                     entry : DOMAIN queue, row : Statuses]
    BY <1>4, <2>1, <2>2 DEF WorkerSaveProcessing
  <2>. QED
    BY <1>4, <2>3, <2>4 DEF WorkerSaveProcessing
<1>5. CASE WorkerFindPreference
  BY <1>5, WorkerFields DEF WorkerFindPreference
<1>6. CASE WorkerPost
  <2>1. worker \in [pc : {"save", "find", "post", "posted"},
                    entry : DOMAIN queue, row : Statuses]
    BY <1>6, WorkerFields DEF WorkerPost
  <2>2. [entry |-> worker.entry,
         run |-> queue[worker.entry].made + queue[worker.entry].stalls] \in Task
    BY <2>1, EntryAnswer DEF Task
  <2>3. tasks' \in SUBSET Task /\ \A t \in tasks' : t.entry \in DOMAIN queue
    BY <1>6, <2>1, <2>2 DEF WorkerPost
  <2>4. worker' \in [pc : {"save", "find", "post", "posted"},
                     entry : DOMAIN queue, row : Statuses]
    BY <1>6, <2>1 DEF WorkerPost
  <2>. QED
    BY <1>6, <2>3, <2>4 DEF WorkerPost
<1>7. CASE WorkerThrow
  <2>1. worker.entry \in DOMAIN queue
    BY <1>7, WorkerFields DEF WorkerThrow, WorkerCanThrow
  <2>2. queue' \in Seq(Entry) /\ DOMAIN queue' = DOMAIN queue
    BY <1>7, <2>1, ThrowType DEF WorkerThrow, Entry
  <2>. QED
    BY <1>7, <2>2 DEF WorkerThrow
<1>. QED
  BY <1>1, <1>2, <1>3, <1>4, <1>5, <1>6, <1>7 DEF WorkerStep

\* A callback handler that is at work holds the status it loaded.
LEMMA HandlerFields ==
  ASSUME TypeOK, NEW h \in Handlers, handler[h].pc # "idle"
  PROVE  handler[h] \in [pc : {"recs", "mark", "fail"}, job : Answers, row : Statuses]
  BY DEF TypeOK, Idle

LEMMA HandlerType ==
  ASSUME TypeOK, NEW h \in Handlers, HandlerStep(h)
  PROVE  TypeOK'
<1>. USE DEF TypeOK, tables
<1>1. ASSUME NEW offered \in Offers, SaveRecommendations(h, offered) PROVE TypeOK'
  <2>. DEFINE kept == IF offered > MaxSaved THEN MaxSaved ELSE offered
  <2>1. handler[h] \in [pc : {"recs", "mark", "fail"}, job : Answers, row : Statuses]
    BY <1>1, HandlerFields DEF SaveRecommendations
  <2>2. kept \in Nat
    BY RecommendationAssumption
  <2>. HIDE DEF kept
  <2>3. recs' = [recs EXCEPT ![handler[h].job] =
                   [saves |-> @.saves + 1, rows |-> @.rows + kept]]
    BY <1>1 DEF SaveRecommendations, kept
  <2>4. recs' \in [Answers -> [saves : Nat, rows : Nat]]
    BY <2>1, <2>2, <2>3
  <2>5. [handler[h] EXCEPT !.pc = "mark"] \in
          [pc : {"recs", "mark", "fail"}, job : Answers, row : Statuses]
    BY <2>1
  <2>. QED
    BY <1>1, <2>4, <2>5 DEF SaveRecommendations
<1>2. CASE SaveSuccess(h) \/ SaveFailure(h)
  <2>1. handler[h].job \in Answers
    BY <1>2, HandlerFields DEF SaveSuccess, SaveFailure
  <2>2. rows' \in [Answers -> Statuses \union {"ABSENT"}]
    BY <1>2, <2>1, SaveRowType DEF SaveSuccess, SaveFailure, Statuses
  <2>. QED
    BY <1>2, <2>2 DEF SaveSuccess, SaveFailure
<1>3. CASE HandlerThrow(h)
  BY <1>3 DEF HandlerThrow
<1>. QED
  BY <1>1, <1>2, <1>3 DEF HandlerStep

LEMMA PythonType ==
  ASSUME TypeOK, PythonStep
  PROVE  TypeOK'
<1>. USE DEF TypeOK, tables
<1>1. ASSUME NEW t \in tasks,
             CallbackLost(t) \/ CallbackIgnored(t) \/ FailureIgnored(t)
      PROVE  TypeOK'
  BY <1>1 DEF CallbackLost, CallbackIgnored, FailureIgnored, Receive
<1>2. ASSUME NEW t \in tasks, NEW h \in Handlers,
             NEW pc \in {"recs", "fail"}, CallbackBegin(h, t, pc)
      PROVE  TypeOK'
  <2>. DEFINE a == JobOf(t.entry)
  <2>1. a \in Answers
    BY EntryAnswer
  <2>2. rows[a] \in Statuses
    BY <1>2, <2>1, ExistingRow DEF CallbackBegin
  <2>. HIDE DEF a
  <2>3. handler' = [handler EXCEPT ![h] = [pc |-> pc, job |-> a, row |-> rows[a]]]
    BY <1>2 DEF CallbackBegin, a
  <2>4. handler' \in [Handlers -> {Idle} \union
          [pc : {"recs", "mark", "fail"}, job : Answers, row : Statuses]]
    BY <2>1, <2>2, <2>3
  <2>. QED
    BY <1>2, <2>4 DEF CallbackBegin, Receive
<1>. QED
  BY <1>1, <1>2 DEF PythonStep, SuccessBegin, FailureBegin

CronStates ==
  {Idle} \union [pc : {"next"}, todo : SUBSET Answers]
    \union [pc : {"save"}, todo : SUBSET Answers, job : Answers, row : Statuses]

LEMMA CronFields ==
  ASSUME TypeOK
  PROVE  /\ cron.pc = "next" => cron \in [pc : {"next"}, todo : SUBSET Answers]
         /\ cron.pc = "save" =>
              cron \in [pc : {"save"}, todo : SUBSET Answers, job : Answers, row : Statuses]
  BY DEF TypeOK, Idle

LEMMA CronType ==
  ASSUME TypeOK, Cleanup
  PROVE  TypeOK'
<1>1. CASE CronScan
  BY <1>1 DEF CronScan, StaleJobs, Cleanup, TypeOK
<1>2. CASE CronEnd
  BY <1>2 DEF CronEnd, Cleanup, TypeOK
<1>3. ASSUME NEW a \in Answers, CronReread(a) PROVE TypeOK'
  <2>1. cron' \in CronStates
    BY <1>3, CronFields DEF CronReread, CronStates, Statuses
  <2>. QED
    BY <1>3, <2>1 DEF CronReread, Cleanup, TypeOK, CronStates
<1>4. ASSUME NEW a \in Answers, CronSkip(a) PROVE TypeOK'
  <2>1. cron' \in CronStates
    BY <1>4, CronFields DEF CronSkip, CronStates
  <2>. QED
    BY <1>4, <2>1 DEF CronSkip, Cleanup, TypeOK, CronStates
<1>5. CASE CronSaveTimeout
  <2>1. cron \in [pc : {"save"}, todo : SUBSET Answers, job : Answers, row : Statuses]
    BY <1>5, CronFields DEF CronSaveTimeout
  <2>2. rows' \in [Answers -> Statuses \union {"ABSENT"}]
    BY <1>5, <2>1, SaveRowType DEF CronSaveTimeout, TypeOK, Statuses
  <2>. QED
    BY <1>5, <2>1, <2>2 DEF CronSaveTimeout, Cleanup, TypeOK
<1>. QED
  BY <1>1, <1>2, <1>3, <1>4, <1>5 DEF Cleanup

LEMMA CrashType ==
  ASSUME TypeOK, Crash
  PROVE  TypeOK'
<1>1. queue' \in Seq(Entry) /\ DOMAIN queue' = DOMAIN queue
  BY StallType DEF TypeOK, Crash, Entry
<1>2. request' \in [Answers -> [pc : {"new", "stored", "saved", "addFailed", "done"}]
         \union [pc : {"found"}, seen : SUBSET Answers]]
  BY DEF TypeOK, Crash
<1>. QED
  BY <1>1, <1>2 DEF TypeOK, Crash, tables

\* Every state of every instance is well-typed: the rows of the tables, the
\* statuses that the code in flight holds, what is in the queue, and the tasks,
\* which all name an entry of the queue.
THEOREM TypeCorrect == Spec => []TypeOK
<1>1. Init => TypeOK
  BY DEF Init, TypeOK, NoRecs
<1>2. TypeOK /\ [Next]_vars => TypeOK'
  <2>. SUFFICES ASSUME TypeOK, [Next]_vars
                PROVE  TypeOK'
    OBVIOUS
  <2>1. ASSUME NEW a \in Answers, RequestStep(a) PROVE TypeOK'
    BY <2>1, RequestType
  <2>2. ASSUME NEW a \in Answers, Age(a) PROVE TypeOK'
    BY <2>2 DEF Age, TypeOK
  <2>3. ASSUME NEW h \in Handlers, HandlerStep(h) PROVE TypeOK'
    BY <2>3, HandlerType
  <2>4. CASE WorkerStep
    BY <2>4, WorkerType
  <2>5. CASE PythonStep
    BY <2>5, PythonType
  <2>6. CASE Cleanup
    BY <2>6, CronType
  <2>7. CASE Crash
    BY <2>7, CrashType
  <2>8. CASE UNCHANGED vars
    BY <2>8 DEF vars, TypeOK
  <2>. QED
    BY <2>1, <2>2, <2>3, <2>4, <2>5, <2>6, <2>7, <2>8 DEF Next
<1>. QED
  BY <1>1, <1>2, PTL DEF Spec
-----------------------------------------------------------------------------
(* SUCCESS means the recommendations are saved                             *)

\* The job of answer a has not been inserted yet.
Fresh(a) == request[a].pc \in {"new", "found", "stored"}

FreshIsAbsent == \A a \in Answers : Fresh(a) => rows[a] = "ABSENT"

\* Once this holds of a job it holds for ever: a row that is deleted does not
\* come back, and what was saved goes only with the row.
Answered(a) == ~Fresh(a) /\ (rows[a] = "ABSENT" \/ recs[a].saves > 0)

\* A callback that is about to mark its job has saved what it was sent.
MarksAnswered ==
  \A h \in Handlers : handler[h].pc = "mark" => Answered(handler[h].job)

SuccessInv == SuccessHasRecommendations /\ FreshIsAbsent /\ MarksAnswered

\* A step keeps SuccessInv if what was answered stays so, and only answered
\* jobs become SUCCESS and are about to be marked.
LEMMA StillAnswered ==
  ASSUME TypeOK, TypeOK', SuccessInv, FreshIsAbsent',
         \A a \in Answers : Answered(a) => Answered(a)',
         \A a \in Answers : rows'[a] = "SUCCESS" =>
           rows[a] = "SUCCESS" \/ Answered(a)',
         \A h \in Handlers : handler'[h].pc = "mark" =>
           \/ handler'[h] = handler[h]
           \/ \E a \in Answers : handler'[h].job = a /\ Answered(a)'
  PROVE  SuccessInv'
<1>1. \A a \in Answers : rows[a] = "SUCCESS" => Answered(a)
  BY DEF SuccessInv, SuccessHasRecommendations, FreshIsAbsent, Answered
<1>2. SuccessHasRecommendations'
  BY <1>1 DEF SuccessHasRecommendations, Answered
<1>3. \A h \in Handlers : handler[h].pc = "mark" => handler[h].job \in Answers
  BY HandlerFields
<1>4. ASSUME NEW h \in Handlers, handler'[h].pc = "mark"
      PROVE  \E a \in Answers : handler'[h].job = a /\ Answered(a)'
  BY <1>3, <1>4 DEF SuccessInv, MarksAnswered
<1>5. MarksAnswered'
  BY <1>4 DEF MarksAnswered, Answered, Fresh
<1>. QED
  BY <1>2, <1>5 DEF SuccessInv

\* A save leaves a row where there was one and changes no other; unless it
\* writes SUCCESS, no job becomes SUCCESS.
LEMMA SaveKeepsAnswered ==
  ASSUME TypeOK, FreshIsAbsent, NEW a \in Answers, Exists(a), NEW loaded,
         NEW status \in Statuses, SaveRow(a, loaded, status),
         UNCHANGED recs, \A b \in Answers : ~Fresh(b) => ~Fresh(b)'
  PROVE  /\ FreshIsAbsent'
         /\ \A b \in Answers : Answered(b) => Answered(b)'
         /\ status # "SUCCESS" =>
              \A b \in Answers : rows'[b] = "SUCCESS" => rows[b] = "SUCCESS"
<1>1. /\ rows'[a] = status \/ (status = loaded /\ rows'[a] = rows[a])
      /\ \A b \in Answers \ {a} : rows'[b] = rows[b]
  BY SaveRowType DEF TypeOK
<1>2. ~Fresh(a) /\ rows[a] # "ABSENT"
  BY DEF FreshIsAbsent, Exists
<1>3. ASSUME NEW b \in Answers PROVE Answered(b) => Answered(b)'
  BY <1>1, <1>2 DEF Answered
<1>4. ASSUME NEW b \in Answers PROVE Fresh(b)' => rows'[b] = "ABSENT"
  BY <1>1, <1>2 DEF FreshIsAbsent
<1>. QED
  BY <1>1, <1>3, <1>4 DEF FreshIsAbsent

\* A step of an answer's request moves no other request, and never back to
\* where the job is yet to be inserted.
LEMMA RequestMoves ==
  ASSUME TypeOK, NEW a \in Answers, RequestStep(a)
  PROVE  \A b \in Answers : ~Fresh(b) => ~Fresh(b)'
<1>. USE DEF Fresh
<1>1. CASE RequestFind(a) \/ RequestReplace(a)
  BY <1>1 DEF RequestFind, RequestReplace, TypeOK
<1>2. CASE request' = [request EXCEPT ![a] = [pc |-> "saved"]]
  BY <1>2 DEF TypeOK
<1>3. CASE request' = [request EXCEPT ![a] = [pc |-> "addFailed"]]
  BY <1>3 DEF TypeOK
<1>4. CASE request' = [request EXCEPT ![a] = [pc |-> "done"]]
  BY <1>4 DEF TypeOK
<1>. QED
  BY <1>1, <1>2, <1>3, <1>4
  DEF RequestStep, RequestReplaceFails, RequestInsertJob, RequestInsertJobFails,
      RequestEnqueue, RequestEnqueueFails, RequestSaveFailure, RequestSaveFailureFails

LEMMA RequestSuccess ==
  ASSUME TypeOK, TypeOK', SuccessInv, NEW a \in Answers, RequestStep(a)
  PROVE  SuccessInv'
<1>0. FreshIsAbsent /\ UNCHANGED handler
  BY DEF SuccessInv, RequestStep, RequestFind, RequestReplace, RequestReplaceFails,
         RequestInsertJob, RequestInsertJobFails, RequestEnqueue, RequestEnqueueFails,
         RequestSaveFailure, RequestSaveFailureFails
<1>1. \A b \in Answers : ~Fresh(b) => ~Fresh(b)'
  BY RequestMoves
<1>2. CASE RequestReplace(a)
  <2>1. \A b \in Answers :
          /\ (rows'[b] = rows[b] /\ recs'[b] = recs[b]) \/ rows'[b] = "ABSENT"
          /\ rows[b] = "ABSENT" => rows'[b] = "ABSENT"
    BY <1>2 DEF RequestReplace, Replace
  <2>2. request'[a].pc = "stored" /\ request[a].pc = "found"
        /\ \A b \in Answers \ {a} : request'[b] = request[b]
    BY <1>2 DEF RequestReplace, TypeOK
  <2>3. FreshIsAbsent'
    BY <1>0, <2>1, <2>2 DEF FreshIsAbsent, Fresh
  <2>4. \A b \in Answers : Answered(b) => Answered(b)'
    BY <1>1, <2>1 DEF Answered
  <2>. QED
    BY <1>0, <2>1, <2>3, <2>4, StillAnswered
<1>3. CASE RequestInsertJob(a)
  <2>1. Fresh(a) /\ request'[a].pc = "saved" /\ rows'[a] = "PENDING"
        /\ \A b \in Answers \ {a} : rows'[b] = rows[b] /\ request'[b] = request[b]
    BY <1>3 DEF RequestInsertJob, Fresh, TypeOK
  <2>2. FreshIsAbsent'
    BY <1>0, <2>1 DEF FreshIsAbsent, Fresh
  <2>3. UNCHANGED recs
    BY <1>3 DEF RequestInsertJob
  <2>4. ASSUME NEW b \in Answers PROVE Answered(b) => Answered(b)'
    BY <1>1, <2>1, <2>3 DEF Answered
  <2>5. \A b \in Answers : rows'[b] = "SUCCESS" => rows[b] = "SUCCESS"
    BY <2>1
  <2>. QED
    BY <1>0, <2>2, <2>4, <2>5, StillAnswered
<1>4. CASE RequestSaveFailure(a)
  <2>1. /\ Exists(a) /\ SaveRow(a, "PENDING", "FAILED")
        /\ "FAILED" \in Statuses /\ UNCHANGED recs
    BY <1>4 DEF RequestSaveFailure, Statuses
  <2>. QED
    BY <1>0, <1>1, <2>1, SaveKeepsAnswered, StillAnswered
<1>5. CASE UNCHANGED <<rows, recs>>
  <2>1. FreshIsAbsent'
    <3>1. ASSUME NEW b \in Answers, Fresh(b)' PROVE rows[b] = "ABSENT"
      BY <1>0, <1>1, <3>1 DEF FreshIsAbsent
    <3>. QED
      BY <1>5, <3>1 DEF FreshIsAbsent
  <2>2. \A b \in Answers : Answered(b) => Answered(b)'
    BY <1>1, <1>5 DEF Answered
  <2>. QED
    BY <1>0, <1>5, <2>1, <2>2, StillAnswered
<1>. QED
  BY <1>2, <1>3, <1>4, <1>5
  DEF RequestStep, RequestFind, RequestReplaceFails, RequestInsertJobFails,
      RequestEnqueue, RequestEnqueueFails, RequestSaveFailureFails, tables

\* The steps of the others leave the requests alone.
LEMMA OtherSuccess ==
  ASSUME TypeOK, TypeOK', SuccessInv, UNCHANGED <<request, rows, recs>>,
         \A h \in Handlers : handler'[h].pc = "mark" => handler'[h] = handler[h]
  PROVE  SuccessInv'
<1>1. FreshIsAbsent'
  BY DEF SuccessInv, FreshIsAbsent, Fresh
<1>2. \A a \in Answers : Answered(a) => Answered(a)'
  BY DEF Answered, Fresh
<1>. QED
  BY <1>1, <1>2, StillAnswered

LEMMA SaveSuccessInv ==
  ASSUME TypeOK, TypeOK', SuccessInv, UNCHANGED <<request, recs>>,
         \A h \in Handlers : handler'[h].pc = "mark" => handler'[h] = handler[h],
         NEW a \in Answers, Exists(a), NEW loaded, NEW status \in Statuses,
         SaveRow(a, loaded, status), status = "SUCCESS" => Answered(a)
  PROVE  SuccessInv'
<1>1. \A b \in Answers : ~Fresh(b) => ~Fresh(b)'
  BY DEF Fresh
<1>2. /\ FreshIsAbsent'
      /\ \A b \in Answers : Answered(b) => Answered(b)'
      /\ status # "SUCCESS" =>
           \A b \in Answers : rows'[b] = "SUCCESS" => rows[b] = "SUCCESS"
  BY <1>1, SaveKeepsAnswered DEF SuccessInv
<1>3. \A b \in Answers \ {a} : rows'[b] = rows[b]
  BY SaveRowType DEF TypeOK
<1>. QED
  BY <1>2, <1>3, StillAnswered

LEMMA HandlerSuccess ==
  ASSUME TypeOK, TypeOK', SuccessInv, NEW h \in Handlers, HandlerStep(h)
  PROVE  SuccessInv'
<1>0. \A g \in Handlers \ {h} : handler'[g] = handler[g]
  <2>1. CASE \E offered \in Offers : SaveRecommendations(h, offered)
    BY <2>1 DEF SaveRecommendations, TypeOK
  <2>2. CASE handler' = [handler EXCEPT ![h] = Idle]
    BY <2>2 DEF TypeOK
  <2>. QED
    BY <2>1, <2>2 DEF HandlerStep, SaveSuccess, SaveFailure, HandlerThrow
<1>1. ASSUME NEW offered \in Offers, SaveRecommendations(h, offered) PROVE SuccessInv'
  <2>1. PICK a \in Answers : a = handler[h].job
    BY <1>1, HandlerFields DEF SaveRecommendations
  <2>2. /\ UNCHANGED <<rows, request>>
        /\ Exists(a)
        /\ handler'[h].job = a
    BY <1>1, <2>1 DEF SaveRecommendations, TypeOK
  <2>3. recs'[a].saves = recs[a].saves + 1 /\ recs[a].saves \in Nat
        /\ \A b \in Answers \ {a} : recs'[b] = recs[b]
    BY <1>1, <2>1 DEF SaveRecommendations, TypeOK
  <2>4. FreshIsAbsent' /\ ~Fresh(a)
    BY <2>1, <2>2 DEF SuccessInv, FreshIsAbsent, Fresh, Exists
  <2>5. ~Fresh(a)' /\ recs'[a].saves > 0
    BY <2>2, <2>3, <2>4 DEF Fresh
  <2>6. Answered(a)'
    BY <2>5 DEF Answered
  <2>7. ASSUME NEW b \in Answers PROVE Answered(b) => Answered(b)'
    BY <2>2, <2>3, <2>6 DEF Answered, Fresh
  <2>. QED
    BY <1>0, <2>2, <2>4, <2>6, <2>7, StillAnswered
<1>2. CASE SaveSuccess(h)
  <2>1. handler[h].job \in Answers /\ "SUCCESS" \in Statuses
    BY <1>2, HandlerFields DEF SaveSuccess, Statuses
  <2>2. Answered(handler[h].job)
    BY <1>2 DEF SaveSuccess, SuccessInv, MarksAnswered
  <2>3. handler'[h].pc # "mark"
    BY <1>2 DEF SaveSuccess, TypeOK, Idle
  <2>4. /\ Exists(handler[h].job)
        /\ SaveRow(handler[h].job, handler[h].row, "SUCCESS")
        /\ UNCHANGED <<request, recs>>
    BY <1>2 DEF SaveSuccess
  <2>. QED
    BY <1>0, <2>1, <2>2, <2>3, <2>4, SaveSuccessInv
<1>3. CASE SaveFailure(h)
  <2>1. handler[h].job \in Answers /\ "FAILED" \in Statuses
    BY <1>3, HandlerFields DEF SaveFailure, Statuses
  <2>3. handler'[h].pc # "mark"
    BY <1>3 DEF SaveFailure, TypeOK, Idle
  <2>4. /\ Exists(handler[h].job)
        /\ SaveRow(handler[h].job, handler[h].row, "FAILED")
        /\ UNCHANGED <<request, recs>>
    BY <1>3 DEF SaveFailure
  <2>. QED
    BY <1>0, <2>1, <2>3, <2>4, SaveSuccessInv
<1>4. CASE HandlerThrow(h)
  <2>1. handler'[h].pc # "mark" /\ UNCHANGED <<request, rows, recs>>
    BY <1>4 DEF HandlerThrow, TypeOK, Idle, tables
  <2>. QED
    BY <1>0, <2>1, OtherSuccess
<1>. QED
  BY <1>1, <1>2, <1>3, <1>4 DEF HandlerStep

LEMMA WorkerSuccess ==
  ASSUME TypeOK, TypeOK', SuccessInv, WorkerStep
  PROVE  SuccessInv'
<1>1. CASE WorkerSaveProcessing
  <2>. DEFINE a == JobOf(worker.entry)
  <2>1. a \in Answers /\ "PROCESSING" \in Statuses
    BY <1>1, WorkerFields, EntryAnswer DEF WorkerSaveProcessing, Statuses
  <2>2. /\ Exists(a) /\ SaveRow(a, worker.row, "PROCESSING")
        /\ UNCHANGED <<request, recs, handler>>
    BY <1>1 DEF WorkerSaveProcessing
  <2>. QED
    BY <2>1, <2>2, SaveSuccessInv
<1>2. CASE UNCHANGED <<request, rows, recs, handler>>
  BY <1>2, OtherSuccess
<1>. QED
  BY <1>1, <1>2
  DEF WorkerStep, WorkerTake, WorkerLoad, WorkerDrop, WorkerFindPreference, WorkerPost,
      WorkerAck, WorkerThrow, tables

LEMMA PythonSuccess ==
  ASSUME TypeOK, TypeOK', SuccessInv, PythonStep
  PROVE  SuccessInv'
<1>1. ASSUME NEW h \in Handlers, NEW t \in tasks, NEW pc \in {"recs", "fail"},
             CallbackBegin(h, t, pc)
      PROVE  SuccessInv'
  <2>1. \A g \in Handlers : handler'[g].pc = "mark" => handler'[g] = handler[g]
    BY <1>1 DEF CallbackBegin, TypeOK
  <2>. QED
    BY <1>1, <2>1, OtherSuccess DEF CallbackBegin, tables
<1>2. CASE UNCHANGED <<request, rows, recs, handler>>
  BY <1>2, OtherSuccess
<1>. QED
  BY <1>1, <1>2
  DEF PythonStep, SuccessBegin, FailureBegin, CallbackLost, CallbackIgnored,
      FailureIgnored, tables

LEMMA CronSuccess ==
  ASSUME TypeOK, TypeOK', SuccessInv, Cleanup
  PROVE  SuccessInv'
<1>0. UNCHANGED <<request, recs, handler>>
  BY DEF Cleanup
<1>1. CASE CronSaveTimeout
  <2>1. cron.job \in Answers /\ "FAILED" \in Statuses
    BY <1>1, CronFields DEF CronSaveTimeout, Statuses
  <2>2. Exists(cron.job) /\ SaveRow(cron.job, cron.row, "FAILED")
    BY <1>1 DEF CronSaveTimeout
  <2>. QED
    BY <1>0, <2>1, <2>2, SaveSuccessInv
<1>2. CASE UNCHANGED rows
  BY <1>0, <1>2, OtherSuccess
<1>. QED
  BY <1>1, <1>2 DEF Cleanup, CronScan, CronReread, CronSkip, CronEnd

LEMMA CrashSuccess ==
  ASSUME TypeOK, TypeOK', SuccessInv, Crash
  PROVE  SuccessInv'
<1>1. ASSUME NEW a \in Answers
      PROVE  /\ ~Fresh(a) => ~Fresh(a)'
             /\ Fresh(a)' => Fresh(a)
  BY DEF Crash, Fresh, TypeOK
<1>2. UNCHANGED <<rows, recs>> /\ \A h \in Handlers : handler'[h].pc # "mark"
  BY DEF Crash, tables, Idle
<1>3. FreshIsAbsent'
  BY <1>1, <1>2 DEF SuccessInv, FreshIsAbsent
<1>4. \A a \in Answers : Answered(a) => Answered(a)'
  BY <1>1, <1>2 DEF Answered
<1>. QED
  BY <1>2, <1>3, <1>4, StillAnswered

\* No step separates SUCCESS from its recommendations.
LEMMA SuccessGoesOn ==
  ASSUME TypeOK, TypeOK', SuccessInv, [Next]_vars
  PROVE  SuccessInv'
<1>1. ASSUME NEW a \in Answers, RequestStep(a) PROVE SuccessInv'
  BY <1>1, RequestSuccess
<1>2. ASSUME NEW a \in Answers, Age(a) PROVE SuccessInv'
  BY <1>2, OtherSuccess DEF Age
<1>3. ASSUME NEW h \in Handlers, HandlerStep(h) PROVE SuccessInv'
  BY <1>3, HandlerSuccess
<1>4. CASE WorkerStep
  BY <1>4, WorkerSuccess
<1>5. CASE PythonStep
  BY <1>5, PythonSuccess
<1>6. CASE Cleanup
  BY <1>6, CronSuccess
<1>7. CASE Crash
  BY <1>7, CrashSuccess
<1>8. CASE UNCHANGED vars
  BY <1>8, OtherSuccess DEF vars
<1>. QED
  BY <1>1, <1>2, <1>3, <1>4, <1>5, <1>6, <1>7, <1>8 DEF Next

\* A job that reports SUCCESS to the polling client has its recommendations,
\* whatever answers, callbacks, timeouts, retries and crashes fall in between.
THEOREM SuccessCorrect == Spec => []SuccessHasRecommendations
<1>1. Init => SuccessInv
  BY DEF Init, SuccessInv, SuccessHasRecommendations, FreshIsAbsent, MarksAnswered, Idle
<1>2. TypeOK /\ TypeOK' /\ SuccessInv /\ [Next]_vars => SuccessInv'
  BY SuccessGoesOn
<1>. QED
  BY <1>1, <1>2, TypeCorrect, PTL DEF Spec, SuccessInv

-----------------------------------------------------------------------------
(* Only the latest answer is in the tables                                 *)

\* A save finds the row, so its answer is the user's preference.
LEMMA SaveKeepsLatest ==
  ASSUME TypeOK, OnlyTheLatestAnswerCounts, UNCHANGED <<preference, recs>>,
         NEW a \in Answers, Exists(a), NEW loaded, NEW status \in Statuses,
         SaveRow(a, loaded, status)
  PROVE  OnlyTheLatestAnswerCounts'
<1>1. \A b \in Answers \ {a} : rows'[b] = rows[b]
  BY SaveRowType DEF TypeOK
<1>2. a \in preference
  BY DEF OnlyTheLatestAnswerCounts, Exists
<1>. QED
  BY <1>1, <1>2 DEF OnlyTheLatestAnswerCounts

LEMMA RequestLatest ==
  ASSUME TypeOK, OnlyTheLatestAnswerCounts, NEW a \in Answers, RequestStep(a)
  PROVE  OnlyTheLatestAnswerCounts'
<1>. USE DEF OnlyTheLatestAnswerCounts
<1>1. CASE RequestReplace(a)
  <2>1. /\ preference' = {a}
        /\ \A b \in Answers :
             /\ rows'[b] = IF b \in preference THEN "ABSENT" ELSE rows[b]
             /\ recs'[b] = IF b \in preference THEN NoRecs ELSE recs[b]
    BY <1>1 DEF RequestReplace, Replace
  <2>2. Cardinality({a}) = 1
    BY FS_Singleton
  <2>. QED
    BY <2>1, <2>2
<1>2. CASE RequestInsertJob(a)
  BY <1>2 DEF RequestInsertJob, TypeOK
<1>3. CASE RequestSaveFailure(a)
  <2>1. /\ Exists(a) /\ SaveRow(a, "PENDING", "FAILED") /\ "FAILED" \in Statuses
        /\ UNCHANGED <<preference, recs>>
    BY <1>3 DEF RequestSaveFailure, Statuses
  <2>. QED
    BY <2>1, SaveKeepsLatest
<1>4. CASE UNCHANGED <<preference, rows, recs>>
  BY <1>4
<1>. QED
  BY <1>1, <1>2, <1>3, <1>4
  DEF RequestStep, RequestFind, RequestReplaceFails, RequestInsertJobFails,
      RequestEnqueue, RequestEnqueueFails, RequestSaveFailureFails, tables

LEMMA HandlerLatest ==
  ASSUME TypeOK, OnlyTheLatestAnswerCounts, NEW h \in Handlers, HandlerStep(h)
  PROVE  OnlyTheLatestAnswerCounts'
<1>1. ASSUME NEW offered \in Offers, SaveRecommendations(h, offered)
      PROVE  OnlyTheLatestAnswerCounts'
  <2>1. handler[h].job \in Answers
    BY <1>1, HandlerFields DEF SaveRecommendations
  <2>2. UNCHANGED <<preference, rows>> /\ Exists(handler[h].job)
        /\ \A b \in Answers \ {handler[h].job} : recs'[b] = recs[b]
    BY <1>1, <2>1 DEF SaveRecommendations, TypeOK
  <2>. QED
    BY <2>1, <2>2 DEF OnlyTheLatestAnswerCounts, Exists
<1>2. CASE SaveSuccess(h)
  <2>1. handler[h].job \in Answers /\ "SUCCESS" \in Statuses
    BY <1>2, HandlerFields DEF SaveSuccess, Statuses
  <2>2. /\ Exists(handler[h].job)
        /\ SaveRow(handler[h].job, handler[h].row, "SUCCESS")
        /\ UNCHANGED <<preference, recs>>
    BY <1>2 DEF SaveSuccess
  <2>. QED
    BY <2>1, <2>2, SaveKeepsLatest
<1>3. CASE SaveFailure(h)
  <2>1. handler[h].job \in Answers /\ "FAILED" \in Statuses
    BY <1>3, HandlerFields DEF SaveFailure, Statuses
  <2>2. /\ Exists(handler[h].job)
        /\ SaveRow(handler[h].job, handler[h].row, "FAILED")
        /\ UNCHANGED <<preference, recs>>
    BY <1>3 DEF SaveFailure
  <2>. QED
    BY <2>1, <2>2, SaveKeepsLatest
<1>4. CASE HandlerThrow(h)
  BY <1>4 DEF HandlerThrow, OnlyTheLatestAnswerCounts, tables
<1>. QED
  BY <1>1, <1>2, <1>3, <1>4 DEF HandlerStep

LEMMA WorkerLatest ==
  ASSUME TypeOK, OnlyTheLatestAnswerCounts, WorkerStep
  PROVE  OnlyTheLatestAnswerCounts'
<1>1. CASE WorkerSaveProcessing
  <2>1. JobOf(worker.entry) \in Answers /\ "PROCESSING" \in Statuses
    BY <1>1, WorkerFields, EntryAnswer DEF WorkerSaveProcessing, Statuses
  <2>2. /\ Exists(JobOf(worker.entry))
        /\ SaveRow(JobOf(worker.entry), worker.row, "PROCESSING")
        /\ UNCHANGED <<preference, recs>>
    BY <1>1 DEF WorkerSaveProcessing
  <2>. QED
    BY <2>1, <2>2, SaveKeepsLatest
<1>2. CASE UNCHANGED <<preference, rows, recs>>
  BY <1>2 DEF OnlyTheLatestAnswerCounts
<1>. QED
  BY <1>1, <1>2
  DEF WorkerStep, WorkerTake, WorkerLoad, WorkerDrop, WorkerFindPreference, WorkerPost,
      WorkerAck, WorkerThrow, tables

LEMMA CronLatest ==
  ASSUME TypeOK, OnlyTheLatestAnswerCounts, Cleanup
  PROVE  OnlyTheLatestAnswerCounts'
<1>0. UNCHANGED <<preference, recs>>
  BY DEF Cleanup
<1>1. CASE CronSaveTimeout
  <2>1. cron.job \in Answers /\ "FAILED" \in Statuses
    BY <1>1, CronFields DEF CronSaveTimeout, Statuses
  <2>2. Exists(cron.job) /\ SaveRow(cron.job, cron.row, "FAILED")
    BY <1>1 DEF CronSaveTimeout
  <2>. QED
    BY <1>0, <2>1, <2>2, SaveKeepsLatest
<1>2. CASE UNCHANGED rows
  BY <1>0, <1>2 DEF OnlyTheLatestAnswerCounts
<1>. QED
  BY <1>1, <1>2 DEF Cleanup, CronScan, CronReread, CronSkip, CronEnd

\* No step brings back what belongs to a replaced answer.
LEMMA LatestGoesOn ==
  ASSUME TypeOK, OnlyTheLatestAnswerCounts, [Next]_vars
  PROVE  OnlyTheLatestAnswerCounts'
<1>1. ASSUME NEW a \in Answers, RequestStep(a) PROVE OnlyTheLatestAnswerCounts'
  BY <1>1, RequestLatest
<1>2. ASSUME NEW h \in Handlers, HandlerStep(h) PROVE OnlyTheLatestAnswerCounts'
  BY <1>2, HandlerLatest
<1>3. CASE WorkerStep
  BY <1>3, WorkerLatest
<1>4. CASE Cleanup
  BY <1>4, CronLatest
<1>5. CASE UNCHANGED <<preference, rows, recs>>
  BY <1>5 DEF OnlyTheLatestAnswerCounts
<1>. QED
  BY <1>1, <1>2, <1>3, <1>4, <1>5
  DEF Next, Age, Crash, PythonStep, SuccessBegin, FailureBegin, CallbackBegin,
      CallbackLost, CallbackIgnored, FailureIgnored, tables, vars

\* A user has at most one preference, and nothing in the tables belongs to an
\* answer that was replaced, however its worker, its callbacks and the cron go
\* on after the cascade.
THEOREM LatestCorrect == Spec => []OnlyTheLatestAnswerCounts
<1>1. Init => OnlyTheLatestAnswerCounts
  <2>1. Cardinality({}) = 0
    BY FS_EmptySet
  <2>. QED
    BY <2>1 DEF Init, OnlyTheLatestAnswerCounts
<1>2. TypeOK /\ OnlyTheLatestAnswerCounts /\ [Next]_vars => OnlyTheLatestAnswerCounts'
  BY LatestGoesOn
<1>. QED
  BY <1>1, <1>2, TypeCorrect, PTL DEF Spec

-----------------------------------------------------------------------------
(* A PENDING job is in the queue, while the database and the process hold  *)

\* The worker's own entry is the active one, so its end is not the end of
\* another job's only entry; and a row it loaded past PENDING stays past it, so
\* that its save cannot leave a PENDING job behind.
WorkerHolds ==
  /\ worker.pc # "idle" => queue[worker.entry].state # "waiting"
  /\ worker.pc = "save" =>
       /\ ~Fresh(JobOf(worker.entry))
       /\ rows[JobOf(worker.entry)] = "PENDING" => worker.row = "PENDING"

QueueInv == PendingIsQueued /\ FreshIsAbsent /\ WorkerHolds

\* No status but a change of the row's own is written over it: a save makes no
\* job PENDING.
LEMMA SaveMakesNonePending ==
  ASSUME TypeOK, NEW a \in Answers, NEW loaded,
         NEW status \in Statuses \ {"PENDING"}, SaveRow(a, loaded, status)
  PROVE  \A b \in Answers : rows'[b] = "PENDING" => rows[b] = "PENDING"
  BY SaveRowType DEF TypeOK

\* A step keeps PENDING jobs queued if it makes none PENDING, and of each that
\* stays PENDING the entry or the request.
LEMMA StillQueued ==
  ASSUME PendingIsQueued, UNCHANGED faults,
         \A a \in Answers : Dependable /\ rows'[a] = "PENDING" =>
           /\ rows[a] = "PENDING"
           /\ request[a].pc \in {"saved", "addFailed"} =>
                request'[a].pc \in {"saved", "addFailed"} \/ Queued(a)'
           /\ Queued(a) => Queued(a)'
  PROVE  PendingIsQueued'
  BY DEF PendingIsQueued, Dependable

\* The steps that do not touch the queue, the worker and the requests.
LEMMA OtherQueue ==
  ASSUME TypeOK, QueueInv, UNCHANGED <<faults, queue, worker, request>>,
         \A a \in Answers : rows'[a] = "PENDING" => rows[a] = "PENDING",
         \A a \in Answers : rows[a] = "ABSENT" => rows'[a] = "ABSENT"
  PROVE  QueueInv'
<1>1. \A a \in Answers : Queued(a) => Queued(a)'
  BY DEF Queued, JobOf
<1>2. PendingIsQueued'
  BY <1>1, StillQueued DEF QueueInv
<1>3. FreshIsAbsent'
  BY DEF QueueInv, FreshIsAbsent, Fresh
<1>4. worker.pc = "save" => JobOf(worker.entry) \in Answers
  BY WorkerFields, EntryAnswer
<1>5. WorkerHolds'
  BY <1>4 DEF QueueInv, WorkerHolds, Fresh, JobOf
<1>. QED
  BY <1>2, <1>3, <1>5 DEF QueueInv

\* A request only adds entries, so whatever was queued stays so and the worker
\* keeps what it holds.
LEMMA RequestKeeps ==
  ASSUME TypeOK, QueueInv, NEW a \in Answers, RequestStep(a)
  PROVE  /\ UNCHANGED <<faults, worker>>
         /\ \A b \in Answers : Queued(b) => Queued(b)'
         /\ \A b \in Answers \ {a} : request'[b] = request[b]
<1>1. /\ DOMAIN queue \subseteq DOMAIN queue'
      /\ \A i \in DOMAIN queue : queue'[i] = queue[i]
  BY AddAnswerType
  DEF RequestStep, RequestFind, RequestReplace, RequestReplaceFails,
      RequestInsertJob, RequestInsertJobFails, RequestEnqueue, RequestEnqueueFails,
      RequestSaveFailure, RequestSaveFailureFails
<1>2. /\ UNCHANGED <<faults, worker>>
      /\ \E r : request' = [request EXCEPT ![a] = r]
  BY DEF RequestStep, RequestFind, RequestReplace, RequestReplaceFails,
         RequestInsertJob, RequestInsertJobFails, RequestEnqueue, RequestEnqueueFails,
         RequestSaveFailure, RequestSaveFailureFails, tables
<1>3. \A b \in Answers : Queued(b) => Queued(b)'
  BY <1>1, <1>2 DEF Queued, JobOf
<1>. QED
  BY <1>2, <1>3 DEF TypeOK

LEMMA RequestWorkerHolds ==
  ASSUME TypeOK, QueueInv, NEW a \in Answers, RequestStep(a),
         \A b \in Answers : rows'[b] = "PENDING" => rows[b] = "PENDING" \/ Fresh(b)
  PROVE  WorkerHolds'
<1>1. /\ DOMAIN queue \subseteq DOMAIN queue'
      /\ \A i \in DOMAIN queue : queue'[i] = queue[i]
  BY AddAnswerType
  DEF RequestStep, RequestFind, RequestReplace, RequestReplaceFails,
      RequestInsertJob, RequestInsertJobFails, RequestEnqueue, RequestEnqueueFails,
      RequestSaveFailure, RequestSaveFailureFails
<1>2. /\ worker.pc # "idle" => worker.entry \in DOMAIN queue
      /\ worker.pc = "save" => JobOf(worker.entry) \in Answers
  BY WorkerFields, EntryAnswer
<1>3. UNCHANGED worker /\ \A b \in Answers : ~Fresh(b) => ~Fresh(b)'
  BY RequestKeeps, RequestMoves
<1>4. worker'.pc # "idle" => queue'[worker'.entry].state # "waiting"
  BY <1>1, <1>2, <1>3 DEF QueueInv, WorkerHolds
<1>5. ASSUME worker.pc = "save"
      PROVE  \E b \in Answers : /\ b = JobOf(worker.entry) /\ b = JobOf(worker.entry)'
                                /\ ~Fresh(b) /\ ~Fresh(b)'
                                /\ rows'[b] = "PENDING" => worker.row = "PENDING"
  BY <1>1, <1>2, <1>3, <1>5 DEF QueueInv, WorkerHolds, JobOf
<1>. QED
  BY <1>3, <1>4, <1>5 DEF WorkerHolds, Fresh

LEMMA RequestQueue ==
  ASSUME TypeOK, QueueInv, NEW a \in Answers, RequestStep(a)
  PROVE  QueueInv'
<1>0. /\ FreshIsAbsent /\ PendingIsQueued /\ UNCHANGED <<faults, worker>>
      /\ \A b \in Answers : Queued(b) => Queued(b)'
      /\ \A b \in Answers \ {a} : request'[b] = request[b]
      /\ \A b \in Answers : ~Fresh(b) => ~Fresh(b)'
  BY RequestKeeps, RequestMoves DEF QueueInv
<1>1. ASSUME \A b \in Answers : rows'[b] = "PENDING" => rows[b] = "PENDING" \/ Fresh(b),
             \A b \in Answers \ {a} : rows'[b] \in {rows[b], "ABSENT"},
             Dependable /\ rows'[a] = "PENDING" =>
               request'[a].pc \in {"saved", "addFailed"} \/ Queued(a)',
             Fresh(a)' => rows'[a] = "ABSENT"
      PROVE  QueueInv'
  <2>1. PendingIsQueued'
    <3>1. ASSUME NEW b \in Answers, Dependable, rows'[b] = "PENDING"
          PROVE  request'[b].pc \in {"saved", "addFailed"} \/ Queued(b)'
      BY <1>0, <1>1, <3>1 DEF PendingIsQueued
    <3>. QED
      BY <1>0, <3>1 DEF PendingIsQueued, Dependable
  <2>2. FreshIsAbsent'
    <3>1. ASSUME NEW b \in Answers, Fresh(b)' PROVE rows'[b] = "ABSENT"
      BY <1>0, <1>1, <3>1 DEF FreshIsAbsent
    <3>. QED
      BY <3>1 DEF FreshIsAbsent
  <2>. QED
    BY <1>1, <2>1, <2>2, RequestWorkerHolds DEF QueueInv
<1>2. CASE RequestFind(a) \/ RequestReplaceFails(a) \/ RequestInsertJobFails(a)
  <2>1. UNCHANGED rows /\ Fresh(a)
    BY <1>2 DEF RequestFind, RequestReplaceFails, RequestInsertJobFails, tables, Fresh
  <2>. QED
    BY <1>0, <1>1, <2>1 DEF FreshIsAbsent
<1>3. CASE RequestReplace(a)
  <2>1. /\ \A b \in Answers : rows'[b] \in {rows[b], "ABSENT"}
        /\ Fresh(a)
    BY <1>3 DEF RequestReplace, Replace, Fresh
  <2>. QED
    BY <1>0, <1>1, <2>1 DEF FreshIsAbsent
<1>4. CASE RequestInsertJob(a)
  <2>1. /\ Fresh(a) /\ request'[a].pc = "saved"
        /\ \A b \in Answers \ {a} : rows'[b] = rows[b]
    BY <1>4 DEF RequestInsertJob, Fresh, TypeOK
  <2>. QED
    BY <1>1, <2>1 DEF Fresh
<1>5. CASE RequestEnqueue(a)
  <2>1. UNCHANGED rows /\ ~Fresh(a) /\ Add(a)
    BY <1>5 DEF RequestEnqueue, tables, Fresh
  <2>2. Queued(a)'
    BY <2>1, AddAnswerType DEF Queued, JobOf
  <2>. QED
    BY <1>0, <1>1, <2>1, <2>2
<1>6. CASE RequestEnqueueFails(a)
  <2>1. UNCHANGED rows /\ ~Fresh(a) /\ request'[a].pc = "addFailed"
    BY <1>6 DEF RequestEnqueueFails, tables, Fresh, TypeOK
  <2>. QED
    BY <1>0, <1>1, <2>1
<1>7. CASE RequestSaveFailure(a)
  <2>1. rows'[a] = "FAILED" /\ \A b \in Answers \ {a} : rows'[b] = rows[b]
    BY <1>7, SaveRowType DEF RequestSaveFailure, Statuses, TypeOK
  <2>2. ~Fresh(a)
    BY <1>7 DEF RequestSaveFailure, Fresh
  <2>. QED
    BY <1>0, <1>1, <2>1, <2>2
<1>8. CASE RequestSaveFailureFails(a)
  <2>1. UNCHANGED rows /\ ~Fresh(a) /\ (Dependable => rows[a] = "ABSENT")
    BY <1>8 DEF RequestSaveFailureFails, SaveThrows, Exists, Dependable, tables, Fresh
  <2>. QED
    BY <1>0, <1>1, <2>1
<1>. QED
  BY <1>2, <1>3, <1>4, <1>5, <1>6, <1>7, <1>8 DEF RequestStep

\* The worker's steps change its own entry only, and no request.
LEMMA WorkerKeeps ==
  ASSUME TypeOK, WorkerStep, worker.pc # "idle"
  PROVE  \A i \in DOMAIN queue :
           /\ i \in DOMAIN queue'
           /\ JobOf(i)' = JobOf(i)
           /\ i # worker.entry => queue'[i] = queue[i]
<1>1. worker.entry \in DOMAIN queue
  BY WorkerFields
<1>2. \/ UNCHANGED queue
      \/ SetEntry(worker.entry, "completed")
      \/ queue' = [queue EXCEPT ![worker.entry] = TriedAgain(queue[worker.entry])]
  BY DEF WorkerStep, WorkerTake, WorkerLoad, WorkerDrop, WorkerSaveProcessing,
         WorkerFindPreference, WorkerPost, WorkerAck, WorkerThrow, Idle
<1>3. TriedAgain(queue[worker.entry]).data = queue[worker.entry].data
  BY <1>1, EntryAnswer, EntryChanges DEF Entry
<1>4. CASE SetEntry(worker.entry, "completed")
  BY <1>1, <1>4 DEF SetEntry, JobOf, TypeOK
<1>5. CASE queue' = [queue EXCEPT ![worker.entry] = TriedAgain(queue[worker.entry])]
  BY <1>1, <1>3, <1>5 DEF JobOf, TypeOK
<1>. QED
  BY <1>2, <1>4, <1>5 DEF JobOf

\* A worker that goes on or lets go of its entry keeps the queue's invariant, if
\* its own job is not PENDING any more when it leaves "load" and "save".
LEMMA WorkerMovesOn ==
  ASSUME TypeOK, QueueInv, WorkerStep, worker.pc # "idle",
         UNCHANGED <<faults, request>>,
         worker' = Idle \/ (worker'.pc \in {"save", "find", "post", "posted"}
                            /\ worker'.entry = worker.entry /\ UNCHANGED queue),
         \A a \in Answers : rows'[a] = "PENDING" => rows[a] = "PENDING",
         \A a \in Answers : rows[a] = "ABSENT" => rows'[a] = "ABSENT",
         Dependable /\ worker.pc \in {"load", "save"} /\ worker'.pc # "save" =>
           rows'[JobOf(worker.entry)] # "PENDING",
         worker'.pc = "save" => /\ ~Fresh(JobOf(worker.entry))
                               /\ worker'.row = rows'[JobOf(worker.entry)]
  PROVE  QueueInv'
<1>1. /\ worker.entry \in DOMAIN queue
      /\ JobOf(worker.entry) \in Answers
      /\ queue[worker.entry].state # "waiting"
  BY WorkerFields, EntryAnswer DEF QueueInv, WorkerHolds
<1>2. FreshIsAbsent'
  BY DEF QueueInv, FreshIsAbsent, Fresh
<1>3. ASSUME NEW a \in Answers, Dependable, rows'[a] = "PENDING"
      PROVE  request'[a].pc \in {"saved", "addFailed"} \/ Queued(a)'
  <2>1. CASE request[a].pc \in {"saved", "addFailed"}
    BY <2>1
  <2>2. CASE Queued(a)
    <3>1. PICK i \in DOMAIN queue :
            /\ JobOf(i) = a
            /\ \/ queue[i].state = "waiting"
               \/ worker.pc \in {"load", "save"} /\ worker.entry = i
      BY <2>2 DEF Queued
    <3>2. CASE i # worker.entry
      BY <3>1, <3>2, WorkerKeeps DEF Queued
    <3>3. CASE i = worker.entry
      <4>1. worker.pc \in {"load", "save"} /\ worker'.pc = "save"
        BY <1>1, <1>3, <3>1, <3>3
      <4>2. worker'.entry = i /\ UNCHANGED queue
        BY <3>3, <4>1 DEF Idle
      <4>. QED
        BY <3>1, <4>1, <4>2 DEF Queued, JobOf
    <3>. QED
      BY <3>2, <3>3
  <2>. QED
    BY <1>3, <2>1, <2>2 DEF QueueInv, PendingIsQueued
<1>4. PendingIsQueued'
  BY <1>3 DEF PendingIsQueued, Dependable
<1>5. WorkerHolds'
  <2>1. CASE worker' = Idle
    BY <2>1 DEF WorkerHolds, Idle
  <2>2. CASE worker'.entry = worker.entry /\ UNCHANGED queue
    BY <1>1, <2>2 DEF WorkerHolds, Fresh, JobOf
  <2>. QED
    BY <2>1, <2>2
<1>. QED
  BY <1>2, <1>4, <1>5 DEF QueueInv

LEMMA WorkerQueue ==
  ASSUME TypeOK, QueueInv, WorkerStep
  PROVE  QueueInv'
<1>. DEFINE a == JobOf(worker.entry)
<1>0. worker.pc # "idle" => worker.entry \in DOMAIN queue /\ a \in Answers
  BY WorkerFields, EntryAnswer
<1>1. ASSUME NEW i \in DOMAIN queue, WorkerTake(i) PROVE QueueInv'
  <2>0. queue' = [queue EXCEPT ![i] = [queue[i] EXCEPT !.state = "active"]]
        /\ queue[i] \in Entry
    BY <1>1, EntryAnswer DEF WorkerTake, SetEntry
  <2>7. [queue[i] EXCEPT !.state = "active"].state = "active"
         /\ [queue[i] EXCEPT !.state = "active"].data = queue[i].data
    BY <2>0 DEF Entry, EntryOf
  <2>1. /\ worker = Idle /\ worker' = [pc |-> "load", entry |-> i]
        /\ UNCHANGED <<faults, rows, request>>
        /\ DOMAIN queue' = DOMAIN queue
        /\ queue'[i].state = "active"
        /\ JobOf(i)' = JobOf(i)
        /\ \A k \in DOMAIN queue : k # i => queue'[k] = queue[k]
    BY <1>1, <2>0, <2>7 DEF WorkerTake, JobOf, TypeOK, tables
  <2>2. \A b \in Answers : Queued(b) => Queued(b)'
    BY <2>1 DEF Queued, JobOf, Idle
  <2>3. PendingIsQueued'
    BY <2>1, <2>2, StillQueued DEF QueueInv
  <2>4. FreshIsAbsent' /\ WorkerHolds'
    BY <2>1 DEF QueueInv, FreshIsAbsent, Fresh, WorkerHolds
  <2>. QED
    BY <2>3, <2>4 DEF QueueInv
<1>2. CASE WorkerLoad
  <2>1. /\ worker.pc = "load" /\ rows[a] # "ABSENT" /\ UNCHANGED <<faults, request, rows, queue>>
        /\ worker'.pc = "save" /\ worker'.entry = worker.entry /\ worker'.row = rows[a]
    BY <1>2 DEF WorkerLoad, Exists, tables
  <2>2. ~Fresh(a)
    BY <1>0, <2>1 DEF QueueInv, FreshIsAbsent
  <2>. QED
    BY <2>1, <2>2, WorkerMovesOn
<1>3. CASE WorkerDrop
  <2>1. /\ worker.pc = "load" /\ rows[a] = "ABSENT" /\ UNCHANGED <<faults, request, rows>>
        /\ worker' = Idle
    BY <1>3 DEF WorkerDrop, Exists, tables
  <2>. QED
    BY <2>1, WorkerMovesOn DEF Idle
<1>4. CASE WorkerSaveProcessing
  <2>1. /\ worker.pc = "save" /\ SaveRow(a, worker.row, "PROCESSING") /\ Exists(a)
        /\ UNCHANGED <<faults, request, queue>>
    BY <1>4 DEF WorkerSaveProcessing
  <2>2. worker'.pc = "find" /\ worker'.entry = worker.entry
    BY <2>1, <1>4, WorkerFields DEF WorkerSaveProcessing
  <2>3. /\ rows'[a] = "PROCESSING" \/ ("PROCESSING" = worker.row /\ rows'[a] = rows[a])
        /\ \A b \in Answers \ {a} : rows'[b] = rows[b]
    BY <1>0, <2>1, SaveRowType DEF TypeOK, Statuses
  <2>4. rows'[a] # "PENDING"
    BY <2>1, <2>3 DEF QueueInv, WorkerHolds
  <2>. QED
    BY <2>1, <2>2, <2>3, <2>4, WorkerMovesOn DEF Exists
<1>5. CASE WorkerFindPreference \/ WorkerPost
  <2>1. /\ worker.pc \in {"find", "post"} /\ UNCHANGED <<faults, request, rows, queue>>
        /\ worker'.pc \in {"post", "posted"} /\ worker'.entry = worker.entry
    BY <1>5, WorkerFields DEF WorkerFindPreference, WorkerPost, tables
  <2>. QED
    BY <2>1, WorkerMovesOn
<1>6. CASE WorkerAck
  <2>1. /\ worker.pc = "posted" /\ UNCHANGED <<faults, request, rows>> /\ worker' = Idle
    BY <1>6 DEF WorkerAck, tables
  <2>. QED
    BY <2>1, WorkerMovesOn DEF Idle
<1>7. CASE WorkerThrow
  <2>1. /\ worker.pc # "idle" /\ UNCHANGED <<faults, request, rows>> /\ worker' = Idle
        /\ Dependable /\ worker.pc \in {"load", "save"} => rows[a] = "ABSENT"
    BY <1>7 DEF WorkerThrow, WorkerCanThrow, SaveThrows, Exists, Dependable, tables
  <2>. QED
    BY <2>1, WorkerMovesOn DEF Idle
<1>. QED
  BY <1>1, <1>2, <1>3, <1>4, <1>5, <1>6, <1>7 DEF WorkerStep

LEMMA HandlerQueue ==
  ASSUME TypeOK, QueueInv, NEW h \in Handlers, HandlerStep(h)
  PROVE  QueueInv'
<1>0. UNCHANGED <<faults, queue, worker, request>>
  BY DEF HandlerStep, SaveRecommendations, SaveSuccess, SaveFailure, HandlerThrow, tables
<1>1. ASSUME NEW status \in {"SUCCESS", "FAILED"}, handler[h].job \in Answers,
             Exists(handler[h].job),
             SaveRow(handler[h].job, handler[h].row, status)
      PROVE  QueueInv'
  <2>1. status \in Statuses
    BY DEF Statuses
  <2>2. \A b \in Answers \ {handler[h].job} : rows'[b] = rows[b]
    BY <1>1, <2>1, SaveRowType DEF TypeOK
  <2>3. \A b \in Answers : rows'[b] = "PENDING" => rows[b] = "PENDING"
    BY <1>1, <2>1, SaveMakesNonePending
  <2>. QED
    BY <1>0, <1>1, <2>2, <2>3, OtherQueue DEF Exists
<1>2. CASE SaveSuccess(h) \/ SaveFailure(h)
  BY <1>1, <1>2, HandlerFields DEF SaveSuccess, SaveFailure
<1>3. CASE UNCHANGED rows
  BY <1>0, <1>3, OtherQueue
<1>. QED
  BY <1>2, <1>3 DEF HandlerStep, SaveRecommendations, HandlerThrow, tables

LEMMA CronQueue ==
  ASSUME TypeOK, QueueInv, Cleanup
  PROVE  QueueInv'
<1>0. UNCHANGED <<faults, queue, worker, request>>
  BY DEF Cleanup
<1>1. CASE CronSaveTimeout
  <2>1. cron.job \in Answers /\ "FAILED" \in Statuses /\ "FAILED" # "PENDING"
    BY <1>1, CronFields DEF CronSaveTimeout, Statuses
  <2>2. Exists(cron.job) /\ SaveRow(cron.job, cron.row, "FAILED")
    BY <1>1 DEF CronSaveTimeout
  <2>3. \A b \in Answers \ {cron.job} : rows'[b] = rows[b]
    BY <2>1, <2>2, SaveRowType DEF TypeOK
  <2>4. \A b \in Answers : rows'[b] = "PENDING" => rows[b] = "PENDING"
    BY <2>1, <2>2, SaveMakesNonePending
  <2>. QED
    BY <1>0, <2>2, <2>3, <2>4, OtherQueue DEF Exists
<1>2. CASE UNCHANGED rows
  BY <1>0, <1>2, OtherQueue
<1>. QED
  BY <1>1, <1>2 DEF Cleanup, CronScan, CronReread, CronSkip, CronEnd

LEMMA CrashQueue ==
  ASSUME TypeOK, QueueInv, Crash
  PROVE  QueueInv'
<1>1. UNCHANGED <<faults, rows>> /\ ~Dependable /\ worker' = Idle
  BY DEF Crash, Dependable, tables
<1>2. \A a \in Answers : Fresh(a)' => Fresh(a)
  BY DEF Crash, Fresh, TypeOK
<1>3. FreshIsAbsent'
  BY <1>1, <1>2 DEF QueueInv, FreshIsAbsent
<1>. QED
  BY <1>1, <1>3 DEF QueueInv, PendingIsQueued, WorkerHolds, Dependable, Idle

\* No step leaves a PENDING job behind.
LEMMA QueueGoesOn ==
  ASSUME TypeOK, QueueInv, [Next]_vars
  PROVE  QueueInv'
<1>1. ASSUME NEW a \in Answers, RequestStep(a) PROVE QueueInv'
  BY <1>1, RequestQueue
<1>2. ASSUME NEW h \in Handlers, HandlerStep(h) PROVE QueueInv'
  BY <1>2, HandlerQueue
<1>3. CASE WorkerStep
  BY <1>3, WorkerQueue
<1>4. CASE Cleanup
  BY <1>4, CronQueue
<1>5. CASE Crash
  BY <1>5, CrashQueue
<1>6. CASE UNCHANGED <<faults, rows, queue, worker, request>>
  BY <1>6, OtherQueue
<1>. QED
  BY <1>1, <1>2, <1>3, <1>4, <1>5, <1>6
  DEF Next, Age, PythonStep, SuccessBegin, FailureBegin, CallbackBegin,
      CallbackLost, CallbackIgnored, FailureIgnored, tables, vars

\* While the database answers, queue.add tells the truth and the process stays
\* up, a job that the client sees PENDING has an entry the worker has yet to
\* process, or a request that is still about to add one or mark the job failed.
THEOREM PendingCorrect == Spec => []PendingIsQueued
<1>1. Init => QueueInv
  BY DEF Init, QueueInv, PendingIsQueued, FreshIsAbsent, WorkerHolds, Idle
<1>2. TypeOK /\ QueueInv /\ [Next]_vars => QueueInv'
  BY QueueGoesOn
<1>. QED
  BY <1>1, <1>2, TypeCorrect, PTL DEF Spec, QueueInv

-----------------------------------------------------------------------------
(* The life of an answer.  Where nothing is repeated or slow, the work on  *)
(* an answer is in one place at a time: an entry the worker has yet to     *)
(* post, a task of Python, or a callback.                                  *)

\* Entries of a that have yet to be posted.
Unsent(a) ==
  {i \in DOMAIN queue :
     /\ JobOf(i) = a
     /\ \/ queue[i].state = "waiting"
        \/ worker.pc \in {"load", "save", "find", "post"} /\ worker.entry = i}

TasksFor(a) == {t \in tasks : JobOf(t.entry) = a}

CallbacksFor(a) == {h \in Handlers : handler[h].pc # "idle" /\ handler[h].job = a}

WorkOf(a) ==
  {<<"entry", i>> : i \in Unsent(a)}
    \union {<<"task", t>> : t \in TasksFor(a)}
    \union {<<"callback", h>> : h \in CallbacksFor(a)}

OnePieceOfWork ==
  \A a \in Answers :
    /\ \A v, w \in WorkOf(a) : v = w
    /\ request[a].pc # "done" => WorkOf(a) = {}

Unrecommended(a) == recs[a].saves = 0

WorkerAt(a) == worker.pc \in {"save", "find", "post"} /\ JobOf(worker.entry) = a

\* The status that goes with the place where the work on a is.
Stage(a) ==
  /\ request[a].pc \in {"saved", "addFailed"} =>
       rows[a] \in {"ABSENT", "PENDING"} /\ Unrecommended(a)
  /\ Unsent(a) # {} =>
       rows[a] \in {"ABSENT", "PENDING", "PROCESSING"} /\ Unrecommended(a)
  /\ WorkerAt(a) => rows[a] \in {"ABSENT", IF worker.pc = "save" THEN worker.row
                                                                 ELSE "PROCESSING"}
  /\ TasksFor(a) # {} => rows[a] \in {"ABSENT", "PROCESSING"} /\ Unrecommended(a)
  /\ \A h \in CallbacksFor(a) :
       /\ handler[h].row = "PROCESSING"
       /\ rows[a] \in {"ABSENT", "PROCESSING"}
       /\ handler[h].pc # "mark" => Unrecommended(a)

CronSleeps == aged = {} /\ cron = Idle

LifeInv == CronSleeps /\ OnePieceOfWork /\ \A a \in Answers : Stage(a)

\* A row that is not there has no recommendations.
AbsentHasNone == \A a \in Answers : rows[a] = "ABSENT" => Unrecommended(a)

\* What holds in every environment.
TableInv == SuccessInv /\ QueueInv /\ OnlyTheLatestAnswerCounts /\ AbsentHasNone

\* Work that only becomes less stays in one place.
LEMMA WorkShrinks ==
  ASSUME OnePieceOfWork, NEW a \in Answers,
         Unsent(a)' \subseteq Unsent(a),
         TasksFor(a)' \subseteq TasksFor(a),
         CallbacksFor(a)' \subseteq CallbacksFor(a),
         request[a].pc = "done" => request'[a].pc = "done"
  PROVE  /\ \A v, w \in WorkOf(a)' : v = w
         /\ request'[a].pc # "done" => WorkOf(a)' = {}
<1>1. WorkOf(a)' \subseteq WorkOf(a)
  BY DEF WorkOf
<1>. QED
  BY <1>1 DEF OnePieceOfWork

\* Whose request is under way, nobody works for.
LEMMA NoWork ==
  ASSUME OnePieceOfWork, NEW a \in Answers, request[a].pc # "done"
  PROVE  Unsent(a) = {} /\ TasksFor(a) = {} /\ CallbacksFor(a) = {}
<1>1. WorkOf(a) = {}
  BY DEF OnePieceOfWork
<1>2. /\ \A i \in Unsent(a) : <<"entry", i>> \in WorkOf(a)
      /\ \A t \in TasksFor(a) : <<"task", t>> \in WorkOf(a)
      /\ \A h \in CallbacksFor(a) : <<"callback", h>> \in WorkOf(a)
  BY DEF WorkOf
<1>. QED
  BY <1>1, <1>2

\* An entry, a task or a callback excludes every other.
LEMMA OnlyWork ==
  ASSUME OnePieceOfWork, NEW a \in Answers
  PROVE  /\ \A i \in Unsent(a) : Unsent(a) = {i} /\ TasksFor(a) = {} /\ CallbacksFor(a) = {}
         /\ \A t \in TasksFor(a) : Unsent(a) = {} /\ TasksFor(a) = {t} /\ CallbacksFor(a) = {}
         /\ \A h \in CallbacksFor(a) : Unsent(a) = {} /\ TasksFor(a) = {} /\ CallbacksFor(a) = {h}
         /\ Unsent(a) # {} \/ TasksFor(a) # {} \/ CallbacksFor(a) # {} => request[a].pc = "done"
<1>1. /\ \A i \in Unsent(a) : <<"entry", i>> \in WorkOf(a)
      /\ \A t \in TasksFor(a) : <<"task", t>> \in WorkOf(a)
      /\ \A h \in CallbacksFor(a) : <<"callback", h>> \in WorkOf(a)
  BY DEF WorkOf
<1>2. \A v, w \in WorkOf(a) : v = w
  BY DEF OnePieceOfWork
<1>3. \A x, y : <<"entry", x>> # <<"task", y>> /\ <<"entry", x>> # <<"callback", y>>
                /\ <<"task", x>> # <<"callback", y>>
  OBVIOUS
<1>4. \A i, k \in Unsent(a) : i = k
  <2>. SUFFICES ASSUME NEW i \in Unsent(a), NEW k \in Unsent(a) PROVE i = k
    OBVIOUS
  <2>1. <<"entry", i>> = <<"entry", k>>
    BY <1>1, <1>2
  <2>. QED
    BY <2>1
<1>5. \A t, u \in TasksFor(a) : t = u
  <2>. SUFFICES ASSUME NEW t \in TasksFor(a), NEW u \in TasksFor(a) PROVE t = u
    OBVIOUS
  <2>1. <<"task", t>> = <<"task", u>>
    BY <1>1, <1>2
  <2>. QED
    BY <2>1
<1>6. \A g, h \in CallbacksFor(a) : g = h
  <2>. SUFFICES ASSUME NEW g \in CallbacksFor(a), NEW h \in CallbacksFor(a) PROVE g = h
    OBVIOUS
  <2>1. <<"callback", g>> = <<"callback", h>>
    BY <1>1, <1>2
  <2>. QED
    BY <2>1
<1>7. /\ \A i \in Unsent(a) : TasksFor(a) = {} /\ CallbacksFor(a) = {}
      /\ \A t \in TasksFor(a) : CallbacksFor(a) = {}
  BY <1>1, <1>2, <1>3
<1>8. Unsent(a) # {} \/ TasksFor(a) # {} \/ CallbacksFor(a) # {} => request[a].pc = "done"
  BY NoWork
<1>. QED
  BY <1>4, <1>5, <1>6, <1>7, <1>8

\* Work in one place, put together again.
LEMMA WorkInOnePlace ==
  ASSUME NEW a \in Answers,
         \/ Unsent(a) = {} /\ TasksFor(a) = {} /\ CallbacksFor(a) = {}
         \/ /\ request[a].pc = "done"
            /\ \/ TasksFor(a) = {} /\ CallbacksFor(a) = {} /\ \E i : Unsent(a) = {i}
               \/ Unsent(a) = {} /\ CallbacksFor(a) = {} /\ \E t : TasksFor(a) = {t}
               \/ Unsent(a) = {} /\ TasksFor(a) = {} /\ \E h : CallbacksFor(a) = {h}
  PROVE  /\ \A v, w \in WorkOf(a) : v = w
         /\ request[a].pc # "done" => WorkOf(a) = {}
  BY DEF WorkOf

\* Of an answer that a step takes nothing further, the stage stays.
LEMMA StageStays ==
  ASSUME NEW a \in Answers, Stage(a),
         Unsent(a)' \subseteq Unsent(a),
         TasksFor(a)' \subseteq TasksFor(a),
         CallbacksFor(a)' \subseteq CallbacksFor(a),
         \A h \in CallbacksFor(a)' : handler'[h] = handler[h],
         request'[a].pc \in {"saved", "addFailed"} => request[a].pc \in {"saved", "addFailed"},
         WorkerAt(a)' => WorkerAt(a) /\ UNCHANGED worker,
         rows'[a] \in {rows[a], "ABSENT"},
         Unrecommended(a) => Unrecommended(a)'
  PROVE  Stage(a)'
  BY DEF Stage

\* Where queue, tasks, worker and callbacks stay, so does the work.
LEMMA SameWork ==
  ASSUME UNCHANGED <<queue, tasks, worker, handler>>, NEW a \in Answers
  PROVE  /\ Unsent(a)' = Unsent(a) /\ TasksFor(a)' = TasksFor(a)
         /\ CallbacksFor(a)' = CallbacksFor(a)
         /\ WorkerAt(a)' <=> WorkerAt(a)
  BY DEF Unsent, TasksFor, CallbacksFor, WorkerAt, JobOf

\* An added entry is the only change to the work, and it waits.
LEMMA AddedWork ==
  ASSUME TypeOK, NEW a \in Answers, Add(a), UNCHANGED <<tasks, worker, handler>>
  PROVE  /\ \A b \in Answers : /\ TasksFor(b)' = TasksFor(b)
                               /\ CallbacksFor(b)' = CallbacksFor(b)
                               /\ WorkerAt(b)' <=> WorkerAt(b)
         /\ \A b \in Answers \ {a} : Unsent(b)' = Unsent(b)
         /\ \E n : Unsent(a)' = Unsent(a) \union {n}
<1>. DEFINE n == Len(queue) + 1
<1>1. queue' = Append(queue, NewEntry(a)) /\ queue \in Seq(Entry)
  BY DEF Add, TypeOK
<1>2. /\ NewEntry(a).data = a /\ NewEntry(a).state = "waiting"
      /\ NewEntry(a) \in Entry
  BY DEF NewEntry, Entry, EntryOf, EntryStates
<1>3. /\ DOMAIN queue' = DOMAIN queue \union {n}
      /\ n \notin DOMAIN queue
      /\ queue'[n] = NewEntry(a)
      /\ \A i \in DOMAIN queue : queue'[i] = queue[i]
  BY <1>1, <1>2
<1>4. worker.pc # "idle" => worker.entry \in DOMAIN queue
  BY WorkerFields
<1>5. \A t \in tasks : t.entry \in DOMAIN queue
  BY DEF TypeOK
<1>. HIDE DEF n
<1>6. \A b \in Answers : /\ TasksFor(b)' = TasksFor(b)
                         /\ CallbacksFor(b)' = CallbacksFor(b)
                         /\ WorkerAt(b)' <=> WorkerAt(b)
  BY <1>3, <1>4, <1>5 DEF TasksFor, CallbacksFor, WorkerAt, JobOf
<1>7. \A b \in Answers \ {a} : Unsent(b)' = Unsent(b)
  BY <1>2, <1>3, <1>4 DEF Unsent, JobOf
<1>8. Unsent(a)' = Unsent(a) \union {n}
  BY <1>2, <1>3, <1>4 DEF Unsent, JobOf
<1>. QED
  BY <1>6, <1>7, <1>8

\* A request works alone on its answer until it has added the entry.
LEMMA RequestLife ==
  ASSUME TypeOK, TypeOK', TableInv, LifeInv, Orderly, NEW a \in Answers, RequestStep(a)
  PROVE  LifeInv'
<1>0. /\ UNCHANGED <<tasks, worker, handler, cron>>
      /\ request[a].pc # "done"
      /\ \A b \in Answers \ {a} : request'[b] = request[b]
  BY DEF RequestStep, RequestFind, RequestReplace, RequestReplaceFails, RequestInsertJob,
         RequestInsertJobFails, RequestEnqueue, RequestEnqueueFails, RequestSaveFailure,
         RequestSaveFailureFails, tables, TypeOK
<1>1. CronSleeps'
  <2>1. aged' \subseteq aged
    BY DEF RequestStep, RequestFind, RequestReplace, RequestReplaceFails, RequestInsertJob,
         RequestInsertJobFails, RequestEnqueue, RequestEnqueueFails, RequestSaveFailure,
         RequestSaveFailureFails, tables, Replace
  <2>. QED
    BY <1>0, <2>1 DEF LifeInv, CronSleeps
<1>2. Unsent(a) = {} /\ TasksFor(a) = {} /\ CallbacksFor(a) = {}
  BY <1>0, NoWork DEF LifeInv
<1>3. CASE UNCHANGED queue
  <2>1. \A b \in Answers :
          /\ Unsent(b)' = Unsent(b) /\ TasksFor(b)' = TasksFor(b)
          /\ CallbacksFor(b)' = CallbacksFor(b)
          /\ WorkerAt(b)' <=> WorkerAt(b)
    BY <1>0, <1>3, SameWork
  <2>2. OnePieceOfWork'
    <3>1. ASSUME NEW b \in Answers
          PROVE  /\ \A v, w \in WorkOf(b)' : v = w
                 /\ request'[b].pc # "done" => WorkOf(b)' = {}
      BY <1>0, <2>1, WorkShrinks DEF LifeInv
    <3>. QED
      BY <3>1 DEF OnePieceOfWork, WorkOf, Unsent, TasksFor, CallbacksFor
  <2>3. ASSUME NEW b \in Answers PROVE Stage(b)'
    <3>. WorkerAt(a) => FALSE
      BY <1>2, WorkerFields DEF WorkerAt, Unsent
    <3>0. Stage(b)
      BY DEF LifeInv
    <3>1. CASE RequestReplace(a)
      <4>1. /\ rows'[b] \in {rows[b], "ABSENT"}
            /\ recs'[b] \in {recs[b], NoRecs}
            /\ request'[a].pc = "stored"
        BY <3>1 DEF RequestReplace, Replace, TypeOK
      <4>2. Unrecommended(b) => Unrecommended(b)'
        BY <4>1 DEF Unrecommended, NoRecs
      <4>. QED
        BY <1>0, <2>1, <3>0, <4>1, <4>2, StageStays DEF CallbacksFor
    <3>2. CASE b = a /\ RequestInsertJob(a)
      <4>1. rows'[a] = "PENDING" /\ rows[a] = "ABSENT" /\ UNCHANGED recs
        BY <3>2 DEF RequestInsertJob, TableInv, SuccessInv, FreshIsAbsent, Fresh, TypeOK
      <4>2. Unrecommended(a)'
        BY <4>1 DEF TableInv, AbsentHasNone, Unrecommended
      <4>. QED
        BY <1>2, <2>1, <3>2, <4>1, <4>2 DEF Stage
    <3>3. CASE b = a /\ RequestSaveFailure(a)
      <4>1. request'[a].pc = "done"
        BY <3>3 DEF RequestSaveFailure, TypeOK
      <4>. QED
        BY <1>2, <2>1, <3>3, <4>1 DEF Stage
    <3>4. CASE b # a /\ (RequestInsertJob(a) \/ RequestSaveFailure(a))
      <4>1. rows'[b] = rows[b] /\ UNCHANGED recs
        BY <3>4, SaveRowType DEF RequestInsertJob, RequestSaveFailure, TypeOK, Statuses
      <4>. QED
        BY <1>0, <2>1, <3>0, <3>4, <4>1, StageStays DEF Unrecommended
    <3>5. CASE UNCHANGED <<rows, recs>> /\ ~ RequestInsertJob(a)
      <4>1. request'[a].pc \in {"saved", "addFailed"} => request[a].pc \in {"saved", "addFailed"}
        BY <3>5 DEF RequestStep, RequestFind, RequestReplace, RequestReplaceFails,
           RequestInsertJobFails, RequestEnqueue, RequestEnqueueFails, RequestSaveFailure,
           RequestSaveFailureFails, TypeOK
      <4>. QED
        BY <1>0, <2>1, <3>0, <3>5, <4>1, StageStays DEF Unrecommended
    <3>. QED
      BY <3>1, <3>2, <3>3, <3>4, <3>5
      DEF RequestStep, RequestFind, RequestReplaceFails, RequestInsertJobFails, RequestEnqueue,
          RequestEnqueueFails, RequestSaveFailureFails, tables
  <2>. QED
    BY <1>1, <2>2, <2>3 DEF LifeInv
<1>4. CASE Add(a) /\ RequestEnqueue(a)
  <2>1. /\ \A b \in Answers : /\ TasksFor(b)' = TasksFor(b)
                              /\ CallbacksFor(b)' = CallbacksFor(b)
                              /\ WorkerAt(b)' <=> WorkerAt(b)
        /\ \A b \in Answers \ {a} : Unsent(b)' = Unsent(b)
        /\ \E n : Unsent(a)' = Unsent(a) \union {n}
    BY <1>0, <1>4, AddedWork
  <2>2. request[a].pc = "saved" /\ request'[a].pc = "done" /\ UNCHANGED <<rows, recs>>
    BY <1>4 DEF RequestEnqueue, TypeOK, tables
  <2>3. OnePieceOfWork'
    <3>1. ASSUME NEW b \in Answers \ {a}
          PROVE  /\ \A v, w \in WorkOf(b)' : v = w
                 /\ request'[b].pc # "done" => WorkOf(b)' = {}
      BY <1>0, <2>1, WorkShrinks DEF LifeInv
    <3>2. /\ \A v, w \in WorkOf(a)' : v = w
          /\ request'[a].pc # "done" => WorkOf(a)' = {}
      BY <1>2, <2>1, <2>2 DEF WorkOf
    <3>. QED
      BY <3>1, <3>2 DEF OnePieceOfWork, WorkOf, Unsent, TasksFor, CallbacksFor
  <2>4. ASSUME NEW b \in Answers \ {a} PROVE Stage(b)'
    <3>0. Stage(b)
      BY DEF LifeInv
    <3>. QED
      BY <1>0, <2>1, <2>2, <3>0, StageStays DEF Unrecommended
  <2>5. Stage(a)'
    <3>1. rows[a] \in {"ABSENT", "PENDING"} /\ Unrecommended(a)
      BY <2>2 DEF LifeInv, Stage
    <3>2. ~ WorkerAt(a)
      BY <1>2, WorkerFields DEF WorkerAt, Unsent
    <3>3. Unrecommended(a)'
      BY <2>2, <3>1 DEF Unrecommended
    <3>. QED
      BY <1>2, <2>1, <2>2, <3>1, <3>2, <3>3 DEF Stage
  <2>. QED
    BY <1>1, <2>3, <2>4, <2>5 DEF LifeInv
<1>5. RequestEnqueue(a) => Add(a)
  BY DEF RequestEnqueue
<1>6. RequestEnqueueFails(a) => UNCHANGED queue
  BY DEF RequestEnqueueFails, Orderly
<1>. QED
  BY <1>3, <1>4, <1>5, <1>6
  DEF RequestStep, RequestFind, RequestReplace, RequestReplaceFails, RequestInsertJob,
      RequestInsertJobFails, RequestSaveFailure, RequestSaveFailureFails

\* A step that only makes the work less, and touches no row.
LEMMA LessWork ==
  ASSUME LifeInv, CronSleeps', UNCHANGED <<request, rows, recs>>,
         \A a \in Answers :
           /\ Unsent(a)' \subseteq Unsent(a)
           /\ TasksFor(a)' \subseteq TasksFor(a)
           /\ CallbacksFor(a)' \subseteq CallbacksFor(a)
           /\ \A h \in CallbacksFor(a)' : handler'[h] = handler[h]
           /\ WorkerAt(a)' => WorkerAt(a) /\ UNCHANGED worker
  PROVE  LifeInv'
<1>1. ASSUME NEW a \in Answers
      PROVE  /\ \A v, w \in WorkOf(a)' : v = w
             /\ request'[a].pc # "done" => WorkOf(a)' = {}
             /\ Stage(a)'
  <2>1. Stage(a)'
    BY StageStays DEF LifeInv, Unrecommended
  <2>. QED
    BY <2>1, WorkShrinks DEF LifeInv
<1>2. OnePieceOfWork'
  BY <1>1 DEF OnePieceOfWork, WorkOf, Unsent, TasksFor, CallbacksFor
<1>. QED
  BY <1>1, <1>2 DEF LifeInv

\* A step of the worker on its entry, which stays unsent: the others see nothing.
LEMMA WorkerGoesOn ==
  ASSUME TypeOK, LifeInv, UNCHANGED <<aged, request, recs, queue, tasks, handler, cron>>,
         worker.pc \in {"load", "save", "find"},
         worker'.pc \in {"save", "find", "post"}, worker'.entry = worker.entry,
         NEW a \in Answers, a = JobOf(worker.entry),
         \A b \in Answers \ {a} : rows'[b] = rows[b],
         rows'[a] \in {"ABSENT", "PENDING", "PROCESSING"},
         rows'[a] \in {"ABSENT", IF worker'.pc = "save" THEN worker'.row ELSE "PROCESSING"}
  PROVE  LifeInv'
<1>1. worker.entry \in Unsent(a)
  BY WorkerFields DEF Unsent
<1>2. \A b \in Answers : /\ Unsent(b)' = Unsent(b) /\ TasksFor(b)' = TasksFor(b)
                         /\ CallbacksFor(b)' = CallbacksFor(b)
                         /\ WorkerAt(b)' => b = a
  BY DEF Unsent, TasksFor, CallbacksFor, JobOf, WorkerAt
<1>3. OnePieceOfWork'
  <2>1. ASSUME NEW b \in Answers
        PROVE  /\ \A v, w \in WorkOf(b)' : v = w
               /\ request'[b].pc # "done" => WorkOf(b)' = {}
    BY <1>2, WorkShrinks DEF LifeInv
  <2>. QED
    BY <2>1 DEF OnePieceOfWork, WorkOf, Unsent, TasksFor, CallbacksFor
<1>4. ASSUME NEW b \in Answers \ {a} PROVE Stage(b)'
  BY <1>2, StageStays DEF LifeInv, Unrecommended, CallbacksFor
<1>5. Stage(a)'
  <2>1. TasksFor(a) = {} /\ CallbacksFor(a) = {} /\ request[a].pc = "done"
    BY <1>1, OnlyWork DEF LifeInv
  <2>2. Unrecommended(a) /\ (Unrecommended(a) => Unrecommended(a)')
    BY <1>1 DEF LifeInv, Stage, Unrecommended
  <2>. QED
    BY <1>2, <2>1, <2>2 DEF Stage
<1>. QED
  BY <1>3, <1>4, <1>5 DEF LifeInv, CronSleeps

\* A new state of one entry leaves the rest of the queue.
LEMMA StateIsSet ==
  ASSUME TypeOK, NEW i \in DOMAIN queue, NEW state, SetEntry(i, state)
  PROVE  /\ DOMAIN queue' = DOMAIN queue
         /\ \A k \in DOMAIN queue : queue'[k].data = queue[k].data
         /\ \A k \in DOMAIN queue \ {i} : queue'[k].state = queue[k].state
         /\ queue'[i].state = state
<1>1. \A k \in DOMAIN queue : queue[k] \in Entry
  BY EntryAnswer
<1>. QED
  BY <1>1 DEF SetEntry, Entry, EntryOf

\* The worker keeps the entry until Python has the task.
LEMMA WorkerLife ==
  ASSUME TypeOK, TypeOK', TableInv, LifeInv, Orderly, WorkerStep
  PROVE  LifeInv'
<1>0. CronSleeps'
  BY DEF LifeInv, CronSleeps, WorkerStep, WorkerTake, WorkerLoad, WorkerDrop,
         WorkerSaveProcessing, WorkerFindPreference, WorkerPost, WorkerAck, WorkerThrow, tables
<1>1. ASSUME NEW i \in DOMAIN queue, WorkerTake(i) PROVE LifeInv'
  <2>1. /\ DOMAIN queue' = DOMAIN queue
        /\ \A k \in DOMAIN queue : queue'[k].data = queue[k].data
        /\ \A k \in DOMAIN queue \ {i} : queue'[k].state = queue[k].state
        /\ queue'[i].state = "active"
    BY <1>1, StateIsSet DEF WorkerTake
  <2>2. /\ queue[i].state = "waiting"
        /\ worker.pc = "idle" /\ worker'.pc = "load" /\ worker'.entry = i
        /\ UNCHANGED <<request, rows, recs, tasks, handler>>
    BY <1>1 DEF WorkerTake, tables, Idle
  <2>3. \A t \in tasks : t.entry \in DOMAIN queue
    BY DEF TypeOK
  <2>4. ASSUME NEW a \in Answers
        PROVE  /\ Unsent(a)' \subseteq Unsent(a)
               /\ TasksFor(a)' \subseteq TasksFor(a)
               /\ CallbacksFor(a)' \subseteq CallbacksFor(a)
               /\ ~ WorkerAt(a)'
    BY <2>1, <2>2, <2>3 DEF Unsent, TasksFor, CallbacksFor, WorkerAt, JobOf
  <2>. QED
    BY <1>0, <2>2, <2>4, LessWork
<1>2. CASE WorkerLoad
  <2>1. PICK a \in Answers : a = JobOf(worker.entry)
    BY <1>2, WorkerFields, EntryAnswer DEF WorkerLoad
  <2>2. worker.entry \in Unsent(a)
    BY <1>2, <2>1, WorkerFields DEF Unsent, WorkerLoad
  <2>3. rows[a] \in {"ABSENT", "PENDING", "PROCESSING"}
    BY <2>2 DEF LifeInv, Stage
  <2>4. /\ worker.pc = "load" /\ worker'.pc = "save" /\ worker'.entry = worker.entry
        /\ worker'.row = rows[a]
        /\ UNCHANGED <<aged, rows, request, recs, queue, tasks, handler, cron>>
    BY <1>2, <2>1 DEF WorkerLoad, tables
  <2>. QED
    BY <2>1, <2>3, <2>4, WorkerGoesOn
<1>3. CASE WorkerSaveProcessing
  <2>1. PICK a \in Answers : a = JobOf(worker.entry)
    BY <1>3, WorkerFields, EntryAnswer DEF WorkerSaveProcessing
  <2>2. worker.entry \in Unsent(a) /\ WorkerAt(a)
    BY <1>3, <2>1, WorkerFields DEF Unsent, WorkerSaveProcessing, WorkerAt
  <2>3. rows[a] = worker.row
    BY <1>3, <2>1, <2>2 DEF LifeInv, Stage, WorkerSaveProcessing, Exists
  <2>4. rows'[a] = "PROCESSING" /\ \A b \in Answers \ {a} : rows'[b] = rows[b]
    BY <1>3, <2>1, <2>3, SaveRowType DEF WorkerSaveProcessing, TypeOK, Statuses
  <2>5. /\ worker.pc = "save" /\ worker'.pc = "find" /\ worker'.entry = worker.entry
        /\ UNCHANGED <<request, recs, queue, tasks, handler, cron>>
    BY <1>3, WorkerFields DEF WorkerSaveProcessing
  <2>6. UNCHANGED aged
    BY <1>3 DEF WorkerSaveProcessing, LifeInv, CronSleeps
  <2>. QED
    BY <2>1, <2>4, <2>5, <2>6, WorkerGoesOn
<1>4. CASE WorkerFindPreference
  <2>1. PICK a \in Answers : a = JobOf(worker.entry)
    BY <1>4, WorkerFields, EntryAnswer DEF WorkerFindPreference
  <2>2. WorkerAt(a)
    BY <1>4, <2>1 DEF WorkerFindPreference, WorkerAt
  <2>3. rows[a] \in {"ABSENT", "PROCESSING"}
    BY <1>4, <2>2 DEF LifeInv, Stage, WorkerFindPreference
  <2>4. /\ worker.pc = "find" /\ worker'.pc = "post" /\ worker'.entry = worker.entry
        /\ UNCHANGED <<aged, rows, request, recs, queue, tasks, handler, cron>>
    BY <1>4, WorkerFields DEF WorkerFindPreference, tables
  <2>. QED
    BY <2>1, <2>3, <2>4, WorkerGoesOn
<1>5. CASE WorkerPost
  <2>. DEFINE i == worker.entry
              t == [entry |-> i, run |-> queue[i].made + queue[i].stalls]
  <2>1. PICK a \in Answers : a = JobOf(i)
    BY <1>5, WorkerFields, EntryAnswer DEF WorkerPost
  <2>2. /\ worker.pc = "post" /\ worker'.pc = "posted" /\ i \in DOMAIN queue
        /\ tasks' = tasks \union {t}
        /\ UNCHANGED <<rows, request, recs, queue, handler>>
    BY <1>5, WorkerFields DEF WorkerPost, tables
  <2>3. i \in Unsent(a) /\ WorkerAt(a)
    BY <2>1, <2>2 DEF Unsent, WorkerAt
  <2>4. Unsent(a) = {i} /\ TasksFor(a) = {} /\ CallbacksFor(a) = {} /\ request[a].pc = "done"
    BY <2>3, OnlyWork DEF LifeInv
  <2>5. t.entry = i
    OBVIOUS
  <2>. HIDE DEF t
  <2>6. \A b \in Answers : /\ Unsent(b)' \subseteq Unsent(b)
                           /\ CallbacksFor(b)' = CallbacksFor(b)
                           /\ ~ WorkerAt(b)'
                           /\ b # a => TasksFor(b)' = TasksFor(b)
    BY <2>1, <2>2, <2>5 DEF Unsent, CallbacksFor, WorkerAt, TasksFor, JobOf
  <2>7. TasksFor(a)' = {t}
    BY <2>1, <2>2, <2>4, <2>5 DEF TasksFor, JobOf
  <2>8. OnePieceOfWork' /\ Stage(a)'
    <3>1. CASE Unsent(a)' = {}
      <4>1. ASSUME NEW b \in Answers \ {a}
            PROVE  /\ \A v, w \in WorkOf(b)' : v = w
                   /\ request'[b].pc # "done" => WorkOf(b)' = {}
        BY <2>2, <2>6, WorkShrinks DEF LifeInv
      <4>2. /\ \A v, w \in WorkOf(a)' : v = w
            /\ request'[a].pc # "done" => WorkOf(a)' = {}
        BY <2>2, <2>4, <2>6, <2>7, <3>1 DEF WorkOf
      <4>3. OnePieceOfWork'
        BY <4>1, <4>2 DEF OnePieceOfWork, WorkOf, Unsent, TasksFor, CallbacksFor
      <4>4. rows[a] \in {"ABSENT", "PROCESSING"} /\ Unrecommended(a)
        BY <2>2, <2>3 DEF LifeInv, Stage
      <4>5. Unrecommended(a)'
        BY <2>2, <4>4 DEF Unrecommended
      <4>6. Stage(a)'
        BY <2>2, <2>4, <2>6, <3>1, <4>4, <4>5 DEF Stage
      <4>. QED
        BY <4>3, <4>6
    <3>2. queue[i].state # "waiting"
      BY <2>2 DEF TableInv, QueueInv, WorkerHolds
    <3>. QED
      BY <2>2, <2>4, <2>6, <3>1, <3>2 DEF Unsent
  <2>9. ASSUME NEW b \in Answers \ {a} PROVE Stage(b)'
    BY <2>2, <2>6, StageStays DEF LifeInv, Unrecommended, CallbacksFor
  <2>. QED
    BY <1>0, <2>8, <2>9 DEF LifeInv
<1>6. CASE WorkerDrop \/ WorkerAck
  <2>1. worker.pc \in {"load", "posted"} /\ worker.entry \in DOMAIN queue
    BY <1>6, WorkerFields DEF WorkerDrop, WorkerAck
  <2>. PICK i \in DOMAIN queue : i = worker.entry
    BY <2>1
  <2>0. SetEntry(i, "completed") /\ worker' = Idle /\ UNCHANGED <<request, rows, recs, tasks, handler>>
    BY <1>6 DEF WorkerDrop, WorkerAck, tables
  <2>2. /\ DOMAIN queue' = DOMAIN queue
        /\ \A k \in DOMAIN queue : queue'[k].data = queue[k].data
        /\ \A k \in DOMAIN queue \ {i} : queue'[k].state = queue[k].state
        /\ queue'[i].state = "completed"
    BY <2>0, StateIsSet
  <2>5. worker'.pc = "idle"
    BY <2>0 DEF Idle
  <2>3. \A t \in tasks : t.entry \in DOMAIN queue
    BY DEF TypeOK
  <2>4. ASSUME NEW a \in Answers
        PROVE  /\ Unsent(a)' \subseteq Unsent(a)
               /\ TasksFor(a)' \subseteq TasksFor(a)
               /\ CallbacksFor(a)' \subseteq CallbacksFor(a)
               /\ ~ WorkerAt(a)'
    BY <2>0, <2>1, <2>2, <2>3, <2>5 DEF Unsent, TasksFor, CallbacksFor, WorkerAt, JobOf
  <2>. QED
    BY <1>0, <2>0, <2>4, LessWork
<1>7. CASE WorkerThrow
  <2>1. worker.pc \in {"load", "save", "find", "post"} /\ worker.entry \in DOMAIN queue
    BY <1>7, WorkerFields DEF WorkerThrow, WorkerCanThrow, Orderly
  <2>2. queue[worker.entry] \in Entry
    BY <2>1, EntryAnswer
  <2>3. /\ DOMAIN queue' = DOMAIN queue
        /\ \A k \in DOMAIN queue : queue'[k].data = queue[k].data
        /\ \A k \in DOMAIN queue \ {worker.entry} : queue'[k].state = queue[k].state
        /\ worker'.pc = "idle"
        /\ UNCHANGED <<request, rows, recs, tasks, handler>>
    BY <1>7, <2>1, <2>2, EntryChanges DEF WorkerThrow, Entry, tables, Idle
  <2>4. \A t \in tasks : t.entry \in DOMAIN queue
    BY DEF TypeOK
  <2>5. ASSUME NEW a \in Answers
        PROVE  /\ Unsent(a)' \subseteq Unsent(a)
               /\ TasksFor(a)' \subseteq TasksFor(a)
               /\ CallbacksFor(a)' \subseteq CallbacksFor(a)
               /\ ~ WorkerAt(a)'
    BY <2>1, <2>3, <2>4 DEF Unsent, TasksFor, CallbacksFor, WorkerAt, JobOf
  <2>. QED
    BY <1>0, <2>3, <2>5, LessWork
<1>. QED
  BY <1>1, <1>2, <1>3, <1>4, <1>5, <1>6, <1>7 DEF WorkerStep

\* Python's answer makes the task a callback, or nothing.
LEMMA PythonLife ==
  ASSUME TypeOK, TypeOK', TableInv, LifeInv, Orderly, PythonStep
  PROVE  LifeInv'
<1>0. CronSleeps'
  BY DEF LifeInv, CronSleeps, PythonStep, CallbackLost, CallbackIgnored, FailureIgnored,
         SuccessBegin, FailureBegin, CallbackBegin, tables
<1>1. ASSUME NEW t \in tasks,
             CallbackLost(t) \/ CallbackIgnored(t) \/ FailureIgnored(t)
      PROVE  LifeInv'
  <2>1. tasks' \subseteq tasks /\ UNCHANGED <<request, rows, recs, queue, worker, handler>>
    BY <1>1 DEF CallbackLost, CallbackIgnored, FailureIgnored, Receive, tables
  <2>2. ASSUME NEW a \in Answers
        PROVE  /\ Unsent(a)' = Unsent(a)
               /\ TasksFor(a)' \subseteq TasksFor(a)
               /\ CallbacksFor(a)' = CallbacksFor(a)
               /\ WorkerAt(a)' => WorkerAt(a)
    BY <2>1 DEF Unsent, TasksFor, CallbacksFor, WorkerAt, JobOf
  <2>. QED
    BY <1>0, <2>1, <2>2, LessWork
<1>2. ASSUME NEW t \in tasks, NEW h \in Handlers, NEW pc \in {"recs", "fail"},
             CallbackBegin(h, t, pc)
      PROVE  LifeInv'
  <2>1. PICK a \in Answers : a = JobOf(t.entry)
    BY EntryAnswer DEF TypeOK
  <2>2. /\ handler[h] = Idle /\ Exists(a)
        /\ tasks' = tasks \ {t}
        /\ handler' = [handler EXCEPT ![h] = [pc |-> pc, job |-> a, row |-> rows[a]]]
        /\ UNCHANGED <<request, rows, recs, queue, worker>>
    BY <1>2, <2>1 DEF CallbackBegin, Receive, tables
  <2>3. /\ handler'[h].pc = pc /\ handler'[h].job = a /\ handler'[h].row = rows[a]
        /\ \A g \in Handlers \ {h} : handler'[g] = handler[g]
        /\ handler[h].pc = "idle"
    BY <2>2 DEF TypeOK, Idle
  <2>4. t \in TasksFor(a)
    BY <2>1 DEF TasksFor
  <2>5. Unsent(a) = {} /\ TasksFor(a) = {t} /\ CallbacksFor(a) = {} /\ request[a].pc = "done"
    BY <2>4, OnlyWork DEF LifeInv
  <2>6. rows[a] = "PROCESSING" /\ Unrecommended(a)
    BY <2>2, <2>4 DEF LifeInv, Stage, Exists
  <2>7. \A b \in Answers : /\ Unsent(b)' = Unsent(b)
                           /\ TasksFor(b)' = TasksFor(b) \ {t}
                           /\ WorkerAt(b)' <=> WorkerAt(b)
    BY <2>2 DEF Unsent, TasksFor, WorkerAt, JobOf
  <2>8. CallbacksFor(a)' = {h}
    BY <2>3, <2>5 DEF CallbacksFor
  <2>9. ASSUME NEW b \in Answers \ {a}
        PROVE  /\ CallbacksFor(b)' = CallbacksFor(b)
               /\ \A g \in CallbacksFor(b)' : handler'[g] = handler[g]
    BY <2>3 DEF CallbacksFor
  <2>10. OnePieceOfWork'
    <3>1. ASSUME NEW b \in Answers \ {a}
          PROVE  /\ \A v, w \in WorkOf(b)' : v = w
                 /\ request'[b].pc # "done" => WorkOf(b)' = {}
      BY <2>2, <2>7, <2>9, WorkShrinks DEF LifeInv
    <3>2. /\ \A v, w \in WorkOf(a)' : v = w
          /\ request'[a].pc # "done" => WorkOf(a)' = {}
      BY <2>2, <2>5, <2>7, <2>8 DEF WorkOf
    <3>. QED
      BY <3>1, <3>2 DEF OnePieceOfWork, WorkOf, Unsent, TasksFor, CallbacksFor
  <2>11. ASSUME NEW b \in Answers \ {a} PROVE Stage(b)'
    BY <2>2, <2>7, <2>9, StageStays DEF LifeInv, Unrecommended
  <2>12. Unrecommended(a)'
    BY <2>2, <2>6 DEF Unrecommended
  <2>13. ~ WorkerAt(a)
    BY <2>5, WorkerFields DEF WorkerAt, Unsent
  <2>14. Stage(a)'
    BY <2>2, <2>3, <2>5, <2>6, <2>7, <2>8, <2>12, <2>13 DEF Stage
  <2>. QED
    BY <1>0, <2>10, <2>11, <2>14 DEF LifeInv
<1>. QED
  BY <1>1, <1>2 DEF PythonStep, SuccessBegin, FailureBegin

\* A callback works alone on its answer.
LEMMA HandlerLife ==
  ASSUME TypeOK, TypeOK', TableInv, LifeInv, Orderly, NEW h \in Handlers, HandlerStep(h)
  PROVE  LifeInv'
<1>1. /\ UNCHANGED <<aged, cron, request, queue, tasks, worker>>
      /\ handler[h] # Idle
      /\ \A g \in Handlers \ {h} : handler'[g] = handler[g]
  <2>1. CASE \E offered \in Offers : SaveRecommendations(h, offered)
    BY <2>1 DEF SaveRecommendations, TypeOK, Idle
  <2>2. CASE SaveSuccess(h) \/ SaveFailure(h) \/ HandlerThrow(h)
    BY <2>2 DEF SaveSuccess, SaveFailure, HandlerThrow, TypeOK, Idle, tables
  <2>. QED
    BY <2>1, <2>2 DEF HandlerStep
<1>2. handler[h].pc # "idle" /\ handler[h].job \in Answers
  BY <1>1 DEF TypeOK, Idle
<1>3. PICK a \in Answers : a = handler[h].job
  BY <1>2
<1>4. h \in CallbacksFor(a)
  BY <1>2, <1>3 DEF CallbacksFor
<1>5. Unsent(a) = {} /\ TasksFor(a) = {} /\ CallbacksFor(a) = {h} /\ request[a].pc = "done"
  BY <1>4, OnlyWork DEF LifeInv
<1>6. /\ handler'[h].pc # "idle" => /\ handler'[h].job = a /\ handler'[h].pc = "mark"
                                   /\ handler'[h].row = handler[h].row
                                   /\ UNCHANGED rows
      /\ \A b \in Answers \ {a} : rows'[b] = rows[b] /\ recs'[b] = recs[b]
  <2>1. ASSUME NEW offered \in Offers, SaveRecommendations(h, offered)
        PROVE  /\ handler' = [handler EXCEPT ![h].pc = "mark"] /\ UNCHANGED rows
               /\ \A b \in Answers \ {a} : recs'[b] = recs[b]
    BY <1>3, <2>1 DEF SaveRecommendations, TypeOK
  <2>2. CASE handler' = [handler EXCEPT ![h].pc = "mark"] /\ UNCHANGED rows
             /\ \A b \in Answers \ {a} : recs'[b] = recs[b]
    <3>1. handler[h] \in [pc : {"recs", "mark", "fail"}, job : Answers, row : Statuses]
      BY <1>2, HandlerFields
    <3>2. handler'[h] = [handler[h] EXCEPT !.pc = "mark"]
      BY <2>2 DEF TypeOK
    <3>. QED
      BY <1>3, <2>2, <3>1, <3>2
  <2>3. CASE SaveSuccess(h) \/ SaveFailure(h)
    <3>1. UNCHANGED recs /\ handler'[h].pc = "idle"
      BY <2>3 DEF SaveSuccess, SaveFailure, Idle, TypeOK
    <3>2. \A b \in Answers \ {a} : rows'[b] = rows[b]
      BY <1>3, <2>3, SaveRowType DEF SaveSuccess, SaveFailure, TypeOK, Statuses
    <3>. QED
      BY <3>1, <3>2
  <2>4. CASE HandlerThrow(h)
    BY <2>4 DEF HandlerThrow, tables, Idle, TypeOK
  <2>. QED
    BY <2>1, <2>2, <2>3, <2>4 DEF HandlerStep
<1>7. \A b \in Answers : /\ Unsent(b)' = Unsent(b)
                         /\ TasksFor(b)' = TasksFor(b)
                         /\ WorkerAt(b)' <=> WorkerAt(b)
                         /\ CallbacksFor(b)' \subseteq CallbacksFor(b)
                         /\ b # a => \A g \in CallbacksFor(b)' : handler'[g] = handler[g]
  BY <1>1, <1>2, <1>3, <1>6 DEF Unsent, TasksFor, WorkerAt, JobOf, CallbacksFor
<1>8. OnePieceOfWork'
  <2>1. ASSUME NEW b \in Answers
        PROVE  /\ \A v, w \in WorkOf(b)' : v = w
               /\ request'[b].pc # "done" => WorkOf(b)' = {}
    BY <1>1, <1>7, WorkShrinks DEF LifeInv
  <2>. QED
    BY <2>1 DEF OnePieceOfWork, WorkOf, Unsent, TasksFor, CallbacksFor
<1>10. ASSUME NEW b \in Answers \ {a} PROVE Stage(b)'
  BY <1>1, <1>6, <1>7, StageStays DEF LifeInv, Unrecommended
<1>11. ~ WorkerAt(a)
  BY <1>5, WorkerFields DEF WorkerAt, Unsent
<1>12. \A g \in CallbacksFor(a)' : g = h /\ handler'[h].pc # "idle"
  BY <1>5, <1>7 DEF CallbacksFor
<1>14. handler[h].row = "PROCESSING" /\ rows[a] \in {"ABSENT", "PROCESSING"}
  BY <1>4 DEF LifeInv, Stage
<1>15. Stage(a)'
  BY <1>1, <1>5, <1>6, <1>7, <1>11, <1>12, <1>14 DEF Stage
<1>. QED
  BY <1>1, <1>8, <1>10, <1>15 DEF LifeInv, CronSleeps

\* In every environment, what is in the tables of a job goes with its row.
LEMMA AbsentStaysEmpty ==
  ASSUME TypeOK, TypeOK', TableInv, [Next]_vars
  PROVE  AbsentHasNone'
<1>1. ASSUME NEW a \in Answers, RequestReplace(a) PROVE AbsentHasNone'
  BY <1>1 DEF RequestReplace, Replace, NoRecs, TableInv, AbsentHasNone, Unrecommended
<1>2. ASSUME NEW h \in Handlers, NEW offered \in Offers, SaveRecommendations(h, offered)
      PROVE  AbsentHasNone'
  <2>1. handler[h].job \in Answers
    BY <1>2, HandlerFields DEF SaveRecommendations
  <2>. QED
    BY <1>2, <2>1 DEF SaveRecommendations, TableInv, AbsentHasNone, Unrecommended, Exists, TypeOK
<1>3. CASE /\ UNCHANGED recs
           /\ \A a \in Answers : rows'[a] = "ABSENT" => rows[a] = "ABSENT"
  BY <1>3 DEF TableInv, AbsentHasNone, Unrecommended
<1>4. ASSUME NEW a \in Answers, NEW loaded, NEW status \in Statuses, Exists(a),
             SaveRow(a, loaded, status)
      PROVE  \A b \in Answers : rows'[b] = "ABSENT" => rows[b] = "ABSENT"
  BY <1>4, SaveRowType DEF TypeOK, Exists, Statuses
<1>5. ASSUME NEW a \in Answers, RequestStep(a) PROVE AbsentHasNone'
  <2>1. CASE RequestInsertJob(a)
    BY <1>3, <2>1 DEF RequestInsertJob, TypeOK
  <2>2. CASE RequestSaveFailure(a)
    BY <1>3, <1>4, <2>2 DEF RequestSaveFailure, Statuses
  <2>. QED
    BY <1>1, <1>3, <1>5, <2>1, <2>2
    DEF RequestStep, RequestFind, RequestReplaceFails, RequestInsertJobFails,
        RequestEnqueue, RequestEnqueueFails, RequestSaveFailureFails, tables
<1>6. ASSUME NEW h \in Handlers, HandlerStep(h) PROVE AbsentHasNone'
  <2>1. CASE SaveSuccess(h) \/ SaveFailure(h)
    <3>1. handler[h].job \in Answers
      BY <2>1, HandlerFields DEF SaveSuccess, SaveFailure
    <3>. QED
      BY <1>3, <1>4, <2>1, <3>1 DEF SaveSuccess, SaveFailure, Statuses
  <2>. QED
    BY <1>2, <1>3, <1>6, <2>1 DEF HandlerStep, HandlerThrow, tables
<1>7. CASE WorkerSaveProcessing
  <2>1. JobOf(worker.entry) \in Answers
    BY <1>7, WorkerFields, EntryAnswer DEF WorkerSaveProcessing
  <2>. QED
    BY <1>3, <1>4, <1>7, <2>1 DEF WorkerSaveProcessing, Statuses
<1>8. CASE Cleanup
  <2>1. CASE CronSaveTimeout
    <3>1. cron.job \in Answers
      BY <2>1, CronFields DEF CronSaveTimeout
    <3>. QED
      BY <1>3, <1>4, <1>8, <2>1, <3>1 DEF CronSaveTimeout, Cleanup, Statuses
  <2>. QED
    BY <1>3, <1>8, <2>1 DEF Cleanup, CronScan, CronReread, CronSkip, CronEnd
<1>9. CASE UNCHANGED <<rows, recs>>
  BY <1>3, <1>9
<1>10. CASE WorkerStep
  BY <1>7, <1>9, <1>10 DEF WorkerStep, WorkerTake, WorkerLoad, WorkerDrop,
     WorkerFindPreference, WorkerPost, WorkerAck, WorkerThrow, tables
<1>11. CASE PythonStep
  BY <1>9, <1>11 DEF PythonStep, SuccessBegin, FailureBegin, CallbackBegin, CallbackLost,
     CallbackIgnored, FailureIgnored, tables
<1>. QED
  BY <1>5, <1>6, <1>8, <1>9, <1>10, <1>11 DEF Next, Age, Crash, tables, vars

\* Answers whose request has stored them or given up.
Past == {a \in Answers : request[a].pc \notin {"new", "found"}}

\* A save of another status is a move of the abstract job: along its life where
\* the environment is orderly, and anywhere in disorder.
LEMMA SaveIsAStep ==
  ASSUME TypeOK, TypeOK', OnlyTheLatestAnswerCounts,
         UNCHANGED <<faults, preference, recs>>, Past' = Past,
         NEW a \in Answers, Exists(a), NEW loaded, NEW to \in {"PROCESSING", "SUCCESS", "FAILED"},
         SaveRow(a, loaded, to),
         to = "SUCCESS" => ~ Unrecommended(a),
         Orderly => /\ loaded = rows[a]
                    /\ rows[a] = "PENDING" => to # "SUCCESS"
                    /\ rows[a] \in {"PENDING", "PROCESSING"}
  PROVE  LatestOnly!Next \/ UNCHANGED LatestOnly!answerVars
<1>1. a \in preference
  BY DEF OnlyTheLatestAnswerCounts, Exists
<1>2. PICK s \in Saves(loaded, to, rows[a]) : rows' = [rows EXCEPT ![a] = s]
  BY DEF SaveRow
<1>3. s = to \/ (s = rows[a] /\ loaded = to)
  BY <1>2 DEF Saves
<1>4. Orderly' = Orderly
  BY DEF Orderly
<1>5. CASE rows' = rows
  BY <1>4, <1>5 DEF LatestOnly!answerVars, Past
<1>6. CASE rows' # rows
  <2>0. ASSUME s = rows[a] PROVE rows' = rows
    <3>1. rows \in [Answers -> Statuses \union {"ABSENT"}]
      BY DEF TypeOK
    <3>2. [rows EXCEPT ![a] = rows[a]] = rows
      BY <3>1
    <3>. QED
      BY <1>2, <2>0, <3>2
  <2>1. s = to /\ rows' = [rows EXCEPT ![a] = to]
    BY <1>2, <1>3, <1>6, <2>0
  <2>2. recs[a].saves \in Nat /\ rows[a] \in Statuses
    BY ExistingRow DEF TypeOK
  <2>3. ASSUME NEW from, rows[a] \in from PROVE LatestOnly!Move(a, from, to)
    BY <1>1, <1>4, <2>1, <2>3 DEF LatestOnly!Move, Past
  <2>4. to = "SUCCESS" => [b \in Answers |-> recs[b].saves][a] > 0
    BY <2>2 DEF Unrecommended
  <2>5. CASE Orderly
    <3>1. to = "PROCESSING" => rows[a] \in {"PENDING"}
      BY <1>2, <1>6, <2>1, <2>5 DEF TypeOK
    <3>2. CASE to = "PROCESSING"
      BY <2>3, <3>1, <3>2 DEF LatestOnly!Next, LatestOnly!Start
    <3>3. CASE to = "SUCCESS"
      BY <2>3, <2>4, <2>5, <3>3 DEF LatestOnly!Next, LatestOnly!Succeed
    <3>4. CASE to = "FAILED"
      BY <2>3, <2>5, <3>4 DEF LatestOnly!Next, LatestOnly!Fail
    <3>. QED
      BY <3>2, <3>3, <3>4
  <2>6. CASE ~ Orderly
    <3>1. LatestOnly!Move(a, {"PENDING", "PROCESSING", "SUCCESS", "FAILED"}, to)
      BY <2>2, <2>3 DEF Statuses
    <3>2. LatestOnly!Disorder(a)
      BY <2>4, <2>6, <3>1 DEF LatestOnly!Disorder, Exists
    <3>. QED
      BY <3>2 DEF LatestOnly!Next
  <2>. QED
    BY <2>5, <2>6
<1>. QED
  BY <1>5, <1>6

\* A step that neither touches tables nor lets a request past is a stutter.
LEMMA OtherIsAStutter ==
  ASSUME UNCHANGED <<faults, preference, rows, recs>>, Past' = Past
  PROVE  UNCHANGED LatestOnly!answerVars
  BY DEF LatestOnly!answerVars, Past, Orderly

\* A request that gives up is refused.
LEMMA RefuseIsAStep ==
  ASSUME UNCHANGED <<faults, preference, rows, recs>>, Past \subseteq Past'
  PROVE  LatestOnly!Next
  BY DEF LatestOnly!Next, LatestOnly!Refuse, Past, Orderly

\* A request replaces the answer, makes the job or marks it FAILED, or gives up.
LEMMA RequestIsAStep ==
  ASSUME TypeOK, TypeOK', TableInv, Orderly => LifeInv, NEW a \in Answers, RequestStep(a)
  PROVE  LatestOnly!Next \/ UNCHANGED LatestOnly!answerVars
<1>0. \A b \in Answers \ {a} : request'[b] = request[b]
  BY DEF RequestStep, RequestFind, RequestReplace, RequestReplaceFails, RequestInsertJob,
         RequestInsertJobFails, RequestEnqueue, RequestEnqueueFails, RequestSaveFailure,
         RequestSaveFailureFails, TypeOK
<1>1. CASE RequestReplace(a)
  <2>1. /\ request[a].pc = "found" /\ request'[a].pc = "stored"
        /\ preference' = {a} /\ Orderly' = Orderly
    BY <1>1 DEF RequestReplace, Replace, Orderly, TypeOK
  <2>2. Past' = Past \union {a} /\ a \notin Past
    BY <1>0, <2>1 DEF Past
  <2>3. ASSUME NEW b \in Answers PROVE rows'[b] = "ABSENT" /\ recs'[b].saves = 0
    BY <1>1 DEF RequestReplace, Replace, NoRecs, TableInv, OnlyTheLatestAnswerCounts
  <2>4. rows' = [b \in Answers |-> "ABSENT"]
    BY <2>3 DEF TypeOK
  <2>5. [b \in Answers |-> recs'[b].saves] = [b \in Answers |-> 0]
    BY <2>3
  <2>. QED
    BY <2>1, <2>2, <2>4, <2>5 DEF LatestOnly!Next, LatestOnly!Replace, Past
<1>2. CASE RequestInsertJob(a)
  <2>1. /\ request[a].pc = "stored" /\ request'[a].pc = "saved"
        /\ rows' = [rows EXCEPT ![a] = "PENDING"] /\ a \in preference
        /\ UNCHANGED <<preference, recs>> /\ Orderly' = Orderly
    BY <1>2 DEF RequestInsertJob, Orderly, TypeOK
  <2>2. rows[a] = "ABSENT"
    BY <2>1 DEF TableInv, SuccessInv, FreshIsAbsent, Fresh
  <2>3. Past' = Past
    BY <1>0, <2>1 DEF Past
  <2>4. LatestOnly!Create(a)
    BY <2>1, <2>2, <2>3 DEF LatestOnly!Create, LatestOnly!Move, Past
  <2>. QED
    BY <2>4 DEF LatestOnly!Next
<1>3. CASE RequestSaveFailure(a)
  <2>1. /\ Exists(a) /\ SaveRow(a, "PENDING", "FAILED")
        /\ request[a].pc = "addFailed" /\ request'[a].pc = "done"
        /\ UNCHANGED <<faults, preference, recs>>
    BY <1>3 DEF RequestSaveFailure, TypeOK
  <2>2. Past' = Past
    BY <1>0, <2>1 DEF Past
  <2>3. Orderly => rows[a] = "PENDING"
    BY <2>1 DEF LifeInv, Stage, Exists
  <2>. QED
    BY <2>1, <2>2, <2>3, SaveIsAStep DEF TableInv
<1>4. CASE RequestReplaceFails(a)
  <2>1. /\ request'[a].pc = "done" /\ UNCHANGED <<faults, preference, rows, recs>>
    BY <1>4 DEF RequestReplaceFails, TypeOK, tables
  <2>2. Past \subseteq Past'
    BY <1>0, <2>1 DEF Past
  <2>. QED
    BY <2>1, <2>2, RefuseIsAStep
<1>5. CASE \/ RequestFind(a) \/ RequestInsertJobFails(a) \/ RequestEnqueue(a)
           \/ RequestEnqueueFails(a) \/ RequestSaveFailureFails(a)
  <2>1. /\ UNCHANGED <<faults, preference, rows, recs>>
        /\ request[a].pc \in {"new", "found"} <=> request'[a].pc \in {"new", "found"}
    BY <1>5 DEF RequestFind, RequestInsertJobFails, RequestEnqueue, RequestEnqueueFails,
                RequestSaveFailureFails, TypeOK, tables
  <2>2. Past' = Past
    BY <1>0, <2>1 DEF Past
  <2>. QED
    BY <2>1, <2>2, OtherIsAStutter
<1>. QED
  BY <1>1, <1>2, <1>3, <1>4, <1>5 DEF RequestStep

\* A callback recommends, and then ends the job.
LEMMA HandlerIsAStep ==
  ASSUME TypeOK, TypeOK', TableInv, Orderly => LifeInv, NEW h \in Handlers, HandlerStep(h)
  PROVE  LatestOnly!Next \/ UNCHANGED LatestOnly!answerVars
<1>0. UNCHANGED <<faults, preference, request>> /\ Past' = Past
  BY DEF HandlerStep, SaveRecommendations, SaveSuccess, SaveFailure, HandlerThrow, tables, Past
<1>1. handler[h].pc # "idle" => handler[h].job \in Answers
  BY HandlerFields
<1>2. ASSUME NEW a \in Answers, a = handler[h].job, handler[h].pc # "idle", Orderly
      PROVE  /\ handler[h].row = "PROCESSING" /\ rows[a] \in {"ABSENT", "PROCESSING"}
             /\ handler[h].pc # "mark" => Unrecommended(a)
  <2>1. h \in CallbacksFor(a)
    BY <1>2 DEF CallbacksFor
  <2>. QED
    BY <1>2, <2>1 DEF LifeInv, Stage
<1>3. ASSUME NEW offered \in Offers, SaveRecommendations(h, offered)
      PROVE  LatestOnly!Next
  <2>1. PICK a \in Answers : a = handler[h].job
    BY <1>1, <1>3 DEF SaveRecommendations
  <2>2. /\ handler[h].pc = "recs" /\ Exists(a) /\ UNCHANGED rows
        /\ recs'[a].saves = recs[a].saves + 1
        /\ \A b \in Answers \ {a} : recs'[b] = recs[b]
    BY <1>3, <2>1 DEF SaveRecommendations, TypeOK
  <2>3. a \in preference /\ rows[a] # "ABSENT"
    BY <2>2 DEF TableInv, OnlyTheLatestAnswerCounts, Exists
  <2>4. [b \in Answers |-> recs'[b].saves]
          = [[b \in Answers |-> recs[b].saves] EXCEPT ![a] = @ + 1]
    BY <2>2
  <2>5. LatestOnly!Save(a)
    BY <1>0, <2>2, <2>3, <2>4 DEF LatestOnly!Save, Past, Orderly
  <2>6. CASE Orderly
    <3>1. rows[a] = "PROCESSING" /\ [b \in Answers |-> recs[b].saves][a] = 0
      BY <1>2, <2>1, <2>2, <2>3, <2>6 DEF Unrecommended
    <3>. QED
      BY <2>5, <3>1 DEF LatestOnly!Next, LatestOnly!Recommend
  <2>7. CASE ~ Orderly
    BY <2>3, <2>5, <2>7 DEF LatestOnly!Next, LatestOnly!Disorder
  <2>. QED
    BY <2>6, <2>7
<1>4. CASE SaveSuccess(h)
  <2>1. PICK a \in Answers : a = handler[h].job
    BY <1>1, <1>4 DEF SaveSuccess
  <2>2. /\ handler[h].pc = "mark" /\ Exists(a) /\ UNCHANGED recs
        /\ SaveRow(a, handler[h].row, "SUCCESS")
    BY <1>4, <2>1 DEF SaveSuccess
  <2>3. ~ Unrecommended(a)
    BY <2>1, <2>2 DEF TableInv, SuccessInv, MarksAnswered, Answered, Unrecommended, Exists
  <2>4. Orderly => handler[h].row = rows[a] /\ rows[a] = "PROCESSING"
    BY <1>2, <2>1, <2>2 DEF Exists
  <2>. QED
    BY <1>0, <2>2, <2>3, <2>4, SaveIsAStep DEF TableInv
<1>5. CASE SaveFailure(h)
  <2>1. PICK a \in Answers : a = handler[h].job
    BY <1>1, <1>5 DEF SaveFailure
  <2>2. /\ handler[h].pc = "fail" /\ Exists(a) /\ UNCHANGED recs
        /\ SaveRow(a, handler[h].row, "FAILED")
    BY <1>5, <2>1 DEF SaveFailure
  <2>4. Orderly => handler[h].row = rows[a] /\ rows[a] = "PROCESSING"
    BY <1>2, <2>1, <2>2 DEF Exists
  <2>. QED
    BY <1>0, <2>2, <2>4, SaveIsAStep DEF TableInv
<1>6. CASE HandlerThrow(h)
  BY <1>0, <1>6, OtherIsAStutter DEF HandlerThrow, tables
<1>. QED
  BY <1>3, <1>4, <1>5, <1>6 DEF HandlerStep

\* The worker starts the job.
LEMMA WorkerIsAStep ==
  ASSUME TypeOK, TypeOK', TableInv, Orderly => LifeInv, WorkerStep
  PROVE  LatestOnly!Next \/ UNCHANGED LatestOnly!answerVars
<1>0. UNCHANGED <<faults, preference, recs, request>> /\ Past' = Past
  BY DEF WorkerStep, WorkerTake, WorkerLoad, WorkerDrop, WorkerSaveProcessing,
         WorkerFindPreference, WorkerPost, WorkerAck, WorkerThrow, tables, Past
<1>1. CASE WorkerSaveProcessing
  <2>1. PICK a \in Answers : a = JobOf(worker.entry)
    BY <1>1, WorkerFields, EntryAnswer DEF WorkerSaveProcessing
  <2>2. worker.pc = "save" /\ Exists(a) /\ SaveRow(a, worker.row, "PROCESSING")
    BY <1>1, <2>1 DEF WorkerSaveProcessing
  <2>3. worker.entry \in Unsent(a) /\ WorkerAt(a)
    BY <2>1, <2>2, WorkerFields DEF Unsent, WorkerAt
  <2>4. Orderly => worker.row = rows[a] /\ rows[a] \in {"PENDING", "PROCESSING"}
    BY <2>2, <2>3 DEF LifeInv, Stage, Exists
  <2>. QED
    BY <1>0, <2>2, <2>4, SaveIsAStep DEF TableInv
<1>2. CASE UNCHANGED rows
  BY <1>0, <1>2, OtherIsAStutter
<1>. QED
  BY <1>1, <1>2
  DEF WorkerStep, WorkerTake, WorkerLoad, WorkerDrop, WorkerFindPreference, WorkerPost,
      WorkerAck, WorkerThrow, tables

\* The cron only acts where the environment is not orderly.
LEMMA CronIsAStep ==
  ASSUME TypeOK, TypeOK', TableInv, Orderly => LifeInv, Cleanup
  PROVE  LatestOnly!Next \/ UNCHANGED LatestOnly!answerVars
<1>0. UNCHANGED <<faults, preference, recs, request>> /\ Past' = Past
  BY DEF Cleanup, Past
<1>1. CASE CronSaveTimeout
  <2>1. PICK a \in Answers : a = cron.job
    BY <1>1, CronFields DEF CronSaveTimeout
  <2>2. Exists(a) /\ SaveRow(a, cron.row, "FAILED")
    BY <1>1, <2>1 DEF CronSaveTimeout
  <2>3. ~ Orderly
    BY <1>1 DEF CronSaveTimeout, LifeInv, CronSleeps, Idle
  <2>. QED
    BY <1>0, <2>2, <2>3, SaveIsAStep DEF TableInv
<1>2. CASE UNCHANGED rows
  BY <1>0, <1>2, OtherIsAStutter
<1>. QED
  BY <1>1, <1>2 DEF Cleanup, CronScan, CronReread, CronSkip, CronEnd

\* A restart only loses requests.
LEMMA CrashIsAStep ==
  ASSUME TypeOK, Crash
  PROVE  LatestOnly!Next
<1>1. Past \subseteq Past'
  BY DEF Crash, Past, TypeOK
<1>. QED
  BY <1>1, RefuseIsAStep DEF Crash, tables

\* So every step is one of the abstract promise.
LEMMA AnswerStep ==
  ASSUME TypeOK, TypeOK', TableInv, Orderly => LifeInv, [Next]_vars
  PROVE  [LatestOnly!Next]_(LatestOnly!answerVars)
<1>1. ASSUME UNCHANGED <<faults, preference, rows, recs, request>>
      PROVE  UNCHANGED LatestOnly!answerVars
  BY <1>1, OtherIsAStutter DEF Past
<1>2. CASE PythonStep
  BY <1>1, <1>2 DEF PythonStep, SuccessBegin, FailureBegin, CallbackBegin, CallbackLost,
     CallbackIgnored, FailureIgnored, tables
<1>. QED
  BY <1>1, <1>2, RequestIsAStep, HandlerIsAStep, WorkerIsAStep, CronIsAStep, CrashIsAStep
  DEF Next, Age, vars

\* At first there is nothing in the tables and nobody works.
LEMMA LifeBegins ==
  ASSUME Init
  PROVE  TableInv /\ LifeInv
<1>1. OnlyTheLatestAnswerCounts
  BY FS_EmptySet DEF Init, OnlyTheLatestAnswerCounts
<1>2. SuccessInv /\ QueueInv /\ AbsentHasNone
  BY DEF Init, SuccessInv, SuccessHasRecommendations, FreshIsAbsent, MarksAnswered, Idle,
         QueueInv, PendingIsQueued, WorkerHolds, AbsentHasNone, Unrecommended, NoRecs
<1>3. \A a \in Answers : /\ Unsent(a) = {} /\ TasksFor(a) = {} /\ CallbacksFor(a) = {}
                         /\ ~ WorkerAt(a) /\ request[a].pc = "new"
  BY DEF Init, Unsent, TasksFor, CallbacksFor, WorkerAt, Idle
<1>. QED
  BY <1>1, <1>2, <1>3
  DEF TableInv, LifeInv, CronSleeps, Init, OnePieceOfWork, WorkOf, Stage

\* Every step of an orderly environment keeps status and work in step.
LEMMA LifeGoesOn ==
  ASSUME TypeOK, TypeOK', TableInv, Orderly => LifeInv, [Next]_vars
  PROVE  Orderly' => LifeInv'
<1>0. UNCHANGED faults
  BY DEF Next, RequestStep, RequestFind, RequestReplace, RequestReplaceFails, RequestInsertJob,
         RequestInsertJobFails, RequestEnqueue, RequestEnqueueFails, RequestSaveFailure,
         RequestSaveFailureFails, HandlerStep, SaveRecommendations, SaveSuccess, SaveFailure,
         HandlerThrow, WorkerStep, WorkerTake, WorkerLoad, WorkerDrop, WorkerSaveProcessing,
         WorkerFindPreference, WorkerPost, WorkerAck, WorkerThrow, PythonStep, SuccessBegin,
         FailureBegin, CallbackBegin, CallbackLost, CallbackIgnored, FailureIgnored, Cleanup,
         Age, Crash, tables, vars
<1>. SUFFICES ASSUME Orderly, LifeInv PROVE LifeInv'
  BY <1>0 DEF Orderly
<1>1. ASSUME NEW a \in Answers, RequestStep(a) PROVE LifeInv'
  BY <1>1, RequestLife
<1>2. ASSUME NEW h \in Handlers, HandlerStep(h) PROVE LifeInv'
  BY <1>2, HandlerLife
<1>3. CASE WorkerStep
  BY <1>3, WorkerLife
<1>4. CASE PythonStep
  BY <1>4, PythonLife
<1>5. ~ Cleanup
  BY DEF LifeInv, CronSleeps, Cleanup, CronScan, CronReread, CronSkip, CronSaveTimeout,
         CronEnd, StaleJobs, Idle
<1>6. CASE UNCHANGED vars
  BY <1>6 DEF vars, LifeInv, CronSleeps, OnePieceOfWork, WorkOf, Stage, Unsent, TasksFor,
     CallbacksFor, WorkerAt, Unrecommended, JobOf
<1>. QED
  BY <1>1, <1>2, <1>3, <1>4, <1>5, <1>6 DEF Next, Age, Crash, Orderly

\* Both invariants, in every state.
LEMMA LifeAlways == Spec => [](TypeOK /\ TableInv /\ (Orderly => LifeInv))
<1>1. TypeOK /\ TypeOK' /\ TableInv /\ [Next]_vars => TableInv'
  BY SuccessGoesOn, QueueGoesOn, LatestGoesOn, AbsentStaysEmpty DEF TableInv
<1>2. TypeOK /\ TypeOK' /\ TableInv /\ (Orderly => LifeInv) /\ [Next]_vars
        => (Orderly => LifeInv)'
  BY LifeGoesOn
<1>3. Init => TableInv /\ (Orderly => LifeInv)
  BY LifeBegins
<1>. QED
  BY <1>1, <1>2, <1>3, TypeCorrect, PTL DEF Spec

\* Answering again and again implements the abstract promise to the user: in
\* every environment, only the latest answer has a job and recommendations, and
\* SUCCESS comes after them; in an orderly one a job goes forward only.
THEOREM AnswersCorrect == Spec => ImplementsLatestAnswer
<1>1. Init => LatestOnly!Init
  <2>. SUFFICES ASSUME Init PROVE LatestOnly!Init
    OBVIOUS
  <2>1. /\ \A a \in Answers : request[a].pc = "new" /\ recs[a].saves = 0
        /\ Orderly \in BOOLEAN
    BY DEF Init, NoRecs, Orderly
  <2>. QED
    BY <2>1 DEF Init, LatestOnly!Init
<1>2. TypeOK /\ TypeOK' /\ TableInv /\ (Orderly => LifeInv) /\ [Next]_vars
        => [LatestOnly!Next]_(LatestOnly!answerVars)
  BY AnswerStep
<1>. QED
  BY <1>1, <1>2, TypeCorrect, LifeAlways, PTL DEF Spec, ImplementsLatestAnswer, LatestOnly!Spec

\* In an orderly environment a job that polls as SUCCESS or FAILED does so, with
\* the recommendations it has, until the user answers the survey again.
EndIsFinal ==
  [][\A a \in Answers : Orderly /\ rows[a] \in Terminal =>
        \/ rows'[a] = rows[a] /\ recs'[a].saves = recs[a].saves
        \/ rows'[a] = "ABSENT" /\ a \notin preference']_vars

\* Inherited from LatestAnswer, of which only Replace moves a job that has ended.
THEOREM EndCorrect == Spec => EndIsFinal
<1>1. ASSUME TypeOK, TableInv, [LatestOnly!Next]_(LatestOnly!answerVars)
      PROVE  \A a \in Answers : Orderly /\ rows[a] \in Terminal =>
               \/ rows'[a] = rows[a] /\ recs'[a].saves = recs[a].saves
               \/ rows'[a] = "ABSENT" /\ a \notin preference'
  <2>. SUFFICES ASSUME NEW a \in Answers, Orderly, rows[a] \in Terminal
                PROVE  \/ rows'[a] = rows[a] /\ recs'[a].saves = recs[a].saves
                       \/ rows'[a] = "ABSENT" /\ a \notin preference'
    OBVIOUS
  <2>. DEFINE saved == [b \in Answers |-> recs[b].saves]
  <2>0. rows \in [Answers -> Statuses \union {"ABSENT"}] /\ rows[a] \in {"SUCCESS", "FAILED"}
    BY <1>1 DEF TypeOK, Terminal
  <2>8. saved[a] = recs[a].saves /\ saved'[a] = recs'[a].saves
    OBVIOUS
  <2>9. request[a].pc \notin {"new", "found"}
    BY <1>1, <2>0 DEF TableInv, SuccessInv, FreshIsAbsent, Fresh
  <2>1. CASE UNCHANGED LatestOnly!answerVars
    BY <2>0, <2>1 DEF LatestOnly!answerVars
  <2>2. CASE LatestOnly!Refuse
    BY <2>0, <2>2 DEF LatestOnly!Refuse
  <2>3. ASSUME NEW b \in Answers, LatestOnly!Replace(b)
        PROVE  rows'[a] = "ABSENT" /\ a \notin preference'
    BY <2>3, <2>9 DEF LatestOnly!Replace
  <2>4. ASSUME NEW b \in Answers, NEW from, NEW to, LatestOnly!Move(b, from, to),
               rows[a] \notin from
        PROVE  rows'[a] = rows[a] /\ saved'[a] = saved[a]
    BY <2>0, <2>4 DEF LatestOnly!Move
  <2>5. ASSUME NEW b \in Answers,
               LatestOnly!Create(b) \/ LatestOnly!Start(b) \/ LatestOnly!Fail(b)
                 \/ LatestOnly!Succeed(b)
        PROVE  rows'[a] = rows[a] /\ saved'[a] = saved[a]
    BY <2>0, <2>4, <2>5
    DEF LatestOnly!Create, LatestOnly!Start, LatestOnly!Fail, LatestOnly!Succeed
  <2>6. ASSUME NEW b \in Answers, LatestOnly!Recommend(b)
        PROVE  rows'[a] = rows[a] /\ saved'[a] = saved[a]
    BY <2>0, <2>6 DEF LatestOnly!Recommend, LatestOnly!Save
  <2>7. ASSUME NEW b \in Answers PROVE ~ LatestOnly!Disorder(b)
    BY DEF LatestOnly!Disorder
  <2>. QED
    BY <1>1, <2>1, <2>2, <2>3, <2>5, <2>6, <2>7, <2>8 DEF LatestOnly!Next
<1>. QED
  BY <1>1, AnswersCorrect, LifeAlways, PTL DEF EndIsFinal, ImplementsLatestAnswer, LatestOnly!Spec

\* In an orderly environment Python's recommendations for an answer are saved once.
RecommendedOnce == Orderly => \A a \in Answers : recs[a].saves <= 1

\* Inherited from LatestAnswer: Recommend finds none saved yet, and nothing else saves.
THEOREM RecommendedCorrect == Spec => []RecommendedOnce
<1>1. Init => RecommendedOnce
  BY DEF Init, RecommendedOnce, NoRecs
<1>2. TypeOK /\ TypeOK' /\ RecommendedOnce /\ [LatestOnly!Next]_(LatestOnly!answerVars)
        => RecommendedOnce'
  <2>. SUFFICES ASSUME TypeOK, TypeOK', RecommendedOnce,
                       [LatestOnly!Next]_(LatestOnly!answerVars),
                       NEW a \in Answers, Orderly'
                PROVE  recs'[a].saves <= 1
    BY DEF RecommendedOnce
  <2>. DEFINE saved == [b \in Answers |-> recs[b].saves]
  <2>0. saved[a] = recs[a].saves /\ saved'[a] = recs'[a].saves
    OBVIOUS
  <2>1. Orderly
    BY DEF LatestOnly!answerVars, LatestOnly!Next, LatestOnly!Replace, LatestOnly!Refuse,
           LatestOnly!Create, LatestOnly!Start, LatestOnly!Fail, LatestOnly!Succeed,
           LatestOnly!Recommend, LatestOnly!Disorder, LatestOnly!Move, LatestOnly!Save
  <2>2. saved[a] <= 1
    BY <2>0, <2>1 DEF RecommendedOnce
  <2>3. CASE saved'[a] = saved[a]
    BY <2>0, <2>2, <2>3
  <2>4. ASSUME NEW b \in Answers, LatestOnly!Replace(b) PROVE saved'[a] = 0
    BY <2>4 DEF LatestOnly!Replace
  <2>5. ASSUME NEW b \in Answers, LatestOnly!Recommend(b)
        PROVE  saved'[a] = saved[a] \/ saved'[a] = 1
    <3>1. saved' = [saved EXCEPT ![b] = @ + 1] /\ saved[b] = 0
      BY <2>5 DEF LatestOnly!Recommend, LatestOnly!Save
    <3>2. saved \in [Answers -> Nat]
      BY DEF TypeOK
    <3>. HIDE DEF saved
    <3>. QED
      BY <3>1, <3>2
  <2>6. ASSUME NEW b \in Answers PROVE ~ LatestOnly!Disorder(b)
    BY <2>1 DEF LatestOnly!Disorder
  <2>7. ASSUME NEW b \in Answers,
               LatestOnly!Create(b) \/ LatestOnly!Start(b) \/ LatestOnly!Fail(b)
                 \/ LatestOnly!Succeed(b)
        PROVE  saved' = saved
    BY <2>7 DEF LatestOnly!Create, LatestOnly!Start, LatestOnly!Fail,
                LatestOnly!Succeed, LatestOnly!Move
  <2>8. LatestOnly!Refuse \/ UNCHANGED LatestOnly!answerVars => saved' = saved
    BY DEF LatestOnly!answerVars, LatestOnly!Refuse
  <2>. HIDE DEF saved
  <2>9. saved'[a] = saved[a] \/ saved'[a] \in {0, 1}
    BY <2>4, <2>5, <2>6, <2>7, <2>8 DEF LatestOnly!Next
  <2>. QED
    BY <2>0, <2>3, <2>9
<1>. QED
  BY <1>1, <1>2, AnswersCorrect, TypeCorrect, PTL
  DEF Spec, ImplementsLatestAnswer, LatestOnly!Spec
=============================================================================
