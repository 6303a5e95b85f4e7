----------------------- MODULE ItineraryJobTable_proofs -----------------------
(* What the methods of ItineraryJob, the saves and the cron leave in the   *)
(* job table.                                                              *)
EXTENDS ItineraryJobTable, TLAPS

\* Every change a method of ItineraryJob makes to an entity leaves an entity.
LEMMA EntityTypes ==
  ASSUME NEW e \in Row
  PROVE  /\ MarkProcessing(e) \in Row
         /\ IncrementAttempt(e) \in Row
         /\ \A c \in Nat : MarkSuccess(e, c) \in Row
         /\ \A i \in Intents : MarkSuccessWithIntent(e, i) \in Row
         /\ \A code \in ErrorCodes : MarkFailed(e, code) \in Row
         /\ ResetForRetry(e) \in Row
<1>. USE DEF Row, Statuses
<1>1. MarkProcessing(e) \in Row
  BY DEF MarkProcessing
<1>2. IncrementAttempt(e) \in Row
  BY DEF IncrementAttempt
<1>3. ASSUME NEW c \in Nat PROVE MarkSuccess(e, c) \in Row
  BY DEF MarkSuccess
<1>4. ASSUME NEW code \in ErrorCodes PROVE MarkFailed(e, code) \in Row
  BY DEF MarkFailed
<1>6. ASSUME NEW i \in Intents PROVE MarkSuccessWithIntent(e, i) \in Row
  BY DEF MarkSuccessWithIntent
<1>5. ResetForRetry(e) \in Row
  BY DEF ResetForRetry, ErrorCodes, NoError
<1>. QED
  BY <1>1, <1>2, <1>3, <1>4, <1>5, <1>6

\* A job starts as a row.
LEMMA NewJobType ==
  ASSUME NEW c \in Nat
  PROVE  NewJob(c) \in Row
  BY DEF NewJob, Row, NoCourse, Statuses, ErrorCodes, NoError, Intents

\* A row that exists is a Row.
LEMMA ExistingRow ==
  ASSUME NEW r \in MaybeRow, r.status # "ABSENT"
  PROVE  r \in Row
  BY DEF MaybeRow, Absent

\* A save leaves a row, whatever the entity and the table held.
LEMMA SaveType ==
  ASSUME NEW loaded \in Row, NEW e \in Row, NEW row \in Row,
         NEW r \in Saves(loaded, e, row)
  PROVE  r \in Row
  BY DEF Saves, ChangedColumns, Row

\* A save by a handler that neither succeeds nor touches the course leaves
\* SUCCESS only where it was, and then leaves the course where it was too.
LEMMA SaveKeepsSuccess ==
  ASSUME NEW loaded \in Row, NEW e \in Row, NEW row \in Row,
         e.course = loaded.course, e.status # "SUCCESS",
         NEW r \in Saves(loaded, e, row), r.status = "SUCCESS"
  PROVE  row.status = "SUCCESS" /\ r.course = row.course
  BY DEF Saves, ChangedColumns, Row

\* The save of the success transaction leaves SUCCESS and the new course, in
\* whatever order the columns were written.
LEMMA SaveOfSuccess ==
  ASSUME NEW loaded \in Row, NEW row \in Row, NEW c \in Nat,
         loaded.status # "SUCCESS", loaded.course # c,
         NEW r \in Saves(loaded, MarkSuccess(loaded, c), row)
  PROVE  r.status = "SUCCESS" /\ r.course = c
<1>1. /\ MarkSuccess(loaded, c).status = "SUCCESS"
      /\ MarkSuccess(loaded, c).course = c
  BY DEF MarkSuccess, Row
<1>. QED
  BY <1>1 DEF Saves, ChangedColumns

\* A save keeps the table a table of rows.
LEMMA SaveRowType ==
  ASSUME rows \in [Jobs -> MaybeRow], NEW j \in Jobs, Exists(j),
         NEW loaded \in Row, NEW e \in Row, SaveRow(j, loaded, e)
  PROVE  rows' \in [Jobs -> MaybeRow]
<1>1. PICK r \in Saves(loaded, e, rows[j]) : rows' = [rows EXCEPT ![j] = r]
  BY DEF SaveRow
<1>2. rows[j] \in Row
  BY ExistingRow DEF Exists
<1>3. r \in Row
  BY <1>1, <1>2, SaveType
<1>. QED
  BY <1>1, <1>3 DEF MaybeRow

\* A save whose entity has another status than the loaded one writes it.
LEMMA StatusIsWritten ==
  ASSUME NEW j \in Jobs, NEW loaded, NEW e, SaveRow(j, loaded, e),
         e.status # loaded.status, rows \in [Jobs -> MaybeRow]
  PROVE  /\ rows'[j].status = e.status
         /\ \A k \in Jobs : k # j => rows'[k] = rows[k]
  BY DEF SaveRow, Saves, ChangedColumns

\* Where the copy has the status of the row, a save leaves the entity's, however
\* the UPDATE is put together.
LEMMA StatusIsSaved ==
  ASSUME rows \in [Jobs -> MaybeRow], NEW j \in Jobs, NEW loaded, NEW e,
         SaveRow(j, loaded, e), loaded.status = rows[j].status
  PROVE  /\ rows'[j].status = e.status
         /\ \A k \in Jobs \ {j} : rows'[k] = rows[k]
  BY DEF SaveRow, Saves, ChangedColumns

\* What the methods of the entity make of its status.
LEMMA MethodsSetTheStatus ==
  ASSUME NEW e \in Row
  PROVE  /\ IncrementAttempt(MarkProcessing(e)).status = "PROCESSING"
         /\ ResetForRetry(e).status = "PENDING"
         /\ \A c : MarkSuccess(e, c).status = "SUCCESS"
         /\ \A i : MarkSuccessWithIntent(e, i).status = "SUCCESS"
         /\ \A code : MarkFailed(e, code).status = "FAILED"
  BY DEF Row, IncrementAttempt, MarkProcessing, ResetForRetry, MarkSuccess,
         MarkSuccessWithIntent, MarkFailed

\* A course that is deleted leaves the status of every job.
LEMMA DeletionKeepsTheStatus ==
  ASSUME rows \in [Jobs -> MaybeRow], NEW c, DeleteCourse(c)
  PROVE  \A j \in Jobs : rows'[j].status = rows[j].status
<1>. SUFFICES ASSUME NEW j \in Jobs PROVE rows'[j].status = rows[j].status
  OBVIOUS
<1>. PICK r \in MaybeRow : r = rows[j]
  OBVIOUS
<1>1. rows'[j] = IF r.course = c THEN [r EXCEPT !.course = NoCourse] ELSE r
  BY DEF DeleteCourse
<1>2. [r EXCEPT !.course = NoCourse].status = r.status
  BY DEF MaybeRow, Row, Absent
<1>. QED
  BY <1>1, <1>2

\* What the cron holds.
CronStates ==
  {Idle} \union [pc : {"next"}, todo : SUBSET Jobs]
         \union [pc : {"save"}, todo : SUBSET Jobs, job : Jobs, row : Row]

\* The cron keeps the table and its own state well-typed.
LEMMA CronStepType ==
  ASSUME rows \in [Jobs -> MaybeRow], aged \in SUBSET Jobs, cron \in CronStates,
         CronStep
  PROVE  rows' \in [Jobs -> MaybeRow] /\ cron' \in CronStates
<1>. USE DEF CronStates
<1>1. CASE CronScan
  BY <1>1 DEF CronScan, StaleJobs
<1>2. ASSUME NEW j \in Jobs, CronReread(j)
      PROVE  rows' \in [Jobs -> MaybeRow] /\ cron' \in CronStates
  <2>1. rows[j] \in Row
    BY <1>2, ExistingRow DEF CronReread
  <2>2. cron.todo \in SUBSET Jobs
    BY <1>2 DEF CronReread, Idle
  <2>. QED
    BY <1>2, <2>1, <2>2 DEF CronReread
<1>3. ASSUME NEW j \in Jobs, CronSkip(j)
      PROVE  rows' \in [Jobs -> MaybeRow] /\ cron' \in CronStates
  <2>1. cron \in [pc : {"next"}, todo : SUBSET Jobs]
    BY <1>3 DEF CronSkip, Idle
  <2>. QED
    BY <1>3, <2>1 DEF CronSkip
<1>4. CASE CronSaveTimeout
  <2>1. cron \in [pc : {"save"}, todo : SUBSET Jobs, job : Jobs, row : Row]
    BY <1>4 DEF CronSaveTimeout, Idle
  <2>2. MarkFailed(cron.row, "TIMEOUT") \in Row
    BY <2>1, EntityTypes DEF ErrorCodes
  <2>3. rows' \in [Jobs -> MaybeRow]
    BY <1>4, <2>1, <2>2, SaveRowType DEF CronSaveTimeout
  <2>. QED
    BY <1>4, <2>1, <2>3 DEF CronSaveTimeout
<1>5. CASE CronEnd
  BY <1>5 DEF CronEnd
<1>. QED
  BY <1>1, <1>2, <1>3, <1>4, <1>5 DEF CronStep

\* Deleting a course leaves rows that point nowhere.
LEMMA DeleteCourseType ==
  ASSUME rows \in [Jobs -> MaybeRow], NEW c \in Nat \ {0}, DeleteCourse(c)
  PROVE  rows' \in [Jobs -> MaybeRow]
<1>1. ASSUME NEW r \in MaybeRow, r.course = c
      PROVE  [r EXCEPT !.course = NoCourse] \in MaybeRow
  <2>1. r \in Row
    BY <1>1 DEF MaybeRow, Absent, NoCourse
  <2>. QED
    BY <2>1 DEF MaybeRow, Row, NoCourse
<1>. QED
  BY <1>1 DEF DeleteCourse
\* A save changes no row but its own.
LEMMA SaveLeavesOthers ==
  ASSUME NEW j \in Jobs, NEW k, k # j, NEW loaded, NEW e, SaveRow(k, loaded, e),
         rows \in [Jobs -> MaybeRow]
  PROVE  rows'[j] = rows[j]
  BY DEF SaveRow

\* A finished job that the cron does not hold it leaves alone: it takes up a job
\* only when it finds it PROCESSING, whatever its list says.
LEMMA CronLeavesTheFinished ==
  ASSUME rows \in [Jobs -> MaybeRow], cron \in CronStates, NEW j \in Jobs,
         rows[j].status \in Terminal, cron.pc = "save" => cron.job # j, CronStep
  PROVE  rows'[j] = rows[j] /\ (cron'.pc = "save" => cron'.job # j)
<1>1. CASE CronScan \/ CronEnd
  BY <1>1 DEF CronScan, CronEnd, Idle
<1>2. CASE CronSaveTimeout
  BY <1>2, SaveLeavesOthers DEF CronSaveTimeout
<1>3. ASSUME NEW k \in Jobs, CronReread(k)
      PROVE  rows'[j] = rows[j] /\ (cron'.pc = "save" => cron'.job # j)
  BY <1>3 DEF CronReread, Terminal
<1>4. ASSUME NEW k \in Jobs, CronSkip(k)
      PROVE  rows'[j] = rows[j] /\ (cron'.pc = "save" => cron'.job # j)
  <2>1. cron \in [pc : {"next"}, todo : SUBSET Jobs]
    BY <1>4 DEF CronSkip, CronStates, Idle
  <2>. QED
    BY <1>4, <2>1 DEF CronSkip
<1>. QED
  BY <1>1, <1>2, <1>3, <1>4 DEF CronStep

\* Deleting a course takes nothing but the course from a job.
LEMMA DeletionTakesTheCourse ==
  ASSUME NEW c, DeleteCourse(c), NEW j \in Jobs
  PROVE  rows'[j] \in {rows[j], [rows[j] EXCEPT !.course = NoCourse]}
  BY DEF DeleteCourse
=============================================================================
