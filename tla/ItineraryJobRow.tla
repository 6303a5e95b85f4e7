--------------------------- MODULE ItineraryJobRow ---------------------------
(***************************************************************************)
(* The ItineraryJob entity: one row of itinerary_job_table, the in-memory  *)
(* changes its methods make, and what TypeORM's repository.save(entity)    *)
(* leaves in the table.                                                    *)
(*                                                                         *)
(* Kept of the columns: status, attempt_count, travel_course_id,           *)
(* error_code and intent_status.  started_at is a set of job ids in the    *)
(* modules that use it (only "older than ten minutes" matters);            *)
(* completed_at and the texts are left out.                                *)
(***************************************************************************)
EXTENDS Naturals

Statuses == {"PENDING", "PROCESSING", "SUCCESS", "FAILED"}
Terminal == {"SUCCESS", "FAILED"}
Active   == {"PENDING", "PROCESSING"}

\* error_code: null, the codes this service writes (NO_CONTEXT stands for
\* COURSE_NOT_FOUND and INVALID_SURVEY_CONTEXT), or the LLM's own.
NoError    == "null"
ErrorCodes == {NoError, "QUEUE_ERROR", "TIMEOUT", "NO_CONTEXT", "LLM_ERROR"}

\* travel_course_id is null or the number of a course.
NoCourse == 0

\* intent_status of a modification: null, SUCCESS (the course was edited), or
\* one of the three that only answer.
Intents == {"null", "EDITED", "ANSWERED"}

Row == [status : Statuses, attempts : Nat, course : Nat, error : ErrorCodes,
        intent : Intents]

\* No row with this id: findOne returns null.
Absent == [status |-> "ABSENT", attempts |-> 0, course |-> NoCourse, error |-> NoError,
           intent |-> "null"]

NewJob(course) ==
  [status |-> "PENDING", attempts |-> 0, course |-> course, error |-> NoError,
   intent |-> "null"]

\* Mutation: the status is not set.
MarkProcessing_Forgets(e) == e

MarkProcessing(e) == [e EXCEPT !.status = "PROCESSING"]

IncrementAttempt(e) == [e EXCEPT !.attempts = @ + 1]

\* Mutation: travelCourseId is not set.
MarkSuccess_NoCourse(e, course) == [e EXCEPT !.status = "SUCCESS"]

MarkSuccess(e, course) == [e EXCEPT !.status = "SUCCESS", !.course = course]

\* Mutation: the intent is not looked at.
MarkSuccessWithIntent_Edited(e, intent) ==
  [e EXCEPT !.status = "SUCCESS", !.intent = "EDITED"]

MarkSuccessWithIntent(e, intent) ==
  [e EXCEPT !.status = "SUCCESS", !.intent = intent]

MarkFailed(e, code) == [e EXCEPT !.status = "FAILED", !.error = code]

\* The field assignments of handleFailure before it enqueues the job again.
ResetForRetry(e) == [e EXCEPT !.status = "PENDING", !.error = NoError]

(***************************************************************************)
(* save(entity) reloads the row, and its UPDATE sets the columns in which  *)
(* the entity differs from what was reloaded.  There is no version column  *)
(* and no lock, so the row that results depends on when others wrote:      *)
(*   - everything was written before the reload: the row becomes the       *)
(*     entity, whatever the others had put there;                          *)
(*   - a write fell between the reload and the UPDATE: only the columns    *)
(*     this handler changed since it loaded the entity are set.            *)
(***************************************************************************)
ChangedColumns(loaded, e, row) ==
  [status   |-> IF e.status   = loaded.status   THEN row.status   ELSE e.status,
   attempts |-> IF e.attempts = loaded.attempts THEN row.attempts ELSE e.attempts,
   course   |-> IF e.course   = loaded.course   THEN row.course   ELSE e.course,
   error    |-> IF e.error    = loaded.error    THEN row.error    ELSE e.error,
   intent   |-> IF e.intent   = loaded.intent   THEN row.intent   ELSE e.intent]

Saves(loaded, e, row) == {e, ChangedColumns(loaded, e, row)}
=============================================================================
