# A verification of Mohaeng-BE

Mohaeng-BE is the NestJS backend of a travel planner. Users answer a survey, an
LLM server written in Python turns the answers into an itinerary (a "course"),
and users then edit, complete, copy, like and blog about courses. PostgreSQL
holds the data, Redis holds tokens, one-time codes and the BullMQ queues, and
the Python server is reached by HTTP and calls back.

Almost every handler is a sequence of awaits over tables without version
columns. What is hard to test is what happens between two awaits: another
request, a callback, the cleanup cron, a retry of the queue. The modules here
cut the handlers at their awaits and let TLC interleave the pieces; TLAPS proves
the invariants that do not depend on the size of the instance.

## 1. The system

| Component | State | Operations | Talks to |
|---|---|---|---|
| Itinerary generation (`domain/itinerary`: ItineraryService, ItineraryProcessor, ItineraryCallbackService) | `itinerary_job_table`, `CourseSurvey.travelCourseId`, `TravelCourse`, queue `itinerary-generation` | createSurvey, createItinerary, process, handleSuccess, handleFailure | BullMQ, Python, the cron |
| Itinerary modification (ItineraryModificationService, -Processor, -CallbackService) | the same job table with jobType MODIFICATION, `TravelCourse.modificationCount` / `isCompleted`, course days, chats, queue `itinerary-modification` | chatWithItinerary, process, handleSuccess, handleFailure | BullMQ, Python, the cron, the course service |
| Job cleanup (ItineraryJobCleanupService, PreferenceJobCleanupService) | none of its own | detectStaleJobs, every minute | both job tables |
| Preference recommendation (`domain/preference`) | `UserPreference`, `PreferenceJob`, recommendations, its queue | createOrUpdateAndEnqueue, process, handleSuccess, handleFailure | BullMQ, Python, the cron |
| Courses (`domain/course`) | `TravelCourse`, days, places, likes | create, completion, copy, like (updateCourse and deleteCourse exist, no controller calls them) | visited countries, blogs |
| Visited countries (`domain/visited-country`) | `UserVisitedCountry` | syncVisitedCountries, CRUD | courses |
| Blogs (`domain/blog`) | `TravelBlog`, likes, views | create, update, delete, like, view | courses |
| Sessions (AuthService, AdminAuthService, refresh tokens in Redis) | up to three refresh tokens per user | login, refresh (rotation), logout, revoke all | Redis |
| Email OTP (AuthService.sendOtp / verify, EmailOtpService) | code, attempts, cooldown, hourly counter, "verified" flag in Redis | send, verify, sign-up, reset password | Redis, SMTP |
| OAuth code and reactivation | one-time codes in Redis | issue, exchange | Redis |
| Schema (`database/migrations`, `data-source.ts`, the entities) | tables, the table `migrations` | migration:run at every deployment, migration:revert | Postgres or MySQL |
| Users (`domain/user`), regions, countries, places, notifications, images, feedback, logging, exception filter, admin CRUD | tables | CRUD, S3, Discord | |

How they interact. A request inserts a job row and adds a queue entry; the
worker loads the row, marks it PROCESSING and POSTs to Python; Python answers
202 and calls `POST /itineraries/:jobId/result` later; the callback either makes
the course in one transaction or resets the job and adds another entry. Every
minute the cron fails jobs that are PROCESSING for more than ten minutes. All of
them load the row, wait, and save the entity they loaded.

Hard behaviours: stale entities (`save(entity)` after several awaits), check
then act without locks or unique keys, at-least-once delivery (BullMQ retries a
POST that timed out although Python accepted it), callbacks lost or doubled, a
rejected `queue.add` between two saves, restarts, and Redis operations that come
in pairs without a transaction.

What makes each component correct:

* generation: a finished job stays finished, makes one course, names it; a job
  that is waiting is in the queue; every job finishes; one job per survey;
* modification: at most five modifications of a course; one at a time; none of
  a completed course; a failed job leaves the course alone;
* preference: recommendations belong to the live preference; a job finishes;
* courses and visited countries: a user's visited countries, and their number in
  `users`, are those of the completed courses; like counters equal the likes;
* sessions: at most three live refresh tokens; a rotated token is dead;
* OTP: at most five guesses per code, five codes per hour, one use;
* schema: once the program serves, the schema is the one its entities describe.

## 2. Modules

| Module | What it is |
|---|---|
| `BullQueue` | a BullMQ queue: entries, attempts, retries, stalled entries |
| `ItineraryJobRow` | the entity `ItineraryJob`, its methods, and what TypeORM's `save(entity)` leaves in the table |
| `ItineraryJobTable` | the job table with its foreign keys and the cleanup cron, shared by both pipelines; the list of faults |
| `ItineraryGeneration` | composes the three into the generation pipeline, one action per stretch of code between two awaits |
| `JobLifecycle` | abstract specification: the life of a job as the client that polls it may expect it; both itinerary pipelines implement it |
| `ItineraryModification` | composes the three into the modification pipeline and the completion request it races with |
| `PreferenceRecommendation` | `BullQueue` composed with the tables of the first survey: preference, job, recommendations |
| `LatestAnswer` | abstract specification: what a user who answers the survey again may expect; the first survey implements it |
| `AccountRequests` | the user row of one address, and what a request between two awaits is |
| `EmailCodes` | the mailed one-time codes, one action per call to Redis |
| `RefreshSessions` | the refresh token slots, one action per call to Redis |
| `Accounts` | composes the two with sign-up, login, OAuth, reset, deactivation, reactivation, profile |
| `Pages` | rows that are liked, viewed and edited: courses and blogs, with the row locks |
| `Courses` | adds completion, deletion, copy, blogs, and the visited countries computed in the same transaction |
| `Schema` | a database schema as a set of facts, and what a DDL statement does to it |
| `Entities` | the schema the TypeORM entities describe |
| `Migrations` | `up` and `down` of all 24 Postgres migrations |
| `MySqlMigrations` | `up` of the first 36 MySQL migrations |
| `SchemaMigrations` | TypeORM running and reverting them when the program is deployed, with crashes |
| `*_proofs` | lemmas about the shared modules, theorems about the pipelines, the first survey, the accounts and the courses (the two theorems about `JobLifecycle` stand in that module) |
| `MC*` | instances for TLC |

Definitions that end in a suffix, such as `CommitCourse_FirstWins`, are mutations:
the definition as a plausible bug would have it. PROJECT.json says which property
notices which; nothing else refers to them.

### 2.1 Saving an entity

`repository.save(e)` of TypeORM reloads the row, compares, and sends an `UPDATE`
of the columns in which `e` differs from what it reloaded. Two outcomes follow
(`Saves`): if everybody else wrote before the reload, the row becomes `e`; if
somebody wrote between reload and `UPDATE`, only the columns this handler changed
since it loaded `e` are written. Every `save` of the models chooses between the
two, so a result that holds, holds for both. A row that is gone is inserted
again, which the database rejects if a foreign key of it is gone too
(`SaveThrows`); courses have no such key and do come back (`SaveCourse`).

### 2.2 ItineraryGeneration

| Model | Code |
|---|---|
| `rows[j]` | the job's row: status, attempt_count, travel_course_id, error_code, intent_status |
| `aged` | jobs whose `started_at` is more than ten minutes ago |
| `surveys`, `linked` | survey rows and their `course_id` |
| `courses`, `gone` | every course ever made, with the job it was made for; those deleted since |
| `queue` | every entry ever added, its BullMQ state, attempts made, stalls |
| `tasks` | generations Python accepted and has not called back |
| `request`, `worker`, `handler`, `cron` | code in flight: where it is and which entity it holds |

| Actions | Code |
|---|---|
| `RequestCheck` .. `RequestSaveFailureFails` | `ItineraryService.createItinerary` |
| `WorkerTake` .. `WorkerThrow` | `ItineraryProcessor.process` under BullMQ |
| `SuccessBegin`, `CommitCourse` | `ItineraryCallbackService.handleSuccess` |
| `FailureBegin`, `SaveRetry`, `ReEnqueue`, `SaveFailure` | `handleFailure` |
| `CallbackLost`, `CallbackIgnored` | the Python server and the controller |
| `CronScan` .. `CronEnd` | `ItineraryJobCleanupService.detectStaleJobs` |
| `SurveyGone`, `CourseGone` | deletions with their `ON DELETE CASCADE` / `SET NULL` |
| `Crash`, `Age` | restart of the process; ten minutes pass |

The success transaction is one action: Postgres commits it at once, and the
checks before it are a separate action.

`Faults` names what the environment may do wrong in an instance, so that each
run says under which assumptions its properties hold.

`courseGone` is reachable through `TravelCourseService.deleteCourse`, which no
controller calls at present.

`ImplementsLifecycle` maps a row to the abstract job's status and the courses made
for a job, deleted ones included, to its results. It is stated for environments
that repeat nothing. `SettledStays` is stated for all: a job that is finished and
that nothing works on any more (no entry, worker, callback past its check, or
cron past its re-read: `Settled`) is left alone by every callback that still
comes, by the cron and by a restart. It is as much as the status check of
`handleSuccess` and the second read of the cron give; between the check and the
transaction another callback may pass (section 3).

A callback that carries nothing (SUCCESS without data, FAILED without `body.error`)
is answered 200 and does nothing: for the tables it is a `CallbackLost`. Left out
is a `save` whose row is deleted between its reload and its `UPDATE`, which then
changes no row; the model deletes before the reload or after the `UPDATE`.

### 2.3 ItineraryModification

`rows`, `aged`, `queue`, `tasks` and `cron` as above, and

| Model | Code |
|---|---|
| `courses[c]` | `modification_count`, `is_completed`, and as `meta` the columns `updateTravelCourse` writes |
| `days[c]` | `course_day_table`: which edits the days of the course come from (0: the course as generated) |
| `edits` | history: the job of every committed edit |
| `chats[j]` | exchanges (USER and AI row) saved for a job |
| `request`, `toggle` | `chatWithItinerary` and `updateCompletionStatus` in flight, with the course they loaded |
| `base` in worker, tasks and handlers | the days from which the plan sent to Python was built |

| Actions | Code |
|---|---|
| `RequestFind` .. `RequestSaveFailureFails` | `ItineraryModificationService.chatWithItinerary` |
| `ToggleLoad`, `ToggleSave`, `ToggleFails` | `TravelCourseService.updateCompletionStatus` |
| `WorkerTake` .. `WorkerThrow` | `ItineraryModificationProcessor.process` |
| `SuccessBegin`, `DeleteDays`, `CommitEdit` | `handleSuccess`, `updateTravelCourse` |
| `CommitAnswer` | `saveChatHistoryOnly` |
| `FailureBegin`, `SaveRetry`, `ReEnqueue`, `SaveFailure` | `handleFailure` |

`updateTravelCourse` is two actions inside one transaction: its `DELETE` of the
days reaches what is committed when it runs, and its inserts become visible at
the commit. Nothing in the schema keeps two sets of days apart: `course_day_table`
has no unique key. TypeORM drops a null from a `where`, so an entry whose course
was deleted finds any course (`Found`).

The chat request is `PENDING` before it is counted, so `RequestSaveCourse` is the
only step between insert and enqueue, and it is outside the `try` block.

`ImplementsLifecycle` is the same refinement as that of generation, with the
exchanges in the chat history as a job's results: a FAILED job has none.
`SettledStays` says the same of a modification as of a generation: a callback that
comes late or again neither answers the message nor edits the course once more.

### 2.4 PreferenceRecommendation

The n-th answer to the survey makes preference n and job n, so one id names all
three. `preference` is the set of preferences in the table, `rows` and `recs` the
job and its recommendations, `request`, `worker`, `handler`, `cron` the code in
flight.

| Actions | Code |
|---|---|
| `RequestFind` .. `RequestSaveFailureFails` | `UserPreferenceService.createOrUpdateAndEnqueue` |
| `WorkerTake` .. `WorkerThrow` | `PreferenceProcessor.process` |
| `SuccessBegin`, `SaveRecommendations`, `SaveSuccess` | `PreferenceCallbackService.handleSuccess` |
| `FailureBegin`, `FailureIgnored`, `SaveFailure` | `handleFailure` |
| `CronScan` .. `CronEnd` | `PreferenceJobCleanupService.detectStaleJobs` |

`Replace` is the transaction that deletes the old preference; the foreign keys
take its job and recommendations along. That is what keeps a worker or callback
of an old answer from doing harm: its `save` finds no row, would insert, and the
foreign key refuses. `handleSuccess` looks at no status and saves outside any
transaction, so two callbacks of one job may save ten recommendations, and a job
the cron failed may become SUCCESS afterwards. `LatestAnswer` tells the two kinds of
environment apart: `orderly` is chosen in its initial state, and `Disorder`, which
saves recommendations again or takes a job out of its end, needs it to be false.
`ImplementsLatestAnswer` maps it to `Orderly`: no acknowledgement of `queue.add` is
lost, no POST times out after it arrived, no job is slow, no crash (and Python's own
second callback is not in this model: it calls back once for a generation). Even
in disorder nothing of an answer that was replaced comes back, and a job becomes
SUCCESS with recommendations only.

### 2.5 Accounts

Everything is about one address; keys and rows of different addresses are
disjoint. `request[k]` is what client `k`'s request is about to do, so an action
is one call to Redis or the database. A `workload` says which operations the
clients call, whether they overlap, whether calls may fail, and whether devices
are honest: they present only the last token they got, and sign in (by login,
sign-up, exchange or reactivation: `MaySignIn`) only when they have none.

| Actions | Code |
|---|---|
| `SendStart` .. `SendWindow`, `VerifyStart` .. `VerifyFlag` | `sendEmailOtp`, `verifyEmailOtp` |
| `IssueList` .. `IssueSet` | `issueTokens` with the eviction of the oldest slot |
| `RefreshStart`, `RefreshOwner`, `RevokeList`, `RevokeDelete` | `refreshTokens`, `revokeAllUserTokens`, `deletePattern` |
| `SignupStart` .. `SignupClear`, `LoginStart`, `OAuthStart` .. `OAuthCode`, `ExchangeStart`, `ExchangeOwner` | `signup`, `login`, `validateOAuthUser`, `exchangeOAuthCode` |
| `ResetStart` .. `ResetClear` | `resetPassword` |
| `DeactivateStart` .. `Reactivate`, `ProfileStart`, `ProfileSave` | `deactivateAccount`, `reactivateAccount`, `updateProfile` |
| `ExpireOtp` .. `ExpireVerified`, `ExpireSlot`, `ExpireTicket` | the end of a key's life |
| `Abort` | a call fails, or the process restarts, and the rest of the request is lost |

Counters in Redis keep their value and whether `EXPIRE` has been called, because
`INCR` and `EXPIRE` are two calls. `history`, `redeemed`, `resets`, `revoked` are
read by the properties only, `held` also by honest clients. A refresh within the
second of the last issue makes the same JWT again (`NewTokens`). A session keeps
its `jti`, the time of its login, through all its refreshes, so `Survivors` are
the sessions begun before the last revocation that still have a slot.

### 2.6 Courses

| Model | Code |
|---|---|
| `page` | the rows of `travel_course_table` (`course` = 0) and `travel_blog_table` (`course`: the blog's course) |
| `likes` | the rows of both like tables |
| `locked` | rows locked by a transaction under way |
| `visited`, `counted` | `user_visited_country_table`, `users.visited_countries` |
| `disturbed`, `alone` | for the properties: a column changed while another request held an older copy; the user's last transaction overlapped with none |

| Actions | Code |
|---|---|
| `LikeStart`, `LikeLock`, `LikeCommit`, `UnlikeCommit` | `CourseLikeService`, `BlogLikeService`, under `SELECT .. FOR UPDATE` |
| `ViewStart`, `EditStart`, `SaveReload`, `SaveInserts`, `SaveWrite` | viewing a blog, `updateCourse` and the blog's update: load, change, save |
| `CompleteStart` .. `Commit` | `updateCompletionStatus` and `deleteCourse` with `syncVisitedCountriesFromCompletedCourses`, statement by statement |
| `CopyStart`, `Copy`, `BlogStart`, `Blog`, `DeleteBlogStart`, `DeleteBlog` | `copyRoadmap`, `createBlog`, `delete` |

Transactions run at READ COMMITTED: `Seen` is what one reads (the committed rows
and its own writes), a row it wrote is locked until it commits, and a statement
that meets a row of another transaction waits. `Clear` and `Cleared` are one
`DELETE`: Postgres decides which rows it deletes when it starts and waits for them.

### 2.7 Migrations

A schema is a set of facts (tables, columns, defaults, NOT NULL, keys, enum
types). A statement (`Schema`) names what it needs, what it clashes with, what it
adds and takes away, and the `IF EXISTS` and `hasColumn` conditions the code
puts around it. `Migrations` lists, per migration, the statements of `up` and
`down` in their order. `SchemaMigrations` is what
`npm run migration:run && node dist/main` does: one transaction over all pending
migrations on Postgres, an implicit commit at every DDL statement on MySQL, where
a crash leaves a migration half done (`BreakOffMySql`, recorded in `cut`).

`Init` starts from a new database, or, on Postgres, from one whose first
migration ran when the entities were older (`OlderForms`: what the later
migrations test for with `IF EXISTS` and friends).

## 3. Runs

| Run | Question | Bounds |
|---|---|---|
| `gen_anything` | do the tables stay sound under every fault at once, and does a settled job stay settled? | 1 job, 1 callback at a time, 2 BullMQ attempts, 1 entry, 2 courses |
| `gen_reliable` | with a Python server that sees each generation once and answers in time: bounded retries, the survey's course, the abstract life of a job | 2 jobs of one survey, 2 callbacks, 4 entries, 2 courses |
| `gen_finish` | is a PENDING job in the queue, and does every job finish, even if Python never answers? | 1 job, 2 callbacks, 3 BullMQ attempts, 2 entries |
| `mod_anything` | do the tables stay sound under nearly every fault at once, and does a settled job stay settled? | 1 job, 1 callback at a time, 2 BullMQ attempts, 1 entry, 2 edits |
| `mod_shared` | two requests and a completion request hold copies of a course that may be deleted and come back: do edits stay in their course, and the count within the limit? | 2 jobs, 2 courses, 3 entries, limit 1 |
| `mod_reliable` | one message at a time, each answered once and in time: are requests counted, do edits build on each other, are the days of one edit, do jobs live the life of `JobLifecycle`, each SUCCESS with its one exchange? | 2 jobs, 2 callbacks, 4 entries, 2 edits |
| `mod_finish` | is a PENDING job in the queue, and does no job block its course for ever? | 1 job, 3 BullMQ attempts, 2 entries |
| `mod_stale_plan` | (counterexample) is an edit saved as a whole? | 2 jobs |
| `pref` | is a SUCCESS job recommended something, is a PENDING job queued, does every job finish, do the tables implement `LatestAnswer`? | 2 answers, 1 callback, 2 entries; three environments, the third orderly |
| `accounts` | which sessions survive a revocation, one-time use, limits of codes, guesses and slots, devices that stay signed in | 2 clients, 2 slots, 2 attempts, 2 mails an hour; twelve workloads |
| `courses` | like counts, visited countries and their number, one blog per course | 2 users, 2 countries, 3 rows, 4 requests, 2 at a time; seven worlds |
| `migrations` | does the program ever serve on a schema its entities do not fit, does a migration or a revert fail? | all databases with at most three older forms, or all; MySQL from a new one |

`Attempts` is 3 in the code; 2 is enough to have a first and a repeated attempt,
and the liveness runs of the itineraries use 3. `MaxRetry` is 1 in the code and in
every run. `MaxModifications` is 5 in the code; the instances have fewer requests
than that, so they take 1 or 2 to reach the limit. One job has at most one
original entry and one retried entry per failure callback: where `MaxAdds` is
smaller than that, a failure callback may be left waiting before its `queue.add`,
which no safety property can tell from a slow Redis; the liveness runs have
enough for every path. `MaxCourses` and `MaxEdits` bound the committed
transactions in the same way: 2, so that a job could make the second course, or
edit, that `SettledStays` excludes. `gen_anything` and `mod_anything` have one
callback at a time, which may come again; the theorem `SettledCorrect` has any
number at once.

In `accounts` the limits (3 slots, 5 guesses, 5 codes per hour) are 2, and the
mails and issues of each workload are one more than a limit or enough for two
rotations; a third client adds no step that a second one does not interleave
with, since a request only meets the others through Redis. The workload of overlapping
logins and refreshes with four issues reaches the two survivors that
`RevocationsEndSessions` allows. In `courses` two
requests at a time are enough for every pair of operations, and four in all for a
like, a stale copy of it, and the save that loses it. The older databases of
`migrations` are combined by threes because each later migration looks at one or
two tables.

One run ends in a counterexample; PROJECT.json quotes the line. In
`mod_stale_plan` the chat request saves the course it loaded before an edit was
committed; title, dates and length go back, the days stay.

Deadlock is not checked in the itinerary, preference, account and course runs: a
system in which every job is finished and every request served has no step left.
`migrations` is checked for it.

### What goes wrong, and is not claimed

While modelling, these came out of the code. The properties are stated so that
they hold beside them.

* A POST that times out after Python accepted it is tried again, and two success
  callbacks both pass the status check before either commits: one job, two
  courses, or two edits and two exchanges. Two failure callbacks at once add two
  entries. So callbacks are not idempotent as IMPLEMENTATION_SUMMARY.md:119
  ("Idempotency - Duplicate callbacks safely ignored") and the comment "멱등성" at
  ItineraryCallbackService.ts:102 have it; what holds is `SettledStays`, of
  callbacks that come when nothing works on the job any more.
  `ImplementsLifecycle` and the theorems `CoursesCorrect` and `ExchangesCorrect`
  leave these faults out and say so.
* A failure callback saves PENDING and its `queue.add` is rejected: nothing catches
  that, and the job stays PENDING, since the cron looks for PROCESSING.
* The save of the modification count fails after the job was inserted and before
  it was enqueued. The job stays PENDING, the cron looks for PROCESSING, and the
  course refuses further messages. `ItineraryModification.PendingIsQueued` leaves
  this fault out.
* A cron that re-reads and then saves may fail a job that succeeded in between;
  two requests may both find no active job; an edit may reach a course that was
  completed while Python worked.
* Overlapping logins may leave more than three slots (`SlotsAreLimited` is about
  requests one by one). A device whose slot was evicted and that refreshes
  revokes all sessions of the user, its own successor's included. So does a device
  that refreshes twice at once with one token and keeps the answer written first.
* A refresh that has read its slot when `resetPassword` deletes the slots sets it
  again, and one that is between its `del` and its `set` is not among the keys
  listed: the session survives the forced logout of AuthService.ts:490-497.
  `RevocationsEndSessions` bounds the survivors by the requests that overlap.
* Guesses sent together exceed five per code, each by one (`GuessesAreLimited`
  bounds them by the overlap). A process that dies between `INCR` and `EXPIRE` of
  the hourly counter locks the address out for good.
* `updateProfile` saves the row it loaded, so an account deactivated meanwhile may
  become active again.
* A completion or edit saves a course it loaded before a like; the like stays and
  its count is lost (`disturbed`), though `CourseLikeService` takes a lock
  "트랜잭션으로 Race Condition 방지" (line 49). Viewing a blog fails when a like came
  in since it was loaded: TypeORM would unlink it, and the column is NOT NULL.
* Two overlapping completions of one user may leave the visited countries of both
  and the count of one. The count is never larger than the list
  (`CountedCountriesExist`).
* Reverting the first Postgres migration always fails: its `down` drops the table
  `migrations` that TypeORM then writes to.
* On MySQL a new database never gets past `ConvertCourseSurveyColumnsToEnum`: no
  earlier migration creates `course_survey_table`. The later MySQL migrations
  would not succeed either (`1771800000000` drops what was never created,
  `1771900000000` and `1772000000000` are written in Postgres' dialect,
  `1772900000000` alters a table by its old name). Deployments use Postgres
  (`docker-compose`), yet `data-source.ts` defaults to MySQL.

### Fairness

`FairSpec` assumes weak fairness of each request and callback handler (Node's
event loop runs the continuation of every promise), of the worker (BullMQ hands
out waiting entries and runs `process` to its end), of the cron (every minute)
and of the passing of ten minutes. Python is given no fairness at all. Accounts,
courses and migrations state no liveness: nothing retries there, and what a
client leaves half done stays so.

## 4. Proofs

The theorems hold for every set of jobs, surveys, courses, callbacks, pages and
users, every finite set of clients and countries, every workload, every limit
and, unless a hypothesis is named, every set of faults. The constants are assumed
to be no more than the named assumptions say (`ConstantsAssumption`,
`QueueAssumption`, `RecommendationAssumption`, `WorkloadAssumption`,
`ClientsAssumption`, `EmailAssumption`, `SessionAssumption`, `TicketAssumption`,
`BoundsAssumption`, `CountriesAssumption`), which TLC evaluates on every run.
`ClientsAssumption` asks for a client at least: the limits that grow with the
overlap are `RateMax + Width - 1` and the like, and `Width` counts requests.

Every safety and action property that the itinerary, preference, account and
course runs check is the statement of a theorem.

`BullQueue_proofs` and `ItineraryJobTable_proofs` hold what the pipelines need:
what each queue operation does to the sequence and its types, what a save or
a step of the cron may leave in a row, which status each method of the entity
leaves and that its save writes that status, and that a deletion keeps it.

### JobLifecycle, and what is inherited from it

`ResultsCorrect`: a job has exactly one result when it is SUCCESS and none
otherwise. `EndCorrect`: a job that ended keeps its status and result. Both are
proved of the abstract module, for any set of jobs, and reach the pipelines
through the refinement: `OutcomeCorrect` and `EndCorrect` below are proved by
`LifecycleCorrect` and these two, without another look at an action.

### ItineraryGeneration_proofs

| Theorem | Property | Hypothesis | Invariant |
|---|---|---|---|
| `TypeCorrect` | `TypeOK` | | itself |
| `SuccessCorrect` | `SuccessNamesItsCourse` | | `SuccessInv` |
| `SurveyCorrect` | `SurveyNamesItsLastCourse` | | itself |
| `PendingCorrect` | `PendingIsQueued` | `NothingIsLost` | `QueueInv`, `EntryIsActive` |
| `SettledCorrect` | `SettledStays` | | `TypeOK` |
| `CoursesCorrect` | (`OneCoursePerJob`) | `NothingIsRepeated` | `OnePieceOfWork`, `EntryIsActive` |
| `RetriesCorrect` | `RetriesAreBounded` | and `NothingIsSlow` | and `BudgetInv`, `CronSleeps` |
| `FinalCorrect` | (`TerminalIsFinal`) | and `NothingIsDeleted` | `LifeInv` |
| `LifecycleCorrect` | `ImplementsLifecycle` | `NothingIsRepeated`, `NothingIsSlow`, no `surveyGone` | `LifeInv` |
| `OutcomeCorrect` | (`StatusTellsTheCourse`) | the same | `JobLifecycle` |
| `EndCorrect` | (`Lifecycle!EndIsFinal`) | the same | `JobLifecycle` |

The hypotheses name faults that are absent: `NothingIsLost` the failing queue,
database and process (and deleted courses); `NothingIsRepeated` a POST or
`queue.add` that arrives though it is reported as failed, a second callback, and
a crash; `NothingIsSlow` a job that takes ten minutes; `NothingIsDeleted` deleted
surveys and courses. Under the faults left out, the properties fail (section 3).
A property in brackets is stated and proved but checked by no run: the others
that are checked say as much of that environment.

* `SettledCorrect` needs no more than the types: `Settled` is itself what every
  step preserves, since an entry that is used up is never handed out again, a
  callback begins by looking at the status and the cron by looking again.

* `SuccessInv`: a row could become SUCCESS with a foreign course only if a stale
  entity carried SUCCESS or a course it had no right to, so the invariant also
  says that every copy a handler or the cron holds was loaded from an unfinished
  job, and that every course in a row or a copy was made for that job.
* `QueueInv`: the worker may hold a copy that is already PROCESSING, so that its
  save does not write the status and does not account for a job that a callback
  reset meanwhile. `ResetBehindTheWorker` says that in that case another entry
  waits or is about to be added.
* `OnePieceOfWork`: what a job is worked on by is in one place at a time: an entry
  that waits or that the worker has yet to post, a generation Python has yet to
  answer, a callback under way, or, in the end, a course. A step moves it from
  one place to the next; nothing makes a second one.
* `BudgetInv`: when a failure callback compares `attempt_count` with the limit, it
  has counted every entry of the job. The count is the row's, the worker's copy's
  or the callback's, depending on where the piece of work is.
* `LifeInv` adds `Stage`: the status of a row and of the copies of it follow from
  where the piece of work is. Each step is then an `Edge`: it leaves every status
  and the makers of the courses alone, or moves one job along an edge of
  `JobLifecycle`, with a course exactly when it becomes SUCCESS. Courses may be
  deleted meanwhile: that clears `travel_course_id` and no status, which is why
  the refinement needs less than `FinalCorrect`, a statement about whole rows. A
  deleted survey takes the job's row along, an edge `JobLifecycle` does not have.

### ItineraryModification_proofs

| Theorem | Property | Hypothesis | Invariant |
|---|---|---|---|
| `TypeCorrect` | `TypeOK` | | with `OwnCourses` |
| `CountCorrect` | `CountWithinLimit` | | `CountInv` |
| `EditsStayCorrect` | `EditsStayInTheirCourse` | | `EditInv` |
| `AnswersCorrect` | `SuccessIsAnswered` | | `AnsweredInv` |
| `PendingCorrect` | `PendingIsQueued` | `NothingIsLost` | `QueueInv`, `EntryIsActive` |
| `SettledCorrect` | `SettledStays` | | `TypeOK` |
| `ExchangesCorrect` | (`OneExchangePerJob`) | `NothingIsRepeated` | `OnePieceOfWork`, `EntryIsActive` |
| `LifecycleCorrect` | `ImplementsLifecycle` | `NothingIsRepeated`, no `slow` | `LifeInv` |
| `OutcomeCorrect` | (`StatusTellsTheExchange`) | the same | `JobLifecycle` |
| `EndCorrect` | (`Lifecycle!EndIsFinal`) | the same | `JobLifecycle` |
| `FailedCorrect` | `FailedLeavesTheCourse` | and no `slow` | and `AnsweredIsDone`, `CallbacksFoundTheJobOpen`, `CronSleeps` |
| `RequestsCorrect` | `RequestsAreCounted` | no `overlap`, no completion request | `OneRequestAtATime`, `CallbacksEnqueued`, `CountsInv` |
| `DaysCorrect` | `DaysFromOneEdit` | `OneAtATime` | `EditsInv` |
| `EditsBuildCorrect` | `EditsBuildOnEachOther` | `OneAtATime` | `EditsInv` |

* `OwnCourses`: a job's row and every copy of it in flight name the course of its
  request or none. Without it `days[c]` could be asked for a course that does
  not exist, so the types are not inductive alone.
* `CountInv`: a request that passed `canModify` holds a count below the limit and
  adds one to that copy, never to the row, so no mix of old and new columns
  exceeds it. The invariant says this of every copy in flight.
* `EditInv`: a copy of a course held by a request or a completion request carries
  in `meta` an edit of that course, because a save may bring it back after the
  course was deleted.
* `AnsweredInv`: a save that falls between another's reload and its `UPDATE`
  leaves the intent of the row, or that of the copy. So the intent is right
  wherever it is, on rows and copies of jobs that are no success too.
* `LifeInv`: as for generation, `Stage` ties the status to the place of the work and
  each step is an `Edge`. No course and no request is in it, so overlapping
  messages, completion requests, lost calls and deleted courses are all allowed: a
  job whose course is gone still ends once, with one exchange or in FAILED. The
  run needs no invariant for the exchange any more; `ExchangesCorrect` stays,
  since slow jobs, which end and go on, still have one exchange at most.
* `CountsInv`: the requests of a course that are enqueued, or saved and about to
  be, are no more than its count; the copy that the one request in progress
  holds has the count that is there. A second request or a completion request
  in between breaks exactly that, hence the hypothesis.
* `EditsInv`: with `OneAtATime` (nothing repeated or slow, one message at a time, no
  course deleted), open work means an active row (`WorkIsActive`), so the check
  for active jobs keeps jobs of a course apart (`OneJobPerCourse`), and the plan
  that the worker, Python and the callback carry is what `days` holds
  (`PlanIsFresh`). Both properties are read off it.

### PreferenceRecommendation_proofs

* `TypeCorrect`.
* `SuccessCorrect` (`SuccessHasRecommendations`): the row is marked after the
  recommendations are saved, in two calls. `SuccessInv` adds `MarksAnswered`
  (whoever is about to write SUCCESS, or holds a copy that says so, holds it of a
  job that has its recommendations) and `FreshIsAbsent` (an answer not given
  yet has left nothing in the tables).
* `LatestCorrect` (`OnlyTheLatestAnswerCounts`, part of what `ImplementsLatestAnswer`
  says in the run): inductive with the types; the foreign keys do the work, since
  no stale save can insert a row of a preference that is gone.
* `PendingCorrect` (`PendingIsQueued`), for `Dependable` instances: `QueueInv` adds
  `WorkerHolds` (the worker's own entry does not wait, and a row it loaded past
  PENDING stays past it) and `FreshIsAbsent`.
* `AnswersCorrect` (`ImplementsLatestAnswer`), in every environment. `TableInv` is
  what holds in all of them: the invariants above, and no recommendations without
  a row. In an orderly one `LifeInv` holds too: the cron sleeps, the work on an
  answer is in one place (`OnePieceOfWork`), and the status, the worker's copy, the
  callback's copy and the recommendations saved are those of that place (`Stage`).
  Each action is then a step of `LatestAnswer` or a stutter; in other
  environments the saves that overtook another are its `Disorder`.
* `EndCorrect` and `RecommendedCorrect`, read off the refinement: in an orderly
  environment a job that ended stays as it is until the user answers again, and
  recommendations are saved once for an answer.

### Accounts_proofs

What a property asks of a workload (requests one by one, no failing call, honest
devices) is part of the property, so no theorem has a hypothesis of its own.

* `TypeCorrect`: `TypeInv` adds `UserKnown`: a one-time code, and a request that
  presented one, belong to a user that exists. Otherwise reactivating would turn
  "no row" into something that is no row either.
* `TicketsCorrect` (`TicketsAreUsedOnce`): a code that is stored was never
  accepted (`TicketInv`). Every step is shown to make, redeem or expire one code
  or to leave them alone (`StepOfTickets`).
* `RevocationsCorrect` (`RevocationsEndSessions`): a session is `Alive` if it has a
  slot or a request is refreshing it. Only a login adds to these, and it begins a
  session of its own. When a revocation lists the keys, what is alive and not
  listed is being refreshed by other requests (`Listing`), one session each; when
  it has deleted the slots, so is what is left of its list (`Ended`). Holds with
  any overlap, and with requests lost half way; for requests one by one it uses
  `SlotInv`, which says that there is one at a time.
* `SlotsCorrect` (`SlotsAreLimited`), for requests one by one: `SlotInv` follows
  the login through its calls. While it reads the slots for the oldest, all that
  are live are among those read or still to be read; the one it chooses may
  have expired since, but then the rest are fewer anyway; a refresh writes to a
  slot that is counted already.
* `CodesCorrect` (`CodesAreNeeded`): `SignupInv` says that before a right code for
  sign-up there is no flag, nobody past the look at the flag, and no local
  account, also in the copy `updateProfile` is about to save. `ResetsInv` counts
  the requests that used the flag or still may (`Entitled`): resets and these are
  no more than the right codes times the clients, or, one by one, than the codes.
* `MailsCorrect` (`MailsAreLimited`): the counter lags behind the mails by exactly
  the requests that mailed and have not counted (`Uncounted`); counter and the
  requests past the look at it (`Sending`) stay below limit and overlap together;
  a counter that has begun expires, or the request that sets this is under way.
* `GuessesCorrect` (`GuessesAreLimited`): overlapping, each time the counter starts
  from 0 while the code stays, `Budget` wrong codes may pass, and those of the
  time that has begun are counted or about to be (`Guesses`). One by one, every
  wrong code of the stored code is counted and the counter never ends before the
  code (`OneGuess`).
* `DevicesCorrect` (`DevicesStaySignedIn`): `DeviceInv` gives every device a slot
  of its own and every slot a device. So one that signs in finds fewer slots
  than there are devices, and evicts none; a refresh writes the slot it read.

The property `DevicesStaySignedIn` has the form it has because its proof failed
for an earlier one: a password reset logs out honest devices too, and a device
that signs in again through OAuth or reactivation while it holds a token leaves
a second slot behind, so that the device with the oldest slot is logged out.

### Courses_proofs

* `TypeCorrect`: with `Shapes`, what a request is about to do and hold.
* `BlogsCorrect` (`OneBlogPerCourse`): a blog that was deleted may be saved again,
  so a row and every copy of it in flight must agree on the course they tell of
  (`Agreed`), and what a request names without holding its row is of the kind it
  was checked for (`Named`).
* `CountsCorrect` (`CountedCountriesExist`): a commit counts the countries it has
  written, all of which are in the list then; what another transaction wrote only
  adds to them. Inductive with the types.
* `LikesCorrect` (`LikesAreCounted`): `Locking` (a locked row has one holder), and
  `LikeInv`: who holds the lock sees the count and the like that are there; a copy
  about to be saved has the count that is there, or its page is `disturbed`.
* `VisitedCorrect` (`VisitedFollowsCompleted`): a transaction computes dates from
  the rows it sees, so `VisitInv` says that what a transaction without overlap
  sees stays what it was until it commits, as long as no copy older than a
  completion may still be saved.

Two errors of the model came to light in these proofs: a blog saved after its
deletion could make a second blog of its course, which the unique key refuses,
and a completion that failed gave back locks it did not hold. Both are put right,
and a seventh world of `courses` has the first.

### Only model-checked

* Liveness (`JobsFinish`, `CourseIsFreed`): fairness and `ENABLED` are beyond the
  prover.
* `MigrationsSucceed` and `EntitiesFit`: what they say is the outcome of folding
  well over a hundred statements into a schema. That is a computation on data,
  which TLC does; the prover has no induction over such folds.

## 5. Not modelled, and the plan

Not modelled, with the reason:

* listings, lookups and my page: they read in one query and return;
* DTO validation, guards, logging, the exception filter, module wiring: they keep
  no state;
* notifications, S3 images, feedback to Discord, the admin CRUD of countries,
  regions and places: single statements on rows that nothing else computes from;
* `AdminAuthService`'s tokens: the code of `AuthService` a second time, over
  keys of its own;
* the text of an itinerary (places, tags, times), images and hash tags: written
  in the transaction that makes or replaces a course or blog and never read back
  by what is modelled;
* `UserVisitedCountryService`'s writes, and `createCourse` and `incrementViewCount`
  of `TravelCourseService`: no controller reaches them;
* likes of regions: an insert and delete under a unique key, counted by `COUNT(*)`;
* the Redis message the cron publishes: it has no subscriber;
* the last 13 MySQL migrations, which a new MySQL database does not reach, and
  reverting on MySQL; statements that fail because of the rows in a table.

Open, in this order:

| What | Where | What it should show |
|---|---|---|
| createSurvey's checks of dates and destinations | a module `SurveyRanges` | the ranges accepted are ordered and inside the trip, against a reference definition |
