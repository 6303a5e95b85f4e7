-------------------------- MODULE SchemaMigrations --------------------------
\* Starting the program in production: npm run migration:run && node dist/main.
\* TypeORM runs every migration its table does not list, in one transaction,
\* and the program is started when that has committed.  migration:revert undoes
\* the last one.  The database is Postgres or MySQL, by DB_TYPE; MySQL commits at
\* each statement that changes the schema.
EXTENDS Migrations

MySQL == INSTANCE MySqlMigrations

\* The older databases to start from, each a set of the forms below.
CONSTANT Databases

VARIABLES
  dialect,   \* "postgres" or "mysql"
  schema,    \* what is committed
  applied,   \* how many migrations the table lists
  work,      \* the run's transaction: the migration it is at, its schema, and
             \* whether it is open still
  app,       \* what the deployment is doing
  cut        \* a MySQL run ended within a migration (read by the properties only)

vars == <<dialect, schema, applied, work, app, cut>>

Idle == [at |-> 0, schema |-> {}, open |-> FALSE]
History == {Table("migrations")}

-----------------------------------------------------------------------------
\* A database whose first migration ran when the entities were older, in the
\* forms that the later migrations look for.
OlderForms ==
  << [form |-> "one job per survey",
      undo |-> EnsureItineraryModificationColumns.down \o
        << [Statement EXCEPT !.adds = {Required("itinerary_job_table", "survey_id"),
              UniqueKey("itinerary_job_table", "UQ_904c1d86d75f038788d730c8460"),
              UniqueKey("itinerary_job_table", "REL_bd1500db8cd8a66ce238dd6792")}] >>],
     [form |-> "job types are text",
      undo |-> << [Statement EXCEPT !.drops = {DefaultOf("itinerary_job_table", "job_type"),
                     Typed("itinerary_job_table", "job_type", JobType),
                     Typed("itinerary_job_table", "intent_status", IntentStatus)}],
                  DropTypeIfExists(JobType), DropTypeIfExists(IntentStatus) >>],
     [form |-> "no preference jobs",
      undo |-> AlignPostgresCourseAndPreferenceSchema.down
                 \o << DropTypeIfExists("preference_job_table_status_enum") >>],
     [form |-> "surveys are text",
      undo |-> << [Statement EXCEPT !.drops = {x \in Entities : \E e \in Range(SurveyEnums) : x[3] = e[2]}] >>
                 \o [i \in DOMAIN SurveyEnums |-> DropTypeIfExists(SurveyEnums[i][2])]],
     [form |-> "before blogs and likes of regions",
      undo |-> AddBlogAssetsAndRoadmapRelation.down \o AddPlaceCategoryToPlaceTable.down
                 \o AddIsCompletedToTravelCourse.down \o CreateRegionLikeTable.down
                 \o AddSourceCourseIdToTravelCourse.down \o AddModificationCountToTravelCourse.down
                 \o ExpandCoursePlaceVisitTimeLength.down \o CreateAdminTable.down
                 \o AddRegionCodeToRegionTable.down],
     [form |-> "surveys have a budget",
      undo |-> << [Statement EXCEPT !.adds =
                     {Column(t, "budget") : t \in {"course_survey_table", "roadmap_survey_table"}}
                       \cup {Required(t, "budget") : t \in {"course_survey_table", "roadmap_survey_table"}}] >>],
     [form |-> "course dates without default", undo |-> EnsureTravelCourseTimestampDefaults.down],
     [form |-> "course_day", undo |-> EnsureCourseDayTable.down],
     [form |-> "no days", undo |-> << DropTableIfExists("course_day_table"), DropTableIfExists("course_day") >>],
     [form |-> "date_id",
      undo |-> << RenameColumnIfNeeded("course_place", "course_day_id", "date_id"),
                  AddColumnIfMissing("course_place", "date_id", {}),
                  [Statement EXCEPT !.adds = {Required("course_place", "date_id"),
                     Key("course_place", "FK_a2f3d65b296029c3bee511cf20b")}] >>],
     [form |-> "place_id2", undo |-> << RenameColumnIfNeeded("course_place", "place_id", "place_id2") >>],
     [form |-> "names ending in table",
      undo |-> << [Statement EXCEPT !.drops = {x \in Entities :
                     /\ x[1] \in {"place", "course_place", "course_survey_companion", "course_survey_theme"}
                     /\ x[3] \notin {"table", "column", "default"}}] >> \o LegacyNames_down],
     [form |-> "travel_course_table",
      undo |-> << RenameColumnIfNeeded("travel_course", "id", "course_id"),
                  RenameTableIfNeeded("travel_course", "travel_course_table") >>] >>

Forms == {OlderForms[i].form : i \in DOMAIN OlderForms}
OlderSchema(forms) ==
  FoldLeft(LAMBDA s, o : IF o.form \in forms THEN ExecuteAll(s, o.undo) ELSE s,
           Entities \cup History, OlderForms)

\* A new database has TypeORM's table at once: it is made outside the transaction.
\* A MySQL database is new.
Init ==
  /\ work = Idle
  /\ app = "stopped"
  /\ cut = FALSE
  /\ \/ dialect \in {"postgres", "mysql"} /\ schema = History /\ applied = 0
     \/ \E forms \in Databases : dialect = "postgres" /\ schema = OlderSchema(forms) /\ applied = 1

-----------------------------------------------------------------------------
AtRest == app \in {"stopped", "upgrade failed", "revert failed"}

Run ==
  /\ AtRest
  /\ work' = [at |-> applied + 1, schema |-> schema, open |-> TRUE]
  /\ app' = "starting"
  /\ UNCHANGED <<dialect, schema, applied, cut>>

\* The transaction is rolled back and the program not started.
Fail(how) == work' = Idle /\ app' = how /\ UNCHANGED <<dialect, schema, applied, cut>>

\* One migration and its row in TypeORM's table.  The first one synchronizes on
\* a connection of its own: what it created stays when the transaction does not.
Migrate ==
  LET migrated == ExecuteAll(work.schema, Append(Migrations[work.at].up, Update("migrations", {})))
  IN  /\ app = "starting"
      /\ dialect = "postgres"
      /\ work.at <= Len(Migrations)
      /\ IF migrated = Broken
         THEN Fail("upgrade failed")
         ELSE /\ work' = [work EXCEPT !.at = @ + 1, !.schema = migrated]
              /\ schema' = IF work.at = 1 THEN ExecuteAll(schema, Migrations[1].up) ELSE schema
              /\ UNCHANGED <<dialect, applied, app, cut>>

Commit ==
  /\ app = "starting"
  /\ work.at > Len(IF dialect = "mysql" THEN MySQL!Migrations ELSE Migrations)
  /\ schema' = work.schema
  /\ applied' = work.at - 1
  /\ work' = Idle
  /\ app' = "serving"
  /\ UNCHANGED <<dialect, cut>>

\* The process ends before COMMIT.
Crash ==
  /\ app = "starting"
  /\ dialect = "postgres"
  /\ Fail("stopped")

\* On MySQL, after the first n statements of a migration.  The first that
\* changes the schema ends the transaction: from then on each statement, and
\* each row of TypeORM's table, is committed as it is executed.
Executed(n) == ExecuteAll(work.schema, SubSeq(MySQL!Migrations[work.at], 1, n))
StillOpen(n) ==
  /\ work.open
  /\ \A i \in 1 .. n : LET st == MySQL!Migrations[work.at][i]
                       IN  ~(st.ddl /\ Applies(Executed(i - 1), st))
Forgotten(s) == {x \in s : x[3] # "found"}

AtMySqlMigration == /\ app = "starting"
                    /\ dialect = "mysql"
                    /\ work.at <= Len(MySQL!Migrations)

MigrateMySql ==
  LET n == Len(MySQL!Migrations[work.at])
  IN  /\ AtMySqlMigration
      /\ Executed(n) # Broken
      /\ schema' = Forgotten(Executed(n))
      /\ work' = [at |-> work.at + 1, schema |-> schema', open |-> StillOpen(n)]
      /\ applied' = IF StillOpen(n) THEN applied ELSE work.at
      /\ UNCHANGED <<dialect, app, cut>>

\* A statement fails, or the process ends: what is not committed is lost, the
\* row of this migration with it.
BreakOffMySql ==
  /\ AtMySqlMigration
  /\ \E n \in 0 .. Len(MySQL!Migrations[work.at]) :
       LET fails == n < Len(MySQL!Migrations[work.at]) /\ Executed(n + 1) = Broken
           tried == IF fails THEN n + 1 ELSE n
       IN  /\ Executed(n) # Broken
           /\ app' \in {"stopped"} \cup (IF fails THEN {"upgrade failed"} ELSE {})
           /\ applied' = IF StillOpen(IF app' = "stopped" THEN n ELSE tried) THEN applied ELSE work.at - 1
           /\ schema' = Forgotten(Executed(n))
           /\ cut' = (cut \/ (app' = "stopped" /\ n > 0))
  /\ work' = Idle
  /\ UNCHANGED dialect

Stop ==
  /\ app = "serving"
  /\ app' = "stopped"
  /\ UNCHANGED <<dialect, schema, applied, work, cut>>

\* The down of the last migration, and its row deleted, in one transaction.  On
\* MySQL it is left out.
Revert ==
  LET reverted == ExecuteAll(schema, Append(Migrations[applied].down, Update("migrations", {})))
  IN  /\ AtRest
      /\ dialect = "postgres"
      /\ applied > 0
      /\ IF reverted = Broken
         THEN Fail("revert failed")
         ELSE /\ schema' = reverted /\ applied' = applied - 1
              /\ work' = Idle /\ app' = "stopped" /\ UNCHANGED <<dialect, cut>>

Next == Run \/ Migrate \/ Commit \/ Crash \/ MigrateMySql \/ BreakOffMySql \/ Stop \/ Revert

Spec == Init /\ [][Next]_vars

-----------------------------------------------------------------------------
\* Columns of the entities that may be left empty though an older table asks
\* for them: a modification job has no survey.
MayBeNull == {Column("itinerary_job_table", "survey_id")}

\* What makes an INSERT of the program fail: a column it does not give and that
\* has no default, a value longer than the column, a key no entity has.
Obstacles(s) ==
  {x \in s : \/ x[3] \in {"unique", "short"}
             \/ /\ x[3] = "required"
                /\ DefaultOf(x[1], x[2]) \notin s
                /\ Column(x[1], x[2]) \notin Entities \ MayBeNull}

\* On Postgres no migration fails, on a new database or an older one, whatever
\* was reverted before and wherever a run was cut off; and no revert does, but
\* that of the first, which drops the table its row is in.  On MySQL a new
\* database is brought as far as the last migration before
\* ConvertCourseSurveyColumnsToEnum, which has no table to work on; the run
\* fails there, or where an earlier one was cut off within a migration.
MigrationsSucceed ==
  /\ app = "upgrade failed" =>
       dialect = "mysql" /\ (applied = Len(MySQL!Migrations) - 1 \/ cut)
  /\ app = "revert failed" => applied = 1

\* When the program serves, the database has every column its entities name,
\* with the defaults its INSERTs rely on, and nothing left over refuses them.
EntitiesFit ==
  app = "serving" =>
    /\ {x \in Entities : x[3] \in {"table", "column", "default"}} \subseteq schema
    /\ Obstacles(schema) = {}
=============================================================================
