----------------------------- MODULE Migrations -----------------------------
\* The migrations for Postgres, src/src/database/migrations/postgres, each with
\* the statements of its up and of its down.
EXTENDS Entities

\* synchronize(false) creates what the entities ask for.  DROP SCHEMA takes
\* everything, TypeORM's table of the migrations that ran included.
InitPostgresSchema ==
  [up   |-> << [Statement EXCEPT !.adds = Entities] >>,
   down |-> << [Statement EXCEPT !.gone = {<<"*", "*">>}] >>]

-----------------------------------------------------------------------------
JobType      == "itinerary_job_table_job_type_enum"
IntentStatus == "itinerary_job_table_intent_status_enum"

\* The old type's default cannot be cast to an enum: ALTER COLUMN ... TYPE fails
\* while the column has one.
AlterJobColumn(c, name) ==
  [AlterEnumColumnIfNeeded("itinerary_job_table", c, name, {}) EXCEPT
     !.clash = {DefaultOf("itinerary_job_table", c)}]

EnsureJobTypeColumn ==
  << [AddColumnIfMissing("itinerary_job_table", "job_type", {"job_type"}) EXCEPT
        !.adds = @ \cup {Typed("itinerary_job_table", "job_type", JobType)}],
     AlterJobColumn("job_type", JobType),
     SetDefault("itinerary_job_table", "job_type") >>

EnsureIntentStatusColumn ==
  << [AddColumnIfMissing("itinerary_job_table", "intent_status", {}) EXCEPT
        !.adds = @ \cup {Typed("itinerary_job_table", "intent_status", IntentStatus)}],
     AlterJobColumn("intent_status", IntentStatus) >>

EnsureItineraryModificationColumns ==
  [up |-> IfTable("itinerary_job_table",
     << EnsureEnumType(JobType), EnsureEnumType(IntentStatus) >>
       \o EnsureJobTypeColumn \o EnsureIntentStatusColumn
       \o << AddColumnIfMissing("itinerary_job_table", "diff_keys", {}),
             AddColumnIfMissing("itinerary_job_table", "user_query", {}),
             CreateIndexIfMissing("itinerary_job_table", "idx_itinerary_job_travel_course_type",
               {"travel_course_id", "job_type", "created_at"}) >>),
   down |-> IfTable("itinerary_job_table",
     << DropConstraintIfExists("itinerary_job_table", "idx_itinerary_job_travel_course_type"),
        DropColumnIfExists("itinerary_job_table", "user_query"),
        DropColumnIfExists("itinerary_job_table", "diff_keys"),
        DropColumnIfExists("itinerary_job_table", "intent_status"),
        DropColumnIfExists("itinerary_job_table", "job_type"),
        DropTypeIfExists(IntentStatus), DropTypeIfExists(JobType) >>)]

-----------------------------------------------------------------------------
RenameTravelCourse ==
  << RenameTableIfNeeded("travel_course_table", "travel_course"),
     RenameColumnIfNeeded("travel_course", "course_id", "id") >>

CreatePreferenceTables ==
  << EnsureEnumType("preference_job_status_enum"),
     LET create == CreateTableIfMissing("preference_job_table",
           {"id", "created_at", "updated_at", "user_id", "preference_id", "status", "error_code",
            "error_message", "retry_count", "started_at", "completed_at"},
           {"created_at", "updated_at", "status", "retry_count"}, {})
     IN  [create EXCEPT !.needs = {Type("preference_job_status_enum")},
            !.adds = @ \cup {Typed("preference_job_table", "status", "preference_job_status_enum")}],
     CreateTableIfMissing("preference_recommendation_table",
       {"id", "created_at", "updated_at", "job_id", "region_id", "region_name"},
       {"created_at", "updated_at"}, {}),
     CreateIndexIfMissing("preference_job_table", "idx_preference_job_user_id", {"user_id"}),
     CreateIndexIfMissing("preference_job_table", "idx_preference_job_preference_id", {"preference_id"}),
     CreateIndexIfMissing("preference_job_table", "idx_preference_job_status", {"status"}),
     CreateIndexIfMissing("preference_recommendation_table", "idx_preference_recommendation_job_id", {"job_id"}),
     AddForeignKeyIfMissing("preference_job_table", "fk_preference_job_user",
       {Column("preference_job_table", "user_id"), Column("user_table", "id")}),
     AddForeignKeyIfMissing("preference_job_table", "fk_preference_job_preference",
       {Column("preference_job_table", "preference_id"), Column("user_preference", "id")}),
     AddForeignKeyIfMissing("preference_recommendation_table", "fk_preference_recommendation_job",
       {Column("preference_recommendation_table", "job_id"), Column("preference_job_table", "id")}),
     AddForeignKeyIfMissing("preference_recommendation_table", "fk_preference_recommendation_region",
       {Column("preference_recommendation_table", "region_id"), Column("region_table", "id")}) >>

AlignPostgresCourseAndPreferenceSchema ==
  [up   |-> RenameTravelCourse \o CreatePreferenceTables,
   down |-> << DropTableIfExists("preference_recommendation_table"),
               DropTableIfExists("preference_job_table"),
               DropTypeIfExists("preference_job_status_enum") >>]

-----------------------------------------------------------------------------
LegacyNames_up ==
  << RenameTableIfNeeded("place_table", "place"),
     RenameTableIfNeeded("course_place_table", "course_place"),
     RenameTableIfNeeded("course_survey_destination_table", "course_survey_destination"),
     RenameTableIfNeeded("course_survey_companion_table", "course_survey_companion"),
     RenameTableIfNeeded("course_survey_theme_table", "course_survey_theme"),
     RenameColumnIfNeeded("place", "id", "place_id"),
     RenameColumnIfNeeded("place", "place_description", "description"),
     RenameColumnIfNeeded("course_place", "id", "course_place_id"),
     RenameColumnIfNeeded("course_survey_table", "id", "course_survay_id"),
     RenameColumnIfNeeded("course_survey_companion", "survey_id", "course_survay_id"),
     RenameColumnIfNeeded("course_survey_theme", "survey_id", "course_survay_id"),
     RenameColumnIfNeeded("course_survey_destination", "survey_id", "course_survey_id") >>

LegacyNames_down ==
  << RenameColumnIfNeeded("course_survey_destination", "course_survey_id", "survey_id"),
     RenameColumnIfNeeded("course_survey_theme", "course_survay_id", "survey_id"),
     RenameColumnIfNeeded("course_survey_companion", "course_survay_id", "survey_id"),
     RenameColumnIfNeeded("course_survey_table", "course_survay_id", "id"),
     RenameColumnIfNeeded("course_place", "course_place_id", "id"),
     RenameColumnIfNeeded("place", "description", "place_description"),
     RenameColumnIfNeeded("place", "place_id", "id"),
     RenameTableIfNeeded("course_survey_theme", "course_survey_theme_table"),
     RenameTableIfNeeded("course_survey_companion", "course_survey_companion_table"),
     RenameTableIfNeeded("course_survey_destination", "course_survey_destination_table"),
     RenameTableIfNeeded("course_place", "course_place_table"),
     RenameTableIfNeeded("place", "place_table") >>

AlignPostgresLegacyNames == [up |-> LegacyNames_up, down |-> LegacyNames_down]

EnsureCourseDayTable ==
  [up |->
     << RenameTableIfNeeded("course_day", "course_day_table"),
        CreateTableIfMissing("course_day_table", {"id", "course_id", "day_number", "date"}, {}, {}),
        RenameColumnIfNeeded("course_day_table", "day_id", "id"),
        RenameColumnIfNeeded("course_day_table", "travel_course_id", "course_id"),
        RenameColumnIfNeeded("course_place", "day_id", "course_day_id") >>,
   down |->
     << RenameColumnIfNeeded("course_place", "course_day_id", "day_id"),
        RenameColumnIfNeeded("course_day_table", "course_id", "travel_course_id"),
        RenameColumnIfNeeded("course_day_table", "id", "day_id"),
        RenameTableIfNeeded("course_day_table", "course_day") >>]

FixCoursePlaceDayColumn ==
  [up |->
     << RenameTableIfNeeded("course_place_table", "course_place"),
        RenameTableIfNeeded("course_day", "course_day_table"),
        RenameColumnIfNeeded("course_place", "day_id", "course_day_id"),
        RenameColumnIfNeeded("course_place", "date_id", "course_day_id"),
        RenameColumnIfNeeded("course_place", "place_id2", "place_id") >>,
   down |->
     << RenameColumnIfNeeded("course_place", "course_day_id", "day_id"),
        RenameColumnIfNeeded("course_place", "place_id", "place_id2") >>]

-----------------------------------------------------------------------------
\* AlignPostgresSchemaWithEntities.  Its comments on columns are left out.

AlignPreferenceTables ==
  << EnsureEnumType("preference_job_table_status_enum"),
     AlterEnumColumnIfNeeded("preference_job_table", "status", "preference_job_table_status_enum",
       {"preference_job_status_enum"}),
     SetDefaultIfColumnExists("preference_job_table", "status"),
     DropTypeIfExists("preference_job_status_enum_old"),
     SetDefaultIfColumnExists("preference_recommendation_table", "id") >>

AlignCompanionsAndThemes ==
  << EnsureEnumType("course_survey_companion_companion_type_enum"),
     AlterEnumColumnIfNeeded("course_survey_companion", "companion_type",
       "course_survey_companion_companion_type_enum", {}),
     EnsureEnumType("course_survey_theme_theme_type_enum"),
     AlterEnumColumnIfNeeded("course_survey_theme", "theme_type",
       "course_survey_theme_theme_type_enum", {}) >>

SurveyEnums ==
  << <<"budget", "course_survey_table_budget_enum">>,
     <<"is_dense", "course_survey_table_is_dense_enum">>,
     <<"is_planned", "course_survey_table_is_planned_enum">>,
     <<"is_tourist_spots", "course_survey_table_is_tourist_spots_enum">>,
     <<"is_activate", "course_survey_table_is_activate_enum">>,
     <<"is_efficiency", "course_survey_table_is_efficiency_enum">> >>

AlignSurveys ==
  [i \in DOMAIN SurveyEnums |-> EnsureEnumType(SurveyEnums[i][2])]
    \o [i \in DOMAIN SurveyEnums |->
          AlterEnumColumnIfNeeded("course_survey_table", SurveyEnums[i][1], SurveyEnums[i][2], {})]

AlignItineraryJobs ==
  << DropNotNullIfColumnExists("itinerary_job_table", "survey_id"),
     DropConstraintIfExists("itinerary_job_table", "UQ_904c1d86d75f038788d730c8460"),
     DropConstraintIfExists("itinerary_job_table", "REL_bd1500db8cd8a66ce238dd6792") >>

\* A foreign key of one column, checked by its name.
Link(t, key, c, target, id) == AddConstraintIfMissing(t, key, {Column(t, c), Column(target, id)})

AlignForeignKeys ==
  << Link("place", "FK_e95901eff317e7ea8fccfae5165", "region_id", "region_table", "id"),
     Link("course_place", "FK_ccde1c2e24e108348bbc8464e7d", "course_day_id", "course_day_table", "id"),
     Link("course_place", "FK_afb32e50da5f00e17dba0fe97bf", "place_id", "place", "place_id"),
     Link("course_day_table", "FK_82fd58b544e175f2088514f2ede", "course_id", "travel_course", "id"),
     Link("preference_job_table", "FK_eddd67878818dab291ba442b908", "user_id", "user_table", "id"),
     Link("preference_job_table", "FK_91c8ea15e2eb63dcceb5242cc6c", "preference_id", "user_preference", "id"),
     Link("preference_recommendation_table", "FK_97ce4ee17625d50516e5539030c", "job_id", "preference_job_table", "id"),
     Link("preference_recommendation_table", "FK_cf1e3861b419c4bd55143e74e98", "region_id", "region_table", "id"),
     DropConstraintIfExists("itinerary_job_table", "FK_904c1d86d75f038788d730c8460"),
     DropConstraintIfExists("itinerary_job_table", "FK_bd1500db8cd8a66ce238dd6792e"),
     Link("itinerary_job_table", "FK_904c1d86d75f038788d730c8460", "survey_id", "course_survey_table", "course_survay_id"),
     Link("itinerary_job_table", "FK_bd1500db8cd8a66ce238dd6792e", "travel_course_id", "travel_course", "id"),
     Link("roadmap_survey_destination_table", "FK_3e2696c3cc9edb651e061f4a8ac", "survey_id", "roadmap_survey_table", "id"),
     Link("roadmap_survey_destination_table", "FK_b947a863dc7953dedd2ed696edb", "region_id", "region_table", "id") >>

AlignPostgresSchemaWithEntities ==
  [up   |-> AlignPreferenceTables \o AlignCompanionsAndThemes \o AlignSurveys
              \o AlignItineraryJobs \o AlignForeignKeys,
   down |-> << >>]

-----------------------------------------------------------------------------
AddRegionCodeToRegionTable ==
  [up   |-> << EnsureEnumType("region_table_region_code_enum"),
               [AddColumnIfMissing("region_table", "region_code", {}) EXCEPT
                  !.adds = @ \cup {Typed("region_table", "region_code", "region_table_region_code_enum")}] >>,
   down |-> << DropColumnIfExists("region_table", "region_code"),
               DropTypeIfExists("region_table_region_code_enum") >>]

\* Without looking for the table.
CreateAdminTable_Unchecked ==
  [up   |-> << CreateTable("admin_table", {"id", "username", "password_hash"}, {"id"}, {}) >>,
   down |-> << DropTableIfExists("admin_table") >>]

CreateAdminTable ==
  [up   |-> << CreateTableIfMissing("admin_table",
                 {"id", "created_at", "updated_at", "username", "password_hash", "permissions",
                  "is_super_admin", "is_active"},
                 {"id", "created_at", "updated_at", "permissions", "is_super_admin", "is_active"},
                 {"PK_admin_table", "UQ_admin_username"}) >>,
   down |-> << DropTableIfExists("admin_table") >>]

EnsureCourseDayIdDefault ==
  [up   |-> IfTable("course_day_table", << SetDefault("course_day_table", "id") >>),
   down |-> IfTable("course_day_table", << DropDefault("course_day_table", "id") >>)]

EnsurePreferenceUuidDefaults ==
  [up   |-> IfTable("preference_job_table", << SetDefault("preference_job_table", "id") >>)
              \o IfTable("preference_recommendation_table", << SetDefault("preference_recommendation_table", "id") >>),
   down |-> IfTable("preference_job_table", << DropDefault("preference_job_table", "id") >>)
              \o IfTable("preference_recommendation_table", << DropDefault("preference_recommendation_table", "id") >>)]

ExpandCoursePlaceVisitTimeLength ==
  LET longer(t)  == [Statement EXCEPT !.onlyIf = {Column(t, "visit_time")}, !.drops = {Short(t, "visit_time")}]
      shorter(t) == [Statement EXCEPT !.onlyIf = {Column(t, "visit_time")}, !.adds = {Short(t, "visit_time")}]
  IN  [up   |-> << longer("course_place"), longer("course_place_table") >>,
       down |-> << shorter("course_place"), shorter("course_place_table") >>]

\* The key alone.
DropLegacyCoursePlaceDateIdFk_KeepsColumn ==
  [up |-> << DropConstraintIfExists("course_place", "FK_a2f3d65b296029c3bee511cf20b") >>, down |-> << >>]

DropLegacyCoursePlaceDateIdFk ==
  [up   |-> << DropConstraintIfExists("course_place", "FK_a2f3d65b296029c3bee511cf20b"),
               DropColumnIfExists("course_place", "date_id") >>,
   down |-> << >>]

AddModificationCountToTravelCourse ==
  [up   |-> << AddColumnIfMissing("travel_course", "modification_count", {"modification_count"}) >>,
   down |-> << DropColumnIfExists("travel_course", "modification_count") >>]

\* ADD and DROP COLUMN IF [NOT] EXISTS of a table that must be there.
AddSourceCourseIdToTravelCourse ==
  [up   |-> << Update("travel_course", {}),
               AddColumnIfMissing("travel_course", "source_course_id", {}) >>,
   down |-> << Update("travel_course", {}), DropColumnIfExists("travel_course", "source_course_id") >>]

CreateRegionLikeTable ==
  [up   |-> << CreateTableIfMissing("region_like_table",
                 {"id", "created_at", "updated_at", "region_id", "user_id"},
                 {"id", "created_at", "updated_at"},
                 {"PK_region_like_table", "UQ_region_like_region_user", "FK_region_like_region",
                  "FK_region_like_user"}),
               CreateIndexIfMissing("region_like_table", "IDX_region_like_region", {"region_id"}),
               CreateIndexIfMissing("region_like_table", "IDX_region_like_user", {"user_id"}) >>,
   down |-> << DropTableIfExists("region_like_table") >>]

AddIsCompletedToTravelCourse ==
  [up   |-> << Update("travel_course", {}),
               AddColumnIfMissing("travel_course", "is_completed", {"is_completed"}) >>,
   down |-> << Update("travel_course", {}), DropColumnIfExists("travel_course", "is_completed") >>]

AddPlaceCategoryToPlaceTable ==
  [up   |-> << Update("place", {}), AddColumnIfMissing("place", "place_category", {"place_category"}) >>,
   down |-> << Update("place", {}), DropColumnIfExists("place", "place_category") >>]

BackfillTravelCoursePublicFlag == [up |-> << Update("travel_course", {"is_public"}) >>, down |-> << >>]

EnsureTravelCourseTimestampDefaults ==
  [up   |-> << SetDefaultIfColumnExists("travel_course", "created_at"),
               SetDefaultIfColumnExists("travel_course", "updated_at") >>,
   down |-> << [DropDefault("travel_course", "created_at") EXCEPT !.onlyIf = @ \cup {Column("travel_course", "created_at")}],
               [DropDefault("travel_course", "updated_at") EXCEPT !.onlyIf = @ \cup {Column("travel_course", "updated_at")}] >>]

BackfillCopiedTravelCoursesPrivate ==
  [up |-> << Update("travel_course", {"source_course_id", "is_public"}) >>, down |-> << >>]

AddBlogAssetsAndRoadmapRelation ==
  [up |-> IfTable("travel_blog_table",
     << AddColumnIfMissing("travel_blog_table", "travel_course_id", {}),
        AddForeignKey("travel_blog_table", "FK_travel_blog_travel_course",
          {Column("travel_blog_table", "travel_course_id"), Column("travel_course", "id")}),
        CreateIndexIfMissing("travel_blog_table", "UQ_travel_blog_travel_course", {"travel_course_id"}),
        CreateTableIfMissing("blog_image_table",
          {"id", "created_at", "updated_at", "image_url", "sort_order", "travel_blog_id"},
          {"id", "created_at", "updated_at", "sort_order"},
          {"PK_blog_image_table", "FK_blog_image_travel_blog"}),
        CreateIndexIfMissing("blog_image_table", "IDX_blog_image_travel_blog", {"travel_blog_id"}),
        CreateIndexIfMissing("blog_image_table", "IDX_blog_image_sort_order", {"sort_order"}),
        CreateTableIfMissing("blog_hashtag_table",
          {"id", "created_at", "updated_at", "tag_name", "travel_blog_id"},
          {"id", "created_at", "updated_at"},
          {"PK_blog_hashtag_table", "UQ_blog_hashtag_blog_tag", "FK_blog_hashtag_travel_blog"}),
        CreateIndexIfMissing("blog_hashtag_table", "IDX_blog_hashtag_travel_blog", {"travel_blog_id"}),
        CreateIndexIfMissing("blog_hashtag_table", "IDX_blog_hashtag_tag_name", {"tag_name"}) >>),
   down |->
     << DropTableIfExists("blog_hashtag_table"), DropTableIfExists("blog_image_table"),
        DropConstraintIfExists("travel_blog_table", "UQ_travel_blog_travel_course"),
        DropConstraintIfExists("travel_blog_table", "FK_travel_blog_travel_course"),
        DropColumnIfExists("travel_blog_table", "travel_course_id") >>]

BackfillTravelBlogPublicFlag == [up |-> << Update("travel_blog_table", {"is_public"}) >>, down |-> << >>]

RemoveBudgetFromSurveyTables ==
  LET add(t, name) == [AddColumnIfMissing(t, "budget", {"budget"}) EXCEPT
                         !.onlyIf = {Table(t)}, !.needs = @ \cup {Type(name)},
                         !.adds = @ \cup {Typed(t, "budget", name), Required(t, "budget")}]
  IN  [up   |-> << DropColumnIfExists("course_survey_table", "budget"),
                   DropColumnIfExists("roadmap_survey_table", "budget") >>,
       down |-> << EnsureEnumType("course_survey_table_budget_enum"),
                   add("course_survey_table", "course_survey_table_budget_enum"),
                   EnsureEnumType("roadmap_survey_table_budget_enum"),
                   add("roadmap_survey_table", "roadmap_survey_table_budget_enum") >>]

-----------------------------------------------------------------------------
\* In the order of their timestamps.
Migrations ==
  << InitPostgresSchema, EnsureItineraryModificationColumns, AlignPostgresCourseAndPreferenceSchema,
     AlignPostgresLegacyNames, EnsureCourseDayTable, FixCoursePlaceDayColumn,
     AlignPostgresSchemaWithEntities, AddRegionCodeToRegionTable, CreateAdminTable,
     EnsureCourseDayIdDefault, EnsurePreferenceUuidDefaults, ExpandCoursePlaceVisitTimeLength,
     DropLegacyCoursePlaceDateIdFk, AddModificationCountToTravelCourse,
     AddSourceCourseIdToTravelCourse, CreateRegionLikeTable, AddIsCompletedToTravelCourse,
     AddPlaceCategoryToPlaceTable, BackfillTravelCoursePublicFlag, EnsureTravelCourseTimestampDefaults,
     BackfillCopiedTravelCoursesPrivate, AddBlogAssetsAndRoadmapRelation,
     BackfillTravelBlogPublicFlag, RemoveBudgetFromSurveyTables >>
=============================================================================
