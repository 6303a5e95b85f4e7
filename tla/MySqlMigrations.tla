-------------------------- MODULE MySqlMigrations ---------------------------
\* The migrations for MySQL, src/src/database/migrations, up to the first that
\* cannot succeed on a database they made themselves: the statements of their
\* up.  Defaults and the types of columns are left out, and of the indexes those
\* that no later migration names.
EXTENDS Schema

\* The column refers to that table, which then cannot be dropped.
References(t, c, table) == <<t, c, table>>

AddReference(t, c, table, column) ==
  [Statement EXCEPT !.needs = {Column(t, c), Column(table, column)},
     !.adds = {References(t, c, table)}]
DropReference(t, c, table) ==
  [Statement EXCEPT !.needs = {References(t, c, table)}, !.drops = {References(t, c, table)}]
DropReferenceIfExists(t, c, table) ==
  [DropReference(t, c, table) EXCEPT !.onlyIf = {References(t, c, table)}]

\* refs pairs a column with the table whose id it holds.
CreateTableWith(t, columns, refs, keys) ==
  [CreateTable(t, columns, {}, keys) EXCEPT
     !.needs = {Column(r[2], "id") : r \in refs},
     !.adds = @ \cup {References(t, r[1], r[2]) : r \in refs}]
CreateEntityTable(t, columns, refs, keys) ==
  CreateTableWith(t, {"id", "created_at", "updated_at"} \cup columns, refs, keys)
DropTable(t) == [Statement EXCEPT !.needs = {Table(t)}, !.unused = {t}, !.gone = {<<t, "*">>}]
DropIfExists(t) == [DropTable(t) EXCEPT !.needs = {}]
BackUp(t, from, columns) ==
  [CreateTable(t, columns, {}, {}) EXCEPT !.needs = {Column(from, c) : c \in columns}]
RenameTable(from, to) ==
  [Statement EXCEPT !.needs = {Table(from)}, !.clash = {Table(to)},
     !.move = << <<from, "*">>, <<to, "*">> >>]

AddColumns(t, columns) ==
  [Statement EXCEPT !.needs = {Table(t)}, !.clash = {Column(t, c) : c \in columns},
     !.adds = {Column(t, c) : c \in columns}]
ModifyColumn(t, c) == [Statement EXCEPT !.needs = {Column(t, c)}]
ChangeColumn(t, from, to) ==
  [Statement EXCEPT !.needs = {Column(t, from)}, !.clash = {Column(t, to)},
     !.move = << <<t, from>>, <<t, to>> >>]
DropColumn(t, c, refs) ==
  [Statement EXCEPT !.needs = {Column(t, c)}, !.clash = {References(t, c, r) : r \in refs},
     !.gone = {<<t, c>>}]

CreateIndex(t, index, columns) ==
  [Statement EXCEPT !.needs = {Column(t, c) : c \in columns}, !.clash = {Key(t, index)},
     !.adds = {Key(t, index)}]
DropIndex(t, index) == [Statement EXCEPT !.needs = {Key(t, index)}, !.gone = {<<t, index>>}]
If(items, st) == [st EXCEPT !.onlyIf = @ \cup items]
Unless(items, st) == [st EXCEPT !.unless = @ \cup items]

-----------------------------------------------------------------------------
InitialSchema == << >>
DropRefreshTokenTable == << DropIfExists("refresh_token_table") >>

CreateUserCountryPlaceTables ==
  << [CreateEntityTable("user_table", {"name", "email", "password_hash", "provider", "provider_id",
        "profile_image", "visited_countries", "is_activate"}, {}, {}) EXCEPT !.unless = {Table("user_table")}],
     CreateEntityTable("country_table", {"country_name", "country_code", "country_image_url"}, {}, {}),
     CreateEntityTable("region_table", {"region_name", "latitude", "longitude", "region_image_url", "country_id"},
       {<<"country_id", "country_table">>}, {}),
     CreateEntityTable("place_table", {"place_name", "place_description", "place_image_url", "latitude",
       "longitude", "address", "opening_hours", "category", "region_id"}, {<<"region_id", "region_table">>}, {}) >>

CreateCourseTables ==
  << CreateEntityTable("travel_course_table", {"title", "description", "course_image_url", "view_count", "nights",
       "days", "is_public", "like_count", "bookmark_count", "user_id"}, {<<"user_id", "user_table">>}, {}),
     CreateEntityTable("course_country_table", {"course_id", "country_id"},
       {<<"course_id", "travel_course_table">>, <<"country_id", "country_table">>}, {}),
     CreateEntityTable("course_place_table", {"visit_order", "day_number", "memo", "travel_course_id", "place_id"},
       {<<"travel_course_id", "travel_course_table">>, <<"place_id", "place_table">>}, {"idx_travel_course_id"}),
     CreateEntityTable("course_hashtag_table", {"tag_name", "travel_course_id"},
       {<<"travel_course_id", "travel_course_table">>}, {}),
     CreateEntityTable("course_like_table", {"travel_course_id", "user_id"},
       {<<"travel_course_id", "travel_course_table">>, <<"user_id", "user_table">>}, {}),
     CreateEntityTable("course_bookmark_table", {"travel_course_id", "user_id"},
       {<<"travel_course_id", "travel_course_table">>, <<"user_id", "user_table">>}, {}) >>

CreateBlogAndNotificationTables ==
  << CreateEntityTable("travel_blog_table", {"blog_title", "blog_content", "blog_image_url", "is_public",
       "view_count", "like_count", "user_id"}, {<<"user_id", "user_table">>}, {}),
     CreateEntityTable("blog_like_table", {"travel_blog_id", "user_id"},
       {<<"travel_blog_id", "travel_blog_table">>, <<"user_id", "user_table">>}, {}),
     CreateEntityTable("user_visited_country_table", {"visit_date", "user_id", "country_id"},
       {<<"user_id", "user_table">>, <<"country_id", "country_table">>}, {}),
     CreateEntityTable("notification_table", {"notification_title", "notification_content", "notification_type",
       "is_read", "reference_id", "user_id", "sender_id"},
       {<<"user_id", "user_table">>, <<"sender_id", "user_table">>}, {"idx_is_read"}) >>

CreateAllCoreTables ==
  CreateUserCountryPlaceTables \o CreateCourseTables \o CreateBlogAndNotificationTables

-----------------------------------------------------------------------------
ExtendRegionTables ==
  << AddColumns("country_table", {"continent", "popularity_score"}),
     AddColumns("region_table", {"travel_range", "average_budget_level", "popularity_score", "recommendation_score"}),
     CreateEntityTable("region_environment_table", {"region_id", "environment"}, {<<"region_id", "region_table">>}, {}),
     CreateEntityTable("region_food_personality_table", {"region_id", "food_personality"},
       {<<"region_id", "region_table">>}, {}),
     CreateEntityTable("region_main_interest_table", {"region_id", "main_interest"},
       {<<"region_id", "region_table">>}, {}),
     CreateEntityTable("region_category_table", {"region_id", "category"}, {<<"region_id", "region_table">>}, {}),
     CreateEntityTable("region_travel_style_table", {"region_id", "travel_style", "style_score"},
       {<<"region_id", "region_table">>}, {}) >>

\* An answer of the survey, one table each.
CreateAnswerTable(answer, column) ==
  CreateEntityTable(answer, {"user_preference_id", column}, {<<"user_preference_id", "user_preference">>}, {})

CreatePreferenceAnswerTables ==
  << CreateEntityTable("user_preference", {"user_id"}, {<<"user_id", "user_table">>}, {}),
     CreateAnswerTable("user_preference_weather", "weather"),
     CreateAnswerTable("user_preference_travel_range", "travel_range"),
     CreateAnswerTable("user_preference_environment", "environment"),
     CreateAnswerTable("user_preference_food_personality", "food_personality"),
     CreateAnswerTable("user_preference_main_interest", "main_interest"),
     CreateAnswerTable("user_preference_continent", "continent"),
     CreateAnswerTable("user_preference_budget", "budget_level") >>

AddPreferenceAndRecommendationTables == ExtendRegionTables \o CreatePreferenceAnswerTables

RemoveStyleScoreFromRegionTravelStyle == << DropColumn("region_travel_style_table", "style_score", {}) >>
AddRegionDescription == << AddColumns("region_table", {"region_description"}) >>

\* The values of an enum are replaced: wider, the rows changed, narrower.
ReplaceValues(t, c) == << ModifyColumn(t, c), Update(t, {c}), ModifyColumn(t, c) >>
BackUpAnswers(copy, answer, column) ==
  BackUp(copy, answer, {"id", "created_at", "updated_at", "user_preference_id", column})

RefactorTravelPreferences ==
  ReplaceValues("user_preference_weather", "weather")
    \o << BackUpAnswers("user_preference_travel_range_backup", "user_preference_travel_range", "travel_range") >>
    \o ReplaceValues("user_preference_travel_range", "travel_range")
    \o << BackUpAnswers("user_preference_environment_backup", "user_preference_environment", "environment"),
          RenameTable("user_preference_environment", "user_preference_travel_style"),
          ChangeColumn("user_preference_travel_style", "environment", "travel_style"),
          Update("user_preference_travel_style", {"travel_style"}),
          ModifyColumn("user_preference_travel_style", "travel_style") >>
    \o << BackUpAnswers("user_preference_food_personality_backup", "user_preference_food_personality",
            "food_personality") >>
    \o ReplaceValues("user_preference_food_personality", "food_personality")

RefactorInterestsAndBudgets ==
  << BackUpAnswers("user_preference_main_interest_backup", "user_preference_main_interest", "main_interest") >>
    \o ReplaceValues("user_preference_main_interest", "main_interest")
    \o << DropIfExists("user_preference_continent") >>
    \o ReplaceValues("user_preference_budget", "budget_level")
    \o << Update("region_table", {"average_budget_level"}), ModifyColumn("region_table", "average_budget_level") >>

RefactorSurveyEnumsAndEntities == RefactorTravelPreferences \o RefactorInterestsAndBudgets

-----------------------------------------------------------------------------
AddTravelCourseStartAndFinishDay ==
  << AddColumns("travel_course_table", {"travel_start_day"}), AddColumns("travel_course_table", {"travel_finish_day"}) >>

CreateCourseRegionTable ==
  << CreateEntityTable("course_region_table", {"course_id", "region_id"},
       {<<"course_id", "travel_course_table">>, <<"region_id", "region_table">>}, {}),
     CreateIndex("course_region_table", "idx_course_region_course_id", {"course_id"}),
     CreateIndex("course_region_table", "idx_course_region_region_id", {"region_id"}) >>

RemoveRegionEnvironmentTable ==
  << BackUp("region_environment_table_backup", "region_environment_table",
       {"id", "created_at", "updated_at", "region_id", "environment"}),
     DropIfExists("region_environment_table") >>

CreateRoadmapSurveyTables ==
  << CreateEntityTable("roadmap_survey_table", {"user_id", "travel_course_id", "pax_count", "budget", "user_note",
       "pace_preference", "planning_preference", "destination_preference", "activity_preference",
       "priority_preference"}, {<<"user_id", "user_table">>, <<"travel_course_id", "travel_course_table">>}, {}),
     CreateIndex("roadmap_survey_table", "idx_roadmap_survey_user_id", {"user_id"}),
     CreateEntityTable("roadmap_survey_destination_table", {"survey_id", "region_id", "start_date", "end_date"},
       {<<"survey_id", "roadmap_survey_table">>, <<"region_id", "region_table">>}, {}),
     CreateIndex("roadmap_survey_destination_table", "idx_survey_destination_survey_id", {"survey_id"}),
     CreateIndex("roadmap_survey_destination_table", "idx_survey_destination_region_id", {"region_id"}),
     CreateEntityTable("roadmap_survey_companion_table", {"survey_id", "companion"},
       {<<"survey_id", "roadmap_survey_table">>}, {}),
     CreateIndex("roadmap_survey_companion_table", "idx_survey_companion_survey_id", {"survey_id"}),
     CreateEntityTable("roadmap_survey_theme_table", {"survey_id", "theme"},
       {<<"survey_id", "roadmap_survey_table">>}, {}),
     CreateIndex("roadmap_survey_theme_table", "idx_survey_theme_survey_id", {"survey_id"}) >>

CreateCourseDayTable ==
  << CreateEntityTable("course_day_table", {"course_id", "day_number", "date"},
       {<<"course_id", "travel_course_table">>}, {}),
     CreateIndex("course_day_table", "idx_course_day_course_id", {"course_id"}),
     AddColumns("course_place_table", {"course_day_id"}),
     AddReference("course_place_table", "course_day_id", "course_day_table", "id"),
     CreateIndex("course_place_table", "idx_course_place_course_day_id", {"course_day_id"}),
     DropColumn("course_place_table", "day_number", {}) >>

RemoveCoursePlaceTravelCourseFK ==
  << DropReferenceIfExists("course_place_table", "travel_course_id", "travel_course_table"),
     If({Key("course_place_table", "idx_travel_course_id")}, DropIndex("course_place_table", "idx_travel_course_id")),
     DropColumn("course_place_table", "travel_course_id", {"travel_course_table"}) >>

AddNotificationCompositeIndex ==
  << CreateIndex("notification_table", "idx_notification_user_is_read", {"user_id", "is_read"}),
     DropIndex("notification_table", "idx_is_read") >>

UpdateCompanionEnum ==
  << Update("roadmap_survey_companion_table", {"companion"}), ModifyColumn("roadmap_survey_companion_table", "companion") >>

CreateCourseAiChatTable ==
  << CreateEntityTable("course_ai_chat_table", {"course_id", "role", "content"},
       {<<"course_id", "travel_course_table">>}, {}),
     CreateIndex("course_ai_chat_table", "idx_course_ai_chat_course_id", {"course_id"}) >>

CreateRegionWeatherAndBudgetTables ==
  << CreateEntityTable("region_weather_table", {"region_id", "region_weather"}, {<<"region_id", "region_table">>}, {}),
     CreateEntityTable("region_budget_table", {"region_id", "region_budget"}, {<<"region_id", "region_table">>}, {}) >>

ChangeRegionVarcharColumnsToEnum ==
  << ModifyColumn("region_table", "travel_range"), ModifyColumn("region_table", "average_budget_level"),
     ModifyColumn("region_travel_style_table", "travel_style"),
     ModifyColumn("region_food_personality_table", "food_personality"),
     ModifyColumn("region_main_interest_table", "main_interest"), ModifyColumn("region_category_table", "category") >>

ChangeUserProviderAndCountryContinentToEnum ==
  << ModifyColumn("user_table", "provider"), ModifyColumn("country_table", "continent") >>

-----------------------------------------------------------------------------
RefactorPlaceTable ==
  << DropReferenceIfExists("course_place_table", "place_id", "place_table"),
     DropTable("place_table"),
     CreateTableWith("place_table", {"place_id", "region_id", "place_name", "description", "address", "latitude",
       "longitude", "updated_at", "place_url"}, {<<"region_id", "region_table">>}, {}),
     ModifyColumn("course_place_table", "place_id"),
     AddReference("course_place_table", "place_id", "place_table", "place_id") >>

RefactorSurveyDestinationTable ==
  << DropIfExists("roadmap_survey_destination_table"),
     CreateTableWith("course_survey_destination_table", {"destination_id", "course_survey_id", "region_id",
       "region_name", "start_day", "end_date"},
       {<<"course_survey_id", "roadmap_survey_table">>, <<"region_id", "region_table">>}, {}) >>

RenameTravelCourseTable == << RenameTable("travel_course_table", "travel_course") >>
UpdateTravelCourseTimestampColumns == << ModifyColumn("travel_course", "created_at") >>

\* The keys of the survey and of the course may have older names, and so may
\* the table of places.
AddSurveyReference ==
  LET older == {Table("course_survey_table"), Column("course_survey_table", "course_survay_id")}
      survey == {Table("roadmap_survey_table"), Column("roadmap_survey_table", "id")}
      job(table, column) == AddReference("itinerary_job_table", "survey_id", table, column)
  IN  << If(older, job("course_survey_table", "course_survay_id")),
         Unless({Column("course_survey_table", "course_survay_id")}, If(survey, job("roadmap_survey_table", "id"))) >>

AddCourseReference ==
  LET job(column) == If({Table("travel_course"), Column("travel_course", column)},
                        AddReference("itinerary_job_table", "travel_course_id", "travel_course", column))
  IN  << job("course_id"), Unless({Column("travel_course", "course_id")}, job("id")) >>

AddVisitColumns ==
  LET add(t, c) == If({Table(t)}, AddColumnIfMissing(t, c, {}))
      addElse(c) == Unless({Table("course_place")}, add("course_place_table", c))
  IN  << add("course_place", "visit_time"), addElse("visit_time"),
         add("course_place", "description"), addElse("description") >>

CreateItineraryJobAndUpdateCoursePlace ==
  << CreateEntityTable("itinerary_job_table", {"status", "user_id", "survey_id", "travel_course_id", "attempt_count",
       "error_code", "error_message", "llm_commentary", "next_action_suggestions", "started_at", "completed_at"},
       {<<"user_id", "user_table">>}, {"uq_itinerary_job_survey"}) >>
    \o AddSurveyReference \o AddCourseReference \o AddVisitColumns

\* The foreign key of survey_id needs an index: the other one comes first.
RemoveItineraryJobSurveyUniqueConstraint ==
  LET unique == Key("itinerary_job_table", "uq_itinerary_job_survey")
      fallback == Key("itinerary_job_table", "idx_itinerary_job_survey")
  IN  << If({unique}, Unless({fallback}, CreateIndex("itinerary_job_table", "idx_itinerary_job_survey", {"survey_id"}))),
         If({unique}, [DropIndex("itinerary_job_table", "uq_itinerary_job_survey") EXCEPT !.needs = @ \cup {fallback}]) >>

AddModificationFieldsToItineraryJob ==
  << AddColumnIfMissing("itinerary_job_table", "job_type", {}),
     AddColumnIfMissing("itinerary_job_table", "intent_status", {}),
     AddColumnIfMissing("itinerary_job_table", "diff_keys", {}),
     AddColumnIfMissing("itinerary_job_table", "user_query", {}),
     CreateIndexIfMissing("itinerary_job_table", "idx_itinerary_job_travel_course_type",
       {"travel_course_id", "job_type", "created_at"}) >>

AddTravelDateToCourseSurvey ==
  LET add(t, c) == If({Table(t)}, AddColumnIfMissing(t, c, {}))
  IN  << add("course_survey_table", "travel_start_day"), add("course_survey_table", "travel_end_day"),
         add("roadmap_survey_table", "travel_start_day"), add("roadmap_survey_table", "travel_end_day") >>

AddPeopleCountToTravelCourse == << AddColumnIfMissing("travel_course", "people_count", {}) >>

-----------------------------------------------------------------------------
\* Only on Postgres.
ChangeForeignKeyVarcharToUuid == << >>

\* What a migration found and remembers until it ends.
Found(what) == <<"", what, "found">>
Remember(what, items) == [Statement EXCEPT !.onlyIf = items, !.adds = {Found(what)}, !.ddl = FALSE]

ChangePlaceRegionFkToRestrict ==
  << Remember("region key", {References("place_table", "region_id", "region_table")}),
     If({Found("region key")}, DropReference("place_table", "region_id", "region_table")),
     If({Found("region key")}, AddReference("place_table", "region_id", "region_table", "id")) >>

RemoveItineraryJobSurveyRelationUniqueIndex ==
  LET relation == Key("itinerary_job_table", "REL_904c1d86d75f038788d730c846")
      normal == Key("itinerary_job_table", "idx_itinerary_job_survey")
      drop(table) == DropReferenceIfExists("itinerary_job_table", "survey_id", table)
      add(table, column) == AddReference("itinerary_job_table", "survey_id", table, column)
      found(table) == Remember(table, {relation, References("itinerary_job_table", "survey_id", table)})
  IN  << found("course_survey_table"), found("roadmap_survey_table"),
         If({relation}, drop("course_survey_table")), If({relation}, drop("roadmap_survey_table")),
         If({relation}, Unless({normal}, CreateIndex("itinerary_job_table", "idx_itinerary_job_survey", {"survey_id"}))),
         If({relation}, DropIndex("itinerary_job_table", "REL_904c1d86d75f038788d730c846")),
         If({Found("course_survey_table")}, add("course_survey_table", "course_survay_id")),
         If({Found("roadmap_survey_table")}, add("roadmap_survey_table", "id")) >>

EnsureItineraryModificationColumns == AddModificationFieldsToItineraryJob

\* It asks which columns there are and gives them a default.
EnsureAuditTimestampDefaults == << Statement >>

AlignMysqlSchemaWithEntities ==
  << RenameTableIfNeeded("place_table", "place"),
     RenameTableIfNeeded("course_place_table", "course_place"),
     RenameTableIfNeeded("course_survey_destination_table", "course_survey_destination"),
     RenameTableIfNeeded("course_region_table", "travel_course_region"),
     RenameColumnIfNeeded("course_place", "id", "course_place_id"),
     RenameColumnIfNeeded("travel_course_region", "id", "course_region_id"),
     If({Table("travel_course_region")}, AddColumnIfMissing("travel_course_region", "region_name", {})),
     If({Table("travel_course_region")}, AddColumnIfMissing("travel_course_region", "start_date", {})),
     If({Table("travel_course_region")}, AddColumnIfMissing("travel_course_region", "end_date", {})) >>

CreatePreferenceJobAndRecommendationTables ==
  << CreateEntityTable("preference_job_table", {"user_id", "preference_id", "status", "error_code", "error_message",
       "retry_count", "started_at", "completed_at"},
       {<<"user_id", "user_table">>, <<"preference_id", "user_preference">>}, {}),
     CreateEntityTable("preference_recommendation_table", {"job_id", "region_id", "region_name"},
       {<<"job_id", "preference_job_table">>, <<"region_id", "region_table">>}, {}) >>

\* Tables that only older databases have: this project never made them on MySQL.
ConvertCourseSurveyColumnsToEnum ==
  << ModifyColumn("course_survey_table", "budget"), ModifyColumn("course_survey_table", "is_dense"),
     ModifyColumn("course_survey_table", "is_planned"), ModifyColumn("course_survey_table", "is_tourist_spots"),
     ModifyColumn("course_survey_table", "is_activate"), ModifyColumn("course_survey_table", "is_efficiency"),
     ModifyColumn("course_survey_companion_table", "companion_type"),
     ModifyColumn("course_survey_theme_table", "theme_type") >>

-----------------------------------------------------------------------------
\* In the order of their timestamps.  Those after the last are never reached.
Migrations ==
  << InitialSchema, DropRefreshTokenTable, CreateAllCoreTables, AddPreferenceAndRecommendationTables,
     RemoveStyleScoreFromRegionTravelStyle, AddRegionDescription, RefactorSurveyEnumsAndEntities,
     AddTravelCourseStartAndFinishDay, CreateCourseRegionTable, RemoveRegionEnvironmentTable,
     CreateRoadmapSurveyTables, CreateCourseDayTable, RemoveCoursePlaceTravelCourseFK,
     AddNotificationCompositeIndex, UpdateCompanionEnum, CreateCourseAiChatTable,
     CreateRegionWeatherAndBudgetTables, ChangeRegionVarcharColumnsToEnum,
     ChangeUserProviderAndCountryContinentToEnum, RefactorPlaceTable, RefactorSurveyDestinationTable,
     RenameTravelCourseTable, UpdateTravelCourseTimestampColumns, CreateItineraryJobAndUpdateCoursePlace,
     RemoveItineraryJobSurveyUniqueConstraint, AddModificationFieldsToItineraryJob, AddTravelDateToCourseSurvey,
     AddPeopleCountToTravelCourse, ChangeForeignKeyVarcharToUuid, ChangePlaceRegionFkToRestrict,
     RemoveItineraryJobSurveyRelationUniqueIndex, EnsureItineraryModificationColumns,
     EnsureAuditTimestampDefaults, AlignMysqlSchemaWithEntities, CreatePreferenceJobAndRecommendationTables,
     ConvertCourseSurveyColumnsToEnum >>
=============================================================================
