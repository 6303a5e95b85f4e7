------------------------------ MODULE Entities ------------------------------
\* The schema the entities ask for: what TypeORM's synchronize creates, and what
\* the application's statements rely on.  An INSERT leaves out generated ids,
\* creation and update dates and columns with a default, so those need their
\* default in the database.
EXTENDS Schema

\* enums pairs a column with its type, keys are the foreign keys that a
\* migration names too (TypeORM makes the name from table and column).
EntityTable(t, columns, defaults, enums, keys) ==
  {Table(t)} \cup {Column(t, c) : c \in columns} \cup {DefaultOf(t, c) : c \in defaults}
    \cup UNION {{Type(e[2]), Typed(t, e[1], e[2])} : e \in enums} \cup {Key(t, k) : k \in keys}

BaseColumns == {"id", "created_at", "updated_at"}
BaseTable(t, columns, defaults, enums, keys) ==
  EntityTable(t, columns \cup BaseColumns, defaults \cup BaseColumns, enums, keys)

Admin ==
  BaseTable("admin_table", {"username", "password_hash", "permissions", "is_super_admin",
              "is_active"}, {"permissions", "is_super_admin", "is_active"}, {}, {})

BlogHashTag ==
  BaseTable("blog_hashtag_table", {"tag_name", "travel_blog_id"}, {}, {}, {})

BlogImage ==
  BaseTable("blog_image_table", {"image_url", "sort_order", "travel_blog_id"}, {"sort_order"}, {},
    {})

BlogLike ==
  BaseTable("blog_like_table", {"travel_blog_id", "user_id"}, {}, {}, {})

TravelBlog ==
  BaseTable("travel_blog_table", {"blog_title", "blog_content", "blog_image_url", "is_public",
              "view_count", "like_count", "user_id", "travel_course_id"},
    {"is_public", "view_count", "like_count"}, {}, {})

Country ==
  BaseTable("country_table", {"country_name", "country_code", "country_image_url",
              "country_code_enum", "continent"}, {},
    {<<"country_code_enum", "country_table_country_code_enum_enum">>,
     <<"continent", "country_table_continent_enum">>}, {})

Region ==
  BaseTable("region_table", {"region_name", "region_code", "latitude", "longitude",
              "region_image_url", "travel_range", "average_budget_level", "region_description",
              "country_id"}, {"average_budget_level"},
    {<<"region_code", "region_table_region_code_enum">>,
     <<"travel_range", "region_table_travel_range_enum">>,
     <<"average_budget_level", "region_table_average_budget_level_enum">>}, {})

RegionBudget ==
  BaseTable("region_budget_table", {"region_id", "region_budget"}, {},
    {<<"region_budget", "region_budget_table_region_budget_enum">>}, {})

RegionCategory ==
  BaseTable("region_category_table", {"region_id", "category"}, {},
    {<<"category", "region_category_table_category_enum">>}, {})

RegionFoodPersonality ==
  BaseTable("region_food_personality_table", {"region_id", "food_personality"}, {},
    {<<"food_personality", "region_food_personality_table_food_personality_enum">>}, {})

RegionLike ==
  BaseTable("region_like_table", {"region_id", "user_id"}, {}, {}, {})

RegionMainInterest ==
  BaseTable("region_main_interest_table", {"region_id", "main_interest"}, {},
    {<<"main_interest", "region_main_interest_table_main_interest_enum">>}, {})

RegionTravelStyle ==
  BaseTable("region_travel_style_table", {"region_id", "travel_style"}, {},
    {<<"travel_style", "region_travel_style_table_travel_style_enum">>}, {})

RegionWeather ==
  BaseTable("region_weather_table", {"region_id", "region_weather"}, {},
    {<<"region_weather", "region_weather_table_region_weather_enum">>}, {})

CourseAiChat ==
  BaseTable("course_ai_chat_table", {"role", "content", "course_id"}, {},
    {<<"role", "course_ai_chat_table_role_enum">>}, {})

CourseCountry ==
  BaseTable("course_country_table", {"course_id", "country_id"}, {}, {}, {})

CourseDay ==
  EntityTable("course_day_table", {"id", "course_id", "day_number", "date"}, {"id"}, {},
    {"FK_82fd58b544e175f2088514f2ede"})

CourseHashTag ==
  BaseTable("course_hashtag_table", {"tag_name", "travel_course_id"}, {}, {}, {})

CourseLike ==
  BaseTable("course_like_table", {"travel_course_id", "user_id"}, {}, {}, {})

CoursePlace ==
  EntityTable("course_place", {"course_place_id", "visit_order", "memo", "visit_time",
              "description", "course_day_id", "place_id"}, {"course_place_id"}, {},
    {"FK_ccde1c2e24e108348bbc8464e7d", "FK_afb32e50da5f00e17dba0fe97bf"})

CourseRegion ==
  EntityTable("travel_course_region", {"course_region_id", "course_id", "region_id",
              "region_name", "start_date", "end_date"}, {"course_region_id"}, {}, {})

CourseSurvey ==
  EntityTable("course_survey_table", {"course_survay_id", "user_id", "course_id", "pax_count",
              "user_note", "travel_start_day", "travel_end_day", "created_at", "is_dense",
              "is_planned", "is_tourist_spots", "is_activate", "is_efficiency"},
    {"course_survay_id"}, {<<"is_dense", "course_survey_table_is_dense_enum">>,
     <<"is_planned", "course_survey_table_is_planned_enum">>,
     <<"is_tourist_spots", "course_survey_table_is_tourist_spots_enum">>,
     <<"is_activate", "course_survey_table_is_activate_enum">>,
     <<"is_efficiency", "course_survey_table_is_efficiency_enum">>}, {})

CourseSurveyCompanion ==
  EntityTable("course_survey_companion", {"companion_id", "course_survay_id", "companion_type"},
    {"companion_id"}, {<<"companion_type", "course_survey_companion_companion_type_enum">>}, {})

CourseSurveyDestination ==
  EntityTable("course_survey_destination", {"destination_id", "course_survey_id", "region_id",
              "region_name", "start_day", "end_date"}, {"destination_id"}, {}, {})

CourseSurveyTheme ==
  EntityTable("course_survey_theme", {"theme_id", "course_survay_id", "theme_type"}, {"theme_id"},
    {<<"theme_type", "course_survey_theme_theme_type_enum">>}, {})

RoadmapSurvey ==
  BaseTable("roadmap_survey_table", {"user_id", "travel_course_id", "pax_count", "user_note",
              "pace_preference", "planning_preference", "destination_preference",
              "activity_preference", "priority_preference"}, {},
    {<<"pace_preference", "roadmap_survey_table_pace_preference_enum">>,
     <<"planning_preference", "roadmap_survey_table_planning_preference_enum">>,
     <<"destination_preference", "roadmap_survey_table_destination_preference_enum">>,
     <<"activity_preference", "roadmap_survey_table_activity_preference_enum">>,
     <<"priority_preference", "roadmap_survey_table_priority_preference_enum">>}, {})

RoadmapSurveyCompanion ==
  BaseTable("roadmap_survey_companion_table", {"survey_id", "companion"}, {},
    {<<"companion", "roadmap_survey_companion_table_companion_enum">>}, {})

RoadmapSurveyDestination ==
  BaseTable("roadmap_survey_destination_table", {"survey_id", "region_id", "region_name",
              "start_day", "end_date"}, {}, {},
    {"FK_3e2696c3cc9edb651e061f4a8ac", "FK_b947a863dc7953dedd2ed696edb"})

RoadmapSurveyTheme ==
  BaseTable("roadmap_survey_theme_table", {"survey_id", "theme"}, {},
    {<<"theme", "roadmap_survey_theme_table_theme_enum">>}, {})

TravelCourse ==
  EntityTable("travel_course", {"id", "created_at", "updated_at", "title", "description",
              "course_image_url", "view_count", "nights", "days", "people_count",
              "travel_start_day", "travel_finish_day", "is_public", "is_completed", "like_count",
              "modification_count", "source_course_id", "user_id"},
    {"id", "created_at", "updated_at", "view_count", "people_count", "is_public", "is_completed",
     "like_count", "modification_count"}, {}, {})

ItineraryJob ==
  BaseTable("itinerary_job_table", {"status", "job_type", "intent_status", "diff_keys",
              "user_query", "user_id", "survey_id", "travel_course_id", "attempt_count",
              "error_code", "error_message", "llm_commentary", "next_action_suggestions",
              "started_at", "completed_at"}, {"status", "job_type", "attempt_count"},
    {<<"status", "itinerary_job_table_status_enum">>,
     <<"job_type", "itinerary_job_table_job_type_enum">>,
     <<"intent_status", "itinerary_job_table_intent_status_enum">>},
    {"FK_904c1d86d75f038788d730c8460", "FK_bd1500db8cd8a66ce238dd6792e"})

Notification ==
  BaseTable("notification_table", {"notification_title", "notification_content",
              "notification_type", "is_read", "reference_id", "user_id", "sender_id"},
    {"is_read"}, {<<"notification_type", "notification_table_notification_type_enum">>}, {})

Place ==
  EntityTable("place", {"place_id", "place_name", "description", "latitude", "longitude",
              "address", "updated_at", "place_url", "place_category", "region_id"},
    {"place_category"}, {}, {"FK_e95901eff317e7ea8fccfae5165"})

PreferenceJob ==
  BaseTable("preference_job_table", {"user_id", "preference_id", "status", "error_code",
              "error_message", "started_at", "completed_at"}, {"status"},
    {<<"status", "preference_job_table_status_enum">>},
    {"FK_eddd67878818dab291ba442b908", "FK_91c8ea15e2eb63dcceb5242cc6c"})

PreferenceRecommendation ==
  BaseTable("preference_recommendation_table", {"job_id", "region_id", "region_name"}, {}, {},
    {"FK_97ce4ee17625d50516e5539030c", "FK_cf1e3861b419c4bd55143e74e98"})

UserPreference ==
  BaseTable("user_preference", {"user_id"}, {}, {}, {})

UserPreferenceBudget ==
  BaseTable("user_preference_budget", {"user_preference_id", "budget_level"}, {},
    {<<"budget_level", "user_preference_budget_budget_level_enum">>}, {})

UserPreferenceFoodPersonality ==
  BaseTable("user_preference_food_personality", {"user_preference_id", "food_personality"}, {},
    {<<"food_personality", "user_preference_food_personality_food_personality_enum">>}, {})

UserPreferenceMainInterest ==
  BaseTable("user_preference_main_interest", {"user_preference_id", "main_interest"}, {},
    {<<"main_interest", "user_preference_main_interest_main_interest_enum">>}, {})

UserPreferenceTravelRange ==
  BaseTable("user_preference_travel_range", {"user_preference_id", "travel_range"}, {},
    {<<"travel_range", "user_preference_travel_range_travel_range_enum">>}, {})

UserPreferenceTravelStyle ==
  BaseTable("user_preference_travel_style", {"user_preference_id", "travel_style"}, {},
    {<<"travel_style", "user_preference_travel_style_travel_style_enum">>}, {})

UserPreferenceWeather ==
  BaseTable("user_preference_weather", {"user_preference_id", "weather"}, {},
    {<<"weather", "user_preference_weather_weather_enum">>}, {})

User ==
  BaseTable("user_table", {"name", "email", "password_hash", "provider", "provider_id",
              "profile_image", "visited_countries", "is_activate"},
    {"provider", "visited_countries", "is_activate"},
    {<<"provider", "user_table_provider_enum">>}, {})

UserVisitedCountry ==
  BaseTable("user_visited_country_table", {"visit_date", "user_id", "country_id"}, {}, {}, {})

Entities ==
  UNION {Admin, BlogHashTag, BlogImage, BlogLike, TravelBlog, Country, Region, RegionBudget,
         RegionCategory, RegionFoodPersonality, RegionLike, RegionMainInterest,
         RegionTravelStyle, RegionWeather, CourseAiChat, CourseCountry, CourseDay, CourseHashTag,
         CourseLike, CoursePlace, CourseRegion, CourseSurvey, CourseSurveyCompanion,
         CourseSurveyDestination, CourseSurveyTheme, RoadmapSurvey, RoadmapSurveyCompanion,
         RoadmapSurveyDestination, RoadmapSurveyTheme, TravelCourse, ItineraryJob, Notification,
         Place, PreferenceJob, PreferenceRecommendation, UserPreference, UserPreferenceBudget,
         UserPreferenceFoodPersonality, UserPreferenceMainInterest, UserPreferenceTravelRange,
         UserPreferenceTravelStyle, UserPreferenceWeather, User, UserVisitedCountry}
=============================================================================
