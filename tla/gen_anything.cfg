SPECIFICATION Spec
CONSTANTS
  Jobs = {j1}
  Surveys = {s1}
  SurveyOf <- OneSurvey
  Handlers = {h1}
  Attempts = 2
  MaxRetry = 1
  MaxAdds = 1
  MaxCourses = 2
  Faults = {"queueAdd", "queueAck", "dbRead", "dbWrite", "postLost", "postTimeout", "callbackLost", "duplicate", "rollback", "slow", "crash", "surveyGone", "courseGone"}
INVARIANTS TypeOK SuccessNamesItsCourse
PROPERTIES SettledStays
CHECK_DEADLOCK FALSE
