SPECIFICATION FairSpec
CONSTANTS
  Jobs = {j1}
  Surveys = {s1}
  SurveyOf <- OneSurvey
  Handlers = {h1, h2}
  Attempts = 3
  MaxRetry = 1
  MaxAdds = 2
  MaxCourses = 1
  Faults = {"postLost", "callbackLost", "rollback", "slow"}
INVARIANTS PendingIsQueued
PROPERTIES JobsFinish
CHECK_DEADLOCK FALSE
