SPECIFICATION Spec
CONSTANTS
  Jobs = {j1,j2}
  Surveys = {s1}
  SurveyOf <- OneSurvey
  Handlers = {h1, h2}
  Attempts = 2
  MaxRetry = 1
  MaxAdds = 4
  MaxCourses = 2
  Faults = {"queueAdd", "dbRead", "dbWrite", "postLost", "callbackLost", "rollback"}
SYMMETRY JobAndHandlerSymmetry
INVARIANTS RetriesAreBounded SurveyNamesItsLastCourse
PROPERTIES ImplementsLifecycle
CHECK_DEADLOCK FALSE
