SPECIFICATION Spec
CONSTANTS
  Jobs = {j1}
  Courses = {1}
  CourseOf <- OneCourse
  Handlers = {h1}
  Toggles = {}
  Attempts = 2
  MaxModifications = 1
  MaxRetry = 1
  MaxAdds = 1
  MaxEdits = 2
  Faults = {"queueAck", "dbRead", "dbWrite", "postTimeout", "duplicate", "slow", "crash", "surveyGone"}
INVARIANTS TypeOK SuccessIsAnswered
PROPERTIES SettledStays
CHECK_DEADLOCK FALSE
