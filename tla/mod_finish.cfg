SPECIFICATION FairSpec
CONSTANTS
  Jobs = {j1}
  Courses = {1}
  CourseOf <- OneCourse
  Handlers = {h1, h2}
  Toggles = {}
  Attempts = 3
  MaxModifications = 2
  MaxRetry = 1
  MaxAdds = 2
  MaxEdits = 1
  Faults = {"postLost", "callbackLost", "slow"}
INVARIANTS PendingIsQueued
PROPERTIES CourseIsFreed
CHECK_DEADLOCK FALSE
