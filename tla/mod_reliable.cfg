SPECIFICATION Spec
CONSTANTS
  Jobs = {j1, j2}
  Courses = {1}
  CourseOf <- OneCourse
  Handlers = {h1, h2}
  Toggles = {}
  Attempts = 2
  MaxModifications = 2
  MaxRetry = 1
  MaxAdds = 4
  MaxEdits = 2
  Faults = {"queueAdd", "dbRead", "dbWrite", "postLost", "callbackLost", "rollback"}
SYMMETRY JobAndHandlerSymmetry
INVARIANTS RequestsAreCounted DaysFromOneEdit FailedLeavesTheCourse
PROPERTIES EditsBuildOnEachOther ImplementsLifecycle
CHECK_DEADLOCK FALSE
