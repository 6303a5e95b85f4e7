SPECIFICATION Spec
CONSTANTS
  Jobs = {j1, j2}
  Courses = {1}
  CourseOf <- OneCourse
  Handlers = {h1}
  Toggles = {}
  Attempts = 1
  MaxModifications = 2
  MaxRetry = 1
  MaxAdds = 2
  MaxEdits = 2
  Faults = {}
INVARIANTS PlanIsWhole
CHECK_DEADLOCK FALSE
