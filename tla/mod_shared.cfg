SPECIFICATION Spec
CONSTANTS
  Jobs = {j1, j2}
  Courses = {1, 2}
  CourseOf <- OneCourse
  Handlers = {h1}
  Toggles = {g1}
  Attempts = 1
  MaxModifications = 1
  MaxRetry = 1
  MaxAdds = 3
  MaxEdits = 2
  Faults = {"courseGone", "overlap", "dbWrite"}
SYMMETRY JobSymmetry
INVARIANTS EditsStayInTheirCourse CountWithinLimit
CHECK_DEADLOCK FALSE
