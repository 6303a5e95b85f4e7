SPECIFICATION Spec
CONSTANTS
  u1 = u1
  u2 = u2
  KR = KR
  JP = JP
  Users = {u1, u2}
  Countries = {KR, JP}
  Clients = {k1, k2}
  MaxPages = 3
  MaxRequests = 4
  Workloads <- Worlds
SYMMETRY ClientSymmetry
INVARIANTS TypeOK LikesAreCounted VisitedFollowsCompleted CountedCountriesExist OneBlogPerCourse
CHECK_DEADLOCK FALSE
