SPECIFICATION Spec
CONSTANTS
  Clients = {k1, k2}
  Workloads <- Users
  MaxAttempts = 2
  RateMax = 2
  MaxMails = 3
  MaxSlots = 2
  MaxIssues = 5
  MaxTickets = 3
SYMMETRY ClientSymmetry
INVARIANTS TypeOK RevocationsEndSessions TicketsAreUsedOnce GuessesAreLimited MailsAreLimited CodesAreNeeded SlotsAreLimited DevicesStaySignedIn
CHECK_DEADLOCK FALSE
