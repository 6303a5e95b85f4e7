SPECIFICATION FairSpec
CONSTANTS
  Answers = {a1, a2}
  Handlers = {h1}
  Offers = {0, 3}
  MaxSaved = 2
  Attempts = 2
  MaxAdds = 2
  FaultSets <- Environments
INVARIANTS TypeOK SuccessHasRecommendations PendingIsQueued
PROPERTIES JobsFinish ImplementsLatestAnswer
CHECK_DEADLOCK FALSE
