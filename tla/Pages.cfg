SPECIFICATION Spec
CONSTANTS
  MaxChallenges = 2
  MaxLoads = 2
  MaxJobs = 2
  MaxPolls = 2
  PollLimit = 2
  Challenges = {1, 2}
  MaxPatches = 1
  Awards = {1}
  MaxViews = 2
INVARIANTS
  TypeOK
  OutcomeIsOfTheJob
PROPERTIES
  GeneratingEnds
  ShownNeverGoesBack
  OutcomeIsShown
  WaitingEnds
  ListsSettle
CHECK_DEADLOCK FALSE
