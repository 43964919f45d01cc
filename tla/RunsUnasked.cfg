\* A notification and a human step, advanced by two processes.
SPECIFICATION Spec
CONSTANTS
  Runs = {r1}  Workers = {w1, w2}  NoRun = NoRun
  NSteps = 2  Kind <- PairKind  OnFailure <- PairFailure  Branches <- PairBranches
  MaxTries = 2  MaxAttempts = 3  MaxRetried = 1
PROPERTIES PeopleAreAsked
CHECK_DEADLOCK FALSE
