\* One run of a workflow without a way back; the bound on attempts is out of its reach
\* without a person.
SPECIFICATION FairSpec
CONSTANTS
  Runs = {r1}  Workers = {w1, w2}  NoRun = NoRun
  NSteps = 4  Kind <- LineKind  OnFailure <- LineFailure  Branches <- LineBranches
  MaxTries = 2  MaxAttempts = 6  MaxRetried = 2
PROPERTIES RunsSettle
CHECK_DEADLOCK FALSE
