\* One run of a workflow with a retried step, a decision that can jump back, miss or
\* escalate, and a human step, advanced by two processes.
SPECIFICATION Spec
CONSTANTS
  Runs = {r1}  Workers = {w1, w2}  NoRun = NoRun
  NSteps = 3  Kind <- LoopKind  OnFailure <- LoopFailure  Branches <- LoopBranches
  MaxTries = 2  MaxAttempts = 5  MaxRetried = 3
INVARIANTS OneOpenAttempt StatusAgrees OneExecutor
PROPERTIES RecordsFinal PeopleAreWaitedFor KeepsCourse
CHECK_DEADLOCK FALSE
