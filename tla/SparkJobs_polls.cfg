\* Runs and Submits of one page; one kill, reload, crash or lost application,
\* or one grading that throws. The challenge has no expected output for Runs.
SPECIFICATION Spec
CONSTANTS
  MaxRequests = 2
  MaxJobs = 2
  KeepRun = 1
  KeepSubmit = 1
  Expected = {"submit"}
  MaxUpsets = 1
INVARIANTS
  TypeOK
  PassIsEarned
  NewestKept
  RightFailedExplained
PROPERTIES
  VerdictStands
  PollingEnds
CHECK_DEADLOCK FALSE
