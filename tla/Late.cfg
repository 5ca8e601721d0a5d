CONSTANTS
  Low = Low
  High = High
  Exchange = {e1}
  Window = 0
  Askers = {Low}
  Killed = {Low}
  MaxTime = 1
  MaxChecks = 2
  MaxStops = 1
  MaxCrashes = 1
  MaxDuplicates = 1
  MaxFailures = 1
  MaxMishaps = 1
SPECIFICATION LateFair
CHECK_DEADLOCK FALSE
INVARIANT HeldIsOwed
PROPERTY OnlyOwedRuns
PROPERTY AskerReleasesInTime
PROPERTY QuestionAnswered
PROPERTY AnswerEndsAskingThere
CONSTRAINT FewChecks
