CONSTANTS
  Low = Low
  High = High
  Exchange = {e1, e2}
  NoExchange = NoExchange
  Late = {}
  Upgraders = {Low}
  Withdrawers = {}
  Stoppers = {}
  Killed = {}
  MaxCrashes = 0
  MaxDuplicates = 0
  MaxFailures = 0
SPECIFICATION FairSpec
CHECK_DEADLOCK FALSE
PROPERTY CardsCross
PROPERTY AnswerOpensExchange
