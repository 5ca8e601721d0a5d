CONSTANTS
  Low = Low
  High = High
  Exchange = {e1}
  NoExchange = NoExchange
  Late = {}
  Upgraders = {}
  Withdrawers = {}
  Stoppers = {}
  Killed = {Low}
  MaxCrashes = 1
  MaxDuplicates = 0
  MaxFailures = 0
SPECIFICATION FairSpec
CHECK_DEADLOCK FALSE
PROPERTY AnswerOpensExchange
