CONSTANTS
  Low = Low
  High = High
  Exchange = {e1}
  NoExchange = NoExchange
  Late = {}
  Upgraders = {}
  Withdrawers = {}
  Stoppers = {}
  Killed = {Low, High}
  MaxCrashes = 1
  MaxDuplicates = 1
  MaxFailures = 0
SPECIFICATION Spec
CHECK_DEADLOCK FALSE
PROPERTY ImplementsSwap
