CONSTANTS
  Low = Low
  High = High
  Exchange = {e1, e2}
  NoExchange = NoExchange
  Late = {"connected", "accepted"}
  Upgraders = {Low}
  Withdrawers = {Low}
  Stoppers = {High}
  Killed = {Low, High}
  MaxCrashes = 2
  MaxDuplicates = 0
  MaxFailures = 1
SPECIFICATION Spec
CONSTRAINT InScenario
CHECK_DEADLOCK FALSE
SYMMETRY Symmetry
INVARIANT HeldSignsNothing
INVARIANT DeliveryNeverSkipped
INVARIANT ConsentBeforeCard
PROPERTY WithdrawnStaysWithdrawn
PROPERTY LaterProposeKept
PROPERTY AskedAgain
