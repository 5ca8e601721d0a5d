CONSTANTS
  Session = {s1}
  Policy = "offered"
  Offers = {s1}
  HasRadio = TRUE
  Wait = 1
  ObserveWindow = 2
  MaxDuplicates = 1
  MaxFailures = 1
  MaxCrashes = 1
  First = s1
  MaxMishaps = 3
SPECIFICATION FairSpec
CHECK_DEADLOCK FALSE
INVARIANT PresentedIsWitnessed
INVARIANT TerminalClosesExchange
PROPERTY WaitEndsByItsAnswer
PROPERTY SessionEnds
