CONSTANTS
  Session = {s1, s2, s3}
  Policy = "required"
  Offers = {s1, s2}
  HasRadio = TRUE
  Wait = 0
  ObserveWindow = 1
  MaxDuplicates = 2
  MaxFailures = 1
  MaxCrashes = 1
  First = s1
  MaxMishaps = 2
SPECIFICATION Spec
CHECK_DEADLOCK FALSE
INVARIANT StoredWasHere
INVARIANT ConfirmedIsOwn
CONSTRAINT FewSessions
