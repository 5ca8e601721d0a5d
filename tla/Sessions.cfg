SPECIFICATION BothFair
CONSTANTS
  d1 = d1
  d2 = d2
  step1 = step1
  flow2 = flow2
  poll1 = poll1
  poll2 = poll2
  f1 = f1
  f2 = f2
  Endless = {flow2}
  NoCaller = NoCaller
  NoDid = NoDid
  Callers <- TheCallers
  Dids <- TheDids
  CallerDid <- DidOf
  CallerKind <- KindOf
  HoldTime = 2
  PollTime = 1
  ClaimTime = 1
  TurnAfter = 2
  MaxMishaps = 1
  Frames = {f1, f2}
  Messages = 3
  Unreadable = {1}
  NeverOpens = {2}
  Limit = 2
  SeenSize = 1
  MaxUpsets = 2
INVARIANTS HeldForItsIdentity SeenWasTaken
PROPERTIES CallsSettle PollsGetTheirTurn ImplementsMailbox EverythingTaken
CHECK_DEADLOCK FALSE
