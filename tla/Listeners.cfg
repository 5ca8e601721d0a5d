SPECIFICATION FairSpec
CONSTANTS
  d1 = d1
  d2 = d2
  nobody = nobody
  Dids = {d1, d2}
  Latest = d1
  NoDid = nobody
  MaxSessions = 2
  MayHappen = {"signIn", "pause", "reopen", "open", "start", "late", "read", "drop"}
  MaxHappens = 2
INVARIANTS OneListener PausedIsQuiet
PROPERTIES EveryoneHears PutRight
CHECK_DEADLOCK FALSE
