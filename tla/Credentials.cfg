SPECIFICATION BothFair
CONSTANTS
  a1 = a1
  a2 = a2
  b1 = b1
  p1 = p1
  p2 = p2
  c1 = c1
  c2 = c2
  n1 = n1
  n2 = n2
  t1 = t1
  t2 = t2
  Announcements = {a1, a2}
  Acceptances = {b1}
  Profile = {p1, p2}
  NoProfile = NoProfile
  MaxSwitches = 1
  MaxFaults = 1
  Roots = {c1, c2}
  Fresh = {n1, n2}
  Refreshable = {c1}
  NoCred = NoCred
  Taps = {t1, t2}
  Starts <- TheStarts
INVARIANTS OneCardPerRun TokenIsCurrent OneReplacementEach NeverWithout
PROPERTIES SwapIsWhole CardGoesOut RunFinishes
CHECK_DEADLOCK FALSE
