SPECIFICATION PickupSpec
CONSTANTS
  Frames = {f1, f2}
  Messages = 3
  Unreadable = {1}
  NeverOpens = {2}
  Limit = 2
  SeenSize = 1
  MaxUpsets = 0
INVARIANT HandedOverOnce
CHECK_DEADLOCK FALSE
