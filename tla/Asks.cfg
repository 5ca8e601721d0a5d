SPECIFICATION Spec
CONSTANTS
  d1 = d1
  d2 = d2
  submit = submit
  submit2 = submit2
  status = status
  NoCall = NoCall
  Dids = {d1, d2}
  Calls <- TheCalls
  CallDid <- DidOf
  CallKey <- KeyOf
  Writes = {submit, submit2}
  ByTsp = {status}
  First = d1
  MaxMoves = 2
  MaxUpsets = 1
SYMMETRY Symmetry
CONSTRAINT TwoAtOnce
INVARIANT AnswersItsOwn
PROPERTIES WriteIsOutOnce NoAnswerLost
CHECK_DEADLOCK FALSE
