SPECIFICATION Spec
CONSTANTS
  c1 = c1
  c2 = c2
  Callers <- MCCallers
  Motes = {2}
  Items <- MCItems
  Numbers = {3}
  Default = 1
  Rules = {5}
  OwnRule = 5
  ByteSize = 4
  AcceptedMax = 1
  Timeout = 1
  CacheTime = 2
  MaxDelay = 1
  MaxLost = 1
  MaxQuestions = 3
  MaxChanges = 1
SYMMETRY MCSymmetry
INVARIANTS TypeOK AnswersItsQuestion QuietMeansFresh NullOnlyIfShared
