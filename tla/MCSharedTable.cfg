SPECIFICATION Spec
CONSTANTS
  RlsMax = 4
  TtlMax = 0
  TtlPermanent = 1
  TtlDecr = 1
  own = own
  w1 = w1
  w2 = w2
  w3 = w3
  self = self
  p1 = p1
  WindowLists <- MCWindowLists
  Aged <- MCAged
  Actions <- MCActions
  Packets <- MCPackets
  Matches <- MCMatches
  NoWindows = none
  NoAction = noAction
  Ask = ask
INVARIANTS TypeOK TableSound AsksOnlyWithoutRule ActsByTheRuleMatched
CHECK_DEADLOCK FALSE
