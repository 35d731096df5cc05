SPECIFICATION Spec
CONSTANTS
  RlsMax = 4
  TtlMax = 1
  TtlPermanent = 2
  TtlDecr = 1
  ByteSize = 4
  Rssi = 1
  own = own
  toS = toS
  w1 = w1
  w2 = w2
  self = self
  up = up
  p1 = p1
  p2 = p2
  WindowLists <- MCWindowLists
  Aged <- MCAged
  Actions <- MCActions
  Packets <- MCPackets
  Matches <- MCMatches
  Parents <- MCParents
  SinkWindows <- MCSinkWindows
  OwnWindows = own
  SelfHop = self
  NoWindows = none
  NoAction = noAction
  Ask = ask
SYMMETRY MCSymmetry
INVARIANTS TypeOK NoRuleTwice
PROPERTIES ImplementsRuleList ImplementsNextHops
