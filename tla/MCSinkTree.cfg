SPECIFICATION FairSpec
CONSTANTS
  s = s
  t = t
  a = a
  b = b
  c = c
  NoNode = none
  Motes <- MCMotes
  Sinks <- MCSinks
  Mortal <- MCMortal
  Link <- MCLink
  Rssi = 255
  DistInit = 101
  DistLost = 255
  BeaconMax = 1
  UpdTableMax = 1
  TtlMax = 1
  TtlPermanent = 2
  TtlDecr = 1
  MaxLost = 1
  MaxLate = 0
INVARIANTS TypeOK AgreesWithParent NoRoutingLoop
PROPERTIES OneParentInALife DeadParentForgotten
