SPECIFICATION FairSpec
CONSTANTS
  s = s
  a = a
  NoNode = none
  Motes <- MCMotes
  Sinks <- MCSinks
  Mortal = {}
  Link <- MCLink
  Rssi = 255
  DistInit = 101
  DistLost = 255
  BeaconMax = 10
  UpdTableMax = 6
  TtlMax = 254
  TtlPermanent = 255
  TtlDecr = 10
  MaxLost = 13
  MaxLate = 2
INVARIANTS NeverOrphaned
PROPERTIES EventuallyJoined
