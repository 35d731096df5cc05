SPECIFICATION Spec
CONSTANTS
  s = s
  m = m
  a = a
  m1 = m1
  m2 = m2
  NoNode = none
  Sink = s
  Motes <- MCMotes
  Parent <- MCParent
  Dist <- MCDist
  TtlMax = 5
  Messages = {m1, m2}
  MaxFaults = 0
PROPERTIES RequestsLackARule
CHECK_DEADLOCK FALSE
