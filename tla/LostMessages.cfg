SPECIFICATION Spec
CONSTANTS
  s = s
  t = t
  m = m
  Sinks <- MCSinks
  Motes <- MCMotes
  Window = 1
  Pending = 1
  Backlog = 1
  Traffic = 2
PROPERTIES EveryMessageQueued
CHECK_DEADLOCK FALSE
