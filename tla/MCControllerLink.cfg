SPECIFICATION Spec
CONSTANTS
  s = s
  t = t
  m = m
  Sinks <- MCSink
  Motes <- MCMotes
  Window = 1
  Pending = 1
  Backlog = 1
  Traffic = 3
INVARIANTS TypeOK WorkerSurvives NobodyAsksTwice
PROPERTIES SimulatorGoesOn ImplementsChannel
CHECK_DEADLOCK FALSE
