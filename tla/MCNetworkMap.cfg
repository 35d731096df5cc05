SPECIFICATION RSpec
CONSTANTS
  s = s
  a = a
  b = b
  Nodes <- MCNodes
  Link <- MCLink
  Mortal <- MCMortal
  Lengths <- MCLengths
  Timeout = 2
  RssiResolution = 1
  LongRange = 2
INVARIANTS MapTypeOK MapFollowsReports
PROPERTIES EveryChangeCounted LiveNodesKept SilentNodeForgotten
