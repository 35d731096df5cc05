SPECIFICATION Spec
CONSTANTS
  s = s
  a = a
  b = b
  NoNode = none
  NoModification = never
  Nodes <- MCNodes
  Link <- MCLink
  Mortal <- MCMortal
  Lengths <- MCLengths
  Timeout = 2
  RssiResolution = 1
  LongRange = 3
INVARIANTS CacheCoherent OpenedIsShortest
