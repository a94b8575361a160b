SPECIFICATION Spec
CONSTANTS
  SeqSpace = 6
  WindowSize = 2
  MaxRetries = 1
  FragmentSize = 1
  ChokeThreshold = 0
  MaxReassembly = 2
  a = a
  b = b
  Nodes <- MCNodes
  MaxLive = 2
  KeySpace = 3
  Scenarios <- MCSafety
INVARIANTS
  InboundOnce
  PairAgrees
  SingleSource
  OpenAnswered
CHECK_DEADLOCK FALSE
