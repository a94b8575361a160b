\* Keep one of the invariants at a time.
SPECIFICATION Spec
CONSTANTS
  SeqSpace = 6
  WindowSize = 2
  MaxRetries = 1
  FragmentSize = 1
  ChokeThreshold = 0
  MaxReassembly = 2
  a = a
  b = b
  Nodes <- MCNodes
  MaxLive = 1
  KeySpace = 2
  Scenarios <- MCDisputed
INVARIANTS
  SingleSourceAlways
\*  PairAgreesAfterRestart
\*  OpenAnsweredAfterReuse
CHECK_DEADLOCK FALSE
