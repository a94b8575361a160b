SPECIFICATION Spec
CONSTANTS
  SeqSpace = 8
  WindowSize = 2
  MaxRetries = 1
  FragmentSize = 1
  ChokeThreshold = 0
  MaxReassembly = 2
  Scenarios <- MCSafety
INVARIANTS
  AckMeansReceived
  LossNeverTimesOut
PROPERTIES
  ImplementsService
  HangupIsAnswered
CHECK_DEADLOCK FALSE
