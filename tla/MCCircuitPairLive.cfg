SPECIFICATION FairSpec
CONSTANTS
  SeqSpace = 6
  WindowSize = 2
  MaxRetries = 1
  FragmentSize = 1
  ChokeThreshold = 1
  MaxReassembly = 2
  Scenarios <- MCLive
PROPERTIES
  EventuallyDelivered
  ChokeReleased
CHECK_DEADLOCK FALSE
