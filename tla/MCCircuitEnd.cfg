SPECIFICATION MCFairSpec
CONSTANTS
  SeqSpace = 6
  WindowSize = 2
  MaxRetries = 1
  FragmentSize = 1
  ChokeThreshold = 1
  MaxReassembly = 1
  Keys <- MCKeys
  Units <- MCUnits
  Heard <- MCHeard
  Writes <- MCWrites
  MaxVs = 3
  MaxVr = 2
  MaxPending = 2
INVARIANTS
  NoMissedPump
  RetryBudget
PROPERTIES
  ExchangesResolve
