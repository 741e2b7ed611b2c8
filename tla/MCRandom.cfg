CONSTANTS
  MaxForks = 2
  Threads <- MCThreads
  Main = "main"
  Platforms <- MCPlatforms
  MaxCalls = 4
  MaxEvents = 1
  MaxUInt = 15
SPECIFICATION FairSpec
CHECK_DEADLOCK FALSE
INVARIANTS
  SeededHere ForkNoticedOnce
PROPERTY Available
