CONSTANTS
  EncryptionLimit = 1
  MaxMessages <- OneServer
  MaxTickets = 0
  MaxRequests <- OneServer
  HalfShutdown <- ClientOnly
  FullShutdown <- Both
  Requesters <- None
  Aborters <- ServerOnly
  Unreliable <- ServerOnly
  Corruptible <- ClientOnly
SPECIFICATION FairSpec
CHECK_DEADLOCK FALSE
INVARIANT ClosesOrderly
PROPERTY ShutdownReturnsEventually
