CONSTANTS
  EncryptionLimit = 2
  MaxMessages <- OneAndThree
  MaxTickets = 1
  MaxRequests <- OneClient
  HalfShutdown <- ServerOnly
  FullShutdown <- None
  Requesters <- ClientOnly
  Aborters <- None
  Unreliable <- None
  Corruptible <- None
SPECIFICATION Spec
CHECK_DEADLOCK FALSE
INVARIANTS
  NonceNeverReused RecordLimit RecordsDecrypt RequestAnswered
