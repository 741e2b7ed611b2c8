CONSTANTS
  Configs <- CompatibleOnly
  Coalescers <- AllPeers
  AsyncPeers <- AllPeers
  MaxHelloRequests = 0
SPECIFICATION RetrySpec
INVARIANTS
  MessagesConserved
