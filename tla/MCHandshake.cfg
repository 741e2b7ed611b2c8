CONSTANTS
  Configs <- Ordinary
  Coalescers <- NoPeers
  AsyncPeers <- AllPeers
  MaxHelloRequests = 1
SPECIFICATION MCSpec
INVARIANTS
  TranscriptsAgree ClientCertRequired
PROPERTIES
  PastUnchanged RecordsComplete
