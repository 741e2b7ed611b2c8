SPECIFICATION FairSpec
CONSTANTS
  CertInfo <- MCCertInfo
  CrlInfo <- MCCrlInfo
  DEFAULT_OCSP_NEXT_UPDATE_PERIOD = 1
  Plans <- MCPlans
  MaxTime = 1
  KeyType <- MCKeyType
INVARIANTS
  ChainTrusted RevocationHonoured PeerGenuine OperationsSafe DecryptionSilent
PROPERTY Concludes
CHECK_DEADLOCK FALSE
