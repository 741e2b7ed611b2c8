SPECIFICATION FairSpec
CHECK_DEADLOCK FALSE
CONSTANTS
    PrfAlg <- MCPrfAlg
    Plans <- MCPlans
    Overhead = 1
INVARIANTS
    NonceOnce EarlyDataAllOrNothing SecretsAgree
PROPERTY KeysInStep
