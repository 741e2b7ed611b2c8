CONSTANTS
    EncLife = 2
    DecLife = 1
    SessionLife = 3
    KeyingLife = 3
    Week = 5
    MaxSkew = 1
    MaxKeys = 2
    MaxRejected = 3
    AgeModulus = 16
    AgeAdds <- MCAgeAdds
    KeyNames <- MCKeyNames
    IntroDelays <- MCIntroDelays
    InitialTickets = 1
    Plans <- MCPlans
    MaxTime = 5
SPECIFICATION FairSpec
INVARIANTS
    SecretsAgree TicketSecretsUnique
PROPERTIES
    TicketsLive FallsBack
