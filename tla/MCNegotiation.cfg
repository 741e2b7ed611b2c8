SPECIFICATION Spec
CONSTANTS
    Environments <- MCEnvironments
INVARIANTS
    Agreement WithinPolicies NoDowngrade
PROPERTY Connects
