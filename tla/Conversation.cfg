SPECIFICATION FairSpec
CONSTANTS
    MaxTurns = 2
    MaxCalls = 2
    MaxAsked = 3
    MaxAttempts = 2
    MaxRetries = 1
    MaxCheckIns = 1
    MaxLost = 1
    Failures <- AllFailures
INVARIANTS AdvancesOnce OwnResults EndsOnce ViewIsTrue
PROPERTIES ImplementsLoop Concludes
CHECK_DEADLOCK FALSE
