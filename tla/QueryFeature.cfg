SPECIFICATION Spec
CONSTANTS
    w1 = w1
    w2 = w2
    Workers = {w1, w2}
    Coordinator = w1
    Veterans = {w1}
    PoolSize = 1
    MaxEvents = 2
    SecretIsSet = FALSE
    DiskFails = TRUE
    SendFails = {w1}
    Holdings <- MCHoldings
INVARIANTS AnswerFound AccessRight DiskAgrees
CHECK_DEADLOCK FALSE
