SPECIFICATION Spec
CONSTANTS
    Workers = {w}
    Composer = composer
    MaxReports = 2
    w = w
    composer = composer
    Lives <- MCLives
    MaxEdits = 1
    MaxAge = 1
    StaleAge = 2
    Ttl = 3
    MayCrash = TRUE
    MaxRaises = 1
INVARIANTS LatestShown DeadExcluded KeysKept DeadForgotten
CHECK_DEADLOCK FALSE
