SPECIFICATION Spec
CONSTANTS
    MaxAttempts = 1
    MaxCheckIns = 1
    MaxTurns = 2
    Deliberate = TRUE
    LLMFails = FALSE
    SkillFails = FALSE
    MaxRounds = 2
    MaxReplies = 1
INVARIANT CheckInsCapped
CHECK_DEADLOCK FALSE
