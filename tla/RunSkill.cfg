SPECIFICATION FairSpec
CONSTANTS
    MaxAttempts = 2
    MaxCheckIns = 1
    MaxTurns = 2
    Deliberate = TRUE
    LLMFails = TRUE
    SkillFails = TRUE
    MaxRounds = 2
    MaxReplies = 1
INVARIANTS OneContinuation LatestAttemptAnswers
PROPERTIES ImplementsInvocation ResultArrives
CHECK_DEADLOCK FALSE
