SPECIFICATION SkillsSpec
CONSTANTS
    Keys = {w1, w2, w3}
    Readers = {w1}
    Coordinator = w1
    MaxMaps = 1
    MayExpire = FALSE
    Faults <- ErrorFaults
    SendFails = TRUE
    Transforms <- MCTransforms
    Lists <- MCLists
    Names <- MCNames
    Bindings <- MCBindings
    Expressions <- MCExpressions
CHECK_DEADLOCK FALSE
INVARIANTS CompleteFold AnswerRight LeavesNothing
PROPERTIES CoordinateReturns ImplementsBarrier
