SPECIFICATION DialogueFairSpec
CONSTANTS
    Initiator = initiator
    Responder = responder
    Convs = {c1, c2}
    MaxQuestions = 2
    MaxMessages = 6
    MaxFaults = 1
    Failures <- AllFailures
INVARIANTS Undisturbed RepliesOnce
PROPERTY AnswersCome
CHECK_DEADLOCK FALSE
