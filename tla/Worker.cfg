SPECIFICATION Spec
CONSTANTS
    Requests = {q1, q2}
    Threads = {t1, t2}
    None = None
    Redelivered <- CancelTwice
    MaxCallbacks = 2
INVARIANTS CancelNotMissed TracksWork CallbacksOnce AnsweredOnce
SYMMETRY Symmetry
CHECK_DEADLOCK FALSE
