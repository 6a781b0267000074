SPECIFICATION Spec
CONSTANTS
    Agents = {a1}
    Threads = {t1, t2}
    MaxSends = 2
    MaxSeq = 4
    Faults <- AllButAck
    None = None
SYMMETRY ThreadSymmetry
INVARIANTS AtMostOnce InOrder
PROPERTY NoOverwrite
