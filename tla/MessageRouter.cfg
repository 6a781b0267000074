SPECIFICATION FairSpec
CONSTANTS
    k1 = k1
    k2 = k2
    m1 = m1
    m2 = m2
    m3 = m3
    m4 = m4
    r1 = r1
    r2 = r2
    Keys = {k1, k2}
    Msgs = {m1, m2, m3, m4}
    MsgKey <- AllKinds
    Regs = {r1, r2}
    RegKey <- TwoWatches
    Waiters = {w1}
    NoKey = NoKey
    NoReg = NoReg
    NoMsg = NoMsg
INVARIANTS NoMissedMessage ExactlyOnePlace
PROPERTIES ImplementsOneShot EveryWatchEnds
CHECK_DEADLOCK FALSE
