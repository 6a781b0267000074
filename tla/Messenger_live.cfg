SPECIFICATION FairSpec
CONSTANTS
    Agents = {a1, a2}
    Threads = {t1, t2}
    MaxSends = 1
    MaxSeq = 2
    Faults <- NoFaults
    None = None
INVARIANTS NoStrandedInbox InboxExpires
PROPERTY SentIsReceived
