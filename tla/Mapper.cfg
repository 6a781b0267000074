SPECIFICATION MapperSpec
CONSTANTS
    Keys = {k1, k2}
    Readers = {r1, r2}
    MaxMaps = 2
    MayExpire = TRUE
    Faults <- AllFaults
SYMMETRY Symmetry
INVARIANT OnlyOverlapHides
