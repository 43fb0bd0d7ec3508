CONSTANTS
    maxconn = 2
    c1 = c1
    c2 = c2
    c3 = c3
    Co = {c1, c2, c3}
    Uses <- MCUses
    StopCo = StopCo
    MaxPending = 1
SPECIFICATION FairSpec
INVARIANTS ReconnExclusive NoLostPending NoOrphan
PROPERTY ReconnEnds
