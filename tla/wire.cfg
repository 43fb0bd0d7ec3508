CONSTANTS
    MaxOps = 3
    MaxSession = 3
    Size = {32767, 32768, 65536}
    Name = {n}
    ReplySize = {32768, 65537}
    Nil = Nil
SPECIFICATION Spec
INVARIANTS Intact LaneOrder ReplyMatches CallInFlight
CHECK_DEADLOCK FALSE
