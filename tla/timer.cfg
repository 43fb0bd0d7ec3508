CONSTANTS
    TIME_NEAR = 2
    TIME_LEVEL = 2
    Node = {m1, m2}
    MaxDelay = 15
    MaxDiff = 2
SPECIFICATION TimerSpec
INVARIANTS OnTime InOrder
