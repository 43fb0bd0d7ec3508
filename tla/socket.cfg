CONSTANTS
    MAX_SOCKET = 2
    MaxId = 3
    MaxPackage = 2
    Size = 2
    MaxPipe = 2
SPECIFICATION Spec
INVARIANTS Whole Draining FreshEvents SlotAsserts
CHECK_DEADLOCK FALSE
