CONSTANTS
    w1 = w1
    w2 = w2
    Svc = {s1, s2}
    First = s1
    Worker = {w1, w2}
    Timer = Timer
    Socket = Socket
    Source = {Socket}
    weight <- Weights
    MaxMsg = 3
    Nil = Nil
SPECIFICATION FairSpec
INVARIANTS OneOwner NeverStranded HeldAlive 
CHECK_DEADLOCK FALSE
PROPERTIES Settles QuitEnds
