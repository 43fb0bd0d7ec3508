CONSTANTS
    Node = {n1}
    Address = {a1, a2, bad}
    Malformed = {bad}
    Service = {s1, s2}
    Client = {c1, c2, c3}
    Fork = {f1, f2}
    BadConfig = TRUE
    Off = Off
    Nil = Nil
    Err = Err
    Pending = Pending
SPECIFICATION Spec
SYMMETRY Symmetry
INVARIANTS SingleOpener OneSender NoLostWaiter
