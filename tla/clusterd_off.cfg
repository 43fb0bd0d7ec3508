CONSTANTS
    Node = {n1}
    Address = {a1, a2}
    Malformed = {}
    Service = {s1, s2}
    Client = {c1, c2}
    Fork = {f1, f2}
    BadConfig = FALSE
    Off = Off
    Nil = Nil
    Err = Err
    Pending = Pending
SPECIFICATION Spec
SYMMETRY Symmetry
INVARIANT OffNodeIsClosed
