CONSTANTS
    p1 = p1
    p2 = p2
    Proc = {p1, p2}
    calls <- TwoLaunchers
    Ctx = {c1, c2, c3}
    Name = {}
    Named = {}
    HANDLE_MASK = 7
    DEFAULT_SLOT_SIZE = 1
    harbor = 8
    Nil = Nil
SPECIFICATION Spec
INVARIANT AssertsHold
