CONSTANTS
    p1 = p1
    p2 = p2
    Proc = {p1, p2}
    calls <- OneLauncher
    Ctx = {c1, c2, c3}
    Name = {1, 2}
    Named = {5}
    HANDLE_MASK = 3
    DEFAULT_SLOT_SIZE = 1
    harbor = 4
    Nil = Nil
SPECIFICATION FairSpec
INVARIANT LockExclusive
PROPERTIES IsDirectory SweepComplete WriterProceeds
