CONSTANTS
    Name = {n1, n2}
    Addr = {a1}
    Fd = {f1}
    Req = {r1, r2}
    MaxBox = 2
    Nil = Nil
    Aborted = Aborted
SPECIFICATION FairSpec
INVARIANTS NamesMatch CacheCoherent NoOrphanAgent
PROPERTIES LookupSound LookupEnds AgentsEnd
