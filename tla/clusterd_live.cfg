CONSTANTS
    Node = {n1}
    Address = {a1, a2}
    Malformed = {}
    Service = {s1, s2}
    Client = {c1, c2}
    Fork = {f1}
    BadConfig = FALSE
    Off = Off
    Nil = Nil
    Err = Err
    Pending = Pending
SPECIFICATION FairSpec
INVARIANTS NamequeryNeedsName SenderFollowsConfig
PROPERTIES ReplyIsCurrent OpenEnds RequestsAnswered
