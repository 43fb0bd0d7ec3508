CONSTANTS
    MaxOps = 4
    Sender = Sender
    Nil = Nil
SPECIFICATION FairSpec
INVARIANTS SentInOrder QueueFate
PROPERTY OpsSettle
