---------------------------- MODULE MCSkynetCore ----------------------------
EXTENDS SkynetCore, TLC

CONSTANTS w1, w2

\* thread_worker i has the i-th weight of start(): the first four take one message at a
\* time, the next four what is in the mailbox.
Weights == (w1 :> -1) @@ (w2 :> 0)
=============================================================================
