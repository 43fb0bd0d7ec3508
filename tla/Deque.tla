-------------------------------- MODULE Deque --------------------------------
(***************************************************************************)
(* What the users of memcache.lua rely on: a double-ended queue that is    *)
(* filled at the back and emptied at both ends.                            *)
(***************************************************************************)
EXTENDS Naturals, Sequences

CONSTANTS
    Obj,   \* what is kept
    Nil    \* the answer of an empty queue

VARIABLES
    q,     \* the objects, oldest first
    arg,   \* the argument of the last call
    ret    \* what it returned

dvars == <<q, arg, ret>>

DInit == q = <<>> /\ arg = Nil /\ ret = Nil

Fill == arg' \in Seq(Obj) /\ q' = arg' /\ ret' = Nil

PushBack == arg' \in Obj /\ q' = Append(q, arg') /\ ret' = Nil

Pop ==
    /\ arg' = Nil
    /\ \/ q = <<>> /\ ret' = Nil /\ q' = q
       \/ q # <<>> /\ ret' = Head(q) /\ q' = Tail(q)

PopBack ==
    /\ arg' = Nil
    /\ \/ q = <<>> /\ ret' = Nil /\ q' = q
       \/ q # <<>> /\ ret' = q[Len(q)] /\ q' = SubSeq(q, 1, Len(q) - 1)

Count == arg' = Nil /\ ret' = Len(q) /\ q' = q

DNext == Fill \/ PushBack \/ Pop \/ PopBack \/ Count

DSpec == DInit /\ [][DNext]_dvars
=============================================================================
