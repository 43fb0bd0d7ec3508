------------------------------ MODULE Memcache ------------------------------
(***************************************************************************)
(* memcache.lua: a queue kept in a Lua table between two counters that     *)
(* only ever grow at the front. pool_reconn_pending of mysqlpool.lua is an *)
(* array of these.                                                         *)
(***************************************************************************)
EXTENDS Integers, Sequences, FiniteSets

CONSTANTS
    Obj,
    Nil,
    MaxTail   \* bound: objects are added while tail is below it

\* What the theorems assume of them.
MemcacheAssumption == Nil \notin Obj /\ MaxTail \in Nat

VARIABLES
    head, tail,   \* self._head, self._tail
    cache,        \* self._cache, a function on the keys in use
    arg, ret      \* the argument of the last call and what it returned

cacheVars == <<head, tail, cache, arg, ret>>

Get(k) == IF k \in DOMAIN cache THEN cache[k] ELSE Nil
Put(k, o) == [j \in DOMAIN cache \cup {k} |-> IF j = k THEN o ELSE cache[j]]
Without(k) == [j \in DOMAIN cache \ {k} |-> cache[j]]

\* ctor()
Ctor ==
    /\ head = 0 /\ tail = 0
    /\ cache = <<>>
    /\ arg = Nil /\ ret = Nil

\* init(objs): _head is 1 unless there is nothing to insert.
InitObjs(objs) ==
    /\ cache' = objs
    /\ head' = IF objs = <<>> THEN 0 ELSE 1
    /\ tail' = Len(objs)
    /\ arg' = objs /\ ret' = Nil

\* push_back(o), which returns true for an object that is not nil.
Push_back(o) ==
    /\ head' = IF head = 0 THEN 1 ELSE head
    /\ tail' = tail + 1
    /\ cache' = Put(tail + 1, o)
    /\ arg' = o /\ ret' = Nil

\* pop()
Pop ==
    /\ arg' = Nil /\ ret' = Get(head)
    /\ IF Get(head) # Nil
       THEN cache' = Without(head) /\ head' = head + 1
       ELSE UNCHANGED <<cache, head>>
    /\ UNCHANGED tail

\* pop_back()
Pop_back ==
    /\ arg' = Nil /\ ret' = Get(tail)
    /\ IF Get(tail) # Nil
       THEN cache' = Without(tail) /\ tail' = tail - 1
       ELSE UNCHANGED <<cache, tail>>
    /\ UNCHANGED head

\* size()
SizeOf == IF tail = 0 THEN 0 ELSE tail - head + 1

Size ==
    /\ arg' = Nil /\ ret' = SizeOf
    /\ UNCHANGED <<head, tail, cache>>

CacheNext ==
    \/ \E n \in 0..MaxTail : \E objs \in [1..n -> Obj] : InitObjs(objs)
    \/ \E o \in Obj : tail < MaxTail /\ Push_back(o)
    \/ Pop \/ Pop_back \/ Size

CacheSpec == Ctor /\ [][CacheNext]_cacheVars

-----------------------------------------------------------------------------
(* Properties                                                              *)

\* The counters are never negative, and only objects are kept.
CacheTypeOK ==
    /\ head \in Nat /\ tail \in Nat
    /\ cache \in [DOMAIN cache -> Obj]

\* The keys in use are exactly those between the counters, so that neither end ever
\* meets a hole, an object is never overwritten, and size() is never negative.
Contiguous ==
    /\ DOMAIN cache = IF tail = 0 THEN {} ELSE head..tail
    /\ tail # 0 => head >= 1 /\ head <= tail + 1
    /\ tail = 0 => head \in {0, 1}

\* The objects in the order of their keys: what the table stands for.
Contents == [k \in 1..SizeOf |-> cache[head + k - 1]]

D == INSTANCE Deque WITH q <- Contents

\* memcache.lua is a double-ended queue: every call of push_back, pop, pop_back, size
\* and init has the effect and the answer the abstract queue has.
IsDeque == D!DSpec
=============================================================================
