----------------------------- MODULE HandleTable -----------------------------
(***************************************************************************)
(* The table of handles of a skynet process (skynet_handle.c), with the    *)
(* reader-writer lock that guards it (rwlock.h) and the two steps in which *)
(* skynet_context_new gives a context its handle (skynet_server.c).        *)
(*                                                                         *)
(* A step is one access to the lock or what a caller does inside it, up to *)
(* its next access; the two assignments that end a rehash are two steps.   *)
(* A context that has left the table is not read through it any more and   *)
(* is free for a new launch: the references that keep it allocated are the *)
(* subject of SkynetCore.                                                  *)
(***************************************************************************)
EXTENDS Integers, Sequences, FiniteSets

CONSTANTS
    Proc,           \* callers: callbacks that run on worker threads
    calls,          \* the functions that each of them calls
    Ctx,            \* contexts
    Name, Named,    \* names, 1..n in the order of strcmp, and the handles that get one
    HANDLE_MASK,    \* the code's 2^24 - 1
    DEFAULT_SLOT_SIZE,
    harbor,         \* already shifted: a multiple of HANDLE_MASK + 1
    Nil             \* NULL

Handle == harbor .. harbor + HANDLE_MASK
Function == {"register", "retire", "grab", "findname", "namehandle", "retireall"}

\* A power of two: it has no odd divisor but 1.
IsPower(x) == \A d \in 2..x : x % d = 0 => d % 2 = 0

ASSUME HandleAssumption ==
    /\ IsFiniteSet(Proc)
    /\ calls \in [Proc -> SUBSET Function]
    /\ Name \subseteq Nat /\ Named \subseteq Handle
    /\ HANDLE_MASK \in Nat /\ IsPower(HANDLE_MASK + 1)
    /\ DEFAULT_SLOT_SIZE \in Nat \ {0} /\ (HANDLE_MASK + 1) % DEFAULT_SLOT_SIZE = 0
    /\ harbor \in Nat /\ harbor % (HANDLE_MASK + 1) = 0
    /\ Nil \notin Ctx \cup Handle \cup Name \cup {0}

VARIABLES
    write, read,          \* struct rwlock
    slot, slot_size, handle_index,
    name,                 \* the sorted array of names with their handles
    handle,               \* ctx->handle, 0 before it is assigned
    pc, op, arg,          \* where a caller is, in which call, of what
    i, n,                 \* the loop of retireall: its slot, and 1 if its pass retired any
    there,                \* history: the handles in use since its pass began
    got,                  \* what the last call returned
    failed                \* an assertion of skynet_handle.c failed

lock == <<write, read>>
table == <<slot, slot_size, handle_index>>
sweep == <<i, n, there>>
vars == <<lock, table, name, handle, pc, op, arg, sweep, got, failed>>

Init ==
    /\ write = FALSE /\ read = 0
    /\ slot = [k \in 0..(DEFAULT_SLOT_SIZE - 1) |-> Nil]
    /\ slot_size = DEFAULT_SLOT_SIZE
    /\ handle_index = 1
    /\ name = <<>>
    /\ handle = [c \in Ctx |-> 0]
    /\ pc = [p \in Proc |-> "idle"]
    /\ op = [p \in Proc |-> "none"] /\ arg = [p \in Proc |-> Nil]
    /\ i = [p \in Proc |-> 0] /\ n = [p \in Proc |-> 0]
    /\ there = [p \in Proc |-> {}]
    /\ got = [p \in Proc |-> Nil]
    /\ failed = FALSE

Goto(p, l) == pc' = [pc EXCEPT ![p] = l]
InTable == {slot[k] : k \in DOMAIN slot} \ {Nil}
Used == {handle[c] : c \in InTable} \ {0}

-----------------------------------------------------------------------------
(* Calls                                                                   *)

Call(p, f, a, l) ==
    /\ pc[p] = "idle" /\ f \in calls[p]
    /\ op' = [op EXCEPT ![p] = f]
    /\ arg' = [arg EXCEPT ![p] = a]
    /\ Goto(p, l)
    /\ got' = [got EXCEPT ![p] = Nil]

\* skynet_context_new: the context is new, and its handle is 0.
CallRegister(p, c) ==
    /\ c \notin InTable /\ \A o \in Proc : op[o] = "register" => arg[o] # c
    /\ Call(p, "register", c, "wlock")
    /\ handle' = [handle EXCEPT ![c] = 0]
    /\ UNCHANGED <<lock, table, name, sweep, failed>>

CallRetire(p, h) ==
    /\ Call(p, "retire", h, "wlock")
    /\ UNCHANGED <<lock, table, name, handle, sweep, failed>>

CallGrab(p, h) ==
    /\ Call(p, "grab", h, "rlock")
    /\ UNCHANGED <<lock, table, name, handle, sweep, failed>>

CallFindname(p, m) ==
    /\ Call(p, "findname", m, "rlock")
    /\ UNCHANGED <<lock, table, name, handle, sweep, failed>>

CallNamehandle(p, h, m) ==
    /\ Call(p, "namehandle", <<h, m>>, "wlock")
    /\ UNCHANGED <<lock, table, name, handle, sweep, failed>>

CallRetireall(p) ==
    /\ Call(p, "retireall", Nil, "sweep")
    /\ i' = [i EXCEPT ![p] = 0] /\ n' = [n EXCEPT ![p] = 0]
    /\ there' = [there EXCEPT ![p] = Used]
    /\ UNCHANGED <<lock, table, name, handle, failed>>

\* A call is over; the locals of the caller are dead.
Return(p) ==
    /\ Goto(p, "idle")
    /\ op' = [op EXCEPT ![p] = "none"]
    /\ arg' = [arg EXCEPT ![p] = Nil]

-----------------------------------------------------------------------------
(* rwlock.h                                                                *)

\* rwlock_rlock: spin while a writer is there, count, and look again.
RSpins(p) ==
    /\ pc[p] = "rlock" /\ ~write
    /\ Goto(p, "rcount")
    /\ UNCHANGED <<lock, table, name, handle, op, arg, sweep, got, failed>>

RCounts(p) ==
    /\ pc[p] = "rcount"
    /\ read' = read + 1
    /\ Goto(p, "rcheck")
    /\ UNCHANGED <<write, table, name, handle, op, arg, sweep, got, failed>>

RChecks_Not(p) ==
    /\ pc[p] = "rcheck"
    /\ Goto(p, "reading")
    /\ UNCHANGED <<lock, table, name, handle, op, arg, sweep, got, failed>>
RChecks(p) ==
    /\ pc[p] = "rcheck"
    /\ Goto(p, IF write THEN "rback" ELSE "reading")
    /\ UNCHANGED <<lock, table, name, handle, op, arg, sweep, got, failed>>

RBacks_Kept(p) ==
    /\ pc[p] = "rback"
    /\ Goto(p, "rlock")
    /\ UNCHANGED <<lock, table, name, handle, op, arg, sweep, got, failed>>
RBacks(p) ==
    /\ pc[p] = "rback"
    /\ read' = read - 1
    /\ Goto(p, "rlock")
    /\ UNCHANGED <<write, table, name, handle, op, arg, sweep, got, failed>>

\* rwlock_wlock: take the flag, then wait for the readers.
WSets(p) ==
    /\ pc[p] = "wlock" /\ ~write
    /\ write' = TRUE
    /\ Goto(p, "wwait")
    /\ UNCHANGED <<read, table, name, handle, op, arg, sweep, got, failed>>

WWaits(p) ==
    /\ pc[p] = "wwait" /\ read = 0
    /\ Goto(p, "writing")
    /\ UNCHANGED <<lock, table, name, handle, op, arg, sweep, got, failed>>

Runlock == read' = read - 1 /\ UNCHANGED write
Wunlock == write' = FALSE /\ UNCHANGED read

-----------------------------------------------------------------------------
(* skynet_handle_register                                                  *)

Hash(h, size) == h % size

\* The first free slot that a handle after the last one hashes to.
Offered == [k \in 0..(slot_size - 1) |-> (k + handle_index) % (HANDLE_MASK + 1)]
FreeOffer == {k \in 0..(slot_size - 1) : slot[Hash(Offered[k], slot_size)] = Nil}

TakeSlot(p) ==
    /\ pc[p] = "writing" /\ op[p] = "register"
    /\ \E k \in FreeOffer :
          /\ \A j \in FreeOffer : k <= j
          /\ slot' = [slot EXCEPT ![Hash(Offered[k], slot_size)] = arg[p]]
          /\ handle_index' = Offered[k] + 1
          /\ got' = [got EXCEPT ![p] = Offered[k]]
    /\ Wunlock
    /\ Goto(p, "assign")
    /\ UNCHANGED <<slot_size, name, handle, op, arg, sweep, failed>>

Rehashed(k) == Hash(handle[slot[k]], slot_size * 2)

\* A full table is doubled: s->slot is replaced first.
Rehash(p) ==
    /\ pc[p] = "writing" /\ op[p] = "register" /\ FreeOffer = {}
    /\ IF \/ slot_size * 2 - 1 > HANDLE_MASK
          \/ \E j, k \in DOMAIN slot : j # k /\ Rehashed(j) = Rehashed(k)
       THEN failed' = TRUE /\ Goto(p, "aborted") /\ UNCHANGED slot
       ELSE /\ slot' = [j \in 0..(slot_size * 2 - 1) |->
                           IF \E k \in DOMAIN slot : Rehashed(k) = j
                           THEN slot[CHOOSE k \in DOMAIN slot : Rehashed(k) = j] ELSE Nil]
            /\ Goto(p, "resize")
            /\ UNCHANGED failed
    /\ UNCHANGED <<lock, slot_size, handle_index, name, handle, op, arg, sweep, got>>

Resize(p) ==
    /\ pc[p] = "resize"
    /\ slot_size' = slot_size * 2
    /\ Goto(p, "writing")
    /\ UNCHANGED <<lock, slot, handle_index, name, handle, op, arg, sweep, got, failed>>

\* ctx->handle = skynet_handle_register(ctx), outside the lock.
Assign(p) ==
    /\ pc[p] = "assign"
    /\ handle' = [handle EXCEPT ![arg[p]] = got[p] + harbor]
    /\ got' = [got EXCEPT ![p] = got[p] + harbor]
    /\ Return(p)
    /\ UNCHANGED <<lock, table, name, sweep, failed>>

-----------------------------------------------------------------------------
(* skynet_handle_retire, _grab and _retireall                              *)

Found_Unchecked(h) == slot[Hash(h, slot_size)]
Found(h) ==
    LET c == slot[Hash(h, slot_size)] IN IF c # Nil /\ handle[c] = h THEN c ELSE Nil

\* The array of names without those of h.
Kept(h) ==
    LET kept[k \in 0..Len(name)] ==
            IF k = 0 THEN <<>>
            ELSE IF name[k].handle = h THEN kept[k - 1] ELSE Append(kept[k - 1], name[k])
    IN  kept
NamesWithout(h) == Kept(h)[Len(name)]

\* The handle of a context that has left the table is not read any more.
Retire(p) ==
    /\ pc[p] = "writing" /\ op[p] \in {"retire", "retireall"}
    /\ IF Found(arg[p]) = Nil
       THEN UNCHANGED <<slot, handle, name, n, there>>
       ELSE /\ slot' = [slot EXCEPT ![Hash(arg[p], slot_size)] = Nil]
            /\ handle' = [handle EXCEPT ![Found(arg[p])] = 0]
            /\ name' = NamesWithout(arg[p])
            /\ n' = [n EXCEPT ![p] = IF op[p] = "retireall" THEN 1 ELSE @]
            /\ there' = [o \in Proc |-> there[o] \ {arg[p]}]
    /\ Wunlock
    /\ IF op[p] = "retire"
       THEN Return(p) /\ UNCHANGED i
       ELSE /\ i' = [i EXCEPT ![p] = @ + 1]
            /\ arg' = [arg EXCEPT ![p] = Nil]
            /\ Goto(p, "sweep")
            /\ UNCHANGED op
    /\ UNCHANGED <<slot_size, handle_index, got, failed>>

Grab(p) ==
    /\ pc[p] = "reading" /\ op[p] = "grab"
    /\ got' = [got EXCEPT ![p] = Found(arg[p])]
    /\ Runlock
    /\ Return(p)
    /\ UNCHANGED <<table, name, handle, sweep, failed>>

\* The head of the loop: slot_size is read outside the lock. A pass that retired
\* something is followed by another one.
Sweep_Once(p) ==
    /\ pc[p] = "sweep"
    /\ IF i[p] < DEFAULT_SLOT_SIZE
       THEN Goto(p, "rlock") /\ UNCHANGED <<op, arg, sweep>>
       ELSE IF n[p] = 0
       THEN Return(p) /\ i' = [i EXCEPT ![p] = 0] /\ UNCHANGED <<n, there>>
       ELSE /\ i' = [i EXCEPT ![p] = 0] /\ n' = [n EXCEPT ![p] = 0]
            /\ there' = [there EXCEPT ![p] = Used]
            /\ UNCHANGED <<pc, op, arg>>
    /\ UNCHANGED <<lock, table, name, handle, got, failed>>
Sweep(p) ==
    /\ pc[p] = "sweep"
    /\ IF i[p] < slot_size
       THEN Goto(p, "rlock") /\ UNCHANGED <<op, arg, sweep>>
       ELSE IF n[p] = 0
       THEN Return(p) /\ i' = [i EXCEPT ![p] = 0] /\ UNCHANGED <<n, there>>
       ELSE /\ i' = [i EXCEPT ![p] = 0] /\ n' = [n EXCEPT ![p] = 0]
            /\ there' = [there EXCEPT ![p] = Used]
            /\ UNCHANGED <<pc, op, arg>>
    /\ UNCHANGED <<lock, table, name, handle, got, failed>>

\* The handle in slot i, if any, is retired in a region of its own.
SweepReads(p) ==
    /\ pc[p] = "reading" /\ op[p] = "retireall"
    /\ LET c == slot[i[p]]
           h == IF c = Nil THEN 0 ELSE handle[c]
       IN  IF h = 0
           THEN i' = [i EXCEPT ![p] = @ + 1] /\ Goto(p, "sweep") /\ UNCHANGED arg
           ELSE arg' = [arg EXCEPT ![p] = h] /\ Goto(p, "wlock") /\ UNCHANGED i
    /\ Runlock
    /\ UNCHANGED <<table, name, handle, op, n, there, got, failed>>

-----------------------------------------------------------------------------
(* Names                                                                   *)

\* The binary search of skynet_handle_findname and _insert_name between begin and end: the
\* index of m if it is there, otherwise begin, the place before which it belongs.
Between(m) ==
    LET at[r \in (0..Len(name)) \X (-1..(Len(name) - 1))] ==
            LET begin == r[1]
                end == r[2]
                mid == (begin + end) \div 2
                x == name[mid + 1].name
            IN  IF begin > end THEN [found |-> FALSE, at |-> begin]
                ELSE IF x = m THEN [found |-> TRUE, at |-> mid]
                ELSE IF x < m THEN at[mid + 1, end] ELSE at[begin, mid - 1]
    IN  at
Search(m) == Between(m)[0, Len(name) - 1]

Findname(p) ==
    /\ pc[p] = "reading" /\ op[p] = "findname"
    /\ LET r == Search(arg[p])
       IN  got' = [got EXCEPT ![p] = IF r.found THEN name[r.at + 1].handle ELSE Nil]
    /\ Runlock
    /\ Return(p)
    /\ UNCHANGED <<table, name, handle, sweep, failed>>

\* _insert_name_before
InsertBefore(e, k) == SubSeq(name, 1, k) \o <<e>> \o SubSeq(name, k + 1, Len(name))

Namehandle(p) ==
    /\ pc[p] = "writing" /\ op[p] = "namehandle"
    /\ LET m == arg[p][2]
           r == Search(m)
       IN  IF r.found
           THEN UNCHANGED <<name, got>>
           ELSE /\ name' = InsertBefore([name |-> m, handle |-> arg[p][1]], r.at)
                /\ got' = [got EXCEPT ![p] = m]
    /\ Wunlock
    /\ Return(p)
    /\ UNCHANGED <<table, handle, sweep, failed>>

-----------------------------------------------------------------------------

Calls(p) ==
    \/ \E c \in Ctx : CallRegister(p, c)
    \/ \E h \in Handle : CallRetire(p, h) \/ CallGrab(p, h)
    \/ \E m \in Name : CallFindname(p, m)
    \/ \E h \in Named, m \in Name : CallNamehandle(p, h, m)
    \/ CallRetireall(p)

Runs(p) ==
    \/ RSpins(p) \/ RCounts(p) \/ RChecks(p) \/ RBacks(p) \/ WSets(p) \/ WWaits(p)
    \/ TakeSlot(p) \/ Rehash(p) \/ Resize(p) \/ Assign(p)
    \/ Retire(p) \/ Grab(p) \/ Sweep(p) \/ SweepReads(p)
    \/ Findname(p) \/ Namehandle(p)

Next == \E p \in Proc : Calls(p) \/ Runs(p)

Spec == Init /\ [][Next]_vars

\* A thread that is inside a call keeps running. Nothing is assumed of who gets a lock
\* that several threads spin on.
FairSpec == Spec /\ \A p \in Proc : WF_vars(Runs(p))

-----------------------------------------------------------------------------
(* Properties                                                              *)

WritingPc == {"writing", "resize"}

\* rwlock.h: who writes is alone, although a reader looks at the flag, counts itself and
\* looks again, and a writer sets the flag before it looks at the count.
LockExclusive ==
    \A p, o \in Proc : p # o /\ pc[p] \in WritingPc => pc[o] \notin WritingPc \cup {"reading"}

\* The directory that the table stands for. A context is in it from the moment it has its
\* handle, and retireall is not about one handle.
Registered == [h \in Used |-> CHOOSE c \in InTable : handle[c] = h]
Bound == [m \in {name[k].name : k \in DOMAIN name} |->
             name[CHOOSE k \in DOMAIN name : name[k].name = m].handle]
Asked == [p \in Proc |-> IF op[p] = "retireall" THEN Nil ELSE arg[p]]
Returned == [p \in Proc |-> IF pc[p] = "assign" THEN Nil ELSE got[p]]

\* The handle table is a directory: a grab returns the context of its handle if there is
\* one and no other, a search for a name its handle, and a retirement takes its handle
\* only, through rehashes, wrapped handle indices and the binary searches, whichever
\* calls overlap, launches excepted.
Dir == INSTANCE Directory WITH reg <- Registered, bound <- Bound, arg <- Asked, got <- Returned
IsDirectory == Dir!Spec

\* skynet_handle_retireall returns only when no handle is left that was in use before its
\* last pass, although the table may be rehashed under its loop.
SweepComplete ==
    [][\A p \in Proc : op[p] = "retireall" /\ op'[p] = "none" => there[p] = {}]_vars

\* A writer that has the flag gets in: readers that come meanwhile back off.
WriterProceeds == \A p \in Proc : pc[p] = "wwait" ~> pc[p] = "writing"

\* The assertions of skynet_handle_register hold: no two contexts meet in one slot of the
\* larger table, and the handles suffice.
AssertsHold == ~failed
=============================================================================
