----------------------------- MODULE TimerWheel -----------------------------
(***************************************************************************)
(* The timer of a skynet process (skynet_timer.c): a wheel of lists, one   *)
(* for each of the next ticks and four levels of coarser ones, which are   *)
(* spread over the finer ones when their turn comes. The time is a machine *)
(* word that wraps where the coarsest level does, after 2^32 ticks in the  *)
(* code.                                                                   *)
(*                                                                         *)
(* The timer thread gives the lock away while it dispatches; services add  *)
(* timeouts from then on. What is done inside the lock is one step.        *)
(***************************************************************************)
EXTENDS Integers, Sequences

CONSTANTS
    TIME_NEAR, TIME_LEVEL,  \* the code's 2^8 and 2^6
    Node,       \* timeouts, each pending at most once at a time
    MaxDelay,   \* the largest delay, of an int
    MaxDiff     \* bound: ticks by which the clock is ahead when it is read

\* The ticks of a list of level i, and of the word: mask in add_node and timer_shift.
Mask(i) ==
    CASE i = 0 -> TIME_NEAR
      [] i = 1 -> TIME_NEAR * TIME_LEVEL
      [] i = 2 -> TIME_NEAR * TIME_LEVEL * TIME_LEVEL
      [] i = 3 -> TIME_NEAR * TIME_LEVEL * TIME_LEVEL * TIME_LEVEL
      [] OTHER -> TIME_NEAR * TIME_LEVEL * TIME_LEVEL * TIME_LEVEL * TIME_LEVEL
Word == Mask(4)

ASSUME TimerAssumption ==
    /\ TIME_NEAR \in Nat \ {0, 1} /\ TIME_LEVEL \in Nat \ {0, 1}
    /\ MaxDelay \in Nat \ {0} /\ MaxDelay * 2 < Word
    /\ MaxDiff \in Nat \ {0}

VARIABLES
    time,      \* T->time
    wheel,     \* the lists: near, as level -1, and t
    expire,    \* of each node
    thread,    \* the timer thread: between updates, or in a timer_execute of one
    list,      \* the nodes it dispatches
    diff,      \* timer_update is called so many times more
    due,       \* history: ticks that each pending node still has to wait
    armed,     \* history: the pending nodes
    before     \* history: which of them was added before which

timerVars == <<time, wheel, expire, thread, list, diff, due, armed, before>>

Level == 0..3
Near(k) == <<-1, k>>
Place == ({-1} \X (0..(TIME_NEAR - 1))) \cup (Level \X (0..(TIME_LEVEL - 1)))

\* timer_create_timer
Create_timer ==
    /\ time = 0
    /\ wheel = [s \in Place |-> <<>>]
    /\ expire = [m \in Node |-> 0]
    /\ thread = "idle" /\ list = <<>> /\ diff = 0
    /\ due = [m \in Node |-> 0]
    /\ armed = {} /\ before = {}

-----------------------------------------------------------------------------
(* The wheel                                                               *)

\* (x | (m - 1)) == (y | (m - 1)) for a power m of two
SameBlock(x, y, m) == x \div m = y \div m

\* The finest level whose block of ticks, or the whole word, holds both times.
LevelOf(x, now) ==
    CHOOSE i \in Level : (i = 3 \/ SameBlock(x, now, Mask(i + 1)))
                         /\ \A j \in Level : j < i => ~SameBlock(x, now, Mask(j + 1))

PlaceOf(x, now) ==
    IF SameBlock(x, now, TIME_NEAR) THEN Near(x % TIME_NEAR)
    ELSE <<LevelOf(x, now), (x \div Mask(LevelOf(x, now))) % TIME_LEVEL>>

\* add_node at the time now
Add_node(w, m, x, now) == [w EXCEPT ![PlaceOf(x, now)] = Append(@, m)]

\* move_list: the nodes of a list are added again, in their order.
Moved_Reversed(w, s, now) ==
    LET after[j \in 0..Len(w[s])] ==
            IF j = 0 THEN [w EXCEPT ![s] = <<>>]
            ELSE LET m == w[s][Len(w[s]) + 1 - j] IN Add_node(after[j - 1], m, expire[m], now)
    IN  after
Moved(w, s, now) ==
    LET after[j \in 0..Len(w[s])] ==
            IF j = 0 THEN [w EXCEPT ![s] = <<>>]
            ELSE LET m == w[s][j] IN Add_node(after[j - 1], m, expire[m], now)
    IN  after
Move_list(w, i, k, now) == Moved(w, <<i, k>>, now)[Len(w[i, k])]

\* The level that the carry of the time ct reaches.
Carry(ct) ==
    {i \in Level : ct % Mask(i) = 0 /\ (ct \div Mask(i)) % TIME_LEVEL # 0
                   /\ \A j \in 0..(i - 1) : (ct \div Mask(j)) % TIME_LEVEL = 0}

Shift_NoWrap(w, ct) ==
    IF Carry(ct) = {} THEN w
    ELSE LET i == CHOOSE j \in Carry(ct) : TRUE
         IN  Move_list(w, i, (ct \div Mask(i)) % TIME_LEVEL, ct)
\* timer_shift to the time ct: the level that its carry reaches is spread. When the whole
\* word wraps, that is list 0 of the last level.
Shift(w, ct) ==
    IF ct = 0 THEN Move_list(w, 3, 0, ct)
    ELSE IF Carry(ct) = {} THEN w
    ELSE LET i == CHOOSE j \in Carry(ct) : TRUE
         IN  Move_list(w, i, (ct \div Mask(i)) % TIME_LEVEL, ct)

-----------------------------------------------------------------------------
(* Operations                                                              *)

\* skynet_timeout with a positive delay, in the lock of the timer. (Without one it sends
\* the answer itself and leaves the timer alone.)
Timeout(m, d) ==
    /\ m \notin armed
    /\ expire' = [expire EXCEPT ![m] = (d + time) % Word]
    /\ wheel' = Add_node(wheel, m, (d + time) % Word, time)
    /\ due' = [due EXCEPT ![m] = d]
    /\ armed' = armed \cup {m}
    /\ before' = before \cup (armed \X {m})
    /\ UNCHANGED <<time, thread, list, diff>>

\* skynet_updatetime finds that the clock is d ticks ahead.
Updatetime(d) ==
    /\ thread = "idle"
    /\ diff' = d
    /\ thread' = "update"
    /\ UNCHANGED <<time, wheel, expire, list, due, armed, before>>

\* timer_execute at the time now, in the lock: the list of that time is taken and the lock
\* given away, or there is none and the thread goes on at l.
Execute(w, now, here, l) ==
    LET s == Near(now % TIME_NEAR)
    IN  /\ list' = w[s]
        /\ wheel' = [w EXCEPT ![s] = <<>>]
        /\ thread' = IF w[s] # <<>> THEN here ELSE l

\* The last timer_execute of an update. Without a list the update ends: updatetime calls
\* the next one, or returns.
ExecuteLast(w, now) ==
    /\ Execute(w, now, "second", IF diff = 1 THEN "idle" ELSE "update")
    /\ diff' = IF w[Near(now % TIME_NEAR)] # <<>> THEN diff ELSE diff - 1

\* timer_update: the lists of this time, if there are any, then timer_shift and the lists
\* of the next.
Update ==
    /\ thread \in {"update", "first"} /\ list = <<>>
    /\ IF wheel[Near(time % TIME_NEAR)] # <<>>
       THEN /\ Execute(wheel, time, "first", "first")
            /\ UNCHANGED <<time, diff, due>>
       ELSE LET ct == (time + 1) % Word
            IN  /\ time' = ct
                /\ due' = [m \in Node |-> IF m \in armed THEN due[m] - 1 ELSE due[m]]
                /\ ExecuteLast(Shift(wheel, ct), ct)
    /\ UNCHANGED <<expire, armed, before>>

\* dispatch_list: one message, outside the lock.
Dispatch ==
    /\ thread \in {"first", "second"} /\ list # <<>>
    /\ list' = Tail(list)
    /\ armed' = armed \ {Head(list)}
    /\ before' = {r \in before : Head(list) \notin {r[1], r[2]}}
    /\ UNCHANGED <<time, wheel, expire, thread, diff, due>>

\* The lock is taken again and the list looked at once more.
Relock ==
    /\ thread = "second" /\ list = <<>>
    /\ ExecuteLast(wheel, time)
    /\ UNCHANGED <<time, expire, due, armed, before>>

TimerNext ==
    \/ \E m \in Node, d \in 1..MaxDelay : Timeout(m, d)
    \/ \E d \in 1..MaxDiff : Updatetime(d)
    \/ Update \/ Dispatch \/ Relock

TimerSpec == Create_timer /\ [][TimerNext]_timerVars

-----------------------------------------------------------------------------
(* Properties                                                              *)

\* A timeout of d ticks is taken out of the wheel by the d-th tick, neither earlier nor
\* later, whatever levels it passed through and whether or not the word wrapped.
OnTime == \A m \in armed : (\E k \in DOMAIN list : list[k] = m) <=> due[m] = 0

\* Timeouts that fall due in one tick are dispatched in the order they were added,
\* although they may have been added to different levels.
InOrder == \A j, k \in DOMAIN list : j < k => <<list[j], list[k]>> \in before
=============================================================================
