------------------------------ MODULE MysqlPool ------------------------------
(***************************************************************************)
(* The connection pool of mysqlpool.lua: maxconn connections, statements   *)
(* spread over them, and the repair of a slot whose connection failed      *)
(* (gtables.reconn), done by one coroutine under pool_reconn_lock while    *)
(* the others wait in pool_reconn_pending.                                 *)
(*                                                                         *)
(* Every coroutine of the service runs until it blocks. Where the slice of *)
(* a message ends, the woken coroutines are resumed one after the other,   *)
(* in no particular order (draining), before the next message is taken;    *)
(* but when one raises, or the message does, the others are left for the   *)
(* end of a later slice.                                                   *)
(*                                                                         *)
(* The connection itself (mysql.lua over socketchannel.lua) is external: a *)
(* statement on it is answered or fails at any time, a broken connection   *)
(* reconnects by itself until it is closed, and closing one that is        *)
(* established waits for the socket.                                       *)
(***************************************************************************)
EXTENDS Naturals, Sequences

CONSTANTS
    maxconn,      \* slots of the pool
    Co,           \* coroutines that execute a statement
    StopCo,       \* the coroutine of CMD.stop
    Uses,         \* the slots the statements of a coroutine go to
    MaxPending    \* the code's 2000: waiters a slot has before the next is refused

ASSUME PoolAssumption ==
    /\ maxconn \in Nat \ {0, 1}
    /\ StopCo \notin Co
    /\ Uses \in [Co -> SUBSET (1..maxconn)]
    /\ MaxPending \in Nat

VARIABLES
    obj,       \* the latest connection of a slot: its channel is not closed ("live"),
               \* closed ("closing"), closed and its methods removed ("dead")
    inpool,    \* pool[i] is that connection; otherwise it is nil
    kk_is_active,
    pool_reconn_lock,
    pool_reconn_pending,
    pc, slot,  \* what a coroutine waits for, and its now_index
    mine,      \* its db is the latest connection of its slot
    wakeup,    \* woken coroutines that have not run yet
    draining,  \* they are being resumed; otherwise the next message is handled
    stray,     \* history: a slice that raised left woken coroutines of the slot, or a
               \* new connection was lost while statements that failed had still to run
    orphan     \* history: a live connection of the slot was replaced unclosed,
               \* while it was not stray

conn == <<obj, inpool, kk_is_active>>
reconnVars == <<pool_reconn_lock, pool_reconn_pending>>
procs == <<pc, slot, mine>>
sched == <<wakeup, draining, stray>>
vars == <<conn, reconnVars, procs, sched, orphan>>

Slot == 1..maxconn
Proc == Co \cup {StopCo}

\* The coroutines that hold pool_reconn_lock[i], from line 59 to unlock_func.
Connecting(i) == {c \in Co : slot[c] = i /\ pc[c] \in {"connect", "closing", "charset"}}

\* Statements under way on the connection p holds.
SameConn(p) == {c \in Co : pc[c] = "query" /\ slot[c] = slot[p] /\ mine[c] = mine[p]}

\* The tables of mysqlpool.lua have their types, a woken coroutine is one that was
\* asleep, and a slot never has more than MaxPending + 1 waiters (reconn, line 41).
TypeOK ==
    /\ obj \in [Slot -> {"live", "closing", "dead"}]
    /\ inpool \in [Slot -> BOOLEAN]
    /\ kk_is_active \in [Slot -> BOOLEAN]
    /\ pool_reconn_lock \in [Slot -> BOOLEAN]
    /\ pool_reconn_pending \in [Slot -> Seq(Co)]
    /\ \A i \in Slot : Len(pool_reconn_pending[i]) <= MaxPending + 1
    /\ pc \in [Proc -> {"idle", "query", "wait", "connect", "closing", "charset"}]
    /\ pc[StopCo] \in {"idle", "closing"}
    /\ slot \in [Proc -> Slot \cup {0}]
    /\ \A p \in Proc : pc[p] # "idle" => slot[p] \in Slot
    /\ mine \in [Proc -> BOOLEAN]
    /\ wakeup \in SUBSET Proc
    /\ \A p \in wakeup : pc[p] # "idle"
    /\ draining \in BOOLEAN /\ (draining => wakeup # {})
    /\ stray \in [Slot -> BOOLEAN]
    /\ orphan \in [Slot -> BOOLEAN]

\* CMD.start has connected every slot. It does not set kk_is_active.
Init ==
    /\ obj = [i \in Slot |-> "live"]
    /\ inpool = [i \in Slot |-> TRUE]
    /\ kk_is_active = [i \in Slot |-> FALSE]
    /\ pool_reconn_lock = [i \in Slot |-> FALSE]
    /\ pool_reconn_pending = [i \in Slot |-> <<>>]
    /\ pc = [p \in Proc |-> "idle"]
    /\ slot = [p \in Proc |-> 0]
    /\ mine = [p \in Proc |-> FALSE]
    /\ wakeup = {}
    /\ draining = FALSE
    /\ stray = [i \in Slot |-> FALSE]
    /\ orphan = [i \in Slot |-> FALSE]

-----------------------------------------------------------------------------

Now(p, state, i, own) ==
    /\ pc' = [pc EXCEPT ![p] = state]
    /\ slot' = [slot EXCEPT ![p] = i]
    /\ mine' = [mine EXCEPT ![p] = own]

\* The slice ends, and the woken coroutines W are resumed.
Drains(W) == wakeup' = W /\ draining' = (W # {})

\* The slice raises, and they are left.
Raises(W) ==
    /\ wakeup' = W /\ draining' = FALSE
    /\ stray' = [i \in Slot |-> stray[i] \/ \E c \in W \cap Co : slot[c] = i]

\* The coroutine is done.
Ends(p) == Now(p, "idle", 0, FALSE)

\* Takes the next waiter of slot i, if any, and wakes it. W: others still to run.
WakeNext(i, W) ==
    IF pool_reconn_pending[i] = <<>>
    THEN Drains(W) /\ UNCHANGED pool_reconn_pending
    ELSE /\ Drains(W \cup {Head(pool_reconn_pending[i])})
         /\ pool_reconn_pending' = [pool_reconn_pending EXCEPT ![i] = Tail(@)]

\* A coroutine that finds the slot repaired lets the next waiter look.
PassOn_Silent(i, W) == Drains(W) /\ UNCHANGED pool_reconn_pending
PassOn(i, W) == WakeNext(i, W)

\* unlock_func
Unlock_Silent(i, W) ==
    /\ pool_reconn_lock' = [pool_reconn_lock EXCEPT ![i] = FALSE]
    /\ Drains(W)
    /\ UNCHANGED pool_reconn_pending
Unlock(i, W) ==
    /\ pool_reconn_lock' = [pool_reconn_lock EXCEPT ![i] = FALSE]
    /\ WakeNext(i, W)

\* reconn from line 49, where a woken waiter comes without another look at the
\* lock. act: kk_is_active after line 38. A slot emptied by CMD.stop raises.
Takeover(c, i, act, W) ==
    /\ kk_is_active' = act
    /\ \/ /\ ~inpool[i]
          /\ Ends(c)
          /\ Drains(W)
          /\ UNCHANGED reconnVars
       \/ /\ inpool[i] /\ act[i]
          /\ Ends(c)
          /\ PassOn(i, W)
          /\ UNCHANGED pool_reconn_lock
       \/ /\ inpool[i] /\ ~act[i]
          /\ pool_reconn_lock' = [pool_reconn_lock EXCEPT ![i] = TRUE]
          /\ Now(c, "connect", i, TRUE)
          /\ Drains(W)
          /\ UNCHANGED pool_reconn_pending

\* Somebody repairs the slot.
Locked_Ignored(i) == FALSE
Locked(i) == pool_reconn_lock[i]

\* Too many wait already.
Full(i) == Len(pool_reconn_pending[i]) > MaxPending

\* gtables.reconn, called with a db that is (own) or is no longer the slot's.
Reconn(c, i, own, W) ==
    LET act == IF own THEN [kk_is_active EXCEPT ![i] = FALSE] ELSE kk_is_active
    IN  \/ /\ Locked(i) /\ Full(i)
           /\ kk_is_active' = act
           /\ Ends(c)
           /\ Drains(W)
           /\ UNCHANGED reconnVars
        \/ /\ Locked(i) /\ ~Full(i)
           /\ kk_is_active' = act
           /\ pool_reconn_pending' = [pool_reconn_pending EXCEPT ![i] = Append(@, c)]
           /\ Now(c, "wait", i, FALSE)
           /\ Drains(W)
           /\ UNCHANGED pool_reconn_lock
        \/ ~Locked(i) /\ Takeover(c, i, act, W)

-----------------------------------------------------------------------------
(* A statement: CMD.execute and CMD.execute_send.                          *)

\* The first query, on the slot getconn gives: by channel, or the next one in turn,
\* which may be any. On a closed connection, and on one whose loss shows when it is
\* written to, it fails before the coroutine blocks. An empty slot raises.
Execute(c, i) ==
    /\ ~draining /\ pc[c] = "idle"
    /\ \/ /\ ~inpool[i]
          /\ Raises(wakeup)
          /\ UNCHANGED <<kk_is_active, reconnVars, procs>>
       \/ /\ inpool[i] /\ obj[i] = "live"
          /\ Now(c, "query", i, TRUE)
          /\ Drains(wakeup)
          /\ UNCHANGED <<kk_is_active, reconnVars, stray>>
       \/ inpool[i] /\ Reconn(c, i, TRUE, wakeup) /\ UNCHANGED stray
    /\ UNCHANGED <<obj, inpool, orphan>>

\* CMD.quote_sql_str. A connection that is dead has no such method.
Quote_sql_str(i) ==
    /\ ~draining
    /\ \/ inpool[i] /\ obj[i] # "dead" /\ Drains(wakeup) /\ UNCHANGED stray
       \/ (inpool[i] => obj[i] = "dead") /\ Raises(wakeup)
    /\ UNCHANGED <<conn, reconnVars, procs, orphan>>

\* A slice of the service that has nothing to do with the pool.
OtherMessage ==
    /\ ~draining /\ wakeup # {}
    /\ Drains(wakeup)
    /\ UNCHANGED <<conn, reconnVars, procs, stray, orphan>>

\* A message wakes the coroutines W.
Wakes(W) ==
    /\ ~draining
    /\ Drains(wakeup \cup W)
    /\ UNCHANGED <<conn, reconnVars, procs, stray, orphan>>

\* MySQL answers c, or a connection breaks: statements under way on it fail together.
Reported(c) ==
    /\ c \notin wakeup
    /\ \/ pc[c] = "query" /\ \E S \in SUBSET SameConn(c) : c \in S /\ Wakes(S)
       \/ pc[c] \in {"connect", "charset"} /\ Wakes({c})

\* The woken coroutine p goes on, and then the next.
Resumed(p) == draining /\ p \in wakeup
Others(p) == wakeup \ {p}

\* The answer of the first query.
Answered(c) ==
    /\ Resumed(c) /\ pc[c] = "query"
    /\ Ends(c)
    /\ Drains(Others(c))
    /\ UNCHANGED <<conn, reconnVars, stray, orphan>>

\* A coroutine whose first query failed goes on in reconn.
QueryFailed(c) ==
    /\ Resumed(c) /\ pc[c] = "query"
    /\ Reconn(c, slot[c], mine[c], Others(c))
    /\ UNCHANGED <<obj, inpool, stray, orphan>>

-----------------------------------------------------------------------------
(* The repair of a slot: to_connet_func.                                   *)

WaitEnds(c) ==
    /\ Resumed(c) /\ pc[c] = "wait"
    /\ Takeover(c, slot[c], kk_is_active, Others(c))
    /\ UNCHANGED <<obj, inpool, stray, orphan>>

\* mysql.connect raises: pcall, then unlock_func.
ConnectFails(c) ==
    /\ Resumed(c) /\ pc[c] = "connect"
    /\ Ends(c)
    /\ Unlock(slot[c], Others(c))
    /\ UNCHANGED <<conn, stray, orphan>>

\* new_db:query("set charset utf8mb4") blocks, or fails at once if the new connection is
\* lost already, maybe in front of coroutines that failed on the old one.
Charset(c) ==
    \/ /\ Now(c, "charset", slot[c], mine[c])
       /\ Drains(Others(c))
       /\ UNCHANGED <<reconnVars, stray>>
    \/ /\ Ends(c)
       /\ Unlock(slot[c], Others(c))
       /\ stray' = [stray EXCEPT ![slot[c]] =
                       @ \/ \E d \in Others(c) \cap Co : slot[d] = slot[c]]

\* db.disconnect has closed the channel of the old connection and removed its methods.
Disconnected_Skipped(p) == UNCHANGED obj
Disconnected(p) ==
    obj' = IF mine[p] THEN [obj EXCEPT ![slot[p]] = "dead"] ELSE obj

\* mysql.connect returns: the old connection is closed. A channel that is closed
\* already, or whose socket is down, is not waited for.
ConnectOk(c) ==
    /\ Resumed(c) /\ pc[c] = "connect"
    /\ \/ /\ mine[c] => obj[slot[c]] = "live"
          /\ obj' = IF mine[c] THEN [obj EXCEPT ![slot[c]] = "closing"] ELSE obj
          /\ Now(c, "closing", slot[c], mine[c])
          /\ Drains(Others(c))
          /\ UNCHANGED <<reconnVars, stray>>
       \/ Disconnected(c) /\ Charset(c)
    /\ UNCHANGED <<inpool, kk_is_active, orphan>>

\* The socket of a closed channel is gone: statements still under way on it may fail
\* with the coroutine that closes it.
SocketClosed(p) ==
    /\ pc[p] = "closing" /\ p \notin wakeup
    /\ \E S \in SUBSET SameConn(p) : Wakes(S \cup {p})

DisconnectEnds(c) ==
    /\ Resumed(c) /\ pc[c] = "closing"
    /\ Disconnected(c)
    /\ Charset(c)
    /\ UNCHANGED <<inpool, kk_is_active, orphan>>

CharsetFails(c) ==
    /\ Resumed(c) /\ pc[c] = "charset"
    /\ Ends(c)
    /\ Unlock(slot[c], Others(c))
    /\ UNCHANGED <<conn, stray, orphan>>

\* The new connection takes the slot, and the coroutine repeats its statement, as it does
\* where another has repaired the slot (Takeover): what comes of it does not touch the pool.
CharsetOk(c) ==
    LET i == slot[c]
    IN  /\ Resumed(c) /\ pc[c] = "charset"
        /\ orphan' = [orphan EXCEPT ![i] = @ \/ (~stray[i] /\ inpool[i] /\ obj[i] = "live")]
        /\ obj' = [obj EXCEPT ![i] = "live"]
        /\ inpool' = [inpool EXCEPT ![i] = TRUE]
        /\ kk_is_active' = [kk_is_active EXCEPT ![i] = TRUE]
        /\ Unlock(i, Others(c))
        /\ pc' = [pc EXCEPT ![c] = "idle"]
        /\ mine' = [p \in Proc |-> mine[p] /\ slot[p] # i]
        /\ slot' = [slot EXCEPT ![c] = 0]
        /\ UNCHANGED stray

-----------------------------------------------------------------------------
(* CMD.stop                                                                *)

\* The loop of CMD.stop from slot k: every connection before j is closed without a
\* wait; at j it waits for the socket, or raises for a connection disconnected before,
\* which has no methods. Past the last one the pool is emptied.
StopFrom(k, o, W) ==
    \E j \in k..(maxconn + 1) :
        LET closed == [i \in Slot |-> IF i \in k..(j - 1) /\ inpool[i] THEN "dead" ELSE o[i]]
        IN  /\ \A i \in k..(j - 1) : inpool[i] => o[i] # "dead"
            /\ \/ /\ j > maxconn
                  /\ obj' = closed
                  /\ inpool' = [i \in Slot |-> FALSE]
                  /\ Ends(StopCo)
                  /\ Drains(W) /\ UNCHANGED stray
               \/ /\ j <= maxconn /\ inpool[j] /\ o[j] = "dead"
                  /\ obj' = closed
                  /\ Ends(StopCo)
                  /\ Raises(W)
                  /\ UNCHANGED inpool
               \/ /\ j <= maxconn /\ inpool[j] /\ o[j] = "live"
                  /\ obj' = [closed EXCEPT ![j] = "closing"]
                  /\ Now(StopCo, "closing", j, TRUE)
                  /\ Drains(W) /\ UNCHANGED <<inpool, stray>>

Stop ==
    /\ ~draining /\ pc[StopCo] = "idle"
    /\ StopFrom(1, obj, wakeup)
    /\ UNCHANGED <<kk_is_active, reconnVars, orphan>>

StopGoesOn ==
    /\ Resumed(StopCo)
    /\ StopFrom(slot[StopCo] + 1,
                IF mine[StopCo] THEN [obj EXCEPT ![slot[StopCo]] = "dead"] ELSE obj,
                Others(StopCo))
    /\ UNCHANGED <<kk_is_active, reconnVars, orphan>>

\* What a woken coroutine does.
Runs(c) ==
    \/ Answered(c) \/ QueryFailed(c) \/ WaitEnds(c)
    \/ ConnectFails(c) \/ ConnectOk(c) \/ DisconnectEnds(c)
    \/ CharsetFails(c) \/ CharsetOk(c)

Next ==
    \/ \E c \in Co : Runs(c) \/ Reported(c) \/ \E i \in Uses[c] : Execute(c, i)
    \/ \E p \in Proc : SocketClosed(p)
    \/ \E i \in Slot : Quote_sql_str(i)
    \/ OtherMessage \/ Stop \/ StopGoesOn

Spec == Init /\ [][Next]_vars

\* A woken coroutine runs. MySQL answers or refuses a connection and the first
\* statement on it, and the socket layer reports a socket it was told to close: such a
\* message stays in the queue of the service until it is taken (SF), whatever else is
\* taken before it. The service goes on receiving messages while woken coroutines are
\* left.
Fairness ==
    /\ \A c \in Co :
          /\ WF_vars(Runs(c))
          /\ SF_vars(SocketClosed(c) \/ (pc[c] \in {"connect", "charset"} /\ Reported(c)))
    /\ WF_vars(StopGoesOn)
    /\ WF_vars(OtherMessage)

FairSpec == Spec /\ Fairness

-----------------------------------------------------------------------------
(* Properties                                                              *)

\* At most one coroutine repairs a slot, and pool_reconn_lock says whether one does,
\* although a woken waiter (reconn, line 49) does not look at the lock again. The order
\* of the slices is what excludes a second repair, so not where that was upset (stray).
ReconnExclusive ==
    \A i \in Slot : ~stray[i] =>
        /\ \A c, d \in Connecting(i) : c = d
        /\ pool_reconn_lock[i] <=> Connecting(i) # {}

\* Nobody waits in pool_reconn_pending without a coroutine that will wake it: one that
\* repairs the slot, or a woken waiter, which takes over or wakes the next. (Once
\* CMD.stop has emptied the slot a woken waiter raises, and the ones behind it stay.)
NoLostPending ==
    \A i \in Slot : inpool[i] /\ pool_reconn_pending[i] # <<>> =>
        \/ Connecting(i) # {}
        \/ \E c \in wakeup \cap Co : pc[c] = "wait" /\ slot[c] = i

\* to_connet_func disconnects the connection it replaces: no live connection is
\* dropped from a slot, whatever is done to the slot while the repair waits, unless two
\* coroutines repair it (stray).
NoOrphan == \A i \in Slot : ~orphan[i]

\* A coroutine in reconn gets out of it: every waiter is woken in its turn, unless
\* CMD.stop has emptied the pool.
ReconnEnds ==
    \A c \in Co : pc[c] \in {"wait", "connect", "closing", "charset"}
                      ~> pc[c] = "idle" \/ \A i \in Slot : ~inpool[i]
=============================================================================
