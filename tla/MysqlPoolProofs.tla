--------------------------- MODULE MysqlPoolProofs ---------------------------
(***************************************************************************)
(* One coroutine at a time repairs a slot of mysqlpool.lua and no live     *)
(* connection is dropped where the order of the slices was not upset, and  *)
(* no waiter is forgotten, for any number of slots and coroutines. The     *)
(* queue of the waiters, memcache.lua, implements a double-ended queue.    *)
(*                                                                         *)
(* The lock is not looked at again by a woken waiter, so exclusion does    *)
(* not follow from the lock: it follows from Order, which says who may be  *)
(* woken together in a slot.                                               *)
(***************************************************************************)
EXTENDS MysqlPool, Memcache, SequenceTheorems, TLAPS

\* The woken coroutines of slot i.
WokenOf(i) == {c \in wakeup \cap Co : slot[c] = i}

\* The waiters of slot i are distinct coroutines, asleep until they are taken out.
Asleep(i) ==
    \A k \in 1..Len(pool_reconn_pending[i]) :
        /\ pc[pool_reconn_pending[i][k]] = "wait"
        /\ slot[pool_reconn_pending[i][k]] = i
        /\ pool_reconn_pending[i][k] \notin wakeup
        /\ \A j \in 1..Len(pool_reconn_pending[i]) :
               pool_reconn_pending[i][j] = pool_reconn_pending[i][k] => j = k

\* The lock of slot i is held by a coroutine, and the waiters have one to wake them.
Owned(i) ==
    /\ pool_reconn_lock[i] => Connecting(i) # {}
    /\ inpool[i] /\ pool_reconn_pending[i] # <<>> =>
           Connecting(i) # {} \/ \E c \in WokenOf(i) : pc[c] = "wait"

\* A repair of slot i is alone and holds the lock; its db is the connection the slot has,
\* and once that was disconnected it does not live again. The woken coroutines of the
\* slot run before the next message. One that is woken out of pool_reconn_pending or in
\* the repair is the only one, and the waiter finds the slot unlocked.
Order(i) ==
    /\ \A c, d \in Connecting(i) : c = d
    /\ Connecting(i) # {} => pool_reconn_lock[i]
    /\ \A c \in Connecting(i) : mine[c] /\ (pc[c] = "charset" => obj[i] # "live")
    /\ ~draining => WokenOf(i) = {}
    /\ \A c \in WokenOf(i) : pc[c] \in {"wait", "connect", "charset"} =>
           \A d \in WokenOf(i) : d = c
    /\ \A c \in WokenOf(i) : pc[c] = "wait" => ~pool_reconn_lock[i]

SlotInv(i) == Asleep(i) /\ Owned(i) /\ (~stray[i] => Order(i)) /\ ~orphan[i]

Inv == TypeOK /\ \A i \in Slot : SlotInv(i)

\* A step of p that wakes nobody of slot j and leaves its lock and its waiters alone.
LEMMA SlotSame ==
    ASSUME Inv, NEW p \in Proc, NEW j \in Slot,
           \A q \in Proc : q # p => pc'[q] = pc[q] /\ slot'[q] = slot[q],
           \A q \in Proc : q # p /\ slot[q] = j => mine'[q] = mine[q],
           pool_reconn_lock'[j] = pool_reconn_lock[j],
           pool_reconn_pending'[j] = pool_reconn_pending[j],
           inpool'[j] => inpool[j],
           stray[j] => stray'[j],
           orphan'[j] = orphan[j],
           obj'[j] = "live" => obj[j] = "live",
           p \in Connecting(j) <=> p \in Connecting(j)',
           p \in Connecting(j) /\ ~stray'[j] => mine'[p] = mine[p],
           p \in Connecting(j) /\ ~stray'[j] /\ pc'[p] = "charset" =>
               pc[p] = "charset" \/ obj'[j] # "live",
           \A q \in WokenOf(j)' : q \in WokenOf(j) /\ q # p,
           \A q \in WokenOf(j) : q # p => q \in wakeup',
           p \in WokenOf(j) /\ inpool'[j] /\ pool_reconn_pending[j] # <<>> => pc[p] # "wait",
           p \in Co /\ pc[p] = "wait" /\ slot[p] = j => p \in wakeup,
           ~draining' /\ ~stray'[j] => WokenOf(j)' = {}
    PROVE  SlotInv(j)'
<1>1. Co \subseteq Proc
    BY DEF Proc
<1>2. SlotInv(j)
    BY DEF Inv
<1>3. Connecting(j)' = Connecting(j)
    BY <1>1 DEF Connecting
<1>4. Asleep(j)'
  <2>1. SUFFICES ASSUME NEW k \in 1..Len(pool_reconn_pending[j])
                 PROVE  /\ pc'[pool_reconn_pending[j][k]] = "wait"
                        /\ slot'[pool_reconn_pending[j][k]] = j
                        /\ pool_reconn_pending[j][k] \notin wakeup'
      BY <1>2 DEF SlotInv, Asleep
  <2> DEFINE w == pool_reconn_pending[j][k]
  <2>2. w \in Co
      BY ElementOfSeq DEF Inv, TypeOK
  <2>3. pc[w] = "wait" /\ slot[w] = j /\ w \notin wakeup
      BY <1>2 DEF SlotInv, Asleep
  <2> HIDE DEF w
  <2>4. w # p /\ w \in Proc
      BY <1>1, <2>2, <2>3
  <2>5. pc'[w] = "wait" /\ slot'[w] = j
      BY <2>3, <2>4
  <2>6. w \notin wakeup'
      BY <2>2, <2>3, <2>5 DEF WokenOf
  <2> QED BY <2>5, <2>6 DEF w
<1>5. \A q \in WokenOf(j) : q # p => q \in WokenOf(j)' /\ pc'[q] = pc[q]
    BY <1>1 DEF WokenOf
<1>6. Owned(j)'
  <2>1. pool_reconn_lock'[j] => Connecting(j)' # {}
      BY <1>2, <1>3 DEF SlotInv, Owned
  <2>2. ASSUME inpool'[j], pool_reconn_pending'[j] # <<>>, Connecting(j)' = {}
        PROVE  \E c \in WokenOf(j)' : pc'[c] = "wait"
    <3>1. PICK c \in WokenOf(j) : pc[c] = "wait"
        BY <1>2, <1>3, <2>2 DEF SlotInv, Owned
    <3> QED BY <1>5, <2>2, <3>1
  <2> QED BY <2>1, <2>2 DEF Owned
<1>7. ASSUME ~stray'[j] PROVE Order(j)'
  <2>1. Order(j)
      BY <1>2, <1>7 DEF SlotInv
  <2>2. \A q \in WokenOf(j)' : q \in WokenOf(j) /\ pc'[q] = pc[q]
      BY <1>1 DEF WokenOf
  <2>3. \A c \in Connecting(j)' : mine'[c] /\ (pc'[c] = "charset" => obj'[j] # "live")
    <3>1. SUFFICES ASSUME NEW c \in Connecting(j)
                   PROVE  mine'[c] /\ (pc'[c] = "charset" => obj'[j] # "live")
        BY <1>3
    <3>2. mine[c] /\ (pc[c] = "charset" => obj[j] # "live")
        BY <2>1 DEF Order
    <3>3. c \in Proc /\ slot[c] = j
        BY <1>1 DEF Connecting
    <3> QED BY <1>7, <3>2, <3>3
  <2>4. ~draining' => WokenOf(j)' = {}
      BY <1>7
  <2> QED BY <1>3, <2>1, <2>2, <2>3, <2>4 DEF Order
<1> QED BY <1>2, <1>4, <1>6, <1>7 DEF SlotInv

-----------------------------------------------------------------------------
\* What a coroutine that goes on changes.
LEMMA NowMoves ==
    ASSUME Inv, NEW p \in Proc, NEW state, NEW t, NEW own, Now(p, state, t, own)
    PROVE  /\ \A q \in Proc : q # p => /\ pc'[q] = pc[q]
                                       /\ slot'[q] = slot[q]
                                       /\ mine'[q] = mine[q]
           /\ pc'[p] = state /\ slot'[p] = t /\ mine'[p] = own
BY DEF Now, Inv, TypeOK

\* h is taken out of the waiters of slot i and woken.
Took(h, i, W) ==
    /\ pc[h] = "wait" /\ slot[h] = i /\ h \notin wakeup
    /\ \E k \in 1..Len(pool_reconn_pending[i]) : pool_reconn_pending[i][k] = h
    /\ wakeup' = W \cup {h} /\ draining'
    /\ pool_reconn_pending' \in [Slot -> Seq(Co)]
    /\ \A j \in Slot : j # i => pool_reconn_pending'[j] = pool_reconn_pending[j]
    /\ Len(pool_reconn_pending'[i]) = Len(pool_reconn_pending[i]) - 1
    /\ \A k \in 1..Len(pool_reconn_pending'[i]) :
           /\ pool_reconn_pending'[i][k] = pool_reconn_pending[i][k + 1]
           /\ k + 1 \in 1..Len(pool_reconn_pending[i])
           /\ pool_reconn_pending'[i][k] # h

\* Taking the next waiter of a slot takes one that is asleep there.
LEMMA NextWaiter ==
    ASSUME Inv, NEW i \in Slot, NEW W, WakeNext(i, W), pool_reconn_pending[i] # <<>>
    PROVE  \E h \in Co : Took(h, i, W)
<1> DEFINE s == pool_reconn_pending[i]
           h == Head(s)
<1>1. s \in Seq(Co) /\ s # <<>> /\ Asleep(i)
    BY DEF Inv, TypeOK, SlotInv
<1>2. /\ h \in Co /\ h = s[1]
      /\ Tail(s) \in Seq(Co)
      /\ Len(Tail(s)) = Len(s) - 1
      /\ \A k \in 1..Len(Tail(s)) : Tail(s)[k] = s[k + 1]
      /\ Len(s) \in Nat \ {0}
    BY <1>1, HeadTailProperties, EmptySeq
<1>3. /\ wakeup' = W \cup {h} /\ draining'
      /\ pool_reconn_pending' = [pool_reconn_pending EXCEPT ![i] = Tail(s)]
    BY DEF WakeNext, Drains
<1>4. pool_reconn_pending'[i] = Tail(s)
    BY <1>3 DEF Inv, TypeOK
<1>5. 1 \in 1..Len(s)
    BY <1>2
<1>6. pc[h] = "wait" /\ slot[h] = i /\ h \notin wakeup
    BY <1>1, <1>2, <1>5 DEF Asleep
<1>7. ASSUME NEW k \in 1..Len(Tail(s))
      PROVE  /\ Tail(s)[k] = s[k + 1]
             /\ k + 1 \in 1..Len(s)
             /\ Tail(s)[k] # h
  <2>1. Tail(s)[k] = s[k + 1] /\ k + 1 \in 1..Len(s) /\ k + 1 # 1
      BY <1>2
  <2>2. s[k + 1] # s[1]
      BY <1>1, <1>5, <2>1 DEF Asleep
  <2> QED BY <1>2, <2>1, <2>2
<1>8. pool_reconn_pending' \in [Slot -> Seq(Co)]
    BY <1>2, <1>3 DEF Inv, TypeOK
<1>9. \A j \in Slot : j # i => pool_reconn_pending'[j] = pool_reconn_pending[j]
    BY <1>3 DEF Inv, TypeOK
<1> HIDE DEF h
<1> QED BY <1>2, <1>3, <1>4, <1>5, <1>6, <1>7, <1>8, <1>9 DEF Took

\* The waiters and the woken coroutines have their types after WakeNext.
LEMMA WakeNextType ==
    ASSUME Inv, NEW i \in Slot, NEW c \in Co, WakeNext(i, wakeup \ {c}),
           \A q \in Proc : q # c => pc'[q] = pc[q]
    PROVE  /\ pool_reconn_pending' \in [Slot -> Seq(Co)]
           /\ \A j \in Slot : Len(pool_reconn_pending'[j]) <= MaxPending + 1
           /\ wakeup' \in SUBSET Proc
           /\ \A q \in wakeup' : q # c => pc'[q] # "idle"
           /\ draining' \in BOOLEAN /\ (draining' <=> wakeup' # {})
<1> USE DEF Inv, TypeOK
<1>1. Co \subseteq Proc
    BY DEF Proc
<1>2. CASE pool_reconn_pending[i] = <<>>
    BY <1>1, <1>2 DEF WakeNext, Drains
<1>3. CASE pool_reconn_pending[i] # <<>>
  <2>1. PICK h \in Co : Took(h, i, wakeup \ {c})
      BY <1>3, NextWaiter
  <2>2. \A j \in Slot : /\ Len(pool_reconn_pending[j]) \in Nat
                        /\ Len(pool_reconn_pending[j]) <= MaxPending + 1
      BY LenProperties
  <2>3. ASSUME NEW j \in Slot
        PROVE  Len(pool_reconn_pending'[j]) <= MaxPending + 1
    <3>1. CASE j = i
      <4>1. Len(pool_reconn_pending'[i]) = Len(pool_reconn_pending[i]) - 1
          BY <2>1 DEF Took
      <4> QED BY <2>2, <3>1, <4>1, PoolAssumption
    <3>2. CASE j # i
        BY <2>1, <2>2, <3>2 DEF Took
    <3> QED BY <3>1, <3>2
  <2>4. pool_reconn_pending' \in [Slot -> Seq(Co)] /\ wakeup' = (wakeup \ {c}) \cup {h}
        /\ draining' /\ pc[h] = "wait" /\ h \in Proc
      BY <1>1, <2>1 DEF Took
  <2>5. draining' = TRUE
      BY <2>1, <1>3 DEF Took, WakeNext, Drains
  <2> QED BY <2>3, <2>4, <2>5
<1> QED BY <1>2, <1>3

\* Coroutine c, of slot i, is done and wakes the next waiter of the slot, if any. Nobody
\* repairs the slot then, and nobody else of the slot is woken.
Leaves(c, i) ==
    /\ WakeNext(i, wakeup \ {c})
    /\ pc' = [pc EXCEPT ![c] = "idle"]
    /\ slot' = [slot EXCEPT ![c] = 0]
    /\ pc[c] # "idle" => slot[c] = i
    /\ pc[c] = "wait" => c \in wakeup
    /\ \A q \in Proc : q # c /\ slot[q] # i => mine'[q] = mine[q]
    /\ \A j \in Slot \ {i} : /\ pool_reconn_lock'[j] = pool_reconn_lock[j]
                             /\ inpool'[j] => inpool[j]
                             /\ obj'[j] = "live" => obj[j] = "live"
                             /\ orphan'[j] = orphan[j]
    /\ \A j \in Slot : stray[j] => stray'[j]
    /\ pool_reconn_lock'[i] => pool_reconn_lock[i] /\ c \notin Connecting(i)
    /\ ~orphan'[i]
    /\ ~stray'[i] => Connecting(i) \subseteq {c} /\ ~pool_reconn_lock'[i]
    /\ ~stray'[i] => WokenOf(i) \subseteq {c}

LEMMA LeavesKeeps ==
    ASSUME Inv, TypeOK', NEW i \in Slot, NEW c \in Co, Leaves(c, i)
    PROVE  Inv'
<1> USE DEF Leaves
<1>1. c \in Proc /\ Co \subseteq Proc
    BY DEF Proc
<1>2. /\ \A q \in Proc : q # c => pc'[q] = pc[q] /\ slot'[q] = slot[q]
      /\ pc'[c] = "idle" /\ slot'[c] = 0
    BY <1>1 DEF Inv, TypeOK
<1>3. draining' <=> wakeup' # {}
    BY <1>2, WakeNextType
<1>4. Connecting(i)' = Connecting(i) \ {c}
    BY <1>1, <1>2 DEF Connecting
<1>5. c \notin wakeup'
    BY <1>2 DEF TypeOK
<1>6. CASE pool_reconn_pending[i] = <<>>
  <2>1. wakeup' = wakeup \ {c} /\ pool_reconn_pending' = pool_reconn_pending
      BY <1>6 DEF WakeNext, Drains
  <2>2. ASSUME NEW j \in Slot, j # i PROVE SlotInv(j)'
    <3>1. /\ c \in Connecting(j) <=> c \in Connecting(j)'
          /\ c \notin Connecting(j)
        BY <1>2, <2>2 DEF Connecting
    <3>2. /\ \A q \in WokenOf(j)' : q \in WokenOf(j) /\ q # c
          /\ \A q \in WokenOf(j) : q # c => q \in wakeup'
          /\ c \notin WokenOf(j)
          /\ (~draining' => WokenOf(j)' = {})
      <4>1. ~draining' => wakeup' = {}
          BY <1>3
      <4>2. c \notin WokenOf(j)
          BY <2>2 DEF WokenOf, Inv, TypeOK
      <4> QED BY <1>1, <1>2, <2>1, <4>1, <4>2 DEF WokenOf
    <3>3. pc[c] = "wait" /\ slot[c] = j => c \in wakeup
        OBVIOUS
    <3>4. \A q \in Proc : q # c /\ slot[q] = j => mine'[q] = mine[q]
        BY <2>2
    <3>5. /\ pool_reconn_lock'[j] = pool_reconn_lock[j] /\ (inpool'[j] => inpool[j])
          /\ (obj'[j] = "live" => obj[j] = "live") /\ orphan'[j] = orphan[j]
          /\ (stray[j] => stray'[j])
        BY <2>2
    <3> HIDE DEF Leaves
    <3> QED BY <1>1, <1>2, <2>1, <2>2, <3>1, <3>2, <3>3, <3>4, <3>5, SlotSame
  <2>3. SlotInv(i)'
    <3>1. Asleep(i)'
        BY <1>6, <2>1, EmptySeq DEF Asleep
    <3>2. Owned(i)'
        BY <1>4, <1>6, <2>1 DEF Owned, Inv, SlotInv
    <3>3. ASSUME ~stray'[i] PROVE Order(i)'
      <4>1. Connecting(i)' = {} /\ ~pool_reconn_lock'[i]
          BY <1>4, <3>3
      <4>2. WokenOf(i)' = {}
          BY <1>1, <1>2, <2>1, <3>3 DEF WokenOf
      <4> QED BY <4>1, <4>2 DEF Order
    <3> QED BY <3>1, <3>2, <3>3 DEF SlotInv
  <2> QED BY <2>2, <2>3 DEF Inv
<1>7. CASE pool_reconn_pending[i] # <<>>
  <2>1. PICK h \in Co : Took(h, i, wakeup \ {c})
      BY <1>7, NextWaiter
  <2>2. /\ wakeup' = (wakeup \ {c}) \cup {h} /\ draining'
        /\ pc[h] = "wait" /\ slot[h] = i /\ h \notin wakeup /\ h # c
      BY <1>5, <2>1 DEF Took
  <2>3. pc'[h] = "wait" /\ slot'[h] = i
      BY <1>1, <1>2, <2>2
  <2>4. ASSUME NEW j \in Slot, j # i PROVE SlotInv(j)'
    <3>1. /\ c \in Connecting(j) <=> c \in Connecting(j)'
          /\ c \notin Connecting(j)
        BY <1>2, <2>4 DEF Connecting
    <3>2. /\ \A q \in WokenOf(j)' : q \in WokenOf(j) /\ q # c
          /\ \A q \in WokenOf(j) : q # c => q \in wakeup'
          /\ c \notin WokenOf(j)
      <4>1. c \notin WokenOf(j)
          BY <2>4 DEF WokenOf, Inv, TypeOK
      <4> QED BY <1>1, <1>2, <1>5, <2>2, <2>3, <2>4, <4>1 DEF WokenOf
    <3>3. pc[c] = "wait" /\ slot[c] = j => c \in wakeup
        OBVIOUS
    <3>4. \A q \in Proc : q # c /\ slot[q] = j => mine'[q] = mine[q]
        BY <2>4
    <3>5. pool_reconn_pending'[j] = pool_reconn_pending[j]
        BY <2>1, <2>4 DEF Took
    <3>6. /\ pool_reconn_lock'[j] = pool_reconn_lock[j] /\ (inpool'[j] => inpool[j])
          /\ (obj'[j] = "live" => obj[j] = "live") /\ orphan'[j] = orphan[j]
          /\ (stray[j] => stray'[j])
        BY <2>4
    <3> HIDE DEF Leaves
    <3> QED BY <1>1, <1>2, <2>2, <2>4, <3>1, <3>2, <3>3, <3>4, <3>5, <3>6, SlotSame
  <2>5. Asleep(i)'
    <3>1. SUFFICES ASSUME NEW k \in 1..Len(pool_reconn_pending'[i])
                   PROVE  /\ pc'[pool_reconn_pending'[i][k]] = "wait"
                          /\ slot'[pool_reconn_pending'[i][k]] = i
                          /\ pool_reconn_pending'[i][k] \notin wakeup'
                          /\ \A m \in 1..Len(pool_reconn_pending'[i]) :
                                 pool_reconn_pending'[i][m] = pool_reconn_pending'[i][k]
                                     => m = k
        BY DEF Asleep
    <3> DEFINE w == pool_reconn_pending'[i][k]
    <3>2. w = pool_reconn_pending[i][k + 1] /\ k + 1 \in 1..Len(pool_reconn_pending[i])
          /\ w # h
        BY <2>1 DEF Took
    <3>3. Asleep(i)
        BY DEF Inv, SlotInv
    <3>4. pc[w] = "wait" /\ slot[w] = i /\ w \notin wakeup /\ w \in Co
      <4>1. w \in Co
          BY <3>2, ElementOfSeq DEF Inv, TypeOK
      <4> QED BY <3>2, <3>3, <4>1 DEF Asleep
    <3>5. w # c
        BY <3>4
    <3>6. pc'[w] = "wait" /\ slot'[w] = i /\ w \notin wakeup'
        BY <1>1, <1>2, <2>2, <3>2, <3>4, <3>5
    <3>7. ASSUME NEW m \in 1..Len(pool_reconn_pending'[i]), pool_reconn_pending'[i][m] = w
          PROVE  m = k
      <4>1. /\ pool_reconn_pending[i][m + 1] = pool_reconn_pending[i][k + 1]
            /\ m + 1 \in 1..Len(pool_reconn_pending[i])
          BY <2>1, <3>2, <3>7 DEF Took
      <4>2. m + 1 = k + 1
          BY <3>2, <3>3, <4>1 DEF Asleep
      <4>3. m \in Int /\ k \in Int
          OBVIOUS
      <4> QED BY <4>2, <4>3
    <3> QED BY <3>6, <3>7
  <2>6. h \in WokenOf(i)'
      BY <2>2, <2>3 DEF WokenOf
  <2>7. Owned(i)'
    <3>1. pool_reconn_lock'[i] => Connecting(i)' # {}
        BY <1>4 DEF Inv, SlotInv, Owned
    <3> QED BY <2>3, <2>6, <3>1 DEF Owned
  <2>8. ASSUME ~stray'[i] PROVE Order(i)'
    <3>1. Connecting(i)' = {} /\ ~pool_reconn_lock'[i]
        BY <1>4, <2>8
    <3>2. \A d \in WokenOf(i)' : d = h
        BY <1>1, <1>2, <2>2, <2>8 DEF WokenOf
    <3> QED BY <2>2, <3>1, <3>2 DEF Order
  <2> QED BY <2>4, <2>5, <2>7, <2>8 DEF Inv, SlotInv
<1> QED BY <1>6, <1>7

-----------------------------------------------------------------------------
\* A step of coroutine c, of slot i if of any, that wakes nobody, leaves every lock and
\* every waiter alone, and is not part of a repair before or after.
LEMMA StatementStep ==
    ASSUME Inv, TypeOK', NEW c \in Co, NEW i \in Slot, NEW state \in {"idle", "query"},
           NEW t, NEW own, Now(c, state, t, own), state = "query" => t = i,
           pc[c] \in {"idle", "query", "wait"}, pc[c] # "idle" => slot[c] = i,
           pc[c] = "wait" => c \in wakeup /\ (inpool[i] => pool_reconn_pending[i] = <<>>),
           Drains(wakeup \ {c}), UNCHANGED <<obj, inpool, reconnVars, stray, orphan>>
    PROVE  Inv'
<1>1. c \in Proc /\ Co \subseteq Proc
    BY DEF Proc
<1>2. /\ \A q \in Proc : q # c => pc'[q] = pc[q] /\ slot'[q] = slot[q] /\ mine'[q] = mine[q]
      /\ pc'[c] = state /\ slot'[c] = t
    BY <1>1, NowMoves
<1>3. ASSUME NEW j \in Slot PROVE SlotInv(j)'
  <2>1. c \notin Connecting(j) /\ c \notin Connecting(j)'
      BY <1>2 DEF Connecting
  <2>2. /\ \A q \in WokenOf(j)' : q \in WokenOf(j) /\ q # c
        /\ \A q \in WokenOf(j) : q # c => q \in wakeup'
        /\ ~draining' => WokenOf(j)' = {}
      BY <1>1, <1>2 DEF WokenOf, Drains
  <2>3. c \in WokenOf(j) /\ inpool'[j] /\ pool_reconn_pending[j] # <<>> => pc[c] # "wait"
      BY DEF WokenOf
  <2>4. /\ pool_reconn_lock'[j] = pool_reconn_lock[j]
        /\ pool_reconn_pending'[j] = pool_reconn_pending[j]
      BY DEF reconnVars
  <2> QED BY <1>1, <1>2, <2>1, <2>2, <2>3, <2>4, SlotSame
<1> QED BY <1>3 DEF Inv

\* A coroutine that goes on in reconn at line 49, while nobody repairs the slot and, if it
\* wakes another waiter, no other coroutine of the slot is woken.
LEMMA TakeoverKeeps ==
    ASSUME Inv, NEW c \in Co, NEW i \in Slot, NEW act \in [Slot -> BOOLEAN],
           pc[c] \in {"idle", "query", "wait"},
           pc[c] # "idle" => slot[c] = i,
           pc[c] = "wait" => c \in wakeup,
           ~stray[i] =>
               /\ Connecting(i) = {} /\ ~pool_reconn_lock[i]
               /\ \A d \in WokenOf(i) : d # c => pc[d] # "wait"
               /\ inpool[i] /\ pool_reconn_pending[i] # <<>> => WokenOf(i) \subseteq {c},
           Takeover(c, i, act, wakeup \ {c}),
           UNCHANGED <<obj, inpool, stray, orphan>>
    PROVE  Inv'
<1> USE PoolAssumption
<1>1. /\ c \in Proc /\ c # StopCo /\ StopCo \in Proc /\ Co \subseteq Proc
      /\ kk_is_active' = act
    BY DEF Proc, Takeover
<1>2. CASE ~inpool[i] /\ Ends(c) /\ Drains(wakeup \ {c}) /\ UNCHANGED reconnVars
  <2>1. TypeOK'
      BY <1>1, <1>2 DEF Inv, TypeOK, Ends, Now, reconnVars, Drains
  <2> QED BY <1>2, <2>1, StatementStep DEF Ends
<1>3. CASE inpool[i] /\ act[i] /\ Ends(c) /\ PassOn(i, wakeup \ {c}) /\ UNCHANGED pool_reconn_lock
  <2>1. WakeNext(i, wakeup \ {c})
      BY <1>3 DEF PassOn
  <2>2. \A q \in Proc : q # c => /\ pc'[q] = pc[q] /\ slot'[q] = slot[q] /\ mine'[q] = mine[q]
      BY <1>1, <1>3 DEF Inv, TypeOK, Ends, Now
  <2>3. c \notin wakeup'
    <3>1. CASE pool_reconn_pending[i] = <<>>
        BY <2>1, <3>1 DEF WakeNext, Drains
    <3>2. CASE pool_reconn_pending[i] # <<>>
      <4>1. PICK h \in Co : Took(h, i, wakeup \ {c})
          BY <2>1, <3>2, NextWaiter
      <4> QED BY <4>1 DEF Took
    <3> QED BY <3>1, <3>2
  <2>4. TypeOK'
    <3>1. /\ pool_reconn_pending' \in [Slot -> Seq(Co)]
          /\ \A j \in Slot : Len(pool_reconn_pending'[j]) <= MaxPending + 1
          /\ wakeup' \in SUBSET Proc
          /\ \A q \in wakeup' : q # c => pc'[q] # "idle"
          /\ draining' \in BOOLEAN /\ (draining' <=> wakeup' # {})
        BY <2>1, <2>2, WakeNextType
    <3> QED BY <1>1, <1>3, <2>3, <3>1 DEF Inv, TypeOK, Ends, Now
  <2>5. c \notin Connecting(i)
      BY DEF Connecting
  <2>6. ~stray'[i] => /\ Connecting(i) \subseteq {c} /\ ~pool_reconn_lock'[i]
                      /\ pool_reconn_pending[i] # <<>> => WokenOf(i) \subseteq {c}
      BY <1>3
  <2>7. CASE pool_reconn_pending[i] # <<>>
    <3>1. ~stray'[i] => WokenOf(i) \subseteq {c}
        BY <2>6, <2>7
    <3>2. pc' = [pc EXCEPT ![c] = "idle"] /\ slot' = [slot EXCEPT ![c] = 0]
        BY <1>3 DEF Ends, Now
    <3>3. ~orphan'[i]
        BY DEF Inv, SlotInv
    <3>4. \A j \in Slot \ {i} : /\ pool_reconn_lock'[j] = pool_reconn_lock[j]
                                /\ inpool'[j] => inpool[j]
                                /\ obj'[j] = "live" => obj[j] = "live"
                                /\ orphan'[j] = orphan[j]
        BY <1>3
    <3>5. pool_reconn_lock'[i] => pool_reconn_lock[i] /\ c \notin Connecting(i)
        BY <1>3, <2>5
    <3>6. Leaves(c, i)
        BY <2>1, <2>2, <2>6, <3>1, <3>2, <3>3, <3>4, <3>5 DEF Leaves
    <3> QED BY <2>4, <3>6, LeavesKeeps
  <2>8. CASE pool_reconn_pending[i] = <<>>
    <3>1. Drains(wakeup \ {c}) /\ UNCHANGED reconnVars
        BY <1>3, <2>1, <2>8 DEF WakeNext, reconnVars
    <3> QED BY <1>3, <2>4, <2>8, <3>1, StatementStep DEF Ends
  <2> QED BY <2>7, <2>8
<1>4. CASE /\ inpool[i] /\ ~act[i]
           /\ pool_reconn_lock' = [pool_reconn_lock EXCEPT ![i] = TRUE]
           /\ Now(c, "connect", i, TRUE)
           /\ Drains(wakeup \ {c})
           /\ UNCHANGED pool_reconn_pending
  <2>1. TypeOK'
      BY <1>1, <1>4 DEF Inv, TypeOK, Now, Drains
  <2>2. /\ \A q \in Proc : q # c => pc'[q] = pc[q] /\ slot'[q] = slot[q] /\ mine'[q] = mine[q]
        /\ pc'[c] = "connect" /\ slot'[c] = i /\ mine'[c] = TRUE
      BY <1>1, <1>4 DEF Now, Inv, TypeOK
  <2>3. ASSUME NEW j \in Slot, j # i PROVE SlotInv(j)'
    <3>1. c \notin Connecting(j) /\ c \notin Connecting(j)'
        BY <2>2, <2>3 DEF Connecting
    <3>2. /\ \A q \in WokenOf(j)' : q \in WokenOf(j) /\ q # c
          /\ \A q \in WokenOf(j) : q # c => q \in wakeup'
          /\ c \notin WokenOf(j)
          /\ ~draining' => WokenOf(j)' = {}
        BY <1>1, <1>4, <2>2, <2>3 DEF WokenOf, Drains, Inv, TypeOK
    <3>3. /\ pool_reconn_lock'[j] = pool_reconn_lock[j]
          /\ pool_reconn_pending'[j] = pool_reconn_pending[j]
        BY <1>4, <2>3 DEF Inv, TypeOK
    <3>4. pc[c] = "wait" /\ slot[c] = j => c \in wakeup
        OBVIOUS
    <3> QED BY <1>1, <2>2, <3>1, <3>2, <3>3, <3>4, SlotSame
  <2>4. Connecting(i)' = Connecting(i) \cup {c} /\ pool_reconn_lock'[i]
      BY <1>1, <1>4, <2>2 DEF Connecting, Inv, TypeOK
  <2>5. Asleep(i)'
    <3>1. SUFFICES ASSUME NEW k \in 1..Len(pool_reconn_pending[i])
                   PROVE  /\ pc'[pool_reconn_pending[i][k]] = "wait"
                          /\ slot'[pool_reconn_pending[i][k]] = i
                          /\ pool_reconn_pending[i][k] \notin wakeup'
        BY <1>4 DEF Inv, SlotInv, Asleep
    <3> DEFINE w == pool_reconn_pending[i][k]
    <3>2. w \in Co
        BY ElementOfSeq DEF Inv, TypeOK
    <3>3. pc[w] = "wait" /\ slot[w] = i /\ w \notin wakeup
        BY DEF Inv, SlotInv, Asleep
    <3> HIDE DEF w
    <3>4. w # c
        BY <3>3
    <3> QED BY <1>1, <1>4, <2>2, <3>2, <3>3, <3>4 DEF w, Drains
  <2>6. ASSUME ~stray'[i] PROVE Order(i)'
    <3>1. Connecting(i)' = {c}
        BY <2>4, <2>6
    <3>2. \A d \in WokenOf(i)' : d \in WokenOf(i) /\ d # c /\ pc'[d] = pc[d]
        BY <1>1, <1>4, <2>2 DEF WokenOf, Drains
    <3>3. Order(i)
        BY <2>6 DEF Inv, SlotInv
    <3>4. \A d \in WokenOf(i)' : pc'[d] # "wait"
        BY <2>6, <3>2
    <3>5. ~draining' => WokenOf(i)' = {}
        BY <1>4 DEF Drains, WokenOf
    <3> QED BY <2>2, <2>4, <3>1, <3>2, <3>3, <3>4, <3>5 DEF Order
  <2>7. Owned(i)' /\ ~orphan'[i]
      BY <2>4 DEF Owned, Inv, SlotInv
  <2> QED BY <2>1, <2>3, <2>5, <2>6, <2>7 DEF Inv, SlotInv
<1> QED BY <1>2, <1>3, <1>4 DEF Takeover

\* reconn keeps the invariant: a coroutine whose query failed at once, in a message, or
\* one that is woken because its query failed.
LEMMA ReconnKeeps ==
    ASSUME Inv, NEW c \in Co, NEW i \in Slot, NEW own \in BOOLEAN,
           \/ pc[c] = "idle" /\ ~draining
           \/ pc[c] = "query" /\ slot[c] = i /\ c \in wakeup,
           Reconn(c, i, own, wakeup \ {c}),
           UNCHANGED <<obj, inpool, stray, orphan>>
    PROVE  Inv'
<1> DEFINE act == IF own THEN [kk_is_active EXCEPT ![i] = FALSE] ELSE kk_is_active
<1>1. c \in Proc /\ c # StopCo /\ StopCo \in Proc /\ Co \subseteq Proc
    BY PoolAssumption DEF Proc
<1>2. act \in [Slot -> BOOLEAN]
    BY DEF Inv, TypeOK
<1>3. pc[c] \in {"idle", "query"} /\ (pc[c] # "idle" => slot[c] = i)
    OBVIOUS
<1>4. CASE Locked(i) /\ Full(i) /\ kk_is_active' = act /\ Ends(c) /\ Drains(wakeup \ {c})
           /\ UNCHANGED reconnVars
  <2>1. TypeOK'
      BY <1>1, <1>2, <1>4 DEF Inv, TypeOK, Ends, Now, reconnVars, Drains
  <2> HIDE DEF act
  <2> QED BY <1>3, <1>4, <2>1, StatementStep DEF Ends
<1>5. CASE /\ Locked(i) /\ ~Full(i)
           /\ kk_is_active' = act
           /\ pool_reconn_pending' =
                  [pool_reconn_pending EXCEPT ![i] = Append(pool_reconn_pending[i], c)]
           /\ Now(c, "wait", i, FALSE)
           /\ Drains(wakeup \ {c})
           /\ UNCHANGED pool_reconn_lock
  <2> DEFINE s == pool_reconn_pending[i]
  <2>1. /\ Append(s, c) \in Seq(Co)
        /\ Len(Append(s, c)) = Len(s) + 1
        /\ \A k \in 1..Len(s) : Append(s, c)[k] = s[k]
        /\ Append(s, c)[Len(s) + 1] = c
        /\ Len(s) \in Nat
      BY AppendProperties, LenProperties DEF Inv, TypeOK
  <2>2. Len(s) <= MaxPending
      BY <1>5, <2>1, PoolAssumption DEF Full
  <2>3. /\ pool_reconn_pending'[i] = Append(s, c)
        /\ \A j \in Slot : j # i => pool_reconn_pending'[j] = pool_reconn_pending[j]
        /\ pool_reconn_pending' \in [Slot -> Seq(Co)]
      BY <1>5, <2>1 DEF Inv, TypeOK
  <2>4. TypeOK'
    <3>1. ASSUME NEW j \in Slot
          PROVE  Len(pool_reconn_pending'[j]) <= MaxPending + 1
      <4>1. CASE j = i
        <5>1. Len(pool_reconn_pending'[i]) = Len(s) + 1
            BY <2>1, <2>3
        <5> HIDE DEF s
        <5> QED BY <2>1, <2>2, <4>1, <5>1, PoolAssumption
      <4>2. CASE j # i
          BY <2>3, <4>2 DEF Inv, TypeOK
      <4> QED BY <4>1, <4>2
    <3>2. kk_is_active' \in [Slot -> BOOLEAN]
        BY <1>2, <1>5
    <3> HIDE DEF act, s
    <3>3. /\ wakeup' \in SUBSET Proc /\ \A q \in wakeup' : pc'[q] # "idle"
          /\ draining' \in BOOLEAN /\ (draining' => wakeup' # {})
        BY <1>1, <1>5 DEF Inv, TypeOK, Now, Drains
    <3> QED BY <1>1, <1>5, <2>3, <3>1, <3>2, <3>3 DEF Inv, TypeOK, Now
  <2>5. /\ \A q \in Proc : q # c => pc'[q] = pc[q] /\ slot'[q] = slot[q] /\ mine'[q] = mine[q]
        /\ pc'[c] = "wait" /\ slot'[c] = i
      BY <1>1, <1>5 DEF Now, Inv, TypeOK
  <2>6. \A j \in Slot : c \notin Connecting(j) /\ c \notin Connecting(j)'
      BY <1>3, <2>5 DEF Connecting
  <2>7. ASSUME NEW j \in Slot
        PROVE  /\ \A q \in WokenOf(j)' : q \in WokenOf(j) /\ q # c
               /\ \A q \in WokenOf(j) : q # c => q \in wakeup'
               /\ ~draining' => WokenOf(j)' = {}
      BY <1>1, <1>5, <2>5 DEF WokenOf, Drains
  <2>8. ASSUME NEW j \in Slot, j # i PROVE SlotInv(j)'
    <3>1. pool_reconn_pending'[j] = pool_reconn_pending[j] /\ pool_reconn_lock'[j] = pool_reconn_lock[j]
        BY <1>5, <2>3, <2>8
    <3>2. pc[c] # "wait"
        BY <1>3
    <3> QED BY <1>1, <2>4, <2>5, <2>6, <2>7, <2>8, <3>1, <3>2, SlotSame
  <2>9. Connecting(i)' = Connecting(i) /\ Connecting(i) # {}
    <3>1. Connecting(i)' = Connecting(i)
        BY <1>1, <2>5, <2>6 DEF Connecting
    <3> QED BY <1>5, <3>1 DEF Locked, Inv, SlotInv, Owned
  <2>10. Asleep(i)'
    <3>1. SUFFICES ASSUME NEW k \in 1..Len(pool_reconn_pending'[i])
                   PROVE  /\ pc'[pool_reconn_pending'[i][k]] = "wait"
                          /\ slot'[pool_reconn_pending'[i][k]] = i
                          /\ pool_reconn_pending'[i][k] \notin wakeup'
                          /\ \A m \in 1..Len(pool_reconn_pending'[i]) :
                                 pool_reconn_pending'[i][m] = pool_reconn_pending'[i][k]
                                     => m = k
        BY DEF Asleep
    <3>2. ASSUME NEW m \in 1..Len(s)
          PROVE  s[m] \in Co /\ s[m] # c /\ pc'[s[m]] = "wait" /\ slot'[s[m]] = i
                 /\ s[m] \notin wakeup'
      <4>1. s[m] \in Co
          BY ElementOfSeq DEF Inv, TypeOK
      <4>2. pc[s[m]] = "wait" /\ slot[s[m]] = i /\ s[m] \notin wakeup
          BY DEF Inv, SlotInv, Asleep
      <4>3. s[m] # c
          BY <1>3, <4>2
      <4> QED BY <1>1, <1>5, <2>5, <4>1, <4>2, <4>3 DEF Drains
    <3>3. CASE k = Len(s) + 1
      <4>1. pool_reconn_pending'[i][k] = c
          BY <2>1, <2>3, <3>3
      <4>2. c \notin wakeup'
          BY <1>5 DEF Drains
      <4>3. ASSUME NEW m \in 1..Len(pool_reconn_pending'[i]), pool_reconn_pending'[i][m] = c
            PROVE  m = k
        <5>1. m \in 1..(Len(s) + 1)
            BY <2>1, <2>3
        <5>2. m \notin 1..Len(s)
            BY <2>1, <2>3, <3>2, <4>3
        <5> HIDE DEF s
        <5> QED BY <2>1, <3>3, <5>1, <5>2
      <4> QED BY <2>5, <4>1, <4>2, <4>3
    <3>4. CASE k \in 1..Len(s)
      <4>1. pool_reconn_pending'[i][k] = s[k]
          BY <2>1, <2>3, <3>4
      <4>2. ASSUME NEW m \in 1..Len(pool_reconn_pending'[i]), pool_reconn_pending'[i][m] = s[k]
            PROVE  m = k
        <5>1. m \in 1..(Len(s) + 1)
            BY <2>1, <2>3
        <5>2. m # Len(s) + 1
            BY <2>1, <2>3, <3>2, <3>4, <4>2
        <5>3. m \in 1..Len(s)
          <6> HIDE DEF s
          <6> QED BY <2>1, <5>1, <5>2
        <5>4. s[m] = s[k]
            BY <2>1, <2>3, <4>2, <5>3
        <5> QED BY <3>4, <5>3, <5>4 DEF Inv, SlotInv, Asleep
      <4> QED BY <3>2, <3>4, <4>1, <4>2
    <3>5. k \in 1..(Len(s) + 1)
        BY <2>1, <2>3, <3>1
    <3>6. k = Len(s) + 1 \/ k \in 1..Len(s)
      <4> HIDE DEF s
      <4> QED BY <2>1, <3>5
    <3> QED BY <3>3, <3>4, <3>6
  <2>11. ASSUME ~stray'[i] PROVE Order(i)'
    <3>1. Order(i)
        BY <2>11 DEF Inv, SlotInv
    <3>2. \A d \in Connecting(i) : d \in Proc /\ d # c
        BY <1>1, <2>6 DEF Connecting
    <3>3. \A d \in WokenOf(i)' : d \in WokenOf(i) /\ d # c /\ pc'[d] = pc[d]
        BY <1>1, <2>5, <2>7 DEF WokenOf
    <3>4. ~draining' => WokenOf(i)' = {}
        BY <2>7
    <3>5. \A d \in Connecting(i) : pc'[d] = pc[d] /\ mine'[d] = mine[d]
        BY <2>5, <3>2
    <3> QED BY <1>5, <2>9, <3>1, <3>3, <3>4, <3>5 DEF Order
  <2>12. Owned(i)' /\ ~orphan'[i]
      BY <2>9 DEF Owned, Inv, SlotInv
  <2> QED BY <2>4, <2>8, <2>10, <2>11, <2>12 DEF Inv, SlotInv
<1>6. CASE ~Locked(i) /\ Takeover(c, i, act, wakeup \ {c})
  <2>1. ASSUME ~stray[i]
        PROVE  /\ Connecting(i) = {} /\ ~pool_reconn_lock[i]
               /\ \A d \in WokenOf(i) : d # c => pc[d] # "wait"
               /\ inpool[i] /\ pool_reconn_pending[i] # <<>> => WokenOf(i) \subseteq {c}
    <3>1. Order(i) /\ Owned(i) /\ ~pool_reconn_lock[i]
        BY <1>6, <2>1 DEF Locked, Inv, SlotInv
    <3>2. Connecting(i) = {}
        BY <3>1 DEF Order
    <3>3. \A d \in WokenOf(i) : pc[d] # "wait"
      <4>1. CASE pc[c] = "idle" /\ ~draining
          BY <3>1, <4>1 DEF Order
      <4>2. CASE pc[c] = "query" /\ slot[c] = i /\ c \in wakeup
        <5>1. c \in WokenOf(i)
            BY <4>2 DEF WokenOf
        <5> QED BY <3>1, <4>2, <5>1 DEF Order
      <4> QED BY <4>1, <4>2
    <3>4. ~(inpool[i] /\ pool_reconn_pending[i] # <<>>)
        BY <3>1, <3>2, <3>3 DEF Owned
    <3> QED BY <3>1, <3>2, <3>3, <3>4
  <2>2. pc[c] \in {"idle", "query", "wait"} /\ pc[c] # "wait"
      BY <1>3
  <2> HIDE DEF act
  <2> QED BY <1>2, <1>3, <1>6, <2>1, <2>2, TakeoverKeeps
<1> QED BY <1>4, <1>5, <1>6 DEF Reconn

\* A waiter that is woken goes on.
LEMMA WaitEndsKeeps ==
    ASSUME Inv, NEW c \in Co, WaitEnds(c)
    PROVE  Inv'
<1> DEFINE i == slot[c]
<1>1. /\ c \in wakeup /\ pc[c] = "wait" /\ i \in Slot
      /\ kk_is_active \in [Slot -> BOOLEAN]
    BY DEF WaitEnds, Resumed, Inv, TypeOK, Proc
<1>2. /\ Takeover(c, i, kk_is_active, wakeup \ {c})
      /\ UNCHANGED <<obj, inpool, stray, orphan>>
    BY DEF WaitEnds, Others
<1>3. c \in WokenOf(i)
    BY <1>1 DEF WokenOf
<1>4. ASSUME ~stray[i]
      PROVE  /\ Connecting(i) = {} /\ ~pool_reconn_lock[i]
             /\ WokenOf(i) \subseteq {c}
  <2>1. Order(i)
      BY <1>1, <1>4 DEF Inv, SlotInv
  <2>2. ~pool_reconn_lock[i] /\ \A d \in WokenOf(i) : d = c
      BY <1>1, <1>3, <2>1 DEF Order
  <2> QED BY <2>1, <2>2 DEF Order
<1> HIDE DEF i
<1>5. pc[c] # "idle" => slot[c] = i
    BY DEF i
<1> QED BY <1>1, <1>2, <1>4, <1>5, TakeoverKeeps

-----------------------------------------------------------------------------

\* A step of a repair that is not its end: c goes on with the old connection of its slot.
LEMMA RepairStep ==
    ASSUME Inv, NEW c \in Co, pc[c] \in {"connect", "closing"},
           NEW state \in {"closing", "charset"}, Now(c, state, slot[c], mine[c]),
           NEW o \in {"closing", "dead"},
           obj' = IF mine[c] THEN [obj EXCEPT ![slot[c]] = o] ELSE obj,
           Drains(wakeup \ {c}), UNCHANGED <<inpool, kk_is_active, reconnVars, stray, orphan>>
    PROVE  Inv'
<1>1. c \in Proc /\ c # StopCo /\ Co \subseteq Proc /\ slot[c] \in Slot
    BY PoolAssumption DEF Proc, Inv, TypeOK
<1>2. /\ \A q \in Proc : q # c => pc'[q] = pc[q] /\ slot'[q] = slot[q] /\ mine'[q] = mine[q]
      /\ pc'[c] = state /\ slot'[c] = slot[c] /\ mine'[c] = mine[c]
    BY <1>1 DEF Now, Inv, TypeOK
<1>3. /\ obj' \in [Slot -> {"live", "closing", "dead"}]
      /\ \A j \in Slot : obj'[j] = "live" => obj[j] = "live"
      /\ mine[c] => obj'[slot[c]] # "live"
    BY <1>1 DEF Inv, TypeOK
<1>4. TypeOK'
  <2>1. /\ wakeup' \in SUBSET Proc /\ \A q \in wakeup' : pc'[q] # "idle"
        /\ draining' \in BOOLEAN /\ (draining' => wakeup' # {})
      BY <1>1, <1>2 DEF Inv, TypeOK, Drains
  <2>2. /\ pc' \in [Proc -> {"idle", "query", "wait", "connect", "closing", "charset"}]
        /\ slot' \in [Proc -> Slot \cup {0}] /\ mine' \in [Proc -> BOOLEAN]
        /\ pc'[StopCo] = pc[StopCo] /\ \A q \in Proc : pc'[q] # "idle" => slot'[q] \in Slot
      BY <1>1, <1>2 DEF Inv, TypeOK, Now, Proc
  <2> QED BY <1>3, <2>1, <2>2 DEF Inv, TypeOK, reconnVars
<1>5. ASSUME NEW j \in Slot
      PROVE  /\ \A q \in WokenOf(j)' : q \in WokenOf(j) /\ q # c
             /\ \A q \in WokenOf(j) : q # c => q \in wakeup'
             /\ ~draining' => WokenOf(j)' = {}
             /\ c \in Connecting(j) <=> c \in Connecting(j)'
             /\ pool_reconn_lock'[j] = pool_reconn_lock[j]
             /\ pool_reconn_pending'[j] = pool_reconn_pending[j]
    BY <1>1, <1>2 DEF WokenOf, Drains, Connecting, reconnVars
<1>6. ASSUME NEW j \in Slot PROVE SlotInv(j)'
  <2>1. ASSUME c \in Connecting(j), ~stray'[j], pc'[c] = "charset"
        PROVE  obj'[j] # "live"
    <3>1. Order(j)
        BY <2>1 DEF Inv, SlotInv
    <3> QED BY <1>3, <2>1, <3>1 DEF Order, Connecting
  <2> QED BY <1>1, <1>2, <1>3, <1>4, <1>5, <2>1, SlotSame
<1> QED BY <1>4, <1>6 DEF Inv

\* The end of a repair: c, which repaired slot i and is the only woken coroutine of the
\* slot, unlocks it.
Finishes(c, i) ==
    /\ i = slot[c] /\ c \in wakeup
    /\ pc[c] \in {"connect", "closing", "charset"}
    /\ Unlock(i, wakeup \ {c})
    /\ pc' = [pc EXCEPT ![c] = "idle"]
    /\ slot' = [slot EXCEPT ![c] = 0]
    /\ mine' \in [Proc -> BOOLEAN]
    /\ \A q \in Proc : q # c /\ slot[q] # i => mine'[q] = mine[q]
    /\ obj' \in [Slot -> {"live", "closing", "dead"}]
    /\ kk_is_active' \in [Slot -> BOOLEAN]
    /\ inpool' \in [Slot -> BOOLEAN]
    /\ orphan' \in [Slot -> BOOLEAN]
    /\ stray' \in [Slot -> BOOLEAN]
    /\ \A j \in Slot \ {i} : obj'[j] = obj[j] /\ inpool'[j] = inpool[j] /\ orphan'[j] = orphan[j]
    /\ \A j \in Slot : stray[j] => stray'[j]
    /\ ~orphan'[i]
    /\ ~stray'[i] => WokenOf(i) \subseteq {c}

LEMMA FinishesKeeps ==
    ASSUME Inv, NEW c \in Co, NEW i \in Slot, Finishes(c, i)
    PROVE  Inv'
<1> USE DEF Finishes
<1>1. c \in Proc /\ c # StopCo /\ StopCo \in Proc /\ Co \subseteq Proc
    BY PoolAssumption DEF Proc
<1>2. pool_reconn_lock' = [pool_reconn_lock EXCEPT ![i] = FALSE] /\ WakeNext(i, wakeup \ {c})
    BY DEF Unlock
<1>3. \A q \in Proc : q # c => pc'[q] = pc[q] /\ slot'[q] = slot[q]
    BY DEF Inv, TypeOK
<1>4. /\ pool_reconn_pending' \in [Slot -> Seq(Co)]
      /\ \A j \in Slot : Len(pool_reconn_pending'[j]) <= MaxPending + 1
      /\ wakeup' \in SUBSET Proc
      /\ \A q \in wakeup' : q # c => pc'[q] # "idle"
      /\ draining' \in BOOLEAN /\ (draining' <=> wakeup' # {})
    BY <1>2, <1>3, WakeNextType
<1>5. c \notin wakeup'
  <2>1. CASE pool_reconn_pending[i] = <<>>
      BY <1>2, <2>1 DEF WakeNext, Drains
  <2>2. CASE pool_reconn_pending[i] # <<>>
    <3>1. PICK h \in Co : Took(h, i, wakeup \ {c})
        BY <1>2, <2>2, NextWaiter
    <3> QED BY <3>1 DEF Took
  <2> QED BY <2>1, <2>2
<1>6. pool_reconn_lock' \in [Slot -> BOOLEAN]
    BY <1>2 DEF Inv, TypeOK
<1>7. TypeOK'
    BY <1>1, <1>4, <1>5, <1>6 DEF Inv, TypeOK
<1>8. c \in Connecting(i)
    BY DEF Connecting
<1>9. /\ \A j \in Slot : j # i => pool_reconn_lock'[j] = pool_reconn_lock[j]
      /\ ~pool_reconn_lock'[i]
    BY <1>2 DEF Inv, TypeOK
<1>10. ~stray'[i] => Connecting(i) \subseteq {c}
  <2>1. SUFFICES ASSUME ~stray[i] PROVE Connecting(i) \subseteq {c}
      OBVIOUS
  <2>2. Order(i)
      BY <2>1 DEF Inv, SlotInv
  <2> QED BY <1>8, <2>2 DEF Order
<1>11. \A j \in Slot \ {i} : /\ pool_reconn_lock'[j] = pool_reconn_lock[j]
                             /\ inpool'[j] => inpool[j]
                             /\ obj'[j] = "live" => obj[j] = "live"
                             /\ orphan'[j] = orphan[j]
    BY <1>9
<1>12. Leaves(c, i)
    BY <1>2, <1>9, <1>10, <1>11 DEF Leaves
<1> QED BY <1>7, <1>12, LeavesKeeps

\* c, woken in a repair of slot i, is the only woken coroutine of the slot, unless it
\* closed the old connection, where others failed with it.
LEMMA RepairAlone ==
    ASSUME Inv, NEW c \in Co, c \in wakeup, pc[c] \in {"connect", "charset"}
    PROVE  ~stray[slot[c]] => WokenOf(slot[c]) \subseteq {c}
<1>1. slot[c] \in Slot /\ c \in WokenOf(slot[c])
    BY DEF Inv, TypeOK, WokenOf, Proc
<1>2. ASSUME ~stray[slot[c]] PROVE \A d \in WokenOf(slot[c]) : d = c
    BY <1>1, <1>2 DEF Inv, SlotInv, Order
<1> QED BY <1>2

\* The old connection is disconnected, and the new one is asked for its charset.
LEMMA CharsetKeeps ==
    ASSUME Inv, NEW c \in Co, c \in wakeup, pc[c] \in {"connect", "closing"},
           Disconnected(c), Charset(c), UNCHANGED <<inpool, kk_is_active, orphan>>
    PROVE  Inv'
<1>1. c \in Proc /\ slot[c] \in Slot
    BY DEF Proc, Inv, TypeOK
<1>2. obj' = IF mine[c] THEN [obj EXCEPT ![slot[c]] = "dead"] ELSE obj
    BY DEF Disconnected
<1>3. CASE /\ Now(c, "charset", slot[c], mine[c]) /\ Drains(Others(c))
           /\ UNCHANGED <<reconnVars, stray>>
    BY <1>2, <1>3, RepairStep DEF Others
<1>4. CASE /\ Ends(c)
           /\ Unlock(slot[c], Others(c))
           /\ stray' = [stray EXCEPT ![slot[c]] =
                           stray[slot[c]] \/ \E d \in Others(c) \cap Co : slot[d] = slot[c]]
  <2>1. /\ obj' \in [Slot -> {"live", "closing", "dead"}]
        /\ \A j \in Slot \ {slot[c]} : obj'[j] = obj[j]
      BY <1>1, <1>2 DEF Inv, TypeOK
  <2>2. pc' = [pc EXCEPT ![c] = "idle"] /\ slot' = [slot EXCEPT ![c] = 0]
        /\ mine' = [mine EXCEPT ![c] = FALSE]
      BY <1>4 DEF Ends, Now
  <2>3. mine' \in [Proc -> BOOLEAN] /\ \A q \in Proc : q # c => mine'[q] = mine[q]
      BY <1>1, <2>2 DEF Inv, TypeOK
  <2>4. /\ stray' \in [Slot -> BOOLEAN]
        /\ \A j \in Slot : stray[j] => stray'[j]
        /\ stray'[slot[c]] <=> stray[slot[c]] \/ \E d \in Others(c) \cap Co : slot[d] = slot[c]
      BY <1>1, <1>4 DEF Inv, TypeOK
  <2>5. ~stray'[slot[c]] => WokenOf(slot[c]) \subseteq {c}
      BY <2>4 DEF WokenOf, Others
  <2>6. /\ kk_is_active' \in [Slot -> BOOLEAN] /\ inpool' \in [Slot -> BOOLEAN]
        /\ orphan' \in [Slot -> BOOLEAN] /\ ~orphan'[slot[c]]
      BY <1>1 DEF Inv, TypeOK, SlotInv
  <2>7. Unlock(slot[c], wakeup \ {c})
      BY <1>4 DEF Others
  <2>8. Finishes(c, slot[c])
      BY <2>1, <2>2, <2>3, <2>4, <2>5, <2>6, <2>7 DEF Finishes
  <2> QED BY <1>1, <2>8, FinishesKeeps
<1> QED BY <1>3, <1>4 DEF Charset

\* Every step of a repair keeps the invariant.
LEMMA RepairKeeps ==
    ASSUME Inv, NEW c \in Co,
           \/ ConnectFails(c) \/ ConnectOk(c) \/ DisconnectEnds(c)
           \/ CharsetFails(c) \/ CharsetOk(c)
    PROVE  Inv'
<1>1. c \in Proc /\ c \in wakeup /\ pc[c] \in {"connect", "closing", "charset"} /\ slot[c] \in Slot
    BY DEF Proc, Resumed, Inv, TypeOK, ConnectFails, ConnectOk, DisconnectEnds, CharsetFails,
           CharsetOk
<1>2. CASE ConnectFails(c) \/ CharsetFails(c)
  <2>1. /\ Ends(c) /\ Unlock(slot[c], wakeup \ {c}) /\ pc[c] \in {"connect", "charset"}
        /\ UNCHANGED <<obj, inpool, kk_is_active, stray, orphan>>
      BY <1>2 DEF ConnectFails, CharsetFails, Others, conn
  <2>2. pc' = [pc EXCEPT ![c] = "idle"] /\ slot' = [slot EXCEPT ![c] = 0]
        /\ mine' = [mine EXCEPT ![c] = FALSE]
      BY <2>1 DEF Ends, Now
  <2>3. mine' \in [Proc -> BOOLEAN] /\ \A q \in Proc : q # c => mine'[q] = mine[q]
      BY <1>1, <2>2 DEF Inv, TypeOK
  <2>4. ~stray'[slot[c]] => WokenOf(slot[c]) \subseteq {c}
      BY <1>1, <2>1, RepairAlone
  <2>5. /\ obj' \in [Slot -> {"live", "closing", "dead"}]
        /\ kk_is_active' \in [Slot -> BOOLEAN] /\ inpool' \in [Slot -> BOOLEAN]
        /\ orphan' \in [Slot -> BOOLEAN] /\ ~orphan'[slot[c]] /\ stray' \in [Slot -> BOOLEAN]
      BY <1>1, <2>1 DEF Inv, TypeOK, SlotInv
  <2>6. Finishes(c, slot[c])
      BY <1>1, <2>1, <2>2, <2>3, <2>4, <2>5 DEF Finishes
  <2> QED BY <1>1, <2>6, FinishesKeeps
<1>3. CASE ConnectOk(c)
  <2>1. c \in wakeup /\ pc[c] = "connect" /\ UNCHANGED <<inpool, kk_is_active, orphan>>
      BY <1>3 DEF ConnectOk, Resumed
  <2>2. CASE /\ obj' = IF mine[c] THEN [obj EXCEPT ![slot[c]] = "closing"] ELSE obj
             /\ Now(c, "closing", slot[c], mine[c])
             /\ Drains(Others(c))
             /\ UNCHANGED <<reconnVars, stray>>
      BY <2>1, <2>2, RepairStep DEF Others
  <2>3. CASE Disconnected(c) /\ Charset(c)
      BY <2>1, <2>3, CharsetKeeps
  <2> QED BY <1>3, <2>2, <2>3 DEF ConnectOk
<1>4. CASE DisconnectEnds(c)
    BY <1>1, <1>4, CharsetKeeps DEF DisconnectEnds
<1>5. CASE CharsetOk(c)
  <2> DEFINE i == slot[c]
  <2>1. /\ obj' = [obj EXCEPT ![i] = "live"] /\ inpool' = [inpool EXCEPT ![i] = TRUE]
        /\ kk_is_active' = [kk_is_active EXCEPT ![i] = TRUE]
        /\ Unlock(i, wakeup \ {c}) /\ stray' = stray /\ pc[c] = "charset"
        /\ pc' = [pc EXCEPT ![c] = "idle"] /\ slot' = [slot EXCEPT ![c] = 0]
        /\ mine' = [p \in Proc |-> mine[p] /\ slot[p] # i]
        /\ orphan' = [orphan EXCEPT ![i] = orphan[i] \/ (~stray[i] /\ inpool[i] /\ obj[i] = "live")]
      BY <1>5 DEF CharsetOk, Others
  <2>2. ~(~stray[i] /\ obj[i] = "live")
    <3>1. c \in Connecting(i)
        BY <1>1 DEF Connecting
    <3> QED BY <1>1, <2>1, <3>1 DEF Inv, SlotInv, Order
  <2>3. ~stray'[i] => WokenOf(i) \subseteq {c}
      BY <1>1, <2>1, RepairAlone
  <2>4. /\ obj' \in [Slot -> {"live", "closing", "dead"}]
        /\ \A j \in Slot \ {i} :
               obj'[j] = obj[j] /\ inpool'[j] = inpool[j] /\ orphan'[j] = orphan[j]
        /\ kk_is_active' \in [Slot -> BOOLEAN] /\ inpool' \in [Slot -> BOOLEAN]
        /\ orphan' \in [Slot -> BOOLEAN] /\ stray' \in [Slot -> BOOLEAN]
        /\ mine' \in [Proc -> BOOLEAN]
        /\ \A q \in Proc : q # c /\ slot[q] # i => mine'[q] = mine[q]
      BY <1>1, <2>1 DEF Inv, TypeOK
  <2>5. ~orphan'[i]
      BY <1>1, <2>1, <2>2 DEF Inv, TypeOK, SlotInv
  <2> HIDE DEF i
  <2>6. i = slot[c] /\ i \in Slot
      BY <1>1 DEF i
  <2>7. Finishes(c, i)
      BY <1>1, <2>1, <2>3, <2>4, <2>5, <2>6 DEF Finishes
  <2> QED BY <2>6, <2>7, FinishesKeeps
<1> QED BY <1>2, <1>3, <1>4, <1>5

-----------------------------------------------------------------------------

\* A message wakes W: statements that failed and a coroutine that closes a connection,
\* or one coroutine of a repair.
LEMMA WakesKeeps ==
    ASSUME Inv, NEW W \in SUBSET Proc, Wakes(W), \A q \in W : pc[q] # "idle",
           \/ \A q \in W : pc[q] \in {"query", "closing"}
           \/ \E c \in Co : W = {c} /\ pc[c] \in {"connect", "charset"}
    PROVE  Inv'
<1>1. /\ ~draining /\ wakeup' = wakeup \cup W /\ (draining' <=> wakeup' # {})
      /\ draining' \in BOOLEAN
      /\ UNCHANGED <<obj, inpool, kk_is_active, pool_reconn_lock, pool_reconn_pending, pc, slot,
                     mine, stray, orphan>>
    BY DEF Wakes, Drains, conn, reconnVars, procs
<1>2. TypeOK'
    BY <1>1 DEF Inv, TypeOK
<1>3. \A q \in W : pc[q] # "wait"
    OBVIOUS
<1>4. ASSUME NEW j \in Slot PROVE SlotInv(j)'
  <2>1. SlotInv(j)
      BY DEF Inv
  <2>2. Connecting(j)' = Connecting(j) /\ WokenOf(j) \subseteq WokenOf(j)'
        /\ \A d \in WokenOf(j)' : d \in WokenOf(j) \/ d \in W
      BY <1>1 DEF Connecting, WokenOf
  <2>3. Asleep(j)'
    <3>1. Asleep(j)
        BY <2>1 DEF SlotInv
    <3>2. ASSUME NEW k \in 1..Len(pool_reconn_pending[j])
          PROVE  pool_reconn_pending[j][k] \notin wakeup'
        BY <1>1, <1>3, <3>1 DEF Asleep
    <3> QED BY <1>1, <3>1, <3>2 DEF Asleep
  <2>4. Owned(j)'
      BY <1>1, <2>1, <2>2 DEF SlotInv, Owned
  <2>5. ASSUME ~stray'[j] PROVE Order(j)'
    <3>1. Order(j)
        BY <1>1, <2>1, <2>5 DEF SlotInv
    <3>2. \A d \in WokenOf(j)' : d \in W
        BY <1>1, <2>2, <3>1 DEF Order
    <3>3. ~draining' => WokenOf(j)' = {}
        BY <1>1 DEF WokenOf
    <3>4. \A c \in WokenOf(j)' : pc'[c] \in {"wait", "connect", "charset"} =>
              \A d \in WokenOf(j)' : d = c
        BY <1>1, <3>2
    <3>5. \A c \in WokenOf(j)' : pc'[c] # "wait"
        BY <1>1, <1>3, <3>2
    <3> QED BY <1>1, <2>2, <3>1, <3>3, <3>4, <3>5 DEF Order
  <2> QED BY <1>1, <2>1, <2>3, <2>4, <2>5 DEF SlotInv
<1> QED BY <1>2, <1>4 DEF Inv

\* A slice that raises, or that only lets the woken coroutines run, and changes nothing of
\* the slots but maybe closes connections; p is the coroutine of CMD.stop or none of Co.
LEMMA StopStep ==
    ASSUME Inv, TypeOK', NEW W, W = wakeup \/ W = wakeup \ {StopCo},
           Raises(W) \/ (Drains(W) /\ UNCHANGED stray),
           \A q \in Proc : q # StopCo => pc'[q] = pc[q] /\ slot'[q] = slot[q] /\ mine'[q] = mine[q],
           \A j \in Slot : (inpool'[j] => inpool[j]) /\ (obj'[j] = "live" => obj[j] = "live"),
           UNCHANGED <<reconnVars, orphan>>
    PROVE  Inv'
<1>1. StopCo \in Proc /\ StopCo \notin Co /\ Co \subseteq Proc
    BY PoolAssumption DEF Proc
<1>2. wakeup' = W /\ \A j \in Slot : stray[j] => stray'[j]
    BY DEF Raises, Drains, Inv, TypeOK
<1>3. ASSUME NEW j \in Slot PROVE SlotInv(j)'
  <2>1. /\ \A q \in WokenOf(j)' : q \in WokenOf(j) /\ q # StopCo
        /\ \A q \in WokenOf(j) : q \in wakeup'
      BY <1>1, <1>2 DEF WokenOf
  <2>2. ~draining' /\ ~stray'[j] => WokenOf(j)' = {}
    <3>1. CASE Drains(W)
        BY <3>1 DEF Drains, WokenOf
    <3>2. CASE Raises(W)
      <4>1. \A q \in W \cap Co : slot[q] = j => stray'[j]
          BY <3>2 DEF Raises
      <4> QED BY <1>1, <1>2, <4>1 DEF WokenOf
    <3> QED BY <3>1, <3>2
  <2>3. StopCo \notin Connecting(j) /\ StopCo \notin Connecting(j)' /\ StopCo \notin WokenOf(j)
      BY <1>1 DEF Connecting, WokenOf
  <2>4. /\ pool_reconn_lock'[j] = pool_reconn_lock[j]
        /\ pool_reconn_pending'[j] = pool_reconn_pending[j]
      BY DEF reconnVars
  <2> QED BY <1>1, <1>2, <2>1, <2>2, <2>3, <2>4, SlotSame
<1> QED BY <1>3 DEF Inv

\* Every step of a statement outside reconn keeps the invariant.
LEMMA StatementKeeps ==
    ASSUME Inv, NEW c \in Co,
           Answered(c) \/ QueryFailed(c) \/ Reported(c) \/ \E i \in Slot : Execute(c, i)
    PROVE  Inv'
<1>1. c \in Proc /\ c # StopCo /\ StopCo \in Proc /\ Co \subseteq Proc
    BY PoolAssumption DEF Proc
<1>2. CASE Answered(c)
  <2>1. /\ pc[c] = "query" /\ Ends(c) /\ Drains(wakeup \ {c})
        /\ UNCHANGED <<obj, inpool, kk_is_active, reconnVars, stray, orphan>>
      BY <1>2 DEF Answered, Others, conn
  <2>2. TypeOK'
      BY <1>1, <2>1 DEF Inv, TypeOK, Ends, Now, reconnVars, Drains
  <2>3. slot[c] \in Slot
      BY <1>1, <2>1 DEF Inv, TypeOK
  <2> QED BY <2>1, <2>2, <2>3, StatementStep DEF Ends
<1>3. CASE QueryFailed(c)
  <2>1. /\ c \in wakeup /\ pc[c] = "query" /\ slot[c] \in Slot /\ mine[c] \in BOOLEAN
      BY <1>1, <1>3 DEF QueryFailed, Resumed, Inv, TypeOK
  <2>2. /\ Reconn(c, slot[c], mine[c], wakeup \ {c})
        /\ UNCHANGED <<obj, inpool, stray, orphan>>
      BY <1>3 DEF QueryFailed, Others
  <2> QED BY <2>1, <2>2, ReconnKeeps
<1>4. CASE Reported(c)
  <2>1. PICK S \in SUBSET Co : /\ Wakes(S)
                               /\ \/ \A q \in S : pc[q] = "query"
                                  \/ S = {c} /\ pc[c] \in {"connect", "charset"}
      BY <1>4 DEF Reported, SameConn
  <2>2. S \in SUBSET Proc /\ \A q \in S : pc[q] # "idle"
      BY <1>1, <2>1
  <2> QED BY <2>1, <2>2, WakesKeeps
<1>5. ASSUME NEW i \in Slot, Execute(c, i) PROVE Inv'
  <2>1. ~draining /\ pc[c] = "idle" /\ c \notin wakeup /\ UNCHANGED <<obj, inpool, orphan>>
      BY <1>5 DEF Execute, Inv, TypeOK
  <2>2. wakeup \ {c} = wakeup
      BY <2>1
  <2>3. CASE Raises(wakeup) /\ UNCHANGED <<kk_is_active, reconnVars, procs>>
    <3>1. stray' \in [Slot -> BOOLEAN]
        BY <2>3 DEF Raises, Inv, TypeOK
    <3>2. TypeOK'
        BY <2>1, <2>3, <3>1 DEF Inv, TypeOK, reconnVars, procs, Raises
    <3> QED BY <2>1, <2>3, <3>2, StopStep DEF procs
  <2>4. CASE Now(c, "query", i, TRUE) /\ Drains(wakeup) /\ UNCHANGED <<kk_is_active, reconnVars, stray>>
    <3>1. TypeOK'
      <4>1. /\ wakeup' \in SUBSET Proc /\ \A q \in wakeup' : pc'[q] # "idle"
            /\ draining' \in BOOLEAN /\ (draining' => wakeup' # {})
          BY <1>1, <2>1, <2>4 DEF Inv, TypeOK, Drains, Now
      <4> QED BY <1>1, <2>1, <2>4, <4>1 DEF Inv, TypeOK, Now, reconnVars
    <3>2. Drains(wakeup \ {c})
        BY <2>2, <2>4
    <3> QED BY <2>1, <2>4, <3>1, <3>2, StatementStep
  <2>5. CASE Reconn(c, i, TRUE, wakeup) /\ UNCHANGED stray
    <3>1. Reconn(c, i, TRUE, wakeup \ {c})
        BY <2>2, <2>5
    <3> QED BY <2>1, <2>5, <3>1, ReconnKeeps
  <2> QED BY <1>5, <2>3, <2>4, <2>5 DEF Execute
<1> QED BY <1>2, <1>3, <1>4, <1>5

\* A socket that is gone wakes the coroutine that closes it.
LEMMA SocketClosedKeeps ==
    ASSUME Inv, NEW p \in Proc, SocketClosed(p)
    PROVE  Inv'
<1>1. PICK S \in SUBSET SameConn(p) : Wakes(S \cup {p})
    BY DEF SocketClosed
<1>2. /\ S \cup {p} \in SUBSET Proc
      /\ \A q \in S \cup {p} : pc[q] \in {"query", "closing"}
    BY <1>1 DEF SameConn, Proc, SocketClosed
<1> QED BY <1>1, <1>2, WakesKeeps

\* Slices that have nothing to do with a statement keep the invariant.
LEMMA OtherKeeps ==
    ASSUME Inv, OtherMessage \/ UNCHANGED vars \/ \E i \in Slot : Quote_sql_str(i)
    PROVE  Inv'
<1>1. CASE OtherMessage
  <2>1. Wakes({})
      BY <1>1 DEF OtherMessage, Wakes
  <2> QED BY <2>1, WakesKeeps
<1>2. CASE UNCHANGED vars
  <2>1. UNCHANGED <<obj, inpool, kk_is_active, pool_reconn_lock, pool_reconn_pending, pc, slot,
                    mine, wakeup, draining, stray, orphan>>
      BY <1>2 DEF vars, conn, reconnVars, procs, sched
  <2>2. TypeOK'
      BY <2>1 DEF Inv, TypeOK
  <2>3. \A j \in Slot : Connecting(j)' = Connecting(j) /\ WokenOf(j)' = WokenOf(j)
      BY <2>1 DEF Connecting, WokenOf
  <2>4. ASSUME NEW j \in Slot PROVE SlotInv(j)'
    <3>1. SlotInv(j)
        BY DEF Inv
    <3>2. Asleep(j)'
        BY <2>1, <3>1 DEF SlotInv, Asleep
    <3>3. Owned(j)'
        BY <2>1, <2>3, <3>1 DEF SlotInv, Owned
    <3>4. ~stray[j] => Order(j)'
        BY <2>1, <2>3, <3>1 DEF SlotInv, Order
    <3> QED BY <2>1, <3>1, <3>2, <3>3, <3>4 DEF SlotInv
  <2> QED BY <2>2, <2>4 DEF Inv
<1>3. ASSUME NEW i \in Slot, Quote_sql_str(i) PROVE Inv'
  <2>1. /\ UNCHANGED <<obj, inpool, kk_is_active, reconnVars, pc, slot, mine, orphan>>
        /\ Raises(wakeup) \/ (Drains(wakeup) /\ UNCHANGED stray)
      BY <1>3 DEF Quote_sql_str, conn, procs
  <2>2. stray' \in [Slot -> BOOLEAN]
      BY <2>1 DEF Raises, Inv, TypeOK
  <2>3. TypeOK'
      BY <2>1, <2>2 DEF Inv, TypeOK, reconnVars, Raises, Drains
  <2> QED BY <2>1, <2>3, StopStep
<1> QED BY <1>1, <1>2, <1>3

\* Steps of CMD.stop.
LEMMA StopKeeps ==
    ASSUME Inv, Stop \/ StopGoesOn
    PROVE  Inv'
<1>1. StopCo \in Proc /\ StopCo \notin Co /\ pc[StopCo] \in {"idle", "closing"}
    BY PoolAssumption DEF Proc, Inv, TypeOK
<1>2. UNCHANGED <<kk_is_active, reconnVars, orphan>>
    BY DEF Stop, StopGoesOn
<1>3. PICK k \in Nat, o \in [Slot -> {"live", "closing", "dead"}], W \in SUBSET Proc :
          /\ StopFrom(k, o, W) /\ k >= 1
          /\ \A j \in Slot : o[j] = "live" => obj[j] = "live"
          /\ W = wakeup \ {StopCo}
  <2>1. CASE Stop
    <3>1. pc[StopCo] = "idle" /\ StopFrom(1, obj, wakeup)
        BY <2>1 DEF Stop
    <3>2. wakeup = wakeup \ {StopCo} /\ wakeup \in SUBSET Proc
        BY <3>1 DEF Inv, TypeOK
    <3>3. obj \in [Slot -> {"live", "closing", "dead"}]
        BY DEF Inv, TypeOK
    <3> QED BY <3>1, <3>2, <3>3
  <2>2. CASE StopGoesOn
    <3>1. slot[StopCo] \in Slot
        BY <1>1, <2>2 DEF StopGoesOn, Resumed, Inv, TypeOK
    <3>2. slot[StopCo] + 1 \in Nat /\ slot[StopCo] + 1 >= 1
        BY <3>1, PoolAssumption DEF Slot
    <3> DEFINE o == IF mine[StopCo] THEN [obj EXCEPT ![slot[StopCo]] = "dead"] ELSE obj
    <3>3. o \in [Slot -> {"live", "closing", "dead"}] /\ \A j \in Slot : o[j] = "live" => obj[j] = "live"
        BY <3>1 DEF Inv, TypeOK
    <3>4. StopFrom(slot[StopCo] + 1, o, wakeup \ {StopCo}) /\ wakeup \ {StopCo} \in SUBSET Proc
        BY <2>2 DEF StopGoesOn, Others, Inv, TypeOK
    <3> HIDE DEF o
    <3> QED BY <3>2, <3>3, <3>4
  <2> QED BY <2>1, <2>2
<1>4. /\ Raises(W) \/ (Drains(W) /\ UNCHANGED stray)
      /\ obj' \in [Slot -> {"live", "closing", "dead"}]
      /\ \A j \in Slot : obj'[j] = "live" => o[j] = "live"
      /\ inpool' \in [Slot -> BOOLEAN]
      /\ \A i \in Slot : inpool'[i] => inpool[i]
      /\ \/ Now(StopCo, "idle", 0, FALSE)
         \/ \E j \in Slot : Now(StopCo, "closing", j, TRUE) /\ Drains(W)
  <2>1. PICK j \in k..(maxconn + 1) :
            LET closed == [i \in Slot |-> IF i \in k..(j - 1) /\ inpool[i] THEN "dead" ELSE o[i]]
            IN  \/ /\ obj' = closed
                   /\ inpool' = [i \in Slot |-> FALSE]
                   /\ Ends(StopCo)
                   /\ Drains(W) /\ UNCHANGED stray
                \/ /\ obj' = closed
                   /\ Ends(StopCo)
                   /\ Raises(W)
                   /\ UNCHANGED inpool
                \/ /\ j <= maxconn
                   /\ obj' = [closed EXCEPT ![j] = "closing"]
                   /\ Now(StopCo, "closing", j, TRUE)
                   /\ Drains(W) /\ UNCHANGED <<inpool, stray>>
      BY <1>3 DEF StopFrom
  <2> DEFINE closed == [i \in Slot |-> IF i \in k..(j - 1) /\ inpool[i] THEN "dead" ELSE o[i]]
  <2>2. /\ closed \in [Slot -> {"live", "closing", "dead"}]
        /\ \A i \in Slot : closed[i] = "live" => o[i] = "live"
      OBVIOUS
  <2>3. j <= maxconn => j \in Slot
      BY <1>3, PoolAssumption DEF Slot
  <2>4. inpool \in [Slot -> BOOLEAN]
      BY DEF Inv, TypeOK
  <2> HIDE DEF closed
  <2>5. CASE obj' = closed /\ inpool' = [i \in Slot |-> FALSE] /\ Ends(StopCo)
             /\ Drains(W) /\ UNCHANGED stray
      BY <2>2, <2>5 DEF Ends
  <2>6. CASE obj' = closed /\ Ends(StopCo) /\ Raises(W) /\ UNCHANGED inpool
      BY <2>2, <2>4, <2>6 DEF Ends
  <2>7. CASE /\ j <= maxconn
             /\ obj' = [closed EXCEPT ![j] = "closing"]
             /\ Now(StopCo, "closing", j, TRUE)
             /\ Drains(W) /\ UNCHANGED <<inpool, stray>>
    <3>1. /\ obj' \in [Slot -> {"live", "closing", "dead"}]
          /\ \A i \in Slot : obj'[i] = "live" => o[i] = "live"
        BY <2>2, <2>7
    <3> QED BY <2>3, <2>4, <2>7, <3>1
  <2> QED BY <2>1, <2>5, <2>6, <2>7 DEF closed
<1>5. /\ \A q \in Proc : q # StopCo => pc'[q] = pc[q] /\ slot'[q] = slot[q] /\ mine'[q] = mine[q]
      /\ pc'[StopCo] \in {"idle", "closing"}
    BY <1>1, <1>4 DEF Now, Inv, TypeOK
<1>6. TypeOK'
  <2>1. /\ wakeup' = wakeup \ {StopCo} /\ stray' \in [Slot -> BOOLEAN]
        /\ draining' \in BOOLEAN /\ (draining' => wakeup' # {})
      BY <1>3, <1>4 DEF Raises, Drains, Inv, TypeOK
  <2>2. CASE Now(StopCo, "idle", 0, FALSE)
      BY <1>1, <1>2, <1>4, <2>1, <2>2 DEF Now, Inv, TypeOK, reconnVars
  <2>3. ASSUME NEW j \in Slot, Now(StopCo, "closing", j, TRUE)
        PROVE  TypeOK'
      BY <1>1, <1>2, <1>4, <2>1, <2>3 DEF Now, Inv, TypeOK, reconnVars
  <2> QED BY <1>4, <2>2, <2>3
<1>7. \A j \in Slot : (inpool'[j] => inpool[j]) /\ (obj'[j] = "live" => obj[j] = "live")
    BY <1>3, <1>4
<1> QED BY <1>2, <1>3, <1>4, <1>5, <1>6, <1>7, StopStep

\* Every step keeps the invariant.
LEMMA NextKeeps == Inv /\ [Next]_vars => Inv'
<1> SUFFICES ASSUME Inv, [Next]_vars PROVE Inv'
    OBVIOUS
<1>1. CASE \E c \in Co : Runs(c) \/ Reported(c) \/ \E i \in Uses[c] : Execute(c, i)
  <2>1. PICK c \in Co : Runs(c) \/ Reported(c) \/ \E i \in Uses[c] : Execute(c, i)
      BY <1>1
  <2>2. Uses[c] \subseteq Slot
      BY PoolAssumption DEF Slot
  <2> QED BY <2>1, <2>2, StatementKeeps, WaitEndsKeeps, RepairKeeps DEF Runs
<1>2. CASE \E p \in Proc : SocketClosed(p)
    BY <1>2, SocketClosedKeeps
<1>3. CASE OtherMessage \/ UNCHANGED vars \/ \E i \in Slot : Quote_sql_str(i)
    BY <1>3, OtherKeeps
<1>4. CASE Stop \/ StopGoesOn
    BY <1>4, StopKeeps
<1> QED BY <1>1, <1>2, <1>3, <1>4 DEF Next

\* The pool starts in the invariant.
LEMMA InitHolds == Init => Inv
<1> SUFFICES ASSUME Init PROVE Inv
    OBVIOUS
<1>1. StopCo \in Proc /\ Co \subseteq Proc
    BY DEF Proc
<1>2. <<>> \in Seq(Co) /\ Len(<<>>) = 0
    BY EmptySeq
<1>3. TypeOK
  <2>1. 0 <= MaxPending + 1
      BY PoolAssumption
  <2> QED BY <1>1, <1>2, <2>1 DEF Init, TypeOK
<1>4. \A i \in Slot : Connecting(i) = {} /\ WokenOf(i) = {}
    BY <1>1 DEF Init, Connecting, WokenOf
<1>5. \A i \in Slot : SlotInv(i)
    BY <1>2, <1>4 DEF Init, SlotInv, Asleep, Owned, Order
<1> QED BY <1>3, <1>5 DEF Inv

\* mysqlpool.lua: its invariant holds in every state.
LEMMA InvHolds == Spec => []Inv
BY InitHolds, NextKeeps, PTL DEF Spec

\* gtables.reconn of mysqlpool.lua: at most one coroutine repairs a slot and the lock
\* says whether one does, in a slot whose coroutines have been resumed in their order.
THEOREM RepairExclusive == Spec => []ReconnExclusive
<1>1. Inv => ReconnExclusive
    BY DEF Inv, SlotInv, Owned, Order, ReconnExclusive
<1> QED BY <1>1, InvHolds, PTL

\* gtables.reconn of mysqlpool.lua: a coroutine that waits for a repair has somebody who
\* will wake it, in whatever order the coroutines are resumed.
THEOREM WaitersOwned == Spec => []NoLostPending
<1>1. Inv => NoLostPending
    BY DEF Inv, SlotInv, Owned, NoLostPending, WokenOf
<1> QED BY <1>1, InvHolds, PTL

\* gtables.reconn of mysqlpool.lua: the refusal at line 41 bounds the waiters of a slot,
\* by one more than the constant it compares with.
THEOREM WaitersBounded ==
    Spec => [](\A i \in Slot : Len(pool_reconn_pending[i]) <= MaxPending + 1)
<1>1. Inv => \A i \in Slot : Len(pool_reconn_pending[i]) <= MaxPending + 1
    BY DEF Inv, TypeOK
<1> QED BY <1>1, InvHolds, PTL

\* to_connet_func of mysqlpool.lua: the connection that is replaced in a slot has been
\* closed, whatever CMD.stop and other coroutines did to the slot while the repair waited
\* for MySQL, if the coroutines of the slot have been resumed in their order.
THEOREM NoOrphanHolds == Spec => []NoOrphan
<1>1. Inv => NoOrphan
    BY DEF Inv, SlotInv, NoOrphan
<1> QED BY <1>1, InvHolds, PTL

-----------------------------------------------------------------------------
(***************************************************************************)
(* memcache.lua, the queue that keeps the waiters of a slot, implements a  *)
(* double-ended queue, for any objects and any number of calls.            *)
(***************************************************************************)

\* A stretch of a table, read from key h on, is a sequence.
LEMMA Stretch ==
    ASSUME NEW h \in Int, NEW n \in Nat, NEW f,
           \A k \in 1..n : f[h + k - 1] \in Obj
    PROVE  /\ [k \in 1..n |-> f[h + k - 1]] \in Seq(Obj)
           /\ Len([k \in 1..n |-> f[h + k - 1]]) = n
<1> DEFINE s == [k \in 1..n |-> f[h + k - 1]]
<1>1. s \in [1..n -> Obj]
    OBVIOUS
<1>2. s \in Seq(Obj)
    BY <1>1, SeqDef
<1>3. DOMAIN s = 1..Len(s) /\ Len(s) \in Nat
    BY <1>2, LenProperties
<1>4. DOMAIN s = 1..n
    OBVIOUS
<1>5. ASSUME NEW m \in Nat, 1..m = 1..n
      PROVE  m = n
  <2>1. m \in 1..m \/ m = 0
      OBVIOUS
  <2>2. n \in 1..n \/ n = 0
      OBVIOUS
  <2>3. m <= n
      BY <1>5, <2>1
  <2>4. n <= m
      BY <1>5, <2>2
  <2> QED BY <2>3, <2>4
<1>6. Len(s) = n
  <2> HIDE DEF s
  <2> QED BY <1>3, <1>4, <1>5
<1> QED BY <1>2, <1>6

\* The objects between the counters form a sequence as long as size() says, and the
\* ends of the table hold nothing exactly when it is empty.
ReadsAsSeq ==
    /\ SizeOf \in Nat
    /\ Contents \in Seq(Obj)
    /\ Len(Contents) = SizeOf
    /\ \A k \in 1..SizeOf : Contents[k] = cache[head + k - 1]
    /\ Contents = <<>> <=> SizeOf = 0
    /\ Get(head) # Nil <=> SizeOf # 0
    /\ Get(tail) # Nil <=> SizeOf # 0

\* A table of the right shape reads as a sequence.
LEMMA ContentsIsSeq == MemcacheAssumption /\ CacheTypeOK /\ Contiguous => ReadsAsSeq
<1> SUFFICES ASSUME MemcacheAssumption, CacheTypeOK, Contiguous
             PROVE  ReadsAsSeq
    OBVIOUS
<1>1. SizeOf \in Nat
    BY DEF CacheTypeOK, Contiguous, SizeOf
<1>2. \A k \in 1..SizeOf : cache[head + k - 1] \in Obj
    BY DEF CacheTypeOK, Contiguous, SizeOf
<1>3. /\ Contents \in Seq(Obj)
      /\ Len(Contents) = SizeOf
    BY <1>1, <1>2, Stretch, head \in Int DEF Contents, CacheTypeOK
<1>4. \A k \in 1..SizeOf : Contents[k] = cache[head + k - 1]
    BY DEF Contents
<1>5. Contents = <<>> <=> SizeOf = 0
    BY <1>3, EmptySeq
<1>6. Get(head) # Nil <=> SizeOf # 0
    BY DEF MemcacheAssumption, CacheTypeOK, Contiguous, SizeOf, Get
<1>7. Get(tail) # Nil <=> SizeOf # 0
    BY DEF MemcacheAssumption, CacheTypeOK, Contiguous, SizeOf, Get
<1> QED BY <1>1, <1>3, <1>4, <1>5, <1>6, <1>7 DEF ReadsAsSeq

\* The same after a step.
LEMMA ContentsIsSeqNext == MemcacheAssumption /\ CacheTypeOK' /\ Contiguous' => ReadsAsSeq'
<1>1. (MemcacheAssumption /\ CacheTypeOK /\ Contiguous)' => ReadsAsSeq'
    BY ContentsIsSeq, PTL
<1> QED BY <1>1

\* The counters and the keys in use stay in step.
LEMMA StepKeepsShape ==
    ASSUME MemcacheAssumption, CacheTypeOK, Contiguous, [CacheNext]_cacheVars
    PROVE  CacheTypeOK' /\ Contiguous'
<1>1. ASSUME NEW n \in 0..MaxTail, NEW objs \in [1..n -> Obj], InitObjs(objs)
      PROVE  CacheTypeOK' /\ Contiguous'
  <2>1. objs \in Seq(Obj)
      BY <1>1, SeqDef DEF MemcacheAssumption
  <2>2. Len(objs) = n /\ (objs = <<>> <=> n = 0)
      BY <2>1, LenProperties, EmptySeq DEF MemcacheAssumption
  <2> QED BY <1>1, <2>2 DEF MemcacheAssumption, InitObjs, CacheTypeOK, Contiguous
<1>2. ASSUME NEW o \in Obj, Push_back(o)
      PROVE  CacheTypeOK' /\ Contiguous'
    BY <1>2 DEF Push_back, Put, CacheTypeOK, Contiguous
<1>3. CASE Pop
  <2>1. CASE Get(head) = Nil
      BY <1>3, <2>1 DEF Pop, CacheTypeOK, Contiguous
  <2>2. CASE Get(head) # Nil
    <3>1. head \in DOMAIN cache /\ tail # 0 /\ head \in head..tail
        BY <2>2 DEF Get, CacheTypeOK, Contiguous
    <3>2. cache' = Without(head) /\ head' = head + 1 /\ tail' = tail
        BY <1>3, <2>2 DEF Pop
    <3>3. DOMAIN cache' = (head + 1)..tail
        BY <3>1, <3>2 DEF Without, CacheTypeOK, Contiguous
    <3>4. cache' \in [DOMAIN cache' -> Obj]
        BY <3>2 DEF Without, CacheTypeOK
    <3> QED BY <3>1, <3>2, <3>3, <3>4 DEF CacheTypeOK, Contiguous
  <2> QED BY <2>1, <2>2
<1>4. CASE Pop_back
  <2>1. CASE Get(tail) = Nil
      BY <1>4, <2>1 DEF Pop_back, CacheTypeOK, Contiguous
  <2>2. CASE Get(tail) # Nil
    <3>1. tail \in DOMAIN cache /\ tail # 0 /\ tail \in head..tail
        BY <2>2 DEF Get, CacheTypeOK, Contiguous
    <3>2. cache' = Without(tail) /\ tail' = tail - 1 /\ head' = head
        BY <1>4, <2>2 DEF Pop_back
    <3>3. DOMAIN cache' = head..(tail - 1)
        BY <3>1, <3>2 DEF Without, CacheTypeOK, Contiguous
    <3>4. cache' \in [DOMAIN cache' -> Obj]
        BY <3>2 DEF Without, CacheTypeOK
    <3> QED BY <3>1, <3>2, <3>3, <3>4 DEF CacheTypeOK, Contiguous
  <2> QED BY <2>1, <2>2
<1>5. CASE Size
    BY <1>5 DEF Size, CacheTypeOK, Contiguous
<1>6. CASE UNCHANGED cacheVars
    BY <1>6 DEF cacheVars, CacheTypeOK, Contiguous
<1> QED BY <1>1, <1>2, <1>3, <1>4, <1>5, <1>6 DEF CacheNext

\* The keys of _cache are those between _head and _tail after any calls of
\* memcache.lua, and size() is the number of objects kept.
THEOREM ShapeKept == MemcacheAssumption => (CacheSpec => [](CacheTypeOK /\ Contiguous))
<1> SUFFICES ASSUME MemcacheAssumption PROVE CacheSpec => [](CacheTypeOK /\ Contiguous)
    OBVIOUS
<1>1. Ctor => CacheTypeOK /\ Contiguous
    BY DEF Ctor, CacheTypeOK, Contiguous
<1>2. (CacheTypeOK /\ Contiguous) /\ [CacheNext]_cacheVars => (CacheTypeOK /\ Contiguous)'
    BY StepKeepsShape
<1> QED BY <1>1, <1>2, PTL DEF CacheSpec

-----------------------------------------------------------------------------

\* init(objs) fills the queue with objs.
LEMMA InitFills ==
    ASSUME MemcacheAssumption, CacheTypeOK, Contiguous,
           NEW n \in 0..MaxTail, NEW objs \in [1..n -> Obj], InitObjs(objs)
    PROVE  D!Fill
<1>1. objs \in Seq(Obj)
    BY SeqDef DEF MemcacheAssumption
<1>2. Len(objs) = n /\ (objs = <<>> <=> n = 0) /\ n \in Nat
    BY <1>1, LenProperties, EmptySeq DEF MemcacheAssumption
<1>3. SizeOf' = n
    BY <1>2 DEF InitObjs, SizeOf
<1>4. Contents' = objs
  <2>1. CASE n = 0
      BY <1>2, <1>3, <2>1 DEF Contents, InitObjs
  <2>2. CASE n # 0
      BY <1>2, <1>3, <2>2 DEF Contents, InitObjs
  <2> QED BY <2>1, <2>2
<1> QED BY <1>1, <1>4 DEF InitObjs, D!Fill

\* push_back(o) puts o behind the others.
LEMMA PushAppends ==
    ASSUME MemcacheAssumption, CacheTypeOK, Contiguous,
           NEW o \in Obj, Push_back(o), CacheTypeOK', Contiguous'
    PROVE  D!PushBack
<1>1. /\ SizeOf \in Nat
      /\ Contents \in Seq(Obj)
      /\ Len(Contents) = SizeOf
      /\ \A k \in 1..SizeOf : Contents[k] = cache[head + k - 1]
    BY ContentsIsSeq DEF ReadsAsSeq
<1>2. /\ Contents' \in Seq(Obj)
      /\ Len(Contents') = SizeOf'
      /\ \A k \in 1..SizeOf' : Contents'[k] = cache'[head' + k - 1]
    BY ContentsIsSeqNext DEF ReadsAsSeq
<1>3. SizeOf' = SizeOf + 1
    BY DEF Push_back, SizeOf, CacheTypeOK, Contiguous
<1>4. \A k \in 1..SizeOf' : Contents'[k] = Append(Contents, o)[k]
  <2>1. TAKE k \in 1..SizeOf'
  <2>2. CASE k = SizeOf + 1
    <3>1. head' + k - 1 = tail + 1
        BY <2>2 DEF Push_back, SizeOf, CacheTypeOK, Contiguous
    <3>2. Contents'[k] = o
        BY <1>2, <3>1 DEF Push_back, Put
    <3> QED BY <1>1, <2>2, <3>2, AppendProperties
  <2>3. CASE k \in 1..SizeOf
    <3>1. /\ head' = head
          /\ head + k - 1 \in DOMAIN cache
          /\ head + k - 1 # tail + 1
        BY <2>3 DEF Push_back, SizeOf, CacheTypeOK, Contiguous
    <3>2. Contents'[k] = cache[head + k - 1]
        BY <1>2, <3>1 DEF Push_back, Put
    <3> QED BY <1>1, <2>3, <3>2, AppendProperties
  <2> QED BY <1>1, <1>3, <2>2, <2>3
<1>5. Contents' = Append(Contents, o)
  <2>1. Append(Contents, o) \in Seq(Obj) /\ Len(Append(Contents, o)) = SizeOf + 1
      BY <1>1, AppendProperties
  <2> QED BY <1>2, <1>3, <1>4, <2>1, SeqEqual
<1> QED BY <1>5 DEF Push_back, D!PushBack

\* pop() takes the oldest object.
LEMMA PopTakesHead ==
    ASSUME MemcacheAssumption, CacheTypeOK, Contiguous, Pop, CacheTypeOK', Contiguous'
    PROVE  D!Pop
<1>1. /\ SizeOf \in Nat
      /\ Contents \in Seq(Obj)
      /\ Len(Contents) = SizeOf
      /\ \A k \in 1..SizeOf : Contents[k] = cache[head + k - 1]
      /\ Contents = <<>> <=> SizeOf = 0
      /\ Get(head) # Nil <=> SizeOf # 0
    BY ContentsIsSeq DEF ReadsAsSeq
<1>2. CASE SizeOf = 0
  <2>1. ret' = Nil /\ Contents' = Contents
      BY <1>1, <1>2 DEF Pop, Contents, SizeOf
  <2> QED BY <1>1, <1>2, <2>1 DEF Pop, D!Pop
<1>3. CASE SizeOf # 0
  <2>1. /\ Contents' \in Seq(Obj)
        /\ Len(Contents') = SizeOf'
        /\ \A k \in 1..SizeOf' : Contents'[k] = cache'[head' + k - 1]
      BY ContentsIsSeqNext DEF ReadsAsSeq
  <2>2. SizeOf' = SizeOf - 1 /\ head' = head + 1 /\ cache' = Without(head)
      BY <1>1, <1>3 DEF Pop, SizeOf, CacheTypeOK, Contiguous
  <2>3. /\ Tail(Contents) \in Seq(Obj)
        /\ Len(Tail(Contents)) = SizeOf - 1
        /\ \A k \in 1..(SizeOf - 1) : Tail(Contents)[k] = Contents[k + 1]
      BY <1>1, <1>3, HeadTailProperties
  <2>4. \A k \in 1..SizeOf' : Contents'[k] = Tail(Contents)[k]
    <3>1. TAKE k \in 1..SizeOf'
    <3>2. head + k \in DOMAIN cache /\ head + k # head /\ k + 1 \in 1..SizeOf
        BY SMTT(20), <1>1, <2>2 DEF SizeOf, CacheTypeOK, Contiguous
    <3>3. Contents'[k] = cache[head + k]
      <4>1. Contents'[k] = Without(head)[head + 1 + k - 1]
          BY <2>1, <2>2
      <4>2. head + 1 + k - 1 = head + k
          BY <1>1, <2>2 DEF CacheTypeOK
      <4> QED BY <3>2, <4>1, <4>2 DEF Without
    <3>4. Contents[k + 1] = cache[head + k]
        BY <1>1, <3>2 DEF CacheTypeOK
    <3> QED BY <2>2, <2>3, <3>3, <3>4
  <2>5. Contents' = Tail(Contents)
      BY <2>1, <2>2, <2>3, <2>4, SeqEqual
  <2>6. ret' = Head(Contents)
    <3>1. head \in DOMAIN cache /\ 1 \in 1..SizeOf
        BY <1>1, <1>3 DEF SizeOf, CacheTypeOK, Contiguous
    <3>2. Contents[1] = cache[head]
        BY <1>1, <3>1 DEF CacheTypeOK
    <3> QED BY <1>1, <1>3, <3>1, <3>2 DEF Pop, Get
  <2> QED BY <1>1, <1>3, <2>5, <2>6 DEF Pop, D!Pop
<1> QED BY <1>2, <1>3

\* pop_back() takes the newest object.
LEMMA PopBackTakesLast ==
    ASSUME MemcacheAssumption, CacheTypeOK, Contiguous, Pop_back, CacheTypeOK', Contiguous'
    PROVE  D!PopBack
<1>1. /\ SizeOf \in Nat
      /\ Contents \in Seq(Obj)
      /\ Len(Contents) = SizeOf
      /\ \A k \in 1..SizeOf : Contents[k] = cache[head + k - 1]
      /\ Contents = <<>> <=> SizeOf = 0
      /\ Get(tail) # Nil <=> SizeOf # 0
    BY ContentsIsSeq DEF ReadsAsSeq
<1>2. CASE SizeOf = 0
  <2>1. ret' = Nil /\ Contents' = Contents
      BY <1>1, <1>2 DEF Pop_back, Contents, SizeOf
  <2> QED BY <1>1, <1>2, <2>1 DEF Pop_back, D!PopBack
<1>3. CASE SizeOf # 0
  <2>1. /\ Contents' \in Seq(Obj)
        /\ Len(Contents') = SizeOf'
        /\ \A k \in 1..SizeOf' : Contents'[k] = cache'[head' + k - 1]
      BY ContentsIsSeqNext DEF ReadsAsSeq
  <2>2. SizeOf' = SizeOf - 1 /\ head' = head /\ cache' = Without(tail)
      BY <1>1, <1>3 DEF Pop_back, SizeOf, CacheTypeOK, Contiguous
  <2>3. /\ SubSeq(Contents, 1, SizeOf - 1) \in Seq(Obj)
        /\ Len(SubSeq(Contents, 1, SizeOf - 1)) = SizeOf - 1
        /\ \A k \in 1..(SizeOf - 1) : SubSeq(Contents, 1, SizeOf - 1)[k] = Contents[k]
    <3>1. \A k \in 1..(SizeOf - 1) : Contents[k] \in Obj
        BY <1>1, ElementOfSeq
    <3> QED BY <1>1, <1>3, <3>1, SubSeqProperties
  <2>4. \A k \in 1..SizeOf' : Contents'[k] = Contents[k]
    <3>1. TAKE k \in 1..SizeOf'
    <3>2. head + k - 1 \in DOMAIN cache /\ head + k - 1 # tail /\ k \in 1..SizeOf
        BY SMTT(20), <1>1, <2>2 DEF SizeOf, CacheTypeOK, Contiguous
    <3> QED BY <1>1, <2>1, <2>2, <3>2 DEF Without, CacheTypeOK
  <2>5. Contents' = SubSeq(Contents, 1, SizeOf - 1)
      BY <2>1, <2>2, <2>3, <2>4, SeqEqual
  <2>6. ret' = Contents[SizeOf]
    <3>1. tail \in DOMAIN cache /\ head + SizeOf - 1 = tail /\ SizeOf \in 1..SizeOf
        BY <1>1, <1>3 DEF SizeOf, CacheTypeOK, Contiguous
    <3> QED BY <1>1, <3>1 DEF Pop_back, Get
  <2> QED BY <1>1, <1>3, <2>5, <2>6 DEF Pop_back, D!PopBack
<1> QED BY <1>2, <1>3

\* Every call of memcache.lua does to the objects it keeps, and answers, what the same
\* call does and answers on a double-ended queue.
THEOREM ImplementsDeque == MemcacheAssumption => (CacheSpec => IsDeque)
<1> SUFFICES ASSUME MemcacheAssumption PROVE CacheSpec => IsDeque
    OBVIOUS
<1>1. Ctor => D!DInit
    BY DEF Ctor, D!DInit, Contents, SizeOf
<1>2. ASSUME CacheTypeOK, Contiguous, CacheTypeOK', Contiguous', [CacheNext]_cacheVars
      PROVE  [D!DNext]_(D!dvars)
  <2>1. ASSUME NEW n \in 0..MaxTail, NEW objs \in [1..n -> Obj], InitObjs(objs)
        PROVE  D!Fill
      BY <1>2, <2>1, InitFills
  <2>2. ASSUME NEW o \in Obj, Push_back(o)
        PROVE  D!PushBack
      BY <1>2, <2>2, PushAppends
  <2>3. CASE Pop
      BY <1>2, <2>3, PopTakesHead DEF D!DNext
  <2>4. CASE Pop_back
      BY <1>2, <2>4, PopBackTakesLast DEF D!DNext
  <2>5. CASE Size
    <3>1. Len(Contents) = SizeOf
        BY <1>2, ContentsIsSeq DEF ReadsAsSeq
    <3>2. Contents' = Contents
        BY <2>5 DEF Size, Contents, SizeOf
    <3> QED BY <2>5, <3>1, <3>2 DEF Size, D!Count, D!DNext
  <2>6. CASE UNCHANGED cacheVars
      BY <2>6 DEF cacheVars, D!dvars, Contents, SizeOf
  <2> QED BY <1>2, <2>1, <2>2, <2>3, <2>4, <2>5, <2>6 DEF CacheNext, D!DNext
<1> QED BY <1>1, <1>2, ShapeKept, PTL DEF CacheSpec, IsDeque, D!DSpec
=============================================================================
