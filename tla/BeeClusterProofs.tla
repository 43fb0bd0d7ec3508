--------------------------- MODULE BeeClusterProofs ---------------------------
(***************************************************************************)
(* What bee_cluster.lua sends to a node leaves in the order it was made,   *)
(* and the operations of one queue share one fate, for any number of       *)
(* operations and queues.                                                  *)
(*                                                                         *)
(* request_sender and the calls it wakes pass one turn to and fro over the *)
(* list of woken coroutines, which other coroutines of the service share   *)
(* and which an error leaves as it is. The proof is about that turn: it is *)
(* never in two places, so no call is resumed while the loop goes on.      *)
(***************************************************************************)
EXTENDS BeeCluster, SequenceTheorems, TLAPS

\* The operations that were made before the first task of the queue.
Base == Len(kind) - Len(tasks)

\* The tasks the loop is done with: all up to pos, but for a call that is woken and has
\* not run yet.
Done == IF wakeup \cap Op = {} THEN pos ELSE pos - 1

\* While there is a queue, every new operation goes into it; without one there is
\* nothing left of it, and it has a sender only once clusterd has answered.
QueueShape ==
    /\ queue = "none" => tasks = <<>>
    /\ queue # "running" => pos = 0 /\ q_sender = Nil
    /\ queue # "none" => sender = Nil
    /\ Len(tasks) <= Len(kind)
    /\ \A k \in 1..Len(tasks) : tasks[k] = Base + k

\* The turn: request_sender runs, or is woken, or has woken one call, the one its loop
\* has reached; and it does none of these unless it runs a queue.
OneTurn ==
    /\ slice = "confirm" \/ Confirm \in wakeup => queue = "running" /\ wakeup \cap Op = {}
    /\ slice = "confirm" => Confirm \notin wakeup
    /\ \A i \in wakeup \cap Op : pos >= 1 /\ i = Base + pos

\* What was sent was made before what the loop has still to do.
SentBefore == \A k \in 1..Len(sent) : sent[k] <= Base + Done

\* The generation of an operation: none before it is made, the present one for the
\* tasks of the queue, an earlier one for those of an earlier queue.
GenFits ==
    /\ generation <= Len(kind)
    /\ \A i \in Op : gen[i] <= generation
    /\ \A i \in Op : i > Len(kind) => gen[i] = 0
    /\ \A i \in Op : queue # "none" /\ i > Base /\ i <= Len(kind) => gen[i] = generation
    /\ \A i \in Op : queue # "none" /\ i <= Base => gen[i] < generation

\* The tasks that the loop has to do are queued, the others have met the fate the
\* queue's sender decides.
Fates ==
    \A i \in Op : i > Base /\ i <= Len(kind) =>
        /\ i > Base + Done => state[i] = "queued"
        /\ i <= Base + Done => state[i] \in IF q_sender = Nil THEN {"dropped", "failed"}
                                            ELSE {"sent", "replied"}

IndInv ==
    /\ TypeOK /\ QueueShape /\ OneTurn /\ SentBefore /\ SentInOrder
    /\ GenFits /\ Fates /\ QueueFate

-----------------------------------------------------------------------------

\* The numbers of the coroutines are distinct, and the position is in the queue.
LEMMA Numbers ==
    ASSUME IndInv
    PROVE  /\ Base \in Nat /\ Base + Len(tasks) = Len(kind)
           /\ Done \in Nat /\ Done <= pos /\ pos <= Len(tasks) /\ pos \in Nat
           /\ Len(tasks) \in Nat /\ Len(kind) \in Nat /\ Len(sent) \in Nat
           /\ Confirm \notin Op /\ Other \notin Op
<1>1. Len(tasks) \in Nat /\ Len(kind) \in Nat /\ Len(sent) \in Nat
  BY LenProperties DEF IndInv, TypeOK
<1>2. pos \in Nat /\ pos <= Len(tasks)
  BY <1>1 DEF IndInv, TypeOK
<1>3. Base \in Nat /\ Base + Len(tasks) = Len(kind)
  BY <1>1 DEF IndInv, QueueShape, Base
<1>4. wakeup \cap Op # {} => pos >= 1
  BY DEF IndInv, OneTurn
<1>5. Done \in Nat /\ Done <= pos
  BY <1>2, <1>4 DEF Done
<1>6. Confirm \notin Op /\ Other \notin Op
  BY ConstAssumption DEF Confirm, Other, Op
<1> QED BY <1>1, <1>2, <1>3, <1>5, <1>6

\* The initial state.
LEMMA InitInd == Init => IndInv
<1> SUFFICES ASSUME Init PROVE IndInv
  OBVIOUS
<1>1. tasks \in Seq(Op) /\ sent \in Seq(Op) /\ kind \in Seq({"push", "call"})
      /\ Len(tasks) = 0 /\ Len(sent) = 0 /\ Len(kind) = 0
  BY EmptySeq DEF Init
<1>2. TypeOK
  BY <1>1, ConstAssumption DEF Init, TypeOK, Settled
<1>3. QueueShape /\ OneTurn /\ SentBefore /\ SentInOrder
  BY <1>1 DEF Init, QueueShape, OneTurn, SentBefore, SentInOrder, Confirm
<1>4. GenFits
  BY <1>1 DEF Init, GenFits, Op
<1>5. Fates /\ QueueFate
  BY <1>1 DEF Init, Fates, QueueFate, Made, Base, Op
<1> QED BY <1>2, <1>3, <1>4, <1>5 DEF IndInv

\* The steps of the scheduler that run none of the queue's tasks and make no operation:
\* only slice, and who is woken besides the calls, changes.
LEMMA SchedulerStep ==
    ASSUME IndInv, UNCHANGED <<sender, queues, kind, state, sent, history>>,
           wakeup' \in SUBSET (Op \cup {Confirm, Other}), wakeup' \cap Op = wakeup \cap Op,
           slice' \in {"idle", "handler", "other", "confirm", "drain"},
           slice' = "confirm" \/ Confirm \in wakeup' => queue = "running" /\ wakeup \cap Op = {},
           slice' = "confirm" => Confirm \notin wakeup'
    PROVE  IndInv'
<1> USE DEF queues, history
<1>1. TypeOK' BY DEF IndInv, TypeOK
<1>2. QueueShape' BY DEF IndInv, QueueShape, Base
<1>3. Base' = Base /\ Done' = Done BY DEF Base, Done
<1>4. OneTurn' BY <1>3 DEF IndInv, OneTurn
<1>5. SentBefore' /\ SentInOrder' BY <1>3 DEF IndInv, SentBefore, SentInOrder
<1>6. GenFits' BY <1>3 DEF IndInv, GenFits
<1>7. Fates' BY <1>3 DEF IndInv, Fates
<1>8. QueueFate' BY DEF IndInv, QueueFate, Made
<1> QED BY <1>1, <1>2, <1>4, <1>5, <1>6, <1>7, <1>8 DEF IndInv

\* An operation is made: the direct path, when the sender is known.
LEMMA MakeDirect ==
    ASSUME IndInv, NEW k \in {"push", "call"}, New <= MaxOps, sender # Nil,
           kind' = Append(kind, k), state' = [state EXCEPT ![New] = "sent"],
           sent' = Append(sent, New), UNCHANGED <<queues, history, sender, wakeup>>,
           slice' \in {"idle", "handler", "other", "drain"}
    PROVE  IndInv'
<1> USE DEF queues, history
<1>n. /\ Base \in Nat /\ Base + Len(tasks) = Len(kind)
      /\ Done \in Nat /\ Done <= pos /\ pos <= Len(tasks) /\ pos \in Nat
      /\ Len(tasks) \in Nat /\ Len(kind) \in Nat /\ Len(sent) \in Nat
  BY Numbers
<1>1. New \in Op /\ New = Len(kind) + 1
  BY <1>n, ConstAssumption DEF New, Op
<1>2. /\ kind' \in Seq({"push", "call"}) /\ Len(kind') = Len(kind) + 1
      /\ sent' \in Seq(Op) /\ Len(sent') = Len(sent) + 1
      /\ \A j \in 1..Len(sent) : sent'[j] = sent[j]
      /\ sent'[Len(sent) + 1] = New
  BY <1>1, AppendProperties DEF IndInv, TypeOK
<1>3. queue = "none" /\ tasks = <<>> /\ Len(tasks) = 0 /\ pos = 0
  BY EmptySeq DEF IndInv, QueueShape
<1>4. Base = Len(kind) /\ Base' = Len(kind) + 1 /\ Done' = Done /\ Done = 0
  BY <1>n, <1>2, <1>3 DEF Base, Done
<1>5. wakeup \cap Op = {}
  BY <1>3 DEF IndInv, OneTurn
<1>6. TypeOK'
  BY <1>1, <1>2, <1>n DEF IndInv, TypeOK, New, Settled
<1>7. QueueShape'
  BY <1>2, <1>3, <1>n DEF IndInv, QueueShape
<1>8. OneTurn'
  BY <1>3, <1>5 DEF IndInv, OneTurn
<1>9. \A j \in 1..Len(sent) : sent[j] < New /\ sent[j] \in Nat
  <2>1. \A j \in 1..Len(sent) : sent[j] \in Op
    BY <1>n, ElementOfSeq DEF IndInv, TypeOK
  <2> QED BY <1>n, <1>1, <1>4, <2>1 DEF IndInv, SentBefore, Op
<1>10. SentBefore'
  BY <1>1, <1>2, <1>4, <1>9, <1>n DEF SentBefore
<1>11. SentInOrder'
  <2>1. ASSUME NEW i \in 1..Len(sent'), NEW j \in 1..Len(sent'), i < j
        PROVE  sent'[i] < sent'[j]
    <3>1. i \in 1..Len(sent) BY <1>2, <1>n, <2>1
    <3>2. CASE j = Len(sent) + 1 BY <1>1, <1>2, <1>9, <1>n, <3>1, <3>2
    <3>3. CASE j \in 1..Len(sent) BY <1>2, <2>1, <3>1, <3>3 DEF IndInv, SentInOrder
    <3> QED BY <1>2, <1>n, <3>2, <3>3
  <2> QED BY <2>1 DEF SentInOrder
<1>12. GenFits'
  BY <1>1, <1>2, <1>3, <1>n DEF IndInv, GenFits, TypeOK, Op
<1>13. Fates'
  BY <1>2, <1>4, <1>n DEF Fates, Op
<1>14. QueueFate'
  <2>1. gen[New] = 0
    BY <1>1, <1>n DEF IndInv, GenFits
  <2>2. \A i \in Made' : i = New \/ (i \in Made /\ i \in Op)
    BY <1>1, <1>2, <1>n, ConstAssumption DEF Made, Op
  <2>3. \A i \in Op : i # New => state'[i] = state[i]
    BY DEF IndInv, TypeOK
  <2>4. New \notin Made
    BY <1>1, <1>n DEF Made
  <2>5. ASSUME NEW i \in Made', NEW j \in Made', gen'[i] # 0, gen'[i] = gen'[j],
               state'[i] \in {"dropped", "failed"}
        PROVE  state'[j] \notin {"sent", "replied"}
    <3>1. i # New /\ j # New BY <2>1, <2>5
    <3>2. i \in Made /\ j \in Made /\ i \in Op /\ j \in Op BY <2>2, <2>5, <3>1
    <3>3. state'[i] = state[i] /\ state'[j] = state[j] BY <2>3, <3>1, <3>2
    <3> QED BY <2>5, <3>2, <3>3 DEF IndInv, QueueFate
  <2> QED BY <2>5 DEF QueueFate
<1> QED BY <1>6, <1>7, <1>8, <1>10, <1>11, <1>12, <1>13, <1>14 DEF IndInv

\* An operation is made: into the queue, a new one if there is none.
LEMMA MakeQueued ==
    ASSUME IndInv, NEW k \in {"push", "call"}, New <= MaxOps, sender = Nil,
           kind' = Append(kind, k), state' = [state EXCEPT ![New] = "queued"],
           Enqueue, UNCHANGED <<sent, sender, wakeup>>, slice # "confirm",
           slice' \in {"idle", "handler", "other", "drain"}
    PROVE  IndInv'
<1>n. /\ Base \in Nat /\ Base + Len(tasks) = Len(kind)
      /\ Done \in Nat /\ Done <= pos /\ pos <= Len(tasks) /\ pos \in Nat
      /\ Len(tasks) \in Nat /\ Len(kind) \in Nat /\ Len(sent) \in Nat
  BY Numbers
<1>1. New \in Op /\ New = Len(kind) + 1
  BY <1>n, ConstAssumption DEF New, Op
<1>2. /\ kind' \in Seq({"push", "call"}) /\ Len(kind') = Len(kind) + 1
      /\ tasks' \in Seq(Op) /\ Len(tasks') = Len(tasks) + 1
      /\ \A j \in 1..Len(tasks) : tasks'[j] = tasks[j]
      /\ tasks'[Len(tasks) + 1] = New
  BY <1>1, AppendProperties DEF IndInv, TypeOK, Enqueue
<1>3. Base' = Base /\ Done' = Done
  BY <1>n, <1>2 DEF Base, Done, Enqueue
<1>4. queue' \in {"forked", "asking", "running"} /\ (queue # "none" => queue' = queue)
      /\ (queue = "none" => queue' = "forked")
  BY DEF IndInv, TypeOK, Enqueue
<1>5. generation' \in Nat /\ generation' <= Len(kind) + 1
      /\ (queue = "none" => generation' = generation + 1)
      /\ (queue # "none" => generation' = generation) /\ generation \in Nat
  BY <1>n DEF IndInv, TypeOK, GenFits, Enqueue
<1>6. gen' = [gen EXCEPT ![New] = generation']
  BY DEF Enqueue
<1>7. gen' \in [Op -> 0..MaxOps] /\ generation' \in 0..MaxOps
  BY <1>1, <1>5, <1>6, ConstAssumption DEF IndInv, TypeOK, Op
<1>8. TypeOK'
  BY <1>1, <1>2, <1>4, <1>7, <1>n DEF IndInv, TypeOK, New, Settled, Enqueue
<1>9. QueueShape'
  <2>1. \A j \in 1..Len(tasks') : tasks'[j] = Base + j
    <3>1. TAKE j \in 1..Len(tasks')
    <3>2. CASE j = Len(tasks) + 1
      <4>1. Base + (Len(tasks) + 1) = New BY SMTT(20), <1>1, <1>n
      <4>2. tasks'[j] = New BY <1>2, <3>2
      <4> QED BY <3>2, <4>1, <4>2
    <3>3. CASE j \in 1..Len(tasks)
      BY <1>2, <3>3 DEF IndInv, QueueShape
    <3> QED BY <1>2, <1>n, <3>2, <3>3
  <2> QED BY <1>2, <1>3, <1>4, <1>n, <2>1 DEF IndInv, QueueShape, Enqueue
<1>10. OneTurn'
  BY <1>3, <1>4 DEF IndInv, OneTurn, Enqueue
<1>11. SentBefore' /\ SentInOrder'
  BY <1>3 DEF IndInv, SentBefore, SentInOrder
<1>12. GenFits'
  <2>1. \A i \in Op : gen[i] \in Nat /\ i \in Nat
    BY DEF IndInv, TypeOK, Op
  <2>2. \A i \in Op : gen'[i] = IF i = New THEN generation' ELSE gen[i]
    BY <1>6 DEF IndInv, TypeOK
  <2>3. \A i \in Op : gen'[i] <= generation'
    BY <1>5, <2>1, <2>2 DEF IndInv, GenFits
  <2>4. \A i \in Op : i > Len(kind') => gen'[i] = 0
    BY <1>1, <1>2, <1>n, <2>1, <2>2 DEF IndInv, GenFits
  <2>5. \A i \in Op : i > Base /\ i <= Len(kind') => gen'[i] = generation'
    <3>1. TAKE i \in Op
    <3>2. HAVE i > Base /\ i <= Len(kind')
    <3>3. CASE i = New BY <2>2, <3>3
    <3>4. CASE i # New
      <4>1. i <= Len(kind) BY <1>1, <1>2, <1>n, <2>1, <3>2, <3>4
      <4>2. queue # "none"
        <5>1. queue = "none" => Len(tasks) = 0 BY EmptySeq DEF IndInv, QueueShape
        <5> QED BY <1>n, <2>1, <3>2, <4>1, <5>1
      <4> QED BY <1>5, <2>2, <3>2, <3>4, <4>1, <4>2 DEF IndInv, GenFits
    <3> QED BY <3>3, <3>4
  <2>6. \A i \in Op : i <= Base => gen'[i] < generation'
    <3>1. TAKE i \in Op
    <3>2. HAVE i <= Base
    <3>3. i # New BY <1>1, <1>n, <2>1, <3>2
    <3>4. gen'[i] = gen[i] /\ gen[i] <= generation BY <2>2, <3>3 DEF IndInv, GenFits
    <3>5. CASE queue = "none" BY <1>5, <2>1, <3>4, <3>5
    <3>6. CASE queue # "none" BY <1>5, <3>2, <3>4, <3>6 DEF IndInv, GenFits
    <3> QED BY <3>5, <3>6
  <2> QED BY <1>2, <1>3, <1>5, <2>3, <2>4, <2>5, <2>6 DEF GenFits
<1>13. Fates'
  <2>1. ASSUME NEW i \in Op, i > Base, i <= Len(kind')
        PROVE  /\ i > Base + Done => state'[i] = "queued"
               /\ i <= Base + Done => state'[i] \in IF q_sender = Nil THEN {"dropped", "failed"}
                                                     ELSE {"sent", "replied"}
    <3>0. i \in Nat BY DEF Op
    <3>1. CASE i = New
      BY <1>1, <1>n, <3>1 DEF IndInv, TypeOK
    <3>2. CASE i # New
      <4>1. i <= Len(kind) BY <1>1, <1>2, <1>n, <2>1, <3>0, <3>2
      <4>2. state'[i] = state[i] BY <3>2 DEF IndInv, TypeOK
      <4> QED BY <2>1, <4>1, <4>2 DEF IndInv, Fates
    <3> QED BY <3>1, <3>2
  <2>2. q_sender' = q_sender BY DEF Enqueue
  <2> QED BY <1>3, <2>1, <2>2 DEF Fates
<1>14. QueueFate'
  <2>1. \A i \in Made' : i = New \/ (i \in Made /\ i \in Op)
    BY <1>1, <1>2, <1>n, ConstAssumption DEF Made, Op
  <2>2. \A i \in Op : i # New => state'[i] = state[i] /\ gen'[i] = gen[i]
    BY <1>6 DEF IndInv, TypeOK
  <2>3. state'[New] = "queued"
    BY <1>1 DEF IndInv, TypeOK
  <2>4. ASSUME NEW i \in Made', NEW j \in Made', gen'[i] # 0, gen'[i] = gen'[j],
               state'[i] \in {"dropped", "failed"}
        PROVE  state'[j] \notin {"sent", "replied"}
    <3>1. i # New BY <2>3, <2>4
    <3>2. CASE j = New BY <2>3, <3>2
    <3>3. CASE j # New
      <4>1. i \in Made /\ j \in Made /\ i \in Op /\ j \in Op BY <2>1, <2>4, <3>1, <3>3
      <4>2. state'[i] = state[i] /\ state'[j] = state[j] /\ gen'[i] = gen[i] /\ gen'[j] = gen[j]
        BY <2>2, <3>1, <3>3, <4>1
      <4> QED BY <2>4, <4>1, <4>2 DEF IndInv, QueueFate
    <3> QED BY <3>2, <3>3
  <2> QED BY <2>4 DEF QueueFate
<1> QED BY <1>8, <1>9, <1>10, <1>11, <1>12, <1>13, <1>14 DEF IndInv

\* What a task of the queue is settled to, by RunPush or by a woken call.
Settles(i, x) ==
    /\ state' = [state EXCEPT ![i] = x]
    /\ x \in IF q_sender = Nil THEN {"dropped", "failed"} ELSE {"sent"}
    /\ sent' = IF q_sender = Nil THEN sent ELSE Append(sent, i)

\* The task after those the loop is done with is settled.
LEMMA SettleStep ==
    ASSUME IndInv, NEW i, i = Base + Done + 1, i <= Len(kind), NEW x, Settles(i, x),
           queue = "running",
           UNCHANGED <<sender, queue, tasks, q_sender, kind, generation, gen>>,
           wakeup' \cap Op = {}, pos' = Done + 1,
           wakeup' \in SUBSET (Op \cup {Confirm, Other}),
           slice' \in {"idle", "confirm", "drain"},
           slice' = "confirm" => Confirm \notin wakeup'
    PROVE  IndInv'
<1>n. /\ Base \in Nat /\ Base + Len(tasks) = Len(kind)
      /\ Done \in Nat /\ Done <= pos /\ pos <= Len(tasks) /\ pos \in Nat
      /\ Len(tasks) \in Nat /\ Len(kind) \in Nat /\ Len(sent) \in Nat
  BY Numbers
<1>1. i \in Op /\ i \in Nat
  BY <1>n, ConstAssumption DEF IndInv, TypeOK, Op
<1>2. Base' = Base /\ Done' = Done + 1
  BY DEF Base, Done
<1>3. x \in Settled /\ state'[i] = x /\ \A j \in Op : j # i => state'[j] = state[j]
  BY <1>1 DEF Settles, Settled, IndInv, TypeOK
<1>4. \A j \in 1..Len(sent) : sent[j] < i /\ sent[j] \in Nat
  <2>1. \A j \in 1..Len(sent) : sent[j] \in Op
    BY <1>n, ElementOfSeq DEF IndInv, TypeOK
  <2> QED BY <1>n, <1>1, <2>1 DEF IndInv, SentBefore, Op
<1>5. /\ sent' \in Seq(Op) /\ Len(sent') \in {Len(sent), Len(sent) + 1}
      /\ \A j \in 1..Len(sent) : sent'[j] = sent[j]
      /\ Len(sent') = Len(sent) + 1 => sent'[Len(sent) + 1] = i
  BY <1>1, <1>n, AppendProperties DEF IndInv, TypeOK, Settles
<1>6. TypeOK'
  BY SMTT(20), <1>3, <1>5, <1>n, <1>1 DEF IndInv, TypeOK, Settles, Settled
<1>7. QueueShape' BY <1>2 DEF IndInv, QueueShape
<1>8. OneTurn' BY <1>2 DEF OneTurn
<1>9. SentBefore'
  <2>1. ASSUME NEW j \in 1..Len(sent') PROVE sent'[j] <= Base + (Done + 1)
    <3>1. CASE j \in 1..Len(sent) BY <1>4, <1>5, <1>n, <3>1
    <3>2. CASE j = Len(sent) + 1 /\ Len(sent') = Len(sent) + 1 BY <1>5, <1>n, <3>2
    <3> QED BY <1>5, <1>n, <3>1, <3>2
  <2> QED BY <1>2, <2>1 DEF SentBefore
<1>10. SentInOrder'
  <2>1. ASSUME NEW l \in 1..Len(sent'), NEW j \in 1..Len(sent'), l < j
        PROVE  sent'[l] < sent'[j]
    <3>1. l \in 1..Len(sent) BY <1>5, <1>n, <2>1
    <3>2. CASE j = Len(sent) + 1 /\ Len(sent') = Len(sent) + 1
      BY <1>4, <1>5, <1>n, <3>1, <3>2
    <3>3. CASE j \in 1..Len(sent) BY <1>5, <2>1, <3>1, <3>3 DEF IndInv, SentInOrder
    <3> QED BY <1>5, <1>n, <3>2, <3>3
  <2> QED BY <2>1 DEF SentInOrder
<1>11. GenFits' BY <1>2 DEF IndInv, GenFits
<1>12. ASSUME NEW j \in Op, j > Base, j <= Len(kind)
       PROVE  /\ j > Base + (Done + 1) => state'[j] = "queued"
              /\ j <= Base + (Done + 1) => state'[j] \in IF q_sender = Nil
                     THEN {"dropped", "failed"} ELSE {"sent", "replied"}
  <2>0. j \in Nat BY DEF Op
  <2>1. CASE j = i BY <1>3, <1>n, <2>0, <2>1 DEF Settles
  <2>2. CASE j # i
    <3>1. state'[j] = state[j] BY <1>3, <2>2
    <3>2. /\ j > Base + (Done + 1) => j > Base + Done
          /\ j <= Base + (Done + 1) => j <= Base + Done
      BY <1>n, <2>0, <2>2
    <3> QED BY <1>12, <3>1, <3>2 DEF IndInv, Fates
  <2> QED BY <2>1, <2>2
<1>13. Fates' BY <1>2, <1>12 DEF Fates
<1>14. QueueFate'
  <2>1. \A j \in Made : j \in Op /\ j \in Nat
    BY <1>n, ConstAssumption DEF Made, Op, IndInv, TypeOK
  <2>2. \A j \in Op : j <= Len(kind) /\ gen[j] = gen[i] => j > Base
    <3>1. gen[i] = generation BY <1>1, <1>n DEF IndInv, GenFits
    <3>2. generation \in Nat BY DEF IndInv, TypeOK
    <3> QED BY <1>n, <3>1, <3>2 DEF IndInv, GenFits, Op
  <2>3. ASSUME NEW l \in Made, NEW j \in Made, gen[l] # 0, gen[l] = gen[j],
               state'[l] \in {"dropped", "failed"}
        PROVE  state'[j] \notin {"sent", "replied"}
    <3>1. CASE l # i /\ j # i
      BY <1>3, <2>1, <2>3, <3>1 DEF IndInv, QueueFate
    <3>2. CASE l = i \/ j = i
      <4>1. gen[l] = gen[i] /\ gen[j] = gen[i] BY <2>3, <3>2
      <4>2. l \in Op /\ j \in Op /\ l <= Len(kind) /\ j <= Len(kind) /\ l \in Nat /\ j \in Nat
        BY <1>n, <2>1 DEF Made
      <4>3. l > Base /\ j > Base BY <2>2, <4>1, <4>2
      <4>4. q_sender = Nil
        BY <1>n, <1>12, <2>3, <4>2, <4>3
      <4>5. state'[j] \in {"queued", "dropped", "failed"}
        BY <1>n, <1>12, <4>2, <4>3, <4>4
      <4> QED BY <4>5
    <3> QED BY <3>1, <3>2
  <2> QED BY <2>3 DEF QueueFate, Made
<1> QED BY <1>6, <1>7, <1>8, <1>9, <1>10, <1>11, <1>13, <1>14 DEF IndInv

\* One action of the service.
LEMMA StepInd == IndInv /\ [Next]_vars => IndInv'
<1> SUFFICES ASSUME IndInv, [Next]_vars PROVE IndInv'
  OBVIOUS
<1>n. /\ Base \in Nat /\ Base + Len(tasks) = Len(kind)
      /\ Done \in Nat /\ Done <= pos /\ pos <= Len(tasks) /\ pos \in Nat
      /\ Len(tasks) \in Nat /\ Len(kind) \in Nat /\ Len(sent) \in Nat
      /\ Confirm \notin Op /\ Other \notin Op
  BY Numbers
<1>t. wakeup \in SUBSET (Op \cup {Confirm, Other}) BY DEF IndInv, TypeOK
<1>0. EndSlice => slice' \in {"idle", "drain"} BY DEF EndSlice
<1>c. Confirm # Other BY ConstAssumption DEF Confirm, Other
<1>r. /\ slice = "confirm" => queue = "running" /\ wakeup \cap Op = {} /\ Confirm \notin wakeup
      /\ Confirm \in wakeup => queue = "running" /\ wakeup \cap Op = {}
      /\ wakeup \cap Op # {} => queue = "running"
  <2>1. wakeup \cap Op # {} => pos # 0 BY DEF IndInv, OneTurn
  <2> QED BY <2>1 DEF IndInv, OneTurn, QueueShape
<1>1. CASE Message \/ HandlerReturns \/ HandlerRaises
  <2>1. /\ UNCHANGED <<sender, queues, kind, state, sent, history, wakeup>>
        /\ slice' \in {"idle", "handler", "drain"}
    BY <1>0, <1>1 DEF Message, HandlerReturns, HandlerRaises, Throw
  <2> QED BY <1>t, <1>r, <2>1, SchedulerStep
<1>2. CASE WakeOther
  <2>1. /\ UNCHANGED <<sender, queues, kind, state, sent, history>>
        /\ wakeup' = wakeup \cup {Other} /\ slice' = slice /\ slice = "handler"
    BY <1>2 DEF WakeOther
  <2>2. wakeup' \cap Op = wakeup \cap Op BY <1>n, <2>1
  <2>3. Confirm \in wakeup' => Confirm \in wakeup BY <1>c, <2>1
  <2>4. wakeup' \in SUBSET (Op \cup {Confirm, Other}) BY <1>t, <2>1
  <2>5. slice' \in {"idle", "handler", "other", "confirm", "drain"} /\ slice' # "confirm" BY <2>1
  <2> QED BY <1>r, <2>1, <2>2, <2>3, <2>4, <2>5, SchedulerStep
<1>3. CASE ResumeOther
  <2>1. /\ UNCHANGED <<sender, queues, kind, state, sent, history>>
        /\ wakeup' = wakeup \ {Other} /\ slice' = "other"
    BY <1>3 DEF ResumeOther
  <2>2. wakeup' \cap Op = wakeup \cap Op BY <1>n, <2>1
  <2>3. Confirm \in wakeup' => Confirm \in wakeup BY <2>1
  <2>4. wakeup' \in SUBSET (Op \cup {Confirm, Other}) BY <1>t, <2>1
  <2>5. slice' \in {"idle", "handler", "other", "confirm", "drain"} /\ slice' # "confirm" BY <2>1
  <2> QED BY <1>r, <2>1, <2>2, <2>3, <2>4, <2>5, SchedulerStep
<1>4. CASE ResumeConfirm
  <2>1. /\ UNCHANGED <<sender, queues, kind, state, sent, history>>
        /\ wakeup' = wakeup \ {Confirm} /\ slice' = "confirm" /\ Confirm \in wakeup
    BY <1>4 DEF ResumeConfirm
  <2>2. wakeup' \cap Op = wakeup \cap Op BY <1>n, <2>1
  <2>3. Confirm \notin wakeup' BY <2>1
  <2>4. wakeup' \in SUBSET (Op \cup {Confirm, Other}) BY <1>t, <2>1
  <2>5. slice' \in {"idle", "handler", "other", "confirm", "drain"} BY <2>1
  <2> QED BY <1>r, <2>1, <2>2, <2>3, <2>4, <2>5, SchedulerStep
<1>5. ASSUME NEW k \in {"push", "call"}, Make(k), slice' \in {"idle", "handler", "other", "drain"}
      PROVE  IndInv'
  <2>1. New <= MaxOps /\ kind' = Append(kind, k) /\ UNCHANGED <<sender, wakeup>>
    BY <1>5 DEF Make
  <2>2. slice # "confirm" BY <1>5 DEF Make, Handling
  <2>3. CASE sender # Nil
    <3>1. /\ state' = [state EXCEPT ![New] = "sent"]
          /\ sent' = Append(sent, New)
          /\ UNCHANGED <<queues, history>>
      BY <1>5, <2>3 DEF Make
    <3>2. UNCHANGED <<queues, history, sender, wakeup>> BY <2>1, <3>1
    <3> QED BY <1>5, <2>1, <2>3, <3>1, <3>2, MakeDirect
  <2>4. CASE sender = Nil
    <3>1. /\ state' = [state EXCEPT ![New] = "queued"]
          /\ Enqueue
          /\ UNCHANGED sent
      BY <1>5, <2>4 DEF Make
    <3>2. UNCHANGED <<sent, sender, wakeup>> BY <2>1, <3>1
    <3> QED BY <1>5, <2>1, <2>2, <2>4, <3>1, <3>2, MakeQueued
  <2> QED BY <2>3, <2>4
<1>6. CASE send
  <2>1. Make("push") /\ slice' \in {"idle", "handler", "other", "drain"}
    BY <1>6 DEF send, Make, Handling
  <2> QED BY <1>5, <2>1
<1>7. CASE call
  <2>1. Make("call") /\ slice' \in {"idle", "handler", "other", "drain"}
    BY <1>0, <1>7 DEF call
  <2> QED BY <1>5, <2>1
<1>8. ASSUME NEW i \in Op, CallReply(i) PROVE IndInv'
  <2>1. /\ UNCHANGED <<sender, queue, tasks, pos, q_sender, kind, wakeup, sent, generation, gen>>
        /\ state' = [state EXCEPT ![i] = "replied"] /\ state[i] = "sent" /\ slice' = "handler"
    BY <1>8 DEF CallReply, queues, history
  <2>2. Base' = Base /\ Done' = Done BY <2>1 DEF Base, Done
  <2>3. TypeOK' BY <2>1 DEF IndInv, TypeOK, Settled
  <2>4. QueueShape' /\ SentBefore' /\ SentInOrder' /\ GenFits'
    BY <2>1, <2>2 DEF IndInv, QueueShape, SentBefore, SentInOrder, GenFits
  <2>5. OneTurn' BY <1>r, <2>1, <2>2 DEF IndInv, OneTurn
  <2>6. state'[i] = "replied" /\ \A j \in Op : j # i => state'[j] = state[j]
    BY <2>1 DEF IndInv, TypeOK
  <2>7. \A j \in Op :
          /\ state[j] = "queued" => state'[j] = "queued"
          /\ state[j] \in {"dropped", "failed"} <=> state'[j] \in {"dropped", "failed"}
          /\ state[j] \in {"sent", "replied"} <=> state'[j] \in {"sent", "replied"}
    BY <2>1, <2>6
  <2>8. Fates'
    <3>1. q_sender' = q_sender /\ Len(kind') = Len(kind) BY <2>1
    <3> QED BY <2>2, <2>7, <3>1 DEF IndInv, Fates
  <2>9. QueueFate'
    <3>1. \A j \in Made : j \in Op
      BY <1>n, ConstAssumption DEF Made, Op, IndInv, TypeOK
    <3>2. Made' = Made /\ gen' = gen BY <2>1 DEF Made
    <3> QED BY <2>7, <3>1, <3>2 DEF IndInv, QueueFate
  <2> QED BY <2>3, <2>4, <2>5, <2>8, <2>9 DEF IndInv
<1>9. CASE RequestSender
  <2>1. /\ UNCHANGED <<sender, tasks, pos, q_sender, kind, state, wakeup, sent, generation, gen>>
        /\ queue = "forked" /\ queue' = "asking" /\ slice' \in {"idle", "drain"}
    BY <1>0, <1>9 DEF RequestSender, history
  <2>2. Base' = Base /\ Done' = Done BY <2>1 DEF Base, Done
  <2>3. TypeOK' BY <2>1 DEF IndInv, TypeOK
  <2>4. QueueShape' /\ SentBefore' /\ SentInOrder'
    BY <2>1, <2>2 DEF IndInv, QueueShape, SentBefore, SentInOrder
  <2>5. GenFits' BY <2>1, <2>2 DEF IndInv, GenFits
  <2>6. OneTurn' BY <1>r, <2>1, <2>2 DEF IndInv, OneTurn
  <2>7. Fates' BY <2>1, <2>2 DEF IndInv, Fates
  <2>8. QueueFate' BY <2>1 DEF IndInv, QueueFate, Made
  <2> QED BY <2>3, <2>4, <2>5, <2>6, <2>7, <2>8 DEF IndInv
<1>10. ASSUME NEW c \in {Sender, Nil}, SenderReply(c) PROVE IndInv'
  <2>1. /\ UNCHANGED <<sender, tasks, pos, kind, state, wakeup, sent, generation, gen>>
        /\ queue = "asking" /\ queue' = "running" /\ q_sender' = c /\ slice' = "confirm"
    BY <1>10 DEF SenderReply, Publish, history
  <2>2. Base' = Base /\ Done' = Done BY <2>1 DEF Base, Done
  <2>3. TypeOK' BY <2>1 DEF IndInv, TypeOK
  <2>4. QueueShape' /\ SentBefore' /\ SentInOrder'
    BY <2>1, <2>2 DEF IndInv, QueueShape, SentBefore, SentInOrder
  <2>5. GenFits' BY <2>1, <2>2 DEF IndInv, GenFits
  <2>6. OneTurn' BY <1>r, <2>1, <2>2 DEF IndInv, OneTurn
  <2>7. Fates'
    <3>1. pos = 0 BY <2>1 DEF IndInv, QueueShape
    <3>2. Done = 0 BY <1>n, <3>1
    <3>3. \A i \in Op : i > Base /\ i <= Len(kind) => state[i] = "queued" /\ ~(i <= Base + Done)
      BY <1>n, <3>2 DEF IndInv, Fates, Op
    <3> QED BY <2>1, <2>2, <3>3 DEF Fates
  <2>8. QueueFate' BY <2>1 DEF IndInv, QueueFate, Made
  <2> QED BY <2>3, <2>4, <2>5, <2>6, <2>7, <2>8 DEF IndInv
<1>11. CASE RunPush
  <2>1. slice = "confirm" /\ pos < Len(tasks) BY <1>11 DEF RunPush
  <2>2. tasks[pos + 1] = Base + (pos + 1) BY <1>n, <2>1 DEF IndInv, QueueShape
  <2>3. Done = pos BY <1>r, <2>1 DEF Done
  <2>4. PICK i : i = tasks[pos + 1] OBVIOUS
  <2>5. i = Base + Done + 1 /\ i <= Len(kind) BY <1>n, <2>1, <2>2, <2>3, <2>4
  <2>6. /\ UNCHANGED <<sender, queue, tasks, q_sender, kind, generation, gen>>
        /\ wakeup' = wakeup /\ slice' = slice /\ pos' = Done + 1
    BY <1>11, <2>3 DEF RunPush, history
  <2>7. Settles(i, IF q_sender = Nil THEN "dropped" ELSE "sent")
    BY <1>11, <2>4 DEF RunPush, Settles
  <2>8. wakeup' \cap Op = {} /\ queue = "running" /\ Confirm \notin wakeup'
        /\ slice' \in {"idle", "confirm", "drain"}
    BY <1>r, <2>1, <2>6
  <2>9. wakeup' \in SUBSET (Op \cup {Confirm, Other}) BY <1>t, <2>6
  <2> QED BY <2>5, <2>6, <2>7, <2>8, <2>9, SettleStep
<1>12. CASE RunCall
  <2>1. slice = "confirm" /\ pos < Len(tasks) BY <1>12 DEF RunCall
  <2>2. tasks[pos + 1] = Base + (pos + 1) BY <1>n, <2>1 DEF IndInv, QueueShape
  <2>3. Done = pos BY <1>r, <2>1 DEF Done
  <2>4. PICK i : i = tasks[pos + 1] OBVIOUS
  <2>5. /\ UNCHANGED <<sender, queue, tasks, q_sender, kind, state, sent, generation, gen>>
        /\ wakeup' = wakeup \cup {i} /\ slice' \in {"idle", "drain"} /\ pos' = pos + 1
    BY <1>0, <1>12, <2>4 DEF RunCall, history
  <2>6. i \in Op BY <1>n, <2>1, <2>4, ElementOfSeq DEF IndInv, TypeOK
  <2>7. wakeup' \cap Op = {i} BY <1>r, <2>1, <2>5, <2>6
  <2>8. Base' = Base /\ Done' = Done BY <1>n, <2>3, <2>5, <2>7 DEF Base, Done
  <2>9. TypeOK' BY <1>n, <1>t, <2>1, <2>5, <2>6 DEF IndInv, TypeOK
  <2>10. QueueShape' BY <1>r, <2>1, <2>5, <2>8 DEF IndInv, QueueShape
  <2>11. OneTurn'
    <3>1. Confirm \notin wakeup' BY <1>n, <1>r, <2>1, <2>5, <2>6
    <3> QED BY <1>n, <2>2, <2>4, <2>5, <2>7, <2>8, <3>1 DEF OneTurn
  <2>12. SentBefore' /\ SentInOrder' BY <2>5, <2>8 DEF IndInv, SentBefore, SentInOrder
  <2>13. GenFits' /\ Fates' BY <2>5, <2>8 DEF IndInv, GenFits, Fates
  <2>14. QueueFate' BY <2>5 DEF IndInv, QueueFate, Made
  <2> QED BY <2>9, <2>10, <2>11, <2>12, <2>13, <2>14 DEF IndInv
<1>13. CASE QueueDone
  <2>1. /\ slice = "confirm" /\ pos = Len(tasks) /\ slice' \in {"idle", "drain"}
        /\ queue' = "none" /\ tasks' = <<>> /\ pos' = 0 /\ q_sender' = Nil /\ sender' = q_sender
        /\ UNCHANGED <<kind, state, wakeup, sent, generation, gen>>
    BY <1>0, <1>13 DEF QueueDone, Drop, history
  <2>2. Len(tasks') = 0 /\ tasks' \in Seq(Op) BY <2>1, EmptySeq
  <2>3. Done = pos /\ Done' = 0 BY <1>r, <2>1 DEF Done
  <2>4. Base' = Len(kind) BY <1>n, <2>1, <2>2 DEF Base
  <2>5. TypeOK' BY <2>1, <2>2 DEF IndInv, TypeOK
  <2>6. QueueShape' BY <1>n, <2>1, <2>2 DEF QueueShape
  <2>7. OneTurn' BY <1>r, <2>1 DEF OneTurn
  <2>8. SentBefore'
    <3>1. Base' + Done' = Base + Done BY <1>n, <2>1, <2>3, <2>4
    <3> QED BY <2>1, <3>1 DEF IndInv, SentBefore
  <2>9. SentInOrder' BY <2>1 DEF IndInv, SentInOrder
  <2>10. GenFits' BY <2>1 DEF IndInv, GenFits
  <2>11. Fates' BY <1>n, <2>1, <2>4 DEF Fates, Op
  <2>12. QueueFate' BY <2>1 DEF IndInv, QueueFate, Made
  <2> QED BY <2>5, <2>6, <2>7, <2>8, <2>9, <2>10, <2>11, <2>12 DEF IndInv
<1>14. ASSUME NEW i \in Op, ResumeCall(i) PROVE IndInv'
  <2>1. /\ i \in wakeup /\ wakeup' = (wakeup \ {i}) \cup {Confirm}
        /\ UNCHANGED <<sender, queue, tasks, pos, q_sender, kind, generation, gen>>
    BY <1>14 DEF ResumeCall, WakeConfirm, queues, history
  <2>2. pos >= 1 /\ i = Base + pos /\ \A j \in wakeup \cap Op : j = i
    BY <2>1 DEF IndInv, OneTurn
  <2>3. Done = pos - 1 BY <2>1 DEF Done
  <2>4. i = Base + Done + 1 /\ i <= Len(kind) /\ pos' = Done + 1
    BY <1>n, <2>1, <2>2, <2>3
  <2>5. wakeup' \cap Op = {} BY <1>n, <2>1, <2>2
  <2>6. wakeup' \in SUBSET (Op \cup {Confirm, Other}) BY <1>t, <2>1
  <2>7. slice' \in {"idle", "confirm", "drain"} /\ slice' # "confirm"
    BY <1>0, <1>14 DEF ResumeCall, Throw
  <2>8. Settles(i, IF q_sender = Nil THEN "failed" ELSE "sent")
    BY <1>14 DEF ResumeCall, Settles, Granted
  <2>9. queue = "running" BY <1>r, <2>1
  <2>10. UNCHANGED <<sender, queue, tasks, q_sender, kind, generation, gen>> BY <2>1
  <2> QED BY <2>4, <2>5, <2>6, <2>7, <2>8, <2>9, <2>10, SettleStep
<1>15. CASE UNCHANGED vars
  <2>1. /\ UNCHANGED <<sender, queues, kind, state, sent, history>>
        /\ wakeup' = wakeup /\ slice' = slice
    BY <1>15 DEF vars
  <2>2. slice' \in {"idle", "handler", "other", "confirm", "drain"} BY <2>1 DEF IndInv, TypeOK
  <2> QED BY <1>t, <1>r, <2>1, <2>2, SchedulerStep
<1> QED BY <1>1, <1>2, <1>3, <1>4, <1>6, <1>7, <1>8, <1>9, <1>10, <1>11, <1>12, <1>13, <1>14, <1>15
        DEF Next, Service, Answered

\* The inductive invariant holds of the client library at all times.
THEOREM IndInvHolds == Spec => []IndInv
BY InitInd, StepInd, PTL DEF Spec

\* cluster.call and cluster.send reach the sender service in the order the service made
\* them and none of them twice: over queues that find no sender, new queues, and the
\* change to the direct path, and whatever raises in between.
THEOREM SentInOrderHolds == Spec => []SentInOrder
<1>1. IndInv => SentInOrder BY DEF IndInv
<1> QED BY <1>1, IndInvHolds, PTL

\* request_sender gives all the operations of a queue to the sender or none of them.
THEOREM QueueFateHolds == Spec => []QueueFate
<1>1. IndInv => QueueFate BY DEF IndInv
<1> QED BY <1>1, IndInvHolds, PTL
=============================================================================
