------------------------------ MODULE BeeCluster ------------------------------
(***************************************************************************)
(* The client library bee_cluster.lua inside one service, for one remote   *)
(* node: cluster.call, cluster.query and cluster.send, the task queue that *)
(* holds them until clusterd has named the sender service, and the         *)
(* coroutine request_sender that runs the queue.                           *)
(*                                                                         *)
(* Operations are numbered in the order the service makes them. The number *)
(* of a call also stands for the coroutine that makes it, 0 for the        *)
(* coroutine of request_sender (q.confirm), and Other for a coroutine of   *)
(* the service's own that a handler wakes with skynet.wakeup.              *)
(***************************************************************************)
EXTENDS Naturals, Sequences

CONSTANTS
    MaxOps,  \* bound: operations made
    Sender,  \* the handle of the sender service of the node
    Nil

ASSUME ConstAssumption == MaxOps \in Nat \ {0} /\ Sender # Nil

Op == 1..MaxOps
Confirm == 0
Other == MaxOps + 1

VARIABLES
    sender,          \* sender[node]
    queue,           \* task_queue[node]: "none", or how far request_sender is
    tasks, pos,      \* its array part, and the task the loop has reached
    q_sender,        \* its field sender
    kind, state,     \* the operations made, and what became of each
    wakeup, slice,   \* the scheduler: woken coroutines, and what runs now
    sent,            \* history: operations in the order they went to the sender
    generation, gen  \* history: queues made, and the queue of an operation

queues == <<queue, tasks, pos, q_sender>>
history == <<generation, gen>>
vars == <<sender, queues, kind, state, wakeup, slice, sent, history>>

Made == 1..Len(kind)
Settled == {"sent", "replied", "dropped", "failed"}

\* The queue, the sender and the operations of the client library have their types.
TypeOK ==
    /\ sender \in {Sender, Nil}
    /\ queue \in {"none", "forked", "asking", "running"}
    /\ tasks \in Seq(Op) /\ pos \in 0..Len(tasks)
    /\ q_sender \in {Sender, Nil}
    /\ kind \in Seq({"push", "call"}) /\ Len(kind) <= MaxOps
    /\ state \in [Op -> {"none", "queued"} \cup Settled]
    /\ wakeup \in SUBSET (Op \cup {Confirm, Other})
    /\ slice \in {"idle", "handler", "other", "confirm", "drain"}
    /\ sent \in Seq(Op)
    /\ generation \in 0..MaxOps
    /\ gen \in [Op -> 0..MaxOps]

Init ==
    /\ sender = Nil
    /\ queue = "none" /\ tasks = <<>> /\ pos = 0 /\ q_sender = Nil
    /\ kind = <<>> /\ state = [i \in Op |-> "none"]
    /\ wakeup = {} /\ slice = "idle"
    /\ sent = <<>>
    /\ generation = 0 /\ gen = [i \in Op |-> 0]

-----------------------------------------------------------------------------
(***************************************************************************)
(* The scheduler: a slice that ends in a yield or a return hands over to   *)
(* the woken coroutines; one that raises leaves them for a later slice.    *)
(***************************************************************************)

EndSlice == slice' = IF wakeup' = {} THEN "idle" ELSE "drain"
Throw == slice' = "idle"

\* A message is taken when the last one and the coroutines it forked are done.
MessageReady == slice = "idle" /\ queue # "forked"

Message ==
    /\ MessageReady
    /\ slice' = "handler"
    /\ UNCHANGED <<sender, queues, kind, state, wakeup, sent, history>>

\* The service's own code runs.
Handling == slice \in {"handler", "other"}

HandlerReturns ==
    /\ Handling
    /\ UNCHANGED <<sender, queues, kind, state, wakeup, sent, history>>
    /\ EndSlice

HandlerRaises ==
    /\ Handling
    /\ Throw
    /\ UNCHANGED <<sender, queues, kind, state, wakeup, sent, history>>

\* A handler wakes another coroutine of the service (bound: one per message).
WakeOther ==
    /\ slice = "handler"
    /\ Other \notin wakeup
    /\ wakeup' = wakeup \cup {Other}
    /\ UNCHANGED <<sender, queues, kind, state, slice, sent, history>>

ResumeOther ==
    /\ slice = "drain"
    /\ Other \in wakeup
    /\ wakeup' = wakeup \ {Other}
    /\ slice' = "other"
    /\ UNCHANGED <<sender, queues, kind, state, sent, history>>

-----------------------------------------------------------------------------
(***************************************************************************)
(* cluster.send, cluster.call, cluster.query                               *)
(***************************************************************************)

New == Len(kind) + 1

\* table.insert(task_queue[node], ...), where a missing queue is made by
\* get_queue, which forks request_sender.
Enqueue ==
    /\ tasks' = Append(tasks, New)
    /\ queue' = IF queue = "none" THEN "forked" ELSE queue
    /\ generation' = IF queue = "none" THEN generation + 1 ELSE generation
    /\ gen' = [gen EXCEPT ![New] = generation']
    /\ UNCHANGED <<pos, q_sender>>

Make(k) ==
    /\ Handling
    /\ New <= MaxOps
    /\ kind' = Append(kind, k)
    /\ \/ /\ sender # Nil
          /\ state' = [state EXCEPT ![New] = "sent"]
          /\ sent' = Append(sent, New)
          /\ UNCHANGED <<queues, history>>
       \/ /\ sender = Nil
          /\ state' = [state EXCEPT ![New] = "queued"]
          /\ Enqueue
          /\ UNCHANGED sent
    /\ UNCHANGED <<sender, wakeup>>

\* cluster.send goes on in the same slice.
send == Make("push") /\ UNCHANGED slice

\* cluster.call and cluster.query wait: for the sender, or for its answer.
call == Make("call") /\ EndSlice

\* The answer to a call: its coroutine goes on.
CallReply(i) ==
    /\ MessageReady
    /\ i \in Made /\ kind[i] = "call" /\ state[i] = "sent"
    /\ state' = [state EXCEPT ![i] = "replied"]
    /\ slice' = "handler"
    /\ UNCHANGED <<sender, queues, kind, wakeup, sent, history>>

-----------------------------------------------------------------------------
(***************************************************************************)
(* request_sender                                                          *)
(***************************************************************************)

\* The forked coroutine asks clusterd for the sender.
RequestSender ==
    /\ slice = "idle"
    /\ queue = "forked"
    /\ queue' = "asking"
    /\ UNCHANGED <<sender, tasks, pos, q_sender, kind, state, wakeup, sent, history>>
    /\ EndSlice

\* The answer; an error of clusterd and a node without sender both give nil.
Publish_Early(c) == sender' = c
Publish(c) == UNCHANGED sender

SenderReply(c) ==
    /\ MessageReady
    /\ queue = "asking"
    /\ queue' = "running"
    /\ q_sender' = c
    /\ Publish(c)
    /\ slice' = "confirm"
    /\ UNCHANGED <<tasks, pos, kind, state, wakeup, sent, history>>

\* A push in the queue is sent, or dropped without a sender.
RunPush ==
    LET i == tasks[pos + 1] IN
    /\ slice = "confirm"
    /\ pos < Len(tasks) /\ kind[i] = "push"
    /\ pos' = pos + 1
    /\ state' = [state EXCEPT ![i] = IF q_sender = Nil THEN "dropped" ELSE "sent"]
    /\ sent' = IF q_sender = Nil THEN sent ELSE Append(sent, i)
    /\ UNCHANGED <<sender, queue, tasks, q_sender, kind, wakeup, slice, history>>

\* A call in the queue is woken, and request_sender waits until it has run.
RunCall ==
    LET i == tasks[pos + 1] IN
    /\ slice = "confirm"
    /\ pos < Len(tasks) /\ kind[i] = "call"
    /\ pos' = pos + 1
    /\ wakeup' = wakeup \cup {i}
    /\ EndSlice
    /\ UNCHANGED <<sender, queue, tasks, q_sender, kind, state, sent, history>>

\* The end of the queue: later operations go to the sender directly, or make
\* a new queue if there is none.
Drop == queue' = "none" /\ tasks' = <<>> /\ pos' = 0 /\ q_sender' = Nil

QueueDone ==
    /\ slice = "confirm"
    /\ pos = Len(tasks)
    /\ Drop
    /\ sender' = q_sender
    /\ UNCHANGED <<kind, state, wakeup, sent, history>>
    /\ EndSlice

\* get_sender after its wait: request_sender is woken.
WakeConfirm_Forgotten(i) == wakeup' = wakeup \ {i}
WakeConfirm(i) == wakeup' = (wakeup \ {i}) \cup {Confirm}

\* The sender a woken call gets.
Granted_Cached == sender
Granted == q_sender

\* A woken call: the request goes out, or skynet.call(nil) raises.
ResumeCall(i) ==
    /\ slice = "drain"
    /\ i \in wakeup
    /\ WakeConfirm(i)
    /\ \/ /\ Granted # Nil
          /\ state' = [state EXCEPT ![i] = "sent"]
          /\ sent' = Append(sent, i)
          /\ EndSlice
       \/ /\ Granted = Nil
          /\ state' = [state EXCEPT ![i] = "failed"]
          /\ UNCHANGED sent
          /\ Throw
    /\ UNCHANGED <<sender, queues, kind, history>>

ResumeConfirm ==
    /\ slice = "drain"
    /\ Confirm \in wakeup
    /\ wakeup' = wakeup \ {Confirm}
    /\ slice' = "confirm"
    /\ UNCHANGED <<sender, queues, kind, state, sent, history>>

-----------------------------------------------------------------------------
\* clusterd answers, and the answer is taken from the message queue in turn.
Answered == \E c \in {Sender, Nil} : SenderReply(c)

\* The steps the service owes once a message has come in.
Service ==
    \/ HandlerReturns \/ HandlerRaises
    \/ RequestSender
    \/ RunPush \/ RunCall \/ QueueDone
    \/ \E i \in Op : ResumeCall(i)
    \/ ResumeConfirm \/ ResumeOther

Next ==
    \/ Message \/ WakeOther
    \/ send \/ call
    \/ \E i \in Op : CallReply(i)
    \/ Answered
    \/ Service

Spec == Init /\ [][Next]_vars

\* A slice comes to its end and clusterd answers; no other message need come.
FairSpec == Spec /\ WF_vars(Service) /\ SF_vars(Answered)

-----------------------------------------------------------------------------
(***************************************************************************)
(* Properties                                                              *)
(***************************************************************************)

\* What reaches the sender is in the order the service called cluster.call and
\* cluster.send, and nothing goes twice, also while request_sender works off
\* the queue and when the direct path takes over.
SentInOrder == \A i, j \in 1..Len(sent) : i < j => sent[i] < sent[j]

\* The operations of one queue share one fate: all of them go to the sender or
\* none does, a call and the pushes around it alike.
QueueFate ==
    \A i, j \in Made :
        /\ gen[i] # 0 /\ gen[i] = gen[j]
        /\ state[i] \in {"dropped", "failed"}
        => state[j] \notin {"sent", "replied"}

\* Woken coroutines are waiting: a slice ended in an error before they were all
\* resumed.
Stalled == wakeup # {}

\* Every operation is settled: sent, or refused because clusterd had no sender.
\* The one exception is a service that after an error never again handles a
\* message without one (it may get none).
OpsSettle ==
    \A i \in Op : (<>[]Stalled) \/ (state[i] = "queued" ~> state[i] \in Settled)
=============================================================================
