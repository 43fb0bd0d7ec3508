-------------------------- MODULE BeeClusterdProofs --------------------------
(***************************************************************************)
(* TLAPS proofs about BeeClusterd, for any number of nodes, coroutines,    *)
(* services and addresses.                                                 *)
(***************************************************************************)
EXTENDS BeeClusterd, TLAPS

\* The coroutine in a running state is the one the scheduler runs, and the
\* scheduler resumes woken coroutines only when none is running.
RunningInv ==
    /\ \A co \in Co : pc[co] \in RunningPc <=> running = co
    /\ draining => running = Nil

\* The scheduler only holds wake-ups of coroutines that sleep.
WakeupInv == \A co \in wakeup : pc[co] \in AsleepPc

\* The array part of connecting[n] lists waiters for n, and there is a table.
WaitingInv ==
    \A n \in Node : \A co \in waiting[n] :
        pc[co] = "wait" /\ node[co] = n /\ connecting[n]

\* What an opener knows between its yields: it launches a sender for an
\* address, and it calls the sender of the node.
OpenInv ==
    \A co \in Co :
        /\ pc[co] = "launch" => address[co] \in Address
        /\ pc[co] \in {"call", "reply"} => node_sender[node[co]] # Nil

IndInv ==
    /\ TypeOK
    /\ RunningInv
    /\ WakeupInv
    /\ WaitingInv
    /\ SingleOpener
    /\ NoLostWaiter
    /\ OneSender
    /\ OpenInv

USE ConstAssumption DEF ConstAssumption, config, sched, table, senders, services, locals

\* The service starts with no coroutine, no table and no sender.
LEMMA InitIndInv == Init => IndInv
  <1> SUFFICES ASSUME Init PROVE IndInv
    OBVIOUS
  <1>1. TypeOK
    <2>1. node \in [Co -> Node]
      BY DEF Init
    <2> QED
      BY <2>1 DEF Init, TypeOK, Pc, OpenerPc, Channel, AddressOrOff
  <1>2. RunningInv /\ WakeupInv /\ WaitingInv
    BY DEF Init, RunningInv, WakeupInv, WaitingInv, RunningPc
  <1>3. SingleOpener /\ NoLostWaiter /\ OneSender /\ OpenInv
    BY DEF Init, OpenInv, SingleOpener, NoLostWaiter, OneSender, OpenerPc
  <1> QED
    BY <1>1, <1>2, <1>3 DEF IndInv

\* The invariant is kept by SenderRequest.
LEMMA SenderRequestStep ==
    ASSUME IndInv, NEW co \in Client, NEW n \in Node, SenderRequest(co, n)
    PROVE  IndInv'
  <1>1. TypeOK'
    <2> USE DEF IndInv, TypeOK, SenderRequest, Continue
    <2>1. running' \in Co \cup {Nil} /\ draining' \in BOOLEAN
      BY DEF Yield, Co
    <2>2. pc' \in [Co -> Pc]
      BY DEF Pc, OpenerPc
    <2>3. ret' \in [Co -> Service \cup {Nil, Err, Pending}]
      BY DEF Answer
    <2>4. node' \in [Co -> Node]
      BY DEF Co
    <2> QED
      BY <2>1, <2>2, <2>3, <2>4
  <1>2. RunningInv'
    BY DEF RunningInv, RunningPc, TypeOK, AsleepPc, WakeupInv, Pc, OpenerPc, SenderRequest,
       Answer, Yield, Continue, MessageReady, Idle, IndInv
  <1>3. WakeupInv'
    BY DEF WakeupInv, AsleepPc, TypeOK, WaitingInv, SenderRequest, Answer, Yield, Continue,
       MessageReady, Idle, IndInv
  <1>4. WaitingInv'
    BY DEF WaitingInv, TypeOK, RunningInv, RunningPc, WakeupInv, AsleepPc, NoLostWaiter,
       SingleOpener, OpenerPc, SenderRequest, Answer, Yield, Continue, MessageReady, Idle,
       IndInv
  <1>5. SingleOpener'
    BY DEF SingleOpener, OpenerPc, TypeOK, Pc, RunningInv, WaitingInv, WakeupInv, AsleepPc,
       SenderRequest, Answer, Yield, Continue, MessageReady, Idle, IndInv
  <1>6. NoLostWaiter'
    BY DEF NoLostWaiter, TypeOK, OpenerPc, SingleOpener, WaitingInv, WakeupInv, AsleepPc,
       SenderRequest, Answer, Yield, Continue, MessageReady, Idle, IndInv
  <1>7. OneSender'
    BY DEF OneSender, TypeOK, SenderRequest, Answer, Yield, Continue, MessageReady, Idle,
       IndInv
  <1>8. OpenInv'
    BY DEF OpenInv, TypeOK, Co, IndInv, SenderRequest
  <1> QED
    BY <1>1, <1>2, <1>3, <1>4, <1>5, <1>6, <1>7, <1>8 DEF IndInv

\* The invariant is kept by SendersRequest.
LEMMA SendersRequestStep ==
    ASSUME IndInv, SendersRequest
    PROVE  IndInv'
  <1>1. TypeOK'
    BY DEF TypeOK, Pc, OpenerPc, Channel, AddressOrOff, SendersRequest, Yield, MessageReady,
       Idle, IndInv
  <1>2. RunningInv'
    BY DEF RunningInv, RunningPc, TypeOK, AsleepPc, WakeupInv, Pc, OpenerPc, SendersRequest,
       Yield, MessageReady, Idle, IndInv
  <1>3. WakeupInv'
    BY DEF WakeupInv, AsleepPc, TypeOK, WaitingInv, SendersRequest, Yield, MessageReady,
       Idle, IndInv
  <1>4. WaitingInv'
    BY DEF WaitingInv, TypeOK, RunningInv, RunningPc, WakeupInv, AsleepPc, NoLostWaiter,
       SingleOpener, OpenerPc, SendersRequest, Yield, MessageReady, Idle, IndInv
  <1>5. SingleOpener'
    BY DEF SingleOpener, OpenerPc, TypeOK, Pc, RunningInv, WaitingInv, WakeupInv, AsleepPc,
       SendersRequest, Yield, MessageReady, Idle, IndInv
  <1>6. NoLostWaiter'
    BY DEF NoLostWaiter, TypeOK, OpenerPc, SingleOpener, WaitingInv, WakeupInv, AsleepPc,
       SendersRequest, Yield, MessageReady, Idle, IndInv
  <1>7. OneSender'
    BY DEF OneSender, TypeOK, SendersRequest, Yield, MessageReady, Idle, IndInv
  <1>8. OpenInv'
    BY DEF OpenInv, TypeOK, Co, IndInv, SendersRequest
  <1> QED
    BY <1>1, <1>2, <1>3, <1>4, <1>5, <1>6, <1>7, <1>8 DEF IndInv

\* The invariant is kept by Enter.
LEMMA EnterStep ==
    ASSUME IndInv, NEW co \in Co, Enter(co)
    PROVE  IndInv'
  <1>1. TypeOK'
    <2> USE DEF IndInv, TypeOK, Enter, Busy, Continue
    <2>1. running' \in Co \cup {Nil} /\ draining' \in BOOLEAN
      BY DEF Yield
    <2>2. pc' \in [Co -> Pc]
      BY DEF Pc, OpenerPc
    <2>3. connecting' \in [Node -> BOOLEAN]
      OBVIOUS
    <2>4. waiting' \in [Node -> SUBSET Co]
      OBVIOUS
    <2>5. namequery' \in [Node -> Co \cup {Nil}]
      OBVIOUS
    <2>6. address' \in [Co -> AddressOrOff \cup {Nil}]
      OBVIOUS
    <2> QED
      BY <2>1, <2>2, <2>3, <2>4, <2>5, <2>6
  <1>2. RunningInv'
    BY DEF RunningInv, RunningPc, TypeOK, AsleepPc, WakeupInv, Pc, OpenerPc, Enter, Busy,
       Yield, Continue, IndInv
  <1>3. WakeupInv'
    BY DEF WakeupInv, AsleepPc, TypeOK, WaitingInv, Enter, Busy, Yield, Continue, IndInv
  <1>4. WaitingInv'
    <2> USE DEF IndInv, TypeOK, Enter, Busy
    <2>1. CASE connecting[node[co]]
      BY <2>1 DEF WaitingInv, OpenerPc
    <2>2. CASE ~connecting[node[co]]
      <3>1. waiting' = waiting /\ node' = node
        BY <2>2
      <3>2. connecting' = [connecting EXCEPT ![node[co]] = TRUE]
        BY <2>2
      <3>3. \A c \in Co \ {co} : pc'[c] = pc[c]
        BY <2>2
      <3>4. \A n \in Node : co \notin waiting[n]
        BY DEF WaitingInv
      <3> QED
        BY <3>1, <3>2, <3>3, <3>4 DEF WaitingInv
    <2> QED
      BY <2>1, <2>2
  <1>5. SingleOpener'
    <2> USE DEF IndInv, TypeOK, Enter, Busy
    <2>1. CASE connecting[node[co]]
      BY <2>1 DEF SingleOpener, OpenerPc
    <2>2. CASE ~connecting[node[co]]
      <3>1. \A c \in Co : pc[c] \in OpenerPc => node[c] # node[co]
        BY <2>2 DEF SingleOpener
      <3>2. connecting' = [connecting EXCEPT ![node[co]] = TRUE] /\ node' = node
        BY <2>2
      <3>3. \A c \in Co \ {co} : pc'[c] = pc[c]
        BY <2>2
      <3> QED
        BY <3>1, <3>2, <3>3 DEF SingleOpener
    <2> QED
      BY <2>1, <2>2
  <1>6. NoLostWaiter'
    BY DEF NoLostWaiter, TypeOK, OpenerPc, SingleOpener, WaitingInv, WakeupInv, AsleepPc,
       Enter, Busy, Yield, Continue, IndInv
  <1>7. OneSender'
    BY DEF OneSender, TypeOK, Enter, Busy, Yield, Continue, IndInv
  <1>8. OpenInv'
    BY DEF OpenInv, TypeOK, Co, IndInv, Enter, Busy
  <1> QED
    BY <1>1, <1>2, <1>3, <1>4, <1>5, <1>6, <1>7, <1>8 DEF IndInv

\* The invariant is kept by Open.
LEMMA OpenStep ==
    ASSUME IndInv, NEW co \in Co, Open(co)
    PROVE  IndInv'
  <1>1. TypeOK'
    BY ZenonT(40) DEF TypeOK, Pc, OpenerPc, Channel, AddressOrOff, Open, IsString, Yield, Continue,
       IndInv
  <1>2. RunningInv'
    BY DEF RunningInv, RunningPc, TypeOK, AsleepPc, WakeupInv, Pc, OpenerPc, Open, IsString,
       Yield, Continue, IndInv
  <1>3. WakeupInv'
    BY DEF WakeupInv, AsleepPc, TypeOK, WaitingInv, Open, IsString, Yield, Continue, IndInv
  <1>4. WaitingInv'
    BY DEF WaitingInv, TypeOK, RunningInv, RunningPc, WakeupInv, AsleepPc, NoLostWaiter,
       SingleOpener, OpenerPc, Open, IsString, Yield, Continue, IndInv
  <1>5. SingleOpener'
    <2>1. pc[co] \in OpenerPc /\ connecting' = connecting /\ node' = node
      BY DEF OpenerPc, Open
    <2>2. \A c \in Co \ {co} : pc'[c] = pc[c]
      BY DEF IndInv, TypeOK, Open
    <2> QED
      BY <2>1, <2>2 DEF SingleOpener, IndInv
  <1>6. NoLostWaiter'
    BY DEF NoLostWaiter, TypeOK, OpenerPc, SingleOpener, WaitingInv, WakeupInv, AsleepPc,
       Open, IsString, Yield, Continue, IndInv
  <1>7. OneSender'
    BY DEF OneSender, TypeOK, Open, IsString, Yield, Continue, IndInv
  <1>8. OpenInv'
    BY DEF OpenInv, TypeOK, Co, IndInv, Open, IsString
  <1> QED
    BY <1>1, <1>2, <1>3, <1>4, <1>5, <1>6, <1>7, <1>8 DEF IndInv

\* The invariant is kept by LaunchReply.
LEMMA LaunchReplyStep ==
    ASSUME IndInv, NEW co \in Co, NEW s \in Service, LaunchReply(co, s)
    PROVE  IndInv'
  <1>1. TypeOK'
    <2> USE DEF IndInv, TypeOK, LaunchReply, KeepSender
    <2>1. running' \in Co \cup {Nil} /\ draining' \in BOOLEAN
      BY DEF Yield
    <2>2. pc' \in [Co -> Pc]
      BY DEF Pc, OpenerPc
    <2>3. node_sender' \in [Node -> Service \cup {Nil}]
      OBVIOUS
    <2>4. svc' \in [Service -> Node \cup {Nil}]
      OBVIOUS
    <2>5. chan' \in [Service -> Channel]
      <3>1. [host |-> address[co], closed |-> FALSE] \in Channel
        BY DEF Channel, OpenInv
      <3>2. \/ chan' = chan
            \/ chan' = [chan EXCEPT ![s] = [host |-> address[co], closed |-> FALSE]]
        OBVIOUS
      <3>3. CASE chan' = chan
        BY <3>3
      <3>4. CASE chan' = [chan EXCEPT ![s] = [host |-> address[co], closed |-> FALSE]]
        <4> HIDE DEF LaunchReply, IndInv
        <4>1. chan \in [Service -> Channel]
          BY DEF IndInv
        <4> QED
          BY <3>1, <3>4, <4>1
      <3> QED
        BY <3>2, <3>3, <3>4
    <2> QED
      BY <2>1, <2>2, <2>3, <2>4, <2>5
  <1>2. RunningInv'
    BY DEF RunningInv, RunningPc, TypeOK, AsleepPc, WakeupInv, Pc, OpenerPc, LaunchReply,
       KeepSender, Yield, MessageReady, Idle, IndInv
  <1>3. WakeupInv'
    BY DEF WakeupInv, AsleepPc, TypeOK, WaitingInv, LaunchReply, KeepSender, Yield,
       MessageReady, Idle, IndInv
  <1>4. WaitingInv'
    BY DEF WaitingInv, TypeOK, RunningInv, RunningPc, WakeupInv, AsleepPc, NoLostWaiter,
       SingleOpener, OpenerPc, LaunchReply, KeepSender, Yield, MessageReady, Idle, IndInv
  <1>5. SingleOpener'
    BY DEF SingleOpener, OpenerPc, TypeOK, Pc, RunningInv, WaitingInv, WakeupInv, AsleepPc,
       LaunchReply, KeepSender, Yield, MessageReady, Idle, IndInv
  <1>6. NoLostWaiter'
    BY DEF NoLostWaiter, TypeOK, OpenerPc, SingleOpener, WaitingInv, WakeupInv, AsleepPc,
       LaunchReply, KeepSender, Yield, MessageReady, Idle, IndInv
  <1>7. OneSender'
    BY DEF OneSender, TypeOK, LaunchReply, KeepSender, Yield, MessageReady, Idle, IndInv
  <1>8. OpenInv'
    BY DEF OpenInv, TypeOK, Co, IndInv, LaunchReply, KeepSender
  <1> QED
    BY <1>1, <1>2, <1>3, <1>4, <1>5, <1>6, <1>7, <1>8 DEF IndInv

\* The invariant is kept by LaunchFails.
LEMMA LaunchFailsStep ==
    ASSUME IndInv, NEW co \in Co, LaunchFails(co)
    PROVE  IndInv'
  <1>1. TypeOK'
    BY DEF TypeOK, Pc, OpenerPc, Channel, AddressOrOff, LaunchFails, Answer, Throw,
       MessageReady, Idle, IndInv
  <1>2. RunningInv'
    BY DEF RunningInv, RunningPc, TypeOK, AsleepPc, WakeupInv, Pc, OpenerPc, LaunchFails,
       Answer, Throw, MessageReady, Idle, IndInv
  <1>3. WakeupInv'
    BY DEF WakeupInv, AsleepPc, TypeOK, WaitingInv, LaunchFails, Answer, Throw,
       MessageReady, Idle, IndInv
  <1>4. WaitingInv'
    BY DEF WaitingInv, TypeOK, RunningInv, RunningPc, WakeupInv, AsleepPc, NoLostWaiter,
       SingleOpener, OpenerPc, LaunchFails, Answer, Throw, MessageReady, Idle, IndInv
  <1>5. SingleOpener'
    BY DEF SingleOpener, OpenerPc, TypeOK, Pc, RunningInv, WaitingInv, WakeupInv, AsleepPc,
       LaunchFails, Answer, Throw, MessageReady, Idle, IndInv
  <1>6. NoLostWaiter'
    BY DEF NoLostWaiter, TypeOK, OpenerPc, SingleOpener, WaitingInv, WakeupInv, AsleepPc,
       LaunchFails, Answer, Throw, MessageReady, Idle, IndInv
  <1>7. OneSender'
    BY DEF OneSender, TypeOK, LaunchFails, Answer, Throw, MessageReady, Idle, IndInv
  <1>8. OpenInv'
    BY DEF OpenInv, TypeOK, Co, IndInv, LaunchFails
  <1> QED
    BY <1>1, <1>2, <1>3, <1>4, <1>5, <1>6, <1>7, <1>8 DEF IndInv

\* The invariant is kept by Changenode.
LEMMA ChangenodeStep ==
    ASSUME IndInv, NEW co \in Co, Changenode(co)
    PROVE  IndInv'
  <1>1. TypeOK'
    <2> USE DEF IndInv, TypeOK, Changenode
    <2>1. pc' \in [Co -> Pc]
      BY DEF Pc, OpenerPc
    <2>2. chan' \in [Service -> Channel]
      <3> DEFINE s == node_sender[node[co]]
      <3>1. CASE address[co] \in Address \ Malformed
        <4>1. address[co] # Nil
          BY <3>1
        <4>2. chan' = [chan EXCEPT ![s] = [host |-> address[co], closed |-> FALSE]]
          BY <3>1, <4>1
        <4>3. [host |-> address[co], closed |-> FALSE] \in Channel
          BY <3>1 DEF Channel
        <4> QED
          BY <4>2, <4>3
      <3>2. CASE address[co] \notin Address \ Malformed
        <4>1. chan' = [chan EXCEPT ![s].closed = TRUE]
          BY <3>2
        <4>2. s \in Service
          BY DEF OpenInv
        <4>3. chan[s] \in Channel
          BY <4>2
        <4>4. [chan[s] EXCEPT !.closed = TRUE] \in Channel
          BY <4>3 DEF Channel
        <4> QED
          BY <4>1, <4>2, <4>4
      <3> QED
        BY <3>1, <3>2
    <2>3. succ' \in [Co -> BOOLEAN]
      OBVIOUS
    <2> QED
      BY <2>1, <2>2, <2>3
  <1>2. RunningInv'
    BY DEF RunningInv, RunningPc, TypeOK, AsleepPc, WakeupInv, Pc, OpenerPc, Changenode,
       IndInv
  <1>3. WakeupInv'
    BY DEF WakeupInv, AsleepPc, TypeOK, WaitingInv, Changenode, IndInv
  <1>4. WaitingInv'
    BY DEF WaitingInv, TypeOK, RunningInv, RunningPc, WakeupInv, AsleepPc, NoLostWaiter,
       SingleOpener, OpenerPc, Changenode, IndInv
  <1>5. SingleOpener'
    BY DEF SingleOpener, OpenerPc, TypeOK, Pc, RunningInv, WaitingInv, WakeupInv, AsleepPc,
       Changenode, IndInv
  <1>6. NoLostWaiter'
    BY DEF NoLostWaiter, TypeOK, OpenerPc, SingleOpener, WaitingInv, WakeupInv, AsleepPc,
       Changenode, IndInv
  <1>7. OneSender'
    BY DEF OneSender, TypeOK, Changenode, IndInv
  <1>8. OpenInv'
    BY DEF OpenInv, TypeOK, Co, IndInv, Changenode
  <1> QED
    BY <1>1, <1>2, <1>3, <1>4, <1>5, <1>6, <1>7, <1>8 DEF IndInv

\* The invariant is kept by ChangenodeReply.
LEMMA ChangenodeReplyStep ==
    ASSUME IndInv, NEW co \in Co, ChangenodeReply(co)
    PROVE  IndInv'
  <1>1. TypeOK'
    <2> USE DEF IndInv, TypeOK, ChangenodeReply
    <2>1. running' \in Co \cup {Nil} /\ draining' \in BOOLEAN
      BY DEF Continue
    <2>2. pc' \in [Co -> Pc]
      BY DEF Pc, OpenerPc
    <2>3. node_channel' \in [Node -> Service \cup {Nil}]
      BY DEF IsString
    <2>4. node_sender_closed' \in [Node -> BOOLEAN]
      BY DEF IsString
    <2> QED
      BY <2>1, <2>2, <2>3, <2>4
  <1>2. RunningInv'
    BY DEF RunningInv, RunningPc, TypeOK, AsleepPc, WakeupInv, Pc, OpenerPc,
       ChangenodeReply, IsString, Continue, MessageReady, Idle, IndInv
  <1>3. WakeupInv'
    BY DEF WakeupInv, AsleepPc, TypeOK, WaitingInv, ChangenodeReply, IsString, Continue,
       MessageReady, Idle, IndInv
  <1>4. WaitingInv'
    BY DEF WaitingInv, TypeOK, RunningInv, RunningPc, WakeupInv, AsleepPc, NoLostWaiter,
       SingleOpener, OpenerPc, ChangenodeReply, IsString, Continue, MessageReady, Idle, IndInv
  <1>5. SingleOpener'
    BY DEF SingleOpener, OpenerPc, TypeOK, Pc, RunningInv, WaitingInv, WakeupInv, AsleepPc,
       ChangenodeReply, IsString, Continue, MessageReady, Idle, IndInv
  <1>6. NoLostWaiter'
    BY DEF NoLostWaiter, TypeOK, OpenerPc, SingleOpener, WaitingInv, WakeupInv, AsleepPc,
       ChangenodeReply, IsString, Continue, MessageReady, Idle, IndInv
  <1>7. OneSender'
    BY DEF OneSender, TypeOK, ChangenodeReply, IsString, Continue, MessageReady, Idle,
       IndInv
  <1>8. OpenInv'
    BY DEF OpenInv, TypeOK, Co, IndInv, ChangenodeReply
  <1> QED
    BY <1>1, <1>2, <1>3, <1>4, <1>5, <1>6, <1>7, <1>8 DEF IndInv

\* The invariant is kept by Finish.
LEMMA FinishStep ==
    ASSUME IndInv, NEW co \in Co, Finish(co)
    PROVE  IndInv'
  <1>1. TypeOK'
    <2> USE DEF IndInv, TypeOK, Finish, ReleaseWaiters
    <2>1. running' \in Co \cup {Nil} /\ draining' \in BOOLEAN
      BY DEF Yield, Throw, Continue, AddressChanged
    <2>2. pc' \in [Co -> Pc]
      BY DEF Pc, OpenerPc
    <2>3. ret' \in [Co -> Service \cup {Nil, Err, Pending}]
      BY DEF Answer
    <2>4. connecting' \in [Node -> BOOLEAN]
      OBVIOUS
    <2>5. waiting' \in [Node -> SUBSET Co]
      OBVIOUS
    <2>6. namequery' \in [Node -> Co \cup {Nil}]
      OBVIOUS
    <2>7. wakeup' \in SUBSET Co
      OBVIOUS
    <2>8. got' \in [Co -> Service \cup {Nil}]
      BY DEF IsString
    <2>9. address' \in [Co -> AddressOrOff \cup {Nil}]
      OBVIOUS
    <2>10. succ' \in [Co -> BOOLEAN]
      OBVIOUS
    <2> QED
      BY <2>1, <2>2, <2>3, <2>4, <2>5, <2>6, <2>7, <2>8, <2>9, <2>10
  <1>2. RunningInv'
    BY DEF RunningInv, RunningPc, TypeOK, AsleepPc, WakeupInv, Pc, OpenerPc, Finish,
       ReleaseWaiters, AddressChanged, IsString, Answer, Yield, Throw, Continue, IndInv
  <1>3. WakeupInv'
    BY DEF WakeupInv, AsleepPc, TypeOK, WaitingInv, Finish, ReleaseWaiters, AddressChanged,
       IsString, Answer, Yield, Throw, Continue, IndInv
  <1>4. WaitingInv'
    BY DEF WaitingInv, TypeOK, RunningInv, RunningPc, WakeupInv, AsleepPc, NoLostWaiter,
       SingleOpener, OpenerPc, Finish, ReleaseWaiters, AddressChanged, IsString, Answer, Yield,
       Throw, Continue, IndInv
  <1>5. SingleOpener'
    <2> USE DEF IndInv, TypeOK, Finish, ReleaseWaiters
    <2>1. CASE AddressChanged(co)
      BY <2>1 DEF SingleOpener, OpenerPc
    <2>2. CASE ~AddressChanged(co)
      BY <2>2 DEF SingleOpener, OpenerPc
    <2> QED
      BY <2>1, <2>2
  <1>6. NoLostWaiter'
    BY DEF NoLostWaiter, TypeOK, OpenerPc, SingleOpener, WaitingInv, WakeupInv, AsleepPc,
       Finish, ReleaseWaiters, AddressChanged, IsString, Answer, Yield, Throw, Continue, IndInv
  <1>7. OneSender'
    BY DEF OneSender, TypeOK, Finish, ReleaseWaiters, AddressChanged, IsString, Answer,
       Yield, Throw, Continue, IndInv
  <1>8. OpenInv'
    BY DEF OpenInv, TypeOK, Co, IndInv, Finish
  <1> QED
    BY <1>1, <1>2, <1>3, <1>4, <1>5, <1>6, <1>7, <1>8 DEF IndInv

\* The invariant is kept by Wake.
LEMMA WakeStep ==
    ASSUME IndInv, NEW co \in Co, Wake(co)
    PROVE  IndInv'
  <1>1. TypeOK'
    <2> USE DEF IndInv, TypeOK, Wake
    <2>1. running' \in Co \cup {Nil} /\ draining' \in BOOLEAN
      BY DEF Yield, Throw, Continue
    <2>2. pc' \in [Co -> Pc]
      BY DEF Pc, OpenerPc
    <2>3. ret' \in [Co -> Service \cup {Nil, Err, Pending}]
      BY DEF Answer
    <2>4. waiting' \in [Node -> SUBSET Co]
      OBVIOUS
    <2>5. wakeup' \in SUBSET Co
      OBVIOUS
    <2>6. got' \in [Co -> Service \cup {Nil}]
      BY DEF IsString
    <2>7. address' \in [Co -> AddressOrOff \cup {Nil}]
      OBVIOUS
    <2> QED
      BY <2>1, <2>2, <2>3, <2>4, <2>5, <2>6, <2>7
  <1>2. RunningInv'
    BY DEF RunningInv, RunningPc, TypeOK, AsleepPc, WakeupInv, Pc, OpenerPc, Wake,
       Reopening, IsString, Answer, Yield, Throw, Continue, IndInv
  <1>3. WakeupInv'
    BY DEF WakeupInv, AsleepPc, TypeOK, WaitingInv, Wake, Reopening, IsString, Answer,
       Yield, Throw, Continue, IndInv
  <1>4. WaitingInv'
    BY DEF WaitingInv, TypeOK, RunningInv, RunningPc, WakeupInv, AsleepPc, NoLostWaiter,
       SingleOpener, OpenerPc, Wake, Reopening, IsString, Answer, Yield, Throw, Continue,
       IndInv
  <1>5. SingleOpener'
    BY DEF SingleOpener, OpenerPc, TypeOK, Pc, RunningInv, WaitingInv, WakeupInv, AsleepPc,
       Wake, Reopening, IsString, Answer, Yield, Throw, Continue, IndInv
  <1>6. NoLostWaiter'
    BY DEF NoLostWaiter, TypeOK, OpenerPc, SingleOpener, WaitingInv, WakeupInv, AsleepPc,
       Wake, Reopening, IsString, Answer, Yield, Throw, Continue, IndInv
  <1>7. OneSender'
    BY DEF OneSender, TypeOK, Wake, Reopening, IsString, Answer, Yield, Throw, Continue,
       IndInv
  <1>8. OpenInv'
    BY DEF OpenInv, TypeOK, Co, IndInv, Wake
  <1> QED
    BY <1>1, <1>2, <1>3, <1>4, <1>5, <1>6, <1>7, <1>8 DEF IndInv

\* The invariant is kept by RunFork.
LEMMA RunForkStep ==
    ASSUME IndInv, NEW co \in Co, RunFork(co)
    PROVE  IndInv'
  <1>1. TypeOK'
    BY DEF TypeOK, Pc, OpenerPc, Channel, AddressOrOff, RunFork, Continue, Idle, IndInv
  <1>2. RunningInv'
    BY DEF RunningInv, RunningPc, TypeOK, AsleepPc, WakeupInv, Pc, OpenerPc, RunFork,
       Continue, Idle, IndInv
  <1>3. WakeupInv'
    BY DEF WakeupInv, AsleepPc, TypeOK, WaitingInv, RunFork, Continue, Idle, IndInv
  <1>4. WaitingInv'
    BY DEF WaitingInv, TypeOK, RunningInv, RunningPc, WakeupInv, AsleepPc, NoLostWaiter,
       SingleOpener, OpenerPc, RunFork, Continue, Idle, IndInv
  <1>5. SingleOpener'
    BY DEF SingleOpener, OpenerPc, TypeOK, Pc, RunningInv, WaitingInv, WakeupInv, AsleepPc,
       RunFork, Continue, Idle, IndInv
  <1>6. NoLostWaiter'
    BY DEF NoLostWaiter, TypeOK, OpenerPc, SingleOpener, WaitingInv, WakeupInv, AsleepPc,
       RunFork, Continue, Idle, IndInv
  <1>7. OneSender'
    BY DEF OneSender, TypeOK, RunFork, Continue, Idle, IndInv
  <1>8. OpenInv'
    BY DEF OpenInv, TypeOK, Co, IndInv, RunFork
  <1> QED
    BY <1>1, <1>2, <1>3, <1>4, <1>5, <1>6, <1>7, <1>8 DEF IndInv



\* The invariant is kept by Reload, which forks openers but lets none in.
LEMMA ReloadStep ==
  ASSUME IndInv, NEW f \in Configs, NEW early, NEW nw \in BOOLEAN, Reload(f, early, nw)
  PROVE  IndInv'
  <1>0. PICK fork \in [Reopened(f) -> {co \in Fork : pc[co] = "idle"}] :
          /\ pc' = [co \in Co |->
                       IF \E n \in Reopened(f) : fork[n] = co THEN "forked" ELSE pc[co]]
          /\ node' = [co \in Co |->
                       IF \E n \in Reopened(f) : fork[n] = co
                       THEN CHOOSE n \in Reopened(f) : fork[n] = co ELSE node[co]]
    BY DEF Reload
  <1>1. /\ DOMAIN f \subseteq Node
        /\ \A n \in DOMAIN f : f[n] \in AddressOrOff
        /\ Reopened(f) \subseteq Node
    BY DEF Configs, Reopened
  <1>2. \A co \in Co :
            \/ pc'[co] = pc[co] /\ node'[co] = node[co]
            \/ pc[co] = "idle" /\ pc'[co] = "forked" /\ node'[co] \in Node
    BY <1>0, <1>1 DEF IndInv, TypeOK
  <1>3. Woken(f, early, nw, TRUE) \subseteq {co \in Co : pc[co] \in AsleepPc}
    BY DEF Woken, Asleep
  <1> USE DEF IndInv, Reload, ApplyConfig
  <1>4. TypeOK'
    <2>1. pc' \in [Co -> Pc] /\ node' \in [Co -> Node]
      BY <1>0, <1>2 DEF TypeOK, Pc
    <2>2. node_address' \in [Node -> AddressOrOff \cup {Nil}]
      BY <1>1 DEF TypeOK
    <2>3. wakeup' \in SUBSET Co
      BY <1>3 DEF TypeOK
    <2>4. running' \in Co \cup {Nil} /\ draining' \in BOOLEAN
      BY DEF Yield
    <2> QED
      BY <2>1, <2>2, <2>3, <2>4 DEF TypeOK
  <1>5. RunningInv'
    BY <1>2 DEF RunningInv, RunningPc, MessageReady, Idle, Yield
  <1>6. WakeupInv'
    BY <1>2, <1>3 DEF WakeupInv, TypeOK, AsleepPc
  <1>7. WaitingInv'
    BY <1>2 DEF WaitingInv, TypeOK
  <1>8. SingleOpener'
    BY <1>2 DEF SingleOpener, OpenerPc
  <1>9. NoLostWaiter'
    BY <1>2 DEF NoLostWaiter
  <1>10. OneSender'
    BY DEF OneSender, TypeOK
  <1>11. OpenInv'
    BY <1>2 DEF OpenInv
  <1> QED
    BY <1>4, <1>5, <1>6, <1>7, <1>8, <1>9, <1>10, <1>11

\* The invariant is kept by ReloadFails.
LEMMA ReloadFailsStep ==
  ASSUME IndInv, NEW f \in Configs, NEW early, NEW nw \in BOOLEAN, ReloadFails(f, early, nw)
  PROVE  IndInv'
  <1>1. DOMAIN f \subseteq Node /\ \A n \in DOMAIN f : f[n] \in AddressOrOff
    BY DEF Configs
  <1>2. Woken(f, early, nw, FALSE) \subseteq {co \in Co : pc[co] \in AsleepPc}
    BY DEF Woken, Asleep
  <1> USE DEF IndInv, ReloadFails, ApplyConfig, Throw
  <1>3. TypeOK'
    BY <1>1, <1>2 DEF TypeOK
  <1>4. RunningInv' /\ WakeupInv' /\ WaitingInv'
    BY <1>2 DEF RunningInv, WakeupInv, WaitingInv, MessageReady, Idle
  <1>5. SingleOpener' /\ NoLostWaiter' /\ OpenInv'
    BY DEF SingleOpener, NoLostWaiter, OpenInv
  <1>6. OneSender'
    BY DEF OneSender, TypeOK
  <1> QED
    BY <1>3, <1>4, <1>5, <1>6

\* Every step keeps the invariant.
LEMMA NextIndInv == IndInv /\ [Next]_vars => IndInv'
  <1> SUFFICES ASSUME IndInv, [Next]_vars PROVE IndInv'
    OBVIOUS
  <1>1. ASSUME NEW co \in Co, Scheduled(co) PROVE IndInv'
    BY <1>1, EnterStep, OpenStep, FinishStep, WakeStep, RunForkStep, LaunchReplyStep,
       LaunchFailsStep, ChangenodeStep, ChangenodeReplyStep DEF Scheduled
  <1>2. ASSUME NEW co \in Client, NEW n \in Node, SenderRequest(co, n) PROVE IndInv'
    BY <1>2, SenderRequestStep
  <1>3. CASE SendersRequest
    BY <1>3, SendersRequestStep
  <1>4. ASSUME NEW f \in Configs, NEW nw \in BOOLEAN, NEW early \in SUBSET DOMAIN f,
               Reload(f, early, nw) \/ ReloadFails(f, early, nw)
        PROVE  IndInv'
    BY <1>4, ReloadStep, ReloadFailsStep
  <1>5. CASE UNCHANGED vars
    BY <1>5 DEF vars, IndInv, TypeOK, 
       RunningInv, WakeupInv, WaitingInv, SingleOpener, NoLostWaiter, OneSender, OpenInv
  <1> QED
    BY <1>1, <1>2, <1>3, <1>4, <1>5 DEF Next

\* The inductive invariant holds in every reachable state.
LEMMA IndInvHolds == Spec => []IndInv
  BY InitIndInv, NextIndInv, PTL DEF Spec

\* The state of bee_clusterd stays well typed, whatever callers, reloads and
\* senders do.
THEOREM TypeCorrect == Spec => []TypeOK
  <1>1. IndInv => TypeOK
    BY DEF IndInv
  <1> QED
    BY <1>1, IndInvHolds, PTL

\* open_channel excludes itself per node, across all its yields.
THEOREM SingleOpenerHolds == Spec => []SingleOpener
  <1>1. IndInv => SingleOpener
    BY DEF IndInv
  <1> QED
    BY <1>1, IndInvHolds, PTL

\* No node ever has two sender services.
THEOREM OneSenderHolds == Spec => []OneSender
  <1>1. IndInv => OneSender
    BY DEF IndInv
  <1> QED
    BY <1>1, IndInvHolds, PTL

\* No coroutine asleep in open_channel is forgotten.
THEOREM NoLostWaiterHolds == Spec => []NoLostWaiter
  <1>1. IndInv => NoLostWaiter
    BY DEF IndInv
  <1> QED
    BY <1>1, IndInvHolds, PTL

-----------------------------------------------------------------------------
(***************************************************************************)
(* The sender of a node follows the config.                                *)
(***************************************************************************)

\* An opener whose changenode has been answered has pointed the sender of its
\* node at the address it is opening, and nobody else has moved it since.
FollowInv ==
    \A co \in Co :
        pc[co] \in {"reply", "finish"} /\ address[co] \in WellFormed =>
            /\ node_sender[node[co]] # Nil
            /\ chan[node_sender[node[co]]] = [host |-> address[co], closed |-> FALSE]

Follow == FollowInv /\ SenderFollowsConfig

\* No node has a sender to begin with.
LEMMA InitFollow == Init => Follow
  BY DEF Init, Follow, FollowInv, SenderFollowsConfig

\* Steps of coroutines that leave the senders and their channels alone: it is
\* enough that no coroutine reaches an answered or settled state.
LEMMA FollowFrame ==
  ASSUME IndInv, Follow,
         node_sender' = node_sender, chan' = chan, node_address' = node_address,
         \A co \in Co : node'[co] = node[co] \/ pc[co] = "idle",
         \A co \in Co : pc'[co] \in {"reply", "finish"} /\ address'[co] \in WellFormed =>
                            /\ pc[co] \in {"reply", "finish"}
                            /\ address'[co] = address[co] /\ node'[co] = node[co],
         \A n \in Node : Settled(n)' => Settled(n)
  PROVE  Follow'
  <1>1. FollowInv'
    BY DEF Follow, FollowInv
  <1>2. SenderFollowsConfig'
    BY DEF Follow, SenderFollowsConfig
  <1> QED
    BY <1>1, <1>2 DEF Follow

\* Every step keeps the sender on the configured address.
LEMMA FollowStep ==
  ASSUME ~BadConfig, IndInv, Follow, Next
  PROVE  Follow'
  <1> USE DEF IndInv, TypeOK
  <1>1. ASSUME NEW co \in Client, NEW n \in Node, SenderRequest(co, n) PROVE Follow'
    BY <1>1, FollowFrame DEF SenderRequest, Settled, Co
  <1>2. CASE SendersRequest
    BY <1>2, FollowFrame DEF SendersRequest, Settled
  <1>3. ASSUME NEW co \in Co, Enter(co) PROVE Follow'
    <2>1. \A n \in Node : Settled(n)' => Settled(n)
      <3>1. connecting'[node[co]]
        BY <1>3 DEF Enter, Busy
      <3>2. \A n \in Node \ {node[co]} : connecting'[n] = connecting[n]
        BY <1>3 DEF Enter, Busy
      <3>3. node' = node /\ \A c \in Co \ {co} : pc'[c] = pc[c]
        BY <1>3 DEF Enter, Busy
      <3> QED
        BY <3>1, <3>2, <3>3 DEF Settled
    <2>2. \A c \in Co : pc'[c] \in {"reply", "finish"} =>
              pc[c] \in {"reply", "finish"} /\ address'[c] = address[c]
      BY <1>3 DEF Enter, Busy
    <2>3. node' = node
      BY <1>3 DEF Enter
    <2> QED
      BY <1>3, <2>1, <2>2, <2>3, FollowFrame DEF Enter
  <1>4. ASSUME NEW co \in Co, Open(co) PROVE Follow'
    <2>1. \A n \in Node : Settled(n)' => Settled(n)
      BY <1>4 DEF Open, Settled
    <2>2. \A c \in Co : pc'[c] \in {"reply", "finish"} /\ address'[c] \in WellFormed =>
              pc[c] \in {"reply", "finish"}
      BY <1>4 DEF Open, IsString, WellFormed
    <2> QED
      BY <1>4, <2>1, <2>2, FollowFrame DEF Open
  <1>5. ASSUME NEW co \in Co, RunFork(co) PROVE Follow'
    BY <1>5, FollowFrame DEF RunFork, Settled
  <1>6. ASSUME NEW co \in Co, LaunchFails(co) PROVE Follow'
    BY <1>6, FollowFrame DEF LaunchFails, Settled
  <1>7. ASSUME NEW co \in Co, Wake(co) PROVE Follow'
    <2>1. \A n \in Node : Settled(n)' => Settled(n)
      BY <1>7 DEF Wake, Settled
    <2>2. \A c \in Co : pc'[c] \in {"reply", "finish"} =>
              pc[c] \in {"reply", "finish"} /\ address'[c] = address[c]
      BY <1>7 DEF Wake
    <2> QED
      BY <1>7, <2>1, <2>2, FollowFrame DEF Wake
  <1>8. ASSUME NEW co \in Co, ChangenodeReply(co) PROVE Follow'
    BY <1>8, FollowFrame DEF ChangenodeReply, Settled
  <1>9. ASSUME NEW co \in Co, Finish(co) PROVE Follow'
    <2> DEFINE n == node[co]
    <2>0. /\ pc[co] = "finish" /\ connecting[n] /\ node' = node
          /\ node_sender' = node_sender /\ chan' = chan /\ node_address' = node_address
          /\ address' = [address EXCEPT ![co] = Nil]
          /\ \A c \in Co \ {co} : pc'[c] = pc[c]
          /\ \A m \in Node \ {n} : connecting'[m] = connecting[m]
      BY <1>9 DEF Finish, ReleaseWaiters, SingleOpener, OpenerPc
    <2>1. FollowInv'
      BY <2>0 DEF Follow, FollowInv, WellFormed
    <2>2. Settled(n)' => node_address[n] = address[co]
      BY <1>9, <2>0 DEF Finish, AddressChanged, Settled
    <2>3. \A m \in Node \ {n} : Settled(m)' => Settled(m)
      BY <2>0 DEF Settled
    <2>4. SenderFollowsConfig'
      BY <2>0, <2>2, <2>3 DEF Follow, FollowInv, SenderFollowsConfig
    <2> QED
      BY <2>1, <2>4 DEF Follow
  <1>10. ASSUME NEW co \in Co, Changenode(co) PROVE Follow'
    <2> DEFINE n == node[co]
               s == node_sender[n]
    <2>1. /\ pc[co] = "call" /\ s \in Service /\ connecting[n]
          /\ pc' = [pc EXCEPT ![co] = "reply"]
          /\ node_sender' = node_sender /\ node_address' = node_address
          /\ node' = node /\ address' = address /\ connecting' = connecting
          /\ \A t \in Service \ {s} : chan'[t] = chan[t]
      BY <1>10 DEF Changenode, OpenInv, SingleOpener, OpenerPc
    <2>2. address[co] \in WellFormed => chan'[s] = [host |-> address[co], closed |-> FALSE]
      BY <1>10, <2>1 DEF Changenode, WellFormed
    <2>3. \A m \in Node \ {n} : node_sender[m] # s
      BY <2>1 DEF OneSender
    <2>4. \A c \in Co \ {co} : pc[c] \in OpenerPc => node[c] # n
      BY <2>1 DEF SingleOpener, OpenerPc
    <2>5. FollowInv'
      <3> SUFFICES ASSUME NEW c \in Co, pc'[c] \in {"reply", "finish"},
                          address[c] \in WellFormed
                   PROVE  /\ node_sender[node[c]] # Nil
                          /\ chan'[node_sender[node[c]]] = [host |-> address[c], closed |->
                             FALSE]
        BY <2>1 DEF FollowInv
      <3>1. CASE c = co
        BY <2>1, <2>2, <3>1
      <3>2. CASE c # co
        <4>1. pc[c] \in {"reply", "finish"}
          BY <2>1, <3>2
        <4>2. node_sender[node[c]] # Nil
          BY <4>1 DEF Follow, FollowInv
        <4>3. node_sender[node[c]] \in Service \ {s}
          BY <2>3, <2>4, <3>2, <4>1, <4>2 DEF OpenerPc
        <4> QED
          BY <2>1, <4>1, <4>2, <4>3 DEF Follow, FollowInv
      <3> QED
        BY <3>1, <3>2
    <2>6. SenderFollowsConfig'
      BY <2>1, <2>3 DEF Follow, SenderFollowsConfig, Settled
    <2> QED
      BY <2>5, <2>6 DEF Follow
  <1>11. ASSUME NEW co \in Co, NEW s \in Service, LaunchReply(co, s) PROVE Follow'
    <2> DEFINE n == node[co]
    <2>1. /\ pc[co] = "launch" /\ connecting[n] /\ svc[s] = Nil
          /\ pc' = [pc EXCEPT ![co] = "call"]
          /\ node_address' = node_address
          /\ node' = node /\ address' = address /\ connecting' = connecting
          /\ \A m \in Node \ {n} : node_sender'[m] = node_sender[m]
          /\ \A t \in Service \ {s} : chan'[t] = chan[t]
      BY <1>11 DEF LaunchReply, KeepSender, SingleOpener, OpenerPc
    <2>2. \A m \in Node : node_sender[m] # s
      BY <2>1 DEF OneSender
    <2>3. \A c \in Co \ {co} : pc[c] \in OpenerPc => node[c] # n
      BY <2>1 DEF SingleOpener, OpenerPc
    <2>4. FollowInv'
      BY <2>1, <2>2, <2>3 DEF Follow, FollowInv, OpenerPc
    <2>5. SenderFollowsConfig'
      BY <2>1, <2>2 DEF Follow, SenderFollowsConfig, Settled
    <2> QED
      BY <2>4, <2>5 DEF Follow
  <1>12. ASSUME NEW f \in Configs, NEW nw \in BOOLEAN, NEW early \in SUBSET DOMAIN f,
                Reload(f, early, nw)
         PROVE  Follow'
    <2>1. PICK fork \in [Reopened(f) -> {co \in Fork : pc[co] = "idle"}] :
            /\ \A m, n \in Reopened(f) : fork[m] = fork[n] => m = n
            /\ pc' = [co \in Co |->
                         IF \E n \in Reopened(f) : fork[n] = co THEN "forked" ELSE pc[co]]
            /\ node' = [co \in Co |->
                         IF \E n \in Reopened(f) : fork[n] = co
                         THEN CHOOSE n \in Reopened(f) : fork[n] = co ELSE node[co]]
      BY <1>12 DEF Reload
    <2>2. /\ node_sender' = node_sender /\ chan' = chan /\ connecting' = connecting
          /\ address' = address
          /\ \A n \in Node \ DOMAIN f : node_address'[n] = node_address[n]
          /\ \A n \in Node \cap DOMAIN f : node_address'[n] = f[n]
      BY <1>12 DEF Reload, ApplyConfig
    <2>3. \A co \in Co :
            \/ pc'[co] = pc[co] /\ node'[co] = node[co]
            \/ pc[co] = "idle" /\ pc'[co] = "forked"
      BY <2>1
    <2>4. FollowInv'
      BY <2>2, <2>3 DEF Follow, FollowInv
    <2>5. ASSUME NEW n \in Node, Settled(n)', node_sender[n] # Nil
          PROVE  Settled(n) /\ node_address'[n] = node_address[n]
      <3>1. n \notin Reopened(f)
        <4> SUFFICES ASSUME n \in Reopened(f) PROVE FALSE
          OBVIOUS
        <4>1. fork[n] \in Co /\ pc'[fork[n]] = "forked"
          BY <2>1 DEF Co
        <4>2. node'[fork[n]] = n
          BY <2>1, <4>1
        <4> QED
          BY <2>5, <4>1, <4>2 DEF Settled
      <3>2. Settled(n)
        BY <2>2, <2>3, <2>5 DEF Settled
      <3> QED
        BY <2>2, <2>5, <3>1, <3>2 DEF Reopened
    <2>6. SenderFollowsConfig'
      BY <2>2, <2>5 DEF Follow, SenderFollowsConfig
    <2> QED
      BY <2>4, <2>6 DEF Follow
  <1>13. ASSUME NEW f, NEW early, NEW nw, ReloadFails(f, early, nw) PROVE Follow'
    BY <1>13 DEF ReloadFails
  <1> QED
    BY <1>1, <1>2, <1>3, <1>4, <1>5, <1>6, <1>7, <1>8, <1>9, <1>10, <1>11, <1>12, <1>13
    DEF Next, Scheduled

\* While every config holds only addresses and false, the sender of a node that
\* no coroutine works on is open towards the configured address, however the
\* reloads overlapped with launches, connection attempts and failures.
THEOREM SenderFollowsConfigHolds ==
  ASSUME ~BadConfig
  PROVE  Spec => []SenderFollowsConfig
  <1>1. IndInv /\ Follow /\ [Next]_vars => Follow'
    <2>1. IndInv /\ Follow /\ UNCHANGED vars => Follow'
      BY DEF vars, Follow, FollowInv, 
         SenderFollowsConfig, Settled
    <2> QED
      BY <2>1, FollowStep
  <1>2. Follow => SenderFollowsConfig
    BY DEF Follow
  <1> QED
    BY <1>1, <1>2, InitFollow, IndInvHolds, PTL DEF Spec

-----------------------------------------------------------------------------
(***************************************************************************)
(* What a caller of command.sender is answered, and when it is not.        *)
(***************************************************************************)

\* A waiter that has been handed a channel was handed the sender of its node, and
\* only loadconfig's coroutines are forked.
GotInv ==
    \A co \in Co :
        /\ got[co] # Nil => pc[co] = "wait" /\ got[co] = node_sender[node[co]]
        /\ pc[co] = "forked" => co \in Fork

\* Every step keeps it: a node's sender does not change once it is there.
LEMMA GotStep ==
  ASSUME IndInv, GotInv, [Next]_vars
  PROVE  GotInv'
  <1> USE DEF IndInv, TypeOK
  <1>1. ASSUME NEW co \in Client, NEW n \in Node, SenderRequest(co, n) PROVE GotInv'
    BY <1>1 DEF SenderRequest, GotInv, Co
  <1>2. CASE SendersRequest
    BY <1>2 DEF SendersRequest, GotInv
  <1>3. ASSUME NEW co \in Co, Enter(co) \/ Open(co) \/ RunFork(co) \/ LaunchFails(co)
                              \/ Changenode(co) \/ ChangenodeReply(co)
        PROVE  GotInv'
    <2>1. UNCHANGED <<got, node, node_sender>> /\ pc[co] # "wait"
      BY <1>3 DEF Enter, Open, RunFork, LaunchFails, Changenode, ChangenodeReply
    <2>2. pc'[co] # "forked" /\ \A c \in Co \ {co} : pc'[c] = pc[c]
      BY <1>3 DEF Enter, Open, RunFork, LaunchFails, Changenode, ChangenodeReply
    <2> QED
      BY <2>1, <2>2 DEF GotInv
  <1>4. ASSUME NEW co \in Co, NEW s \in Service, LaunchReply(co, s) PROVE GotInv'
    <2>1. /\ UNCHANGED <<got, node>> /\ pc[co] = "launch" /\ pc' = [pc EXCEPT ![co] = "call"]
          /\ \A n \in Node : node_sender[n] # Nil => node_sender'[n] = node_sender[n]
      BY <1>4 DEF LaunchReply, KeepSender
    <2> QED
      BY <2>1 DEF GotInv
  <1>5. ASSUME NEW co \in Co, Finish(co) PROVE GotInv'
    <2> DEFINE n == node[co]
    <2>1. /\ pc[co] = "finish" /\ UNCHANGED <<node, node_sender>>
          /\ \A w \in Co : got'[w] = got[w] \/ (w \in waiting[n] /\ got'[w] \in {Nil, node_sender[n]})
          /\ \A c \in Co \ {co} : pc'[c] = pc[c]
          /\ pc'[co] # "forked"
      BY <1>5 DEF Finish, ReleaseWaiters
    <2>2. \A w \in waiting[n] : w # co /\ pc[w] = "wait" /\ node[w] = n
      BY <2>1 DEF WaitingInv
    <2> QED
      BY <2>1, <2>2 DEF GotInv
  <1>6. ASSUME NEW co \in Co, Wake(co) PROVE GotInv'
    BY <1>6 DEF Wake, GotInv
  <1>7. ASSUME NEW f \in Configs, NEW nw \in BOOLEAN, NEW early \in SUBSET DOMAIN f,
               Reload(f, early, nw)
        PROVE  GotInv'
    <2>1. \A co \in Co : \/ pc'[co] = pc[co] /\ node'[co] = node[co]
                         \/ pc[co] = "idle" /\ pc'[co] = "forked" /\ co \in Fork
      BY <1>7 DEF Reload
    <2>2. UNCHANGED <<got, node_sender>>
      BY <1>7 DEF Reload, ApplyConfig
    <2> QED
      BY <2>1, <2>2 DEF GotInv
  <1>8. ASSUME NEW f, NEW early, NEW nw, ReloadFails(f, early, nw) PROVE GotInv'
    BY <1>8 DEF ReloadFails, ApplyConfig, GotInv
  <1>9. CASE UNCHANGED vars
    BY <1>9 DEF vars, GotInv
  <1> QED
    BY <1>1, <1>2, <1>3, <1>4, <1>5, <1>6, <1>7, <1>8, <1>9 DEF Next, Scheduled

\* While every config holds only addresses and false, a caller that opened the node or
\* waited for the one that did is handed a channel that is open towards the configured
\* address, or that a fork which is yet to run moves there: neither a failed open of
\* another node nor a reload between its wake-up and its turn makes it older than that.
THEOREM ReplyIsCurrentHolds ==
  ASSUME ~BadConfig
  PROVE  Spec => ReplyIsCurrent
  <1> DEFINE Current ==
        \A co \in Client :
          LET n == node[co] IN
          /\ pc[co] # "idle" /\ pc'[co] = "idle"
          /\ ret'[co] \in Service /\ node_address[n] \in WellFormed
          => \/ chan[ret'[co]] = [host |-> node_address[n], closed |-> FALSE]
             \/ \E f \in Fork : pc[f] = "forked" /\ node[f] = n
  <1>1. ASSUME IndInv, Follow, GotInv, Next PROVE Current
    <2> SUFFICES ASSUME NEW co \in Client, pc[co] # "idle", pc'[co] = "idle",
                        ret'[co] \in Service, node_address[node[co]] \in WellFormed,
                        ~ \E f \in Fork : pc[f] = "forked" /\ node[f] = node[co]
                 PROVE  chan[ret'[co]] = [host |-> node_address[node[co]], closed |-> FALSE]
      OBVIOUS
    <2> USE DEF IndInv, TypeOK
    <2> DEFINE n == node[co]
    <2>1. co \in Co
      BY DEF Co
    <2>2. CASE Finish(co)
      <3>1. /\ pc[co] = "finish" /\ address[co] = node_address[n]
            /\ ret'[co] = IF succ[co] THEN node_sender[n] ELSE Err
        BY <1>1, <2>1, <2>2 DEF Finish, Answer, AddressChanged
      <3>2. ret'[co] = node_sender[n]
        BY <3>1
      <3> QED
        BY <1>1, <2>1, <3>1, <3>2 DEF Follow, FollowInv
    <2>3. CASE Wake(co)
      <3>1. /\ pc[co] = "wait" /\ draining /\ ~connecting[n]
            /\ ret'[co] \in {got[co], Err}
        BY <1>1, <2>1, <2>3 DEF Wake, Answer, Reopening
      <3>2. ret'[co] = got[co] /\ got[co] # Nil
        BY <3>1
      <3>3. got[co] = node_sender[n] /\ node_sender[n] # Nil
        BY <1>1, <2>1, <3>2 DEF GotInv
      <3>4. Settled(n)
        BY <1>1, <3>1 DEF Settled, GotInv, RunningInv, RunningPc
      <3> QED
        BY <1>1, <2>1, <3>2, <3>3, <3>4 DEF Follow, SenderFollowsConfig
    <2>4. CASE LaunchFails(co)
      BY <1>1, <2>1, <2>4 DEF LaunchFails, Answer
    <2>5. ASSUME NEW c \in Co, Scheduled(c), ~Finish(co), ~Wake(co), ~LaunchFails(co) PROVE FALSE
      <3>1. CASE Enter(c) \/ Open(c) \/ RunFork(c) \/ Changenode(c) \/ ChangenodeReply(c)
        BY <1>1, <2>1, <3>1 DEF Enter, Open, RunFork, Changenode, ChangenodeReply
      <3>2. CASE \E s \in Service : LaunchReply(c, s)
        BY <1>1, <2>1, <3>2 DEF LaunchReply
      <3>3. CASE Finish(c) \/ Wake(c) \/ LaunchFails(c)
        <4>1. c # co
          BY <2>5, <3>3
        <4> QED
          BY <1>1, <2>1, <3>3, <4>1 DEF Finish, Wake, LaunchFails
      <3> QED
        BY <2>5, <3>1, <3>2, <3>3 DEF Scheduled
    <2>6. ASSUME NEW c \in Client, NEW m \in Node, SenderRequest(c, m) PROVE FALSE
      BY <1>1, <2>1, <2>6 DEF SenderRequest, Co
    <2>7. ~SendersRequest
      BY DEF SendersRequest
    <2>8. ASSUME NEW f, NEW early, NEW nw, Reload(f, early, nw) \/ ReloadFails(f, early, nw)
          PROVE  FALSE
      BY <1>1, <2>1, <2>8 DEF Reload, ReloadFails
    <2> QED
      BY <1>1, <2>2, <2>3, <2>4, <2>5, <2>6, <2>7, <2>8 DEF Next
  <1>2. IndInv /\ Follow /\ [Next]_vars => Follow'
    <2>1. IndInv /\ Follow /\ UNCHANGED vars => Follow'
      BY DEF vars, Follow, FollowInv, SenderFollowsConfig, Settled
    <2> QED
      BY <2>1, FollowStep
  <1>3. Init => GotInv
    BY DEF Init, GotInv
  <1>4. IndInv /\ GotInv /\ [Next]_vars => GotInv'
    BY GotStep
  <1> HIDE DEF Current
  <1>5. IndInv /\ Follow /\ GotInv /\ [Next]_vars => [Current]_vars
    BY <1>1
  <1>6. Spec => [][Current]_vars
    BY <1>2, <1>3, <1>4, <1>5, InitFollow, IndInvHolds, PTL DEF Spec
  <1> QED
    BY <1>6 DEF ReplyIsCurrent, Current

\* While every config is read to its end, a coroutine sleeps for the address of its node
\* only as long as the config gives none and waiting is allowed: in whatever order the
\* names and the option __nowaiting are visited, no reload forgets to wake it.
THEOREM NamequeryNeedsNameHolds ==
  ASSUME ~BadConfig
  PROVE  Spec => []NamequeryNeedsName
  <1>1. Init => NamequeryNeedsName
    BY DEF Init, NamequeryNeedsName
  <1>2. ASSUME IndInv, NamequeryNeedsName, Next PROVE NamequeryNeedsName'
    <2> USE DEF IndInv, TypeOK
    <2>1. ASSUME UNCHANGED config,
                 \A co \in Co : pc'[co] = "namequery" /\ co \notin wakeup' =>
                    pc[co] = "namequery" /\ co \notin wakeup /\ node'[co] = node[co]
          PROVE  NamequeryNeedsName'
      BY <1>2, <2>1 DEF NamequeryNeedsName
    <2>2. ASSUME NEW co \in Client, NEW n \in Node, SenderRequest(co, n) PROVE NamequeryNeedsName'
      BY <1>2, <2>1, <2>2 DEF SenderRequest, Co
    <2>3. CASE SendersRequest
      BY <1>2, <2>1, <2>3 DEF SendersRequest
    <2>4. ASSUME NEW co \in Co, Open(co) \/ RunFork(co) \/ LaunchFails(co)
                                \/ Changenode(co) \/ ChangenodeReply(co)
          PROVE  NamequeryNeedsName'
      BY <1>2, <2>1, <2>4 DEF Open, RunFork, LaunchFails, Changenode, ChangenodeReply
    <2>5. ASSUME NEW co \in Co, NEW s \in Service, LaunchReply(co, s) PROVE NamequeryNeedsName'
      BY <1>2, <2>1, <2>5 DEF LaunchReply
    <2>6. ASSUME NEW co \in Co, Finish(co) PROVE NamequeryNeedsName'
      BY <1>2, <2>1, <2>6 DEF Finish, ReleaseWaiters
    <2>7. ASSUME NEW co \in Co, Wake(co) PROVE NamequeryNeedsName'
      BY <1>2, <2>1, <2>7 DEF Wake
    <2>8. ASSUME NEW co \in Co, Enter(co) PROVE NamequeryNeedsName'
      <3>1. UNCHANGED <<config, node, wakeup>> /\ \A c \in Co \ {co} : pc'[c] = pc[c]
        BY <1>2, <2>8 DEF Enter
      <3>2. pc'[co] = "namequery" => node_address[node[co]] = Nil /\ ~nowaiting
        BY <1>2, <2>8 DEF Enter
      <3> QED
        BY <1>2, <3>1, <3>2 DEF NamequeryNeedsName
    <2>9. ASSUME NEW f \in Configs, NEW nw \in BOOLEAN, NEW early \in SUBSET DOMAIN f,
                 Reload(f, early, nw)
          PROVE  NamequeryNeedsName'
      <3> SUFFICES ASSUME NEW co \in Co, pc'[co] = "namequery", co \notin wakeup'
                   PROVE  node_address'[node'[co]] = Nil /\ ~nowaiting'
        BY DEF NamequeryNeedsName
      <3>1. \A c \in Co : \/ pc'[c] = pc[c] /\ node'[c] = node[c]
                          \/ pc'[c] = "forked"
        BY <1>2, <2>9 DEF Reload
      <3>2. /\ wakeup' = wakeup \cup Woken(f, early, nw, TRUE)
            /\ node_address' = [n \in Node |-> IF n \in DOMAIN f THEN f[n] ELSE node_address[n]]
            /\ nowaiting' = nw
        BY <1>2, <2>9 DEF Reload, ApplyConfig
      <3> DEFINE n == node[co]
      <3>3. /\ pc[co] = "namequery" /\ node'[co] = n /\ co \notin wakeup
            /\ co \notin Woken(f, early, nw, TRUE)
        BY <3>1, <3>2
      <3>4. namequery[n] = co /\ node_address[n] = Nil /\ ~nowaiting
        BY <1>2, <3>3 DEF NoLostWaiter, NamequeryNeedsName
      <3>5. ~nw /\ n \notin DOMAIN f
        BY <1>2, <3>3, <3>4 DEF Woken, Asleep, AsleepPc
      <3> QED
        BY <1>2, <3>2, <3>3, <3>4, <3>5
    <2>10. ASSUME NEW f, NEW early, NEW nw, ReloadFails(f, early, nw) PROVE FALSE
      BY <2>10 DEF ReloadFails
    <2> QED
      BY <1>2, <2>2, <2>3, <2>4, <2>5, <2>6, <2>7, <2>8, <2>9, <2>10 DEF Next, Scheduled
  <1>3. IndInv /\ NamequeryNeedsName /\ [Next]_vars => NamequeryNeedsName'
    <2>1. NamequeryNeedsName /\ UNCHANGED vars => NamequeryNeedsName'
      BY DEF vars, NamequeryNeedsName
    <2> QED
      BY <1>2, <2>1
  <1> QED
    BY <1>1, <1>3, IndInvHolds, PTL DEF Spec
=============================================================================
