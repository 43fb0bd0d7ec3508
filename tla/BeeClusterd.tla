----------------------------- MODULE BeeClusterd -----------------------------
(***************************************************************************)
(* The connection manager of a cluster node: open_channel, loadconfig and  *)
(* the commands sender, senders and reload of bee_clusterd.lua, under the  *)
(* coroutine scheduler of skynet.lua.                                      *)
(*                                                                         *)
(* A coroutine runs until it yields, and `running` names it; the actions   *)
(* of a running coroutine cannot be interleaved with another coroutine.    *)
(* When a slice ends normally the scheduler resumes every coroutine in     *)
(* `wakeup` (suspend ends in dispatch_wakeup); when a slice raises, it     *)
(* does not, and the coroutines stay in `wakeup` until a later slice ends. *)
(* Forked coroutines run once the message has been handled, error or not.  *)
(***************************************************************************)
EXTENDS Naturals, FiniteSets

CONSTANTS
    Node,       \* names of the cluster config: the keys of node_address
    Address,    \* strings a name can be given
    Malformed,  \* the addresses without "host:port" shape (no host to match)
    Service,    \* handles of bee_clustersender services
    Client,     \* coroutines that serve command.sender
    Fork,       \* coroutines forked by loadconfig (bound: simultaneous forks)
    BadConfig,  \* may a config hold a value that is neither false nor string
    Off,        \* the config value false: the node is taken off line
    Nil,        \* the absent value
    Err,        \* the caller is answered with an error
    Pending     \* the caller is not answered yet

Co == Client \cup Fork

ASSUME ConstAssumption ==
    /\ Node # {} /\ Nil \notin Node
    /\ Malformed \subseteq Address
    /\ Client \cap Fork = {}
    /\ {Off, Nil} \cap Address = {} /\ Off # Nil
    /\ {Nil, Err, Pending} \cap Service = {}
    /\ Nil # Err /\ Nil # Pending /\ Err # Pending
    /\ Nil \notin Co
    /\ BadConfig \in BOOLEAN

VARIABLES
    node_address, node_sender, node_sender_closed, node_channel, nowaiting,
    connecting,   \* connecting[n]: the table connecting[n] exists
    waiting,      \* the coroutines in the array part of connecting[n]
    namequery,    \* the field namequery of connecting[n]
    pc, node,     \* where a coroutine stands in open_channel, and its key
    address,      \* its local variable address
    succ,         \* its local variable succ
    got,          \* ct.channel of the table a waiter was woken from
    ret,          \* what command.sender answered
    wakeup, running, draining,
    chan,         \* the socket channel of every sender service
    svc           \* the node a sender service was launched for

config == <<node_address, nowaiting>>
sched == <<wakeup, running, draining>>
table == <<connecting, waiting, namequery>>
senders == <<node_sender, node_sender_closed, node_channel>>
services == <<chan, svc>>
locals == <<node, address, succ, got>>
vars == <<config, sched, table, senders, services, locals, pc, ret>>

AddressOrOff == Address \cup {Off}
IsString(a) == a \in Address

AsleepPc == {"wait", "namequery"}
RunningPc == {"enter", "open", "finish"}
\* From the creation of connecting[key] (line 31) to its removal (line 80).
OpenerPc == {"namequery", "open", "launch", "call", "reply", "finish"}
Pc == {"idle", "forked", "enter", "wait"} \cup OpenerPc

Channel == [host : Address \cup {Nil}, closed : BOOLEAN]

\* The tables of clusterd, the positions of its coroutines and the senders have their types.
TypeOK ==
    /\ node_address \in [Node -> AddressOrOff \cup {Nil}]
    /\ nowaiting \in BOOLEAN
    /\ node_sender \in [Node -> Service \cup {Nil}]
    /\ node_sender_closed \in [Node -> BOOLEAN]
    /\ node_channel \in [Node -> Service \cup {Nil}]
    /\ connecting \in [Node -> BOOLEAN]
    /\ waiting \in [Node -> SUBSET Co]
    /\ namequery \in [Node -> Co \cup {Nil}]
    /\ pc \in [Co -> Pc]
    /\ node \in [Co -> Node]
    /\ address \in [Co -> AddressOrOff \cup {Nil}]
    /\ succ \in [Co -> BOOLEAN]
    /\ got \in [Co -> Service \cup {Nil}]
    /\ ret \in [Co -> Service \cup {Nil, Err, Pending}]
    /\ wakeup \in SUBSET Co
    /\ running \in Co \cup {Nil}
    /\ draining \in BOOLEAN
    /\ chan \in [Service -> Channel]
    /\ svc \in [Service -> Node \cup {Nil}]

-----------------------------------------------------------------------------
(***************************************************************************)
(* The scheduler.                                                          *)
(***************************************************************************)

\* The slice of the running coroutine ends in a yield or a return: the woken
\* coroutines are resumed next.
Yield == running' = Nil /\ draining' = (wakeup' # {})

\* The slice ends in an error: suspend raises before dispatch_wakeup.
Throw == running' = Nil /\ draining' = FALSE

Continue(co) == running' = co /\ draining' = FALSE

\* The caller of command.sender is answered; a fork has no caller.
Answer(co, v) == ret' = IF co \in Client THEN [ret EXCEPT ![co] = v] ELSE ret

Idle == running = Nil /\ ~draining
MessageReady == Idle /\ \A co \in Co : pc[co] # "forked"

-----------------------------------------------------------------------------
(***************************************************************************)
(* command.sender                                                          *)
(***************************************************************************)

SenderRequest(co, n) ==
    /\ MessageReady
    /\ pc[co] = "idle"
    /\ node' = [node EXCEPT ![co] = n]
    /\ \/ /\ node_channel[n] # Nil
          /\ Answer(co, node_channel[n])
          /\ UNCHANGED <<wakeup, pc>>
          /\ Yield
       \/ /\ node_channel[n] = Nil
          /\ Answer(co, Pending)
          /\ pc' = [pc EXCEPT ![co] = "enter"]
          /\ UNCHANGED wakeup
          /\ Continue(co)
    /\ UNCHANGED <<config, table, senders, services, address, succ, got>>

\* command.senders answers from node_sender and changes nothing; like every
\* message it lets the scheduler resume what is left in wakeup.
SendersRequest ==
    /\ MessageReady
    /\ wakeup # {}
    /\ UNCHANGED wakeup
    /\ Yield
    /\ UNCHANGED <<config, table, senders, services, locals, pc, ret>>

-----------------------------------------------------------------------------
(***************************************************************************)
(* open_channel                                                            *)
(***************************************************************************)

\* Another coroutine is opening the node (connecting[key] exists).
Busy_Unchecked(co) == FALSE
Busy(co) == connecting[node[co]]

\* Lines 17-40: wait for the coroutine that is opening this node already, or
\* become the one that opens it.
Enter(co) ==
    LET n == node[co] IN
    /\ running = co
    /\ pc[co] = "enter"
    /\ UNCHANGED wakeup
    /\ \/ /\ Busy(co)
          /\ waiting' = [waiting EXCEPT ![n] = @ \cup {co}]
          /\ pc' = [pc EXCEPT ![co] = "wait"]
          /\ Yield
          /\ UNCHANGED <<connecting, namequery, address>>
       \/ /\ ~Busy(co)
          /\ connecting' = [connecting EXCEPT ![n] = TRUE]
          /\ address' = [address EXCEPT ![co] = node_address[n]]
          /\ UNCHANGED waiting
          /\ \/ /\ node_address[n] = Nil /\ ~nowaiting
                /\ namequery' = [namequery EXCEPT ![n] = co]
                /\ pc' = [pc EXCEPT ![co] = "namequery"]
                /\ Yield
             \/ /\ node_address[n] # Nil \/ nowaiting
                /\ UNCHANGED namequery
                /\ pc' = [pc EXCEPT ![co] = "open"]
                /\ Continue(co)
    /\ UNCHANGED <<config, senders, services, node, succ, got, ret>>

\* Lines 41-79 up to the first yield.
Open(co) ==
    LET n == node[co]
        known == IsString(address[co])
        off == address[co] = Off
        nothingToClose == node_sender[n] = Nil \/ node_sender_closed[n]
        goto(l) == pc' = [pc EXCEPT ![co] = l]
    IN
    /\ running = co
    /\ pc[co] = "open"
    /\ UNCHANGED wakeup
    /\ \/ /\ known /\ node_sender[n] = Nil
          /\ goto("launch") /\ Yield /\ UNCHANGED succ
       \/ /\ \/ known /\ node_sender[n] # Nil
             \/ off /\ ~nothingToClose
          /\ goto("call") /\ Yield /\ UNCHANGED succ
       \/ /\ ~known /\ (off => nothingToClose)
          /\ succ' = [succ EXCEPT ![co] = off]
          /\ goto("finish") /\ Continue(co)
    /\ UNCHANGED <<config, table, senders, services, node, address, got, ret>>

\* The service is recorded as the sender of the node.
KeepSender_Forgotten(n, s) == UNCHANGED node_sender
KeepSender(n, s) == node_sender' = [node_sender EXCEPT ![n] = s]

\* The launcher answers newservice with a handle (lines 46-56): the first
\* sender of the node is kept, another one is killed.
LaunchReply(co, s) ==
    LET n == node[co] IN
    /\ MessageReady
    /\ pc[co] = "launch"
    /\ address[co] \notin Malformed
    /\ svc[s] = Nil
    /\ \/ /\ node_sender[n] = Nil
          /\ KeepSender(n, s)
          /\ svc' = [svc EXCEPT ![s] = n]
          /\ chan' = [chan EXCEPT ![s] = [host |-> address[co], closed |-> FALSE]]
       \/ /\ node_sender[n] # Nil
          /\ UNCHANGED <<node_sender, svc, chan>>
    /\ pc' = [pc EXCEPT ![co] = "call"]
    /\ UNCHANGED wakeup
    /\ Yield
    /\ UNCHANGED <<config, table, node_sender_closed, node_channel, locals, ret>>

\* A sender started without a host or a port fails in its start function;
\* newservice raises, and nothing catches it in open_channel.
LaunchFails(co) ==
    /\ MessageReady
    /\ pc[co] = "launch"
    /\ address[co] \in Malformed
    /\ pc' = [pc EXCEPT ![co] = "idle"]
    /\ Answer(co, Err)
    /\ address' = [address EXCEPT ![co] = Nil]
    /\ UNCHANGED wakeup
    /\ Throw
    /\ UNCHANGED <<config, table, senders, services, node, succ, got>>

\* The sender service runs command.changenode. Without a host it closes the
\* channel; with one it moves the channel there and opens it, and the
\* attempt to connect may fail.
Changenode(co) ==
    LET s == node_sender[node[co]]
        host == IF address[co] \in Address \ Malformed THEN address[co] ELSE Nil
    IN
    /\ pc[co] = "call"
    /\ pc' = [pc EXCEPT ![co] = "reply"]
    /\ \/ /\ host = Nil
          /\ chan' = [chan EXCEPT ![s].closed = TRUE]
          /\ succ' = [succ EXCEPT ![co] = TRUE]
       \/ /\ host # Nil
          /\ chan' = [chan EXCEPT ![s] = [host |-> host, closed |-> FALSE]]
          /\ \E ok \in BOOLEAN : succ' = [succ EXCEPT ![co] = ok]
    /\ UNCHANGED <<config, sched, table, senders, svc, node, address, got, ret>>

\* The answer of changenode reaches the opener (lines 58-76).
ChangenodeReply(co) ==
    LET n == node[co] IN
    /\ MessageReady
    /\ pc[co] = "reply"
    /\ pc' = [pc EXCEPT ![co] = "finish"]
    /\ \/ /\ succ[co] /\ IsString(address[co])
          /\ node_channel' = [node_channel EXCEPT ![n] = node_sender[n]]
          /\ node_sender_closed' = [node_sender_closed EXCEPT ![n] = FALSE]
       \/ /\ succ[co] /\ ~IsString(address[co])
          /\ node_sender_closed' = [node_sender_closed EXCEPT ![n] = TRUE]
          /\ UNCHANGED node_channel
       \/ /\ ~succ[co]
          /\ UNCHANGED <<node_sender_closed, node_channel>>
    /\ UNCHANGED wakeup
    /\ Continue(co)
    /\ UNCHANGED <<config, table, node_sender, services, locals, ret>>

\* Lines 80-83: the table is removed and the coroutines it lists are woken;
\* each finds ct.channel, which is set only by a successful open.
ReleaseWaiters_Dropped(co) ==
    LET n == node[co] IN
    /\ connecting' = [connecting EXCEPT ![n] = FALSE]
    /\ waiting' = [waiting EXCEPT ![n] = {}]
    /\ namequery' = [namequery EXCEPT ![n] = Nil]
    /\ UNCHANGED <<wakeup, got>>
ReleaseWaiters(co) ==
    LET n == node[co]
        channel == IF succ[co] /\ IsString(address[co]) THEN node_sender[n] ELSE Nil
    IN
    /\ connecting' = [connecting EXCEPT ![n] = FALSE]
    /\ waiting' = [waiting EXCEPT ![n] = {}]
    /\ namequery' = [namequery EXCEPT ![n] = Nil]
    /\ wakeup' = wakeup \cup waiting[n]
    /\ got' = [w \in Co |-> IF w \in waiting[n] THEN channel ELSE got[w]]

\* Line 84: the config has changed the address while the node was opened.
AddressChanged_Ignored(co) == FALSE
AddressChanged_OrFailed(co) == node_address[node[co]] # address[co] \/ ~succ[co]
AddressChanged(co) == node_address[node[co]] # address[co]

\* Lines 80-88: release the waiters, and start over or return.
Finish(co) ==
    /\ running = co
    /\ pc[co] = "finish"
    /\ ReleaseWaiters(co)
    /\ \/ /\ AddressChanged(co)
          /\ pc' = [pc EXCEPT ![co] = "enter"]
          /\ UNCHANGED ret
          /\ Continue(co)
       \/ /\ ~AddressChanged(co)
          /\ pc' = [pc EXCEPT ![co] = "idle"]
          /\ Answer(co, IF succ[co] THEN node_sender[node[co]] ELSE Err)
          /\ IF succ[co] THEN Yield ELSE Throw
    /\ address' = [address EXCEPT ![co] = Nil]
    /\ succ' = [succ EXCEPT ![co] = FALSE]
    /\ UNCHANGED <<config, senders, services, node>>

\* Line 25: the node is being opened again when a waiter resumes.
Reopening_Unchecked(co) == FALSE
Reopening(co) == connecting[node[co]]

\* dispatch_wakeup resumes a coroutine: the opener that waited for an address
\* (line 39), or a waiter (lines 24-28), which waits again if the node is
\* being opened again.
Wake(co) ==
    LET n == node[co] IN
    /\ draining
    /\ co \in wakeup
    /\ wakeup' = wakeup \ {co}
    /\ \/ /\ pc[co] = "namequery"
          /\ address' = [address EXCEPT ![co] = node_address[n]]
          /\ pc' = [pc EXCEPT ![co] = "open"]
          /\ Continue(co)
          /\ UNCHANGED <<waiting, got, ret>>
       \/ /\ pc[co] = "wait" /\ Reopening(co)
          /\ waiting' = [waiting EXCEPT ![n] = @ \cup {co}]
          /\ got' = [got EXCEPT ![co] = Nil]
          /\ Yield
          /\ UNCHANGED <<pc, address, ret>>
       \/ /\ pc[co] = "wait" /\ ~Reopening(co)
          /\ pc' = [pc EXCEPT ![co] = "idle"]
          /\ got' = [got EXCEPT ![co] = Nil]
          /\ \/ /\ IsString(node_address[n]) /\ got[co] # Nil
                /\ Answer(co, got[co])
                /\ Yield
             \/ /\ ~IsString(node_address[n]) \/ got[co] = Nil
                /\ Answer(co, Err)
                /\ Throw
          /\ UNCHANGED <<waiting, address>>
    /\ UNCHANGED <<config, senders, services, connecting, namequery, node, succ>>

RunFork(co) ==
    /\ Idle
    /\ pc[co] = "forked"
    /\ pc' = [pc EXCEPT ![co] = "enter"]
    /\ UNCHANGED wakeup
    /\ Continue(co)
    /\ UNCHANGED <<config, table, senders, services, locals, ret>>

-----------------------------------------------------------------------------
(***************************************************************************)
(* loadconfig                                                              *)
(***************************************************************************)

\* The names of f are visited in the order of pairs(): those in early before
\* the option __nowaiting, which becomes nw, the others after it. A waiting
\* namequery is woken for a visited name unless nowaiting held at that point,
\* and for every name once the loop ends with nowaiting set.
\* skynet.wakeup has no effect on a coroutine that does not sleep.
Asleep == {co \in Co : pc[co] \in AsleepPc}

Woken_OnlyNamed(f, early, nw, complete) ==
    {namequery[n] : n \in {m \in DOMAIN f : ~nw}} \cap Asleep
Woken(f, early, nw, complete) ==
    LET visited == {n \in DOMAIN f : ~(IF n \in early THEN nowaiting ELSE nw)}
        resolved == IF complete /\ nw THEN Node ELSE visited
    IN {namequery[n] : n \in resolved} \cap Asleep

\* The names whose address changes and that have a sender: their channel is
\* dropped and they are opened again.
Reopened(f) == {n \in DOMAIN f : f[n] # node_address[n] /\ node_sender[n] # Nil}

ApplyConfig(f, early, nw, complete) ==
    /\ node_address' = [n \in Node |-> IF n \in DOMAIN f THEN f[n] ELSE node_address[n]]
    /\ nowaiting' = nw
    /\ node_channel' = [n \in Node |-> IF n \in Reopened(f) THEN Nil ELSE node_channel[n]]
    /\ wakeup' = wakeup \cup Woken(f, early, nw, complete)
    /\ UNCHANGED <<node_sender, node_sender_closed, table, services>>

Reload(f, early, nw) ==
    /\ MessageReady
    /\ ApplyConfig(f, early, nw, TRUE)
    /\ \E fork \in [Reopened(f) -> {co \in Fork : pc[co] = "idle"}] :
          /\ \A m, n \in Reopened(f) : fork[m] = fork[n] => m = n
          /\ pc' = [co \in Co |->
                       IF \E n \in Reopened(f) : fork[n] = co THEN "forked" ELSE pc[co]]
          /\ node' = [co \in Co |->
                       IF \E n \in Reopened(f) : fork[n] = co
                       THEN CHOOSE n \in Reopened(f) : fork[n] = co ELSE node[co]]
    /\ Yield
    /\ UNCHANGED <<address, succ, got, ret>>

\* A value that is neither false nor a string: the assertion of line 110
\* fails after the names of f have been visited, and nothing is forked.
ReloadFails(f, early, nw) ==
    /\ BadConfig
    /\ MessageReady
    /\ ApplyConfig(f, early, nw, FALSE)
    /\ Throw
    /\ UNCHANGED <<locals, pc, ret>>

-----------------------------------------------------------------------------
Configs == UNION {[N -> AddressOrOff] : N \in SUBSET Node}

\* The service starts by loading the config file.
Init ==
    /\ node_address \in [Node -> AddressOrOff \cup {Nil}]
    /\ nowaiting \in BOOLEAN
    /\ node_sender = [n \in Node |-> Nil]
    /\ node_sender_closed = [n \in Node |-> FALSE]
    /\ node_channel = [n \in Node |-> Nil]
    /\ connecting = [n \in Node |-> FALSE]
    /\ waiting = [n \in Node |-> {}]
    /\ namequery = [n \in Node |-> Nil]
    /\ pc = [co \in Co |-> "idle"]
    /\ node = [co \in Co |-> CHOOSE n \in Node : TRUE]
    /\ address = [co \in Co |-> Nil]
    /\ succ = [co \in Co |-> FALSE]
    /\ got = [co \in Co |-> Nil]
    /\ ret = [co \in Co |-> Nil]
    /\ wakeup = {}
    /\ running = Nil
    /\ draining = FALSE
    /\ chan = [s \in Service |-> [host |-> Nil, closed |-> FALSE]]
    /\ svc = [s \in Service |-> Nil]

Scheduled(co) ==
    \/ Enter(co) \/ Open(co) \/ Finish(co) \/ Wake(co) \/ RunFork(co)
    \/ \E s \in Service : LaunchReply(co, s)
    \/ LaunchFails(co) \/ Changenode(co) \/ ChangenodeReply(co)

Next ==
    \/ \E co \in Co : Scheduled(co)
    \/ \E co \in Client, n \in Node : SenderRequest(co, n)
    \/ SendersRequest
    \/ \E f \in Configs, nw \in BOOLEAN : \E early \in SUBSET DOMAIN f :
          Reload(f, early, nw) \/ ReloadFails(f, early, nw)

Spec == Init /\ [][Next]_vars

\* The mailbox of a service is a queue and its worker thread is never taken
\* away for good, so an answer that has been sent is handled; clusterd keeps
\* receiving messages while coroutines are left in wakeup.
Fairness == WF_vars(SendersRequest) /\ \A co \in Co : SF_vars(Scheduled(co))
FairSpec == Spec /\ Fairness

-----------------------------------------------------------------------------
(***************************************************************************)
(* Properties                                                              *)
(***************************************************************************)

\* At most one coroutine is between line 31 and line 80 of open_channel for a
\* node, and only while connecting[key] is set: the calls in between never
\* let a second coroutine in.
SingleOpener ==
    /\ \A co \in Co : pc[co] \in OpenerPc => connecting[node[co]]
    /\ \A c1, c2 \in Co :
          pc[c1] \in OpenerPc /\ pc[c2] \in OpenerPc /\ node[c1] = node[c2] => c1 = c2

\* A node never has two sender services: every service launched for it is the
\* one in node_sender, so the "double check" of line 48 has nothing to kill,
\* and a channel handed out is that service.
OneSender ==
    /\ \A s \in Service, n \in Node : svc[s] = n <=> node_sender[n] = s
    /\ \A n \in Node : node_channel[n] \in {Nil, node_sender[n]}

\* A coroutine asleep in open_channel can be found by whoever must wake it: a
\* waiter is in the table of an open in progress, a namequery is the one its
\* node's table names; otherwise it has been woken already.
NoLostWaiter ==
    \A co \in Co :
        LET n == node[co] IN
        /\ pc[co] = "wait" =>
              co \in wakeup \/ (co \in waiting[n] /\ connecting[n])
        /\ pc[co] = "namequery" =>
              co \in wakeup \/ namequery[n] = co

\* A coroutine sleeps for an address only while the config gives none.
NamequeryNeedsName ==
    \A co \in Co :
        pc[co] = "namequery" /\ co \notin wakeup =>
            node_address[node[co]] = Nil /\ ~nowaiting

WellFormed == Address \ Malformed

Settled(n) ==
    /\ ~connecting[n]
    /\ \A co \in Co : node[co] = n => pc[co] \notin {"forked", "enter"}

\* Whatever reloads happened while a node was being opened, once no coroutine
\* works on it any more its sender is open towards the configured address.
SenderFollowsConfig ==
    \A n \in Node :
        Settled(n) /\ node_sender[n] # Nil /\ node_address[n] \in WellFormed =>
            chan[node_sender[n]] = [host |-> node_address[n], closed |-> FALSE]

\* "node1=false" takes the node off line (comment of line 8): once nothing
\* works on the node any more, its sender is closed.
OffNodeIsClosed ==
    \A n \in Node :
        Settled(n) /\ node_sender[n] # Nil /\ node_address[n] = Off =>
            chan[node_sender[n]].closed

\* A caller that had to wait for an open is handed a channel only if the
\* channel is open towards the address configured at that moment, or a reload
\* has just changed the address and its fork, which is yet to run, moves the
\* channel there. This is for reloads that do not fail (~BadConfig): one that
\* stops at the assertion of line 110 stores addresses and forks nothing.
ReplyIsCurrent ==
    [][\A co \in Client :
          LET n == node[co] IN
          /\ pc[co] # "idle" /\ pc'[co] = "idle"
          /\ ret'[co] \in Service /\ node_address[n] \in WellFormed
          => \/ chan[ret'[co]] = [host |-> node_address[n], closed |-> FALSE]
             \/ \E f \in Fork : pc[f] = "forked" /\ node[f] = n]_vars

ConfigSettles == <>[][UNCHANGED config]_vars

\* If the config is changed finitely often, a coroutine that opens a node and
\* does not wait for its address comes to an end, whether or not the peer can
\* be reached: no reload makes open_channel recurse for ever.
OpenEnds ==
    ConfigSettles =>
        \A co \in Co : pc[co] \in OpenerPc \ {"namequery"} ~> pc[co] = "idle"

\* If moreover in the end every node has an address, or is off, and connecting
\* no longer fails, every caller of command.sender is answered, those who
\* queued behind an open included.
RequestsAnswered ==
    /\ ConfigSettles
    /\ <>[](\A n \in Node : node_address[n] # Nil)
    /\ <>[](\A co \in Co : pc[co] = "reply" => succ[co])
    => \A co \in Client : pc[co] # "idle" ~> pc[co] = "idle"
=============================================================================
