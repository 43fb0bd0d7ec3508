----------------------------- MODULE ClusterNames -----------------------------
(***************************************************************************)
(* Names of services across the cluster: the table register_name of        *)
(* bee_clusterd.lua, the agent it starts for every incoming connection     *)
(* (command.socket with the gate), and the name cache each                 *)
(* bee_clusteragent.lua keeps of that table.                               *)
(*                                                                         *)
(* Every service handles one message at a time. What clusterd sends to an  *)
(* agent, answers of queryname included, arrives in the order it was sent  *)
(* (box). Woken coroutines of an agent run before its next message.        *)
(***************************************************************************)
EXTENDS Naturals, Sequences, FiniteSets

CONSTANTS
    Name,     \* registered names
    Addr,     \* service handles of this node
    Fd,       \* incoming connections; an fd is not used again
    Req,      \* coroutines of the agents that resolve a name
    MaxBox,   \* bound: names change only while fewer messages wait at each agent
    Nil,
    Aborted   \* the agent exited before the request was resolved

ASSUME ConstAssumption ==
    /\ Nil \notin Name \cup Addr \cup Fd \cup Req
    /\ Aborted \notin Addr \cup {Nil}
    /\ MaxBox \in Nat

VARIABLES
    name_addr, addr_name,  \* register_name: its string keys, its number keys
    cluster_agent,         \* "none", "launching" (false), "closed" (true), "agent"
    launching,             \* command.socket waits in newservice
    inbox,                 \* socket events on their way from the gate to clusterd
    conn,                  \* the gate has a connection
    agent,                 \* the life of the agent service
    box,                   \* messages from clusterd to the agent
    cache,                 \* the current table register_name of the agent
    inquery,               \* inquery_name[name], and whose table the answer goes to
    pc, rfd, rname,        \* a request, its agent and the name it looks up
    same,                  \* the request holds the table of the pending query
    result,                \* the address the request found
    was,                   \* history: what its name meant since it was asked for
    missed                 \* history: a namechange was not sent to this agent

names == <<name_addr, addr_name>>
life == <<cluster_agent, launching, inbox, conn, agent>>
reqs == <<pc, rfd, rname, same, result, was>>
vars == <<names, life, box, cache, inquery, reqs, missed>>

AgentMsg == [type : {"namechange", "exit"}, req : {Nil}, addr : {Nil}]
            \cup [type : {"reply"}, req : Req, addr : Addr \cup {Nil}]
AgentState == {"none", "start", "forwarded", "ready", "refused", "failed", "exited"}

\* Client traffic reaches an agent once the gate forwards to it.
Serving(fd) == agent[fd] \in {"forwarded", "ready"}

\* The tables of clusterd and of the agents, and the mailboxes between them, have their types.
TypeOK ==
    /\ name_addr \in [Name -> Addr \cup {Nil}]
    /\ addr_name \in [Addr -> Name \cup {Nil}]
    /\ cluster_agent \in [Fd -> {"none", "launching", "closed", "agent"}]
    /\ launching \in [Fd -> BOOLEAN]
    /\ inbox \in [Fd -> Seq({"open", "close"})]
    /\ conn \in [Fd -> {"none", "open", "closed"}]
    /\ agent \in [Fd -> AgentState]
    /\ box \in [Fd -> Seq(AgentMsg)]
    /\ cache \in [Fd -> [Name -> Addr \cup {Nil}]]
    /\ inquery \in [Fd -> [Name -> {"none", "current", "replaced"}]]
    /\ pc \in [Req -> {"idle", "wait", "query", "answered"}]
    /\ rfd \in [Req -> Fd \cup {Nil}]
    /\ rname \in [Req -> Name \cup {Nil}]
    /\ \A r \in Req : pc[r] # "idle" => rfd[r] \in Fd /\ rname[r] \in Name
    /\ same \in [Req -> BOOLEAN]
    /\ result \in [Req -> Addr \cup {Nil, Aborted}]
    /\ was \in [Req -> SUBSET (Addr \cup {Nil})]
    /\ missed \in [Fd -> BOOLEAN]

Plain(type) == [type |-> type, req |-> Nil, addr |-> Nil]
Pending(fd, type) == \E i \in 1..Len(box[fd]) : box[fd][i].type = type

Init ==
    /\ name_addr = [n \in Name |-> Nil]
    /\ addr_name = [a \in Addr |-> Nil]
    /\ cluster_agent = [fd \in Fd |-> "none"]
    /\ launching = [fd \in Fd |-> FALSE]
    /\ inbox = [fd \in Fd |-> <<>>]
    /\ conn = [fd \in Fd |-> "none"]
    /\ agent = [fd \in Fd |-> "none"]
    /\ box = [fd \in Fd |-> <<>>]
    /\ cache = [fd \in Fd |-> [n \in Name |-> Nil]]
    /\ inquery = [fd \in Fd |-> [n \in Name |-> "none"]]
    /\ pc = [r \in Req |-> "idle"]
    /\ rfd = [r \in Req |-> Nil]
    /\ rname = [r \in Req |-> Nil]
    /\ same = [r \in Req |-> FALSE]
    /\ result = [r \in Req |-> Nil]
    /\ was = [r \in Req |-> {}]
    /\ missed = [fd \in Fd |-> FALSE]

-----------------------------------------------------------------------------
(***************************************************************************)
(* clusterd: register, unregister, queryname                               *)
(***************************************************************************)

RoomInBoxes == \A fd \in Fd : Len(box[fd]) < MaxBox

\* clearnamecache: every agent clusterd knows the handle of is told.
clearnamecache_Skipped == UNCHANGED <<box, missed>>
clearnamecache ==
    /\ box' = [fd \in Fd |-> IF cluster_agent[fd] = "agent"
                             THEN Append(box[fd], Plain("namechange")) ELSE box[fd]]
    /\ missed' = [fd \in Fd |->
                     missed[fd] \/ (Serving(fd) /\ cluster_agent[fd] \in {"launching", "closed"})]

\* The history of the names that are being looked up.
Remember ==
    was' = [r \in Req |-> IF pc[r] = "idle" THEN was[r] ELSE was[r] \cup {name_addr'[rname[r]]}]

\* The two directions of the table; an address that had another name loses it.
Rename_KeepOld(name, addr) ==
    /\ name_addr' = [name_addr EXCEPT ![name] = addr]
    /\ addr_name' = [addr_name EXCEPT ![addr] = name]
Rename(name, addr) ==
    /\ name_addr' = [n \in Name |-> IF n = name THEN addr
                                    ELSE IF n = addr_name[addr] THEN Nil ELSE name_addr[n]]
    /\ addr_name' = [addr_name EXCEPT ![addr] = name]

\* command.register; with a name in use the assertion fails and nothing changes.
register(name, addr) ==
    /\ RoomInBoxes
    /\ name_addr[name] = Nil
    /\ Rename(name, addr)
    /\ \/ addr_name[addr] # Nil /\ clearnamecache
       \/ addr_name[addr] = Nil /\ UNCHANGED <<box, missed>>
    /\ Remember
    /\ UNCHANGED <<life, cache, inquery, pc, rfd, rname, same, result>>

\* command.unregister; an unknown name is answered at once.
unregister(name) ==
    /\ RoomInBoxes
    /\ name_addr[name] # Nil
    /\ addr_name' = [addr_name EXCEPT ![name_addr[name]] = Nil]
    /\ name_addr' = [name_addr EXCEPT ![name] = Nil]
    /\ clearnamecache
    /\ Remember
    /\ UNCHANGED <<life, cache, inquery, pc, rfd, rname, same, result>>

queryname(r) ==
    /\ pc[r] = "query"
    /\ pc' = [pc EXCEPT ![r] = "answered"]
    /\ box' = [box EXCEPT ![rfd[r]] =
                  Append(@, [type |-> "reply", req |-> r, addr |-> name_addr[rname[r]]])]
    /\ UNCHANGED <<names, life, cache, inquery, rfd, rname, same, result, was, missed>>

-----------------------------------------------------------------------------
(***************************************************************************)
(* The connection, the gate and command.socket                             *)
(***************************************************************************)

\* gate: handler.connect, handler.disconnect (or handler.error).
Accept(fd) ==
    /\ conn[fd] = "none"
    /\ conn' = [conn EXCEPT ![fd] = "open"]
    /\ inbox' = [inbox EXCEPT ![fd] = Append(@, "open")]
    /\ UNCHANGED <<names, cluster_agent, launching, agent, box, cache, inquery, reqs, missed>>

Disconnect(fd) ==
    /\ conn[fd] = "open"
    /\ conn' = [conn EXCEPT ![fd] = "closed"]
    /\ inbox' = [inbox EXCEPT ![fd] = Append(@, "close")]
    /\ UNCHANGED <<names, cluster_agent, launching, agent, box, cache, inquery, reqs, missed>>

\* command.socket "open" up to newservice.
SocketOpen(fd) ==
    /\ inbox[fd] # <<>> /\ Head(inbox[fd]) = "open"
    /\ inbox' = [inbox EXCEPT ![fd] = Tail(@)]
    /\ cluster_agent' = [cluster_agent EXCEPT ![fd] = "launching"]
    /\ launching' = [launching EXCEPT ![fd] = TRUE]
    /\ agent' = [agent EXCEPT ![fd] = "start"]
    /\ UNCHANGED <<names, conn, box, cache, inquery, reqs, missed>>

\* gate: CMD.forward asserts that the connection is still there.
Forward(fd) ==
    /\ agent[fd] = "start"
    /\ agent' = [agent EXCEPT ![fd] = IF conn[fd] = "open" THEN "forwarded" ELSE "refused"]
    /\ UNCHANGED <<names, cluster_agent, launching, inbox, conn, box, cache, inquery, reqs, missed>>

\* The start function of the agent returns or raises.
AgentStarted(fd) ==
    /\ agent[fd] \in {"forwarded", "refused"}
    /\ agent' = [agent EXCEPT ![fd] = IF @ = "forwarded" THEN "ready" ELSE "failed"]
    /\ UNCHANGED <<names, cluster_agent, launching, inbox, conn, box, cache, inquery, reqs, missed>>

\* command.socket after newservice: the agent is told to exit if the socket
\* was closed in the meantime.
NewAgent_IgnoreClosed(fd) ==
    /\ cluster_agent' = [cluster_agent EXCEPT ![fd] = "agent"]
    /\ UNCHANGED box
NewAgent(fd) ==
    \/ /\ cluster_agent[fd] = "closed"
       /\ box' = [box EXCEPT ![fd] = Append(@, Plain("exit"))]
       /\ cluster_agent' = [cluster_agent EXCEPT ![fd] = "none"]
    \/ /\ cluster_agent[fd] # "closed"
       /\ cluster_agent' = [cluster_agent EXCEPT ![fd] = "agent"]
       /\ UNCHANGED box

Launched(fd) ==
    /\ launching[fd] /\ agent[fd] = "ready"
    /\ launching' = [launching EXCEPT ![fd] = FALSE]
    /\ NewAgent(fd)
    /\ UNCHANGED <<names, inbox, conn, agent, cache, inquery, reqs, missed>>

\* newservice raises: the handler ends and cluster_agent keeps its boolean.
LaunchFailed(fd) ==
    /\ launching[fd] /\ agent[fd] = "failed"
    /\ launching' = [launching EXCEPT ![fd] = FALSE]
    /\ UNCHANGED <<names, cluster_agent, inbox, conn, agent, box, cache, inquery, reqs, missed>>

\* command.socket "close" or "error".
SocketClose(fd) ==
    /\ inbox[fd] # <<>> /\ Head(inbox[fd]) = "close"
    /\ inbox' = [inbox EXCEPT ![fd] = Tail(@)]
    /\ \/ /\ cluster_agent[fd] \in {"launching", "closed"}
          /\ cluster_agent' = [cluster_agent EXCEPT ![fd] = "closed"]
          /\ UNCHANGED box
       \/ /\ cluster_agent[fd] = "agent"
          /\ box' = [box EXCEPT ![fd] = Append(@, Plain("exit"))]
          /\ cluster_agent' = [cluster_agent EXCEPT ![fd] = "none"]
       \/ /\ cluster_agent[fd] = "none"
          /\ UNCHANGED <<box, cluster_agent>>
    /\ UNCHANGED <<names, launching, conn, agent, cache, inquery, reqs, missed>>

-----------------------------------------------------------------------------
(***************************************************************************)
(* The agent                                                               *)
(***************************************************************************)

\* The request whose question to clusterd the others wait for.
Asking(fd, n) == {r \in Req : pc[r] \in {"query", "answered"} /\ rfd[r] = fd /\ rname[r] = n}

\* dispatch_request looks a name up: in the cache, in the answer another
\* request is waiting for, or at clusterd.
Request(r, fd, n) ==
    /\ pc[r] = "idle"
    /\ Serving(fd)
    /\ \/ /\ cache[fd][n] # Nil
          /\ result' = [result EXCEPT ![r] = cache[fd][n]]
          /\ UNCHANGED <<pc, rfd, rname, same, was, inquery>>
       \/ /\ cache[fd][n] = Nil
          /\ rfd' = [rfd EXCEPT ![r] = fd]
          /\ rname' = [rname EXCEPT ![r] = n]
          /\ same' = [same EXCEPT ![r] = inquery[fd][n] # "replaced"]
          /\ \/ /\ inquery[fd][n] = "none"
                /\ inquery' = [inquery EXCEPT ![fd][n] = "current"]
                /\ pc' = [pc EXCEPT ![r] = "query"]
                /\ was' = [was EXCEPT ![r] = {name_addr[n]}]
             \/ /\ inquery[fd][n] # "none"
                /\ pc' = [pc EXCEPT ![r] = "wait"]
                /\ was' = [was EXCEPT ![r] = UNION {was[q] : q \in Asking(fd, n)}]
                /\ UNCHANGED inquery
          /\ UNCHANGED result
    /\ UNCHANGED <<names, life, box, cache, missed>>

\* The requests that wait for the same answer as r; they are woken together.
Waiters_Forgotten(r) == {}
Waiters(r) == {w \in Req : pc[w] = "wait" /\ rfd[w] = rfd[r] /\ rname[w] = rname[r]}

\* The table the query was started from gets the address; if namechange has
\* replaced it, the current table does not.
Fill(fd, n, a) ==
    cache' = IF inquery[fd][n] = "current" /\ a # Nil
             THEN [cache EXCEPT ![fd][n] = a] ELSE cache

\* What a woken request finds with rawget in the table it holds.
Found_Nothing(w, r, a) == IF w = r THEN a ELSE Nil
Found(w, r, a) == IF w = r \/ same[w] THEN a ELSE Nil

\* The coroutines of these requests have their address, or are gone.
Finish(done) ==
    /\ pc' = [r \in Req |-> IF r \in done THEN "idle" ELSE pc[r]]
    /\ rfd' = [r \in Req |-> IF r \in done THEN Nil ELSE rfd[r]]
    /\ rname' = [r \in Req |-> IF r \in done THEN Nil ELSE rname[r]]
    /\ same' = [r \in Req |-> IF r \in done THEN FALSE ELSE same[r]]
    /\ was' = [r \in Req |-> IF r \in done THEN {} ELSE was[r]]

\* The answer of queryname (lines 26-33), and the requests it wakes (line 21).
Reply(fd) ==
    LET m == Head(box[fd])
        r == m.req
        done == Waiters(r) \cup {r}
    IN
    /\ box[fd] # <<>> /\ m.type = "reply"
    /\ agent[fd] # "exited"
    /\ box' = [box EXCEPT ![fd] = Tail(@)]
    /\ Fill(fd, rname[r], m.addr)
    /\ inquery' = [inquery EXCEPT ![fd][rname[r]] = "none"]
    /\ Finish(done)
    /\ result' = [w \in Req |-> IF w \in done THEN Found(w, r, m.addr) ELSE result[w]]
    /\ UNCHANGED <<names, life, missed>>

\* The pending queries when the table is replaced: they stay in inquery_name.
Replaced(query) == [n \in Name |-> IF query[n] = "none" THEN "none" ELSE "replaced"]

namechange(fd) ==
    /\ box[fd] # <<>> /\ Head(box[fd]).type = "namechange"
    /\ agent[fd] = "ready"
    /\ box' = [box EXCEPT ![fd] = Tail(@)]
    /\ cache' = [cache EXCEPT ![fd] = [n \in Name |-> Nil]]
    /\ inquery' = [inquery EXCEPT ![fd] = Replaced(@)]
    /\ UNCHANGED <<names, life, reqs, missed>>

\* skynet.exit: the agent and its coroutines are gone.
exit(fd) ==
    /\ box[fd] # <<>> /\ Head(box[fd]).type = "exit"
    /\ agent[fd] = "ready"
    /\ box' = [box EXCEPT ![fd] = Tail(@)]
    /\ agent' = [agent EXCEPT ![fd] = "exited"]
    /\ LET dead == {r \in Req : rfd[r] = fd} IN
       /\ Finish(dead)
       /\ result' = [r \in Req |-> IF r \in dead THEN Aborted ELSE result[r]]
    /\ cache' = [cache EXCEPT ![fd] = [n \in Name |-> Nil]]
    /\ inquery' = [inquery EXCEPT ![fd] = [n \in Name |-> "none"]]
    /\ UNCHANGED <<names, cluster_agent, launching, inbox, conn, missed>>

\* What is sent to a service that is gone is dropped.
DropMessage(fd) ==
    /\ box[fd] # <<>>
    /\ agent[fd] = "exited"
    /\ box' = [box EXCEPT ![fd] = Tail(@)]
    /\ UNCHANGED <<names, life, cache, inquery, reqs, missed>>

-----------------------------------------------------------------------------
Clusterd(fd) == SocketOpen(fd) \/ Launched(fd) \/ LaunchFailed(fd) \/ SocketClose(fd)
Start(fd) == Forward(fd) \/ AgentStarted(fd)
Agent(fd) == Reply(fd) \/ namechange(fd) \/ exit(fd) \/ DropMessage(fd)

Next ==
    \/ \E n \in Name, a \in Addr : register(n, a)
    \/ \E n \in Name : unregister(n)
    \/ \E r \in Req : queryname(r)
    \/ \E fd \in Fd : Accept(fd) \/ Disconnect(fd) \/ Clusterd(fd) \/ Start(fd) \/ Agent(fd)
    \/ \E r \in Req, fd \in Fd, n \in Name : Request(r, fd, n)

Spec == Init /\ [][Next]_vars

\* Each service works off its mailbox, a queue.
Fairness ==
    /\ \A fd \in Fd : WF_vars(Clusterd(fd)) /\ WF_vars(Start(fd)) /\ WF_vars(Agent(fd))
    /\ \A r \in Req : WF_vars(queryname(r))
FairSpec == Spec /\ Fairness

-----------------------------------------------------------------------------
(***************************************************************************)
(* Properties                                                              *)
(***************************************************************************)

\* register_name is a bijection between the names and the addresses in it,
\* through every sequence of register, renaming register and unregister.
NamesMatch ==
    \A n \in Name, a \in Addr : name_addr[n] = a <=> addr_name[a] = n

\* An agent that has an outdated address in its cache has a namechange (or its
\* exit) waiting, unless the change came before clusterd knew the agent.
CacheCoherent ==
    \A fd \in Fd, n \in Name :
        cache[fd][n] \notin {Nil, name_addr[n]} =>
            Pending(fd, "namechange") \/ Pending(fd, "exit") \/ missed[fd]

\* A connection that is closed leaves no agent behind: once the events have
\* been handled, the agent has exited or never started.
NoOrphanAgent ==
    \A fd \in Fd :
        conn[fd] = "closed" /\ inbox[fd] = <<>> /\ ~launching[fd] /\ box[fd] = <<>> =>
            agent[fd] \in {"failed", "exited"}

Returns(r) == pc[r] # "idle" /\ pc'[r] = "idle"

\* A request that asked clusterd, or joined such a request, is told an address
\* its name had since the question was sent. It is told that the name is unknown
\* only if it was at some moment since then, or if the request joined a query
\* that is older than the last namechange.
LookupSound ==
    [][\A r \in Req : Returns(r) =>
          /\ result'[r] = Nil => Nil \in was[r] \/ ~same[r]
          /\ result'[r] \in Addr => result'[r] \in was[r]]_vars

\* Every lookup comes to an end.
LookupEnds == \A r \in Req : pc[r] # "idle" ~> pc[r] = "idle"

\* Every agent of a closed connection is gone in the end.
AgentsEnd == \A fd \in Fd : conn[fd] = "closed" ~> agent[fd] \in {"failed", "exited"}
=============================================================================
