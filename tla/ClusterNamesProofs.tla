-------------------------- MODULE ClusterNamesProofs --------------------------
(***************************************************************************)
(* ClusterNames for every number of names, services, connections and       *)
(* requests: type correctness, the bijection of register_name, and, from   *)
(* one inductive invariant (IndInv), that no agent outlives its            *)
(* connection, that no agent keeps an outdated address unawares, and that  *)
(* a lookup returns what its name meant.                                   *)
(***************************************************************************)
EXTENDS ClusterNames, SequenceTheorems, TLAPS

\* What an agent can be sent is one of the messages of AgentMsg.
LEMMA Messages ==
    /\ \A type \in {"namechange", "exit"} : Plain(type) \in AgentMsg
    /\ \A r \in Req, a \in Addr \cup {Nil} : [type |-> "reply", req |-> r, addr |-> a] \in AgentMsg
    /\ \A m \in AgentMsg : m.type = "reply" => m.req \in Req /\ m.addr \in Addr \cup {Nil}
BY DEF AgentMsg, Plain

\* The first message of an agent is a message, and the rest are messages.
LEMMA BoxHead ==
    ASSUME TypeOK, NEW fd \in Fd, box[fd] # <<>>
    PROVE  /\ Head(box[fd]) \in AgentMsg
           /\ [box EXCEPT ![fd] = Tail(@)] \in [Fd -> Seq(AgentMsg)]
<1>1. box[fd] \in Seq(AgentMsg) BY DEF TypeOK
<1>2. Head(box[fd]) \in AgentMsg /\ Tail(box[fd]) \in Seq(AgentMsg) BY <1>1, HeadTailProperties
<1> QED BY <1>2 DEF TypeOK

\* A message put last into the box of an agent keeps the box a sequence.
LEMMA BoxAppend ==
    ASSUME TypeOK, NEW fd \in Fd, NEW m \in AgentMsg
    PROVE  /\ Append(box[fd], m) \in Seq(AgentMsg)
           /\ [box EXCEPT ![fd] = Append(@, m)] \in [Fd -> Seq(AgentMsg)]
<1>1. box[fd] \in Seq(AgentMsg) BY DEF TypeOK
<1>2. Append(box[fd], m) \in Seq(AgentMsg) BY <1>1, AppendProperties
<1> QED BY <1>2 DEF TypeOK

\* Socket events stay a sequence of events.
LEMMA InboxTyped ==
    ASSUME TypeOK, NEW fd \in Fd
    PROVE  /\ \A e \in {"open", "close"} :
                 [inbox EXCEPT ![fd] = Append(@, e)] \in [Fd -> Seq({"open", "close"})]
           /\ inbox[fd] # <<>> =>
                 [inbox EXCEPT ![fd] = Tail(@)] \in [Fd -> Seq({"open", "close"})]
<1>1. inbox[fd] \in Seq({"open", "close"}) BY DEF TypeOK
<1>2. \A e \in {"open", "close"} : Append(inbox[fd], e) \in Seq({"open", "close"})
  BY <1>1, AppendProperties
<1>3. inbox[fd] # <<>> => Tail(inbox[fd]) \in Seq({"open", "close"})
  BY <1>1, HeadTailProperties
<1> QED BY <1>2, <1>3 DEF TypeOK

\* clearnamecache sends namechange and nothing else.
LEMMA ClearTyped ==
    ASSUME TypeOK, clearnamecache
    PROVE  box' \in [Fd -> Seq(AgentMsg)] /\ missed' \in [Fd -> BOOLEAN]
<1>1. \A fd \in Fd : Append(box[fd], Plain("namechange")) \in Seq(AgentMsg)
  BY BoxAppend, Messages
<1>2. box' \in [Fd -> Seq(AgentMsg)] BY <1>1 DEF clearnamecache, TypeOK
<1>3. missed' \in [Fd -> BOOLEAN] BY DEF clearnamecache, TypeOK, Serving
<1> QED BY <1>2, <1>3

\* The history of a request holds addresses of its name.
LEMMA RememberTyped ==
    ASSUME TypeOK, name_addr' \in [Name -> Addr \cup {Nil}], Remember
    PROVE  was' \in [Req -> SUBSET (Addr \cup {Nil})]
BY DEF Remember, TypeOK

\* The end of some requests keeps the types.
LEMMA FinishTyped ==
    ASSUME TypeOK, NEW done, Finish(done)
    PROVE  /\ pc' \in [Req -> {"idle", "wait", "query", "answered"}]
           /\ rfd' \in [Req -> Fd \cup {Nil}]
           /\ rname' \in [Req -> Name \cup {Nil}]
           /\ same' \in [Req -> BOOLEAN]
           /\ was' \in [Req -> SUBSET (Addr \cup {Nil})]
           /\ \A r \in Req : pc'[r] # "idle" => rfd'[r] \in Fd /\ rname'[r] \in Name
BY DEF Finish, TypeOK

-----------------------------------------------------------------------------
\* clusterd: register and unregister keep the types.
LEMMA NamesType ==
    ASSUME TypeOK,
           \/ \E n \in Name, a \in Addr : register(n, a)
           \/ \E n \in Name : unregister(n)
    PROVE  TypeOK'
<1>1. ASSUME NEW n \in Name, NEW a \in Addr, register(n, a)
      PROVE  TypeOK'
  <2>1. name_addr' \in [Name -> Addr \cup {Nil}] /\ addr_name' \in [Addr -> Name \cup {Nil}]
    BY <1>1 DEF register, Rename, TypeOK
  <2>2. was' \in [Req -> SUBSET (Addr \cup {Nil})] BY <1>1, <2>1, RememberTyped DEF register
  <2>3. box' \in [Fd -> Seq(AgentMsg)] /\ missed' \in [Fd -> BOOLEAN]
    BY <1>1, ClearTyped DEF register, TypeOK
  <2> QED BY <1>1, <2>1, <2>2, <2>3 DEF register, TypeOK, life
<1>2. ASSUME NEW n \in Name, unregister(n)
      PROVE  TypeOK'
  <2>1. name_addr' \in [Name -> Addr \cup {Nil}] /\ addr_name' \in [Addr -> Name \cup {Nil}]
    BY <1>2 DEF unregister, TypeOK
  <2>2. was' \in [Req -> SUBSET (Addr \cup {Nil})] BY <1>2, <2>1, RememberTyped DEF unregister
  <2>3. box' \in [Fd -> Seq(AgentMsg)] /\ missed' \in [Fd -> BOOLEAN]
    BY <1>2, ClearTyped DEF unregister, TypeOK
  <2> QED BY <1>2, <2>1, <2>2, <2>3 DEF unregister, TypeOK, life
<1> QED BY <1>1, <1>2

\* A lookup: queryname at clusterd, and the start of a request at the agent.
LEMMA LookupType ==
    ASSUME TypeOK,
           \/ \E r \in Req : queryname(r)
           \/ \E r \in Req, fd \in Fd, n \in Name : Request(r, fd, n)
    PROVE  TypeOK'
<1>1. ASSUME NEW r \in Req, queryname(r)
      PROVE  TypeOK'
  <2>1. rfd[r] \in Fd /\ name_addr[rname[r]] \in Addr \cup {Nil} BY <1>1 DEF queryname, TypeOK
  <2>2. box' \in [Fd -> Seq(AgentMsg)] BY <1>1, <2>1, BoxAppend, Messages DEF queryname
  <2> QED BY <1>1, <2>2 DEF queryname, TypeOK, names, life
<1>2. ASSUME NEW r \in Req, NEW fd \in Fd, NEW n \in Name, Request(r, fd, n)
      PROVE  TypeOK'
  <2>0. UNCHANGED <<names, life, box, cache, missed>> BY <1>2 DEF Request
  <2>1. CASE cache[fd][n] # Nil
    <3>1. /\ result' = [result EXCEPT ![r] = cache[fd][n]]
          /\ UNCHANGED <<pc, rfd, rname, same, was, inquery>>
      BY <1>2, <2>1 DEF Request
    <3>2. result' \in [Req -> Addr \cup {Nil, Aborted}] BY <3>1 DEF TypeOK
    <3> QED BY <2>0, <3>1, <3>2 DEF TypeOK, names, life
  <2>2. CASE cache[fd][n] = Nil
    <3>1. /\ rfd' = [rfd EXCEPT ![r] = fd]
          /\ rname' = [rname EXCEPT ![r] = n]
          /\ same' = [same EXCEPT ![r] = inquery[fd][n] # "replaced"]
          /\ UNCHANGED result
      BY <1>2, <2>2 DEF Request
    <3>2. \/ /\ inquery' = [inquery EXCEPT ![fd][n] = "current"]
             /\ pc' = [pc EXCEPT ![r] = "query"]
             /\ was' = [was EXCEPT ![r] = {name_addr[n]}]
          \/ /\ pc' = [pc EXCEPT ![r] = "wait"]
             /\ was' = [was EXCEPT ![r] = UNION {was[q] : q \in Asking(fd, n)}]
             /\ UNCHANGED inquery
      BY <1>2, <2>2 DEF Request
    <3>3. was' \in [Req -> SUBSET (Addr \cup {Nil})]
      <4>1. UNION {was[q] : q \in Asking(fd, n)} \in SUBSET (Addr \cup {Nil})
        BY DEF TypeOK, Asking
      <4>2. {name_addr[n]} \in SUBSET (Addr \cup {Nil}) BY DEF TypeOK
      <4>3. was \in [Req -> SUBSET (Addr \cup {Nil})] BY DEF TypeOK
      <4> QED BY <3>2, <4>1, <4>2, <4>3
    <3>4. inquery' \in [Fd -> [Name -> {"none", "current", "replaced"}]]
      <4>1. inquery \in [Fd -> [Name -> {"none", "current", "replaced"}]] BY DEF TypeOK
      <4>2. [inquery[fd] EXCEPT ![n] = "current"] \in [Name -> {"none", "current", "replaced"}]
        BY <4>1
      <4>3. [inquery EXCEPT ![fd][n] = "current"] \in
               [Fd -> [Name -> {"none", "current", "replaced"}]]
        BY <4>1, <4>2
      <4> QED BY <3>2, <4>1, <4>3
    <3>5. pc' \in [Req -> {"idle", "wait", "query", "answered"}] BY <3>2 DEF TypeOK
    <3>6. /\ rfd' \in [Req -> Fd \cup {Nil}] /\ rname' \in [Req -> Name \cup {Nil}]
          /\ same' \in [Req -> BOOLEAN]
      BY <3>1 DEF TypeOK
    <3>7. ASSUME NEW q \in Req, pc'[q] # "idle"
          PROVE  rfd'[q] \in Fd /\ rname'[q] \in Name
      <4>1. CASE q = r BY <4>1, <3>1 DEF TypeOK
      <4>2. CASE q # r
        <5>1. pc'[q] = pc[q] BY <4>2, <3>2 DEF TypeOK
        <5> QED BY <3>1, <3>7, <4>2, <5>1 DEF TypeOK
      <4> QED BY <4>1, <4>2
    <3> QED BY <2>0, <3>1, <3>3, <3>4, <3>5, <3>6, <3>7 DEF TypeOK, names, life
  <2> QED BY <2>1, <2>2
<1> QED BY <1>1, <1>2

\* The connection, its agent's start, and command.socket.
LEMMA LifeType ==
    ASSUME TypeOK, NEW fd \in Fd,
           Accept(fd) \/ Disconnect(fd) \/ Clusterd(fd) \/ Start(fd)
    PROVE  TypeOK'
<1>1. CASE Accept(fd) BY <1>1, InboxTyped DEF Accept, TypeOK, names, reqs
<1>2. CASE Disconnect(fd) BY <1>2, InboxTyped DEF Disconnect, TypeOK, names, reqs
<1>3. CASE SocketOpen(fd) BY <1>3, InboxTyped DEF SocketOpen, TypeOK, names, reqs, AgentState
<1>4. CASE Launched(fd)
  <2>1. box' \in [Fd -> Seq(AgentMsg)]
    <3>1. box' = [box EXCEPT ![fd] = Append(@, Plain("exit"))] \/ box' = box
      BY <1>4 DEF Launched, NewAgent
    <3>2. Plain("exit") \in AgentMsg BY Messages
    <3>3. [box EXCEPT ![fd] = Append(@, Plain("exit"))] \in [Fd -> Seq(AgentMsg)]
      BY <3>2, BoxAppend
    <3>4. box \in [Fd -> Seq(AgentMsg)] BY DEF TypeOK
    <3> QED BY <3>1, <3>3, <3>4
  <2> QED BY <1>4, <2>1 DEF Launched, NewAgent, TypeOK, names, reqs
<1>5. CASE LaunchFailed(fd) BY <1>5 DEF LaunchFailed, TypeOK, names, reqs
<1>6. CASE SocketClose(fd)
  <2>1. box' \in [Fd -> Seq(AgentMsg)]
    <3>1. box' = [box EXCEPT ![fd] = Append(@, Plain("exit"))] \/ box' = box
      BY <1>6 DEF SocketClose
    <3>2. Plain("exit") \in AgentMsg BY Messages
    <3>3. [box EXCEPT ![fd] = Append(@, Plain("exit"))] \in [Fd -> Seq(AgentMsg)]
      BY <3>2, BoxAppend
    <3>4. box \in [Fd -> Seq(AgentMsg)] BY DEF TypeOK
    <3> QED BY <3>1, <3>3, <3>4
  <2>2. inbox' \in [Fd -> Seq({"open", "close"})] BY <1>6, InboxTyped DEF SocketClose
  <2> QED BY <1>6, <2>1, <2>2 DEF SocketClose, TypeOK, names, reqs
<1>7. CASE Forward(fd) BY <1>7 DEF Forward, TypeOK, names, reqs, AgentState
<1>8. CASE AgentStarted(fd) BY <1>8 DEF AgentStarted, TypeOK, names, reqs, AgentState
<1> QED BY <1>1, <1>2, <1>3, <1>4, <1>5, <1>6, <1>7, <1>8 DEF Clusterd, Start

\* The agent takes a message from its box.
LEMMA AgentType ==
    ASSUME TypeOK, NEW fd \in Fd, Agent(fd)
    PROVE  TypeOK'
<1>1. CASE Reply(fd)
  <2> DEFINE m == Head(box[fd])
             done == Waiters(m.req) \cup {m.req}
  <2>1. m \in AgentMsg /\ m.req \in Req /\ m.addr \in Addr \cup {Nil}
    BY <1>1, BoxHead, Messages DEF Reply
  <2>2. box' \in [Fd -> Seq(AgentMsg)] BY <1>1, BoxHead DEF Reply
  <2>3. cache' \in [Fd -> [Name -> Addr \cup {Nil}]] BY <1>1, <2>1 DEF Reply, Fill, TypeOK
  <2>4. inquery' \in [Fd -> [Name -> {"none", "current", "replaced"}]]
    BY <1>1 DEF Reply, TypeOK
  <2>5. result' \in [Req -> Addr \cup {Nil, Aborted}] BY <1>1, <2>1 DEF Reply, Found, TypeOK
  <2>6. Finish(done) BY <1>1 DEF Reply
  <2> HIDE DEF done, m
  <2> QED BY <1>1, <2>2, <2>3, <2>4, <2>5, <2>6, FinishTyped DEF Reply, TypeOK, names, life
<1>2. CASE namechange(fd)
  <2>1. inquery' \in [Fd -> [Name -> {"none", "current", "replaced"}]]
    BY <1>2 DEF namechange, Replaced, TypeOK
  <2>2. cache' \in [Fd -> [Name -> Addr \cup {Nil}]] BY <1>2 DEF namechange, TypeOK
  <2>3. box' \in [Fd -> Seq(AgentMsg)] BY <1>2, BoxHead DEF namechange
  <2> QED BY <1>2, <2>1, <2>2, <2>3 DEF namechange, TypeOK, names, life, reqs
<1>3. CASE exit(fd)
  <2>1. inquery' \in [Fd -> [Name -> {"none", "current", "replaced"}]]
    BY <1>3 DEF exit, TypeOK
  <2>2. cache' \in [Fd -> [Name -> Addr \cup {Nil}]] BY <1>3 DEF exit, TypeOK
  <2>3. box' \in [Fd -> Seq(AgentMsg)] BY <1>3, BoxHead DEF exit
  <2>4. agent' \in [Fd -> AgentState] BY <1>3 DEF exit, TypeOK, AgentState
  <2>5. result' \in [Req -> Addr \cup {Nil, Aborted}] BY <1>3 DEF exit, TypeOK
  <2>6. Finish({r \in Req : rfd[r] = fd}) BY <1>3 DEF exit
  <2> QED BY <1>3, <2>1, <2>2, <2>3, <2>4, <2>5, <2>6, FinishTyped DEF exit, TypeOK, names
<1>4. CASE DropMessage(fd)
  <2>1. box' \in [Fd -> Seq(AgentMsg)] BY <1>4, BoxHead DEF DropMessage
  <2> QED BY <1>4, <2>1 DEF DropMessage, TypeOK, names, life, reqs
<1> QED BY <1>1, <1>2, <1>3, <1>4 DEF Agent

\* Type correctness: clusterd's tables, the life of each agent, its cache and its
\* mailbox keep their types, and a pending request has its agent and its name.
THEOREM TypeCorrect == Spec => []TypeOK
<1>1. Init => TypeOK BY EmptySeq DEF Init, TypeOK, AgentState
<1>2. TypeOK /\ [Next]_vars => TypeOK'
  <2> SUFFICES ASSUME TypeOK, [Next]_vars PROVE TypeOK' OBVIOUS
  <2>1. CASE UNCHANGED vars BY <2>1 DEF vars, TypeOK, names, life, reqs
  <2>2. CASE Next BY <2>2, NamesType, LookupType, LifeType, AgentType DEF Next
  <2> QED BY <2>1, <2>2
<1> QED BY <1>1, <1>2, PTL DEF Spec

\* register_name is a bijection: after every sequence of register, unregister and
\* renaming register calls, a name leads to the address that leads back to it.
THEOREM NamesMatchHolds == Spec => []NamesMatch
<1>1. Init => NamesMatch BY ConstAssumption DEF Init, NamesMatch
<1>2. TypeOK /\ NamesMatch /\ [Next]_vars => NamesMatch'
  <2> SUFFICES ASSUME TypeOK, NamesMatch, [Next]_vars PROVE NamesMatch' OBVIOUS
  <2>1. ASSUME NEW n \in Name, NEW a \in Addr, register(n, a)
        PROVE  NamesMatch'
    BY <2>1, ConstAssumption DEF register, Rename, NamesMatch, TypeOK
  <2>2. ASSUME NEW n \in Name, unregister(n)
        PROVE  NamesMatch'
    BY <2>2, ConstAssumption DEF unregister, NamesMatch, TypeOK
  <2>3. ASSUME UNCHANGED names
        PROVE  NamesMatch'
    BY <2>3 DEF names, NamesMatch
  <2>4. ASSUME NEW fd \in Fd,
               Accept(fd) \/ Disconnect(fd) \/ Clusterd(fd) \/ Start(fd) \/ Agent(fd)
        PROVE  UNCHANGED names
    BY <2>4 DEF Accept, Disconnect, Clusterd, SocketOpen, Launched, LaunchFailed, SocketClose,
                Start, Forward, AgentStarted, Agent, Reply, namechange, exit, DropMessage
  <2>5. ASSUME NEW r \in Req,
               queryname(r) \/ \E fd \in Fd, n \in Name : Request(r, fd, n)
        PROVE  UNCHANGED names
    BY <2>5 DEF queryname, Request
  <2> QED BY <2>1, <2>2, <2>3, <2>4, <2>5 DEF Next, vars
<1> QED BY <1>1, <1>2, TypeCorrect, PTL DEF Spec

-----------------------------------------------------------------------------
\* The life of a connection: the events clusterd has not seen (q), its entry in
\* cluster_agent (ca), its handler in newservice (l), the agent (a), and whether
\* the agent has been told to exit (x).
Starting == {"start", "forwarded", "refused", "ready", "failed"}
Phase(c, q, ca, l, a, x) ==
    \/ /\ \/ c = "none" /\ q = <<>>
          \/ c = "open" /\ q = <<"open">>
          \/ c = "closed" /\ q = <<"open", "close">>
       /\ ca = "none" /\ ~l /\ a = "none" /\ ~x
    \/ /\ \/ c = "open" /\ q = <<>>
          \/ c = "closed" /\ q = <<"close">>
       /\ ~x
       /\ \/ l /\ ca = "launching" /\ a \in Starting
          \/ ~l /\ ca = "launching" /\ a = "failed"
          \/ ~l /\ ca = "agent" /\ a = "ready"
    \/ /\ c = "closed" /\ q = <<>>
       /\ \/ l /\ ca = "closed" /\ a \in Starting /\ ~x
          \/ ~l /\ ca = "closed" /\ a = "failed" /\ ~x
          \/ ~l /\ ca = "none" /\ a = "ready" /\ x
          \/ ~l /\ ca = "none" /\ a = "exited"
LifeInv ==
    \A fd \in Fd : Phase(conn[fd], inbox[fd], cluster_agent[fd], launching[fd], agent[fd],
                         Pending(fd, "exit"))

\* A request is one of an agent that serves, and the agent has its name in
\* inquery_name; only one request asks clusterd, and what the others that wait for
\* its answer remember includes what it remembers, which includes what the name means.
AskInv ==
    /\ \A r \in Req : pc[r] # "idle" => Serving(rfd[r]) /\ inquery[rfd[r]][rname[r]] # "none"
    /\ \A fd \in Fd, n \in Name : \A q, r \in Asking(fd, n) : q = r
    /\ \A r \in Req : pc[r] = "wait" =>
          \A q \in Asking(rfd[r], rname[r]) : was[q] \subseteq was[r]
    /\ \A r \in Req : pc[r] = "query" => name_addr[rname[r]] \in was[r]

\* An answer on its way to an agent that has not exited is for a request of the agent
\* that has been answered once, and the address in it is one the request remembers.
ReplyAt(fd, i) ==
    LET r == box[fd][i].req
    IN  /\ pc[r] = "answered" /\ rfd[r] = fd
        /\ box[fd][i].addr \in was[r]
        /\ \A j \in 1..Len(box[fd]) : box[fd][j].type = "reply" /\ box[fd][j].req = r => j = i
ReplyInv ==
    \A fd \in Fd : agent[fd] # "exited" =>
        \A i \in 1..Len(box[fd]) : box[fd][i].type = "reply" => ReplyAt(fd, i)

\* clusterd tells the agent of a change that came after message i, or the agent is to
\* exit, or was not known.
Told(fd, i) ==
    \/ \E j \in 1..Len(box[fd]) : j > i /\ box[fd][j].type = "namechange"
    \/ Pending(fd, "exit")
    \/ missed[fd]

\* An outdated address in the cache of an agent, or in an answer on its way to it, has
\* a namechange behind it.
StaleInv ==
    \A fd \in Fd, n \in Name :
        /\ cache[fd][n] \notin {Nil, name_addr[n]} => Told(fd, 0)
        /\ cache[fd][n] # Nil => Serving(fd)
        /\ agent[fd] # "exited" =>
              \A i \in 1..Len(box[fd]) :
                 box[fd][i].type = "reply" /\ rname[box[fd][i].req] = n
                 /\ box[fd][i].addr \notin {Nil, name_addr[n]} => Told(fd, i)

\* The sequences of socket events a connection goes through.
LEMMA Queues ==
    /\ Append(<<>>, "open") = <<"open">>
    /\ Append(<<>>, "close") = <<"close">>
    /\ Append(<<"open">>, "close") = <<"open", "close">>
    /\ Head(<<"open">>) = "open" /\ Tail(<<"open">>) = <<>>
    /\ Head(<<"close">>) = "close" /\ Tail(<<"close">>) = <<>>
    /\ Head(<<"open", "close">>) = "open" /\ Tail(<<"open", "close">>) = <<"close">>
    /\ <<"open">> # <<>> /\ <<"close">> # <<>> /\ <<"open", "close">> # <<>>
    /\ <<"open">> # <<"close">> /\ <<"open", "close">> # <<"open">>
    /\ <<"open", "close">> # <<"close">>
<1> DEFINE E == {"open", "close"}
<1>1. \A e \in E : Append(<<>>, e) = <<e>>
  <2> SUFFICES ASSUME NEW e \in E PROVE Append(<<>>, e) = <<e>> OBVIOUS
  <2>1. <<>> \in Seq(E) /\ <<e>> \in Seq(E) /\ Len(<<e>>) = 1 /\ <<e>>[1] = e BY EmptySeq
  <2>2. /\ Append(<<>>, e) \in Seq(E) /\ Len(Append(<<>>, e)) = 1
        /\ Append(<<>>, e)[1] = e
    BY <2>1, EmptySeq, AppendProperties
  <2> HIDE DEF E
  <2> QED BY <2>1, <2>2, SeqEqual
<1>2. Append(<<"open">>, "close") = <<"open", "close">>
  <2> DEFINE s == <<"open">>
             t == <<"open", "close">>
  <2>1. s \in Seq(E) /\ Len(s) = 1 /\ s[1] = "open" OBVIOUS
  <2>2. t \in Seq(E) /\ Len(t) = 2 /\ t[1] = "open" /\ t[2] = "close" OBVIOUS
  <2>3. "close" \in E OBVIOUS
  <2> HIDE DEF s, t, E
  <2>4. /\ Append(s, "close") \in Seq(E) /\ Len(Append(s, "close")) = 2
        /\ Append(s, "close")[1] = "open" /\ Append(s, "close")[2] = "close"
    <3>1. \A e \in E : /\ Append(s, e) \in Seq(E) /\ Len(Append(s, e)) = Len(s) + 1
                       /\ \A i \in 1..Len(s) : Append(s, e)[i] = s[i]
                       /\ Append(s, e)[Len(s) + 1] = e
      <4>1. s \in Seq(E) BY <2>1
      <4> QED BY <4>1, AppendProperties
    <3>2. Len(s) + 1 = 2 /\ 1 \in 1..Len(s) BY <2>1
    <3> QED BY <2>1, <2>3, <3>1, <3>2
  <2>5. \A i \in 1..Len(t) : Append(s, "close")[i] = t[i] BY <2>2, <2>4
  <2>6. Append(s, "close") = t BY <2>2, <2>4, <2>5, SeqEqual
  <2> QED BY <2>6 DEF s, t
<1>3. Tail(<<"open">>) = <<>> OBVIOUS
<1>4. Tail(<<"close">>) = <<>> OBVIOUS
<1>5. Tail(<<"open", "close">>) = <<"close">> OBVIOUS
<1>6. /\ Head(<<"open">>) = "open" /\ Head(<<"close">>) = "close"
      /\ Head(<<"open", "close">>) = "open"
  OBVIOUS
<1>7. <<"open">> # <<>> /\ <<"close">> # <<>> /\ <<"open", "close">> # <<>> OBVIOUS
<1>8. /\ <<"open">> # <<"close">> /\ <<"open", "close">> # <<"open">>
      /\ <<"open", "close">> # <<"close">>
  OBVIOUS
<1> QED BY <1>1, <1>2, <1>3, <1>4, <1>5, <1>6, <1>7, <1>8

\* A box that has grown by at most the message m.
LEMMA Grown ==
    ASSUME TypeOK, NEW fd \in Fd, NEW m \in AgentMsg,
           box'[fd] \in {box[fd], Append(box[fd], m)}
    PROVE  /\ Len(box[fd]) \in Nat /\ Len(box'[fd]) \in Nat /\ Len(box[fd]) <= Len(box'[fd])
           /\ \A i \in 1..Len(box[fd]) : box'[fd][i] = box[fd][i]
           /\ \A i \in 1..Len(box'[fd]) : i \in 1..Len(box[fd]) \/ box'[fd][i] = m
           /\ \A t : Pending(fd, t) => Pending(fd, t)'
           /\ \A t : t # m.type => (Pending(fd, t)' <=> Pending(fd, t))
<1>1. box[fd] \in Seq(AgentMsg) BY DEF TypeOK
<1>2. Len(box[fd]) \in Nat BY <1>1, LenProperties
<1>3. CASE box'[fd] = box[fd] BY <1>2, <1>3 DEF Pending
<1>4. CASE box'[fd] = Append(box[fd], m)
  <2>1. /\ Len(box'[fd]) = Len(box[fd]) + 1
        /\ \A i \in 1..Len(box[fd]) : box'[fd][i] = box[fd][i]
        /\ box'[fd][Len(box[fd]) + 1] = m
    BY <1>1, <1>4, AppendProperties
  <2>2. \A i \in 1..Len(box'[fd]) : i \in 1..Len(box[fd]) \/ i = Len(box[fd]) + 1
    BY <1>2, <2>1
  <2>3. \A i \in 1..Len(box[fd]) : i \in 1..Len(box'[fd]) BY <1>2, <2>1
  <2>4. \A t : Pending(fd, t) => Pending(fd, t)' BY <2>1, <2>3 DEF Pending
  <2>5. \A t : t # m.type => (Pending(fd, t)' => Pending(fd, t)) BY <2>1, <2>2 DEF Pending
  <2> QED BY <1>2, <2>1, <2>2, <2>4, <2>5
<1> QED BY <1>3, <1>4

\* A message put into the box is pending.
LEMMA Sent ==
    ASSUME TypeOK, NEW fd \in Fd, NEW m \in AgentMsg, box'[fd] = Append(box[fd], m)
    PROVE  /\ Len(box'[fd]) = Len(box[fd]) + 1
           /\ box'[fd][Len(box'[fd])] = m /\ Len(box'[fd]) \in 1..Len(box'[fd])
           /\ Pending(fd, m.type)'
<1>1. box[fd] \in Seq(AgentMsg) BY DEF TypeOK
<1>2. Len(box[fd]) \in Nat BY <1>1, LenProperties
<1>3. Len(box'[fd]) = Len(box[fd]) + 1 /\ box'[fd][Len(box[fd]) + 1] = m
  BY <1>1, AppendProperties
<1> QED BY <1>2, <1>3 DEF Pending

\* A box whose first message has been taken.
LEMMA Taken ==
    ASSUME TypeOK, NEW fd \in Fd, box[fd] # <<>>, box' = [box EXCEPT ![fd] = Tail(@)]
    PROVE  /\ \A g \in Fd \ {fd} : box'[g] = box[g]
           /\ Len(box[fd]) \in Nat /\ Len(box[fd]) > 0 /\ Len(box'[fd]) = Len(box[fd]) - 1
           /\ Head(box[fd]) = box[fd][1] /\ Head(box[fd]) \in AgentMsg
           /\ \A i \in 1..Len(box'[fd]) : i + 1 \in 1..Len(box[fd]) /\ box'[fd][i] = box[fd][i + 1]
           /\ \A i \in 1..Len(box[fd]) : i > 1 =>
                 i - 1 \in 1..Len(box'[fd]) /\ box'[fd][i - 1] = box[fd][i]
           /\ \A t : Pending(fd, t)' => Pending(fd, t)
           /\ \A t : t # Head(box[fd]).type => (Pending(fd, t)' <=> Pending(fd, t))
<1>1. box[fd] \in Seq(AgentMsg) /\ box'[fd] = Tail(box[fd]) BY DEF TypeOK
<1>2. Len(box[fd]) \in Nat BY <1>1, LenProperties
<1>3. Len(box[fd]) > 0 BY <1>1, <1>2, EmptySeq, LenProperties
<1>4. /\ Len(box'[fd]) = Len(box[fd]) - 1
      /\ \A i \in 1..Len(box'[fd]) : box'[fd][i] = box[fd][i + 1]
      /\ Head(box[fd]) \in AgentMsg
  BY <1>1, HeadTailProperties
<1>5. Head(box[fd]) = box[fd][1] BY <1>1
<1>6. \A i \in 1..Len(box'[fd]) : i + 1 \in 1..Len(box[fd]) BY <1>2, <1>4
<1>7. \A i \in 1..Len(box[fd]) : i > 1 => i - 1 \in 1..Len(box'[fd]) /\ (i - 1) + 1 = i
  BY <1>2, <1>4
<1>8. \A i \in 1..Len(box[fd]) : i > 1 => box'[fd][i - 1] = box[fd][i]
  <2> SUFFICES ASSUME NEW i \in 1..Len(box[fd]), i > 1 PROVE box'[fd][i - 1] = box[fd][i] OBVIOUS
  <2> DEFINE k == i - 1
  <2>1. k \in 1..Len(box'[fd]) /\ k + 1 = i BY <1>7
  <2> HIDE DEF k
  <2>2. box'[fd][k] = box[fd][i] BY <2>1, <1>4
  <2> QED BY <2>2 DEF k
<1>9. \A t : Pending(fd, t)' => Pending(fd, t) BY <1>4, <1>6 DEF Pending
<1>10. ASSUME NEW t, t # Head(box[fd]).type, Pending(fd, t) PROVE Pending(fd, t)'
  <2>1. PICK i \in 1..Len(box[fd]) : box[fd][i].type = t BY <1>10 DEF Pending
  <2>2. i > 1 BY <1>2, <1>5, <1>10, <2>1
  <2> QED BY <1>7, <1>8, <2>1, <2>2 DEF Pending
<1>11. \A g \in Fd \ {fd} : box'[g] = box[g] BY DEF TypeOK
<1> QED BY <1>2, <1>3, <1>4, <1>5, <1>6, <1>7, <1>8, <1>9, <1>10, <1>11

-----------------------------------------------------------------------------
\* The connection of fd changes by a step of the gate, of clusterd or of the start of
\* its agent: the others stay as they are.
LEMMA LifeOthers ==
    ASSUME TypeOK, NEW fd \in Fd,
           Accept(fd) \/ Disconnect(fd) \/ Clusterd(fd) \/ Start(fd)
    PROVE  /\ \A g \in Fd \ {fd} :
                 /\ UNCHANGED <<conn[g], inbox[g], cluster_agent[g], launching[g], agent[g], box[g]>>
                 /\ Pending(g, "exit")' = Pending(g, "exit")
           /\ UNCHANGED <<names, cache, inquery, reqs, missed>>
           /\ box'[fd] \in {box[fd], Append(box[fd], Plain("exit"))}
<1>1. /\ \A g \in Fd \ {fd} :
            UNCHANGED <<conn[g], inbox[g], cluster_agent[g], launching[g], agent[g], box[g]>>
      /\ UNCHANGED <<names, cache, inquery, reqs, missed>>
      /\ box'[fd] \in {box[fd], Append(box[fd], Plain("exit"))}
  BY DEF Accept, Disconnect, Clusterd, SocketOpen, Launched, NewAgent, LaunchFailed, SocketClose,
         Start, Forward, AgentStarted, TypeOK
<1> QED BY <1>1 DEF Pending

\* Every step of the life of a connection leads from one phase to another.
LEMMA LifePhase ==
    ASSUME TypeOK, LifeInv, NEW fd \in Fd,
           Accept(fd) \/ Disconnect(fd) \/ Clusterd(fd) \/ Start(fd)
    PROVE  LifeInv'
<1> DEFINE P(g) == Phase(conn[g], inbox[g], cluster_agent[g], launching[g], agent[g],
                         Pending(g, "exit"))
<1>1. P(fd) BY DEF LifeInv
<1>2. Plain("exit") \in AgentMsg /\ Plain("exit").type = "exit" BY Messages DEF Plain
<1>3. box' = box => Pending(fd, "exit")' = Pending(fd, "exit") BY DEF Pending
<1>4. ASSUME box' = [box EXCEPT ![fd] = Append(@, Plain("exit"))] PROVE Pending(fd, "exit")'
  <2>1. box'[fd] = Append(box[fd], Plain("exit")) BY <1>4 DEF TypeOK
  <2> QED BY <1>2, <2>1, Sent
<1>5. ASSUME Accept(fd) PROVE P(fd)'
  BY <1>1, <1>3, <1>5, Queues DEF Accept, Phase, TypeOK
<1>6. ASSUME Disconnect(fd) PROVE P(fd)'
  BY <1>1, <1>3, <1>6, Queues DEF Disconnect, Phase, TypeOK
<1>7. ASSUME SocketOpen(fd) PROVE P(fd)'
  BY <1>1, <1>3, <1>7, Queues DEF SocketOpen, Phase, Starting, TypeOK
<1>8. ASSUME Launched(fd) PROVE P(fd)'
  BY <1>1, <1>3, <1>4, <1>8, Queues DEF Launched, NewAgent, Phase, Starting, TypeOK
<1>9. ASSUME LaunchFailed(fd) PROVE P(fd)'
  BY <1>1, <1>3, <1>9, Queues DEF LaunchFailed, Phase, Starting, TypeOK
<1>10. ASSUME SocketClose(fd) PROVE P(fd)'
  BY <1>1, <1>3, <1>4, <1>10, Queues DEF SocketClose, Phase, Starting, TypeOK
<1>11. ASSUME Forward(fd) PROVE P(fd)'
  BY <1>1, <1>3, <1>11, Queues DEF Forward, Phase, Starting, TypeOK
<1>12. ASSUME AgentStarted(fd) PROVE P(fd)'
  BY <1>1, <1>3, <1>12, Queues DEF AgentStarted, Phase, Starting, TypeOK
<1>13. P(fd)' BY <1>5, <1>6, <1>7, <1>8, <1>9, <1>10, <1>11, <1>12 DEF Clusterd, Start
<1>14. \A g \in Fd \ {fd} : P(g)' BY LifeOthers DEF LifeInv
<1> QED BY <1>13, <1>14 DEF LifeInv

\* The inductive invariant of the names and their caches.
IndInv == TypeOK /\ LifeInv /\ AskInv /\ ReplyInv /\ StaleInv

\* An agent stays told when its box grows.
LEMMA ToldGrown ==
    ASSUME TypeOK, NEW fd \in Fd, NEW m \in AgentMsg,
           box'[fd] \in {box[fd], Append(box[fd], m)}, missed[fd] => missed'[fd]
    PROVE  \A i \in Nat : Told(fd, i) => Told(fd, i)'
<1> SUFFICES ASSUME NEW i \in Nat, Told(fd, i) PROVE Told(fd, i)' OBVIOUS
<1>1. CASE \E j \in 1..Len(box[fd]) : j > i /\ box[fd][j].type = "namechange"
  <2>1. PICK j \in 1..Len(box[fd]) : j > i /\ box[fd][j].type = "namechange" BY <1>1
  <2>2. j \in 1..Len(box'[fd]) /\ box'[fd][j] = box[fd][j] BY Grown
  <2> QED BY <2>1, <2>2 DEF Told
<1>2. CASE Pending(fd, "exit")
  <2>1. Pending(fd, "exit")' BY <1>2, Grown
  <2> QED BY <2>1 DEF Told
<1>3. CASE missed[fd] BY <1>3 DEF Told
<1> QED BY <1>1, <1>2, <1>3 DEF Told

\* An answer in a box is for a request.
LEMMA BoxReply ==
    ASSUME TypeOK, NEW fd \in Fd, NEW i \in 1..Len(box[fd]), box[fd][i].type = "reply"
    PROVE  box[fd][i].req \in Req /\ box[fd][i].addr \in Addr \cup {Nil}
<1>1. box[fd] \in Seq(AgentMsg) BY DEF TypeOK
<1>2. box[fd][i] \in AgentMsg BY <1>1, ElementOfSeq
<1> QED BY <1>2, Messages

\* After clearnamecache every agent that serves is told, whatever is in its box.
LEMMA Cleared ==
    ASSUME TypeOK, LifeInv, clearnamecache, NEW fd \in Fd, Serving(fd), UNCHANGED life
    PROVE  \A i \in 0..Len(box[fd]) : Told(fd, i)'
<1>1. Plain("namechange") \in AgentMsg /\ Plain("namechange").type = "namechange"
  BY Messages DEF Plain
<1>2. CASE cluster_agent[fd] = "agent"
  <2>1. box'[fd] = Append(box[fd], Plain("namechange")) BY <1>2 DEF clearnamecache
  <2>2. /\ Len(box'[fd]) = Len(box[fd]) + 1
        /\ box'[fd][Len(box'[fd])] = Plain("namechange") /\ Len(box'[fd]) \in 1..Len(box'[fd])
    BY <1>1, <2>1, Sent
  <2>3. Len(box[fd]) \in Nat BY <1>1, <2>1, Grown
  <2> QED BY <1>1, <2>2, <2>3 DEF Told
<1>3. CASE cluster_agent[fd] \in {"launching", "closed"}
  <2>1. missed'[fd] BY <1>3 DEF clearnamecache
  <2> QED BY <2>1 DEF Told
<1>4. CASE cluster_agent[fd] = "none"
  <2>1. Pending(fd, "exit")
    <3>1. Phase(conn[fd], inbox[fd], cluster_agent[fd], launching[fd], agent[fd],
                Pending(fd, "exit"))
      BY DEF LifeInv
    <3> QED BY <3>1, <1>4 DEF Phase, Serving, Starting
  <2>2. box'[fd] = box[fd] BY <1>4 DEF clearnamecache
  <2>3. Pending(fd, "exit")' BY <2>1, <2>2 DEF Pending
  <2> QED BY <2>3 DEF Told
<1> QED BY <1>2, <1>3, <1>4 DEF TypeOK

\* The names change: a request that is under way remembers the new meaning of its name,
\* and every agent that may know the old one is told.
LEMMA NamesStep ==
    ASSUME IndInv,
           \/ \E n \in Name, a \in Addr : register(n, a)
           \/ \E n \in Name : unregister(n)
    PROVE  LifeInv' /\ AskInv' /\ ReplyInv' /\ StaleInv'
<1> USE DEF IndInv
<1>0. Plain("namechange") \in AgentMsg /\ Plain("namechange").type = "namechange"
  BY Messages DEF Plain
<1>1. /\ UNCHANGED <<life, cache, inquery, pc, rfd, rname, same, result>>
      /\ \/ clearnamecache
         \/ /\ UNCHANGED <<box, missed>>
            /\ \E name \in Name : /\ name_addr[name] = Nil
                                  /\ \A n \in Name : n # name => name_addr'[n] = name_addr[n]
      /\ Remember
  <2>1. CASE \E n \in Name : unregister(n) BY <2>1 DEF unregister
  <2>2. ASSUME NEW n \in Name, NEW a \in Addr, register(n, a)
        PROVE  \/ clearnamecache
               \/ /\ UNCHANGED <<box, missed>>
                  /\ \E name \in Name : /\ name_addr[name] = Nil
                                        /\ \A k \in Name : k # name => name_addr'[k] = name_addr[k]
    BY <2>2, ConstAssumption DEF register, Rename
  <2> QED BY <2>1, <2>2 DEF register
<1>2. \A fd \in Fd : /\ box'[fd] \in {box[fd], Append(box[fd], Plain("namechange"))}
                     /\ missed[fd] => missed'[fd]
  BY <1>1 DEF clearnamecache, TypeOK
<1>3. \A fd \in Fd : Serving(fd)' = Serving(fd) /\ (Pending(fd, "exit")' <=> Pending(fd, "exit"))
  <2>1. UNCHANGED agent BY <1>1 DEF life
  <2> QED BY <1>0, <1>2, <2>1, Grown DEF Serving
<1>4. LifeInv'
  <2> SUFFICES ASSUME NEW fd \in Fd
               PROVE  Phase(conn[fd], inbox[fd], cluster_agent[fd], launching[fd], agent[fd],
                            Pending(fd, "exit"))'
    BY DEF LifeInv
  <2>1. Phase(conn[fd], inbox[fd], cluster_agent[fd], launching[fd], agent[fd],
              Pending(fd, "exit"))
    BY DEF LifeInv
  <2> QED BY <1>1, <1>3, <2>1 DEF Phase, life
<1>5. \A r \in Req : /\ was[r] \subseteq was'[r]
                     /\ pc[r] # "idle" => was'[r] = was[r] \cup {name_addr'[rname[r]]}
  BY <1>1 DEF Remember, TypeOK
<1>6. AskInv'
  <2>1. \A fd \in Fd, n \in Name : Asking(fd, n)' = Asking(fd, n) BY <1>1 DEF Asking
  <2>2. \A r \in Req : pc[r] = "wait" =>
           \A q \in Asking(rfd[r], rname[r]) : was'[q] \subseteq was'[r]
    BY <1>5 DEF AskInv, Asking
  <2>3. \A r \in Req : pc[r] # "idle" => rfd[r] \in Fd /\ rname[r] \in Name BY DEF TypeOK
  <2>4. \A r \in Req : pc'[r] = "query" => name_addr'[rname'[r]] \in was'[r] BY <1>1, <1>5
  <2> QED BY <1>1, <1>3, <2>1, <2>2, <2>3, <2>4 DEF AskInv
<1>7. ReplyInv'
  <2> SUFFICES ASSUME NEW fd \in Fd, agent'[fd] # "exited",
                      NEW i \in 1..Len(box'[fd]), box'[fd][i].type = "reply"
               PROVE  ReplyAt(fd, i)'
    BY DEF ReplyInv
  <2>1. \A j \in 1..Len(box'[fd]) : box'[fd][j].type = "reply" =>
           j \in 1..Len(box[fd]) /\ box'[fd][j] = box[fd][j]
    BY <1>0, <1>2, Grown
  <2>2. agent[fd] # "exited" BY <1>1 DEF life
  <2>3. box[fd][i].req \in Req BY <2>1, BoxReply
  <2>4. ReplyAt(fd, i) BY <2>1, <2>2 DEF ReplyInv
  <2> QED BY <1>1, <1>5, <2>1, <2>3, <2>4 DEF ReplyAt
<1>8. StaleInv'
  <2> SUFFICES ASSUME NEW fd \in Fd, NEW n \in Name
               PROVE  /\ cache'[fd][n] \notin {Nil, name_addr'[n]} => Told(fd, 0)'
                      /\ cache'[fd][n] # Nil => Serving(fd)'
                      /\ agent'[fd] # "exited" =>
                            \A i \in 1..Len(box'[fd]) :
                               box'[fd][i].type = "reply" /\ rname'[box'[fd][i].req] = n
                               /\ box'[fd][i].addr \notin {Nil, name_addr'[n]} => Told(fd, i)'
    BY DEF StaleInv
  <2>1. cache'[fd][n] # Nil => Serving(fd) /\ Serving(fd)' BY <1>1, <1>3 DEF StaleInv
  <2>2. \A i \in Nat : Told(fd, i) => Told(fd, i)' BY <1>0, <1>2, ToldGrown
  <2>3. \A i \in 1..Len(box'[fd]) : box'[fd][i].type = "reply" =>
           i \in 1..Len(box[fd]) /\ box'[fd][i] = box[fd][i]
    BY <1>0, <1>2, Grown
  <2>4. \A i \in 1..Len(box[fd]) : box[fd][i].type = "reply" /\ agent[fd] # "exited" => Serving(fd)
    <3> SUFFICES ASSUME NEW i \in 1..Len(box[fd]), box[fd][i].type = "reply",
                        agent[fd] # "exited"
                 PROVE  Serving(fd)
      OBVIOUS
    <3>1. box[fd][i].req \in Req BY BoxReply
    <3>2. pc[box[fd][i].req] = "answered" /\ rfd[box[fd][i].req] = fd BY DEF ReplyInv, ReplyAt
    <3> QED BY <3>1, <3>2 DEF AskInv
  <2>5. Len(box[fd]) \in Nat BY <1>0, <1>2, Grown
  <2>6. CASE clearnamecache
    <3>1. Serving(fd) => \A i \in 0..Len(box[fd]) : Told(fd, i)' BY <1>1, <2>6, Cleared
    <3>2. 0 \in 0..Len(box[fd]) /\ \A i \in 1..Len(box[fd]) : i \in 0..Len(box[fd]) BY <2>5
    <3>3. agent'[fd] = agent[fd] BY <1>1 DEF life
    <3> QED BY <2>1, <2>3, <2>4, <3>1, <3>2, <3>3
  <2>7. CASE ~clearnamecache
    <3>1. UNCHANGED <<box, missed>> BY <1>1, <2>7
    <3>2. name_addr'[n] = name_addr[n] \/ name_addr[n] = Nil BY <1>1, <2>7
    <3>3. agent'[fd] = agent[fd] /\ cache' = cache /\ rname' = rname BY <1>1 DEF life
    <3>4. 0 \in Nat /\ \A i \in 1..Len(box[fd]) : i \in Nat BY <2>5
    <3> QED BY <2>1, <2>2, <3>1, <3>2, <3>3, <3>4 DEF StaleInv
  <2> QED BY <2>6, <2>7
<1> QED BY <1>4, <1>6, <1>7, <1>8

\* While a connection lives its agent, once it serves, serves until it exits.
LEMMA StillServing ==
    ASSUME TypeOK, LifeInv, NEW fd \in Fd,
           Accept(fd) \/ Disconnect(fd) \/ Clusterd(fd) \/ Start(fd)
    PROVE  /\ Serving(fd) => Serving(fd)'
           /\ agent'[fd] # "exited" => agent[fd] # "exited"
<1>1. Phase(conn[fd], inbox[fd], cluster_agent[fd], launching[fd], agent[fd],
            Pending(fd, "exit"))
  BY DEF LifeInv
<1>2. CASE SocketOpen(fd)
  BY <1>1, <1>2, Queues DEF SocketOpen, Phase, Starting, Serving
<1>3. CASE Accept(fd) \/ Disconnect(fd) \/ Launched(fd) \/ LaunchFailed(fd) \/ SocketClose(fd)
  BY <1>3 DEF Accept, Disconnect, Launched, LaunchFailed, SocketClose, Serving
<1>4. CASE Start(fd)
  BY <1>4 DEF Start, Forward, AgentStarted, Serving, TypeOK
<1> QED BY <1>2, <1>3, <1>4 DEF Clusterd

\* A step in the life of a connection changes no request and no name.
LEMMA LifeStep ==
    ASSUME IndInv, NEW fd \in Fd,
           Accept(fd) \/ Disconnect(fd) \/ Clusterd(fd) \/ Start(fd)
    PROVE  LifeInv' /\ AskInv' /\ ReplyInv' /\ StaleInv'
<1> USE DEF IndInv
<1>1. /\ \A g \in Fd \ {fd} : UNCHANGED <<agent[g], box[g]>>
      /\ UNCHANGED <<names, cache, inquery, reqs, missed>>
      /\ box'[fd] \in {box[fd], Append(box[fd], Plain("exit"))}
  BY LifeOthers
<1>2. Plain("exit") \in AgentMsg /\ Plain("exit").type = "exit" BY Messages DEF Plain
<1>3. \A g \in Fd : /\ box'[g] \in {box[g], Append(box[g], Plain("exit"))}
                    /\ Serving(g) => Serving(g)'
                    /\ agent'[g] # "exited" => agent[g] # "exited"
  BY <1>1, StillServing DEF Serving
<1>4. LifeInv' BY LifePhase
<1>5. AskInv'
  <2>1. \A g \in Fd, n \in Name : Asking(g, n)' = Asking(g, n) BY <1>1 DEF Asking, reqs
  <2>2. \A r \in Req : pc[r] # "idle" => rfd[r] \in Fd /\ rname[r] \in Name BY DEF TypeOK
  <2> QED BY <1>1, <1>3, <2>1, <2>2 DEF AskInv, reqs, names
<1>6. \A g \in Fd : \A i \in 1..Len(box'[g]) : box'[g][i].type = "reply" =>
         i \in 1..Len(box[g]) /\ box'[g][i] = box[g][i]
  BY <1>2, <1>3, Grown
<1>7. ReplyInv'
  <2> SUFFICES ASSUME NEW g \in Fd, agent'[g] # "exited",
                      NEW i \in 1..Len(box'[g]), box'[g][i].type = "reply"
               PROVE  ReplyAt(g, i)'
    BY DEF ReplyInv
  <2>1. ReplyAt(g, i) BY <1>3, <1>6 DEF ReplyInv
  <2> QED BY <1>1, <1>6, <2>1 DEF ReplyAt, reqs
<1>8. StaleInv'
  <2> SUFFICES ASSUME NEW g \in Fd, NEW n \in Name
               PROVE  /\ cache'[g][n] \notin {Nil, name_addr'[n]} => Told(g, 0)'
                      /\ cache'[g][n] # Nil => Serving(g)'
                      /\ agent'[g] # "exited" =>
                            \A i \in 1..Len(box'[g]) :
                               box'[g][i].type = "reply" /\ rname'[box'[g][i].req] = n
                               /\ box'[g][i].addr \notin {Nil, name_addr'[n]} => Told(g, i)'
    BY DEF StaleInv
  <2>1. \A i \in Nat : Told(g, i) => Told(g, i)' BY <1>1, <1>2, <1>3, ToldGrown
  <2>2. 0 \in Nat /\ \A i \in 1..Len(box[g]) : i \in Nat OBVIOUS
  <2> QED BY <1>1, <1>3, <1>6, <2>1, <2>2 DEF StaleInv, names, reqs
<1> QED BY <1>4, <1>5, <1>7, <1>8

\* The answer of queryname is the last message in the box of the agent that asked, and
\* it is what the name means.
LEMMA QueryStep ==
    ASSUME IndInv, NEW r \in Req, queryname(r)
    PROVE  LifeInv' /\ AskInv' /\ ReplyInv' /\ StaleInv'
<1> USE DEF IndInv
<1> DEFINE fd == rfd[r]
           m == [type |-> "reply", req |-> r, addr |-> name_addr[rname[r]]]
<1>1. fd \in Fd /\ rname[r] \in Name /\ pc[r] = "query" BY DEF queryname, TypeOK
<1>2. m \in AgentMsg /\ m.type = "reply" BY <1>1, Messages DEF TypeOK
<1>3. /\ box' = [box EXCEPT ![fd] = Append(@, m)]
      /\ pc' = [pc EXCEPT ![r] = "answered"]
      /\ UNCHANGED <<names, life, cache, inquery, rfd, rname, same, result, was, missed>>
  BY DEF queryname
<1>4. m.req = r /\ m.addr = name_addr[rname[r]] OBVIOUS
<1>5. Serving(fd) BY <1>1 DEF AskInv
<1> HIDE DEF m, fd
<1>6. \A g \in Fd : box'[g] \in {box[g], Append(box[g], m)} /\ (g # fd => box'[g] = box[g])
  BY <1>1, <1>3 DEF TypeOK
<1>7. \A g \in Fd : (Pending(g, "exit")' <=> Pending(g, "exit")) /\ Serving(g)' = Serving(g)
  BY <1>2, <1>3, <1>6, Grown DEF Serving, life
<1>8. LifeInv'
  <2> SUFFICES ASSUME NEW g \in Fd
               PROVE  Phase(conn[g], inbox[g], cluster_agent[g], launching[g], agent[g],
                            Pending(g, "exit"))'
    BY DEF LifeInv
  <2>1. Phase(conn[g], inbox[g], cluster_agent[g], launching[g], agent[g], Pending(g, "exit"))
    BY DEF LifeInv
  <2> QED BY <1>3, <1>7, <2>1 DEF Phase, life
<1>9. \A q \in Req : pc'[q] = IF q = r THEN "answered" ELSE pc[q] BY <1>3 DEF TypeOK
<1>10. AskInv'
  <2>1. \A g \in Fd, n \in Name : Asking(g, n)' = Asking(g, n)
    BY <1>1, <1>3, <1>9 DEF Asking
  <2>2. \A q \in Req : pc[q] # "idle" => rfd[q] \in Fd /\ rname[q] \in Name BY DEF TypeOK
  <2>3. \A q \in Req : /\ pc'[q] # "idle" => pc[q] # "idle"
                       /\ pc'[q] \in {"wait", "query"} => pc[q] = pc'[q]
    BY <1>1, <1>9
  <2> QED BY <1>3, <1>7, <2>1, <2>2, <2>3 DEF AskInv, names
<1>11. ReplyInv'
  <2> SUFFICES ASSUME NEW g \in Fd, agent'[g] # "exited",
                      NEW i \in 1..Len(box'[g]), box'[g][i].type = "reply"
               PROVE  ReplyAt(g, i)'
    BY DEF ReplyInv
  <2>1. /\ \A j \in 1..Len(box[g]) : box'[g][j] = box[g][j]
        /\ \A j \in 1..Len(box'[g]) : j \in 1..Len(box[g]) \/ (j = Len(box[g]) + 1 /\ g = fd)
        /\ g = fd => box'[g][Len(box[g]) + 1] = m
    <3>1. CASE g # fd
      <4>1. box'[g] = box[g] BY <1>6, <3>1
      <4> QED BY <3>1, <4>1
    <3>2. CASE g = fd
      <4>1. box'[g] = Append(box[g], m) BY <1>1, <1>3, <3>2 DEF TypeOK
      <4>2. Len(box'[g]) = Len(box[g]) + 1 /\ box'[g][Len(box'[g])] = m BY <1>2, <4>1, Sent
      <4>3. Len(box[g]) \in Nat /\ \A j \in 1..Len(box[g]) : box'[g][j] = box[g][j]
        BY <1>2, <1>6, Grown
      <4> QED BY <3>2, <4>2, <4>3
    <3> QED BY <3>1, <3>2
  <2>2. agent[g] # "exited" BY <1>3 DEF life
  <2>3. \A j \in 1..Len(box[g]) : box[g][j].type = "reply" =>
           ReplyAt(g, j) /\ box[g][j].req \in Req /\ box[g][j].req # r
    <3> SUFFICES ASSUME NEW j \in 1..Len(box[g]), box[g][j].type = "reply"
                 PROVE  ReplyAt(g, j) /\ box[g][j].req \in Req /\ box[g][j].req # r
      OBVIOUS
    <3>1. ReplyAt(g, j) BY <2>2 DEF ReplyInv
    <3>2. pc[box[g][j].req] = "answered" BY <3>1 DEF ReplyAt
    <3> QED BY <1>1, <3>1, <3>2, BoxReply
  <2>4. CASE i \in 1..Len(box[g])
    <3>1. ReplyAt(g, i) /\ box[g][i].req \in Req /\ box[g][i].req # r /\ box'[g][i] = box[g][i]
      BY <2>1, <2>3, <2>4
    <3> QED BY <1>3, <1>4, <1>9, <2>1, <3>1 DEF ReplyAt
  <2>5. CASE i = Len(box[g]) + 1 /\ g = fd
    <3>1. box'[g][i] = m BY <2>1, <2>5
    <3>2. \A j \in 1..Len(box'[g]) : box'[g][j].type = "reply" /\ box'[g][j].req = r => j = i
      BY <2>1, <2>3, <2>5
    <3>3. pc'[r] = "answered" /\ rfd'[r] = g /\ m.addr \in was'[r]
      BY <1>1, <1>3, <1>4, <1>9, <2>5 DEF fd, AskInv
    <3> QED BY <1>4, <3>1, <3>2, <3>3 DEF ReplyAt
  <2> QED BY <2>1, <2>4, <2>5
<1>12. StaleInv'
  <2> SUFFICES ASSUME NEW g \in Fd, NEW n \in Name
               PROVE  /\ cache'[g][n] \notin {Nil, name_addr'[n]} => Told(g, 0)'
                      /\ cache'[g][n] # Nil => Serving(g)'
                      /\ agent'[g] # "exited" =>
                            \A i \in 1..Len(box'[g]) :
                               box'[g][i].type = "reply" /\ rname'[box'[g][i].req] = n
                               /\ box'[g][i].addr \notin {Nil, name_addr'[n]} => Told(g, i)'
    BY DEF StaleInv
  <2>1. \A i \in Nat : Told(g, i) => Told(g, i)' BY <1>2, <1>3, <1>6, ToldGrown
  <2>2. 0 \in Nat /\ \A i \in 1..Len(box[g]) : i \in Nat OBVIOUS
  <2>3. \A i \in 1..Len(box'[g]) : \/ i \in 1..Len(box[g]) /\ box'[g][i] = box[g][i]
                                   \/ box'[g][i] = m
    BY <1>2, <1>6, Grown
  <2> QED BY <1>3, <1>4, <1>7, <2>1, <2>2, <2>3 DEF StaleInv, names, life
<1> QED BY <1>8, <1>10, <1>11, <1>12

\* The start of a lookup. The request that asks clusterd is the only one; one that waits
\* takes over what the request it waits for remembers.
LEMMA RequestStep ==
    ASSUME IndInv, NEW r \in Req, NEW fd \in Fd, NEW n \in Name, Request(r, fd, n)
    PROVE  LifeInv' /\ AskInv' /\ ReplyInv' /\ StaleInv'
<1> USE DEF IndInv
<1>1. pc[r] = "idle" /\ Serving(fd) /\ UNCHANGED <<names, life, box, cache, missed>>
  BY DEF Request
<1>2. \A g \in Fd : /\ Serving(g)' = Serving(g)
                    /\ \A t : Pending(g, t)' = Pending(g, t)
                    /\ \A i : Told(g, i)' = Told(g, i)
  BY <1>1 DEF Serving, Pending, Told, life
<1>3. LifeInv'
  <2> SUFFICES ASSUME NEW g \in Fd
               PROVE  Phase(conn[g], inbox[g], cluster_agent[g], launching[g], agent[g],
                            Pending(g, "exit"))'
    BY DEF LifeInv
  <2>1. Phase(conn[g], inbox[g], cluster_agent[g], launching[g], agent[g], Pending(g, "exit"))
    BY DEF LifeInv
  <2> QED BY <1>1, <1>2, <2>1 DEF Phase, life
<1>4. \A q \in Req : q # r => UNCHANGED <<pc[q], rfd[q], rname[q], was[q]>>
  BY DEF Request, TypeOK
<1>5. \A q \in Req : pc[q] # "idle" => rfd[q] \in Fd /\ rname[q] \in Name BY DEF TypeOK
<1>6. AskInv'
  <2>1. CASE cache[fd][n] # Nil
    <3>1. UNCHANGED <<pc, rfd, rname, was, inquery>> BY <2>1 DEF Request
    <3>2. \A g \in Fd, k \in Name : Asking(g, k)' = Asking(g, k) BY <3>1 DEF Asking
    <3> QED BY <1>1, <1>2, <1>5, <3>1, <3>2 DEF AskInv, names
  <2>2. CASE cache[fd][n] = Nil /\ inquery[fd][n] = "none"
    <3>1. /\ pc' = [pc EXCEPT ![r] = "query"] /\ was' = [was EXCEPT ![r] = {name_addr[n]}]
          /\ rfd' = [rfd EXCEPT ![r] = fd] /\ rname' = [rname EXCEPT ![r] = n]
          /\ inquery' = [inquery EXCEPT ![fd][n] = "current"]
      BY <2>2 DEF Request
    <3>2. pc'[r] = "query" /\ rfd'[r] = fd /\ rname'[r] = n /\ was'[r] = {name_addr[n]}
      BY <3>1 DEF TypeOK
    <3>3. inquery'[fd][n] = "current" /\ \A g \in Fd, k \in Name :
             inquery[g][k] # "none" => inquery'[g][k] # "none"
      BY <3>1 DEF TypeOK
    <3>4. \A q \in Req : pc[q] # "idle" => ~(rfd[q] = fd /\ rname[q] = n) BY <2>2 DEF AskInv
    <3>5. \A g \in Fd, k \in Name :
             Asking(g, k)' = IF g = fd /\ k = n THEN {r} ELSE Asking(g, k)
      BY <1>1, <1>4, <3>2, <3>4 DEF Asking
    <3>6. \A q \in Req : (pc[q] # "idle" => Serving(rfd[q]) /\ inquery[rfd[q]][rname[q]] # "none")'
      BY <1>1, <1>2, <1>4, <1>5, <3>2, <3>3 DEF AskInv
    <3>7. ASSUME NEW w \in Req, pc'[w] = "wait", NEW q \in Asking(rfd[w], rname[w])'
          PROVE  was'[q] \subseteq was'[w]
      <4>1. w # r /\ pc[w] = "wait" /\ rfd'[w] = rfd[w] /\ rname'[w] = rname[w]
        BY <1>4, <3>2, <3>7
      <4>2. q \in Asking(rfd[w], rname[w]) BY <1>5, <3>4, <3>5, <3>7, <4>1
      <4>3. q # r BY <1>1, <4>2 DEF Asking
      <4> QED BY <1>4, <4>1, <4>2, <4>3 DEF AskInv, Asking
    <3>8. \A q \in Req : pc'[q] = "query" => name_addr'[rname'[q]] \in was'[q]
      BY <1>1, <1>4, <3>2 DEF AskInv, names
    <3>9. ASSUME NEW g \in Fd, NEW k \in Name, NEW p \in Asking(g, k)', NEW q \in Asking(g, k)'
          PROVE  p = q
      BY <3>5, <3>9 DEF AskInv
    <3> QED BY <3>6, <3>7, <3>8, <3>9 DEF AskInv
  <2>3. CASE cache[fd][n] = Nil /\ inquery[fd][n] # "none"
    <3>1. /\ pc' = [pc EXCEPT ![r] = "wait"]
          /\ was' = [was EXCEPT ![r] = UNION {was[q] : q \in Asking(fd, n)}]
          /\ rfd' = [rfd EXCEPT ![r] = fd] /\ rname' = [rname EXCEPT ![r] = n]
          /\ UNCHANGED inquery
      BY <2>3 DEF Request
    <3>2. /\ pc'[r] = "wait" /\ rfd'[r] = fd /\ rname'[r] = n
          /\ was'[r] = UNION {was[q] : q \in Asking(fd, n)}
      BY <3>1 DEF TypeOK
    <3>3. \A g \in Fd, k \in Name : Asking(g, k)' = Asking(g, k)
      BY <1>1, <1>4, <3>2 DEF Asking
    <3>4. \A g, k : r \notin Asking(g, k) BY <1>1 DEF Asking
    <3>5. ASSUME NEW w \in Req, pc'[w] = "wait", NEW q \in Asking(rfd[w], rname[w])'
          PROVE  was'[q] \subseteq was'[w]
      <4>1. CASE w = r
        <5>1. q \in Asking(fd, n) BY <3>2, <3>3, <3>5, <4>1
        <5>2. was'[q] = was[q] BY <1>4, <3>4, <5>1 DEF Asking
        <5> QED BY <3>2, <4>1, <5>1, <5>2
      <4>2. CASE w # r
        <5>1. pc[w] = "wait" /\ rfd'[w] = rfd[w] /\ rname'[w] = rname[w] /\ was'[w] = was[w]
          BY <1>4, <3>5, <4>2
        <5>2. q \in Asking(rfd[w], rname[w]) BY <1>5, <3>3, <3>5, <5>1
        <5>3. was'[q] = was[q] BY <1>4, <3>4, <5>2 DEF Asking
        <5> QED BY <5>1, <5>2, <5>3 DEF AskInv
      <4> QED BY <4>1, <4>2
    <3>6. \A q \in Req : pc'[q] = "query" => name_addr'[rname'[q]] \in was'[q]
      BY <1>1, <1>4, <3>2 DEF AskInv, names
    <3>7. \A q \in Req : (pc[q] # "idle" => Serving(rfd[q]) /\ inquery[rfd[q]][rname[q]] # "none")'
      BY <1>1, <1>2, <1>4, <1>5, <2>3, <3>1, <3>2 DEF AskInv
    <3> QED BY <3>3, <3>5, <3>6, <3>7 DEF AskInv
  <2> QED BY <2>1, <2>2, <2>3
<1>7. \A g \in Fd : \A i \in 1..Len(box[g]) : agent[g] # "exited" /\ box[g][i].type = "reply" =>
         ReplyAt(g, i) /\ box[g][i].req \in Req /\ box[g][i].req # r
  <2> SUFFICES ASSUME NEW g \in Fd, NEW i \in 1..Len(box[g]), agent[g] # "exited",
                      box[g][i].type = "reply"
               PROVE  ReplyAt(g, i) /\ box[g][i].req \in Req /\ box[g][i].req # r
    OBVIOUS
  <2>1. ReplyAt(g, i) BY DEF ReplyInv
  <2>2. pc[box[g][i].req] = "answered" BY <2>1 DEF ReplyAt
  <2> QED BY <1>1, <2>1, <2>2, BoxReply
<1>8. ReplyInv'
  <2> SUFFICES ASSUME NEW g \in Fd, agent'[g] # "exited",
                      NEW i \in 1..Len(box'[g]), box'[g][i].type = "reply"
               PROVE  ReplyAt(g, i)'
    BY DEF ReplyInv
  <2>1. ReplyAt(g, i) /\ box[g][i].req \in Req /\ box[g][i].req # r
    BY <1>1, <1>7 DEF life
  <2> QED BY <1>1, <1>4, <2>1 DEF ReplyAt
<1>9. StaleInv'
  <2> SUFFICES ASSUME NEW g \in Fd, NEW k \in Name
               PROVE  /\ cache'[g][k] \notin {Nil, name_addr'[k]} => Told(g, 0)'
                      /\ cache'[g][k] # Nil => Serving(g)'
                      /\ agent'[g] # "exited" =>
                            \A i \in 1..Len(box'[g]) :
                               box'[g][i].type = "reply" /\ rname'[box'[g][i].req] = k
                               /\ box'[g][i].addr \notin {Nil, name_addr'[k]} => Told(g, i)'
    BY DEF StaleInv
  <2> QED BY <1>1, <1>2, <1>4, <1>7 DEF StaleInv, names, life
<1> QED BY <1>3, <1>6, <1>8, <1>9

\* An agent stays told when it takes another message than its exit.
LEMMA ToldTaken ==
    ASSUME TypeOK, NEW fd \in Fd, box[fd] # <<>>, box' = [box EXCEPT ![fd] = Tail(@)],
           Head(box[fd]).type # "exit", UNCHANGED missed
    PROVE  /\ \A i \in Nat : Told(fd, i + 1) => Told(fd, i)'
           /\ Head(box[fd]).type # "namechange" => (Told(fd, 0) => Told(fd, 0)')
           /\ \A g \in Fd \ {fd} : \A i \in Nat : Told(g, i)' = Told(g, i)
<1>1. ASSUME NEW i \in Nat, NEW j \in 1..Len(box[fd]), j > 1, j > i + 1,
             box[fd][j].type = "namechange"
      PROVE  Told(fd, i)'
  <2>1. j - 1 \in 1..Len(box'[fd]) /\ box'[fd][j - 1] = box[fd][j] BY <1>1, Taken
  <2>2. j - 1 > i BY <1>1
  <2> QED BY <1>1, <2>1, <2>2 DEF Told
<1>2. Pending(fd, "exit") => Pending(fd, "exit")' BY Taken
<1>3. ASSUME NEW i \in Nat, Told(fd, i + 1) PROVE Told(fd, i)'
  <2>1. CASE \E j \in 1..Len(box[fd]) : j > i + 1 /\ box[fd][j].type = "namechange"
    BY <1>1, <2>1
  <2>2. CASE Pending(fd, "exit") \/ missed[fd] BY <1>2, <2>2 DEF Told
  <2> QED BY <1>3, <2>1, <2>2 DEF Told
<1>4. ASSUME Head(box[fd]).type # "namechange", Told(fd, 0) PROVE Told(fd, 0)'
  <2>1. CASE \E j \in 1..Len(box[fd]) : j > 0 /\ box[fd][j].type = "namechange"
    <3>1. PICK j \in 1..Len(box[fd]) : box[fd][j].type = "namechange" BY <2>1
    <3>2. j > 1 BY <1>4, <3>1, Taken
    <3> QED BY <1>1, <3>1, <3>2
  <2>2. CASE Pending(fd, "exit") \/ missed[fd] BY <1>2, <2>2 DEF Told
  <2> QED BY <1>4, <2>1, <2>2 DEF Told
<1>5. \A g \in Fd \ {fd} : \A i \in Nat : Told(g, i)' = Told(g, i)
  <2>1. \A g \in Fd \ {fd} : box'[g] = box[g] BY Taken
  <2> QED BY <2>1 DEF Told, Pending
<1> QED BY <1>3, <1>4, <1>5

\* An agent takes an answer or a namechange: its life goes on.
LEMMA LifeTaken ==
    ASSUME TypeOK, LifeInv, NEW fd \in Fd, box[fd] # <<>>,
           box' = [box EXCEPT ![fd] = Tail(@)], UNCHANGED life,
           Head(box[fd]).type # "exit" \/ agent[fd] = "exited"
    PROVE  LifeInv'
<1> SUFFICES ASSUME NEW g \in Fd
             PROVE  Phase(conn[g], inbox[g], cluster_agent[g], launching[g], agent[g],
                          Pending(g, "exit"))'
  BY DEF LifeInv
<1>1. Phase(conn[g], inbox[g], cluster_agent[g], launching[g], agent[g], Pending(g, "exit"))
  BY DEF LifeInv
<1>2. CASE g # fd
  <2>1. box'[g] = box[g] BY <1>2, Taken
  <2>2. Pending(g, "exit")' = Pending(g, "exit") BY <2>1 DEF Pending
  <2> QED BY <1>1, <2>2 DEF Phase, life
<1>3. CASE g = fd /\ Head(box[fd]).type # "exit"
  <2>1. Pending(g, "exit")' <=> Pending(g, "exit") BY <1>3, Taken
  <2> QED BY <1>1, <2>1 DEF Phase, life
<1>4. CASE g = fd /\ agent[fd] = "exited" BY <1>1, <1>4 DEF Phase, Starting, life
<1> QED BY <1>2, <1>3, <1>4

\* The requests that end: the others keep their agent, their name and what they remember.
LEMMA Finished ==
    ASSUME TypeOK, NEW done \in SUBSET Req, Finish(done)
    PROVE  /\ \A q \in Req \ done : UNCHANGED <<pc[q], rfd[q], rname[q], same[q], was[q]>>
           /\ \A q \in done : pc'[q] = "idle"
           /\ \A fd \in Fd, n \in Name : Asking(fd, n)' \subseteq Asking(fd, n) \ done
<1>1. /\ \A q \in Req \ done : UNCHANGED <<pc[q], rfd[q], rname[q], same[q], was[q]>>
      /\ \A q \in done : pc'[q] = "idle"
  BY DEF Finish
<1> QED BY <1>1 DEF Asking

\* What is left of the requests' invariant when some of them end.
LEMMA AskFinish ==
    ASSUME IndInv, NEW done \in SUBSET Req, Finish(done), UNCHANGED names,
           \A q \in Req \ done : pc[q] # "idle" =>
               (Serving(rfd[q]) /\ inquery[rfd[q]][rname[q]] # "none")'
    PROVE  AskInv'
<1> USE DEF IndInv
<1>1. /\ \A q \in Req \ done : UNCHANGED <<pc[q], rfd[q], rname[q], same[q], was[q]>>
      /\ \A q \in done : pc'[q] = "idle"
      /\ \A fd \in Fd, n \in Name : Asking(fd, n)' \subseteq Asking(fd, n) \ done
  BY Finished
<1>2. \A q \in Req : pc'[q] # "idle" => q \in Req \ done /\ pc[q] = pc'[q] BY <1>1
<1>3. \A q \in Req : pc[q] # "idle" => rfd[q] \in Fd /\ rname[q] \in Name BY DEF TypeOK
<1>4. \A q \in Req : (pc[q] # "idle" => Serving(rfd[q]) /\ inquery[rfd[q]][rname[q]] # "none")'
  BY <1>1, <1>2
<1>5. ASSUME NEW fd \in Fd, NEW n \in Name, NEW p \in Asking(fd, n)', NEW q \in Asking(fd, n)'
      PROVE  p = q
  BY <1>1, <1>5 DEF AskInv
<1>6. ASSUME NEW w \in Req, pc'[w] = "wait", NEW q \in Asking(rfd[w], rname[w])'
      PROVE  was'[q] \subseteq was'[w]
  <2>1. /\ w \in Req \ done /\ pc[w] = "wait" /\ was'[w] = was[w]
        /\ rfd'[w] = rfd[w] /\ rname'[w] = rname[w]
    BY <1>1, <1>2, <1>6
  <2>2. q \in Asking(rfd[w], rname[w]) /\ q \notin done BY <1>1, <1>3, <1>6, <2>1
  <2>3. was'[q] = was[q] BY <1>1, <2>2 DEF Asking
  <2> QED BY <2>1, <2>2, <2>3 DEF AskInv
<1>7. \A q \in Req : pc'[q] = "query" => name_addr'[rname'[q]] \in was'[q]
  BY <1>1, <1>2 DEF AskInv, names
<1> QED BY <1>4, <1>5, <1>6, <1>7 DEF AskInv

\* What Reply knows of the answer it takes.
LEMMA ReplyFacts ==
    ASSUME IndInv, NEW fd \in Fd, Reply(fd)
    PROVE  LET m == Head(box[fd])
               r == m.req
           IN  /\ r \in Req /\ rname[r] \in Name /\ m.addr \in Addr \cup {Nil}
               /\ pc[r] = "answered" /\ rfd[r] = fd /\ Serving(fd)
               /\ m.addr \in was[r]
               /\ \A j \in 1..Len(box[fd]) : box[fd][j].type = "reply" /\ box[fd][j].req = r => j = 1
               /\ m.addr \notin {Nil, name_addr[rname[r]]} => Told(fd, 1)
<1> USE DEF IndInv
<1>1. /\ box[fd] # <<>> /\ Head(box[fd]).type = "reply" /\ agent[fd] # "exited"
      /\ box' = [box EXCEPT ![fd] = Tail(@)]
  BY DEF Reply
<1>2. Head(box[fd]) = box[fd][1] /\ 1 \in 1..Len(box[fd]) BY <1>1, Taken
<1> DEFINE m == Head(box[fd])
           r == m.req
<1>3. r \in Req /\ m.addr \in Addr \cup {Nil} BY <1>1, <1>2, BoxReply
<1>4. ReplyAt(fd, 1) BY <1>1, <1>2 DEF ReplyInv
<1>5. /\ pc[r] = "answered" /\ rfd[r] = fd /\ m.addr \in was[r]
      /\ \A j \in 1..Len(box[fd]) : box[fd][j].type = "reply" /\ box[fd][j].req = r => j = 1
  BY <1>2, <1>4 DEF ReplyAt
<1>6. rname[r] \in Name /\ Serving(fd) BY <1>3, <1>5 DEF AskInv, TypeOK
<1>7. m.addr \notin {Nil, name_addr[rname[r]]} => Told(fd, 1)
  BY <1>1, <1>2, <1>6 DEF StaleInv
<1> QED BY <1>3, <1>5, <1>6, <1>7

\* An answer fills the cache and ends the request with all that wait for it.
LEMMA ReplyStep ==
    ASSUME IndInv, NEW fd \in Fd, Reply(fd)
    PROVE  LifeInv' /\ AskInv' /\ ReplyInv' /\ StaleInv'
<1> USE DEF IndInv
<1> DEFINE m == Head(box[fd])
           r == m.req
           done == Waiters(r) \cup {r}
<1>1. /\ box[fd] # <<>> /\ m.type = "reply" /\ agent[fd] # "exited"
      /\ box' = [box EXCEPT ![fd] = Tail(@)]
      /\ Fill(fd, rname[r], m.addr) /\ Finish(done)
      /\ inquery' = [inquery EXCEPT ![fd][rname[r]] = "none"]
      /\ UNCHANGED <<names, life, missed>>
  BY DEF Reply
<1>2. /\ r \in Req /\ rname[r] \in Name /\ m.addr \in Addr \cup {Nil}
      /\ pc[r] = "answered" /\ rfd[r] = fd /\ Serving(fd)
      /\ \A j \in 1..Len(box[fd]) : box[fd][j].type = "reply" /\ box[fd][j].req = r => j = 1
      /\ m.addr \notin {Nil, name_addr[rname[r]]} => Told(fd, 1)
  BY ReplyFacts
<1>3. /\ done \in SUBSET Req
      /\ \A q \in done : rfd[q] = fd /\ rname[q] = rname[r] /\ (q # r => pc[q] = "wait")
  BY <1>2 DEF Waiters
<1>4. \A q \in Req \ done : pc[q] # "idle" => ~(rfd[q] = fd /\ rname[q] = rname[r])
  <2> SUFFICES ASSUME NEW q \in Req, q \notin done, pc[q] # "idle",
                      rfd[q] = fd, rname[q] = rname[r]
               PROVE  FALSE
    OBVIOUS
  <2>1. pc[q] # "wait" BY <1>2 DEF Waiters
  <2>2. q \in Asking(fd, rname[r]) /\ r \in Asking(fd, rname[r])
    BY <1>2, <2>1 DEF Asking, TypeOK
  <2> QED BY <1>2, <2>2 DEF AskInv
<1> HIDE DEF done, r, m
<1>5. \A g \in Fd : Serving(g)' = Serving(g) BY <1>1 DEF Serving, life
<1>6. LifeInv' BY <1>1, LifeTaken DEF m
<1>7. AskInv'
  <2>1. \A q \in Req \ done : pc[q] # "idle" =>
           (Serving(rfd[q]) /\ inquery[rfd[q]][rname[q]] # "none")'
    <3> SUFFICES ASSUME NEW q \in Req \ done, pc[q] # "idle"
                 PROVE  (Serving(rfd[q]) /\ inquery[rfd[q]][rname[q]] # "none")'
      OBVIOUS
    <3>1. rfd[q] \in Fd /\ rname[q] \in Name /\ ~(rfd[q] = fd /\ rname[q] = rname[r])
      BY <1>4 DEF TypeOK
    <3>2. rfd'[q] = rfd[q] /\ rname'[q] = rname[q] BY <1>1, <1>3, Finished
    <3>3. inquery'[rfd[q]][rname[q]] = inquery[rfd[q]][rname[q]] BY <1>1, <1>2, <3>1 DEF TypeOK
    <3>4. Serving(rfd[q]) /\ inquery[rfd[q]][rname[q]] # "none" BY DEF AskInv
    <3> QED BY <1>5, <3>1, <3>2, <3>3, <3>4
  <2> QED BY <1>1, <1>3, <2>1, AskFinish
<1>8. ASSUME NEW g \in Fd, NEW i \in 1..Len(box'[g]), agent'[g] # "exited", box'[g][i].type = "reply"
      PROVE  \E k \in 1..Len(box[g]) :
                /\ k = (IF g = fd THEN i + 1 ELSE i) /\ box'[g][i] = box[g][k]
                /\ ReplyAt(g, k) /\ box[g][k].req \in Req \ done
  <2> DEFINE k == IF g = fd THEN i + 1 ELSE i
  <2>1. k \in 1..Len(box[g]) /\ box'[g][i] = box[g][k] BY ZenonT(40), <1>1, <1>8, Taken DEF m
  <2>2. ReplyAt(g, k) BY <1>1, <1>8, <2>1 DEF ReplyInv, life
  <2>3. pc[box[g][k].req] = "answered" /\ rfd[box[g][k].req] = g BY <2>2 DEF ReplyAt
  <2>4. box[g][k].req \in Req BY <1>8, <2>1, BoxReply
  <2>5. box[g][k].req # r
    <3>1. CASE g = fd
      <4>1. k # 1 BY <3>1
      <4> QED BY <1>2, <1>8, <2>1, <3>1, <4>1
    <3>2. CASE g # fd BY <1>2, <2>3, <3>2
    <3> QED BY <3>1, <3>2
  <2> QED BY <1>3, <2>1, <2>2, <2>3, <2>4, <2>5
<1>9. ReplyInv'
  <2> SUFFICES ASSUME NEW g \in Fd, agent'[g] # "exited",
                      NEW i \in 1..Len(box'[g]), box'[g][i].type = "reply"
               PROVE  ReplyAt(g, i)'
    BY DEF ReplyInv
  <2>1. PICK k \in 1..Len(box[g]) :
                /\ k = (IF g = fd THEN i + 1 ELSE i) /\ box'[g][i] = box[g][k]
                /\ ReplyAt(g, k) /\ box[g][k].req \in Req \ done
    BY <1>8
  <2>2. \A q \in Req \ done : pc'[q] = pc[q] /\ rfd'[q] = rfd[q] /\ was'[q] = was[q]
    BY <1>1, <1>3, Finished
  <2>3. ASSUME NEW j \in 1..Len(box'[g]), box'[g][j].type = "reply", box'[g][j].req = box[g][k].req
        PROVE  j = i
    <3>1. PICK h \in 1..Len(box[g]) :
              h = (IF g = fd THEN j + 1 ELSE j) /\ box'[g][j] = box[g][h]
      BY <1>8, <2>3
    <3>2. h = k BY <2>1, <2>3, <3>1 DEF ReplyAt
    <3> QED BY <2>1, <3>1, <3>2
  <2> QED BY <2>1, <2>2, <2>3 DEF ReplyAt
<1>10. StaleInv'
  <2> SUFFICES ASSUME NEW g \in Fd, NEW n \in Name
               PROVE  /\ cache'[g][n] \notin {Nil, name_addr'[n]} => Told(g, 0)'
                      /\ cache'[g][n] # Nil => Serving(g)'
                      /\ agent'[g] # "exited" =>
                            \A i \in 1..Len(box'[g]) :
                               box'[g][i].type = "reply" /\ rname'[box'[g][i].req] = n
                               /\ box'[g][i].addr \notin {Nil, name_addr'[n]} => Told(g, i)'
    BY DEF StaleInv
  <2>1. /\ \A i \in Nat : Told(fd, i + 1) => Told(fd, i)'
        /\ Told(fd, 0) => Told(fd, 0)'
        /\ \A h \in Fd \ {fd} : \A i \in Nat : Told(h, i)' = Told(h, i)
    BY <1>1, ToldTaken DEF m
  <2>2. \/ cache'[g][n] = cache[g][n]
        \/ g = fd /\ n = rname[r] /\ cache'[g][n] = m.addr
    BY <1>1, <1>2 DEF Fill, TypeOK
  <2>3. cache[g][n] \notin {Nil, name_addr[n]} => Told(g, 0)' BY <2>1 DEF StaleInv
  <2>4. m.addr \notin {Nil, name_addr[rname[r]]} => Told(fd, 0)'
    <3>1. Told(fd, 0 + 1) => Told(fd, 0)' BY <2>1
    <3> QED BY <1>2, <3>1
  <2>5. cache'[g][n] \notin {Nil, name_addr'[n]} => Told(g, 0)'
    BY <1>1, <2>2, <2>3, <2>4 DEF names
  <2>6. cache'[g][n] # Nil => Serving(g)' BY <1>2, <1>5, <2>2 DEF StaleInv
  <2>7. ASSUME agent'[g] # "exited", NEW i \in 1..Len(box'[g]), box'[g][i].type = "reply",
               rname'[box'[g][i].req] = n, box'[g][i].addr \notin {Nil, name_addr'[n]}
        PROVE  Told(g, i)'
    <3>1. PICK k \in 1..Len(box[g]) :
                  /\ k = (IF g = fd THEN i + 1 ELSE i) /\ box'[g][i] = box[g][k]
                  /\ box[g][k].req \in Req \ done
      BY <1>8, <2>7
    <3>2. rname[box[g][k].req] = n BY <1>1, <1>3, <2>7, <3>1, Finished
    <3>3. Told(g, k) BY <1>1, <2>7, <3>1, <3>2 DEF StaleInv, names, life
    <3>4. i \in Nat OBVIOUS
    <3> QED BY <2>1, <3>1, <3>3, <3>4
  <2> QED BY <2>5, <2>6, <2>7
<1> QED BY <1>6, <1>7, <1>9, <1>10

\* namechange empties the cache; the answers behind it stay true to what they say.
LEMMA ChangeStep ==
    ASSUME IndInv, NEW fd \in Fd, namechange(fd)
    PROVE  LifeInv' /\ AskInv' /\ ReplyInv' /\ StaleInv'
<1> USE DEF IndInv
<1>1. /\ box[fd] # <<>> /\ Head(box[fd]).type = "namechange"
      /\ box' = [box EXCEPT ![fd] = Tail(@)]
      /\ cache' = [cache EXCEPT ![fd] = [n \in Name |-> Nil]]
      /\ inquery' = [inquery EXCEPT ![fd] = Replaced(@)]
      /\ UNCHANGED <<names, life, reqs, missed>>
  BY DEF namechange
<1>2. \A g \in Fd : Serving(g)' = Serving(g) BY <1>1 DEF Serving, life
<1>3. LifeInv' BY <1>1, LifeTaken
<1>4. AskInv'
  <2>1. \A g \in Fd, n \in Name : Asking(g, n)' = Asking(g, n) BY <1>1 DEF Asking, reqs
  <2>2. \A r \in Req : pc[r] # "idle" => rfd[r] \in Fd /\ rname[r] \in Name BY DEF TypeOK
  <2>3. \A g \in Fd, n \in Name : inquery[g][n] # "none" => inquery'[g][n] # "none"
    BY <1>1 DEF Replaced, TypeOK
  <2> QED BY <1>1, <1>2, <2>1, <2>2, <2>3 DEF AskInv, reqs, names
<1>5. \A g \in Fd : \A i \in 1..Len(box'[g]) :
         LET k == IF g = fd THEN i + 1 ELSE i
         IN  k \in 1..Len(box[g]) /\ box'[g][i] = box[g][k]
  <2>1. /\ \A g \in Fd \ {fd} : box'[g] = box[g]
        /\ \A i \in 1..Len(box'[fd]) : i + 1 \in 1..Len(box[fd]) /\ box'[fd][i] = box[fd][i + 1]
    BY <1>1, Taken
  <2> QED BY <2>1
<1>6. ReplyInv'
  <2> SUFFICES ASSUME NEW g \in Fd, agent'[g] # "exited",
                      NEW i \in 1..Len(box'[g]), box'[g][i].type = "reply"
               PROVE  ReplyAt(g, i)'
    BY DEF ReplyInv
  <2> DEFINE k == IF g = fd THEN i + 1 ELSE i
  <2>1. k \in 1..Len(box[g]) /\ box'[g][i] = box[g][k] BY <1>5
  <2>2. ReplyAt(g, k) BY <1>1, <2>1 DEF ReplyInv, life
  <2>3. ASSUME NEW j \in 1..Len(box'[g]), box'[g][j].type = "reply", box'[g][j].req = box[g][k].req
        PROVE  j = i
    <3> DEFINE h == IF g = fd THEN j + 1 ELSE j
    <3>1. h \in 1..Len(box[g]) /\ box'[g][j] = box[g][h] BY <1>5
    <3>2. h = k BY <2>1, <2>2, <2>3, <3>1 DEF ReplyAt
    <3> QED BY <3>2
  <2> QED BY <1>1, <2>1, <2>2, <2>3 DEF ReplyAt, reqs
<1>7. StaleInv'
  <2> SUFFICES ASSUME NEW g \in Fd, NEW n \in Name
               PROVE  /\ cache'[g][n] \notin {Nil, name_addr'[n]} => Told(g, 0)'
                      /\ cache'[g][n] # Nil => Serving(g)'
                      /\ agent'[g] # "exited" =>
                            \A i \in 1..Len(box'[g]) :
                               box'[g][i].type = "reply" /\ rname'[box'[g][i].req] = n
                               /\ box'[g][i].addr \notin {Nil, name_addr'[n]} => Told(g, i)'
    BY DEF StaleInv
  <2>1. /\ \A i \in Nat : Told(fd, i + 1) => Told(fd, i)'
        /\ \A h \in Fd \ {fd} : \A i \in Nat : Told(h, i)' = Told(h, i)
    BY <1>1, ToldTaken
  <2>2. cache'[g][n] = IF g = fd THEN Nil ELSE cache[g][n] BY <1>1 DEF TypeOK
  <2>3. cache'[g][n] \notin {Nil, name_addr'[n]} => Told(g, 0)'
    BY <1>1, <2>1, <2>2 DEF StaleInv, names
  <2>4. cache'[g][n] # Nil => Serving(g)' BY <1>2, <2>2 DEF StaleInv
  <2>5. ASSUME agent'[g] # "exited", NEW i \in 1..Len(box'[g]), box'[g][i].type = "reply",
               rname'[box'[g][i].req] = n, box'[g][i].addr \notin {Nil, name_addr'[n]}
        PROVE  Told(g, i)'
    <3> DEFINE k == IF g = fd THEN i + 1 ELSE i
    <3>1. k \in 1..Len(box[g]) /\ box'[g][i] = box[g][k] BY <1>5
    <3>2. Told(g, k) BY <1>1, <2>5, <3>1 DEF StaleInv, names, life, reqs
    <3> QED BY <2>1, <3>2
  <2> QED BY <2>3, <2>4, <2>5
<1> QED BY <1>3, <1>4, <1>6, <1>7

\* The agent exits, and its requests with it.
LEMMA ExitStep ==
    ASSUME IndInv, NEW fd \in Fd, exit(fd)
    PROVE  LifeInv' /\ AskInv' /\ ReplyInv' /\ StaleInv'
<1> USE DEF IndInv
<1> DEFINE dead == {r \in Req : rfd[r] = fd}
<1>1. /\ box[fd] # <<>> /\ Head(box[fd]).type = "exit" /\ agent[fd] = "ready"
      /\ box' = [box EXCEPT ![fd] = Tail(@)]
      /\ agent' = [agent EXCEPT ![fd] = "exited"]
      /\ cache' = [cache EXCEPT ![fd] = [n \in Name |-> Nil]]
      /\ inquery' = [inquery EXCEPT ![fd] = [n \in Name |-> "none"]]
      /\ Finish(dead)
      /\ UNCHANGED <<names, cluster_agent, launching, inbox, conn, missed>>
  BY DEF exit
<1>2. dead \in SUBSET Req /\ \A q \in Req \ dead : rfd[q] # fd OBVIOUS
<1> HIDE DEF dead
<1>3. \A g \in Fd \ {fd} : /\ box'[g] = box[g] /\ agent'[g] = agent[g] /\ cache'[g] = cache[g]
                           /\ inquery'[g] = inquery[g]
                           /\ Serving(g)' = Serving(g) /\ Pending(g, "exit")' = Pending(g, "exit")
                           /\ \A i : Told(g, i)' = Told(g, i)
  <2>1. \A g \in Fd \ {fd} : /\ box'[g] = box[g] /\ agent'[g] = agent[g] /\ cache'[g] = cache[g]
                             /\ inquery'[g] = inquery[g]
    BY <1>1 DEF TypeOK
  <2> QED BY <1>1, <2>1 DEF Serving, Pending, Told
<1>4. agent'[fd] = "exited" /\ \A n \in Name : cache'[fd][n] = Nil BY <1>1 DEF TypeOK
<1>5. LifeInv'
  <2>1. \A g \in Fd : Phase(conn[g], inbox[g], cluster_agent[g], launching[g], agent[g],
                            Pending(g, "exit"))
    BY DEF LifeInv
  <2>2. Pending(fd, "exit")
    <3>1. Head(box[fd]) = box[fd][1] /\ 1 \in 1..Len(box[fd]) BY <1>1, Taken
    <3> QED BY <1>1, <3>1 DEF Pending
  <2>3. Phase(conn[fd], inbox[fd], cluster_agent[fd], launching[fd], agent[fd],
              Pending(fd, "exit"))'
    BY <1>1, <1>4, <2>1, <2>2 DEF Phase, Starting
  <2>4. \A g \in Fd \ {fd} : Phase(conn[g], inbox[g], cluster_agent[g], launching[g], agent[g],
                                   Pending(g, "exit"))'
    BY <1>1, <1>3, <2>1
  <2> QED BY <2>3, <2>4 DEF LifeInv
<1>6. AskInv'
  <2>1. \A q \in Req \ dead : pc[q] # "idle" =>
           (Serving(rfd[q]) /\ inquery[rfd[q]][rname[q]] # "none")'
    <3> SUFFICES ASSUME NEW q \in Req \ dead, pc[q] # "idle"
                 PROVE  (Serving(rfd[q]) /\ inquery[rfd[q]][rname[q]] # "none")'
      OBVIOUS
    <3>1. rfd[q] \in Fd \ {fd} BY <1>2 DEF TypeOK
    <3>2. rfd'[q] = rfd[q] /\ rname'[q] = rname[q] BY <1>1, <1>2, Finished
    <3> QED BY <1>3, <3>1, <3>2 DEF AskInv
  <2> QED BY <1>1, <1>2, <2>1, AskFinish
<1>7. ASSUME NEW g \in Fd, agent'[g] # "exited",
             NEW i \in 1..Len(box'[g]), box'[g][i].type = "reply"
      PROVE  /\ g \in Fd \ {fd} /\ i \in 1..Len(box[g]) /\ box[g][i].req \in Req \ dead
             /\ agent[g] # "exited" /\ box[g][i].type = "reply" /\ ReplyAt(g, i)
  <2>1. /\ g \in Fd \ {fd} /\ i \in 1..Len(box[g])
        /\ agent[g] # "exited" /\ box[g][i].type = "reply"
    BY <1>3, <1>4, <1>7
  <2>2. ReplyAt(g, i) BY <2>1 DEF ReplyInv
  <2>3. rfd[box[g][i].req] = g BY <2>2 DEF ReplyAt
  <2> QED BY <2>1, <2>2, <2>3, BoxReply DEF dead
<1>8. ReplyInv'
  <2> SUFFICES ASSUME NEW g \in Fd, agent'[g] # "exited",
                      NEW i \in 1..Len(box'[g]), box'[g][i].type = "reply"
               PROVE  ReplyAt(g, i)'
    BY DEF ReplyInv
  <2>1. \A q \in Req \ dead : pc'[q] = pc[q] /\ rfd'[q] = rfd[q] /\ was'[q] = was[q]
    BY <1>1, <1>2, Finished
  <2> QED BY <1>3, <1>7, <2>1 DEF ReplyAt
<1>9. StaleInv'
  <2> SUFFICES ASSUME NEW g \in Fd, NEW n \in Name
               PROVE  /\ cache'[g][n] \notin {Nil, name_addr'[n]} => Told(g, 0)'
                      /\ cache'[g][n] # Nil => Serving(g)'
                      /\ agent'[g] # "exited" =>
                            \A i \in 1..Len(box'[g]) :
                               box'[g][i].type = "reply" /\ rname'[box'[g][i].req] = n
                               /\ box'[g][i].addr \notin {Nil, name_addr'[n]} => Told(g, i)'
    BY DEF StaleInv
  <2>1. \A q \in Req \ dead : rname'[q] = rname[q] BY <1>1, <1>2, Finished
  <2>2. CASE g = fd BY <1>4, <2>2
  <2>3. CASE g # fd BY <1>1, <1>3, <1>7, <2>1, <2>3 DEF StaleInv, names
  <2> QED BY <2>2, <2>3
<1> QED BY <1>5, <1>6, <1>8, <1>9

\* What comes after the exit is dropped.
LEMMA DropStep ==
    ASSUME IndInv, NEW fd \in Fd, DropMessage(fd)
    PROVE  LifeInv' /\ AskInv' /\ ReplyInv' /\ StaleInv'
<1> USE DEF IndInv
<1>1. /\ box[fd] # <<>> /\ agent[fd] = "exited" /\ box' = [box EXCEPT ![fd] = Tail(@)]
      /\ UNCHANGED <<names, life, cache, inquery, reqs, missed>>
  BY DEF DropMessage
<1>2. \A g \in Fd : Serving(g)' = Serving(g) /\ agent'[g] = agent[g] BY <1>1 DEF Serving, life
<1>3. \A g \in Fd : agent[g] # "exited" => box'[g] = box[g] /\ \A i : Told(g, i)' = Told(g, i)
  <2>1. \A g \in Fd : agent[g] # "exited" => box'[g] = box[g] BY <1>1, Taken
  <2> QED BY <1>1, <2>1 DEF Told, Pending
<1>4. LifeInv' BY <1>1, LifeTaken
<1>5. AskInv'
  <2>1. \A g \in Fd, n \in Name : Asking(g, n)' = Asking(g, n) BY <1>1 DEF Asking, reqs
  <2>2. \A r \in Req : pc[r] # "idle" => rfd[r] \in Fd /\ rname[r] \in Name BY DEF TypeOK
  <2> QED BY <1>1, <1>2, <2>1, <2>2 DEF AskInv, reqs, names
<1>6. ReplyInv'
  <2> SUFFICES ASSUME NEW g \in Fd, agent'[g] # "exited",
                      NEW i \in 1..Len(box'[g]), box'[g][i].type = "reply"
               PROVE  ReplyAt(g, i)'
    BY DEF ReplyInv
  <2>1. ReplyAt(g, i) /\ box'[g] = box[g] BY <1>2, <1>3 DEF ReplyInv
  <2> QED BY <1>1, <2>1 DEF ReplyAt, reqs
<1>7. \A g \in Fd, n \in Name : cache[g][n] # Nil => agent[g] # "exited"
  BY DEF StaleInv, Serving
<1>8. StaleInv' BY <1>1, <1>2, <1>3, <1>7 DEF StaleInv, names, reqs
<1> QED BY <1>4, <1>5, <1>6, <1>8

-----------------------------------------------------------------------------
\* Every step keeps the invariant of the names and their caches.
LEMMA IndInvStep == IndInv /\ TypeOK' /\ [Next]_vars => IndInv'
<1> SUFFICES ASSUME IndInv, TypeOK', [Next]_vars PROVE IndInv' OBVIOUS
<1>1. CASE UNCHANGED vars
  <2>1. /\ \A fd \in Fd : \A t : Pending(fd, t)' = Pending(fd, t)
        /\ \A fd \in Fd : \A i : Told(fd, i)' = Told(fd, i) /\ ReplyAt(fd, i)' = ReplyAt(fd, i)
        /\ \A fd, n : Asking(fd, n)' = Asking(fd, n)
        /\ \A fd : Serving(fd)' = Serving(fd)
    BY <1>1 DEF vars, life, reqs, Pending, Told, ReplyAt, Asking, Serving
  <2>2. LifeInv' BY <1>1, <2>1 DEF IndInv, LifeInv, vars, life
  <2>3. AskInv' BY <1>1, <2>1 DEF IndInv, AskInv, vars, names, reqs
  <2>4. ReplyInv' BY <1>1, <2>1 DEF IndInv, ReplyInv, vars, life
  <2>5. StaleInv' BY <1>1, <2>1 DEF IndInv, StaleInv, vars, names, life, reqs
  <2> QED BY <2>2, <2>3, <2>4, <2>5 DEF IndInv
<1>2. CASE Next
  <2>1. LifeInv' /\ AskInv' /\ ReplyInv' /\ StaleInv'
    BY <1>2, NamesStep, QueryStep, RequestStep, LifeStep, ReplyStep, ChangeStep, ExitStep, DropStep
       DEF Next, Agent
  <2> QED BY <2>1 DEF IndInv
<1> QED BY <1>1, <1>2

\* The invariant of the names and their caches holds.
THEOREM IndInvHolds == Spec => []IndInv
<1>1. Init => IndInv
  <2> SUFFICES ASSUME Init PROVE IndInv OBVIOUS
  <2>1. TypeOK BY EmptySeq DEF Init, TypeOK, AgentState
  <2>2. \A fd \in Fd : Len(box[fd]) = 0 /\ \A t : ~Pending(fd, t)
    BY EmptySeq DEF Init, Pending
  <2>3. LifeInv BY <2>2 DEF Init, LifeInv, Phase
  <2>4. AskInv BY DEF Init, AskInv, Asking
  <2>5. ReplyInv BY <2>2 DEF ReplyInv
  <2>6. StaleInv BY <2>2 DEF Init, StaleInv
  <2> QED BY <2>1, <2>3, <2>4, <2>5, <2>6 DEF IndInv
<1> QED BY <1>1, IndInvStep, TypeCorrect, PTL DEF Spec

\* A closed connection leaves no agent behind, also when it was closed while clusterd
\* was still in newservice: its agent was never started, or has exited.
THEOREM NoOrphanAgentHolds == Spec => []NoOrphanAgent
<1>1. IndInv => NoOrphanAgent
  <2> SUFFICES ASSUME IndInv, NEW fd \in Fd,
                      conn[fd] = "closed", inbox[fd] = <<>>, ~launching[fd], box[fd] = <<>>
               PROVE  agent[fd] \in {"failed", "exited"}
    BY DEF NoOrphanAgent
  <2>1. ~Pending(fd, "exit") BY EmptySeq DEF Pending
  <2>2. Phase(conn[fd], inbox[fd], cluster_agent[fd], launching[fd], agent[fd],
              Pending(fd, "exit"))
    BY DEF IndInv, LifeInv
  <2> QED BY <2>1, <2>2, Queues DEF Phase
<1> QED BY <1>1, IndInvHolds, PTL

\* An agent never keeps an outdated address without being told: a namechange, or its
\* exit, is in its mailbox, unless the change came before clusterd knew the agent.
THEOREM CacheCoherentHolds == Spec => []CacheCoherent
<1>1. IndInv => CacheCoherent
  <2> SUFFICES ASSUME IndInv, NEW fd \in Fd, NEW n \in Name,
                      cache[fd][n] \notin {Nil, name_addr[n]}
               PROVE  Pending(fd, "namechange") \/ Pending(fd, "exit") \/ missed[fd]
    BY DEF CacheCoherent
  <2>1. Told(fd, 0) BY DEF IndInv, StaleInv
  <2> QED BY <2>1 DEF Told, Pending
<1> QED BY <1>1, IndInvHolds, PTL

\* A request is told an address its name had since the question was sent, whatever
\* became of the cache, the names and the other requests in the meantime.
THEOREM LookupSoundHolds == Spec => LookupSound
<1> DEFINE Sound == \A r \in Req : Returns(r) =>
              /\ result'[r] = Nil => Nil \in was[r] \/ ~same[r]
              /\ result'[r] \in Addr => result'[r] \in was[r]
<1>1. ASSUME IndInv, Next PROVE Sound
  <2>1. ASSUME NEW fd \in Fd, Reply(fd) PROVE Sound
    <3> SUFFICES ASSUME NEW w \in Req, Returns(w)
                 PROVE  /\ result'[w] = Nil => Nil \in was[w] \/ ~same[w]
                        /\ result'[w] \in Addr => result'[w] \in was[w]
      OBVIOUS
    <3> DEFINE m == Head(box[fd])
               r == m.req
               done == Waiters(r) \cup {r}
    <3>1. r \in Req /\ rname[r] \in Name /\ pc[r] = "answered" /\ rfd[r] = fd /\ m.addr \in was[r]
      BY <1>1, <2>1, ReplyFacts
    <3>2. Finish(done) /\ result' = [q \in Req |-> IF q \in done THEN Found(q, r, m.addr)
                                                   ELSE result[q]]
      BY <2>1 DEF Reply
    <3>3. w \in done BY <3>2 DEF Returns, Finish
    <3>4. m.addr \in was[w]
      <4>1. CASE w = r BY <3>1, <4>1
      <4>2. CASE w \in Waiters(r)
        <5>1. pc[w] = "wait" /\ rfd[w] = rfd[r] /\ rname[w] = rname[r] BY <4>2 DEF Waiters
        <5>2. r \in Asking(rfd[w], rname[w]) BY <3>1, <5>1 DEF Asking
        <5> QED BY <1>1, <3>1, <5>1, <5>2 DEF IndInv, AskInv
      <4> QED BY <3>3, <4>1, <4>2
    <3>5. result'[w] = IF w = r \/ same[w] THEN m.addr ELSE Nil BY <3>2, <3>3 DEF Found
    <3>6. Nil \notin Addr BY ConstAssumption
    <3> QED BY <3>1, <3>4, <3>5, <3>6
  <2>2. ASSUME NEW fd \in Fd, exit(fd) PROVE Sound
    <3>1. \A r \in Req : Returns(r) => result'[r] = Aborted
      BY <2>2 DEF exit, Finish, Returns
    <3> QED BY <3>1, ConstAssumption
  <2>3. ASSUME UNCHANGED pc PROVE Sound BY <2>3 DEF Returns
  <2>4. ASSUME \/ \E n \in Name, a \in Addr : register(n, a)
               \/ \E n \in Name : unregister(n)
        PROVE  UNCHANGED pc
    BY <2>4 DEF register, unregister
  <2>5. ASSUME NEW fd \in Fd,
               \/ Accept(fd) \/ Disconnect(fd) \/ Clusterd(fd) \/ Start(fd)
               \/ namechange(fd) \/ DropMessage(fd)
        PROVE  UNCHANGED pc
    BY <2>5 DEF Accept, Disconnect, Clusterd, SocketOpen, Launched, LaunchFailed, SocketClose,
                Start, Forward, AgentStarted, namechange, DropMessage, reqs
  <2>6. ASSUME NEW r \in Req, queryname(r) \/ \E fd \in Fd, n \in Name : Request(r, fd, n)
        PROVE  Sound
    <3>1. \A q \in Req : ~Returns(q)
      BY <1>1, <2>6 DEF IndInv, TypeOK, queryname, Request, Returns
    <3> QED BY <3>1
  <2> HIDE DEF Sound
  <2> QED BY <1>1, <2>1, <2>2, <2>3, <2>4, <2>5, <2>6 DEF Next, Agent
<1>2. IndInv /\ [Next]_vars => [Sound]_vars
  <2> HIDE DEF Sound
  <2> QED BY <1>1
<1>3. Spec => [][Sound]_vars BY <1>2, IndInvHolds, PTL DEF Spec
<1> QED BY <1>3 DEF LookupSound
=============================================================================
