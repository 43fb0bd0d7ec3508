----------------------------- MODULE ClusterWire -----------------------------
(***************************************************************************)
(* One connection between a bee_clustersender and the bee_clusteragent at  *)
(* its other end: sessions, the frames of ClusterCodec, the two priorities *)
(* of the socket (socket.write, socket.lwrite), the large requests the     *)
(* agent puts together, the names it looks up before it hands a message to *)
(* a service, and the responses the channel hands to the callers.          *)
(*                                                                         *)
(* Which address a name has, and whether a request that waited for it      *)
(* finds it, is the subject of ClusterNames; here either may happen.       *)
(***************************************************************************)
EXTENDS ClusterCodec, FiniteSets, Functions

CONSTANTS
    MaxOps,      \* bound: requests and pushes made
    MaxSession,  \* INT32_MAX in the code
    Size,        \* sizes of requests
    Name,        \* names of services
    ReplySize,   \* sizes of responses
    Nil

Op == 1..MaxOps
Session == 1..MaxSession

\* A request or push: to a service whose handle is known (name = Nil), to a
\* named one, or, with address 0, the query for the address of a name.
OpSet == {o \in [size : Size, is_push : BOOLEAN, name : Name \cup {Nil}, query : BOOLEAN] :
             o.query => o.name # Nil /\ ~o.is_push}

\* A body, a pile, a request that is put together, a result.
BodySet == [op : Nat, from : Nat, len : Nat]
PileSet == [size : Int, bodies : Seq(BodySet), length : Nat]
Partial == [pile : PileSet, is_push : BOOLEAN]
ResultSet == [ok : BOOLEAN, bodies : Seq(BodySet)]

ASSUME ConstAssumption ==
    /\ MaxOps \in Nat /\ MaxSession \in Nat \ {0, 1}
    /\ Size \subseteq Nat /\ ReplySize \subseteq Nat
    /\ Nil \notin Name
    /\ Nil \notin Nat /\ Nil \notin PileSet /\ Nil \notin Partial /\ Nil \notin ResultSet

VARIABLES
    session,          \* bee_clustersender: the next session
    ops,              \* the operations made
    high, low,        \* frames written with socket.write and with socket.lwrite
    large_request,    \* the agent: requests that are being put together
    taken,            \* history: the messages that came through, whole
    serving,          \* those the agent still has a coroutine for
    at,               \* where that coroutine stands in dispatch_request
    asked,            \* the one whose question to clusterd it waited for, if any
    cached,           \* the names in the table register_name
    handed,           \* history: what the agent handed to services
    reply_high, reply_low,
    thread,           \* the channel: the operation waiting for each session
    result_data,      \* the pieces of its response
    answer            \* what each caller got

sending == <<session, ops, thread>>
lookup == <<at, asked, cached, handed>>
vars == <<sending, high, low, large_request, taken, serving, lookup,
          reply_high, reply_low, result_data, answer>>

\* A coroutine waits for the answer of queryname ("ask"), for the one that asked
\* ("wait"), is in wakeup_session ("woken"), has found the address of its service or
\* learnt that there is none ("found", "unknown"), waits for its service ("call").
Stage == {"none", "ask", "wait", "woken", "found", "unknown", "call"}

\* The frames under way, the sessions and the assembled messages have their types.
TypeOK ==
    /\ session \in Session
    /\ ops \in Seq(OpSet) /\ Len(ops) <= MaxOps
    /\ \A f \in Range(high) \cup Range(low) : f.session \in Session \cup {0}
    /\ \A f \in Range(reply_high) : f.session \in Session \cup {0}
    /\ \A f \in Range(reply_low) : f.session \in Session
    /\ \A s \in Session : large_request[s] # Nil =>
          large_request[s].pile.length < large_request[s].pile.size
    /\ \A d \in Range(taken) : d.is_push \in BOOLEAN
    /\ \A r \in serving : r.session \in Session \cup {0} /\ r.op \in Op
    /\ at \in [Op -> Stage] /\ asked \in [Op -> Op \cup {Nil}]
    /\ cached \subseteq Name /\ handed \in Seq(Op)
    /\ thread \in [Session -> Op \cup {Nil}]
    /\ DOMAIN result_data = Op /\ DOMAIN answer = Op

Init ==
    /\ session = 1
    /\ ops = <<>>
    /\ high = <<>> /\ low = <<>>
    /\ large_request = [s \in Session |-> Nil]
    /\ taken = <<>>
    /\ serving = {}
    /\ at = [i \in Op |-> "none"]
    /\ asked = [i \in Op |-> Nil]
    /\ cached = {}
    /\ handed = <<>>
    /\ reply_high = <<>> /\ reply_low = <<>>
    /\ thread = [s \in Session |-> Nil]
    /\ result_data = [i \in Op |-> Nil]
    /\ answer = [i \in Op |-> Nil]

-----------------------------------------------------------------------------
(***************************************************************************)
(* bee_clustersender: command.req, command.push                            *)
(***************************************************************************)

\* A session is in use until its request, and its response, have come through. (A
\* push has a response, which the channel throws away, if its service is unknown.)
InUse(s) ==
    \/ s \in DOMAIN thread /\ (thread[s] # Nil \/ large_request[s] # Nil)
    \/ \E f \in Range(high) \cup Range(low) \cup Range(reply_high) : f.session = s
    \/ \E r \in serving : r.session = s

\* channel:request: the frames of a large message go out with low priority.
Write(frames, large) ==
    \/ large /\ low' = low \o frames /\ UNCHANGED high
    \/ ~large /\ high' = high \o frames /\ UNCHANGED low

\* The counter goes on; that it does not come round to a session still in use
\* is what the code relies on INT32_MAX for.
Advance == session' = NextSession(session, MaxSession) /\ ~InUse(session')

New == Len(ops) + 1

req(sz, name, query) ==
    /\ New <= MaxOps
    /\ ops' = Append(ops, [size |-> sz, is_push |-> FALSE, name |-> name, query |-> query])
    /\ Write(packrequest(session, New, sz, FALSE), IsLargeRequest(sz))
    /\ Advance
    /\ thread' = [thread EXCEPT ![session] = New]
    /\ UNCHANGED <<large_request, taken, serving, lookup,
                   reply_high, reply_low, result_data, answer>>

\* A push uses up a session only if it has several frames.
AfterPush_Unchanged(sz) == UNCHANGED session
AfterPush(sz) == IF IsLargeRequest(sz) THEN Advance ELSE UNCHANGED session

push(sz, name) ==
    /\ New <= MaxOps
    /\ ops' = Append(ops, [size |-> sz, is_push |-> TRUE, name |-> name, query |-> FALSE])
    /\ Write(packrequest(session, New, sz, TRUE), IsLargeRequest(sz))
    /\ AfterPush(sz)
    /\ UNCHANGED <<thread, large_request, taken, serving, lookup,
                   reply_high, reply_low, result_data, answer>>

-----------------------------------------------------------------------------
(***************************************************************************)
(* bee_clusteragent: dispatch_request                                      *)
(***************************************************************************)

\* The frames of low priority move only while there is none of high priority.
Arrives(f) ==
    \/ high # <<>> /\ f = Head(high) /\ high' = Tail(high) /\ UNCHANGED low
    \/ high = <<>> /\ low # <<>> /\ f = Head(low) /\ low' = Tail(low) /\ UNCHANGED high

Frames == {Head(q) : q \in {high, low} \ {<<>>}}

\* The coroutines that are resumed before the agent looks at another message.
Ahead == {i \in Op : at[i] \in {"woken", "found", "unknown"}}
Running == {i \in Op : at[i] \in {"found", "unknown"}}

\* The coroutine whose question to clusterd is in inquery_name.
Asking(n) == {i \in Op : at[i] = "ask" /\ ops[i].name = n}

\* register_name[name]: in the table, asked for already (the coroutine joins
\* waitco), or to be asked for. An address that is no name is not looked up.
LookUp_Unshared(i) ==
    \/ /\ ops[i].name \in cached \cup {Nil}
       /\ at' = [at EXCEPT ![i] = "found"]
       /\ UNCHANGED asked
    \/ /\ ops[i].name \notin cached \cup {Nil}
       /\ at' = [at EXCEPT ![i] = "ask"]
       /\ asked' = [asked EXCEPT ![i] = i]
LookUp(i) ==
    LET n == ops[i].name IN
    \/ /\ n = Nil \/ n \in cached
       /\ at' = [at EXCEPT ![i] = "found"]
       /\ UNCHANGED asked
    \/ /\ n # Nil /\ n \notin cached
       /\ \/ /\ Asking(n) = {}
             /\ at' = [at EXCEPT ![i] = "ask"]
             /\ asked' = [asked EXCEPT ![i] = i]
          \/ \E a \in Asking(n) :
                /\ at' = [at EXCEPT ![i] = "wait"]
                /\ asked' = [asked EXCEPT ![i] = a]

\* The whole message has come: line 75 on.
Accept(s, bodies, is_push) ==
    /\ taken' = Append(taken, [bodies |-> bodies, is_push |-> is_push])
    /\ serving' = serving \cup {[session |-> s, op |-> bodies[1].op]}
    /\ LookUp(bodies[1].op)
    /\ UNCHANGED <<cached, handed, reply_high, reply_low>>

\* The pieces do not fit: the request is answered with "Invalid large req".
Refuse(s) ==
    /\ reply_high' = reply_high \o packresponse(s, 0, FALSE, 17)
    /\ UNCHANGED <<taken, serving, lookup, reply_low>>

Forget(s) == large_request' = [large_request EXCEPT ![s] = Nil]

Request(f) ==
    LET u == unpackrequest(f)
        s == u.session
        known == s # 0 /\ large_request[s] # Nil
    IN
    /\ Ahead = {}
    /\ Arrives(f)
    /\ \/ /\ u.padding
          /\ large_request' = [large_request EXCEPT ![s] =
                IF ~known THEN [pile |-> Pile(u.msg), is_push |-> u.is_push]
                ELSE LET pile == large_request[s].pile IN
                     [large_request[s] EXCEPT !.pile = IF u.announces THEN Spoil(pile)
                                                       ELSE append(pile, u.msg)]]
          /\ UNCHANGED <<taken, serving, lookup, reply_high, reply_low>>
       \/ /\ ~u.padding /\ known
          /\ Forget(s)
          /\ LET pile == append(large_request[s].pile, u.msg) IN
             IF CanConcat(pile) THEN Accept(s, pile.bodies, large_request[s].is_push)
             ELSE Refuse(s)
       \/ /\ ~u.padding /\ ~known
          /\ UNCHANGED large_request
          /\ Accept(s, <<u.msg>>, u.is_push)
    /\ UNCHANGED <<sending, result_data, answer>>

\* The answer of queryname (lines 26-33): the coroutine that asked goes on, and those
\* that joined it are woken. The name is cached unless namechange has replaced the
\* table meanwhile.
NameAnswered(i, found) ==
    LET n == ops[i].name IN
    /\ Ahead = {}
    /\ at[i] = "ask"
    /\ at' = [j \in Op |-> IF j = i THEN IF found THEN "found" ELSE "unknown"
                           ELSE IF at[j] = "wait" /\ asked[j] = i THEN "woken" ELSE at[j]]
    /\ \/ found /\ cached' = cached \cup {n}
       \/ UNCHANGED cached
    /\ UNCHANGED <<sending, high, low, large_request, taken, serving, asked, handed,
                   reply_high, reply_low, result_data, answer>>

\* dispatch_wakeup takes the woken coroutines in the order of next(wakeup_session).
Resume(i) ==
    /\ at[i] = "woken"
    /\ Running = {}
    /\ \E stage \in {"found", "unknown"} : at' = [at EXCEPT ![i] = stage]
    /\ UNCHANGED <<sending, high, low, large_request, taken, serving, asked, cached, handed,
                   reply_high, reply_low, result_data, answer>>

namechange ==
    /\ Ahead = {}
    /\ cached # {}
    /\ cached' = {}
    /\ UNCHANGED <<sending, high, low, large_request, taken, serving, at, asked, handed,
                   reply_high, reply_low, result_data, answer>>

\* Lines 94-101: a push is sent and done with, a request waits for its answer.
HandOver(r) ==
    LET i == r.op IN
    /\ at[i] = "found" /\ ~ops[i].query
    /\ handed' = Append(handed, i)
    /\ \/ /\ ops[i].is_push
          /\ serving' = serving \ {r}
          /\ at' = [at EXCEPT ![i] = "none"]
       \/ /\ ~ops[i].is_push
          /\ at' = [at EXCEPT ![i] = "call"]
          /\ UNCHANGED serving
    /\ UNCHANGED <<sending, high, low, large_request, taken, asked, cached,
                   reply_high, reply_low, result_data, answer>>

\* The service answers, or rawcall raises (at once if the address is no service's); the
\* agent answers a query; or nobody has the name, which a push is told as well.
Answers(i, ok, sz) ==
    \/ at[i] = "call" /\ (ok => Ahead = {})
    \/ at[i] = "found" /\ ops[i].query /\ ok /\ ~IsLargeResponse(ok, sz)
    \/ at[i] = "unknown" /\ ~ok

Respond(r, ok, sz) ==
    /\ Answers(r.op, ok, sz)
    /\ serving' = serving \ {r}
    /\ at' = [at EXCEPT ![r.op] = "none"]
    /\ LET frames == packresponse(r.session, r.op, ok, sz) IN
       \/ /\ IsLargeResponse(ok, sz)
          /\ reply_low' = reply_low \o frames /\ UNCHANGED reply_high
       \/ /\ ~IsLargeResponse(ok, sz)
          /\ reply_high' = reply_high \o frames /\ UNCHANGED reply_low
    /\ UNCHANGED <<sending, high, low, large_request, taken, asked, cached, handed,
                   result_data, answer>>

-----------------------------------------------------------------------------
(***************************************************************************)
(* The channel: dispatch_by_session, and command.req after its call        *)
(***************************************************************************)

ReplyArrives(f) ==
    \/ reply_high # <<>> /\ f = Head(reply_high) /\ reply_high' = Tail(reply_high)
       /\ UNCHANGED reply_low
    \/ reply_high = <<>> /\ reply_low # <<>> /\ f = Head(reply_low)
       /\ reply_low' = Tail(reply_low) /\ UNCHANGED reply_high

ReplyFrames == {Head(q) : q \in {reply_high, reply_low} \ {<<>>}}

\* What the caller gets: the pieces put together, or the only frame.
Result_LastFrame(pile, u) == [ok |-> u.ok, bodies |-> <<u.msg>>]
Result(pile, u) ==
    [ok |-> u.ok,
     bodies |-> IF ~u.ok \/ pile = Nil THEN <<u.msg>>
                ELSE IF CanConcat(append(pile, u.msg)) THEN append(pile, u.msg).bodies
                ELSE <<>>]

\* A response for a session nobody waits for is only logged.
Response(f) ==
    LET u == unpackresponse(f)
        s == u.session
        i == IF s = 0 THEN Nil ELSE thread[s]
    IN
    /\ ReplyArrives(f)
    /\ IF i = Nil THEN UNCHANGED <<thread, result_data, answer>>
       ELSE IF u.padding
       THEN /\ result_data' = [result_data EXCEPT ![i] =
                  IF @ = Nil THEN Pile(u.msg) ELSE append(@, u.msg)]
            /\ UNCHANGED <<thread, answer>>
       ELSE /\ thread' = [thread EXCEPT ![s] = Nil]
            /\ result_data' = [result_data EXCEPT ![i] = Nil]
            /\ answer' = [answer EXCEPT ![i] = Result(result_data[i], u)]
    /\ UNCHANGED <<session, ops, high, low, large_request, taken, serving, lookup>>

-----------------------------------------------------------------------------
Next ==
    \/ \E sz \in Size, name \in Name \cup {Nil} :
          push(sz, name) \/ \E query \in {FALSE, name # Nil} : req(sz, name, query)
    \/ \E f \in Frames : Request(f)
    \/ \E i \in Op : Resume(i) \/ \E found \in BOOLEAN : NameAnswered(i, found)
    \/ namechange
    \/ \E r \in serving : HandOver(r)
    \/ \E r \in serving, ok \in BOOLEAN, sz \in ReplySize : Respond(r, ok, sz)
    \/ \E f \in ReplyFrames : Response(f)

Spec == Init /\ [][Next]_vars
-----------------------------------------------------------------------------
(***************************************************************************)
(* Properties                                                              *)
(***************************************************************************)

\* What comes through to dispatch_request is one request or push, whole, with the
\* parts in order, and still what it was when it was packed (push or request),
\* however the frames of small messages come in between.
Intact ==
    \A d \in Range(taken) : \E i \in 1..Len(ops) :
        /\ WholeMessage(d.bodies, i, ops[i].size)
        /\ d.is_push = ops[i].is_push

\* Messages come through in the order of their lane: of two of one priority the one
\* that was sent first, and none twice. (A small one may overtake a large one.)
TakenInOrder ==
    \A j, k \in 1..Len(taken) :
        LET op(n) == taken[n].bodies[1].op
            large(n) == IsLargeRequest(ops[op(n)].size)
        IN j < k /\ large(j) = large(k) => op(j) < op(k)

\* Services are handed messages of one priority in the order they were sent, and none
\* twice, except that one which had to wait for its name may be overtaken; of those
\* for the same name only by one that waited for the same answer of clusterd, and the
\* one whose coroutine asked is not overtaken.
LaneOrder ==
    \A k \in 1..Len(handed) : \A j \in 1..(k - 1) :
        LET first == handed[j]
            then == handed[k]
        IN
        /\ first # then
        /\ IsLargeRequest(ops[first].size) = IsLargeRequest(ops[then].size) /\ then < first =>
              /\ asked[then] # Nil
              /\ ops[then].name = ops[first].name =>
                    asked[first] = asked[then] /\ asked[then] # then

\* A caller gets the whole response to its own request, an error cut to the
\* length of one frame.
ReplyMatches ==
    \A i \in Op : answer[i] # Nil =>
        \E sz \in ReplySize :
            WholeMessage(answer[i].bodies, i, ResponseLength(answer[i].ok, sz))

\* The frames that complete a message.
Final(frames, s) ==
    Cardinality({k \in 1..Len(frames) :
                    frames[k].session = s /\ frames[k].type \in {"single", "end", "ok", "error"}})

\* A caller that waits has exactly one request on its way, in a service or on
\* its way back: no call is left without answer, and none gets two.
CallInFlight ==
    \A s \in Session : thread[s] # Nil =>
        Final(high, s) + Final(low, s) + Final(reply_high, s) + Final(reply_low, s)
            + Cardinality({r \in serving : r.session = s}) = 1
=============================================================================
