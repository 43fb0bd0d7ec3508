-------------------------- MODULE ClusterWireProofs --------------------------
(***************************************************************************)
(* What the codec guarantees for messages of every size, and what one      *)
(* connection guarantees for any number of messages of any size.           *)
(***************************************************************************)
EXTENDS ClusterWire, FiniteSetTheorems, SequenceTheorems, TLAPS

\* The number of parts is the one division rounds up to.
LEMMA PartCountBounds ==
    ASSUME NEW sz \in Nat \ {0}
    PROVE  /\ PartCount(sz) \in Nat \ {0}
           /\ (PartCount(sz) - 1) * MULTI_PART < sz
           /\ sz <= PartCount(sz) * MULTI_PART
BY DEF PartCount, MULTI_PART

\* The loops of packreq_multi and lpackresponse mark exactly the last part of a
\* message as the last, whatever its size, and no part is empty or too long.
THEOREM LastPartMarked ==
    ASSUME NEW sz \in Nat \ {0}, NEW i \in 0..(PartCount(sz) - 1)
    PROVE  /\ LastPart(sz, i) <=> i = PartCount(sz) - 1
           /\ PartLength(sz, i) \in 1..MULTI_PART
<1>1. PartCount(sz) \in Nat \ {0} BY PartCountBounds
<1>2. (PartCount(sz) - 1) * MULTI_PART < sz /\ sz <= PartCount(sz) * MULTI_PART
  BY PartCountBounds
<1>3. PICK m \in Nat \ {0}, k \in Nat \ {0} :
         m = MULTI_PART /\ k = PartCount(sz) /\ (k - 1) * m < sz /\ sz <= k * m
  <2>1. MULTI_PART \in Nat \ {0} BY DEF MULTI_PART
  <2> QED BY <1>1, <1>2, <2>1
<1>4. PICK a \in Nat, b \in Nat : a = i * m /\ b = (k - 1) * m
  <2>1. i \in Nat /\ k - 1 \in Nat BY <1>3
  <2>2. i * m \in Nat /\ (k - 1) * m \in Nat BY <2>1
  <2> QED BY <2>2
<1>5. CASE i = k - 1
  <2>1. k * m = b + m /\ a = b BY <1>3, <1>4, <1>5
  <2>2. sz - a \in 1..m BY <1>3, <1>4, <2>1
  <2> QED BY <1>3, <1>4, <1>5, <2>2 DEF LastPart, PartLength, Left
<1>6. CASE i # k - 1
  <2>1. PICK d \in Nat : k - 1 = i + 1 + d
    <3>1. k - 1 - (i + 1) \in Nat BY <1>3, <1>6
    <3> QED BY <3>1
  <2>2. b = a + m + d * m /\ d * m \in Nat BY <1>3, <1>4, <2>1
  <2>3. ~(sz - a <= m) BY <1>3, <1>4, <2>2
  <2> QED BY <1>3, <1>4, <1>6, <2>3 DEF LastPart, PartLength, Left
<1> QED BY <1>5, <1>6

\* The parts follow on one another without a gap or an overlap: each begins
\* where the one before ends, the first at 0 and the last ends with the message.
THEOREM PartsCover ==
    ASSUME NEW s, NEW op, NEW sz \in Nat \ {0}
    PROVE  LET p == Parts(s, op, sz)
               n == PartCount(sz)
           IN /\ p[1].body.from = 0
              /\ \A i \in 1..(n - 1) : p[i + 1].body.from = p[i].body.from + p[i].body.len
              /\ p[n].body.from + p[n].body.len = sz
              /\ \A i \in 1..n : p[i].type = "end" <=> i = n
<1> DEFINE p == Parts(s, op, sz)
           n == PartCount(sz)
<1>1. n \in Nat \ {0} BY PartCountBounds
<1>2. ASSUME NEW i \in 1..n
      PROVE  /\ p[i].body.from = (i - 1) * MULTI_PART
             /\ p[i].body.len = PartLength(sz, i - 1)
             /\ p[i].type = IF LastPart(sz, i - 1) THEN "end" ELSE "part"
  BY <1>1 DEF Parts, Body
<1>3. ASSUME NEW i \in 1..n
      PROVE  LastPart(sz, i - 1) <=> i = n
  BY SMTT(30), <1>1, LastPartMarked
<1>4. p[1].body.from = 0 BY <1>1, <1>2 DEF MULTI_PART
<1>5. ASSUME NEW i \in 1..(n - 1)
      PROVE  p[i + 1].body.from = p[i].body.from + p[i].body.len
  <2>1. i \in 1..n /\ i + 1 \in 1..n BY <1>1
  <2>2. ~LastPart(sz, i - 1) BY <1>1, <1>3, <2>1
  <2>3. p[i].body.len = MULTI_PART BY <1>2, <2>1, <2>2 DEF PartLength
  <2>4. p[i].body.from = (i - 1) * MULTI_PART /\ p[i + 1].body.from = i * MULTI_PART
    BY <1>2, <2>1
  <2> QED BY <2>1, <2>3, <2>4 DEF MULTI_PART
<1>6. p[n].body.from + p[n].body.len = sz
  BY <1>1, <1>2, <1>3 DEF PartLength, Left, MULTI_PART
<1>7. \A i \in 1..n : p[i].type = "end" <=> i = n BY <1>2, <1>3
<1> QED BY <1>4, <1>5, <1>6, <1>7

\* Every frame the codec writes fits its buffer of TEMP_LENGTH bytes and the
\* 16 bits of its length prefix: a single request to a number or to a name of
\* up to 255 bytes, a part, and a response, a long error cut off included.
THEOREM FramesFit ==
    ASSUME NEW sz \in Nat, NEW namelen \in 1..255, NEW ok \in BOOLEAN
    PROVE  /\ ~IsLargeRequest(sz) => Fits(NumberHead + sz) /\ Fits(NameHead(namelen) + sz)
           /\ ~IsLargeResponse(ok, sz) => Fits(ResponseHead + ResponseLength(ok, sz))
           /\ sz # 0 => \A i \in 0..(PartCount(sz) - 1) : Fits(PartHead + PartLength(sz, i))
<1>1. ~IsLargeRequest(sz) => Fits(NumberHead + sz) /\ Fits(NameHead(namelen) + sz)
  BY DEF IsLargeRequest, MULTI_PART, Fits, TEMP_LENGTH, NumberHead, NameHead
<1>2. ~IsLargeResponse(ok, sz) => Fits(ResponseHead + ResponseLength(ok, sz))
  BY DEF IsLargeResponse, ResponseLength, MULTI_PART, Fits, TEMP_LENGTH, ResponseHead
<1>3. ASSUME sz # 0, NEW i \in 0..(PartCount(sz) - 1)
      PROVE  Fits(PartHead + PartLength(sz, i))
  <2>1. sz \in Nat \ {0} BY <1>3
  <2>2. PartLength(sz, i) \in 1..MULTI_PART BY <2>1, LastPartMarked
  <2>3. ASSUME NEW len \in 1..MULTI_PART PROVE Fits(PartHead + len)
    <3>1. len \in Nat /\ len <= 32768 BY DEF MULTI_PART
    <3> QED BY <3>1 DEF Fits, TEMP_LENGTH, PartHead
  <2> QED BY <2>2, <2>3
<1> QED BY <1>1, <1>2, <1>3

\* The session counter stays a positive int: every session packrequest is given
\* passes its check, and 0, the session of a push, is never a request's.
THEOREM SessionsPositive ==
    ASSUME NEW max \in Nat \ {0}, NEW s \in 1..max
    PROVE  NextSession(s, max) \in 1..max
BY DEF NextSession

\* A frame keeps its meaning: a request is unpacked as a request of the same
\* session, a push as a push, whether it goes in one frame or in several.
THEOREM KindKept ==
    ASSUME NEW s \in Nat \ {0}, NEW op, NEW sz \in Nat, NEW is_push \in BOOLEAN
    PROVE  LET u == unpackrequest(FirstFrame(s, op, sz, is_push))
           IN /\ u.is_push <=> is_push
              /\ u.padding <=> IsLargeRequest(sz)
              /\ ~is_push => u.session = s
<1>1. CASE IsLargeRequest(sz) /\ is_push
  BY <1>1 DEF unpackrequest, FirstFrame
<1>2. CASE IsLargeRequest(sz) /\ ~is_push
  BY <1>2 DEF unpackrequest, FirstFrame
<1>3. CASE ~IsLargeRequest(sz) /\ is_push
  BY <1>3 DEF unpackrequest, FirstFrame
<1>4. CASE ~IsLargeRequest(sz) /\ ~is_push
  BY <1>4 DEF unpackrequest, FirstFrame
<1> QED BY <1>1, <1>2, <1>3, <1>4
-----------------------------------------------------------------------------
(***************************************************************************)
(* Lanes                                                                   *)
(***************************************************************************)

Frame == [type : {"part", "end", "single", "ok", "error"}, session : Nat, body : BodySet]
            \cup [type : {"multi req", "multi push", "begin"}, session : Nat, size : Nat]

\* A frame that announces the pieces of a large message, and a piece.
Opens(f) == f.type \in {"multi req", "multi push", "begin"}
Piece(f) == f.type \in {"part", "end"}

\* A lane of large messages: each is announced and its pieces follow on one another
\* up to the last; only the beginning of the lane may be cut off.
Linked(q) ==
    \A k \in 1..Len(q) :
        /\ Opens(q[k]) \/ Piece(q[k])
        /\ q[k].type # "end" =>
             /\ k < Len(q)
             /\ Piece(q[k + 1]) /\ q[k + 1].session = q[k].session
             /\ q[k + 1].body.from = IF Opens(q[k]) THEN 0 ELSE q[k].body.from + q[k].body.len
             /\ Piece(q[k]) => q[k + 1].body.op = q[k].body.op
        /\ q[k].type = "end" /\ k < Len(q) => Opens(q[k + 1])

\* The operation a frame of such a lane belongs to.
OpAt(q, k) == IF Opens(q[k]) THEN q[k + 1].body.op ELSE q[k].body.op

\* Every frame of session s is away from the lane.
Away(q, s) == \A k \in 1..Len(q) : q[k].session # s

\* A pile holds the first n bytes of the message of operation i.
Gathered(p, i, n) ==
    /\ p.length = n
    /\ \/ n = 0 /\ p.bodies = <<>>
       \/ WholeMessage(p.bodies, i, n)

-----------------------------------------------------------------------------
Types ==
    /\ session \in Session
    /\ ops \in Seq(OpSet) /\ Len(ops) <= MaxOps
    /\ high \in Seq(Frame) /\ low \in Seq(Frame)
    /\ reply_high \in Seq(Frame) /\ reply_low \in Seq(Frame)
    /\ large_request \in [Session -> Partial \cup {Nil}]
    /\ taken \in Seq([bodies : Seq(BodySet), is_push : BOOLEAN])
    /\ serving \subseteq [session : Session \cup {0}, op : Op]
    /\ thread \in [Session -> Op \cup {Nil}]
    /\ result_data \in [Op -> PileSet \cup {Nil}]
    /\ answer \in [Op -> ResultSet \cup {Nil}]

\* The callers that wait are of different requests.
Threads ==
    /\ \A s \in Session : thread[s] # Nil => thread[s] <= Len(ops) /\ ~ops[thread[s]].is_push
    /\ \A s, t \in Session : thread[s] # Nil /\ thread[s] = thread[t] => s = t

\* The lane of small messages: each is one frame, of its own request or push, and they
\* are in the order they were made. (o are the operations, th the callers that wait.)
SmallOK(f, o, th) ==
    LET i == f.body.op IN
    /\ f.type = "single" /\ i \in 1..Len(o) /\ ~IsLargeRequest(o[i].size)
    /\ f.body = Body(i, 0, o[i].size)
    /\ o[i].is_push => f.session = 0
    /\ ~o[i].is_push => f.session \in Session /\ th[f.session] = i

HighOK(q, o, th) ==
    /\ \A k \in 1..Len(q) : SmallOK(q[k], o, th)
    /\ \A k, l \in 1..Len(q) : k < l => q[k].body.op < q[l].body.op

\* The lane of large messages: frame f is of operation i.
LargeOK(f, i, o, th) ==
    /\ i \in 1..Len(o) /\ IsLargeRequest(o[i].size)
    /\ f.session \in Session /\ th[f.session] = IF o[i].is_push THEN Nil ELSE i
    /\ Opens(f) => /\ f.size = o[i].size
                   /\ f.type = IF o[i].is_push THEN "multi push" ELSE "multi req"
    /\ f.type = "end" => f.body.from + f.body.len = o[i].size

LowOK(q, o, th) ==
    /\ Linked(q)
    /\ \A k \in 1..Len(q) : LargeOK(q[k], OpAt(q, k), o, th)
    /\ \A k, l \in 1..Len(q) : k < l =>
        /\ OpAt(q, k) <= OpAt(q, l)
        /\ q[k].type = "end" => OpAt(q, k) < OpAt(q, l)

\* The agent puts together the message whose announcement has come and whose last
\* piece has not, and only that one.
Assembling ==
    \A s \in Session :
        /\ large_request[s] # Nil <=> low # <<>> /\ Piece(low[1]) /\ low[1].session = s
        /\ large_request[s] # Nil => LET i == low[1].body.op IN
            /\ large_request[s].is_push = ops[i].is_push
            /\ large_request[s].pile.size = ops[i].size
            /\ Gathered(large_request[s].pile, i, low[1].body.from)

\* What is taken was made before what is still in its lane.
TakenBefore ==
    \A j \in 1..Len(taken) : LET i == taken[j].bodies[1].op IN
        /\ i \in 1..Len(ops)
        /\ IF IsLargeRequest(ops[i].size) THEN \A k \in 1..Len(low) : i < OpAt(low, k)
           ELSE \A k \in 1..Len(high) : i < high[k].body.op

\* A request the agent has a coroutine for has its caller; nobody waits for a push.
Served ==
    \A r \in serving :
        /\ r.op \in 1..Len(ops)
        /\ r.session # 0 => thread[r.session] = IF ops[r.op].is_push THEN Nil ELSE r.op
        /\ r.session = 0 => ops[r.op].is_push

\* The lane of small responses, each to the caller that waits for its session, or to
\* nobody (the error a push gets).
ReplyOK(f, th) ==
    /\ f.type \in {"ok", "error"} /\ f.session \in Session \cup {0}
    /\ f.session # 0 => th[f.session] \in {f.body.op, Nil}
    /\ f.body.from = 0
    /\ \E sz \in ReplySize : f.body.len = ResponseLength(f.type = "ok", sz)

ReplyHighOK(q, th) == \A k \in 1..Len(q) : ReplyOK(q[k], th)

\* The lane of large responses: the last piece ends where its announcement said.
LargeReplyOK(f, i, th) ==
    /\ f.session \in Session /\ th[f.session] = i
    /\ Opens(f) => f.type = "begin" /\ f.size \in ReplySize

EndsAt(f, sz) == f.type = "end" => f.body.from + f.body.len = sz

ReplyLowOK(q, th) ==
    /\ Linked(q)
    /\ \A k \in 1..Len(q) : LargeReplyOK(q[k], OpAt(q, k), th)
    /\ \A k, l \in 1..Len(q) :
        /\ k < l /\ q[k].type = "end" => q[l].session # q[k].session
        /\ Opens(q[k]) /\ q[l].session = q[k].session => EndsAt(q[l], q[k].size)

\* The channel puts together the response whose announcement has come and whose last
\* piece has not, and only that one.
Gathering ==
    \A i \in Op :
        /\ result_data[i] # Nil <=> reply_low # <<>> /\ Piece(reply_low[1]) /\ reply_low[1].body.op = i
        /\ result_data[i] # Nil =>
            /\ Gathered(result_data[i], i, reply_low[1].body.from)
            /\ result_data[i].size \in ReplySize
            /\ \A l \in 1..Len(reply_low) :
                reply_low[l].session = reply_low[1].session
                => EndsAt(reply_low[l], result_data[i].size)

\* A session with a caller is in one place at a time.
Apart ==
    \A s \in Session : thread[s] # Nil =>
        /\ ~Away(high, s) => Away(low, s)
        /\ ~Away(high, s) \/ ~Away(low, s) =>
              Away(reply_high, s) /\ Away(reply_low, s) /\ \A r \in serving : r.session # s
        /\ (\E r \in serving : r.session = s) => Away(reply_high, s) /\ Away(reply_low, s)
        /\ ~Away(reply_high, s) => Away(reply_low, s)

\* The next session is nowhere.
Fresh ==
    /\ thread[session] = Nil
    /\ Away(high, session) /\ Away(low, session) /\ Away(reply_high, session)
    /\ \A r \in serving : r.session # session

IndInv ==
    /\ Types /\ Threads
    /\ HighOK(high, ops, thread) /\ LowOK(low, ops, thread)
    /\ ReplyHighOK(reply_high, thread) /\ ReplyLowOK(reply_low, thread)
    /\ Assembling /\ TakenBefore /\ Served /\ Gathering /\ Apart /\ Fresh
    /\ Intact /\ TakenInOrder /\ ReplyMatches /\ CallInFlight

-----------------------------------------------------------------------------
(***************************************************************************)
(* The coroutines that look a name up                                      *)
(***************************************************************************)

TakenOp(j) == taken[j].bodies[1].op
TakenOps == {TakenOp(j) : j \in 1..Len(taken)}

\* Not handed over yet.
Looking == {"ask", "wait", "woken", "found", "unknown"}

Stages ==
    /\ at \in [Op -> Stage] /\ asked \in [Op -> Op \cup {Nil}]
    /\ cached \subseteq Name /\ handed \in Seq(Op)

\* Where a coroutine can stand: only that of the message that came last goes on without
\* a question; one that waits joined the coroutine that asks for its name.
Places ==
    \A i \in Op :
        /\ at[i] # "none" => i \in TakenOps
        /\ asked[i] # Nil => i \in TakenOps /\ asked[i] \in TakenOps /\ ops[i].name # Nil
        /\ at[i] = "found" /\ asked[i] = Nil => i = TakenOp(Len(taken))
        /\ at[i] = "ask" => asked[i] = i /\ ops[i].name \notin cached
        /\ at[i] = "wait" => /\ asked[i] \notin {i, Nil}
                             /\ at[asked[i]] = "ask" /\ ops[asked[i]].name = ops[i].name
        /\ at[i] = "woken" => asked[i] \notin {i, Nil}

\* The agent waits for an answer only for a request.
CallsOnly == \A i \in Op : at[i] = "call" => ~ops[i].is_push

\* One coroutine asks for a name, and those that joined it go on after it.
Askers ==
    \A i, m \in Op : i # m =>
        /\ at[i] = "ask" /\ at[m] = "ask" => ops[i].name # ops[m].name
        /\ at[i] = "ask" /\ asked[m] = i => at[m] = "wait"
        /\ at[i] = "found" /\ asked[i] = i /\ asked[m] = i => at[m] = "woken"

\* What comes after a message whose name is asked for, and has the same name, joins it.
Joined ==
    \A j \in 1..Len(taken) : \A k \in (j + 1)..Len(taken) :
        LET i == TakenOp(j)
            m == TakenOp(k)
        IN at[i] \in Looking /\ asked[i] # Nil /\ ops[m].name = ops[i].name => asked[m] = asked[i]

Handed == \A k \in 1..Len(handed) : handed[k] \in TakenOps /\ at[handed[k]] \notin Looking

NameInv == Stages /\ Places /\ CallsOnly /\ Askers /\ Joined /\ Handed /\ LaneOrder

-----------------------------------------------------------------------------
(***************************************************************************)
(* Lanes: what taking a frame off and putting a message on does            *)
(***************************************************************************)

FinalTypes == {"single", "end", "ok", "error"}
FinalSet(q, s) == {k \in 1..Len(q) : q[k].session = s /\ q[k].type \in FinalTypes}

\* The number of final frames of a session is a number.
LEMMA FinalNat ==
    ASSUME NEW q \in Seq(Frame), NEW s
    PROVE  /\ Final(q, s) = Cardinality(FinalSet(q, s)) /\ Final(q, s) \in Nat
           /\ IsFiniteSet(FinalSet(q, s))
<1>1. Len(q) \in Nat BY LenProperties
<1>2. IsFiniteSet(1..Len(q)) BY <1>1, FS_Interval
<1>3. FinalSet(q, s) \in SUBSET (1..Len(q)) BY DEF FinalSet
<1>4. IsFiniteSet(FinalSet(q, s)) BY <1>2, <1>3, FS_Subset
<1>5. Final(q, s) = Cardinality(FinalSet(q, s)) BY DEF Final, FinalSet, FinalTypes
<1> QED BY <1>4, <1>5, FS_CardinalityType

\* A set of places moved along by n has as many places.
LEMMA Moved ==
    ASSUME NEW S \in SUBSET Nat, IsFiniteSet(S), NEW n \in Nat
    PROVE  /\ IsFiniteSet({k + n : k \in S})
           /\ Cardinality({k + n : k \in S}) = Cardinality(S)
<1> DEFINE T == {k + n : k \in S}
           f == [k \in S |-> k + n]
<1>1. f \in [S -> T] OBVIOUS
<1>2. \A a, b \in S : f[a] = f[b] => a = b OBVIOUS
<1>3. \A t \in T : \E a \in S : f[a] = t OBVIOUS
<1>4. f \in Bijection(S, T)
  BY <1>1, <1>2, <1>3 DEF Bijection, Injection, Surjection, IsInjective
<1>5. ExistsBijection(S, T) BY <1>4 DEF ExistsBijection
<1> QED BY <1>5, FS_Bijection

\* The final frames of two lanes in a row.
LEMMA FinalCat ==
    ASSUME NEW q \in Seq(Frame), NEW r \in Seq(Frame), NEW s
    PROVE  Final(q \o r, s) = Final(q, s) + Final(r, s)
<1> DEFINE A == FinalSet(q, s)
           B == {k + Len(q) : k \in FinalSet(r, s)}
<1>1. Len(q) \in Nat /\ Len(r) \in Nat BY LenProperties
<1>2. /\ q \o r \in Seq(Frame) /\ Len(q \o r) = Len(q) + Len(r)
      /\ \A i \in 1..Len(q) + Len(r) : (q \o r)[i] = IF i <= Len(q) THEN q[i] ELSE r[i - Len(q)]
  BY ConcatProperties
<1>3. FinalSet(q \o r, s) = A \cup B
  <2>1. ASSUME NEW k \in FinalSet(q \o r, s) PROVE k \in A \cup B
    <3>1. k \in 1..Len(q) + Len(r) /\ (q \o r)[k].session = s /\ (q \o r)[k].type \in FinalTypes
      BY <1>2, <2>1 DEF FinalSet
    <3>2. CASE k <= Len(q)
      BY <1>1, <1>2, <3>1, <3>2 DEF FinalSet
    <3>3. CASE ~(k <= Len(q))
      <4>1. k - Len(q) \in 1..Len(r) BY <1>1, <3>1, <3>3
      <4>2. (q \o r)[k] = r[k - Len(q)] BY <1>2, <3>1, <3>3
      <4>3. k - Len(q) \in FinalSet(r, s) BY <3>1, <4>1, <4>2 DEF FinalSet
      <4>4. k = (k - Len(q)) + Len(q) BY <1>1, <3>1
      <4> QED BY <4>3, <4>4
    <3> QED BY <3>2, <3>3
  <2>2. ASSUME NEW k \in A PROVE k \in FinalSet(q \o r, s)
    BY <1>1, <1>2, <2>2 DEF FinalSet
  <2>3. ASSUME NEW k \in B PROVE k \in FinalSet(q \o r, s)
    <3>1. PICK m \in FinalSet(r, s) : k = m + Len(q) BY <2>3
    <3>2. m \in 1..Len(r) /\ r[m].session = s /\ r[m].type \in FinalTypes BY <3>1 DEF FinalSet
    <3>3. k \in 1..Len(q) + Len(r) /\ ~(k <= Len(q)) /\ k - Len(q) = m BY <1>1, <3>1, <3>2
    <3>4. (q \o r)[k] = r[m] BY <1>2, <3>3
    <3> QED BY <1>2, <3>2, <3>3, <3>4 DEF FinalSet
  <2> QED BY <2>1, <2>2, <2>3
<1>4. A \cap B = {}
  BY <1>1 DEF FinalSet
<1>5. IsFiniteSet(A) /\ Cardinality(A) = Final(q, s) BY FinalNat
<1>6. IsFiniteSet(B) /\ Cardinality(B) = Final(r, s)
  <2>1. IsFiniteSet(FinalSet(r, s)) /\ Cardinality(FinalSet(r, s)) = Final(r, s) BY FinalNat
  <2>2. FinalSet(r, s) \in SUBSET Nat BY DEF FinalSet
  <2> QED BY <1>1, <2>1, <2>2, Moved
<1>7. Cardinality(A \cup B) = Cardinality(A) + Cardinality(B)
  <2>1. Cardinality(A \cap B) = 0 BY <1>4, FS_EmptySet
  <2>2. Cardinality(A) \in Nat /\ Cardinality(B) \in Nat BY <1>5, <1>6, FS_CardinalityType
  <2>3. Cardinality(A \cup B) = Cardinality(A) + Cardinality(B) - Cardinality(A \cap B)
    <3> HIDE DEF A, B
    <3> QED BY <1>5, <1>6, FS_Union
  <2> HIDE DEF A, B
  <2> QED BY <2>1, <2>2, <2>3
<1>8. Final(q \o r, s) = Cardinality(FinalSet(q \o r, s)) BY <1>2, FinalNat
<1> HIDE DEF A, B
<1> QED BY <1>3, <1>5, <1>6, <1>7, <1>8

\* A lane without final frames of the session, and one with a single one.
LEMMA FinalNone ==
    ASSUME NEW q \in Seq(Frame), NEW s
    PROVE  Final(q, s) = 0 <=> FinalSet(q, s) = {}
BY FinalNat, FS_EmptySet

LEMMA FinalAway ==
    ASSUME NEW q \in Seq(Frame), NEW s, Away(q, s)
    PROVE  Final(q, s) = 0
BY FinalNone DEF Away, FinalSet

LEMMA FinalOne ==
    ASSUME NEW q \in Seq(Frame), NEW s, NEW k \in 1..Len(q), FinalSet(q, s) = {k}
    PROVE  Final(q, s) = 1
BY FinalNat, FS_Singleton

\* A frame is taken off a lane.
Takes(q, p, f) == q # <<>> /\ f = Head(q) /\ p = Tail(q)

LEMMA Taken ==
    ASSUME NEW q \in Seq(Frame), NEW p, NEW f, Takes(q, p, f)
    PROVE  /\ p \in Seq(Frame) /\ f \in Frame /\ f = q[1]
           /\ Len(q) \in Nat \ {0} /\ Len(p) = Len(q) - 1
           /\ \A k \in 1..Len(p) : p[k] = q[k + 1] /\ k + 1 \in 1..Len(q)
           /\ \A k \in 1..Len(q) : k # 1 => k - 1 \in 1..Len(p) /\ p[k - 1] = q[k]
<1>1. q # <<>> /\ f = Head(q) /\ p = Tail(q) BY DEF Takes
<1>2. /\ Head(q) \in Frame /\ Tail(q) \in Seq(Frame) /\ Len(Tail(q)) = Len(q) - 1
      /\ \A i \in 1..Len(Tail(q)) : Tail(q)[i] = q[i + 1]
  BY <1>1, HeadTailProperties
<1>3. Len(q) \in Nat \ {0} BY <1>1, EmptySeq
<1>4. Head(q) = q[1] BY <1>1
<1>5. \A k \in 1..Len(q) : k # 1 => k - 1 \in 1..Len(p) /\ p[k - 1] = q[k]
  <2>1. TAKE k \in 1..Len(q)
  <2>2. HAVE k # 1
  <2>3. k - 1 \in 1..Len(p) /\ (k - 1) + 1 = k BY <1>1, <1>2, <1>3, <2>2
  <2> QED BY <1>1, <1>2, <2>3
<1> QED BY <1>1, <1>2, <1>3, <1>4, <1>5

\* What the number of final frames loses.
LEMMA FinalTaken ==
    ASSUME NEW q \in Seq(Frame), NEW p, NEW f, Takes(q, p, f), NEW s
    PROVE  /\ Final(p, s) \in Nat
           /\ f.session = s /\ f.type \in FinalTypes => Final(q, s) = Final(p, s) + 1
           /\ ~(f.session = s /\ f.type \in FinalTypes) => Final(q, s) = Final(p, s)
<1>1. /\ p \in Seq(Frame) /\ f \in Frame /\ f = q[1]
      /\ Len(q) \in Nat \ {0} /\ Len(p) = Len(q) - 1
      /\ \A k \in 1..Len(p) : p[k] = q[k + 1] /\ k + 1 \in 1..Len(q)
  BY Taken
<1>2. <<f>> \in Seq(Frame) /\ Len(<<f>>) = 1 /\ <<f>>[1] = f BY <1>1
<1>3. q = <<f>> \o p
  <2>1. /\ <<f>> \o p \in Seq(Frame) /\ Len(<<f>> \o p) = 1 + Len(p)
        /\ \A i \in 1..1 + Len(p) : (<<f>> \o p)[i] = IF i <= 1 THEN <<f>>[i] ELSE p[i - 1]
    BY <1>1, <1>2, ConcatProperties
  <2>2. Len(q) = Len(<<f>> \o p) BY <1>1, <2>1
  <2>3. \A i \in 1..Len(q) : q[i] = (<<f>> \o p)[i]
    <3>1. TAKE i \in 1..Len(q)
    <3>2. CASE i = 1 BY <1>1, <1>2, <2>1, <2>2, <3>2
    <3>3. CASE i # 1
      <4>1. i - 1 \in 1..Len(p) /\ (i - 1) + 1 = i /\ ~(i <= 1) BY <1>1, <3>3
      <4> QED BY <1>1, <2>1, <2>2, <4>1
    <3> QED BY <3>2, <3>3
  <2> QED BY <2>1, <2>2, <2>3, SeqEqual
<1>4. Final(q, s) = Final(<<f>>, s) + Final(p, s)
  <2>1. Final(<<f>> \o p, s) = Final(<<f>>, s) + Final(p, s) BY <1>1, <1>2, FinalCat
  <2> QED BY <1>3, <2>1
<1>5. f.session = s /\ f.type \in FinalTypes => Final(<<f>>, s) = 1
  <2>1. HAVE f.session = s /\ f.type \in FinalTypes
  <2>2. FinalSet(<<f>>, s) = {1} BY <1>2, <2>1 DEF FinalSet
  <2>3. 1 \in 1..Len(<<f>>) BY <1>2
  <2> QED BY <1>2, <2>2, <2>3, FinalOne
<1>6. ~(f.session = s /\ f.type \in FinalTypes) => Final(<<f>>, s) = 0
  <2>1. HAVE ~(f.session = s /\ f.type \in FinalTypes)
  <2>2. FinalSet(<<f>>, s) = {} BY <1>2, <2>1 DEF FinalSet
  <2> QED BY <1>2, <2>2, FinalNone
<1>7. Final(p, s) \in Nat BY <1>1, FinalNat
<1> QED BY <1>4, <1>5, <1>6, <1>7

\* A lane stays linked when its first frame is taken off.
LEMMA LinkedTaken ==
    ASSUME NEW q \in Seq(Frame), NEW p, NEW f, Takes(q, p, f), Linked(q)
    PROVE  /\ Linked(p)
           /\ \A k \in 1..Len(p) : OpAt(p, k) = OpAt(q, k + 1)
<1>1. /\ p \in Seq(Frame) /\ f = q[1]
      /\ Len(q) \in Nat \ {0} /\ Len(p) = Len(q) - 1 /\ Len(p) \in Nat
      /\ \A k \in 1..Len(p) : p[k] = q[k + 1] /\ k + 1 \in 1..Len(q)
  BY Taken
<1>2. ASSUME NEW k \in 1..Len(p)
      PROVE  /\ Opens(p[k]) \/ Piece(p[k])
             /\ p[k].type # "end" =>
                 /\ k < Len(p)
                 /\ Piece(p[k + 1]) /\ p[k + 1].session = p[k].session
                 /\ p[k + 1].body.from = IF Opens(p[k]) THEN 0 ELSE p[k].body.from + p[k].body.len
                 /\ Piece(p[k]) => p[k + 1].body.op = p[k].body.op
             /\ p[k].type = "end" /\ k < Len(p) => Opens(p[k + 1])
             /\ k < Len(p) => p[k + 1] = q[(k + 1) + 1]
  <2>1. p[k] = q[k + 1] /\ k + 1 \in 1..Len(q) BY <1>1
  <2>2. k < Len(p) <=> k + 1 < Len(q) BY <1>1
  <2>3. k < Len(p) => p[k + 1] = q[(k + 1) + 1] BY <1>1
  <2> QED BY <2>1, <2>2, <2>3 DEF Linked
<1>3. Linked(p) BY <1>2 DEF Linked
<1>4. ASSUME NEW k \in 1..Len(p) PROVE OpAt(p, k) = OpAt(q, k + 1)
  <2>1. p[k] = q[k + 1] BY <1>1
  <2>2. Opens(p[k]) => k < Len(p) BY <1>2 DEF Opens
  <2> QED BY <1>2, <2>1, <2>2 DEF OpAt
<1> QED BY <1>3, <1>4

\* A place in two lanes in a row is one in the first or one in the second.
LEMMA CatPlaces ==
    ASSUME NEW q \in Seq(Frame), NEW r \in Seq(Frame)
    PROVE  /\ q \o r \in Seq(Frame)
           /\ Len(q) \in Nat /\ Len(r) \in Nat /\ Len(q \o r) = Len(q) + Len(r)
           /\ \A k \in 1..Len(q) : (q \o r)[k] = q[k] /\ k \in 1..Len(q \o r)
           /\ \A m \in 1..Len(r) : (q \o r)[Len(q) + m] = r[m] /\ Len(q) + m \in 1..Len(q \o r)
           /\ \A k \in 1..Len(q \o r) : k \in 1..Len(q) \/ \E m \in 1..Len(r) : k = Len(q) + m
<1>1. Len(q) \in Nat /\ Len(r) \in Nat BY LenProperties
<1>2. /\ q \o r \in Seq(Frame) /\ Len(q \o r) = Len(q) + Len(r)
      /\ \A i \in 1..Len(q) + Len(r) : (q \o r)[i] = IF i <= Len(q) THEN q[i] ELSE r[i - Len(q)]
  BY ConcatProperties
<1>3. \A k \in 1..Len(q) : (q \o r)[k] = q[k] /\ k \in 1..Len(q \o r)
  BY <1>1, <1>2
<1>4. \A m \in 1..Len(r) : (q \o r)[Len(q) + m] = r[m] /\ Len(q) + m \in 1..Len(q \o r)
  <2>1. TAKE m \in 1..Len(r)
  <2>2. Len(q) + m \in 1..Len(q) + Len(r) /\ ~(Len(q) + m <= Len(q)) /\ (Len(q) + m) - Len(q) = m
    BY <1>1
  <2> QED BY <1>2, <2>2
<1>5. \A k \in 1..Len(q \o r) : k \in 1..Len(q) \/ \E m \in 1..Len(r) : k = Len(q) + m
  <2>1. TAKE k \in 1..Len(q \o r)
  <2>2. CASE k <= Len(q) BY <1>1, <2>2
  <2>3. CASE ~(k <= Len(q))
    <3>1. k - Len(q) \in 1..Len(r) /\ k = Len(q) + (k - Len(q)) BY <1>1, <1>2, <2>3
    <3> QED BY <3>1
  <2> QED BY <2>2, <2>3
<1> QED BY <1>1, <1>2, <1>3, <1>4, <1>5

\* A message is put at the end of a linked lane.
LEMMA LinkedCat ==
    ASSUME NEW q \in Seq(Frame), NEW r \in Seq(Frame), Linked(q), Linked(r), r # <<>>, Opens(r[1])
    PROVE  /\ Linked(q \o r)
           /\ \A k \in 1..Len(q) : OpAt(q \o r, k) = OpAt(q, k)
           /\ \A m \in 1..Len(r) : OpAt(q \o r, Len(q) + m) = OpAt(r, m)
<1> DEFINE p == q \o r
<1>1. /\ p \in Seq(Frame)
      /\ Len(q) \in Nat /\ Len(r) \in Nat /\ Len(p) = Len(q) + Len(r)
      /\ \A k \in 1..Len(q) : p[k] = q[k] /\ k \in 1..Len(p)
      /\ \A m \in 1..Len(r) : p[Len(q) + m] = r[m] /\ Len(q) + m \in 1..Len(p)
      /\ \A k \in 1..Len(p) : k \in 1..Len(q) \/ \E m \in 1..Len(r) : k = Len(q) + m
  BY CatPlaces
<1>2. 1 \in 1..Len(r) BY EmptySeq
<1> HIDE DEF p
<1>3. ASSUME NEW k \in 1..Len(q)
      PROVE  /\ p[k] = q[k]
             /\ k < Len(q) => p[k + 1] = q[k + 1]
             /\ ~(k < Len(q)) => Opens(p[k + 1])
             /\ k < Len(p)
  <2>1. k < Len(q) => p[k + 1] = q[k + 1] BY <1>1
  <2>2. ~(k < Len(q)) => k = Len(q) BY <1>1
  <2>3. p[Len(q) + 1] = r[1] BY <1>1, <1>2
  <2> QED BY <1>1, <1>2, <2>1, <2>2, <2>3
<1>4. ASSUME NEW m \in 1..Len(r)
      PROVE  /\ p[Len(q) + m] = r[m]
             /\ m < Len(r) <=> Len(q) + m < Len(p)
             /\ m < Len(r) => p[(Len(q) + m) + 1] = r[m + 1]
  <2>1. m < Len(r) => m + 1 \in 1..Len(r) /\ (Len(q) + m) + 1 = Len(q) + (m + 1) BY <1>1
  <2> QED BY <1>1, <2>1
<1>5. ASSUME NEW k \in 1..Len(p)
      PROVE  /\ Opens(p[k]) \/ Piece(p[k])
             /\ p[k].type # "end" =>
                 /\ k < Len(p)
                 /\ Piece(p[k + 1]) /\ p[k + 1].session = p[k].session
                 /\ p[k + 1].body.from = IF Opens(p[k]) THEN 0 ELSE p[k].body.from + p[k].body.len
                 /\ Piece(p[k]) => p[k + 1].body.op = p[k].body.op
             /\ p[k].type = "end" /\ k < Len(p) => Opens(p[k + 1])
  <2>1. CASE k \in 1..Len(q) BY SMTT(20), <1>3, <2>1 DEF Linked
  <2>2. ASSUME NEW m \in 1..Len(r), k = Len(q) + m
        PROVE  /\ Opens(p[k]) \/ Piece(p[k])
               /\ p[k].type # "end" =>
                   /\ k < Len(p)
                   /\ Piece(p[k + 1]) /\ p[k + 1].session = p[k].session
                   /\ p[k + 1].body.from = IF Opens(p[k]) THEN 0 ELSE p[k].body.from + p[k].body.len
                   /\ Piece(p[k]) => p[k + 1].body.op = p[k].body.op
               /\ p[k].type = "end" /\ k < Len(p) => Opens(p[k + 1])
    <3>1. /\ Opens(r[m]) \/ Piece(r[m])
          /\ r[m].type # "end" =>
               /\ m < Len(r)
               /\ Piece(r[m + 1]) /\ r[m + 1].session = r[m].session
               /\ r[m + 1].body.from = IF Opens(r[m]) THEN 0 ELSE r[m].body.from + r[m].body.len
               /\ Piece(r[m]) => r[m + 1].body.op = r[m].body.op
          /\ r[m].type = "end" /\ m < Len(r) => Opens(r[m + 1])
      BY DEF Linked
    <3>2. p[k] = r[m] /\ (m < Len(r) <=> k < Len(p)) /\ (m < Len(r) => p[k + 1] = r[m + 1])
      BY <1>4, <2>2
    <3> QED BY <3>1, <3>2
  <2> QED BY <1>1, <2>1, <2>2
<1>6. Linked(p) BY <1>5 DEF Linked
<1>7. ASSUME NEW k \in 1..Len(q) PROVE OpAt(p, k) = OpAt(q, k)
  <2>1. Opens(q[k]) => k < Len(q) BY DEF Linked, Opens
  <2> QED BY <1>3, <2>1 DEF OpAt
<1>8. ASSUME NEW m \in 1..Len(r) PROVE OpAt(p, Len(q) + m) = OpAt(r, m)
  <2>1. Opens(r[m]) => m < Len(r) BY DEF Linked, Opens
  <2> QED BY <1>4, <2>1 DEF OpAt
<1> QED BY <1>6, <1>7, <1>8 DEF p

-----------------------------------------------------------------------------
(***************************************************************************)
(* One large message                                                       *)
(***************************************************************************)

\* The frames of a large message, as packreq_multi and lpackresponse write them.
LargeMessage(o, i, sz) == <<o>> \o Parts(o.session, i, sz)

LEMMA LengthOf ==
    ASSUME NEW q \in Seq(Frame), NEW n \in Nat, DOMAIN q = 1..n
    PROVE  Len(q) = n
<1>1. DOMAIN q = 1..Len(q) /\ Len(q) \in Nat BY LenProperties
<1>2. Len(q) <= n BY <1>1
<1>3. n <= Len(q) BY <1>1
<1> QED BY <1>1, <1>2, <1>3

LEMMA LargeFrames ==
    ASSUME NEW o \in Frame, Opens(o), NEW i \in Nat, NEW sz \in Nat \ {0}
    PROVE  LET m == LargeMessage(o, i, sz) IN
           /\ m \in Seq(Frame) /\ m # <<>> /\ Len(m) \in Nat /\ m[1] = o
           /\ Linked(m)
           /\ \A k \in 1..Len(m) : /\ m[k].session = o.session /\ OpAt(m, k) = i
                                   /\ Opens(m[k]) <=> k = 1
                                   /\ m[k].type = "end" <=> k = Len(m)
                                   /\ m[k].type = "end" => m[k].body.from + m[k].body.len = sz
           /\ Final(m, o.session) = 1
           /\ \A t : t # o.session => Final(m, t) = 0
<1> DEFINE s == o.session
           n == PartCount(sz)
           p == Parts(s, i, sz)
           m == LargeMessage(o, i, sz)
<1>1. n \in Nat \ {0} BY PartCountBounds
<1>2. \A k \in 1..n : /\ p[k].session = s /\ p[k].body.op = i
                      /\ p[k].body.from = (k - 1) * MULTI_PART
                      /\ p[k].body.len = PartLength(sz, k - 1)
                      /\ p[k].type \in {"part", "end"}
  BY <1>1 DEF Parts, Body
<1>3. /\ p[1].body.from = 0
      /\ \A k \in 1..(n - 1) : p[k + 1].body.from = p[k].body.from + p[k].body.len
      /\ p[n].body.from + p[n].body.len = sz
      /\ \A k \in 1..n : p[k].type = "end" <=> k = n
  BY PartsCover
<1>4. s \in Nat BY DEF Frame
<1>5. \A k \in 1..n : p[k] \in Frame
  <2>1. TAKE k \in 1..n
  <2>2. k - 1 \in 0..(n - 1) BY <1>1
  <2>3. PartLength(sz, k - 1) \in Nat
    <3>1. PartLength(sz, k - 1) \in 1..MULTI_PART BY <2>2, LastPartMarked
    <3>2. MULTI_PART \in Nat BY DEF MULTI_PART
    <3> QED BY <3>1, <3>2
  <2>4. (k - 1) * MULTI_PART \in Nat BY <1>1 DEF MULTI_PART
  <2>5. p[k] = [type |-> IF LastPart(sz, k - 1) THEN "end" ELSE "part", session |-> s,
                body |-> Body(i, (k - 1) * MULTI_PART, PartLength(sz, k - 1))]
    BY DEF Parts
  <2>6. Body(i, (k - 1) * MULTI_PART, PartLength(sz, k - 1)) \in BodySet
    BY <2>3, <2>4 DEF BodySet, Body
  <2>7. PICK b \in BodySet : b = Body(i, (k - 1) * MULTI_PART, PartLength(sz, k - 1)) BY <2>6
  <2>8. PICK t \in {"part", "end"} : t = IF LastPart(sz, k - 1) THEN "end" ELSE "part" OBVIOUS
  <2>9. p[k] = [type |-> t, session |-> s, body |-> b] BY <2>5, <2>7, <2>8
  <2>10. [type |-> t, session |-> s, body |-> b] \in Frame BY <1>4 DEF Frame
  <2> QED BY <2>9, <2>10
<1>6. p \in Seq(Frame) /\ Len(p) = n
  <2>1. p \in [1..n -> Frame] BY <1>5 DEF Parts
  <2>2. p \in Seq(Frame) BY <1>1, <2>1, SeqDef
  <2>3. DOMAIN p = 1..n BY DEF Parts
  <2>4. n \in Nat BY <1>1
  <2>5. Len(p) = n
    <3> HIDE DEF p, n
    <3> QED BY <2>2, <2>3, <2>4, LengthOf
  <2> QED BY <2>2, <2>5
<1>7. <<o>> \in Seq(Frame) /\ Len(<<o>>) = 1 /\ <<o>>[1] = o OBVIOUS
<1> HIDE DEF p, n
<1>8. /\ m \in Seq(Frame) /\ Len(m) = 1 + n /\ m[1] = o
      /\ \A k \in 2..(1 + n) : m[k] = p[k - 1] /\ k - 1 \in 1..n
  <2>1. m = <<o>> \o p BY DEF LargeMessage, p
  <2> HIDE DEF m
  <2>2. /\ <<o>> \o p \in Seq(Frame) /\ Len(<<o>> \o p) = 1 + n
        /\ \A k \in 1..1 + n : (<<o>> \o p)[k] = IF k <= 1 THEN <<o>>[k] ELSE p[k - 1]
    BY <1>6, <1>7, ConcatProperties
  <2> QED BY <1>1, <1>7, <2>1, <2>2
<1> HIDE DEF m
<1>9. ASSUME NEW k \in 1..Len(m)
      PROVE  /\ m[k].session = s
             /\ Opens(m[k]) <=> k = 1
             /\ Piece(m[k]) <=> k # 1
             /\ m[k].type = "end" <=> k = Len(m)
             /\ k # 1 => m[k].body.op = i
             /\ m[k].type = "end" => m[k].body.from + m[k].body.len = sz
  <2>1. CASE k = 1
    <3>1. m[k] = o /\ k # Len(m) BY <1>1, <1>8, <2>1
    <3>2. o.type # "end" /\ ~Piece(o) BY DEF Opens, Piece
    <3> QED BY <2>1, <3>1, <3>2
  <2>2. CASE k # 1
    <3>1. k \in 2..(1 + n) BY <1>1, <1>8, <2>2
    <3>2. m[k] = p[k - 1] /\ k - 1 \in 1..n BY <1>8, <3>1
    <3>3. k = Len(m) <=> k - 1 = n BY <1>1, <1>8
    <3>4. m[k].type = "end" <=> k = Len(m) BY <1>3, <3>2, <3>3
    <3>5. m[k].type = "end" => m[k].body.from + m[k].body.len = sz BY <1>3, <3>2
    <3> QED BY <1>2, <2>2, <3>2, <3>4, <3>5 DEF Opens, Piece
  <2> QED BY <2>1, <2>2
<1>10. Linked(m)
  <2>1. ASSUME NEW k \in 1..Len(m), m[k].type # "end"
        PROVE  /\ k < Len(m)
               /\ Piece(m[k + 1]) /\ m[k + 1].session = m[k].session
               /\ m[k + 1].body.from = IF Opens(m[k]) THEN 0 ELSE m[k].body.from + m[k].body.len
               /\ Piece(m[k]) => m[k + 1].body.op = m[k].body.op
    <3>1. k < Len(m) /\ k + 1 \in 1..Len(m) /\ k + 1 # 1 BY <1>1, <1>8, <1>9, <2>1
    <3>2. Piece(m[k + 1]) /\ m[k + 1].session = m[k].session /\ m[k + 1].body.op = i
      BY <1>9, <3>1
    <3>3. Piece(m[k]) => m[k].body.op = i BY <1>9
    <3>4. k + 1 \in 2..(1 + n) /\ (k + 1) - 1 = k BY <1>1, <1>8, <3>1
    <3>5. m[k + 1] = p[k] /\ k \in 1..n BY <1>8, <3>4
    <3>6. m[k + 1].body.from = IF Opens(m[k]) THEN 0 ELSE m[k].body.from + m[k].body.len
      <4>1. CASE k = 1 BY <1>3, <1>9, <3>5, <4>1
      <4>2. CASE k # 1
        <5>1. k \in 2..(1 + n) BY <1>1, <1>8, <4>2
        <5>2. m[k] = p[k - 1] /\ k - 1 \in 1..(n - 1) /\ (k - 1) + 1 = k BY <1>1, <1>8, <3>5, <5>1
        <5>3. p[k].body.from = p[k - 1].body.from + p[k - 1].body.len BY <1>3, <5>2
        <5> QED BY <1>9, <3>5, <4>2, <5>2, <5>3
      <4> QED BY <4>1, <4>2
    <3> QED BY <3>1, <3>2, <3>3, <3>6
  <2>2. \A k \in 1..Len(m) : (Opens(m[k]) \/ Piece(m[k])) /\ (m[k].type = "end" => ~(k < Len(m)))
    BY <1>1, <1>8, <1>9
  <2> QED BY <2>1, <2>2 DEF Linked
<1>11. \A k \in 1..Len(m) : OpAt(m, k) = i
  <2>1. TAKE k \in 1..Len(m)
  <2>2. CASE k = 1
    <3>1. 2 \in 1..Len(m) BY <1>1, <1>8
    <3> QED BY <1>9, <2>2, <3>1 DEF OpAt
  <2>3. CASE k # 1 BY <1>9, <2>3 DEF OpAt
  <2> QED BY <2>2, <2>3
<1>12. Final(m, s) = 1
  <2>1. FinalSet(m, s) = {Len(m)}
    <3>1. \A k \in 1..Len(m) : m[k].type \in FinalTypes <=> k = Len(m)
      <4>1. TAKE k \in 1..Len(m)
      <4>2. m[k].type \in FinalTypes <=> m[k].type = "end"
        BY <1>9 DEF FinalTypes, Opens, Piece
      <4> QED BY <1>9, <4>2
    <3>2. Len(m) \in 1..Len(m) BY <1>1, <1>8
    <3> QED BY <1>9, <3>1, <3>2 DEF FinalSet
  <2>2. Len(m) \in 1..Len(m) BY <1>1, <1>8
  <2> QED BY <1>8, <2>1, <2>2, FinalOne
<1>13. ASSUME NEW t, t # s PROVE Final(m, t) = 0
  <2>1. FinalSet(m, t) = {} BY <1>9, <1>13 DEF FinalSet
  <2> QED BY <1>8, <2>1, FinalNone
<1>14. Len(m) \in Nat /\ m # <<>> BY <1>1, <1>8
<1> QED BY <1>8, <1>9, <1>10, <1>11, <1>12, <1>13, <1>14 DEF m, s

\* One more body is put to those that make up the first n bytes.
LEMMA BodyAppended ==
    ASSUME NEW bodies \in Seq(BodySet), NEW i \in Nat, NEW n \in Nat, NEW b \in BodySet,
           b.op = i, b.from = n,
           (n = 0 /\ bodies = <<>>) \/ WholeMessage(bodies, i, n)
    PROVE  /\ Append(bodies, b) \in Seq(BodySet)
           /\ WholeMessage(Append(bodies, b), i, n + b.len)
<1> DEFINE c == Append(bodies, b)
<1>1. /\ c \in Seq(BodySet) /\ c # <<>> /\ Len(c) = Len(bodies) + 1
      /\ \A k \in 1..Len(bodies) : c[k] = bodies[k]
      /\ c[Len(bodies) + 1] = b
  BY AppendProperties
<1>2. Len(bodies) \in Nat BY LenProperties
<1> HIDE DEF c
<1>3. CASE n = 0 /\ bodies = <<>>
  <2>1. Len(bodies) = 0 BY <1>3
  <2> QED BY <1>1, <1>3, <2>1 DEF WholeMessage, c
<1>4. CASE WholeMessage(bodies, i, n)
  <2>1. /\ bodies # <<>>
        /\ \A k \in 1..Len(bodies) : bodies[k].op = i
        /\ bodies[1].from = 0
        /\ \A k \in 1..(Len(bodies) - 1) : bodies[k + 1].from = bodies[k].from + bodies[k].len
        /\ bodies[Len(bodies)].from + bodies[Len(bodies)].len = n
    BY <1>4 DEF WholeMessage
  <2>2. Len(bodies) # 0 BY <2>1, EmptySeq
  <2>3. \A k \in 1..Len(c) : c[k].op = i
    <3>1. TAKE k \in 1..Len(c)
    <3>2. CASE k = Len(bodies) + 1 BY <1>1, <3>2
    <3>3. CASE k \in 1..Len(bodies) BY <1>1, <2>1, <3>3
    <3> QED BY <1>1, <1>2, <3>2, <3>3
  <2>4. c[1].from = 0 BY <1>1, <1>2, <2>1, <2>2
  <2>5. \A k \in 1..(Len(c) - 1) : c[k + 1].from = c[k].from + c[k].len
    <3>1. TAKE k \in 1..(Len(c) - 1)
    <3>2. k \in 1..Len(bodies) BY <1>1, <1>2
    <3>3. c[k] = bodies[k] BY <1>1, <3>2
    <3>4. CASE k = Len(bodies) BY <1>1, <2>1, <3>3, <3>4
    <3>5. CASE k \in 1..(Len(bodies) - 1)
      <4>1. k + 1 \in 1..Len(bodies) BY <1>2, <3>5
      <4>2. c[k + 1] = bodies[k + 1] BY <1>1, <4>1
      <4> QED BY <2>1, <3>3, <3>5, <4>2
    <3> QED BY <1>2, <3>2, <3>4, <3>5
  <2>6. c[Len(c)].from + c[Len(c)].len = n + b.len BY <1>1
  <2> QED BY <1>1, <2>3, <2>4, <2>5, <2>6 DEF WholeMessage, c
<1> QED BY <1>1, <1>3, <1>4 DEF c

\* The same for a pile.
LEMMA PileAppended ==
    ASSUME NEW p \in PileSet, NEW i \in Nat, NEW n \in Nat, NEW b \in BodySet,
           b.op = i, b.from = n, Gathered(p, i, n)
    PROVE  /\ append(p, b) \in PileSet /\ append(p, b).size = p.size
           /\ append(p, b).length = n + b.len
           /\ WholeMessage(append(p, b).bodies, i, n + b.len)
           /\ Gathered(append(p, b), i, n + b.len)
<1>1. /\ p.bodies \in Seq(BodySet) /\ p.length = n /\ p.size \in Int
      /\ (n = 0 /\ p.bodies = <<>>) \/ WholeMessage(p.bodies, i, n)
  BY DEF Gathered, PileSet
<1>2. /\ append(p, b).bodies = Append(p.bodies, b) /\ append(p, b).length = p.length + b.len
      /\ append(p, b).size = p.size
  BY DEF append, PileSet
<1>3. b.len \in Nat BY DEF BodySet
<1>4. /\ Append(p.bodies, b) \in Seq(BodySet)
      /\ WholeMessage(Append(p.bodies, b), i, n + b.len)
  BY <1>1, BodyAppended
<1>5. append(p, b) \in PileSet
  <2>1. p.length + b.len \in Nat BY <1>1, <1>3
  <2> QED BY <1>1, <1>4, <2>1 DEF append, PileSet
<1> QED BY <1>1, <1>2, <1>3, <1>4, <1>5 DEF Gathered

-----------------------------------------------------------------------------
(***************************************************************************)
(* The four lanes: a frame is taken off                                    *)
(***************************************************************************)

\* A frame that is not in the lane before is not in it after.
LEMMA AwayTaken ==
    ASSUME NEW q \in Seq(Frame), NEW p, NEW f, Takes(q, p, f), NEW s
    PROVE  /\ Away(q, s) => Away(p, s)
           /\ f.session # s => (Away(p, s) => Away(q, s))
           /\ Away(q, s) => f.session # s
<1>1. /\ f = q[1] /\ Len(q) \in Nat \ {0}
      /\ \A k \in 1..Len(p) : p[k] = q[k + 1] /\ k + 1 \in 1..Len(q)
      /\ \A k \in 1..Len(q) : k # 1 => k - 1 \in 1..Len(p) /\ p[k - 1] = q[k]
  BY Taken
<1>2. Away(q, s) => Away(p, s) BY <1>1 DEF Away
<1>3. ASSUME f.session # s, Away(p, s) PROVE Away(q, s)
  <2>1. ASSUME NEW k \in 1..Len(q) PROVE q[k].session # s
    <3>1. CASE k = 1 BY <1>1, <1>3, <3>1
    <3>2. CASE k # 1 BY <1>1, <1>3, <3>2 DEF Away
    <3> QED BY <3>1, <3>2
  <2> QED BY <2>1 DEF Away
<1>4. Away(q, s) => f.session # s BY <1>1 DEF Away
<1> QED BY <1>2, <1>3, <1>4

\* The lane of small messages without its first: the others are of later operations,
\* so no other frame has its session.
LEMMA HighTaken ==
    ASSUME NEW q \in Seq(Frame), NEW p, NEW f, Takes(q, p, f), NEW o, NEW th, HighOK(q, o, th)
    PROVE  /\ HighOK(p, o, th) /\ SmallOK(f, o, th)
           /\ \A k \in 1..Len(p) : f.body.op < p[k].body.op
           /\ f.session # 0 => Away(p, f.session)
<1>1. /\ f = q[1] /\ Len(q) \in Nat \ {0} /\ Len(p) = Len(q) - 1 /\ p \in Seq(Frame)
      /\ \A k \in 1..Len(p) : p[k] = q[k + 1] /\ k + 1 \in 1..Len(q)
  BY Taken
<1>2. HighOK(p, o, th)
  <2>1. \A k, l \in 1..Len(p) : k < l => k + 1 < l + 1 BY <1>1
  <2> QED BY <1>1, <2>1 DEF HighOK
<1>3. SmallOK(f, o, th) BY <1>1 DEF HighOK
<1>4. \A k \in 1..Len(p) : f.body.op < p[k].body.op
  <2>1. TAKE k \in 1..Len(p)
  <2>2. 1 \in 1..Len(q) /\ k + 1 \in 1..Len(q) /\ 1 < k + 1 /\ p[k] = q[k + 1] BY <1>1
  <2> QED BY <1>1, <2>2 DEF HighOK
<1>5. ASSUME f.session # 0, NEW k \in 1..Len(p), p[k].session = f.session PROVE FALSE
  <2>1. f.body.op = th[f.session] BY <1>3, <1>5 DEF SmallOK
  <2>2. p[k].body.op = th[f.session] BY <1>2, <1>5 DEF HighOK, SmallOK
  <2>3. f.body.op \in Nat BY <1>3 DEF SmallOK
  <2> QED BY <1>4, <2>1, <2>2, <2>3
<1> QED BY <1>2, <1>3, <1>4, <1>5 DEF Away

\* The lane of large messages without its first frame.
LEMMA LowTaken ==
    ASSUME NEW q \in Seq(Frame), NEW p, NEW f, Takes(q, p, f), NEW o, NEW th, LowOK(q, o, th)
    PROVE  /\ LowOK(p, o, th) /\ LargeOK(f, OpAt(q, 1), o, th)
           /\ \A k \in 1..Len(p) : OpAt(p, k) = OpAt(q, k + 1)
           /\ Opens(f) \/ Piece(f)
           /\ f.type # "end" =>
                /\ p # <<>> /\ Piece(p[1]) /\ p[1].session = f.session
                /\ p[1].body.from = IF Opens(f) THEN 0 ELSE f.body.from + f.body.len
                /\ p[1].body.op = OpAt(q, 1)
           /\ f.type = "end" =>
                /\ p # <<>> => Opens(p[1])
                /\ \A k \in 1..Len(p) : OpAt(q, 1) < OpAt(p, k)
<1>1. /\ f = q[1] /\ Len(q) \in Nat \ {0} /\ Len(p) = Len(q) - 1 /\ p \in Seq(Frame) /\ Len(p) \in Nat
      /\ \A k \in 1..Len(p) : p[k] = q[k + 1] /\ k + 1 \in 1..Len(q)
  BY Taken
<1>2. Linked(q) BY DEF LowOK
<1>3. Linked(p) /\ \A k \in 1..Len(p) : OpAt(p, k) = OpAt(q, k + 1) BY <1>2, LinkedTaken
<1>4. 1 \in 1..Len(q) BY <1>1
<1>5. LowOK(p, o, th)
  <2>1. \A k \in 1..Len(p) : LargeOK(p[k], OpAt(p, k), o, th)
    BY <1>1, <1>3 DEF LowOK
  <2>2. ASSUME NEW k \in 1..Len(p), NEW l \in 1..Len(p), k < l
        PROVE  /\ OpAt(p, k) <= OpAt(p, l)
               /\ p[k].type = "end" => OpAt(p, k) < OpAt(p, l)
    <3>1. k + 1 \in 1..Len(q) /\ l + 1 \in 1..Len(q) /\ k + 1 < l + 1 /\ p[k] = q[k + 1]
      BY <1>1, <2>2
    <3>2. OpAt(p, k) = OpAt(q, k + 1) /\ OpAt(p, l) = OpAt(q, l + 1) BY <1>3
    <3> QED BY <3>1, <3>2 DEF LowOK
  <2> QED BY <1>3, <2>1, <2>2 DEF LowOK
<1>6. LargeOK(f, OpAt(q, 1), o, th) BY <1>1, <1>4 DEF LowOK
<1>7. /\ Opens(f) \/ Piece(f)
      /\ f.type # "end" =>
           /\ 1 < Len(q)
           /\ Piece(q[2]) /\ q[2].session = f.session
           /\ q[2].body.from = IF Opens(f) THEN 0 ELSE f.body.from + f.body.len
           /\ Piece(f) => q[2].body.op = f.body.op
      /\ f.type = "end" /\ 1 < Len(q) => Opens(q[2])
  <2>1. 1 + 1 = 2 OBVIOUS
  <2> QED BY <1>1, <1>2, <1>4, <2>1 DEF Linked
<1>8. p # <<>> <=> 1 < Len(q)
  BY <1>1, EmptySeq
<1>9. 1 < Len(q) => p[1] = q[2] /\ 1 \in 1..Len(p) BY <1>1
<1>10. f.type # "end" => p[1].body.op = OpAt(q, 1)
  <2>1. Opens(f) => OpAt(q, 1) = q[2].body.op BY <1>1 DEF OpAt
  <2>2. ~Opens(f) => OpAt(q, 1) = f.body.op BY <1>1 DEF OpAt
  <2> QED BY <1>7, <1>9, <2>1, <2>2
<1>11. f.type = "end" => \A k \in 1..Len(p) : OpAt(q, 1) < OpAt(p, k)
  <2>1. HAVE f.type = "end"
  <2>2. TAKE k \in 1..Len(p)
  <2>3. k + 1 \in 1..Len(q) /\ 1 < k + 1 BY <1>1
  <2>4. OpAt(q, 1) < OpAt(q, k + 1) BY <1>1, <1>4, <2>1, <2>3 DEF LowOK
  <2> QED BY <1>3, <2>4
<1> QED BY <1>3, <1>5, <1>6, <1>7, <1>8, <1>9, <1>10, <1>11

\* The lane of small responses without its first frame.
LEMMA ReplyHighTaken ==
    ASSUME NEW q \in Seq(Frame), NEW p, NEW f, Takes(q, p, f), NEW th, ReplyHighOK(q, th)
    PROVE  ReplyHighOK(p, th) /\ ReplyOK(f, th)
<1>1. /\ f = q[1] /\ Len(q) \in Nat \ {0}
      /\ \A k \in 1..Len(p) : p[k] = q[k + 1] /\ k + 1 \in 1..Len(q)
  BY Taken
<1> QED BY <1>1 DEF ReplyHighOK

\* The lane of large responses without its first frame.
LEMMA ReplyLowTaken ==
    ASSUME NEW q \in Seq(Frame), NEW p, NEW f, Takes(q, p, f), NEW th, ReplyLowOK(q, th)
    PROVE  /\ ReplyLowOK(p, th) /\ LargeReplyOK(f, OpAt(q, 1), th)
           /\ \A k \in 1..Len(p) : OpAt(p, k) = OpAt(q, k + 1)
           /\ Opens(f) \/ Piece(f)
           /\ f.type # "end" =>
                /\ p # <<>> /\ Piece(p[1]) /\ p[1].session = f.session
                /\ p[1].body.from = IF Opens(f) THEN 0 ELSE f.body.from + f.body.len
                /\ p[1].body.op = OpAt(q, 1)
           /\ f.type = "end" => /\ p # <<>> => Opens(p[1])
                                /\ Away(p, f.session)
           /\ Opens(f) => \A l \in 1..Len(p) : p[l].session = f.session => EndsAt(p[l], f.size)
<1>1. /\ f = q[1] /\ Len(q) \in Nat \ {0} /\ Len(p) = Len(q) - 1 /\ p \in Seq(Frame) /\ Len(p) \in Nat
      /\ \A k \in 1..Len(p) : p[k] = q[k + 1] /\ k + 1 \in 1..Len(q)
  BY Taken
<1>2. Linked(q) BY DEF ReplyLowOK
<1>3. Linked(p) /\ \A k \in 1..Len(p) : OpAt(p, k) = OpAt(q, k + 1) BY <1>2, LinkedTaken
<1>4. 1 \in 1..Len(q) BY <1>1
<1>5. ReplyLowOK(p, th)
  <2>1. \A k \in 1..Len(p) : LargeReplyOK(p[k], OpAt(p, k), th)
    BY <1>1, <1>3 DEF ReplyLowOK
  <2>2. ASSUME NEW k \in 1..Len(p), NEW l \in 1..Len(p)
        PROVE  /\ k < l /\ p[k].type = "end" => p[l].session # p[k].session
               /\ Opens(p[k]) /\ p[l].session = p[k].session => EndsAt(p[l], p[k].size)
    <3>1. k + 1 \in 1..Len(q) /\ l + 1 \in 1..Len(q) /\ (k < l => k + 1 < l + 1)
      BY <1>1
    <3>2. p[k] = q[k + 1] /\ p[l] = q[l + 1] BY <1>1
    <3> QED BY <3>1, <3>2 DEF ReplyLowOK
  <2> QED BY <1>3, <2>1, <2>2 DEF ReplyLowOK
<1>6. LargeReplyOK(f, OpAt(q, 1), th) BY <1>1, <1>4 DEF ReplyLowOK
<1>7. /\ Opens(f) \/ Piece(f)
      /\ f.type # "end" =>
           /\ 1 < Len(q)
           /\ Piece(q[2]) /\ q[2].session = f.session
           /\ q[2].body.from = IF Opens(f) THEN 0 ELSE f.body.from + f.body.len
           /\ Piece(f) => q[2].body.op = f.body.op
      /\ f.type = "end" /\ 1 < Len(q) => Opens(q[2])
  <2>1. 1 + 1 = 2 OBVIOUS
  <2> QED BY <1>1, <1>2, <1>4, <2>1 DEF Linked
<1>8. p # <<>> <=> 1 < Len(q)
  BY <1>1, EmptySeq
<1>9. 1 < Len(q) => p[1] = q[2] /\ 1 \in 1..Len(p) BY <1>1
<1>10. f.type # "end" => p[1].body.op = OpAt(q, 1)
  <2>1. Opens(f) => OpAt(q, 1) = q[2].body.op BY <1>1 DEF OpAt
  <2>2. ~Opens(f) => OpAt(q, 1) = f.body.op BY <1>1 DEF OpAt
  <2> QED BY <1>7, <1>9, <2>1, <2>2
<1>11. f.type = "end" => Away(p, f.session)
  <2>1. HAVE f.type = "end"
  <2>2. ASSUME NEW k \in 1..Len(p) PROVE p[k].session # f.session
    <3>1. k + 1 \in 1..Len(q) /\ 1 < k + 1 /\ p[k] = q[k + 1] BY <1>1
    <3> QED BY <1>1, <1>4, <2>1, <3>1 DEF ReplyLowOK
  <2> QED BY <2>2 DEF Away
<1>12. Opens(f) => \A l \in 1..Len(p) : p[l].session = f.session => EndsAt(p[l], f.size)
  BY <1>1, <1>4 DEF ReplyLowOK
<1> QED BY <1>3, <1>5, <1>6, <1>7, <1>8, <1>9, <1>10, <1>11, <1>12

-----------------------------------------------------------------------------
(***************************************************************************)
(* The four lanes: operations are made, callers come and go                *)
(***************************************************************************)

\* The operations o are the first of p.
Extends(o, p) ==
    /\ Len(o) \in Nat /\ Len(p) \in Nat /\ Len(o) <= Len(p)
    /\ \A i \in 1..Len(o) : p[i] = o[i]

\* The callers are the same for all sessions of the lane.
SameFor(q, th, tg) == \A k \in 1..Len(q) : q[k].session # 0 => tg[q[k].session] = th[q[k].session]

LEMMA HighKept ==
    ASSUME NEW q \in Seq(Frame), NEW o, NEW p, NEW th, NEW tg, Extends(o, p), SameFor(q, th, tg),
           HighOK(q, o, th)
    PROVE  HighOK(q, p, tg)
<1>1. ASSUME NEW k \in 1..Len(q) PROVE SmallOK(q[k], p, tg)
  <2>1. SmallOK(q[k], o, th) BY DEF HighOK
  <2>2. q[k].body.op \in 1..Len(p) /\ p[q[k].body.op] = o[q[k].body.op]
    BY <2>1 DEF SmallOK, Extends
  <2>3. q[k].session \in Session => q[k].session # 0 BY DEF Session
  <2> QED BY <2>1, <2>2, <2>3 DEF SmallOK, SameFor
<1> QED BY <1>1 DEF HighOK

LEMMA LowKept ==
    ASSUME NEW q \in Seq(Frame), NEW o, NEW p, NEW th, NEW tg, Extends(o, p), SameFor(q, th, tg),
           LowOK(q, o, th)
    PROVE  LowOK(q, p, tg)
<1>1. ASSUME NEW k \in 1..Len(q) PROVE LargeOK(q[k], OpAt(q, k), p, tg)
  <2>1. LargeOK(q[k], OpAt(q, k), o, th) BY DEF LowOK
  <2>2. OpAt(q, k) \in 1..Len(p) /\ p[OpAt(q, k)] = o[OpAt(q, k)]
    <3>1. PICK i : i = OpAt(q, k) OBVIOUS
    <3>2. i \in 1..Len(o) BY <2>1, <3>1 DEF LargeOK
    <3>3. i \in 1..Len(p) /\ p[i] = o[i] BY <3>2 DEF Extends
    <3> QED BY <3>1, <3>3
  <2>3. q[k].session \in Session => q[k].session # 0 BY DEF Session
  <2>4. tg[q[k].session] = th[q[k].session] BY <2>1, <2>3 DEF LargeOK, SameFor
  <2> QED BY <2>1, <2>2, <2>4 DEF LargeOK
<1> QED BY <1>1 DEF LowOK

LEMMA ReplyHighKept ==
    ASSUME NEW q \in Seq(Frame), NEW th, NEW tg, SameFor(q, th, tg), ReplyHighOK(q, th)
    PROVE  ReplyHighOK(q, tg)
<1>1. ASSUME NEW k \in 1..Len(q) PROVE ReplyOK(q[k], tg)
  <2>1. ReplyOK(q[k], th) BY DEF ReplyHighOK
  <2>3. q[k].session # 0 => tg[q[k].session] = th[q[k].session] BY DEF SameFor
  <2> QED BY <2>1, <2>3 DEF ReplyOK
<1> QED BY <1>1 DEF ReplyHighOK

LEMMA ReplyLowKept ==
    ASSUME NEW q \in Seq(Frame), NEW th, NEW tg, SameFor(q, th, tg), ReplyLowOK(q, th)
    PROVE  ReplyLowOK(q, tg)
<1>1. ASSUME NEW k \in 1..Len(q) PROVE LargeReplyOK(q[k], OpAt(q, k), tg)
  <2>1. LargeReplyOK(q[k], OpAt(q, k), th) BY DEF ReplyLowOK
  <2>2. q[k].session \in Session => q[k].session # 0 BY DEF Session
  <2>3. tg[q[k].session] = th[q[k].session] BY <2>1, <2>2 DEF LargeReplyOK, SameFor
  <2> QED BY <2>1, <2>3 DEF LargeReplyOK
<1> QED BY <1>1 DEF ReplyLowOK

-----------------------------------------------------------------------------
(***************************************************************************)
(* The four lanes: a message is put on                                     *)
(***************************************************************************)

LEMMA AwayPut ==
    ASSUME NEW q \in Seq(Frame), NEW r \in Seq(Frame), NEW s
    PROVE  Away(q \o r, s) <=> Away(q, s) /\ Away(r, s)
<1>1. /\ \A k \in 1..Len(q) : (q \o r)[k] = q[k] /\ k \in 1..Len(q \o r)
      /\ \A m \in 1..Len(r) : (q \o r)[Len(q) + m] = r[m] /\ Len(q) + m \in 1..Len(q \o r)
      /\ \A k \in 1..Len(q \o r) : k \in 1..Len(q) \/ \E m \in 1..Len(r) : k = Len(q) + m
  BY CatPlaces
<1>2. Away(q \o r, s) => Away(q, s) /\ Away(r, s) BY <1>1 DEF Away
<1>3. ASSUME Away(q, s), Away(r, s), NEW k \in 1..Len(q \o r)
      PROVE  (q \o r)[k].session # s
  <2>1. CASE k \in 1..Len(q) BY <1>1, <1>3, <2>1 DEF Away
  <2>2. ASSUME NEW m \in 1..Len(r), k = Len(q) + m PROVE (q \o r)[k].session # s
    BY <1>1, <1>3, <2>2 DEF Away
  <2> QED BY <1>1, <2>1, <2>2
<1> QED BY <1>2, <1>3 DEF Away

LEMMA HighPut ==
    ASSUME NEW q \in Seq(Frame), NEW f \in Frame, NEW o, NEW th, HighOK(q, o, th), SmallOK(f, o, th),
           \A k \in 1..Len(q) : q[k].body.op < f.body.op
    PROVE  HighOK(q \o <<f>>, o, th)
<1> DEFINE p == q \o <<f>>
<1>0. <<f>> \in Seq(Frame) /\ Len(<<f>>) = 1 /\ <<f>>[1] = f OBVIOUS
<1>1. /\ p \in Seq(Frame) /\ Len(q) \in Nat /\ Len(p) = Len(q) + 1
      /\ \A k \in 1..Len(q) : p[k] = q[k]
      /\ p[Len(q) + 1] = f
  <2>1. 1 \in 1..Len(<<f>>) BY <1>0
  <2> QED BY <1>0, <2>1, CatPlaces
<1> HIDE DEF p
<1>2. \A k \in 1..Len(p) : k \in 1..Len(q) \/ k = Len(q) + 1 BY <1>1
<1>3. \A k \in 1..Len(p) : SmallOK(p[k], o, th) BY <1>1, <1>2 DEF HighOK
<1>4. ASSUME NEW k \in 1..Len(p), NEW l \in 1..Len(p), k < l PROVE p[k].body.op < p[l].body.op
  <2>1. k \in 1..Len(q) BY <1>1, <1>4
  <2>2. CASE l \in 1..Len(q) BY <1>1, <1>4, <2>1, <2>2 DEF HighOK
  <2>3. CASE l = Len(q) + 1 BY <1>1, <2>1, <2>3
  <2> QED BY <1>2, <2>2, <2>3
<1>5. HighOK(p, o, th) BY <1>3, <1>4 DEF HighOK
<1> QED BY <1>5 DEF p

LEMMA LowPut ==
    ASSUME NEW q \in Seq(Frame), NEW r \in Seq(Frame), NEW o, NEW th, LowOK(q, o, th), LowOK(r, o, th),
           r # <<>>, Opens(r[1]),
           \A k \in 1..Len(q), m \in 1..Len(r) : OpAt(q, k) < OpAt(r, m)
    PROVE  /\ LowOK(q \o r, o, th)
           /\ \A k \in 1..Len(q) : OpAt(q \o r, k) = OpAt(q, k)
           /\ \A m \in 1..Len(r) : OpAt(q \o r, Len(q) + m) = OpAt(r, m)
<1> DEFINE p == q \o r
<1>1. /\ p \in Seq(Frame)
      /\ Len(q) \in Nat /\ Len(r) \in Nat /\ Len(p) = Len(q) + Len(r)
      /\ \A k \in 1..Len(q) : p[k] = q[k] /\ k \in 1..Len(p)
      /\ \A m \in 1..Len(r) : p[Len(q) + m] = r[m] /\ Len(q) + m \in 1..Len(p)
      /\ \A k \in 1..Len(p) : k \in 1..Len(q) \/ \E m \in 1..Len(r) : k = Len(q) + m
  BY CatPlaces
<1>2. /\ Linked(p)
      /\ \A k \in 1..Len(q) : OpAt(p, k) = OpAt(q, k)
      /\ \A m \in 1..Len(r) : OpAt(p, Len(q) + m) = OpAt(r, m)
  BY LinkedCat DEF LowOK
<1> HIDE DEF p
<1>3. ASSUME NEW k \in 1..Len(p) PROVE LargeOK(p[k], OpAt(p, k), o, th)
  <2>1. CASE k \in 1..Len(q) BY <1>1, <1>2, <2>1 DEF LowOK
  <2>2. ASSUME NEW m \in 1..Len(r), k = Len(q) + m PROVE LargeOK(p[k], OpAt(p, k), o, th)
    BY <1>1, <1>2, <2>2 DEF LowOK
  <2> QED BY <1>1, <2>1, <2>2
<1>4. ASSUME NEW k \in 1..Len(p), NEW l \in 1..Len(p), k < l
      PROVE  /\ OpAt(p, k) <= OpAt(p, l)
             /\ p[k].type = "end" => OpAt(p, k) < OpAt(p, l)
  <2>1. CASE k \in 1..Len(q) /\ l \in 1..Len(q)
    BY <1>1, <1>2, <1>4, <2>1 DEF LowOK
  <2>2. ASSUME k \in 1..Len(q), NEW m \in 1..Len(r), l = Len(q) + m
        PROVE  OpAt(p, k) < OpAt(p, l) /\ OpAt(p, k) <= OpAt(p, l)
    <3>1. OpAt(p, k) = OpAt(q, k) /\ OpAt(p, l) = OpAt(r, m) BY <1>2, <2>2
    <3>2. OpAt(q, k) < OpAt(r, m) BY <2>2
    <3>3. OpAt(q, k) \in 1..Len(o) BY <2>2 DEF LowOK, LargeOK
    <3>4. OpAt(r, m) \in 1..Len(o) BY <2>2 DEF LowOK, LargeOK
    <3> QED BY <3>1, <3>2, <3>3, <3>4
  <2>3. ASSUME NEW n \in 1..Len(r), k = Len(q) + n, NEW m \in 1..Len(r), l = Len(q) + m
        PROVE  /\ OpAt(p, k) <= OpAt(p, l)
               /\ p[k].type = "end" => OpAt(p, k) < OpAt(p, l)
    <3>1. n < m BY <1>1, <1>4, <2>3
    <3>2. OpAt(p, k) = OpAt(r, n) /\ OpAt(p, l) = OpAt(r, m) /\ p[k] = r[n] BY <1>1, <1>2, <2>3
    <3> QED BY <3>1, <3>2 DEF LowOK
  <2>4. ~(k \notin 1..Len(q) /\ l \in 1..Len(q)) BY <1>1, <1>4
  <2> QED BY <1>1, <2>1, <2>2, <2>3, <2>4
<1>5. LowOK(p, o, th) BY <1>2, <1>3, <1>4 DEF LowOK
<1> QED BY <1>2, <1>5 DEF p

LEMMA ReplyHighPut ==
    ASSUME NEW q \in Seq(Frame), NEW f \in Frame, NEW th, ReplyHighOK(q, th), ReplyOK(f, th)
    PROVE  ReplyHighOK(q \o <<f>>, th)
<1> DEFINE p == q \o <<f>>
<1>0. <<f>> \in Seq(Frame) /\ Len(<<f>>) = 1 /\ <<f>>[1] = f OBVIOUS
<1>1. /\ p \in Seq(Frame) /\ Len(q) \in Nat /\ Len(p) = Len(q) + 1
      /\ \A k \in 1..Len(q) : p[k] = q[k]
      /\ p[Len(q) + 1] = f
  <2>1. 1 \in 1..Len(<<f>>) BY <1>0
  <2> QED BY <1>0, <2>1, CatPlaces
<1> HIDE DEF p
<1>2. \A k \in 1..Len(p) : k \in 1..Len(q) \/ k = Len(q) + 1 BY <1>1
<1>3. ReplyHighOK(p, th) BY <1>1, <1>2 DEF ReplyHighOK
<1> QED BY <1>3 DEF p

LEMMA ReplyLowPut ==
    ASSUME NEW q \in Seq(Frame), NEW r \in Seq(Frame), NEW th, ReplyLowOK(q, th), ReplyLowOK(r, th),
           r # <<>>, Opens(r[1]),
           \A k \in 1..Len(q), m \in 1..Len(r) : q[k].session # r[m].session
    PROVE  ReplyLowOK(q \o r, th)
<1> DEFINE p == q \o r
<1>1. /\ p \in Seq(Frame)
      /\ Len(q) \in Nat /\ Len(r) \in Nat /\ Len(p) = Len(q) + Len(r)
      /\ \A k \in 1..Len(q) : p[k] = q[k] /\ k \in 1..Len(p)
      /\ \A m \in 1..Len(r) : p[Len(q) + m] = r[m] /\ Len(q) + m \in 1..Len(p)
      /\ \A k \in 1..Len(p) : k \in 1..Len(q) \/ \E m \in 1..Len(r) : k = Len(q) + m
  BY CatPlaces
<1>2. /\ Linked(p)
      /\ \A k \in 1..Len(q) : OpAt(p, k) = OpAt(q, k)
      /\ \A m \in 1..Len(r) : OpAt(p, Len(q) + m) = OpAt(r, m)
  BY LinkedCat DEF ReplyLowOK
<1> HIDE DEF p
<1>3. ASSUME NEW k \in 1..Len(p) PROVE LargeReplyOK(p[k], OpAt(p, k), th)
  <2>1. CASE k \in 1..Len(q) BY <1>1, <1>2, <2>1 DEF ReplyLowOK
  <2>2. ASSUME NEW m \in 1..Len(r), k = Len(q) + m PROVE LargeReplyOK(p[k], OpAt(p, k), th)
    BY <1>1, <1>2, <2>2 DEF ReplyLowOK
  <2> QED BY <1>1, <2>1, <2>2
<1>4. ASSUME NEW k \in 1..Len(p), NEW l \in 1..Len(p)
      PROVE  /\ k < l /\ p[k].type = "end" => p[l].session # p[k].session
             /\ Opens(p[k]) /\ p[l].session = p[k].session => EndsAt(p[l], p[k].size)
  <2>1. CASE k \in 1..Len(q) /\ l \in 1..Len(q)
    <3>1. p[k] = q[k] /\ p[l] = q[l] BY <1>1, <2>1
    <3>2. k \in 1..Len(q) /\ l \in 1..Len(q) BY <2>1
    <3> QED BY <3>1, <3>2 DEF ReplyLowOK
  <2>2. ASSUME k \in 1..Len(q), NEW m \in 1..Len(r), l = Len(q) + m PROVE p[l].session # p[k].session
    BY <1>1, <2>2
  <2>3. ASSUME l \in 1..Len(q), NEW m \in 1..Len(r), k = Len(q) + m PROVE p[l].session # p[k].session
    BY ZenonT(40), <1>1, <2>3
  <2>4. ASSUME NEW n \in 1..Len(r), k = Len(q) + n, NEW m \in 1..Len(r), l = Len(q) + m
        PROVE  /\ k < l /\ p[k].type = "end" => p[l].session # p[k].session
               /\ Opens(p[k]) /\ p[l].session = p[k].session => EndsAt(p[l], p[k].size)
    <3>1. k < l => n < m BY <1>1, <2>4
    <3>2. p[k] = r[n] /\ p[l] = r[m] BY <1>1, <2>4
    <3> QED BY <3>1, <3>2 DEF ReplyLowOK
  <2> QED BY <1>1, <2>1, <2>2, <2>3, <2>4
<1>5. ReplyLowOK(p, th) BY <1>2, <1>3, <1>4 DEF ReplyLowOK
<1> QED BY <1>5 DEF p

-----------------------------------------------------------------------------
(***************************************************************************)
(* Facts of every state                                                    *)
(***************************************************************************)

\* What the fields of a frame are.
LEMMA FrameFields ==
    ASSUME NEW f \in Frame
    PROVE  /\ f.session \in Nat
           /\ Opens(f) => f.size \in Nat
           /\ ~Opens(f) => /\ f.body \in BodySet
                           /\ f.body.op \in Nat /\ f.body.from \in Nat /\ f.body.len \in Nat
BY DEF Frame, Opens, BodySet

LEMMA OpAtNat ==
    ASSUME NEW q \in Seq(Frame), Linked(q), NEW k \in 1..Len(q)
    PROVE  OpAt(q, k) \in Nat
<1>1. q[k] \in Frame BY ElementOfSeq
<1>2. CASE Opens(q[k])
  <2>1. k < Len(q) /\ Piece(q[k + 1]) BY <1>2 DEF Linked, Opens
  <2>2. k + 1 \in 1..Len(q) BY <2>1, LenProperties
  <2>3. q[k + 1] \in Frame BY <2>2, ElementOfSeq
  <2>4. ~Opens(q[k + 1]) BY <2>1 DEF Opens, Piece
  <2>5. q[k + 1].body.op \in Nat BY <2>3, <2>4, FrameFields
  <2> QED BY <1>2, <2>5 DEF OpAt
<1>3. CASE ~Opens(q[k])
  <2>1. q[k].body.op \in Nat BY <1>1, <1>3, FrameFields
  <2> QED BY <1>3, <2>1 DEF OpAt
<1> QED BY <1>2, <1>3

\* A large response has its caller.
LEMMA Waited ==
    ASSUME IndInv
    PROVE  /\ 0 \notin Session
           /\ \A k \in 1..Len(reply_low) : LET f == reply_low[k] IN
                f.session \in Session /\ thread[f.session] # Nil
           /\ \A t \in Session : thread[t] = Nil => Away(reply_low, t)
<1>1. 0 \notin Session BY DEF Session
<1>2. Nil \notin Nat BY ConstAssumption
<1>4. ASSUME NEW k \in 1..Len(reply_low)
      PROVE  reply_low[k].session \in Session /\ thread[reply_low[k].session] # Nil
  <2>1. LargeReplyOK(reply_low[k], OpAt(reply_low, k), thread) BY DEF IndInv, ReplyLowOK
  <2>2. OpAt(reply_low, k) \in Nat BY OpAtNat DEF IndInv, Types, ReplyLowOK
  <2> QED BY <1>2, <2>1, <2>2 DEF LargeReplyOK
<1>6. \A t \in Session : thread[t] = Nil => Away(reply_low, t) BY <1>4 DEF Away
<1> QED BY <1>1, <1>4, <1>6

\* A session that is not in use has no caller and is nowhere.
LEMMA NotInUse ==
    ASSUME IndInv, NEW t \in Session, ~InUse(t)
    PROVE  /\ thread[t] = Nil /\ Away(high, t) /\ Away(low, t) /\ Away(reply_high, t)
           /\ \A r \in serving : r.session # t
<1>1. DOMAIN thread = Session BY DEF IndInv, Types
<1>2. /\ DOMAIN high = 1..Len(high) /\ DOMAIN low = 1..Len(low)
      /\ DOMAIN reply_high = 1..Len(reply_high)
  BY LenProperties DEF IndInv, Types
<1>3. thread[t] = Nil BY <1>1 DEF InUse
<1>4. Away(high, t) BY <1>2 DEF InUse, Away, Range
<1>5. Away(low, t) BY <1>2 DEF InUse, Away, Range
<1>6. Away(reply_high, t) BY <1>2 DEF InUse, Away, Range
<1>7. \A r \in serving : r.session # t BY DEF InUse
<1> QED BY <1>3, <1>4, <1>5, <1>6, <1>7

\* What was taken, place by place.
LEMMA IntactAt ==
    ASSUME taken \in Seq([bodies : Seq(BodySet), is_push : BOOLEAN])
    PROVE  Intact <=> \A j \in 1..Len(taken) : \E i \in 1..Len(ops) :
                         /\ WholeMessage(taken[j].bodies, i, ops[i].size)
                         /\ taken[j].is_push = ops[i].is_push
<1>1. DOMAIN taken = 1..Len(taken) BY LenProperties
<1> QED BY <1>1 DEF Intact, Range

-----------------------------------------------------------------------------
(***************************************************************************)
(* command.req and command.push                                            *)
(***************************************************************************)

\* A request or a push is made; what holds of all that was there before.
Makes(x) ==
    /\ x \in OpSet /\ New <= MaxOps
    /\ ops' = Append(ops, x)
    /\ thread' = IF x.is_push THEN thread ELSE [thread EXCEPT ![session] = New]
    /\ UNCHANGED <<large_request, taken, serving, reply_high, reply_low, result_data, answer>>

LEMMA MakeNumbers ==
    ASSUME IndInv, NEW x, Makes(x)
    PROVE  /\ Len(ops) \in Nat /\ New = Len(ops) + 1 /\ New \in Op
           /\ ops' \in Seq(OpSet) /\ Len(ops') = Len(ops) + 1
           /\ Len(ops') <= MaxOps /\ Extends(ops, ops') /\ ops'[New] = x
           /\ thread' \in [Session -> Op \cup {Nil}]
           /\ thread[session] = Nil /\ session \in Session
           /\ thread'[session] = IF x.is_push THEN Nil ELSE New
           /\ \A t \in Session : t # session => thread'[t] = thread[t]
           /\ New # Nil
<1>1. Len(ops) \in Nat BY LenProperties DEF IndInv, Types
<1>2. New = Len(ops) + 1 /\ New \in Op BY <1>1, ConstAssumption DEF New, Op, Makes
<1>3. x \in OpSet BY DEF Makes
<1>4. /\ ops' \in Seq(OpSet) /\ Len(ops') = Len(ops) + 1
      /\ \A i \in 1..Len(ops) : ops'[i] = ops[i]
      /\ ops'[Len(ops) + 1] = x
  BY <1>3, AppendProperties DEF IndInv, Types, Makes
<1>5. Extends(ops, ops') BY <1>1, <1>4 DEF Extends
<1>6. thread[session] = Nil /\ session \in Session BY DEF IndInv, Fresh, Types
<1>9. /\ thread' \in [Session -> Op \cup {Nil}]
      /\ thread'[session] = IF x.is_push THEN Nil ELSE New
      /\ \A t \in Session : t # session => thread'[t] = thread[t]
  <2>1. CASE x.is_push BY <1>6, <2>1 DEF IndInv, Types, Makes
  <2>2. CASE ~x.is_push BY <1>2, <1>6, <2>2 DEF IndInv, Types, Makes
  <2> QED BY <2>1, <2>2
<1>10. New # Nil BY <1>1, <1>2, ConstAssumption
<1>11. Len(ops') <= MaxOps BY <1>2, <1>4 DEF Makes
<1> QED BY <1>1, <1>2, <1>4, <1>5, <1>6, <1>9, <1>10, <1>11

LEMMA MakeKeeps ==
    ASSUME IndInv, NEW x, Makes(x)
    PROVE  /\ Threads'
           /\ HighOK(high, ops', thread') /\ LowOK(low, ops', thread')
           /\ ReplyHighOK(reply_high', thread') /\ ReplyLowOK(reply_low', thread')
           /\ Served' /\ Gathering' /\ Intact' /\ TakenInOrder' /\ ReplyMatches'
<1>n. /\ Len(ops) \in Nat /\ New = Len(ops) + 1 /\ New \in Op
      /\ Len(ops') = Len(ops) + 1 /\ Extends(ops, ops') /\ ops'[New] = x
      /\ thread[session] = Nil /\ session \in Session
      /\ thread'[session] = IF x.is_push THEN Nil ELSE New
      /\ \A t \in Session : t # session => thread'[t] = thread[t]
      /\ New # Nil
  BY MakeNumbers
<1>u. UNCHANGED <<large_request, taken, serving, reply_high, reply_low, result_data, answer>>
  BY DEF Makes
<1>w. /\ 0 \notin Session
      /\ \A k \in 1..Len(reply_low) : LET f == reply_low[k] IN
           f.session \in Session /\ thread[f.session] # Nil
  BY Waited
<1>e. \A i \in 1..Len(ops) : ops'[i] = ops[i] /\ i \in 1..Len(ops') BY <1>n DEF Extends
<1>1. Threads'
  <2>0. ASSUME NEW s \in Session, s # session, thread[s] # Nil
        PROVE  thread[s] \in 1..Len(ops) /\ thread[s] # New /\ ~ops[thread[s]].is_push
    <3>1. thread[s] \in Op BY <2>0 DEF IndInv, Types
    <3>2. thread[s] <= Len(ops) /\ ~ops[thread[s]].is_push BY <2>0 DEF IndInv, Threads
    <3> QED BY <1>n, <3>1, <3>2 DEF Op
  <2>1. ASSUME NEW s \in Session, thread'[s] # Nil
        PROVE  thread'[s] <= Len(ops') /\ ~ops'[thread'[s]].is_push
    <3>1. CASE s = session
      <4>1. ~x.is_push /\ thread'[s] = New BY <1>n, <2>1, <3>1
      <4> QED BY <1>n, <4>1
    <3>2. CASE s # session
      <4>1. thread'[s] = thread[s] BY <1>n, <3>2
      <4>2. thread[s] \in 1..Len(ops) /\ ~ops[thread[s]].is_push BY <2>0, <2>1, <3>2, <4>1
      <4>3. ops'[thread[s]] = ops[thread[s]] BY <1>e, <4>2
      <4> QED BY <1>n, <4>1, <4>2, <4>3
    <3> QED BY <3>1, <3>2
  <2>2. ASSUME NEW s \in Session, NEW t \in Session, thread'[s] # Nil, thread'[s] = thread'[t]
        PROVE  s = t
    <3>1. CASE s # session /\ t # session
      BY <1>n, <2>2, <3>1 DEF IndInv, Threads
    <3>2. CASE s = session /\ t # session
      <4>1. thread'[s] = New /\ thread'[t] = thread[t] BY <1>n, <2>2, <3>2
      <4> QED BY <1>n, <2>0, <2>2, <3>2, <4>1
    <3>3. CASE s # session /\ t = session
      <4>1. thread'[t] = New /\ thread'[s] = thread[s] BY <1>n, <2>2, <3>3
      <4> QED BY <1>n, <2>0, <2>2, <3>3, <4>1
    <3> QED BY <3>1, <3>2, <3>3
  <2> QED BY <2>1, <2>2 DEF Threads
<1>2. HighOK(high, ops', thread')
  <2>1. SameFor(high, thread, thread')
    <3>1. ASSUME NEW k \in 1..Len(high), high[k].session # 0
          PROVE  thread'[high[k].session] = thread[high[k].session]
      <4>1. SmallOK(high[k], ops, thread) BY DEF IndInv, HighOK
      <4>2. high[k].session \in Session BY <3>1, <4>1 DEF SmallOK
      <4>3. high[k].session # session BY DEF IndInv, Fresh, Away
      <4> QED BY <1>n, <4>2, <4>3
    <3> QED BY <3>1 DEF SameFor
  <2> QED BY <1>n, <2>1, HighKept DEF IndInv, Types
<1>3. LowOK(low, ops', thread')
  <2>1. SameFor(low, thread, thread')
    <3>1. ASSUME NEW k \in 1..Len(low)
          PROVE  thread'[low[k].session] = thread[low[k].session]
      <4>1. LargeOK(low[k], OpAt(low, k), ops, thread) BY DEF IndInv, LowOK
      <4>2. low[k].session \in Session BY <4>1 DEF LargeOK
      <4>3. low[k].session # session BY DEF IndInv, Fresh, Away
      <4> QED BY <1>n, <4>2, <4>3
    <3> QED BY <3>1 DEF SameFor
  <2> QED BY <1>n, <2>1, LowKept DEF IndInv, Types
<1>4. ReplyHighOK(reply_high', thread')
  <2>1. SameFor(reply_high, thread, thread')
    <3>1. ASSUME NEW k \in 1..Len(reply_high), reply_high[k].session # 0
          PROVE  thread'[reply_high[k].session] = thread[reply_high[k].session]
      <4>1. ReplyOK(reply_high[k], thread) BY DEF IndInv, ReplyHighOK
      <4>2. reply_high[k].session \in Session BY <3>1, <4>1 DEF ReplyOK
      <4>3. reply_high[k].session # session BY DEF IndInv, Fresh, Away
      <4> QED BY <1>n, <4>2, <4>3
    <3> QED BY <3>1 DEF SameFor
  <2>2. ReplyHighOK(reply_high, thread') BY <2>1, ReplyHighKept DEF IndInv, Types
  <2> QED BY <1>u, <2>2
<1>5. ReplyLowOK(reply_low', thread')
  <2>1. SameFor(reply_low, thread, thread') BY <1>n, <1>w DEF SameFor
  <2>2. ReplyLowOK(reply_low, thread') BY <2>1, ReplyLowKept DEF IndInv, Types
  <2> QED BY <1>u, <2>2
<1>6. Served'
  <2>1. ASSUME NEW r \in serving, r.session # 0 PROVE thread'[r.session] = thread[r.session]
    <3>1. r.session \in Session /\ r.session # session BY <2>1 DEF IndInv, Types, Fresh
    <3> QED BY <1>n, <3>1
  <2>2. ASSUME NEW r \in serving PROVE r.op \in 1..Len(ops') /\ ops'[r.op] = ops[r.op]
    BY <1>e DEF IndInv, Served
  <2>3. ASSUME NEW r \in serving
        PROVE  /\ r.session # 0 => thread'[r.session] = IF ops'[r.op].is_push THEN Nil ELSE r.op
               /\ r.session = 0 => ops'[r.op].is_push
    BY <2>1, <2>2 DEF IndInv, Served
  <2> QED BY <1>u, <2>2, <2>3 DEF Served
<1>7. Gathering' /\ ReplyMatches' BY <1>u DEF IndInv, Gathering, ReplyMatches
<1>8. Intact'
  <2>1. taken \in Seq([bodies : Seq(BodySet), is_push : BOOLEAN]) BY DEF IndInv, Types
  <2>2. DOMAIN taken = 1..Len(taken) /\ taken' = taken BY <1>u, <2>1, LenProperties
  <2>3. \A j \in 1..Len(taken) : \E i \in 1..Len(ops) :
                         /\ WholeMessage(taken[j].bodies, i, ops[i].size)
                         /\ taken[j].is_push = ops[i].is_push
    BY <2>1, IntactAt DEF IndInv
  <2>4. \A j \in 1..Len(taken) : \E i \in 1..Len(ops') :
                         /\ WholeMessage(taken[j].bodies, i, ops'[i].size)
                         /\ taken[j].is_push = ops'[i].is_push
    <3>1. TAKE j \in 1..Len(taken)
    <3>2. PICK i \in 1..Len(ops) : /\ WholeMessage(taken[j].bodies, i, ops[i].size)
                                   /\ taken[j].is_push = ops[i].is_push
      BY <2>3
    <3>3. i \in 1..Len(ops') /\ ops'[i] = ops[i] BY <1>e
    <3> QED BY <3>2, <3>3
  <2> QED BY <2>2, <2>4 DEF Intact, Range
<1>9. TakenInOrder'
  <2>1. \A j \in 1..Len(taken) : ops'[taken[j].bodies[1].op] = ops[taken[j].bodies[1].op]
    BY <1>e DEF IndInv, TakenBefore
  <2> QED BY <1>u, <2>1 DEF IndInv, TakenInOrder
<1> QED BY <1>1, <1>2, <1>3, <1>4, <1>5, <1>6, <1>7, <1>8, <1>9

\* The agent's assembly and the order of deliveries, when the lanes only grow at the end.
LEMMA MakeAgent ==
    ASSUME IndInv, NEW x, Makes(x), high' \in Seq(Frame), low' \in Seq(Frame),
           low = <<>> /\ low' # <<>> => Opens(low'[1]), low # <<>> => low' # <<>>,
           low # <<>> => low'[1] = low[1],
           \A k \in 1..Len(low') : OpAt(low', k) = New \/ \E l \in 1..Len(low) : OpAt(low', k) = OpAt(low, l),
           \A k \in 1..Len(high') : high'[k].body.op = New \/ \E l \in 1..Len(high) : high'[k] = high[l]
    PROVE  Assembling' /\ TakenBefore'
<1>n. /\ Len(ops) \in Nat /\ New = Len(ops) + 1
      /\ Len(ops') = Len(ops) + 1 /\ Extends(ops, ops')
  BY MakeNumbers
<1>u. UNCHANGED <<large_request, taken>> BY DEF Makes
<1>e. \A i \in 1..Len(ops) : ops'[i] = ops[i] /\ i \in 1..Len(ops') BY <1>n DEF Extends
<1>1. Assembling'
  <2>1. ASSUME NEW s \in Session
        PROVE  /\ large_request[s] # Nil <=> low' # <<>> /\ Piece(low'[1]) /\ low'[1].session = s
               /\ large_request[s] # Nil => LET i == low'[1].body.op IN
                   /\ large_request[s].is_push = ops'[i].is_push
                   /\ large_request[s].pile.size = ops'[i].size
                   /\ Gathered(large_request[s].pile, i, low'[1].body.from)
    <3>1. CASE low = <<>>
      <4>1. large_request[s] = Nil BY <3>1 DEF IndInv, Assembling
      <4>2. low' # <<>> => ~Piece(low'[1]) BY <3>1 DEF Opens, Piece
      <4> QED BY <4>1, <4>2
    <3>2. CASE low # <<>>
      <4>1. low' # <<>> /\ low'[1] = low[1] BY <3>2
      <4>2. large_request[s] # Nil <=> low' # <<>> /\ Piece(low'[1]) /\ low'[1].session = s
        BY <3>2, <4>1 DEF IndInv, Assembling
      <4>3. ASSUME large_request[s] # Nil
            PROVE  LET i == low'[1].body.op IN
                   /\ large_request[s].is_push = ops'[i].is_push
                   /\ large_request[s].pile.size = ops'[i].size
                   /\ Gathered(large_request[s].pile, i, low'[1].body.from)
        <5>1. Piece(low[1]) BY <4>3 DEF IndInv, Assembling
        <5>2. 1 \in 1..Len(low) BY <3>2, EmptySeq DEF IndInv, Types
        <5>3. OpAt(low, 1) = low[1].body.op BY <5>1 DEF OpAt, Opens, Piece
        <5>4. low[1].body.op \in 1..Len(ops)
          BY <5>2, <5>3 DEF IndInv, LowOK, LargeOK
        <5>5. ops'[low[1].body.op] = ops[low[1].body.op] BY <1>e, <5>4
        <5> QED BY <4>1, <4>3, <5>5 DEF IndInv, Assembling
      <4> QED BY <4>2, <4>3
    <3> QED BY <3>1, <3>2
  <2> QED BY <1>u, <2>1 DEF Assembling
<1>2. TakenBefore'
  <2>1. ASSUME NEW j \in 1..Len(taken)
        PROVE  LET i == taken[j].bodies[1].op IN
               /\ i \in 1..Len(ops')
               /\ IF IsLargeRequest(ops'[i].size) THEN \A k \in 1..Len(low') : i < OpAt(low', k)
                  ELSE \A k \in 1..Len(high') : i < high'[k].body.op
    <3>1. PICK i : i = taken[j].bodies[1].op OBVIOUS
    <3>2. /\ i \in 1..Len(ops)
          /\ IF IsLargeRequest(ops[i].size) THEN \A k \in 1..Len(low) : i < OpAt(low, k)
             ELSE \A k \in 1..Len(high) : i < high[k].body.op
      BY <3>1 DEF IndInv, TakenBefore
    <3>3. i \in 1..Len(ops') /\ ops'[i] = ops[i] /\ i < New BY <1>n, <1>e, <3>2
    <3>4. CASE IsLargeRequest(ops[i].size)
      <4>1. \A k \in 1..Len(low') : i < OpAt(low', k) BY <3>2, <3>3, <3>4
      <4> QED BY <3>1, <3>3, <3>4, <4>1
    <3>5. CASE ~IsLargeRequest(ops[i].size)
      <4>1. \A k \in 1..Len(high') : i < high'[k].body.op BY <3>2, <3>3, <3>5
      <4> QED BY <3>1, <3>3, <3>5, <4>1
    <3> QED BY <3>4, <3>5
  <2> QED BY <1>u, <2>1 DEF TakenBefore
<1> QED BY <1>1, <1>2

\* The counter moves on to a session that is not in use, or stays after a small push.
Moves(x) ==
    /\ session' \in Session
    /\ \/ x.is_push /\ ~IsLargeRequest(x.size) /\ session' = session
       \/ session' # session /\ ~InUse(session')

\* The frames of one session that complete a message, and the requests of it in service.
Serving(s) == {r \in serving : r.session = s}

\* The next session has nothing on its way back and nothing in service.
LEMMA NothingBack ==
    ASSUME IndInv, NEW t \in Session, t = session
    PROVE  /\ Final(reply_high, t) = 0 /\ Final(reply_low, t) = 0 /\ Cardinality(Serving(t)) = 0
           /\ Away(reply_high, t) /\ Away(reply_low, t) /\ \A r \in serving : r.session # t
<1>1. Away(reply_high, t) /\ \A r \in serving : r.session # t BY DEF IndInv, Fresh
<1>2. Away(reply_low, t) BY Waited DEF IndInv, Fresh
<1>3. Final(reply_high, t) = 0 BY <1>1, FinalAway DEF IndInv, Types
<1>4. Final(reply_low, t) = 0 BY <1>2, FinalAway DEF IndInv, Types
<1>5. Serving(t) = {} BY <1>1 DEF Serving
<1> QED BY <1>1, <1>2, <1>3, <1>4, <1>5, FS_EmptySet

\* The frames r, all of session s or of none, are put on a lane for a new request or push.
LEMMA MakeInFlight ==
    ASSUME IndInv, NEW x, Makes(x), NEW r \in Seq(Frame),
           \/ high' = high \o r /\ low' = low
           \/ high' = high /\ low' = low \o r,
           ~x.is_push => Final(r, session) = 1,
           \A t \in Session : t # session => Final(r, t) = 0
    PROVE  CallInFlight'
<1>n. /\ thread[session] = Nil /\ session \in Session
      /\ thread'[session] = IF x.is_push THEN Nil ELSE New
      /\ \A t \in Session : t # session => thread'[t] = thread[t]
  BY MakeNumbers
<1>u. UNCHANGED <<serving, reply_high, reply_low>> BY DEF Makes
<1>t. high \in Seq(Frame) /\ low \in Seq(Frame) BY DEF IndInv, Types
<1>1. ASSUME NEW s \in Session, thread'[s] # Nil
      PROVE  Final(high', s) + Final(low', s) + Final(reply_high, s) + Final(reply_low, s)
               + Cardinality(Serving(s)) = 1
  <2>1. Final(high, s) \in Nat /\ Final(low, s) \in Nat /\ Final(r, s) \in Nat BY <1>t, FinalNat
  <2>2. Final(high', s) + Final(low', s) = Final(high, s) + Final(low, s) + Final(r, s)
    <3>1. CASE high' = high \o r /\ low' = low
      <4>1. Final(high \o r, s) = Final(high, s) + Final(r, s) BY <1>t, FinalCat
      <4> QED BY <2>1, <3>1, <4>1
    <3>2. CASE high' = high /\ low' = low \o r
      <4>1. Final(low \o r, s) = Final(low, s) + Final(r, s) BY <1>t, FinalCat
      <4> QED BY <2>1, <3>2, <4>1
    <3> QED BY <3>1, <3>2
  <2>3. CASE s = session
    <3>1. Final(r, s) = 1 BY <1>n, <1>1, <2>3
    <3>2. Final(high, s) = 0 /\ Final(low, s) = 0
      BY <1>t, <2>3, FinalAway DEF IndInv, Fresh
    <3>3. Final(reply_high, s) = 0 /\ Final(reply_low, s) = 0 /\ Cardinality(Serving(s)) = 0
      BY <1>n, <2>3, NothingBack
    <3> QED BY <2>1, <2>2, <3>1, <3>2, <3>3
  <2>4. CASE s # session
    <3>1. Final(r, s) = 0 BY <2>4
    <3>2. thread[s] # Nil BY <1>n, <1>1, <2>4
    <3>3. Final(high, s) + Final(low, s) + Final(reply_high, s) + Final(reply_low, s)
            + Cardinality(Serving(s)) = 1
      BY <3>2 DEF IndInv, CallInFlight, Serving
    <3>4. Final(high', s) + Final(low', s) = Final(high, s) + Final(low, s) BY <2>1, <2>2, <3>1
    <3> QED BY <3>3, <3>4
  <2> QED BY <2>3, <2>4
<1> QED BY <1>u, <1>1 DEF CallInFlight, Serving

\* Where the sessions are, when the frames r of a new request or push are put on a lane.
LEMMA MakeApart ==
    ASSUME IndInv, NEW x, Makes(x), Moves(x), NEW r \in Seq(Frame),
           \/ high' = high \o r /\ low' = low
           \/ high' = high /\ low' = low \o r,
           \A k \in 1..Len(r) : r[k].session \in {session, 0},
           x.is_push /\ ~IsLargeRequest(x.size) => Away(r, session)
    PROVE  Apart' /\ Fresh'
<1>n. /\ thread[session] = Nil /\ session \in Session
      /\ thread'[session] = IF x.is_push THEN Nil ELSE New
      /\ \A t \in Session : t # session => thread'[t] = thread[t]
  BY MakeNumbers
<1>u. UNCHANGED <<serving, reply_high, reply_low>> BY DEF Makes
<1>t. high \in Seq(Frame) /\ low \in Seq(Frame) BY DEF IndInv, Types
<1>0. 0 \notin Session BY DEF Session
<1>1. \A t \in Session : t # session => Away(r, t) BY <1>0 DEF Away
<1>2. \A t : /\ Away(high', t) <=> Away(high, t) /\ (high' = high \/ Away(r, t))
             /\ Away(low', t) <=> Away(low, t) /\ (low' = low \/ Away(r, t))
  <2>1. TAKE t
  <2>2. CASE high' = high \o r /\ low' = low
    <3>1. Away(high \o r, t) <=> Away(high, t) /\ Away(r, t) BY <1>t, AwayPut
    <3>2. high' = high => Away(high, t) = Away(high', t) OBVIOUS
    <3> QED BY <2>2, <3>1, <3>2
  <2>3. CASE high' = high /\ low' = low \o r
    <3>1. Away(low \o r, t) <=> Away(low, t) /\ Away(r, t) BY <1>t, AwayPut
    <3> QED BY <2>3, <3>1
  <2> QED BY <2>2, <2>3
<1>3. Apart'
  <2>1. ASSUME NEW s \in Session, thread'[s] # Nil
        PROVE  /\ ~Away(high', s) => Away(low', s)
               /\ ~Away(high', s) \/ ~Away(low', s) =>
                     Away(reply_high, s) /\ Away(reply_low, s) /\ \A q \in serving : q.session # s
               /\ (\E q \in serving : q.session = s) => Away(reply_high, s) /\ Away(reply_low, s)
               /\ ~Away(reply_high, s) => Away(reply_low, s)
    <3>1. CASE s # session
      <4>1. (Away(high', s) <=> Away(high, s)) /\ (Away(low', s) <=> Away(low, s))
        BY <1>1, <1>2, <3>1
      <4>2. thread[s] # Nil BY <1>n, <2>1, <3>1
      <4> QED BY <4>1, <4>2 DEF IndInv, Apart
    <3>2. CASE s = session
      <4>1. Away(reply_high, s) /\ Away(reply_low, s) /\ \A q \in serving : q.session # s
        BY <1>n, <3>2, NothingBack
      <4>2. Away(high, s) /\ Away(low, s) BY <3>2 DEF IndInv, Fresh
      <4>3. high' = high \/ low' = low OBVIOUS
      <4> QED BY <1>2, <4>1, <4>2, <4>3
    <3> QED BY <3>1, <3>2
  <2> QED BY <1>u, <2>1 DEF Apart
<1>4. Fresh'
  <2>1. session' \in Session BY DEF Moves
  <2>2. CASE session' # session /\ ~InUse(session')
    <3>1. PICK t \in Session : t = session' BY <2>1
    <3>2. /\ thread[t] = Nil /\ Away(high, t) /\ Away(low, t) /\ Away(reply_high, t)
          /\ \A q \in serving : q.session # t
      BY <2>2, <3>1, NotInUse
    <3>3. thread'[t] = Nil /\ Away(r, t) BY <1>n, <1>1, <2>2, <3>1, <3>2
    <3>4. Away(high', t) /\ Away(low', t) BY <1>2, <3>2, <3>3
    <3> QED BY <1>u, <3>1, <3>2, <3>3, <3>4 DEF Fresh
  <2>3. CASE x.is_push /\ ~IsLargeRequest(x.size) /\ session' = session
    <3>1. Away(high, session) /\ Away(low, session) BY DEF IndInv, Fresh
    <3>2. Away(r, session) BY <2>3
    <3>3. Away(high', session) /\ Away(low', session) BY <1>2, <3>1, <3>2
    <3>4. thread'[session] = Nil BY <1>n, <2>3
    <3>5. Away(reply_high, session) /\ \A q \in serving : q.session # session BY DEF IndInv, Fresh
    <3> QED BY <1>u, <2>3, <3>3, <3>4, <3>5 DEF Fresh
  <2> QED BY <2>2, <2>3 DEF Moves
<1> QED BY <1>3, <1>4

\* A message of one frame.
LEMMA MakeSmall ==
    ASSUME IndInv, NEW x, Makes(x), Moves(x), ~IsLargeRequest(x.size),
           high' = high \o <<FirstFrame(session, New, x.size, x.is_push)>>, low' = low
    PROVE  IndInv'
<1>n. /\ Len(ops) \in Nat /\ New = Len(ops) + 1 /\ New \in Op
      /\ ops' \in Seq(OpSet) /\ Len(ops') = Len(ops) + 1
      /\ Len(ops') <= MaxOps /\ ops'[New] = x
      /\ thread' \in [Session -> Op \cup {Nil}]
      /\ session \in Session
      /\ thread'[session] = IF x.is_push THEN Nil ELSE New
  BY MakeNumbers
<1>k. /\ Threads'
      /\ HighOK(high, ops', thread') /\ LowOK(low, ops', thread')
      /\ ReplyHighOK(reply_high', thread') /\ ReplyLowOK(reply_low', thread')
      /\ Served' /\ Gathering' /\ Intact' /\ TakenInOrder' /\ ReplyMatches'
  BY MakeKeeps
<1>x. x.size \in Nat /\ x.is_push \in BOOLEAN BY ConstAssumption DEF Makes, OpSet
<1>s. session \in Nat /\ session # 0 BY <1>n, ConstAssumption DEF Session
<1>1. PICK f : f = FirstFrame(session, New, x.size, x.is_push) OBVIOUS
<1>2. f = [type |-> "single", session |-> IF x.is_push THEN 0 ELSE session,
           body |-> Body(New, 0, x.size)]
  BY <1>1 DEF FirstFrame
<1>3. /\ f.type = "single" /\ f.session = (IF x.is_push THEN 0 ELSE session)
      /\ f.body = Body(New, 0, x.size) /\ f.body.op = New
  BY <1>2 DEF Body
<1>4. f \in Frame
  <2>1. Body(New, 0, x.size) \in BodySet BY <1>n, <1>x DEF Body, BodySet
  <2>2. PICK t \in Nat : t = IF x.is_push THEN 0 ELSE session BY <1>s
  <2>3. PICK b \in BodySet : b = Body(New, 0, x.size) BY <2>1
  <2>4. f = [type |-> "single", session |-> t, body |-> b] BY <1>2, <2>2, <2>3
  <2> QED BY <2>4 DEF Frame
<1>5. SmallOK(f, ops', thread')
  <2>1. New \in 1..Len(ops') BY <1>n
  <2>2. ~x.is_push => f.session \in Session /\ thread'[f.session] = New BY <1>n, <1>3
  <2> QED BY <1>n, <1>3, <2>1, <2>2 DEF SmallOK
<1>6. HighOK(high', ops', thread')
  <2>1. \A k \in 1..Len(high) : high[k].body.op < f.body.op
    <3>1. \A k \in 1..Len(high) : high[k].body.op \in 1..Len(ops) BY DEF IndInv, HighOK, SmallOK
    <3> QED BY <1>n, <1>3, <3>1
  <2>2. HighOK(high \o <<f>>, ops', thread') BY <1>k, <1>4, <1>5, <2>1, HighPut DEF IndInv, Types
  <2> QED BY <1>1, <2>2
<1>7. LowOK(low', ops', thread') BY <1>k
<1>8. <<f>> \in Seq(Frame) /\ Len(<<f>>) = 1 /\ <<f>>[1] = f BY <1>4
<1>9. high' = high \o <<f>> BY <1>1
<1>10. /\ high' \in Seq(Frame)
       /\ \A k \in 1..Len(high) : high'[k] = high[k]
       /\ \A m \in 1..Len(<<f>>) : high'[Len(high) + m] = <<f>>[m]
       /\ \A k \in 1..Len(high') : k \in 1..Len(high) \/ \E m \in 1..Len(<<f>>) : k = Len(high) + m
  BY <1>8, <1>9, CatPlaces DEF IndInv, Types
<1>11. \A k \in 1..Len(high') : high'[k].body.op = New \/ \E l \in 1..Len(high) : high'[k] = high[l]
  BY <1>3, <1>8, <1>10
<1>12. Assembling' /\ TakenBefore'
  <2>1. \A k \in 1..Len(low') : \E l \in 1..Len(low) : OpAt(low', k) = OpAt(low, l) OBVIOUS
  <2> QED BY <1>10, <1>11, <2>1, MakeAgent DEF IndInv, Types
<1>13. Apart' /\ Fresh'
  <2>1. \A k \in 1..Len(<<f>>) : <<f>>[k].session \in {session, 0} BY <1>3, <1>8
  <2>2. x.is_push /\ ~IsLargeRequest(x.size) => Away(<<f>>, session)
    BY <1>s, <1>3, <1>8 DEF Away
  <2> QED BY <1>8, <1>9, <2>1, <2>2, MakeApart
<1>14. CallInFlight'
  <2>1. FinalSet(<<f>>, f.session) = {1} BY <1>3, <1>8 DEF FinalSet, FinalTypes
  <2>2. 1 \in 1..Len(<<f>>) BY <1>8
  <2>3. Final(<<f>>, f.session) = 1 BY <1>8, <2>1, <2>2, FinalOne
  <2>4. ~x.is_push => Final(<<f>>, session) = 1 BY <1>3, <2>3
  <2>5. ASSUME NEW t \in Session, t # session PROVE Final(<<f>>, t) = 0
    <3>1. 0 \notin Session BY DEF Session
    <3>2. FinalSet(<<f>>, t) = {} BY <1>3, <1>8, <2>5, <3>1 DEF FinalSet
    <3> QED BY <1>8, <3>2, FinalNone
  <2> QED BY <1>8, <1>9, <2>4, <2>5, MakeInFlight
<1>15. Types'
  <2>1. session' \in Session BY DEF Moves
  <2> QED BY <1>n, <1>10, <2>1 DEF IndInv, Types, Makes
<1> QED BY <1>k, <1>6, <1>7, <1>12, <1>13, <1>14, <1>15 DEF IndInv

\* A message of several frames.
LEMMA MakeLarge ==
    ASSUME IndInv, NEW x, Makes(x), Moves(x), IsLargeRequest(x.size),
           low' = low \o packrequest(session, New, x.size, x.is_push), high' = high
    PROVE  IndInv'
<1>n. /\ Len(ops) \in Nat /\ New = Len(ops) + 1 /\ New \in Op
      /\ ops' \in Seq(OpSet) /\ Len(ops') = Len(ops) + 1
      /\ Len(ops') <= MaxOps /\ ops'[New] = x
      /\ thread' \in [Session -> Op \cup {Nil}]
      /\ session \in Session
      /\ thread'[session] = IF x.is_push THEN Nil ELSE New
  BY MakeNumbers
<1>k. /\ Threads'
      /\ HighOK(high, ops', thread') /\ LowOK(low, ops', thread')
      /\ ReplyHighOK(reply_high', thread') /\ ReplyLowOK(reply_low', thread')
      /\ Served' /\ Gathering' /\ Intact' /\ TakenInOrder' /\ ReplyMatches'
  BY MakeKeeps
<1>x. x.size \in Nat \ {0} /\ x.is_push \in BOOLEAN
  <2>1. x.size \in Nat /\ x.is_push \in BOOLEAN BY ConstAssumption DEF Makes, OpSet
  <2>2. x.size >= 32768 BY DEF IsLargeRequest, MULTI_PART
  <2> QED BY <2>1, <2>2
<1>s. session \in Nat /\ session # 0 BY <1>n, ConstAssumption DEF Session
<1>1. PICK o : o = FirstFrame(session, New, x.size, x.is_push) OBVIOUS
<1>2. o = [type |-> IF x.is_push THEN "multi push" ELSE "multi req", session |-> session, size |-> x.size]
  BY <1>1 DEF FirstFrame
<1>3. /\ o.type = (IF x.is_push THEN "multi push" ELSE "multi req") /\ o.session = session
      /\ o.size = x.size
  BY <1>2
<1>4. o \in Frame /\ Opens(o)
  <2>1. PICK t \in {"multi push", "multi req"} : t = IF x.is_push THEN "multi push" ELSE "multi req"
    OBVIOUS
  <2>2. o = [type |-> t, session |-> session, size |-> x.size] BY <1>2, <2>1
  <2> QED BY <1>s, <1>x, <2>2 DEF Frame, Opens
<1>5. PICK m : m = LargeMessage(o, New, x.size) OBVIOUS
<1>6. low' = low \o m BY <1>1, <1>3, <1>5 DEF LargeMessage, packrequest
<1>7. New \in Nat BY <1>n
<1>8. /\ m \in Seq(Frame) /\ m # <<>> /\ Len(m) \in Nat /\ m[1] = o
      /\ Linked(m)
      /\ \A k \in 1..Len(m) : /\ m[k].session = session /\ OpAt(m, k) = New
                              /\ Opens(m[k]) <=> k = 1
                              /\ m[k].type = "end" <=> k = Len(m)
                              /\ m[k].type = "end" => m[k].body.from + m[k].body.len = x.size
      /\ Final(m, session) = 1
      /\ \A t : t # session => Final(m, t) = 0
  <2>1. PICK sz \in Nat \ {0} : sz = x.size BY <1>x
  <2>2. m = LargeMessage(o, New, sz) BY <1>5, <2>1
  <2>3. /\ m \in Seq(Frame) /\ m # <<>> /\ Len(m) \in Nat /\ m[1] = o
        /\ Linked(m)
        /\ \A k \in 1..Len(m) : /\ m[k].session = o.session /\ OpAt(m, k) = New
                                /\ Opens(m[k]) <=> k = 1
                                /\ m[k].type = "end" <=> k = Len(m)
                                /\ m[k].type = "end" => m[k].body.from + m[k].body.len = sz
        /\ Final(m, o.session) = 1
        /\ \A t : t # o.session => Final(m, t) = 0
    <3>1. LET n == LargeMessage(o, New, sz) IN
          /\ n \in Seq(Frame) /\ n # <<>> /\ Len(n) \in Nat /\ n[1] = o
          /\ Linked(n)
          /\ \A k \in 1..Len(n) : /\ n[k].session = o.session /\ OpAt(n, k) = New
                                  /\ Opens(n[k]) <=> k = 1
                                  /\ n[k].type = "end" <=> k = Len(n)
                                  /\ n[k].type = "end" => n[k].body.from + n[k].body.len = sz
          /\ Final(n, o.session) = 1
          /\ \A t : t # o.session => Final(n, t) = 0
      BY <1>4, <1>7, LargeFrames
    <3> QED BY <2>2, <3>1
  <2> QED BY <1>3, <2>1, <2>3
<1>9. LowOK(m, ops', thread')
  <2>1. ASSUME NEW k \in 1..Len(m) PROVE LargeOK(m[k], New, ops', thread')
    <3>1. New \in 1..Len(ops') BY <1>n
    <3>2. Opens(m[k]) => m[k] = o BY <1>8
    <3>3. m[k].session = session BY <1>8
    <3>4. m[k].type = "end" => m[k].body.from + m[k].body.len = x.size BY <1>8
    <3> QED BY <1>n, <1>3, <3>1, <3>2, <3>3, <3>4 DEF LargeOK
  <2>2. \A k, l \in 1..Len(m) : k < l =>
          /\ OpAt(m, k) <= OpAt(m, l)
          /\ m[k].type = "end" => OpAt(m, k) < OpAt(m, l)
    BY <1>7, <1>8
  <2> QED BY <1>8, <2>1, <2>2 DEF LowOK
<1>10. \A k \in 1..Len(low) : OpAt(low, k) < New
  <2>1. \A k \in 1..Len(low) : OpAt(low, k) \in 1..Len(ops) BY DEF IndInv, LowOK, LargeOK
  <2> QED BY <1>n, <2>1
<1>11. Opens(m[1]) BY <1>4, <1>8
<1>12. /\ LowOK(low \o m, ops', thread')
       /\ \A k \in 1..Len(low) : OpAt(low \o m, k) = OpAt(low, k)
       /\ \A j \in 1..Len(m) : OpAt(low \o m, Len(low) + j) = OpAt(m, j)
  <2>1. \A k \in 1..Len(low), j \in 1..Len(m) : OpAt(low, k) < OpAt(m, j) BY <1>8, <1>10
  <2> QED BY <1>k, <1>8, <1>9, <1>11, <2>1, LowPut DEF IndInv, Types
<1>13. /\ low \o m \in Seq(Frame)
       /\ Len(low) \in Nat
       /\ \A k \in 1..Len(low) : (low \o m)[k] = low[k]
       /\ \A j \in 1..Len(m) : (low \o m)[Len(low) + j] = m[j]
       /\ \A k \in 1..Len(low \o m) : k \in 1..Len(low) \/ \E j \in 1..Len(m) : k = Len(low) + j
       /\ Len(low \o m) = Len(low) + Len(m)
  BY <1>8, CatPlaces DEF IndInv, Types
<1>14. Len(m) # 0 BY <1>8, EmptySeq
<1>15. low = <<>> => low'[1] = o
  <2>1. HAVE low = <<>>
  <2>2. Len(low) = 0 /\ 1 \in 1..Len(m) BY <1>8, <1>14, <2>1
  <2>3. (low \o m)[Len(low) + 1] = m[1] BY <1>13, <2>2
  <2>4. Len(low) + 1 = 1 BY <2>2
  <2> QED BY <1>6, <1>8, <2>3, <2>4
<1>16. low # <<>> => low'[1] = low[1] /\ low' # <<>>
  <2>1. HAVE low # <<>>
  <2>2. 1 \in 1..Len(low) BY <2>1, EmptySeq DEF IndInv, Types
  <2>3. Len(low \o m) # 0 BY <1>8, <1>13, <2>2
  <2> QED BY <1>6, <1>13, <2>2, <2>3, EmptySeq
<1>17. Assembling' /\ TakenBefore'
  <2>1. \A k \in 1..Len(low') : OpAt(low', k) = New \/ \E l \in 1..Len(low) : OpAt(low', k) = OpAt(low, l)
    BY <1>6, <1>8, <1>12, <1>13
  <2>2. \A k \in 1..Len(high') : \E l \in 1..Len(high) : high'[k] = high[l] OBVIOUS
  <2>3. low' \in Seq(Frame) /\ high' \in Seq(Frame) BY <1>6, <1>13 DEF IndInv, Types
  <2>4. low = <<>> /\ low' # <<>> => Opens(low'[1]) BY <1>4, <1>15
  <2> QED BY <1>16, <2>1, <2>2, <2>3, <2>4, MakeAgent
<1>18. Apart' /\ Fresh'
  <2>1. \A k \in 1..Len(m) : m[k].session \in {session, 0} BY <1>8
  <2> QED BY <1>6, <1>8, <2>1, MakeApart
<1>19. CallInFlight'
  <2>1. \A t \in Session : t # session => Final(m, t) = 0 BY <1>8
  <2> QED BY <1>6, <1>8, <2>1, MakeInFlight
<1>20. Types'
  <2>1. session' \in Session BY DEF Moves
  <2>2. low' \in Seq(Frame) BY <1>6, <1>13
  <2> QED BY <1>n, <2>1, <2>2 DEF IndInv, Types, Makes
<1>21. LowOK(low', ops', thread') BY <1>6, <1>12
<1> QED BY <1>k, <1>17, <1>18, <1>19, <1>20, <1>21 DEF IndInv

\* The session after this one is another.
LEMMA AdvanceMoves ==
    ASSUME session \in Session, Advance
    PROVE  session' \in Session /\ session' # session /\ ~InUse(session')
BY ConstAssumption DEF Advance, NextSession, Session

LEMMA ReqKeeps ==
    ASSUME IndInv, NEW sz \in Size, NEW name \in Name \cup {Nil},
           NEW query \in {FALSE, name # Nil}, req(sz, name, query)
    PROVE  IndInv'
<1> DEFINE x == [size |-> sz, is_push |-> FALSE, name |-> name, query |-> query]
<1>1. Makes(x)
  <2>1. x \in OpSet BY DEF OpSet
  <2> QED BY <2>1 DEF req, Makes
<1>2. Moves(x)
  <2>1. session \in Session BY DEF IndInv, Types
  <2>2. Advance BY DEF req
  <2> QED BY <2>1, <2>2, AdvanceMoves DEF Moves
<1>3. Write(packrequest(session, New, sz, FALSE), IsLargeRequest(sz)) BY DEF req
<1>4. CASE IsLargeRequest(sz)
  <2>1. low' = low \o packrequest(session, New, x.size, x.is_push) /\ high' = high
    BY <1>3, <1>4 DEF Write
  <2>2. IsLargeRequest(x.size) BY <1>4
  <2> QED BY <1>1, <1>2, <2>1, <2>2, MakeLarge
<1>5. CASE ~IsLargeRequest(sz)
  <2>1. high' = high \o packrequest(session, New, sz, FALSE) /\ low' = low BY <1>3, <1>5 DEF Write
  <2>2. ~IsLargeRequest(x.size) BY <1>5
  <2>3. packrequest(session, New, sz, FALSE) = <<FirstFrame(session, New, x.size, x.is_push)>>
    <3>1. PICK f : f = FirstFrame(session, New, sz, FALSE) OBVIOUS
    <3>2. <<f>> \o <<>> = <<f>>
      <4>1. <<f>> \in Seq({f}) OBVIOUS
      <4> QED BY <4>1, ConcatEmptySeq
    <3>3. packrequest(session, New, sz, FALSE) = <<f>> \o <<>> BY <1>5, <3>1 DEF packrequest
    <3> QED BY <3>1, <3>2, <3>3
  <2> QED BY <1>1, <1>2, <2>1, <2>2, <2>3, MakeSmall
<1> QED BY <1>4, <1>5

LEMMA PushKeeps ==
    ASSUME IndInv, NEW sz \in Size, NEW name \in Name \cup {Nil}, push(sz, name)
    PROVE  IndInv'
<1> DEFINE x == [size |-> sz, is_push |-> TRUE, name |-> name, query |-> FALSE]
<1>1. Makes(x)
  <2>1. x \in OpSet BY DEF OpSet
  <2> QED BY <2>1 DEF push, Makes
<1>2. Moves(x)
  <2>1. session \in Session BY DEF IndInv, Types
  <2>2. CASE IsLargeRequest(sz)
    <3>1. Advance BY <2>2 DEF push, AfterPush
    <3> QED BY <2>1, <3>1, AdvanceMoves DEF Moves
  <2>3. CASE ~IsLargeRequest(sz)
    <3>1. session' = session BY <2>3 DEF push, AfterPush
    <3> QED BY <2>1, <2>3, <3>1 DEF Moves
  <2> QED BY <2>2, <2>3
<1>3. Write(packrequest(session, New, sz, TRUE), IsLargeRequest(sz)) BY DEF push
<1>4. CASE IsLargeRequest(sz)
  <2>1. low' = low \o packrequest(session, New, x.size, x.is_push) /\ high' = high
    BY <1>3, <1>4 DEF Write
  <2>2. IsLargeRequest(x.size) BY <1>4
  <2> QED BY <1>1, <1>2, <2>1, <2>2, MakeLarge
<1>5. CASE ~IsLargeRequest(sz)
  <2>1. high' = high \o packrequest(session, New, sz, TRUE) /\ low' = low BY <1>3, <1>5 DEF Write
  <2>2. ~IsLargeRequest(x.size) BY <1>5
  <2>3. packrequest(session, New, sz, TRUE) = <<FirstFrame(session, New, x.size, x.is_push)>>
    <3>1. PICK f : f = FirstFrame(session, New, sz, TRUE) OBVIOUS
    <3>2. <<f>> \o <<>> = <<f>>
      <4>1. <<f>> \in Seq({f}) OBVIOUS
      <4> QED BY <4>1, ConcatEmptySeq
    <3>3. packrequest(session, New, sz, TRUE) = <<f>> \o <<>> BY <1>5, <3>1 DEF packrequest
    <3> QED BY <3>1, <3>2, <3>3
  <2> QED BY <1>1, <1>2, <2>1, <2>2, <2>3, MakeSmall
<1> QED BY <1>4, <1>5

-----------------------------------------------------------------------------
(***************************************************************************)
(* dispatch_request                                                        *)
(***************************************************************************)

\* What the agent does not touch.
LEMMA AgentRest ==
    ASSUME IndInv, UNCHANGED <<sending, result_data, answer, reply_high, reply_low>>
    PROVE  /\ Threads' /\ Gathering' /\ ReplyMatches'
           /\ ReplyHighOK(reply_high', thread') /\ ReplyLowOK(reply_low', thread')
           /\ session' = session /\ ops' = ops /\ thread' = thread
           /\ reply_high' = reply_high /\ reply_low' = reply_low
<1>1. session' = session /\ ops' = ops /\ thread' = thread BY DEF sending
<1>2. reply_high' = reply_high /\ reply_low' = reply_low /\ result_data' = result_data
      /\ answer' = answer
  OBVIOUS
<1>3. Threads' BY <1>1 DEF IndInv, Threads
<1>4. Gathering' BY <1>2 DEF IndInv, Gathering
<1>5. ReplyMatches' BY <1>2 DEF IndInv, ReplyMatches
<1>6. ReplyHighOK(reply_high', thread') /\ ReplyLowOK(reply_low', thread') BY <1>1, <1>2 DEF IndInv
<1> QED BY <1>1, <1>2, <1>3, <1>4, <1>5, <1>6

\* A whole message of operation i comes through while it is the first in its lane.
LEMMA Delivers ==
    ASSUME IndInv, NEW s, NEW bodies \in Seq(BodySet), NEW i \in 1..Len(ops),
           WholeMessage(bodies, i, ops[i].size),
           s \in Session \cup {0},
           s # 0 => thread[s] = IF ops[i].is_push THEN Nil ELSE i,
           s = 0 => ops[i].is_push,
           Accept(s, bodies, ops[i].is_push), ops' = ops, thread' = thread,
           IF IsLargeRequest(ops[i].size)
           THEN /\ \E k \in 1..Len(low) : i = OpAt(low, k)
                /\ \A k \in 1..Len(low') : i < OpAt(low', k)
           ELSE /\ \E k \in 1..Len(high) : i = high[k].body.op
                /\ \A k \in 1..Len(high') : i < high'[k].body.op,
           \A k \in 1..Len(low') : \E l \in 1..Len(low) : OpAt(low', k) = OpAt(low, l),
           \A k \in 1..Len(high') : \E l \in 1..Len(high) : high'[k] = high[l]
    PROVE  /\ taken' \in Seq([bodies : Seq(BodySet), is_push : BOOLEAN])
           /\ serving' \subseteq [session : Session \cup {0}, op : Op]
           /\ serving' = serving \cup {[session |-> s, op |-> i]}
           /\ TakenBefore' /\ Intact' /\ TakenInOrder' /\ Served'
<1>n. Len(ops) \in Nat /\ Len(ops) <= MaxOps /\ i \in Op
  BY ConstAssumption, LenProperties DEF IndInv, Types, Op
<1>b. PICK b \in BOOLEAN : b = ops[i].is_push
  <2>1. ops[i] \in OpSet BY ElementOfSeq DEF IndInv, Types
  <2> QED BY <2>1 DEF OpSet
<1>1. bodies[1].op = i
  <2>1. bodies # <<>> /\ \A k \in 1..Len(bodies) : bodies[k].op = i BY DEF WholeMessage
  <2>2. 1 \in 1..Len(bodies) BY <2>1, EmptySeq
  <2> QED BY <2>1, <2>2
<1>2. PICK d : d = [bodies |-> bodies, is_push |-> b] OBVIOUS
<1>3. d \in [bodies : Seq(BodySet), is_push : BOOLEAN] /\ d.bodies = bodies /\ d.is_push = b
  BY <1>b, <1>2
<1>4. taken' = Append(taken, d) BY <1>b, <1>2 DEF Accept
<1>5. /\ taken' \in Seq([bodies : Seq(BodySet), is_push : BOOLEAN])
      /\ Len(taken') = Len(taken) + 1 /\ Len(taken) \in Nat
      /\ \A j \in 1..Len(taken) : taken'[j] = taken[j]
      /\ taken'[Len(taken) + 1] = d
  <2>1. taken \in Seq([bodies : Seq(BodySet), is_push : BOOLEAN]) BY DEF IndInv, Types
  <2> QED BY <1>3, <1>4, <2>1, AppendProperties, LenProperties
<1>6. \A j \in 1..Len(taken') : j \in 1..Len(taken) \/ j = Len(taken) + 1 BY <1>5
<1>7. serving' = serving \cup {[session |-> s, op |-> i]}
  BY <1>1 DEF Accept
<1>8. serving' \subseteq [session : Session \cup {0}, op : Op] /\ Served'
  <2>1. PICK r : r = [session |-> s, op |-> i] OBVIOUS
  <2>2. r \in [session : Session \cup {0}, op : Op] /\ r.session = s /\ r.op = i BY <1>n, <2>1
  <2>3. serving' = serving \cup {r} BY <1>7, <2>1
  <2>4. serving \subseteq [session : Session \cup {0}, op : Op] BY DEF IndInv, Types
  <2>5. \A q \in serving' :
           /\ q.op \in 1..Len(ops)
           /\ q.session # 0 => thread[q.session] = IF ops[q.op].is_push THEN Nil ELSE q.op
           /\ q.session = 0 => ops[q.op].is_push
    BY <2>2, <2>3 DEF IndInv, Served
  <2> QED BY <2>2, <2>3, <2>4, <2>5 DEF Served
<1>9. ASSUME NEW j \in 1..Len(taken)
      PROVE  LET h == taken[j].bodies[1].op IN
             /\ h \in 1..Len(ops)
             /\ (IsLargeRequest(ops[h].size) <=> IsLargeRequest(ops[i].size)) => h < i
             /\ IF IsLargeRequest(ops[h].size) THEN \A k \in 1..Len(low') : h < OpAt(low', k)
                ELSE \A k \in 1..Len(high') : h < high'[k].body.op
  <2>1. PICK h : h = taken[j].bodies[1].op OBVIOUS
  <2>2. /\ h \in 1..Len(ops)
        /\ IF IsLargeRequest(ops[h].size) THEN \A k \in 1..Len(low) : h < OpAt(low, k)
           ELSE \A k \in 1..Len(high) : h < high[k].body.op
    BY <2>1 DEF IndInv, TakenBefore
  <2>3. CASE IsLargeRequest(ops[h].size)
    BY <2>1, <2>2, <2>3
  <2>4. CASE ~IsLargeRequest(ops[h].size)
    BY <2>1, <2>2, <2>4
  <2> QED BY <2>3, <2>4
<1>10. TakenBefore'
  <2>1. ASSUME NEW j \in 1..Len(taken')
        PROVE  LET h == taken'[j].bodies[1].op IN
               /\ h \in 1..Len(ops)
               /\ IF IsLargeRequest(ops[h].size) THEN \A k \in 1..Len(low') : h < OpAt(low', k)
                  ELSE \A k \in 1..Len(high') : h < high'[k].body.op
    <3>1. CASE j \in 1..Len(taken) BY <1>5, <1>9, <3>1
    <3>2. CASE j = Len(taken) + 1
      <4>1. taken'[j].bodies[1].op = i BY <1>1, <1>3, <1>5, <3>2
      <4> QED BY <4>1
    <3> QED BY <1>6, <3>1, <3>2
  <2> QED BY <2>1 DEF TakenBefore
<1>11. Intact'
  <2>1. taken \in Seq([bodies : Seq(BodySet), is_push : BOOLEAN]) BY DEF IndInv, Types
  <2>2. \A j \in 1..Len(taken) : \E k \in 1..Len(ops) :
                         /\ WholeMessage(taken[j].bodies, k, ops[k].size)
                         /\ taken[j].is_push = ops[k].is_push
    BY <2>1, IntactAt DEF IndInv
  <2>3. \A j \in 1..Len(taken') : \E k \in 1..Len(ops) :
                         /\ WholeMessage(taken'[j].bodies, k, ops[k].size)
                         /\ taken'[j].is_push = ops[k].is_push
    <3>1. TAKE j \in 1..Len(taken')
    <3>2. CASE j \in 1..Len(taken)
      <4>1. taken'[j] = taken[j] BY <1>5, <3>2
      <4> QED BY <2>2, <3>2, <4>1
    <3>3. CASE j = Len(taken) + 1
      <4>1. taken'[j] = d BY <1>5, <3>3
      <4>2. WholeMessage(d.bodies, i, ops[i].size) /\ d.is_push = ops[i].is_push BY <1>b, <1>3
      <4> QED BY <4>1, <4>2
    <3> QED BY <1>6, <3>2, <3>3
  <2>4. DOMAIN taken' = 1..Len(taken') BY <1>5, LenProperties
  <2> QED BY <2>3, <2>4 DEF Intact, Range
<1>12. TakenInOrder'
  <2>1. ASSUME NEW j \in 1..Len(taken'), NEW k \in 1..Len(taken'), j < k,
               IsLargeRequest(ops[taken'[j].bodies[1].op].size)
                 = IsLargeRequest(ops[taken'[k].bodies[1].op].size)
        PROVE  taken'[j].bodies[1].op < taken'[k].bodies[1].op
    <3>0. j \in 1..Len(taken)
      <4>1. PICK n \in Nat : n = Len(taken) BY <1>5
      <4>2. j \in 1..(n + 1) /\ k \in 1..(n + 1) /\ j < k BY <1>5, <2>1, <4>1
      <4>3. j \in 1..n BY <4>2
      <4> QED BY <4>1, <4>3
    <3>1. j \in 1..Len(taken) /\ taken'[j] = taken[j] BY <1>5, <3>0
    <3>2. CASE k \in 1..Len(taken)
      <4>1. taken'[k] = taken[k] BY <1>5, <3>2
      <4> QED BY <2>1, <3>1, <3>2, <4>1 DEF IndInv, TakenInOrder
    <3>3. CASE k = Len(taken) + 1
      <4>1. taken'[k].bodies[1].op = i BY <1>1, <1>3, <1>5, <3>3
      <4> QED BY <1>9, <2>1, <3>1, <4>1
    <3> QED BY <1>6, <3>2, <3>3
  <2> QED BY <2>1 DEF TakenInOrder
<1> QED BY <1>5, <1>7, <1>8, <1>10, <1>11, <1>12

\* Where the sessions are after a step of the agent, b saying that no message comes through.
LEMMA AgentCounts ==
    ASSUME IndInv, NEW s, NEW i, NEW b \in BOOLEAN,
           high' \in Seq(Frame), low' \in Seq(Frame),
           session' = session, thread' = thread, reply_high' = reply_high, reply_low' = reply_low,
           serving' = IF b THEN serving ELSE serving \cup {[session |-> s, op |-> i]},
           \A t : (Away(high, t) => Away(high', t)) /\ (Away(low, t) => Away(low', t)),
           ~b => s # session,
           ~b /\ s \in Session /\ thread[s] # Nil =>
              Away(high', s) /\ Away(low', s) /\ (~Away(high, s) \/ ~Away(low, s)),
           \A t \in Session : thread[t] # Nil =>
              Final(high, t) + Final(low, t)
                = Final(high', t) + Final(low', t) + (IF ~b /\ t = s THEN 1 ELSE 0)
    PROVE  Apart' /\ Fresh' /\ CallInFlight'
<1>1. Fresh'
  <2>1. \A r \in serving' : r.session # session
    <3>1. CASE b BY <3>1 DEF IndInv, Fresh
    <3>2. CASE ~b
      <4>1. PICK n : n = [session |-> s, op |-> i] OBVIOUS
      <4>2. n.session # session /\ serving' = serving \cup {n} BY <3>2, <4>1
      <4> QED BY <4>2 DEF IndInv, Fresh
    <3> QED BY <3>1, <3>2
  <2> QED BY <2>1 DEF IndInv, Fresh
<1>2. ASSUME NEW t \in Session, b \/ t # s
      PROVE  /\ \A r : r \in serving' /\ r.session = t <=> r \in serving /\ r.session = t
             /\ {r \in serving' : r.session = t} = {r \in serving : r.session = t}
  <2>1. CASE b BY <2>1
  <2>2. CASE ~b
    <3>1. PICK n : n = [session |-> s, op |-> i] OBVIOUS
    <3>2. n.session # t BY <1>2, <2>2, <3>1
    <3>3. serving' = serving \cup {n} BY <2>2, <3>1
    <3> QED BY <3>2, <3>3
  <2> QED BY <2>1, <2>2
<1>3. Apart'
  <2>1. ASSUME NEW t \in Session, thread[t] # Nil
        PROVE  /\ ~Away(high', t) => Away(low', t)
               /\ ~Away(high', t) \/ ~Away(low', t) =>
                     Away(reply_high, t) /\ Away(reply_low, t) /\ \A r \in serving' : r.session # t
               /\ (\E r \in serving' : r.session = t) => Away(reply_high, t) /\ Away(reply_low, t)
               /\ ~Away(reply_high, t) => Away(reply_low, t)
    <3>1. CASE b \/ t # s
      <4>1. \A r : r \in serving' /\ r.session = t <=> r \in serving /\ r.session = t BY <1>2, <3>1
      <4>2. /\ ~Away(high', t) => ~Away(high, t)
            /\ ~Away(low', t) => ~Away(low, t)
            /\ Away(low, t) => Away(low', t)
        OBVIOUS
      <4>3. /\ ~Away(high, t) => Away(low, t)
            /\ ~Away(high, t) \/ ~Away(low, t) =>
                 Away(reply_high, t) /\ Away(reply_low, t) /\ \A r \in serving : r.session # t
            /\ (\E r \in serving : r.session = t) => Away(reply_high, t) /\ Away(reply_low, t)
            /\ ~Away(reply_high, t) => Away(reply_low, t)
        BY <2>1 DEF IndInv, Apart
      <4> QED BY <4>1, <4>2, <4>3
    <3>2. CASE ~b /\ t = s
      <4>0. s \in Session /\ thread[s] # Nil /\ ~b BY <2>1, <3>2
      <4>1. Away(high', t) /\ Away(low', t) /\ (~Away(high, t) \/ ~Away(low, t)) BY <3>2, <4>0
      <4>2. Away(reply_high, t) /\ Away(reply_low, t) BY <2>1, <4>1 DEF IndInv, Apart
      <4> QED BY <4>1, <4>2
    <3> QED BY <3>1, <3>2
  <2> QED BY <2>1 DEF Apart
<1>4. CallInFlight'
  <2>1. ASSUME NEW t \in Session, thread[t] # Nil
        PROVE  Final(high', t) + Final(low', t) + Final(reply_high, t) + Final(reply_low, t)
                 + Cardinality({r \in serving' : r.session = t}) = 1
    <3>1. /\ Final(high', t) \in Nat /\ Final(low', t) \in Nat
          /\ Final(high, t) \in Nat /\ Final(low, t) \in Nat
          /\ Final(reply_high, t) \in Nat /\ Final(reply_low, t) \in Nat
      BY FinalNat DEF IndInv, Types
    <3>2. Final(high, t) + Final(low, t) + Final(reply_high, t) + Final(reply_low, t)
             + Cardinality({r \in serving : r.session = t}) = 1
      BY <2>1 DEF IndInv, CallInFlight
    <3>3. Final(high, t) + Final(low, t)
            = Final(high', t) + Final(low', t) + (IF ~b /\ t = s THEN 1 ELSE 0)
      BY <2>1
    <3>4. CASE b \/ t # s
      <4>1. {r \in serving' : r.session = t} = {r \in serving : r.session = t} BY <1>2, <3>4
      <4>2. Final(high, t) + Final(low, t) = Final(high', t) + Final(low', t) BY <3>1, <3>3, <3>4
      <4> QED BY <3>2, <4>1, <4>2
    <3>5. CASE ~b /\ t = s
      <4>1. ~Away(high, t) \/ ~Away(low, t) BY <2>1, <3>5
      <4>2. \A r \in serving : r.session # t BY <2>1, <4>1 DEF IndInv, Apart
      <4>3. {r \in serving : r.session = t} = {} BY <4>2
      <4>4. Cardinality({r \in serving : r.session = t}) = 0 BY <4>3, FS_EmptySet
      <4>5. PICK n : n = [session |-> s, op |-> i] OBVIOUS
      <4>6. n.session = t BY <3>5, <4>5
      <4>7. serving' = serving \cup {n} BY <3>5, <4>5
      <4>8. {r \in serving' : r.session = t} = {n} BY <4>2, <4>6, <4>7
      <4>9. Cardinality({r \in serving' : r.session = t}) = 1 BY <4>8, FS_Singleton
      <4>10. Final(high, t) + Final(low, t) = Final(high', t) + Final(low', t) + 1 BY <3>3, <3>5
      <4> QED BY <3>1, <3>2, <4>4, <4>9, <4>10
    <3> QED BY <3>4, <3>5
  <2> QED BY <2>1 DEF CallInFlight
<1> QED BY <1>1, <1>3, <1>4

\* A small request or push comes to the agent.
LEMMA RequestSmall ==
    ASSUME IndInv, NEW f, Request(f), Takes(high, high', f), low' = low
    PROVE  IndInv'
<1>t. high \in Seq(Frame) /\ low \in Seq(Frame) BY DEF IndInv, Types
<1>1. /\ HighOK(high', ops, thread) /\ SmallOK(f, ops, thread)
      /\ \A k \in 1..Len(high') : f.body.op < high'[k].body.op
      /\ f.session # 0 => Away(high', f.session)
  BY <1>t, HighTaken DEF IndInv
<1>2. /\ high' \in Seq(Frame) /\ f \in Frame /\ f = high[1] /\ 1 \in 1..Len(high)
      /\ \A k \in 1..Len(high') : high'[k] = high[k + 1] /\ k + 1 \in 1..Len(high)
  <2>1. Len(high) \in Nat \ {0} BY <1>t, Taken
  <2> QED BY <1>t, <2>1, Taken
<1>3. PICK s : s = f.session OBVIOUS
<1>4. PICK i : i = f.body.op OBVIOUS
<1>5. /\ f.type = "single" /\ i \in 1..Len(ops) /\ ~IsLargeRequest(ops[i].size)
      /\ f.body = Body(i, 0, ops[i].size)
      /\ ops[i].is_push => s = 0
      /\ ~ops[i].is_push => s \in Session /\ thread[s] = i
  BY <1>1, <1>3, <1>4 DEF SmallOK
<1>6. ops[i].is_push \in BOOLEAN
  <2>1. ops[i] \in OpSet BY <1>5, ElementOfSeq DEF IndInv, Types
  <2> QED BY <2>1 DEF OpSet
<1>7. /\ unpackrequest(f).session = s /\ unpackrequest(f).msg = f.body
      /\ ~unpackrequest(f).padding /\ unpackrequest(f).is_push = (s = 0)
  BY <1>3, <1>5 DEF unpackrequest
<1>8. 0 \notin Session BY DEF Session
<1>9. (s = 0) = ops[i].is_push BY <1>5, <1>6, <1>8
<1>10. ~ops[i].is_push => ~Away(high, s) BY <1>2, <1>3 DEF Away
<1>n. i \in Nat /\ i # Nil BY <1>5, ConstAssumption
<1>11. s # 0 => large_request[s] = Nil
  <2>1. HAVE s # 0
  <2>2. s \in Session /\ ~Away(high, s) /\ thread[s] # Nil BY <1>5, <1>6, <1>10, <1>n, <2>1
  <2>3. Away(low, s) BY <2>2 DEF IndInv, Apart
  <2>4. ~(low # <<>> /\ low[1].session = s)
    <3>1. low # <<>> => 1 \in 1..Len(low) BY <1>t, EmptySeq
    <3> QED BY <2>3, <3>1 DEF Away
  <2> QED BY <2>2, <2>4 DEF IndInv, Assembling
<1>12. /\ large_request' = large_request /\ Accept(s, <<f.body>>, s = 0)
       /\ UNCHANGED <<sending, result_data, answer>>
  BY <1>7, <1>11 DEF Request
<1>13. UNCHANGED <<reply_high, reply_low>> BY <1>12 DEF Accept
<1>14. /\ Threads' /\ Gathering' /\ ReplyMatches'
       /\ ReplyHighOK(reply_high', thread') /\ ReplyLowOK(reply_low', thread')
       /\ session' = session /\ ops' = ops /\ thread' = thread
       /\ reply_high' = reply_high /\ reply_low' = reply_low
  BY <1>12, <1>13, AgentRest
<1>15. PICK b : b = (s = 0) OBVIOUS
<1>16. b \in BOOLEAN /\ b = ops[i].is_push BY <1>6, <1>9, <1>15
<1>17. /\ taken' \in Seq([bodies : Seq(BodySet), is_push : BOOLEAN])
       /\ serving' \subseteq [session : Session \cup {0}, op : Op]
       /\ serving' = serving \cup {[session |-> s, op |-> i]}
       /\ TakenBefore' /\ Intact' /\ TakenInOrder' /\ Served'
  <2>1. f.body \in BodySet
    <3>1. ~Opens(f) BY <1>5 DEF Opens
    <3> QED BY <1>2, <3>1, FrameFields
  <2>2. PICK c \in BodySet : c = f.body BY <2>1
  <2>3. <<c>> \in Seq(BodySet) /\ Len(<<c>>) = 1 /\ <<c>>[1] = c OBVIOUS
  <2>4. c.op = i /\ c.from = 0 /\ c.len = ops[i].size BY <1>5, <2>2 DEF Body
  <2>5. c.len \in Nat BY DEF BodySet
  <2>6. WholeMessage(<<c>>, i, ops[i].size) BY <2>3, <2>4, <2>5 DEF WholeMessage
  <2>7. Accept(s, <<c>>, b) BY <1>12, <1>15, <2>2
  <2>8. /\ s \in Session \cup {0} /\ (s = 0 => ops[i].is_push)
        /\ s # 0 => thread[s] = IF ops[i].is_push THEN Nil ELSE i
    BY <1>5, <1>6, <1>8
  <2>9. /\ \E k \in 1..Len(high) : i = high[k].body.op
        /\ \A k \in 1..Len(high') : i < high'[k].body.op
    BY <1>1, <1>2, <1>4
  <2>10. \A k \in 1..Len(low') : \E l \in 1..Len(low) : OpAt(low', k) = OpAt(low, l) OBVIOUS
  <2>11. \A k \in 1..Len(high') : \E l \in 1..Len(high) : high'[k] = high[l] BY <1>2
  <2>12. IF IsLargeRequest(ops[i].size)
         THEN /\ \E k \in 1..Len(low) : i = OpAt(low, k)
              /\ \A k \in 1..Len(low') : i < OpAt(low', k)
         ELSE /\ \E k \in 1..Len(high) : i = high[k].body.op
              /\ \A k \in 1..Len(high') : i < high'[k].body.op
    BY <1>5, <2>9
  <2>13. PICK bodies \in Seq(BodySet) : bodies = <<c>> BY <2>3
  <2>14. WholeMessage(bodies, i, ops[i].size) /\ Accept(s, bodies, ops[i].is_push)
    BY <1>16, <2>6, <2>7, <2>13
  <2>15. i \in 1..Len(ops) /\ ops' = ops /\ thread' = thread BY <1>5, <1>14
  <2>16. serving' = serving \cup {[session |-> s, op |-> i]}
    BY <2>8, <2>10, <2>11, <2>12, <2>14, <2>15, Delivers
  <2> QED BY <2>8, <2>16, <2>10, <2>11, <2>12, <2>14, <2>15, Delivers
<1>18. Apart' /\ Fresh' /\ CallInFlight'
  <2>1. \A t : (Away(high, t) => Away(high', t)) /\ (Away(low, t) => Away(low', t))
    BY <1>t, AwayTaken
  <2>2. s \in Session => ~Away(high, s) /\ Away(high', s) BY <1>1, <1>2, <1>3, <1>8 DEF Away
  <2>3. s \in Session /\ thread[s] # Nil => Away(low', s) BY <2>2 DEF IndInv, Apart
  <2>4. s # session BY <2>2 DEF IndInv, Fresh, Types
  <2>5. PICK c \in BOOLEAN : ~c OBVIOUS
  <2>6. ASSUME NEW t \in Session, thread[t] # Nil
        PROVE  Final(high, t) + Final(low, t)
                 = Final(high', t) + Final(low', t) + (IF ~c /\ t = s THEN 1 ELSE 0)
    <3>1. /\ Final(high', t) \in Nat
          /\ f.session = t /\ f.type \in FinalTypes => Final(high, t) = Final(high', t) + 1
          /\ ~(f.session = t /\ f.type \in FinalTypes) => Final(high, t) = Final(high', t)
      BY <1>t, FinalTaken
    <3>2. Final(low, t) \in Nat BY <1>t, FinalNat
    <3>3. f.type \in FinalTypes BY <1>5 DEF FinalTypes
    <3> QED BY <1>3, <2>5, <3>1, <3>2, <3>3
  <2>7. low' \in Seq(Frame) BY <1>t
  <2>8. ~c /\ s \in Session /\ thread[s] # Nil =>
              Away(high', s) /\ Away(low', s) /\ (~Away(high, s) \/ ~Away(low, s))
    BY <2>2, <2>3
  <2>9. serving' = IF c THEN serving ELSE serving \cup {[session |-> s, op |-> i]} BY <1>17, <2>5
  <2> QED BY <1>2, <1>14, <2>1, <2>4, <2>6, <2>7, <2>8, <2>9, AgentCounts
<1>19. Assembling' BY <1>12, <1>14 DEF IndInv, Assembling
<1>20. Types' BY <1>2, <1>12, <1>14, <1>17 DEF IndInv, Types
<1>21. HighOK(high', ops', thread') /\ LowOK(low', ops', thread') BY <1>1, <1>14 DEF IndInv
<1> QED BY <1>14, <1>17, <1>18, <1>19, <1>20, <1>21 DEF IndInv

\* What holds of the first frame of the lane of large messages when it is taken off.
LEMMA LargeFirst ==
    ASSUME IndInv, NEW f, Takes(low, low', f), high' = high
    PROVE  LET s == f.session
               i == OpAt(low, 1)
           IN /\ f \in Frame /\ low' \in Seq(Frame) /\ high' \in Seq(Frame)
              /\ LowOK(low', ops, thread)
              /\ low # <<>> /\ f = low[1] /\ 1 \in 1..Len(low)
              /\ s \in Session /\ s # 0 /\ i \in 1..Len(ops) /\ IsLargeRequest(ops[i].size)
              /\ thread[s] = IF ops[i].is_push THEN Nil ELSE i
              /\ ops[i].is_push \in BOOLEAN /\ ops[i].size \in Nat
              /\ f.type \in {"multi req", "multi push", "part", "end"}
              /\ \A t \in Session : large_request[t] # Nil <=> Piece(f) /\ t = s
              /\ \A k \in 1..Len(low') : \E l \in 1..Len(low) : OpAt(low', k) = OpAt(low, l)
              /\ \A t : (Away(high, t) => Away(high', t)) /\ (Away(low, t) => Away(low', t))
<1> DEFINE s == f.session
           i == OpAt(low, 1)
<1>t. high \in Seq(Frame) /\ low \in Seq(Frame) BY DEF IndInv, Types
<1>1. /\ low' \in Seq(Frame) /\ f \in Frame /\ f = low[1] /\ 1 \in 1..Len(low) /\ low # <<>>
      /\ \A k \in 1..Len(low') : low'[k] = low[k + 1] /\ k + 1 \in 1..Len(low)
  <2>1. Len(low) \in Nat \ {0} BY <1>t, Taken
  <2> QED BY <1>t, <2>1, Taken DEF Takes
<1>2. /\ LowOK(low', ops, thread) /\ LargeOK(f, i, ops, thread)
      /\ \A k \in 1..Len(low') : OpAt(low', k) = OpAt(low, k + 1)
      /\ Opens(f) \/ Piece(f)
  BY <1>t, LowTaken DEF IndInv
<1>3. /\ i \in 1..Len(ops) /\ IsLargeRequest(ops[i].size) /\ s \in Session
      /\ thread[s] = IF ops[i].is_push THEN Nil ELSE i
      /\ Opens(f) => f.type = IF ops[i].is_push THEN "multi push" ELSE "multi req"
  BY <1>2 DEF LargeOK
<1>4. ops[i].is_push \in BOOLEAN /\ ops[i].size \in Nat
  <2>1. ops[i] \in OpSet BY <1>3, ElementOfSeq DEF IndInv, Types
  <2> QED BY <2>1, ConstAssumption DEF OpSet
<1>5. f.type \in {"multi req", "multi push", "part", "end"}
  <2>1. Piece(f) => f.type \in {"part", "end"} BY DEF Piece
  <2> QED BY <1>2, <1>3, <2>1
<1>6. \A t \in Session : large_request[t] # Nil <=> Piece(f) /\ t = s
  <2>1. TAKE t \in Session
  <2>2. large_request[t] # Nil <=> low # <<>> /\ Piece(low[1]) /\ low[1].session = t
    BY DEF IndInv, Assembling
  <2>3. low[1] = f /\ low # <<>> BY <1>1
  <2> QED BY <2>2, <2>3
<1>7. s # 0
  <2>1. 0 \notin Session BY DEF Session
  <2>2. s \in Session BY <1>3
  <2> QED BY <2>1, <2>2
<1>8. \A t : (Away(high, t) => Away(high', t)) /\ (Away(low, t) => Away(low', t))
  BY <1>t, AwayTaken
<1>9. \A k \in 1..Len(low') : \E l \in 1..Len(low) : OpAt(low', k) = OpAt(low, l)
  BY <1>1, <1>2
<1> HIDE DEF i
<1> QED BY <1>t, <1>1, <1>2, <1>3, <1>4, <1>5, <1>6, <1>7, <1>8, <1>9 DEF i

\* A frame that does not complete a message only changes what is being put together.
LEMMA RequestOn ==
    ASSUME IndInv, NEW f, Takes(low, low', f), high' = high, f.type # "end",
           UNCHANGED <<sending, result_data, answer, taken, serving, reply_high, reply_low>>,
           large_request' \in [Session -> Partial \cup {Nil}], Assembling'
    PROVE  IndInv'
<1>t. high \in Seq(Frame) /\ low \in Seq(Frame) BY DEF IndInv, Types
<1>1. /\ low' \in Seq(Frame) /\ high' \in Seq(Frame) /\ LowOK(low', ops, thread)
      /\ f.type \in {"multi req", "multi push", "part", "end"}
      /\ \A k \in 1..Len(low') : \E l \in 1..Len(low) : OpAt(low', k) = OpAt(low, l)
      /\ \A t : (Away(high, t) => Away(high', t)) /\ (Away(low, t) => Away(low', t))
  BY LargeFirst
<1>2. UNCHANGED <<sending, result_data, answer, reply_high, reply_low>> OBVIOUS
<1>3. /\ Threads' /\ Gathering' /\ ReplyMatches'
      /\ ReplyHighOK(reply_high', thread') /\ ReplyLowOK(reply_low', thread')
      /\ session' = session /\ ops' = ops /\ thread' = thread
      /\ reply_high' = reply_high /\ reply_low' = reply_low
  BY <1>2, AgentRest
<1>4. taken' = taken /\ serving' = serving /\ result_data' = result_data /\ answer' = answer
  OBVIOUS
<1>5. Apart' /\ Fresh' /\ CallInFlight'
  <2>1. ASSUME NEW t \in Session, thread[t] # Nil
        PROVE  Final(high, t) + Final(low, t)
                 = Final(high', t) + Final(low', t) + (IF ~TRUE /\ t = 0 THEN 1 ELSE 0)
    <3>1. f.type \notin FinalTypes BY <1>1 DEF FinalTypes
    <3>2. Final(low, t) = Final(low', t) BY <1>t, <3>1, FinalTaken
    <3>3. Final(high, t) \in Nat /\ Final(low, t) \in Nat BY <1>t, FinalNat
    <3> QED BY <3>2, <3>3
  <2>2. PICK b \in BOOLEAN : b OBVIOUS
  <2>3. \A t \in Session : thread[t] # Nil =>
              Final(high, t) + Final(low, t)
                = Final(high', t) + Final(low', t) + (IF ~b /\ t = 0 THEN 1 ELSE 0)
    BY <2>1, <2>2
  <2>4. serving' = IF b THEN serving ELSE serving \cup {[session |-> 0, op |-> 0]} BY <1>4, <2>2
  <2>5. /\ ~b => 0 # session
        /\ ~b /\ 0 \in Session /\ thread[0] # Nil =>
              Away(high', 0) /\ Away(low', 0) /\ (~Away(high, 0) \/ ~Away(low, 0))
    BY <2>2
  <2> QED BY <1>1, <1>3, <2>3, <2>4, <2>5, AgentCounts
<1>6. Types' BY <1>1, <1>3, <1>4 DEF IndInv, Types
<1>7. Intact' /\ TakenInOrder' /\ Served' BY <1>3, <1>4 DEF IndInv, Intact, TakenInOrder, Served
<1>8. TakenBefore'
  <2>1. ASSUME NEW j \in 1..Len(taken)
        PROVE  LET h == taken[j].bodies[1].op IN
               /\ h \in 1..Len(ops)
               /\ IF IsLargeRequest(ops[h].size) THEN \A k \in 1..Len(low') : h < OpAt(low', k)
                  ELSE \A k \in 1..Len(high') : h < high'[k].body.op
    <3>1. PICK h : h = taken[j].bodies[1].op OBVIOUS
    <3>2. /\ h \in 1..Len(ops)
          /\ IF IsLargeRequest(ops[h].size) THEN \A k \in 1..Len(low) : h < OpAt(low, k)
             ELSE \A k \in 1..Len(high) : h < high[k].body.op
      BY <3>1 DEF IndInv, TakenBefore
    <3>3. IsLargeRequest(ops[h].size) => \A k \in 1..Len(low') : h < OpAt(low', k) BY <1>1, <3>2
    <3> QED BY <3>1, <3>2, <3>3
  <2> QED BY <1>3, <1>4, <2>1 DEF TakenBefore
<1>9. HighOK(high', ops', thread') /\ LowOK(low', ops', thread') BY <1>1, <1>3 DEF IndInv
<1> QED BY <1>3, <1>5, <1>6, <1>7, <1>8, <1>9 DEF IndInv

\* A large request or push is announced to the agent.
LEMMA RequestOpens ==
    ASSUME IndInv, NEW f, Request(f), Takes(low, low', f), high' = high, Opens(f)
    PROVE  IndInv'
<1>t. high \in Seq(Frame) /\ low \in Seq(Frame) BY DEF IndInv, Types
<1>1. PICK s : s = f.session OBVIOUS
<1>2. PICK i : i = OpAt(low, 1) OBVIOUS
<1>3. /\ f \in Frame /\ s \in Session /\ s # 0 /\ i \in 1..Len(ops)
      /\ ops[i].is_push \in BOOLEAN /\ ops[i].size \in Nat
      /\ f.type \in {"multi req", "multi push", "part", "end"}
      /\ \A t \in Session : large_request[t] # Nil <=> Piece(f) /\ t = s
  BY <1>1, <1>2, LargeFirst
<1>4. f.type \in {"multi req", "multi push"} /\ ~Piece(f) /\ f.type # "end"
  BY <1>3 DEF Opens, Piece
<1>5. \A t \in Session : large_request[t] = Nil BY <1>3, <1>4
<1>6. LargeOK(f, i, ops, thread)
      /\ low' # <<>> /\ Piece(low'[1]) /\ low'[1].session = s
      /\ low'[1].body.from = 0 /\ low'[1].body.op = i
  BY <1>t, <1>1, <1>2, <1>4, LowTaken DEF IndInv
<1>7. f.size = ops[i].size /\ f.type = IF ops[i].is_push THEN "multi push" ELSE "multi req"
  BY <1>6 DEF LargeOK
<1>8. PICK b : b = unpackrequest(f).is_push OBVIOUS
<1>9. b = ops[i].is_push
  <2>1. b \in BOOLEAN BY <1>8 DEF unpackrequest
  <2>2. b <=> f.type = "multi push" BY <1>4, <1>8 DEF unpackrequest
  <2>3. f.type = "multi push" <=> ops[i].is_push BY <1>7
  <2> QED BY <1>3, <2>1, <2>2, <2>3
<1>10. /\ unpackrequest(f).session = s /\ unpackrequest(f).msg = ops[i].size
       /\ unpackrequest(f).padding
  BY <1>1, <1>4, <1>7 DEF unpackrequest
<1>11. PICK p : p = [pile |-> Pile(ops[i].size), is_push |-> b] OBVIOUS
<1>12. /\ large_request' = [large_request EXCEPT ![s] = p]
       /\ UNCHANGED <<sending, result_data, answer, taken, serving, reply_high, reply_low>>
  BY <1>3, <1>5, <1>8, <1>10, <1>11 DEF Request
<1>13. /\ p \in Partial /\ p # Nil /\ p.is_push = ops[i].is_push /\ p.pile.size = ops[i].size
       /\ Gathered(p.pile, i, 0)
  <2>1. PICK q : q = Pile(ops[i].size) OBVIOUS
  <2>2. q.size = ops[i].size /\ q.bodies = <<>> /\ q.length = 0 BY <2>1 DEF Pile
  <2>3. q \in PileSet
    <3>1. <<>> \in Seq(BodySet) /\ 0 \in Nat /\ ops[i].size \in Int
      <4>1. <<>> \in Seq(BodySet) OBVIOUS
      <4>2. ops[i].size \in Nat BY <1>3
      <4>3. \A n \in Nat : n \in Int OBVIOUS
      <4> QED BY <4>1, <4>2, <4>3
    <3>2. q = [size |-> ops[i].size, bodies |-> <<>>, length |-> 0] BY <2>1 DEF Pile
    <3> QED BY <3>1, <3>2 DEF PileSet
  <2>4. p = [pile |-> q, is_push |-> b] BY <1>11, <2>1
  <2>5. p \in Partial /\ p.pile = q /\ p.is_push = b BY <1>3, <1>9, <2>3, <2>4 DEF Partial
  <2>6. Gathered(q, i, 0) BY <2>2 DEF Gathered
  <2> QED BY <1>9, <2>2, <2>5, <2>6, ConstAssumption
<1>14. large_request' \in [Session -> Partial \cup {Nil}]
  BY <1>12, <1>13 DEF IndInv, Types
<1>15. \A t \in Session : large_request'[t] = IF t = s THEN p ELSE Nil
  BY <1>3, <1>5, <1>12 DEF IndInv, Types
<1>16. ops' = ops BY <1>12 DEF sending
<1>17. Assembling'
  BY <1>6, <1>13, <1>15, <1>16 DEF Assembling
<1> QED BY <1>4, <1>12, <1>14, <1>17, RequestOn

\* A piece of a large message that is put to the others.
LEMMA PieceComes ==
    ASSUME IndInv, NEW f, Takes(low, low', f), high' = high, Piece(f)
    PROVE  LET s == f.session
               i == OpAt(low, 1)
               l == large_request[s]
               p == append(l.pile, f.body)
           IN /\ i = f.body.op /\ i \in Nat /\ l \in Partial /\ l # Nil /\ f.body \in BodySet
              /\ l.is_push = ops[i].is_push /\ l.pile.size = ops[i].size
              /\ p \in PileSet /\ p.size = ops[i].size
              /\ p.length = f.body.from + f.body.len
              /\ WholeMessage(p.bodies, i, f.body.from + f.body.len)
              /\ Gathered(p, i, f.body.from + f.body.len)
<1>1. PICK s : s = f.session OBVIOUS
<1>2. PICK i : i = OpAt(low, 1) OBVIOUS
<1>3. PICK l : l = large_request[s] OBVIOUS
<1>4. /\ f \in Frame /\ s \in Session /\ i \in 1..Len(ops) /\ low # <<>> /\ f = low[1]
      /\ \A t \in Session : large_request[t] # Nil <=> Piece(f) /\ t = s
  BY <1>1, <1>2, LargeFirst
<1>5. ~Opens(f) BY DEF Opens, Piece
<1>6. i = f.body.op BY <1>2, <1>4, <1>5 DEF OpAt
<1>7. f.body \in BodySet /\ i \in Nat /\ f.body.from \in Nat /\ f.body.len \in Nat
  BY <1>4, <1>5, <1>6, FrameFields
<1>8. l # Nil BY <1>3, <1>4
<1>9. l \in Partial BY <1>3, <1>4, <1>8 DEF IndInv, Types
<1>10. /\ l.is_push = ops[i].is_push /\ l.pile.size = ops[i].size
       /\ Gathered(l.pile, i, f.body.from)
  BY <1>3, <1>4, <1>6, <1>8 DEF IndInv, Assembling
<1>11. PICK q : q = l.pile OBVIOUS
<1>12. q \in PileSet BY <1>9, <1>11 DEF Partial
<1>13. PICK b \in BodySet : b = f.body BY <1>7
<1>14. PICK n \in Nat : n = f.body.from BY <1>7
<1>15. /\ append(q, b) \in PileSet /\ append(q, b).size = q.size
       /\ append(q, b).length = n + b.len
       /\ WholeMessage(append(q, b).bodies, i, n + b.len)
       /\ Gathered(append(q, b), i, n + b.len)
  <2>1. b.op = i /\ b.from = n BY <1>6, <1>13, <1>14
  <2>2. Gathered(q, i, n) BY <1>10, <1>11, <1>14
  <2> QED BY <1>7, <1>12, <2>1, <2>2, PileAppended
<1>16. q.size = ops[i].size BY <1>10, <1>11
<1>17. /\ append(l.pile, f.body) = append(q, b) /\ n + b.len = f.body.from + f.body.len
  BY <1>11, <1>13, <1>14
<1> QED BY <1>1, <1>2, <1>3, <1>6, <1>7, <1>8, <1>9, <1>10, <1>15, <1>16, <1>17

\* A piece comes that is not the last.
LEMMA RequestPart ==
    ASSUME IndInv, NEW f, Request(f), Takes(low, low', f), high' = high, f.type = "part"
    PROVE  IndInv'
<1>t. high \in Seq(Frame) /\ low \in Seq(Frame) BY DEF IndInv, Types
<1>0. Piece(f) /\ ~Opens(f) /\ f.type # "end" BY DEF Piece, Opens
<1>1. PICK s : s = f.session OBVIOUS
<1>2. PICK i : i = OpAt(low, 1) OBVIOUS
<1>3. PICK l : l = large_request[s] OBVIOUS
<1>4. PICK p : p = append(l.pile, f.body) OBVIOUS
<1>5. /\ s \in Session /\ s # 0
      /\ \A t \in Session : large_request[t] # Nil <=> Piece(f) /\ t = s
  BY <1>1, LargeFirst
<1>6. /\ l \in Partial /\ l # Nil
      /\ l.is_push = ops[i].is_push
      /\ p \in PileSet /\ p.size = ops[i].size
      /\ Gathered(p, i, f.body.from + f.body.len)
  BY <1>0, <1>1, <1>2, <1>3, <1>4, PieceComes
<1>7. /\ low' # <<>> /\ Piece(low'[1]) /\ low'[1].session = s
      /\ low'[1].body.from = f.body.from + f.body.len /\ low'[1].body.op = i
  BY <1>t, <1>0, <1>1, <1>2, LowTaken DEF IndInv
<1>8. /\ unpackrequest(f).session = s /\ unpackrequest(f).msg = f.body
      /\ unpackrequest(f).padding /\ ~unpackrequest(f).announces
  BY <1>1 DEF unpackrequest
<1>9. PICK m : m = [l EXCEPT !.pile = p] OBVIOUS
<1>10. /\ large_request' = [large_request EXCEPT ![s] = m]
       /\ UNCHANGED <<sending, result_data, answer, taken, serving, reply_high, reply_low>>
  <2>1. large_request[s] # Nil BY <1>3, <1>6
  <2>2. PICK u : u = unpackrequest(f) OBVIOUS
  <2>3. u.session = s /\ u.msg = f.body /\ u.padding /\ ~u.announces BY <1>8, <2>2
  <2>4. /\ large_request' = [large_request EXCEPT ![s] =
             IF ~(s # 0 /\ large_request[s] # Nil)
             THEN [pile |-> Pile(u.msg), is_push |-> u.is_push]
             ELSE [large_request[s] EXCEPT !.pile =
                     IF u.announces THEN Spoil(large_request[s].pile)
                     ELSE append(large_request[s].pile, u.msg)]]
        /\ UNCHANGED <<sending, result_data, answer, taken, serving, reply_high, reply_low>>
    BY <2>2, <2>3 DEF Request
  <2>5. (IF ~(s # 0 /\ large_request[s] # Nil)
             THEN [pile |-> Pile(u.msg), is_push |-> u.is_push]
             ELSE [large_request[s] EXCEPT !.pile =
                     IF u.announces THEN Spoil(large_request[s].pile)
                     ELSE append(large_request[s].pile, u.msg)]) = m
    BY <1>3, <1>4, <1>5, <1>9, <2>1, <2>3
  <2> QED BY <2>4, <2>5
<1>11. m \in Partial /\ m # Nil /\ m.is_push = ops[i].is_push /\ m.pile = p
  <2>1. m = [pile |-> p, is_push |-> l.is_push] /\ l.is_push \in BOOLEAN BY <1>6, <1>9 DEF Partial
  <2>2. m \in Partial /\ m.pile = p /\ m.is_push = l.is_push BY <1>6, <2>1 DEF Partial
  <2> QED BY <1>6, <2>2, ConstAssumption
<1>12. large_request' \in [Session -> Partial \cup {Nil}]
  BY <1>10, <1>11 DEF IndInv, Types
<1>13. \A t \in Session : large_request'[t] = IF t = s THEN m ELSE Nil
  <2>1. \A t \in Session : t # s => large_request[t] = Nil BY <1>5
  <2> QED BY <1>5, <1>10, <2>1 DEF IndInv, Types
<1>14. ops' = ops BY <1>10 DEF sending
<1>15. Assembling'
  <2>1. m.pile.size = ops[i].size /\ Gathered(m.pile, i, low'[1].body.from) BY <1>6, <1>7, <1>11
  <2> QED BY <1>7, <1>11, <1>13, <1>14, <2>1 DEF Assembling
<1> QED BY <1>0, <1>10, <1>12, <1>15, RequestOn

\* The last piece comes: the message is put together and handed over.
LEMMA RequestEnd ==
    ASSUME IndInv, NEW f, Request(f), Takes(low, low', f), high' = high, f.type = "end"
    PROVE  IndInv'
<1>t. high \in Seq(Frame) /\ low \in Seq(Frame) BY DEF IndInv, Types
<1>0. Piece(f) /\ ~Opens(f) BY DEF Piece, Opens
<1>1. PICK s : s = f.session OBVIOUS
<1>2. PICK i : i = OpAt(low, 1) OBVIOUS
<1>3. PICK l : l = large_request[s] OBVIOUS
<1>4. PICK p : p = append(l.pile, f.body) OBVIOUS
<1>5. /\ f \in Frame /\ low' \in Seq(Frame) /\ high' \in Seq(Frame)
      /\ low # <<>> /\ f = low[1] /\ 1 \in 1..Len(low)
      /\ s \in Session /\ s # 0 /\ i \in 1..Len(ops) /\ IsLargeRequest(ops[i].size)
      /\ thread[s] = IF ops[i].is_push THEN Nil ELSE i
      /\ ops[i].is_push \in BOOLEAN /\ ops[i].size \in Nat
      /\ \A t \in Session : large_request[t] # Nil <=> Piece(f) /\ t = s
      /\ \A k \in 1..Len(low') : \E j \in 1..Len(low) : OpAt(low', k) = OpAt(low, j)
      /\ \A t : (Away(high, t) => Away(high', t)) /\ (Away(low, t) => Away(low', t))
  BY <1>1, <1>2, LargeFirst
<1>6. /\ l \in Partial /\ l # Nil
      /\ l.is_push = ops[i].is_push
      /\ p \in PileSet /\ p.size = ops[i].size /\ p.length = f.body.from + f.body.len
      /\ WholeMessage(p.bodies, i, f.body.from + f.body.len)
  BY <1>0, <1>1, <1>2, <1>3, <1>4, PieceComes
<1>7. /\ LowOK(low', ops, thread) /\ LargeOK(f, i, ops, thread)
      /\ low' # <<>> => Opens(low'[1])
      /\ \A k \in 1..Len(low') : i < OpAt(low', k)
  BY <1>t, <1>2, LowTaken DEF IndInv
<1>8. f.body.from + f.body.len = ops[i].size BY <1>7 DEF LargeOK
<1>9. CanConcat(p) BY <1>6, <1>8 DEF CanConcat
<1>10. /\ unpackrequest(f).session = s /\ unpackrequest(f).msg = f.body
       /\ ~unpackrequest(f).padding
  BY <1>1 DEF unpackrequest
<1>11. /\ large_request' = [large_request EXCEPT ![s] = Nil]
       /\ Accept(s, p.bodies, ops[i].is_push)
       /\ UNCHANGED <<sending, result_data, answer>>
  <2>1. large_request[s] # Nil BY <1>3, <1>6
  <2> QED BY <1>3, <1>4, <1>5, <1>6, <1>9, <1>10, <2>1 DEF Request, Forget
<1>12. UNCHANGED <<reply_high, reply_low>> BY <1>11 DEF Accept
<1>13. /\ Threads' /\ Gathering' /\ ReplyMatches'
       /\ ReplyHighOK(reply_high', thread') /\ ReplyLowOK(reply_low', thread')
       /\ session' = session /\ ops' = ops /\ thread' = thread
       /\ reply_high' = reply_high /\ reply_low' = reply_low
  BY <1>11, <1>12, AgentRest
<1>14. PICK bodies \in Seq(BodySet) : bodies = p.bodies BY <1>6 DEF PileSet
<1>15. /\ s \in Session \cup {0} /\ (s = 0 => ops[i].is_push)
       /\ s # 0 => thread[s] = IF ops[i].is_push THEN Nil ELSE i
  BY <1>5
<1>16. /\ taken' \in Seq([bodies : Seq(BodySet), is_push : BOOLEAN])
       /\ serving' \subseteq [session : Session \cup {0}, op : Op]
       /\ serving' = serving \cup {[session |-> s, op |-> i]}
       /\ TakenBefore' /\ Intact' /\ TakenInOrder' /\ Served'
  <2>1. WholeMessage(bodies, i, ops[i].size) BY <1>6, <1>8, <1>14
  <2>2. Accept(s, bodies, ops[i].is_push) BY <1>11, <1>14
  <2>3. IF IsLargeRequest(ops[i].size)
        THEN /\ \E k \in 1..Len(low) : i = OpAt(low, k)
             /\ \A k \in 1..Len(low') : i < OpAt(low', k)
        ELSE /\ \E k \in 1..Len(high) : i = high[k].body.op
             /\ \A k \in 1..Len(high') : i < high'[k].body.op
    BY <1>2, <1>5, <1>7
  <2>4. \A k \in 1..Len(high') : \E j \in 1..Len(high) : high'[k] = high[j] OBVIOUS
  <2>5. \A k \in 1..Len(low') : \E j \in 1..Len(low) : OpAt(low', k) = OpAt(low, j) BY <1>5
  <2>6. i \in 1..Len(ops) /\ ops' = ops /\ thread' = thread BY <1>5, <1>13
  <2> QED BY <1>15, <2>1, <2>2, <2>3, <2>4, <2>5, <2>6, Delivers
<1>17. ~Away(low, s) BY <1>1, <1>5 DEF Away
<1>18. PICK b \in BOOLEAN : b = ops[i].is_push BY <1>5
<1>19. ~b => Away(low', s)
  <2>1. HAVE ~b
  <2>2. ASSUME NEW k \in 1..Len(low'), low'[k].session = s PROVE FALSE
    <3>1. LargeOK(low'[k], OpAt(low', k), ops, thread) BY <1>7 DEF LowOK
    <3>2. PICK h : h = OpAt(low', k) OBVIOUS
    <3>3. thread[s] = IF ops[h].is_push THEN Nil ELSE h BY <2>2, <3>1, <3>2 DEF LargeOK
    <3>4. thread[s] = i /\ i \in Nat BY <1>5, <1>18, <2>1
    <3>5. i # Nil BY <3>4, ConstAssumption
    <3>6. i = h BY <3>3, <3>4, <3>5
    <3>7. i < h BY <1>7, <3>2
    <3> QED BY <3>4, <3>6, <3>7
  <2> QED BY <2>2 DEF Away
<1>20. Apart' /\ Fresh' /\ CallInFlight'
  <2>0. PICK c \in BOOLEAN : ~c OBVIOUS
  <2>1. /\ s # session
        /\ ~c /\ s \in Session /\ thread[s] # Nil =>
              Away(high', s) /\ Away(low', s) /\ (~Away(high, s) \/ ~Away(low, s))
    <3>1. s # session BY <1>17 DEF IndInv, Fresh
    <3>2. thread[s] # Nil => Away(high, s) BY <1>5, <1>17 DEF IndInv, Apart
    <3>3. thread[s] # Nil => ~b BY <1>5, <1>18
    <3> QED BY <1>5, <1>17, <1>19, <3>1, <3>2, <3>3
  <2>2. ASSUME NEW t \in Session, thread[t] # Nil
        PROVE  Final(high, t) + Final(low, t)
                 = Final(high', t) + Final(low', t) + (IF ~c /\ t = s THEN 1 ELSE 0)
    <3>1. /\ Final(low', t) \in Nat
          /\ f.session = t /\ f.type \in FinalTypes => Final(low, t) = Final(low', t) + 1
          /\ ~(f.session = t /\ f.type \in FinalTypes) => Final(low, t) = Final(low', t)
      BY <1>t, FinalTaken
    <3>2. Final(high, t) \in Nat /\ Final(high', t) = Final(high, t) BY <1>t, FinalNat
    <3>3. f.type \in FinalTypes BY DEF FinalTypes
    <3> QED BY <1>1, <2>0, <3>1, <3>2, <3>3
  <2>3. serving' = IF c THEN serving ELSE serving \cup {[session |-> s, op |-> i]} BY <1>16, <2>0
  <2>4. high' \in Seq(Frame) /\ low' \in Seq(Frame)
        /\ \A t : (Away(high, t) => Away(high', t)) /\ (Away(low, t) => Away(low', t))
    BY <1>5
  <2> QED BY <1>13, <2>1, <2>2, <2>3, <2>4, AgentCounts
<1>21. large_request' \in [Session -> Partial \cup {Nil}]
       /\ \A t \in Session : large_request'[t] = Nil
  <2>1. \A t \in Session : t # s => large_request[t] = Nil BY <1>5
  <2> QED BY <1>5, <1>11, <2>1 DEF IndInv, Types
<1>22. Assembling'
  <2>1. low' # <<>> => ~Piece(low'[1]) BY <1>7 DEF Opens, Piece
  <2> QED BY <1>21, <2>1 DEF Assembling
<1>23. Types' BY <1>5, <1>11, <1>13, <1>16, <1>21 DEF IndInv, Types
<1>24. HighOK(high', ops', thread') /\ LowOK(low', ops', thread') BY <1>7, <1>13 DEF IndInv
<1> QED BY <1>13, <1>16, <1>20, <1>22, <1>23, <1>24 DEF IndInv

\* dispatch_request, whatever frame it gets.
LEMMA RequestKeeps ==
    ASSUME IndInv, NEW f, Request(f)
    PROVE  IndInv'
<1>1. (Takes(high, high', f) /\ low' = low) \/ (Takes(low, low', f) /\ high' = high)
  BY DEF Request, Arrives, Takes
<1>2. CASE Takes(high, high', f) /\ low' = low BY <1>2, RequestSmall
<1>3. CASE Takes(low, low', f) /\ high' = high
  <2>1. f.type \in {"multi req", "multi push", "part", "end"} BY <1>3, LargeFirst
  <2>2. CASE f.type \in {"multi req", "multi push"}
    <3>1. Opens(f) BY <2>2 DEF Opens
    <3> QED BY <1>3, <3>1, RequestOpens
  <2>3. CASE f.type = "part" BY <1>3, <2>3, RequestPart
  <2>4. CASE f.type = "end" BY <1>3, <2>4, RequestEnd
  <2> QED BY <2>1, <2>2, <2>3, <2>4
<1> QED BY <1>1, <1>2, <1>3

-----------------------------------------------------------------------------
(***************************************************************************)
(* A service answers                                                       *)
(***************************************************************************)

\* A request the agent has a coroutine for: its caller waits, and its session is nowhere
\* else. Nobody waits for a push.
LEMMA ServedAlone ==
    ASSUME IndInv, NEW r \in serving
    PROVE  /\ r.session \in Session \cup {0} /\ r.op \in 1..Len(ops) /\ r.op \in Op
           /\ r.op \in Nat /\ r.op # Nil /\ r.session # session
           /\ r.session # 0 => thread[r.session] \in {r.op, Nil}
           /\ ~ops[r.op].is_push => r.session \in Session /\ thread[r.session] = r.op
           /\ r.session \in Session /\ thread[r.session] # Nil =>
                /\ Away(high, r.session) /\ Away(low, r.session)
                /\ Away(reply_high, r.session) /\ Away(reply_low, r.session)
                /\ \A q \in serving : q.session = r.session => q = r
<1>0. 0 \notin Session BY DEF Session
<1>1. serving \subseteq [session : Session \cup {0}, op : Op] BY DEF IndInv, Types
<1>2. /\ r.session \in Session \cup {0} /\ r.op \in Op /\ r.op \in 1..Len(ops) /\ r.session # session
      /\ r.session # 0 => thread[r.session] = IF ops[r.op].is_push THEN Nil ELSE r.op
      /\ r.session = 0 => ops[r.op].is_push
  BY <1>1 DEF IndInv, Served, Fresh
<1>3. r.op \in Nat /\ r.op # Nil BY <1>2, ConstAssumption DEF Op
<1>4. ASSUME r.session \in Session, thread[r.session] # Nil
      PROVE  /\ Away(high, r.session) /\ Away(low, r.session)
             /\ Away(reply_high, r.session) /\ Away(reply_low, r.session)
  BY <1>4 DEF IndInv, Apart
<1>5. ASSUME r.session \in Session, thread[r.session] # Nil, NEW q \in serving, q.session = r.session
      PROVE  q = r
  <2>1. q.op = r.op BY <1>0, <1>2, <1>5 DEF IndInv, Served
  <2>2. q \in [session : Session \cup {0}, op : Op] /\ r \in [session : Session \cup {0}, op : Op]
    BY <1>1
  <2> QED BY <1>5, <2>1, <2>2
<1> QED BY <1>0, <1>2, <1>3, <1>4, <1>5

LEMMA SumsAlike ==
    ASSUME NEW a \in Nat, NEW b \in Nat, NEW u \in Nat, NEW v \in Nat, NEW w \in Nat, NEW z \in Nat,
           w + z = u + v
    PROVE  a + b + w + z = a + b + u + v
OBVIOUS

\* The frames q of the response of r are put on a lane.
LEMMA RespondRest ==
    ASSUME IndInv, NEW r \in serving, serving' = serving \ {r},
           UNCHANGED <<sending, high, low, large_request, taken, result_data, answer>>,
           NEW q \in Seq(Frame),
           \/ reply_high' = reply_high \o q /\ reply_low' = reply_low
           \/ reply_high' = reply_high /\ reply_low' = reply_low \o q,
           \A k \in 1..Len(q) : q[k].session = r.session,
           Final(q, r.session) = 1,
           \A t : t # r.session => Final(q, t) = 0
    PROVE  /\ Types' /\ Threads' /\ HighOK(high', ops', thread') /\ LowOK(low', ops', thread')
           /\ Assembling' /\ TakenBefore' /\ Served' /\ Apart' /\ Fresh'
           /\ Intact' /\ TakenInOrder' /\ ReplyMatches' /\ CallInFlight'
<1>1. /\ session' = session /\ ops' = ops /\ thread' = thread /\ high' = high /\ low' = low
      /\ large_request' = large_request /\ taken' = taken
      /\ result_data' = result_data /\ answer' = answer
  BY DEF sending
<1>t. reply_high \in Seq(Frame) /\ reply_low \in Seq(Frame) BY DEF IndInv, Types
<1>2. PICK s : s = r.session OBVIOUS
<1>3. /\ s \in Session \cup {0} /\ s # session
      /\ s \in Session /\ thread[s] # Nil =>
           /\ Away(high, s) /\ Away(low, s) /\ Away(reply_high, s) /\ Away(reply_low, s)
           /\ \A p \in serving : p.session = s => p = r
  BY <1>2, ServedAlone
<1>4. reply_high' \in Seq(Frame) /\ reply_low' \in Seq(Frame)
  <2>1. reply_high \o q \in Seq(Frame) /\ reply_low \o q \in Seq(Frame) BY <1>t, CatPlaces
  <2> QED BY <1>t, <2>1
<1>5. Types' BY <1>1, <1>4 DEF IndInv, Types
<1>6. Threads' /\ HighOK(high', ops', thread') /\ LowOK(low', ops', thread')
  BY <1>1 DEF IndInv, Threads
<1>7. Assembling' /\ TakenBefore'
  BY <1>1 DEF IndInv, Assembling, TakenBefore
<1>8. Served'
  <2>1. \A p \in serving' : p \in serving OBVIOUS
  <2> QED BY <1>1, <2>1 DEF IndInv, Served
<1>9. Intact' /\ TakenInOrder' /\ ReplyMatches' BY <1>1 DEF IndInv, Intact, TakenInOrder, ReplyMatches
<1>10. \A t : t # s => Away(q, t) BY <1>2 DEF Away
<1>11. \A t : /\ Away(reply_high', t) <=> Away(reply_high, t) /\ (reply_high' = reply_high \/ Away(q, t))
              /\ Away(reply_low', t) <=> Away(reply_low, t) /\ (reply_low' = reply_low \/ Away(q, t))
  <2>1. TAKE t
  <2>2. CASE reply_high' = reply_high \o q /\ reply_low' = reply_low
    <3>1. Away(reply_high \o q, t) <=> Away(reply_high, t) /\ Away(q, t) BY <1>t, AwayPut
    <3>2. reply_high' = reply_high => (Away(reply_high, t) <=> Away(reply_high', t)) OBVIOUS
    <3> QED BY <2>2, <3>1, <3>2
  <2>3. CASE reply_high' = reply_high /\ reply_low' = reply_low \o q
    <3>1. Away(reply_low \o q, t) <=> Away(reply_low, t) /\ Away(q, t) BY <1>t, AwayPut
    <3>2. reply_low' = reply_low => (Away(reply_low, t) <=> Away(reply_low', t)) OBVIOUS
    <3> QED BY <2>3, <3>1, <3>2
  <2> QED BY <2>2, <2>3
<1>12. s \in Session /\ thread[s] # Nil => \A p \in serving' : p.session # s BY <1>3
<1>f. Fresh'
  <2>1. Away(q, session) BY <1>3, <1>10
  <2>2. Away(reply_high', session) BY <1>11, <2>1 DEF IndInv, Fresh
  <2>3. \A p \in serving' : p.session # session BY DEF IndInv, Fresh
  <2> QED BY <1>1, <2>2, <2>3 DEF IndInv, Fresh
<1>13. Apart'
  <2>1. ASSUME NEW t \in Session, thread[t] # Nil
        PROVE  /\ ~Away(high, t) => Away(low, t)
               /\ ~Away(high, t) \/ ~Away(low, t) =>
                     Away(reply_high', t) /\ Away(reply_low', t) /\ \A p \in serving' : p.session # t
               /\ (\E p \in serving' : p.session = t) => Away(reply_high', t) /\ Away(reply_low', t)
               /\ ~Away(reply_high', t) => Away(reply_low', t)
    <3>1. /\ ~Away(high, t) => Away(low, t)
          /\ ~Away(high, t) \/ ~Away(low, t) =>
               Away(reply_high, t) /\ Away(reply_low, t) /\ \A p \in serving : p.session # t
          /\ (\E p \in serving : p.session = t) => Away(reply_high, t) /\ Away(reply_low, t)
          /\ ~Away(reply_high, t) => Away(reply_low, t)
      BY <2>1 DEF IndInv, Apart
    <3>2. CASE t # s
      <4>1. /\ Away(reply_high', t) <=> Away(reply_high, t)
            /\ Away(reply_low', t) <=> Away(reply_low, t)
        BY <1>10, <1>11, <3>2
      <4>2. \A p \in serving' : p \in serving OBVIOUS
      <4> QED BY <3>1, <4>1, <4>2
    <3>3. CASE t = s
      <4>1. reply_high' = reply_high \/ reply_low' = reply_low OBVIOUS
      <4>2. Away(reply_high', t) \/ Away(reply_low', t) BY <1>3, <1>11, <2>1, <3>3, <4>1
      <4> QED BY <1>3, <1>12, <2>1, <3>3, <4>2
    <3> QED BY <3>2, <3>3
  <2> QED BY <1>1, <2>1 DEF Apart
<1>14. CallInFlight'
  <2>1. ASSUME NEW t \in Session, thread[t] # Nil
        PROVE  Final(high, t) + Final(low, t) + Final(reply_high', t) + Final(reply_low', t)
                 + Cardinality({p \in serving' : p.session = t}) = 1
    <3>1. /\ Final(high, t) \in Nat /\ Final(low, t) \in Nat
          /\ Final(reply_high, t) \in Nat /\ Final(reply_low, t) \in Nat /\ Final(q, t) \in Nat
      BY FinalNat DEF IndInv, Types
    <3>2. Final(high, t) + Final(low, t) + Final(reply_high, t) + Final(reply_low, t)
            + Cardinality({p \in serving : p.session = t}) = 1
      BY <2>1 DEF IndInv, CallInFlight
    <3>3. Final(reply_high', t) + Final(reply_low', t)
            = Final(reply_high, t) + Final(reply_low, t) + Final(q, t)
      <4>1. CASE reply_high' = reply_high \o q /\ reply_low' = reply_low
        <5>1. Final(reply_high \o q, t) = Final(reply_high, t) + Final(q, t) BY <1>t, FinalCat
        <5> QED BY <3>1, <4>1, <5>1
      <4>2. CASE reply_high' = reply_high /\ reply_low' = reply_low \o q
        <5>1. Final(reply_low \o q, t) = Final(reply_low, t) + Final(q, t) BY <1>t, FinalCat
        <5> QED BY <3>1, <4>2, <5>1
      <4> QED BY <4>1, <4>2
    <3>4. Final(reply_high', t) \in Nat /\ Final(reply_low', t) \in Nat BY <1>4, FinalNat
    <3>5. CASE t # s
      <4>1. {p \in serving' : p.session = t} = {p \in serving : p.session = t} BY <1>2, <3>5
      <4>2. Final(q, t) = 0 BY <1>2, <3>5
      <4>3. Final(reply_high', t) + Final(reply_low', t) = Final(reply_high, t) + Final(reply_low, t)
        BY <3>1, <3>3, <4>2
      <4>4. PICK c : c = Cardinality({p \in serving : p.session = t}) OBVIOUS
      <4>5. Cardinality({p \in serving' : p.session = t}) = c BY <4>1, <4>4
      <4>6. Final(high, t) + Final(low, t) + Final(reply_high, t) + Final(reply_low, t) + c = 1
        BY <3>2, <4>4
      <4>7. Final(high, t) + Final(low, t) + Final(reply_high', t) + Final(reply_low', t)
              = Final(high, t) + Final(low, t) + Final(reply_high, t) + Final(reply_low, t)
        <5>1. PICK a \in Nat : a = Final(high, t) BY <3>1
        <5>2. PICK b \in Nat : b = Final(low, t) BY <3>1
        <5>3. PICK u \in Nat : u = Final(reply_high, t) BY <3>1
        <5>4. PICK v \in Nat : v = Final(reply_low, t) BY <3>1
        <5>5. PICK w \in Nat : w = Final(reply_high', t) BY <3>4
        <5>6. PICK z \in Nat : z = Final(reply_low', t) BY <3>4
        <5>7. w + z = u + v BY <4>3, <5>3, <5>4, <5>5, <5>6
        <5>8. a + b + w + z = a + b + u + v BY <5>7, SumsAlike
        <5> QED BY <5>1, <5>2, <5>3, <5>4, <5>5, <5>6, <5>8
      <4> QED BY <4>5, <4>6, <4>7
    <3>6. CASE t = s
      <4>1. {p \in serving' : p.session = t} = {} BY <1>12, <2>1, <3>6
      <4>2. Cardinality({p \in serving' : p.session = t}) = 0 BY <4>1, FS_EmptySet
      <4>3. Final(q, t) = 1 BY <1>2, <3>6
      <4>4. Final(high, t) = 0 /\ Final(low, t) = 0 BY <1>3, <2>1, <3>6, FinalAway DEF IndInv, Types
      <4>5. Final(reply_high, t) = 0 /\ Final(reply_low, t) = 0 BY <1>t, <1>3, <2>1, <3>6, FinalAway
      <4> QED BY <3>3, <3>4, <4>2, <4>3, <4>4, <4>5
    <3> QED BY <3>5, <3>6
  <2> QED BY <1>1, <2>1 DEF CallInFlight
<1> QED BY <1>5, <1>6, <1>7, <1>8, <1>9, <1>f, <1>13, <1>14

LEMMA RespondSmall ==
    ASSUME IndInv, NEW r \in serving, NEW ok \in BOOLEAN, NEW sz \in ReplySize,
           Respond(r, ok, sz), ~IsLargeResponse(ok, sz)
    PROVE  IndInv'
<1>1. PICK s : s = r.session OBVIOUS
<1>2. PICK i : i = r.op OBVIOUS
<1>3. s \in Session \cup {0} /\ i \in Op /\ (s # 0 => thread[s] \in {i, Nil}) BY <1>1, <1>2, ServedAlone
<1>4. s \in Nat /\ i \in Nat /\ sz \in Nat BY <1>3, ConstAssumption DEF Session, Op
<1>5. PICK n \in Nat : n = ResponseLength(ok, sz) BY <1>4 DEF ResponseLength, MULTI_PART
<1>6. PICK ty \in {"ok", "error"} : ty = IF ok THEN "ok" ELSE "error" OBVIOUS
<1>7. PICK b \in BodySet : b = Body(i, 0, n) BY <1>4, <1>5 DEF Body, BodySet
<1>8. PICK f : f = [type |-> ty, session |-> s, body |-> b] OBVIOUS
<1>9. f \in Frame BY <1>4, <1>8 DEF Frame
<1>10. f.type = ty /\ f.session = s /\ f.body = b BY <1>8
<1>11. b.op = i /\ b.from = 0 /\ b.len = n BY <1>7 DEF Body
<1>12. packresponse(s, i, ok, sz) = <<f>> BY <1>5, <1>6, <1>7, <1>8 DEF packresponse
<1>13. /\ reply_high' = reply_high \o <<f>> /\ reply_low' = reply_low
       /\ serving' = serving \ {r}
       /\ UNCHANGED <<sending, high, low, large_request, taken, result_data, answer>>
  BY <1>1, <1>2, <1>12 DEF Respond
<1>14. <<f>> \in Seq(Frame) /\ Len(<<f>>) = 1 /\ <<f>>[1] = f BY <1>9
<1>15. ReplyOK(f, thread)
  <2>1. (f.type = "ok") = ok BY <1>6, <1>10
  <2>2. f.body.len = ResponseLength(f.type = "ok", sz) BY <1>5, <1>10, <1>11, <2>1
  <2> QED BY <1>3, <1>10, <1>11, <2>2 DEF ReplyOK
<1>16. thread' = thread BY <1>13 DEF sending
<1>17. ReplyHighOK(reply_high', thread')
  <2>1. ReplyHighOK(reply_high \o <<f>>, thread)
    BY <1>9, <1>15, ReplyHighPut DEF IndInv, Types
  <2> QED BY <1>13, <1>16, <2>1
<1>18. ReplyLowOK(reply_low', thread') BY <1>13, <1>16 DEF IndInv
<1>19. Gathering' BY <1>13 DEF IndInv, Gathering
<1>20. Final(<<f>>, s) = 1 /\ \A t : t # s => Final(<<f>>, t) = 0
  <2>1. FinalSet(<<f>>, s) = {1} BY <1>10, <1>14 DEF FinalSet, FinalTypes
  <2>2. 1 \in 1..Len(<<f>>) BY <1>14
  <2>3. Final(<<f>>, s) = 1 BY <1>14, <2>1, <2>2, FinalOne
  <2>4. ASSUME NEW t, t # s PROVE Final(<<f>>, t) = 0
    <3>1. FinalSet(<<f>>, t) = {} BY <1>10, <1>14, <2>4 DEF FinalSet
    <3> QED BY <1>14, <3>1, FinalNone
  <2> QED BY <2>3, <2>4
<1>21. /\ Types' /\ Threads' /\ HighOK(high', ops', thread') /\ LowOK(low', ops', thread')
       /\ Assembling' /\ TakenBefore' /\ Served' /\ Apart' /\ Fresh'
       /\ Intact' /\ TakenInOrder' /\ ReplyMatches' /\ CallInFlight'
  <2>1. PICK q \in Seq(Frame) : q = <<f>> BY <1>14
  <2>2. \A k \in 1..Len(q) : q[k].session = r.session BY <1>1, <1>10, <1>14, <2>1
  <2>3. Final(q, r.session) = 1 /\ \A t : t # r.session => Final(q, t) = 0 BY <1>1, <1>20, <2>1
  <2>4. reply_high' = reply_high \o q /\ reply_low' = reply_low BY <1>13, <2>1
  <2> QED BY <1>13, <2>2, <2>3, <2>4, RespondRest
<1> QED BY <1>17, <1>18, <1>19, <1>21 DEF IndInv

LEMMA RespondLarge ==
    ASSUME IndInv, CallsOnly, NEW r \in serving, NEW ok \in BOOLEAN, NEW sz \in ReplySize,
           Respond(r, ok, sz), IsLargeResponse(ok, sz)
    PROVE  IndInv'
<1>1. PICK s : s = r.session OBVIOUS
<1>2. PICK i : i = r.op OBVIOUS
<1>3. s \in Session /\ i \in Op /\ thread[s] = i /\ Away(reply_low, s)
  <2>1. at[i] = "call" BY <1>2 DEF Respond, Answers, IsLargeResponse
  <2>2. ~ops[i].is_push BY <1>2, <2>1, ServedAlone DEF CallsOnly
  <2> QED BY <1>1, <1>2, <2>2, ServedAlone
<1>4. s \in Nat /\ i \in Nat /\ sz \in Nat \ {0}
  <2>1. s \in Nat /\ i \in Nat /\ sz \in Nat BY <1>3, ConstAssumption DEF Session, Op
  <2>2. sz > 32768 BY DEF IsLargeResponse, MULTI_PART
  <2> QED BY <2>1, <2>2
<1>5. PICK o : o = [type |-> "begin", session |-> s, size |-> sz] OBVIOUS
<1>6. o \in Frame /\ o.type = "begin" /\ o.session = s /\ o.size = sz BY <1>4, <1>5 DEF Frame
<1>7. Opens(o) BY <1>6 DEF Opens
<1>8. PICK m : m = LargeMessage(o, i, sz) OBVIOUS
<1>9. packresponse(s, i, ok, sz) = m BY <1>5, <1>6, <1>8 DEF packresponse, LargeMessage
<1>10. /\ m \in Seq(Frame) /\ m # <<>> /\ Len(m) \in Nat /\ m[1] = o
       /\ Linked(m)
       /\ \A k \in 1..Len(m) : /\ m[k].session = s /\ OpAt(m, k) = i
                               /\ Opens(m[k]) <=> k = 1
                               /\ m[k].type = "end" <=> k = Len(m)
                               /\ m[k].type = "end" => m[k].body.from + m[k].body.len = sz
       /\ Final(m, s) = 1
       /\ \A t : t # s => Final(m, t) = 0
  <2>1. LET n == LargeMessage(o, i, sz) IN
        /\ n \in Seq(Frame) /\ n # <<>> /\ Len(n) \in Nat /\ n[1] = o
        /\ Linked(n)
        /\ \A k \in 1..Len(n) : /\ n[k].session = o.session /\ OpAt(n, k) = i
                                /\ Opens(n[k]) <=> k = 1
                                /\ n[k].type = "end" <=> k = Len(n)
                                /\ n[k].type = "end" => n[k].body.from + n[k].body.len = sz
        /\ Final(n, o.session) = 1
        /\ \A t : t # o.session => Final(n, t) = 0
    BY <1>4, <1>6, <1>7, LargeFrames
  <2> QED BY <1>6, <1>8, <2>1
<1>11. /\ reply_low' = reply_low \o m /\ reply_high' = reply_high
       /\ serving' = serving \ {r}
       /\ UNCHANGED <<sending, high, low, large_request, taken, result_data, answer>>
  BY <1>1, <1>2, <1>9 DEF Respond
<1>12. thread' = thread BY <1>11 DEF sending
<1>13. ReplyLowOK(m, thread)
  <2>1. ASSUME NEW k \in 1..Len(m) PROVE LargeReplyOK(m[k], OpAt(m, k), thread)
    <3>1. Opens(m[k]) => m[k] = o BY <1>10
    <3> QED BY <1>3, <1>6, <1>10, <3>1 DEF LargeReplyOK
  <2>2. ASSUME NEW k \in 1..Len(m), NEW l \in 1..Len(m)
        PROVE  /\ k < l /\ m[k].type = "end" => m[l].session # m[k].session
               /\ Opens(m[k]) /\ m[l].session = m[k].session => EndsAt(m[l], m[k].size)
    <3>1. ~(k < l /\ m[k].type = "end") BY <1>10
    <3>2. Opens(m[k]) => m[k].size = sz BY <1>6, <1>10
    <3>3. EndsAt(m[l], sz) BY <1>10 DEF EndsAt
    <3> QED BY <3>1, <3>2, <3>3
  <2> QED BY <1>10, <2>1, <2>2 DEF ReplyLowOK
<1>14. Opens(m[1]) BY <1>7, <1>10
<1>15. \A k \in 1..Len(reply_low) : reply_low[k].session # s BY <1>3 DEF Away
<1>16. ReplyLowOK(reply_low', thread')
  <2>1. \A k \in 1..Len(reply_low), j \in 1..Len(m) : reply_low[k].session # m[j].session
    BY <1>10, <1>15
  <2>2. ReplyLowOK(reply_low \o m, thread)
    BY <1>10, <1>13, <1>14, <2>1, ReplyLowPut DEF IndInv, Types
  <2> QED BY <1>11, <1>12, <2>2
<1>17. ReplyHighOK(reply_high', thread') BY <1>11, <1>12 DEF IndInv
<1>18. /\ reply_low' \in Seq(Frame) /\ Len(reply_low) \in Nat
       /\ \A k \in 1..Len(reply_low) : reply_low'[k] = reply_low[k] /\ k \in 1..Len(reply_low')
       /\ \A j \in 1..Len(m) : reply_low'[Len(reply_low) + j] = m[j]
       /\ \A k \in 1..Len(reply_low') : k \in 1..Len(reply_low) \/ \E j \in 1..Len(m) : k = Len(reply_low) + j
       /\ Len(reply_low') = Len(reply_low) + Len(m)
  BY <1>10, <1>11, CatPlaces DEF IndInv, Types
<1>19. result_data' = result_data BY <1>11
<1>20. Gathering'
  <2>1. CASE reply_low = <<>>
    <3>1. Len(reply_low) = 0 /\ 1 \in 1..Len(m) BY <1>10, <2>1, EmptySeq
    <3>2. reply_low'[1] = m[1]
      <4>1. Len(reply_low) + 1 = 1 BY <3>1
      <4>2. reply_low'[Len(reply_low) + 1] = m[1] BY <1>18, <3>1
      <4> QED BY <4>1, <4>2
    <3>3. ~Piece(reply_low'[1]) BY <1>14, <3>2 DEF Opens, Piece
    <3>4. \A j \in Op : result_data[j] = Nil BY <2>1 DEF IndInv, Gathering
    <3> QED BY <1>19, <3>3, <3>4 DEF Gathering
  <2>2. CASE reply_low # <<>>
    <3>1. 1 \in 1..Len(reply_low) BY <2>2, EmptySeq DEF IndInv, Types
    <3>2. reply_low'[1] = reply_low[1] /\ 1 \in 1..Len(reply_low') BY <1>18, <3>1
    <3>3. reply_low' # <<>> BY <1>18, <3>2, EmptySeq
    <3>4. reply_low[1].session # s BY <1>15, <3>1
    <3>5. ASSUME NEW j \in Op, result_data[j] # Nil, NEW l \in 1..Len(reply_low'),
                 reply_low'[l].session = reply_low'[1].session
          PROVE  EndsAt(reply_low'[l], result_data[j].size)
      <4>1. CASE l \in 1..Len(reply_low)
        BY <1>18, <3>2, <3>5, <4>1 DEF IndInv, Gathering
      <4>2. ASSUME NEW n \in 1..Len(m), l = Len(reply_low) + n PROVE FALSE
        <5>1. reply_low'[l].session = s BY <1>10, <1>18, <4>2
        <5> QED BY <3>2, <3>4, <3>5, <5>1
      <4> QED BY <1>18, <4>1, <4>2
    <3>6. ASSUME NEW j \in Op
          PROVE  /\ result_data[j] # Nil <=> reply_low' # <<>> /\ Piece(reply_low'[1]) /\ reply_low'[1].body.op = j
                 /\ result_data[j] # Nil =>
                     /\ Gathered(result_data[j], j, reply_low'[1].body.from)
                     /\ result_data[j].size \in ReplySize
      BY <2>2, <3>2, <3>3 DEF IndInv, Gathering
    <3> QED BY <1>19, <3>5, <3>6 DEF Gathering
  <2> QED BY <2>1, <2>2
<1>21. /\ Types' /\ Threads' /\ HighOK(high', ops', thread') /\ LowOK(low', ops', thread')
       /\ Assembling' /\ TakenBefore' /\ Served' /\ Apart' /\ Fresh'
       /\ Intact' /\ TakenInOrder' /\ ReplyMatches' /\ CallInFlight'
  <2>1. \A k \in 1..Len(m) : m[k].session = r.session BY <1>1, <1>10
  <2>2. Final(m, r.session) = 1 /\ \A t : t # r.session => Final(m, t) = 0 BY <1>1, <1>10
  <2>3. m \in Seq(Frame) BY <1>10
  <2> QED BY <1>11, <2>1, <2>2, <2>3, RespondRest
<1> QED BY <1>16, <1>17, <1>20, <1>21 DEF IndInv

\* A service answers, or fails.
LEMMA RespondKeeps ==
    ASSUME IndInv, CallsOnly, NEW r \in serving, NEW ok \in BOOLEAN, NEW sz \in ReplySize,
           Respond(r, ok, sz)
    PROVE  IndInv'
<1>1. CASE IsLargeResponse(ok, sz) BY <1>1, RespondLarge
<1>2. CASE ~IsLargeResponse(ok, sz) BY <1>2, RespondSmall
<1> QED BY <1>1, <1>2

-----------------------------------------------------------------------------
(***************************************************************************)
(* dispatch_by_session                                                     *)
(***************************************************************************)

\* A caller gets its answer: the last frame f of its response is taken off one of the
\* lanes of responses, and no other frame of the session is anywhere.
LEMMA Answered ==
    ASSUME IndInv, NEW s \in Session, NEW i \in Op, thread[s] = i, NEW a \in ResultSet,
           UNCHANGED <<session, ops, high, low, large_request, taken, serving>>,
           thread' = [thread EXCEPT ![s] = Nil], answer' = [answer EXCEPT ![i] = a],
           result_data' = [result_data EXCEPT ![i] = Nil],
           \E sz \in ReplySize : WholeMessage(a.bodies, i, ResponseLength(a.ok, sz)),
           reply_high' \in Seq(Frame), reply_low' \in Seq(Frame),
           \A t : /\ Away(reply_high, t) => Away(reply_high', t)
                  /\ Away(reply_low, t) => Away(reply_low', t),
           Away(reply_high', s), Away(reply_low', s), ~(Away(reply_high, s) /\ Away(reply_low, s)),
           ReplyHighOK(reply_high', thread), ReplyLowOK(reply_low', thread),
           \A t \in Session : t # s =>
              /\ Final(reply_high', t) = Final(reply_high, t)
              /\ Final(reply_low', t) = Final(reply_low, t)
    PROVE  /\ Types' /\ Threads' /\ HighOK(high', ops', thread') /\ LowOK(low', ops', thread')
           /\ ReplyHighOK(reply_high', thread') /\ ReplyLowOK(reply_low', thread')
           /\ Assembling' /\ TakenBefore' /\ Served' /\ Apart' /\ Fresh'
           /\ Intact' /\ TakenInOrder' /\ ReplyMatches' /\ CallInFlight'
<1>1. /\ session' = session /\ ops' = ops /\ high' = high /\ low' = low
      /\ large_request' = large_request /\ taken' = taken /\ serving' = serving
  OBVIOUS
<1>2. /\ thread' \in [Session -> Op \cup {Nil}] /\ thread'[s] = Nil
      /\ \A t \in Session : t # s => thread'[t] = thread[t]
  BY DEF IndInv, Types
<1>3. /\ answer' \in [Op -> ResultSet \cup {Nil}] /\ answer'[i] = a
      /\ \A j \in Op : j # i => answer'[j] = answer[j]
  BY DEF IndInv, Types
<1>4. result_data' \in [Op -> PileSet \cup {Nil}] BY DEF IndInv, Types
<1>5. Types' BY <1>1, <1>2, <1>3, <1>4 DEF IndInv, Types
<1>6. Threads'
  <2>1. ASSUME NEW t \in Session, thread'[t] # Nil
        PROVE  /\ thread'[t] = thread[t] /\ thread[t] # Nil
               /\ thread'[t] <= Len(ops) /\ ~ops[thread'[t]].is_push
    BY <1>2, <2>1 DEF IndInv, Threads
  <2>2. ASSUME NEW t \in Session, NEW u \in Session, thread'[t] # Nil, thread'[t] = thread'[u]
        PROVE  t = u
    BY <2>1, <2>2 DEF IndInv, Threads
  <2> QED BY <1>1, <2>1, <2>2 DEF Threads
<1>0. i \in Nat /\ i # Nil BY ConstAssumption DEF Op
<1>7. Away(high, s) /\ Away(low, s) /\ \A r \in serving : r.session # s
  BY <1>0 DEF IndInv, Apart
<1>z. 0 \notin Session BY DEF Session
<1>8. HighOK(high', ops', thread')
  <2>1. SameFor(high, thread, thread')
    <3>1. ASSUME NEW k \in 1..Len(high), high[k].session # 0
          PROVE  thread'[high[k].session] = thread[high[k].session]
      <4>1. SmallOK(high[k], ops, thread) BY DEF IndInv, HighOK
      <4>2. high[k].session \in Session BY <3>1, <4>1 DEF SmallOK
      <4>3. high[k].session # s BY <1>7 DEF Away
      <4> QED BY <1>2, <4>2, <4>3
    <3> QED BY <3>1 DEF SameFor
  <2>2. Extends(ops, ops) BY LenProperties DEF IndInv, Types, Extends
  <2>3. HighOK(high, ops, thread') BY <2>1, <2>2, HighKept DEF IndInv, Types
  <2> QED BY <1>1, <2>3
<1>9. LowOK(low', ops', thread')
  <2>1. SameFor(low, thread, thread')
    <3>1. ASSUME NEW k \in 1..Len(low)
          PROVE  thread'[low[k].session] = thread[low[k].session]
      <4>1. LargeOK(low[k], OpAt(low, k), ops, thread) BY DEF IndInv, LowOK
      <4>2. low[k].session \in Session BY <4>1 DEF LargeOK
      <4>3. low[k].session # s BY <1>7 DEF Away
      <4> QED BY <1>2, <4>2, <4>3
    <3> QED BY <3>1 DEF SameFor
  <2>2. Extends(ops, ops) BY LenProperties DEF IndInv, Types, Extends
  <2>3. LowOK(low, ops, thread') BY <2>1, <2>2, LowKept DEF IndInv, Types
  <2> QED BY <1>1, <2>3
<1>10. ReplyHighOK(reply_high', thread')
  <2>1. SameFor(reply_high', thread, thread')
    <3>1. ASSUME NEW k \in 1..Len(reply_high'), reply_high'[k].session # 0
          PROVE  thread'[reply_high'[k].session] = thread[reply_high'[k].session]
      <4>1. reply_high'[k].session \in Session BY <3>1 DEF ReplyHighOK, ReplyOK
      <4>2. reply_high'[k].session # s BY DEF Away
      <4> QED BY <1>2, <4>1, <4>2
    <3> QED BY <3>1 DEF SameFor
  <2> QED BY <2>1, ReplyHighKept
<1>11. ReplyLowOK(reply_low', thread')
  <2>1. SameFor(reply_low', thread, thread')
    <3>1. ASSUME NEW k \in 1..Len(reply_low')
          PROVE  thread'[reply_low'[k].session] = thread[reply_low'[k].session]
      <4>1. reply_low'[k].session \in Session BY DEF ReplyLowOK, LargeReplyOK
      <4>2. reply_low'[k].session # s BY DEF Away
      <4> QED BY <1>2, <4>1, <4>2
    <3> QED BY <3>1 DEF SameFor
  <2> QED BY <2>1, ReplyLowKept
<1>12. Assembling' /\ TakenBefore' BY <1>1 DEF IndInv, Assembling, TakenBefore
<1>13. Served'
  <2>1. \A r \in serving : r.session \in Session \cup {0} BY DEF IndInv, Types
  <2>2. \A r \in serving : r.session # 0 => thread'[r.session] = thread[r.session] BY <1>2, <1>7, <2>1
  <2> QED BY <1>1, <2>2 DEF IndInv, Served
<1>14. Fresh'
  <2>1. session \in Session /\ thread[session] = Nil BY DEF IndInv, Fresh, Types
  <2>2. thread'[session] = Nil BY <1>2, <2>1
  <2> QED BY <1>1, <2>2 DEF IndInv, Fresh
<1>15. Apart'
  <2>1. ASSUME NEW t \in Session, thread[t] # Nil
        PROVE  /\ ~Away(high, t) => Away(low, t)
               /\ ~Away(high, t) \/ ~Away(low, t) =>
                     Away(reply_high', t) /\ Away(reply_low', t) /\ \A p \in serving : p.session # t
               /\ (\E p \in serving : p.session = t) => Away(reply_high', t) /\ Away(reply_low', t)
               /\ ~Away(reply_high', t) => Away(reply_low', t)
    <3>1. /\ ~Away(high, t) => Away(low, t)
          /\ ~Away(high, t) \/ ~Away(low, t) =>
               Away(reply_high, t) /\ Away(reply_low, t) /\ \A p \in serving : p.session # t
          /\ (\E p \in serving : p.session = t) => Away(reply_high, t) /\ Away(reply_low, t)
          /\ ~Away(reply_high, t) => Away(reply_low, t)
      BY <2>1 DEF IndInv, Apart
    <3>2. /\ Away(reply_high, t) => Away(reply_high', t)
          /\ Away(reply_low, t) => Away(reply_low', t)
      OBVIOUS
    <3> QED BY <3>1, <3>2
  <2>2. \A t \in Session : thread'[t] # Nil => thread[t] # Nil BY <1>2
  <2> QED BY <1>1, <2>1, <2>2 DEF Apart
<1>16. Intact' /\ TakenInOrder' BY <1>1 DEF IndInv, Intact, TakenInOrder
<1>17. ReplyMatches'
  <2>1. ASSUME NEW j \in Op, answer'[j] # Nil
        PROVE  \E sz \in ReplySize :
                 WholeMessage(answer'[j].bodies, j, ResponseLength(answer'[j].ok, sz))
    <3>1. CASE j = i BY <1>3, <3>1
    <3>2. CASE j # i
      <4>1. answer'[j] = answer[j] BY <1>3, <3>2
      <4> QED BY <2>1, <4>1 DEF IndInv, ReplyMatches
    <3> QED BY <3>1, <3>2
  <2> QED BY <2>1 DEF ReplyMatches
<1>18. CallInFlight'
  <2>1. ASSUME NEW t \in Session, thread'[t] # Nil
        PROVE  Final(high, t) + Final(low, t) + Final(reply_high', t) + Final(reply_low', t)
                 + Cardinality({r \in serving : r.session = t}) = 1
    <3>1. t # s /\ thread[t] # Nil BY <1>2, <2>1
    <3>2. Final(reply_high', t) = Final(reply_high, t) /\ Final(reply_low', t) = Final(reply_low, t)
      BY <3>1
    <3>3. Final(high, t) + Final(low, t) + Final(reply_high, t) + Final(reply_low, t)
            + Cardinality({r \in serving : r.session = t}) = 1
      BY <3>1 DEF IndInv, CallInFlight
    <3> QED BY <3>2, <3>3
  <2> QED BY <1>1, <2>1 DEF CallInFlight
<1> QED BY <1>5, <1>6, <1>8, <1>9, <1>10, <1>11, <1>12, <1>13, <1>14, <1>15, <1>16, <1>17, <1>18

LEMMA NoneLeft ==
    ASSUME NEW a \in Nat, NEW b \in Nat, NEW n \in Nat, NEW d \in Nat, a + b + (n + 1) + d + 0 = 1
    PROVE  n = 0
OBVIOUS

\* An error for a push comes to the channel: it is only logged.
LEMMA ResponseLogged ==
    ASSUME IndInv, NEW f, Response(f), Takes(reply_high, reply_high', f), reply_low' = reply_low,
           f.session = 0 \/ thread[f.session] = Nil
    PROVE  IndInv'
<1>t. reply_high \in Seq(Frame) /\ reply_low \in Seq(Frame) BY DEF IndInv, Types
<1>0. 0 \notin Session BY DEF Session
<1>1. ReplyHighOK(reply_high', thread) /\ reply_high' \in Seq(Frame)
  <2>1. ReplyHighOK(reply_high', thread) BY <1>t, ReplyHighTaken DEF IndInv
  <2> QED BY <1>t, <2>1, Taken
<1>2. /\ session' = session /\ ops' = ops /\ thread' = thread /\ high' = high /\ low' = low
      /\ large_request' = large_request /\ taken' = taken /\ serving' = serving
      /\ result_data' = result_data /\ answer' = answer
  <2>1. unpackresponse(f).session = f.session BY DEF unpackresponse
  <2> QED BY <2>1 DEF Response
<1>3. \A t : Away(reply_high, t) => Away(reply_high', t) BY <1>t, AwayTaken
<1>4. Types' BY <1>1, <1>2 DEF IndInv, Types
<1>5. Threads' /\ HighOK(high', ops', thread') /\ LowOK(low', ops', thread')
      /\ ReplyHighOK(reply_high', thread') /\ ReplyLowOK(reply_low', thread')
  BY <1>1, <1>2 DEF IndInv, Threads
<1>6. Assembling' /\ TakenBefore' /\ Served' /\ Gathering'
  BY <1>2 DEF IndInv, Assembling, TakenBefore, Served, Gathering
<1>7. Fresh' BY <1>2, <1>3 DEF IndInv, Fresh
<1>8. Intact' /\ TakenInOrder' /\ ReplyMatches' BY <1>2 DEF IndInv, Intact, TakenInOrder, ReplyMatches
<1>9. Apart' BY <1>2, <1>3 DEF IndInv, Apart
<1>10. CallInFlight'
  <2>1. ASSUME NEW t \in Session, thread[t] # Nil PROVE Final(reply_high', t) = Final(reply_high, t)
    <3>1. f.session # t BY <1>0, <2>1
    <3> QED BY <1>t, <3>1, FinalTaken
  <2>2. ASSUME NEW t \in Session, thread[t] # Nil
        PROVE  Final(high, t) + Final(low, t) + Final(reply_high', t) + Final(reply_low, t)
                 + Cardinality({r \in serving : r.session = t}) = 1
    BY <2>1, <2>2 DEF IndInv, CallInFlight
  <2> QED BY <1>2, <2>2 DEF CallInFlight
<1> QED BY <1>4, <1>5, <1>6, <1>7, <1>8, <1>9, <1>10 DEF IndInv

\* A response of one frame comes to the channel.
LEMMA ResponseSmall ==
    ASSUME IndInv, NEW f, Response(f), Takes(reply_high, reply_high', f), reply_low' = reply_low,
           f.session # 0, thread[f.session] # Nil
    PROVE  IndInv'
<1>t. reply_high \in Seq(Frame) /\ reply_low \in Seq(Frame) BY DEF IndInv, Types
<1>1. ReplyHighOK(reply_high', thread) /\ ReplyOK(f, thread)
  BY <1>t, ReplyHighTaken DEF IndInv
<1>2. reply_high' \in Seq(Frame) /\ f \in Frame /\ f = reply_high[1] /\ 1 \in 1..Len(reply_high)
  <2>1. Len(reply_high) \in Nat \ {0} BY <1>t, Taken
  <2> QED BY <1>t, <2>1, Taken
<1>3. PICK s : s = f.session OBVIOUS
<1>4. PICK i : i = f.body.op OBVIOUS
<1>5. /\ f.type \in {"ok", "error"} /\ s \in Session /\ thread[s] = i /\ f.body.from = 0
      /\ \E sz \in ReplySize : f.body.len = ResponseLength(f.type = "ok", sz)
      /\ s # 0
  BY <1>1, <1>3, <1>4 DEF ReplyOK
<1>6. f.body \in BodySet /\ i \in Nat /\ f.body.len \in Nat
  <2>1. ~Opens(f) BY <1>5 DEF Opens
  <2> QED BY <1>2, <1>4, <2>1, FrameFields
<1>7. i # Nil /\ i \in Op
  <2>1. i # Nil BY <1>6, ConstAssumption
  <2> QED BY <1>5, <2>1 DEF IndInv, Types
<1>8. ~Away(reply_high, s) BY <1>2, <1>3 DEF Away
<1>9. Away(reply_low, s) BY <1>5, <1>7, <1>8 DEF IndInv, Apart
<1>10. result_data[i] = Nil
  <2>1. SUFFICES ASSUME result_data[i] # Nil PROVE FALSE OBVIOUS
  <2>2. reply_low # <<>> /\ Piece(reply_low[1]) /\ reply_low[1].body.op = i
    BY <1>7, <2>1 DEF IndInv, Gathering
  <2>3. 1 \in 1..Len(reply_low) BY <1>t, <2>2, EmptySeq
  <2>4. OpAt(reply_low, 1) = i BY <2>2 DEF OpAt, Opens, Piece
  <2>5. reply_low[1].session \in Session /\ thread[reply_low[1].session] = i
    BY <2>3, <2>4 DEF IndInv, ReplyLowOK, LargeReplyOK
  <2>6. reply_low[1].session = s BY <1>5, <1>7, <2>5 DEF IndInv, Threads
  <2> QED BY <1>9, <2>3, <2>6 DEF Away
<1>11. PICK u : u = unpackresponse(f) OBVIOUS
<1>12. u.session = s /\ ~u.padding /\ u.msg = f.body /\ u.ok = (f.type = "ok")
  BY <1>3, <1>5, <1>11 DEF unpackresponse
<1>13. PICK ok \in BOOLEAN : ok = (f.type = "ok") OBVIOUS
<1>14. PICK b \in BodySet : b = f.body BY <1>6
<1>15. PICK a : a = [ok |-> ok, bodies |-> <<b>>] OBVIOUS
<1>16. a = Result(result_data[i], u) BY <1>10, <1>12, <1>13, <1>14, <1>15 DEF Result
<1>17. /\ thread' = [thread EXCEPT ![s] = Nil]
       /\ result_data' = [result_data EXCEPT ![i] = Nil]
       /\ answer' = [answer EXCEPT ![i] = a]
       /\ UNCHANGED <<session, ops, high, low, large_request, taken, serving>>
  BY <1>5, <1>7, <1>11, <1>12, <1>16 DEF Response
<1>18. <<b>> \in Seq(BodySet) /\ Len(<<b>>) = 1 /\ <<b>>[1] = b OBVIOUS
<1>19. a \in ResultSet /\ a.ok = ok /\ a.bodies = <<b>> BY <1>15, <1>18 DEF ResultSet
<1>20. \E sz \in ReplySize : WholeMessage(a.bodies, i, ResponseLength(a.ok, sz))
  <2>1. PICK sz \in ReplySize : f.body.len = ResponseLength(f.type = "ok", sz) BY <1>5
  <2>2. b.op = i /\ b.from = 0 /\ b.len \in Nat BY <1>4, <1>5, <1>6, <1>14
  <2>3. WholeMessage(<<b>>, i, b.len) BY <1>18, <2>2 DEF WholeMessage
  <2>4. b.len = ResponseLength(ok, sz) BY <1>13, <1>14, <2>1
  <2> QED BY <1>19, <2>3, <2>4
<1>21. \A t \in Session : t # s => Final(reply_high', t) = Final(reply_high, t)
  BY <1>t, <1>3, FinalTaken
<1>22. Away(reply_high', s)
  <2>1. Final(reply_high, s) = Final(reply_high', s) + 1 /\ Final(reply_high', s) \in Nat
    <3>1. f.session = s /\ f.type \in FinalTypes BY <1>3, <1>5 DEF FinalTypes
    <3> QED BY <1>t, <3>1, FinalTaken
  <2>2. /\ Final(high, s) \in Nat /\ Final(low, s) \in Nat /\ Final(reply_low, s) \in Nat
    BY FinalNat DEF IndInv, Types
  <2>3. Final(high, s) + Final(low, s) + Final(reply_high, s) + Final(reply_low, s)
          + Cardinality({r \in serving : r.session = s}) = 1
    BY <1>5, <1>7 DEF IndInv, CallInFlight
  <2>4. Cardinality({r \in serving : r.session = s}) = 0
    <3>1. \A r \in serving : r.session # s BY <1>5, <1>7, <1>8 DEF IndInv, Apart
    <3>2. {r \in serving : r.session = s} = {} BY <3>1
    <3> QED BY <3>2, FS_EmptySet
  <2>5. Final(reply_high', s) = 0
    <3>1. Final(high, s) + Final(low, s) + Final(reply_high, s) + Final(reply_low, s) + 0 = 1
      BY <2>3, <2>4
    <3>2. PICK h \in Nat : h = Final(high, s) BY <2>2
    <3>3. PICK c \in Nat : c = Final(low, s) BY <2>2
    <3>4. PICK d \in Nat : d = Final(reply_low, s) BY <2>2
    <3>5. PICK n \in Nat : n = Final(reply_high', s) BY <2>1
    <3>6. h + c + (n + 1) + d + 0 = 1 BY <2>1, <3>1, <3>2, <3>3, <3>4, <3>5
    <3> QED BY <3>5, <3>6, NoneLeft
  <2>6. FinalSet(reply_high', s) = {} BY <1>2, <2>5, FinalNone
  <2>7. \A k \in 1..Len(reply_high') : reply_high'[k].type \in FinalTypes
    BY <1>1 DEF ReplyHighOK, ReplyOK, FinalTypes
  <2> QED BY <2>6, <2>7 DEF FinalSet, Away
<1>23. /\ Types' /\ Threads' /\ HighOK(high', ops', thread') /\ LowOK(low', ops', thread')
       /\ ReplyHighOK(reply_high', thread') /\ ReplyLowOK(reply_low', thread')
       /\ Assembling' /\ TakenBefore' /\ Served' /\ Apart' /\ Fresh'
       /\ Intact' /\ TakenInOrder' /\ ReplyMatches' /\ CallInFlight'
  <2>1. \A t : (Away(reply_high, t) => Away(reply_high', t)) /\ (Away(reply_low, t) => Away(reply_low', t))
    BY <1>t, AwayTaken
  <2>2. Away(reply_low', s) BY <1>9
  <2>3. ReplyLowOK(reply_low', thread) /\ reply_low' \in Seq(Frame) BY <1>t DEF IndInv
  <2>4. \A t \in Session : t # s => /\ Final(reply_high', t) = Final(reply_high, t)
                                    /\ Final(reply_low', t) = Final(reply_low, t)
    BY <1>21
  <2>5. ~(Away(reply_high, s) /\ Away(reply_low, s)) BY <1>8
  <2> QED BY <1>1, <1>2, <1>5, <1>7, <1>17, <1>19, <1>20, <1>22, <2>1, <2>2, <2>3, <2>4, <2>5, Answered
<1>24. Gathering'
  <2>1. \A j \in Op : result_data'[j] = result_data[j] BY <1>7, <1>10, <1>17 DEF IndInv, Types
  <2> QED BY <2>1 DEF IndInv, Gathering
<1> QED BY <1>23, <1>24 DEF IndInv

\* What holds of the first frame of the lane of large responses when it is taken off.
LEMMA LargeReplyFirst ==
    ASSUME IndInv, NEW f, Takes(reply_low, reply_low', f), reply_high' = reply_high
    PROVE  LET s == f.session
               i == OpAt(reply_low, 1)
           IN /\ f \in Frame /\ reply_low' \in Seq(Frame) /\ reply_high' \in Seq(Frame)
              /\ ReplyLowOK(reply_low', thread) /\ LargeReplyOK(f, i, thread)
              /\ reply_low # <<>> /\ f = reply_low[1] /\ 1 \in 1..Len(reply_low)
              /\ s \in Session /\ s # 0 /\ i \in Op /\ i # Nil /\ thread[s] = i
              /\ f.type \in {"begin", "part", "end"}
              /\ \A j \in Op : result_data[j] # Nil <=> Piece(f) /\ j = i
              /\ Piece(f) => f.body.op = i
              /\ \A t : /\ Away(reply_high, t) => Away(reply_high', t)
                        /\ Away(reply_low, t) => Away(reply_low', t)
<1>t. reply_high \in Seq(Frame) /\ reply_low \in Seq(Frame) BY DEF IndInv, Types
<1>1. PICK s : s = f.session OBVIOUS
<1>2. PICK i : i = OpAt(reply_low, 1) OBVIOUS
<1>3. /\ reply_low' \in Seq(Frame) /\ f \in Frame /\ f = reply_low[1] /\ 1 \in 1..Len(reply_low)
      /\ reply_low # <<>>
  <2>1. Len(reply_low) \in Nat \ {0} BY <1>t, Taken
  <2> QED BY <1>t, <2>1, Taken DEF Takes
<1>4. /\ ReplyLowOK(reply_low', thread) /\ LargeReplyOK(f, i, thread)
      /\ Opens(f) \/ Piece(f)
  BY <1>t, <1>2, ReplyLowTaken DEF IndInv
<1>5. s \in Session /\ s # 0 /\ thread[s] = i /\ (Opens(f) => f.type = "begin")
  BY <1>1, <1>4 DEF LargeReplyOK, Session
<1>6. i \in Nat BY <1>t, <1>2, <1>3, OpAtNat DEF IndInv, ReplyLowOK
<1>7. i # Nil BY <1>6, ConstAssumption
<1>8. i \in Op BY <1>5, <1>7 DEF IndInv, Types
<1>9. f.type \in {"begin", "part", "end"}
  <2>1. Piece(f) => f.type \in {"part", "end"} BY DEF Piece
  <2> QED BY <1>4, <1>5, <2>1
<1>10. Piece(f) => f.body.op = i
  BY <1>2, <1>3 DEF OpAt, Opens, Piece
<1>11. \A j \in Op : result_data[j] # Nil <=> Piece(f) /\ j = i
  <2>1. TAKE j \in Op
  <2>2. result_data[j] # Nil <=> reply_low # <<>> /\ Piece(reply_low[1]) /\ reply_low[1].body.op = j
    BY DEF IndInv, Gathering
  <2>3. reply_low[1] = f /\ reply_low # <<>> BY <1>3
  <2> QED BY <1>10, <2>2, <2>3
<1>12. \A t : (Away(reply_high, t) => Away(reply_high', t)) /\ (Away(reply_low, t) => Away(reply_low', t))
  BY <1>t, AwayTaken
<1> QED BY <1>t, <1>1, <1>2, <1>3, <1>4, <1>5, <1>7, <1>8, <1>9, <1>10, <1>11, <1>12

\* A frame that does not complete a response only changes what is being put together.
LEMMA ResponseOn ==
    ASSUME IndInv, NEW f, Takes(reply_low, reply_low', f), reply_high' = reply_high, f.type # "end",
           UNCHANGED <<sending, high, low, large_request, taken, serving, answer>>,
           result_data' \in [Op -> PileSet \cup {Nil}], Gathering'
    PROVE  IndInv'
<1>t. reply_low \in Seq(Frame) BY DEF IndInv, Types
<1>1. /\ session' = session /\ ops' = ops /\ thread' = thread /\ high' = high /\ low' = low
      /\ large_request' = large_request /\ taken' = taken /\ serving' = serving
      /\ answer' = answer
  BY DEF sending
<1>2. /\ reply_low' \in Seq(Frame) /\ reply_high' \in Seq(Frame) /\ ReplyLowOK(reply_low', thread)
      /\ f.type \in {"begin", "part", "end"}
      /\ \A t : Away(reply_low, t) => Away(reply_low', t)
  BY LargeReplyFirst
<1>3. Types' BY <1>1, <1>2 DEF IndInv, Types
<1>4. Threads' /\ HighOK(high', ops', thread') /\ LowOK(low', ops', thread')
      /\ ReplyHighOK(reply_high', thread') /\ ReplyLowOK(reply_low', thread')
  BY <1>1, <1>2 DEF IndInv, Threads
<1>5. Assembling' /\ TakenBefore' /\ Fresh' /\ Served'
  BY <1>1 DEF IndInv, Assembling, TakenBefore, Fresh, Served
<1>6. Intact' /\ TakenInOrder' /\ ReplyMatches' BY <1>1 DEF IndInv, Intact, TakenInOrder, ReplyMatches
<1>7. Apart'
  <2>1. ASSUME NEW t \in Session, thread[t] # Nil
        PROVE  /\ ~Away(high, t) => Away(low, t)
               /\ ~Away(high, t) \/ ~Away(low, t) =>
                     Away(reply_high, t) /\ Away(reply_low', t) /\ \A p \in serving : p.session # t
               /\ (\E p \in serving : p.session = t) => Away(reply_high, t) /\ Away(reply_low', t)
               /\ ~Away(reply_high, t) => Away(reply_low', t)
    <3>1. /\ ~Away(high, t) => Away(low, t)
          /\ ~Away(high, t) \/ ~Away(low, t) =>
               Away(reply_high, t) /\ Away(reply_low, t) /\ \A p \in serving : p.session # t
          /\ (\E p \in serving : p.session = t) => Away(reply_high, t) /\ Away(reply_low, t)
          /\ ~Away(reply_high, t) => Away(reply_low, t)
      BY <2>1 DEF IndInv, Apart
    <3>2. Away(reply_low, t) => Away(reply_low', t) BY <1>2
    <3> QED BY <3>1, <3>2
  <2> QED BY <1>1, <2>1 DEF Apart
<1>8. CallInFlight'
  <2>1. ASSUME NEW t \in Session PROVE Final(reply_low', t) = Final(reply_low, t)
    <3>1. f.type \notin FinalTypes BY <1>2 DEF FinalTypes
    <3> QED BY <1>t, <3>1, FinalTaken
  <2>2. ASSUME NEW t \in Session, thread[t] # Nil
        PROVE  Final(high, t) + Final(low, t) + Final(reply_high, t) + Final(reply_low', t)
                 + Cardinality({r \in serving : r.session = t}) = 1
    BY <2>1, <2>2 DEF IndInv, CallInFlight
  <2> QED BY <1>1, <2>2 DEF CallInFlight
<1> QED BY <1>3, <1>4, <1>5, <1>6, <1>7, <1>8 DEF IndInv

\* A large response is announced to the channel.
LEMMA ResponseOpens ==
    ASSUME IndInv, NEW f, Response(f), Takes(reply_low, reply_low', f), reply_high' = reply_high,
           f.type = "begin"
    PROVE  IndInv'
<1>t. reply_low \in Seq(Frame) BY DEF IndInv, Types
<1>0. Opens(f) /\ ~Piece(f) /\ f.type # "end" BY DEF Opens, Piece
<1>1. PICK s : s = f.session OBVIOUS
<1>2. PICK i : i = OpAt(reply_low, 1) OBVIOUS
<1>3. /\ f \in Frame /\ LargeReplyOK(f, i, thread)
      /\ s \in Session /\ s # 0 /\ i \in Op /\ i # Nil /\ thread[s] = i
      /\ \A j \in Op : result_data[j] # Nil <=> Piece(f) /\ j = i
  BY <1>1, <1>2, LargeReplyFirst
<1>4. PICK sz \in ReplySize : sz = f.size BY <1>0, <1>3 DEF LargeReplyOK
<1>5. \A j \in Op : result_data[j] = Nil BY <1>0, <1>3
<1>6. /\ reply_low' # <<>> /\ Piece(reply_low'[1]) /\ reply_low'[1].session = s
      /\ reply_low'[1].body.from = 0 /\ reply_low'[1].body.op = i
      /\ \A l \in 1..Len(reply_low') : reply_low'[l].session = s => EndsAt(reply_low'[l], sz)
  BY <1>t, <1>0, <1>1, <1>2, <1>4, ReplyLowTaken DEF IndInv
<1>7. PICK u : u = unpackresponse(f) OBVIOUS
<1>8. u.session = s /\ u.padding /\ u.msg = sz BY <1>1, <1>4, <1>7 DEF unpackresponse
<1>9. PICK p : p = Pile(sz) OBVIOUS
<1>10. /\ result_data' = [result_data EXCEPT ![i] = p]
       /\ UNCHANGED <<sending, high, low, large_request, taken, serving, answer>>
  BY <1>3, <1>5, <1>7, <1>8, <1>9 DEF Response, sending
<1>11. p \in PileSet /\ p # Nil /\ p.size = sz /\ Gathered(p, i, 0)
  <2>1. p = [size |-> sz, bodies |-> <<>>, length |-> 0] BY <1>9 DEF Pile
  <2>2. <<>> \in Seq(BodySet) OBVIOUS
  <2>3. sz \in Nat BY ConstAssumption
  <2>4. \A n \in Nat : n \in Int OBVIOUS
  <2>5. p \in PileSet BY <2>1, <2>2, <2>3, <2>4 DEF PileSet
  <2>6. Gathered(p, i, 0) /\ p.size = sz BY <2>1 DEF Gathered
  <2> QED BY <2>5, <2>6, ConstAssumption
<1>12. result_data' \in [Op -> PileSet \cup {Nil}] BY <1>10, <1>11 DEF IndInv, Types
<1>13. \A j \in Op : result_data'[j] = IF j = i THEN p ELSE Nil
  BY <1>3, <1>5, <1>10 DEF IndInv, Types
<1>14. Gathering'
  <2>1. ASSUME NEW j \in Op
        PROVE  /\ result_data'[j] # Nil <=>
                    reply_low' # <<>> /\ Piece(reply_low'[1]) /\ reply_low'[1].body.op = j
               /\ result_data'[j] # Nil =>
                   /\ Gathered(result_data'[j], j, reply_low'[1].body.from)
                   /\ result_data'[j].size \in ReplySize
                   /\ \A l \in 1..Len(reply_low') : reply_low'[l].session = reply_low'[1].session
                         => EndsAt(reply_low'[l], result_data'[j].size)
    <3>1. CASE j = i
      <4>1. result_data'[j] = p BY <1>13, <3>1
      <4> QED BY <1>6, <1>11, <3>1, <4>1
    <3>2. CASE j # i
      <4>1. result_data'[j] = Nil BY <1>13, <3>2
      <4> QED BY <1>6, <3>2, <4>1
    <3> QED BY <3>1, <3>2
  <2> QED BY <2>1 DEF Gathering
<1> QED BY <1>0, <1>10, <1>12, <1>14, ResponseOn

\* A piece of a large response that is put to the others.
LEMMA ReplyPieceComes ==
    ASSUME IndInv, NEW f, Takes(reply_low, reply_low', f), reply_high' = reply_high, Piece(f)
    PROVE  LET i == OpAt(reply_low, 1)
               q == result_data[i]
               p == append(q, f.body)
           IN /\ q # Nil /\ f.body \in BodySet /\ q.size \in ReplySize
              /\ p \in PileSet /\ p # Nil /\ p.size = q.size
              /\ p.length = f.body.from + f.body.len
              /\ WholeMessage(p.bodies, i, f.body.from + f.body.len)
              /\ Gathered(p, i, f.body.from + f.body.len)
              /\ EndsAt(f, q.size)
              /\ \A l \in 1..Len(reply_low') :
                   reply_low'[l].session = f.session => EndsAt(reply_low'[l], q.size)
<1>t. reply_low \in Seq(Frame) BY DEF IndInv, Types
<1>1. PICK i : i = OpAt(reply_low, 1) OBVIOUS
<1>2. PICK q : q = result_data[i] OBVIOUS
<1>3. /\ f \in Frame /\ reply_low # <<>> /\ f = reply_low[1] /\ i \in Op
      /\ 1 \in 1..Len(reply_low)
      /\ \A j \in Op : result_data[j] # Nil <=> Piece(f) /\ j = i
      /\ f.body.op = i
  BY <1>1, LargeReplyFirst
<1>4. ~Opens(f) BY DEF Opens, Piece
<1>5. f.body \in BodySet /\ i \in Nat /\ f.body.from \in Nat /\ f.body.len \in Nat
  BY <1>3, <1>4, FrameFields
<1>6. q # Nil BY <1>2, <1>3
<1>7. q \in PileSet BY <1>2, <1>3, <1>6 DEF IndInv, Types
<1>8. /\ Gathered(q, i, f.body.from) /\ q.size \in ReplySize
      /\ \A l \in 1..Len(reply_low) :
            reply_low[l].session = f.session => EndsAt(reply_low[l], q.size)
  BY <1>2, <1>3, <1>6 DEF IndInv, Gathering
<1>9. PICK b \in BodySet : b = f.body BY <1>5
<1>10. PICK n \in Nat : n = f.body.from BY <1>5
<1>11. /\ append(q, b) \in PileSet /\ append(q, b).size = q.size
       /\ append(q, b).length = n + b.len
       /\ WholeMessage(append(q, b).bodies, i, n + b.len)
       /\ Gathered(append(q, b), i, n + b.len)
  <2>1. b.op = i /\ b.from = n BY <1>3, <1>9, <1>10
  <2>2. Gathered(q, i, n) BY <1>8, <1>10
  <2> QED BY <1>5, <1>7, <2>1, <2>2, PileAppended
<1>12. append(q, f.body) = append(q, b) /\ n + b.len = f.body.from + f.body.len
  BY <1>9, <1>10
<1>13. append(q, b) # Nil BY <1>11, ConstAssumption
<1>14. EndsAt(f, q.size) BY <1>3, <1>8
<1>15. \A l \in 1..Len(reply_low') : reply_low'[l].session = f.session => EndsAt(reply_low'[l], q.size)
  <2>1. \A k \in 1..Len(reply_low') : reply_low'[k] = reply_low[k + 1] /\ k + 1 \in 1..Len(reply_low)
    BY <1>t, Taken
  <2> QED BY <1>8, <2>1
<1> QED BY <1>1, <1>2, <1>5, <1>6, <1>8, <1>11, <1>12, <1>13, <1>14, <1>15

\* A piece comes that is not the last.
LEMMA ResponsePart ==
    ASSUME IndInv, NEW f, Response(f), Takes(reply_low, reply_low', f), reply_high' = reply_high,
           f.type = "part"
    PROVE  IndInv'
<1>t. reply_low \in Seq(Frame) BY DEF IndInv, Types
<1>0. Piece(f) /\ ~Opens(f) /\ f.type # "end" BY DEF Opens, Piece
<1>1. PICK s : s = f.session OBVIOUS
<1>2. PICK i : i = OpAt(reply_low, 1) OBVIOUS
<1>3. PICK q : q = result_data[i] OBVIOUS
<1>4. PICK p : p = append(q, f.body) OBVIOUS
<1>5. /\ s \in Session /\ s # 0 /\ i \in Op /\ i # Nil /\ thread[s] = i
      /\ \A j \in Op : result_data[j] # Nil <=> Piece(f) /\ j = i
  BY <1>1, <1>2, LargeReplyFirst
<1>6. /\ q # Nil /\ q.size \in ReplySize
      /\ p \in PileSet /\ p # Nil /\ p.size = q.size
      /\ Gathered(p, i, f.body.from + f.body.len)
      /\ \A l \in 1..Len(reply_low') : reply_low'[l].session = s => EndsAt(reply_low'[l], q.size)
  BY <1>0, <1>1, <1>2, <1>3, <1>4, ReplyPieceComes
<1>7. /\ reply_low' # <<>> /\ Piece(reply_low'[1]) /\ reply_low'[1].session = s
      /\ reply_low'[1].body.from = f.body.from + f.body.len /\ reply_low'[1].body.op = i
  BY <1>t, <1>0, <1>1, <1>2, ReplyLowTaken DEF IndInv
<1>8. PICK u : u = unpackresponse(f) OBVIOUS
<1>9. u.session = s /\ u.padding /\ u.msg = f.body BY <1>1, <1>8 DEF unpackresponse
<1>10. /\ result_data' = [result_data EXCEPT ![i] = p]
       /\ UNCHANGED <<sending, high, low, large_request, taken, serving, answer>>
  BY <1>3, <1>4, <1>5, <1>6, <1>8, <1>9 DEF Response, sending
<1>11. result_data' \in [Op -> PileSet \cup {Nil}] BY <1>6, <1>10 DEF IndInv, Types
<1>12. \A j \in Op : result_data'[j] = IF j = i THEN p ELSE Nil
  <2>1. \A j \in Op : j # i => result_data[j] = Nil BY <1>5
  <2> QED BY <1>5, <1>10, <2>1 DEF IndInv, Types
<1>13. Gathering'
  <2>1. ASSUME NEW j \in Op
        PROVE  /\ result_data'[j] # Nil <=>
                    reply_low' # <<>> /\ Piece(reply_low'[1]) /\ reply_low'[1].body.op = j
               /\ result_data'[j] # Nil =>
                   /\ Gathered(result_data'[j], j, reply_low'[1].body.from)
                   /\ result_data'[j].size \in ReplySize
                   /\ \A l \in 1..Len(reply_low') : reply_low'[l].session = reply_low'[1].session
                         => EndsAt(reply_low'[l], result_data'[j].size)
    <3>1. CASE j = i
      <4>1. result_data'[j] = p BY <1>12, <3>1
      <4> QED BY <1>6, <1>7, <3>1, <4>1
    <3>2. CASE j # i
      <4>1. result_data'[j] = Nil BY <1>12, <3>2
      <4> QED BY <1>7, <3>2, <4>1
    <3> QED BY <3>1, <3>2
  <2> QED BY <2>1 DEF Gathering
<1> QED BY <1>0, <1>10, <1>11, <1>13, ResponseOn

\* The last piece comes: the response is put together and the caller gets it.
LEMMA ResponseEnd ==
    ASSUME IndInv, NEW f, Response(f), Takes(reply_low, reply_low', f), reply_high' = reply_high,
           f.type = "end"
    PROVE  IndInv'
<1>t. reply_high \in Seq(Frame) /\ reply_low \in Seq(Frame) BY DEF IndInv, Types
<1>0. Piece(f) /\ ~Opens(f) BY DEF Opens, Piece
<1>1. PICK s : s = f.session OBVIOUS
<1>2. PICK i : i = OpAt(reply_low, 1) OBVIOUS
<1>3. PICK q : q = result_data[i] OBVIOUS
<1>4. PICK p : p = append(q, f.body) OBVIOUS
<1>5. /\ reply_low' \in Seq(Frame) /\ reply_high' \in Seq(Frame)
      /\ ReplyLowOK(reply_low', thread) /\ f = reply_low[1] /\ 1 \in 1..Len(reply_low)
      /\ s \in Session /\ s # 0 /\ i \in Op /\ i # Nil /\ thread[s] = i
      /\ \A j \in Op : result_data[j] # Nil <=> Piece(f) /\ j = i
      /\ \A t : /\ Away(reply_high, t) => Away(reply_high', t)
                /\ Away(reply_low, t) => Away(reply_low', t)
  BY <1>1, <1>2, LargeReplyFirst
<1>6. /\ q # Nil /\ q.size \in ReplySize
      /\ p \in PileSet /\ p.size = q.size /\ p.length = f.body.from + f.body.len
      /\ WholeMessage(p.bodies, i, f.body.from + f.body.len)
      /\ EndsAt(f, q.size)
  BY <1>0, <1>2, <1>3, <1>4, ReplyPieceComes
<1>7. Away(reply_low', s) /\ (reply_low' # <<>> => Opens(reply_low'[1]))
  BY <1>t, <1>1, ReplyLowTaken DEF IndInv
<1>8. PICK sz \in ReplySize : sz = q.size BY <1>6
<1>9. f.body.from + f.body.len = sz BY <1>6, <1>8 DEF EndsAt
<1>10. CanConcat(p) BY <1>6, <1>8, <1>9 DEF CanConcat
<1>11. PICK u : u = unpackresponse(f) OBVIOUS
<1>12. u.session = s /\ ~u.padding /\ u.msg = f.body /\ u.ok = TRUE
  BY <1>1, <1>11 DEF unpackresponse
<1>13. PICK bodies \in Seq(BodySet) : bodies = p.bodies BY <1>6 DEF PileSet
<1>14. PICK a : a = [ok |-> TRUE, bodies |-> bodies] OBVIOUS
<1>15. a = Result(result_data[i], u)
  BY <1>3, <1>4, <1>6, <1>10, <1>12, <1>13, <1>14 DEF Result
<1>16. /\ thread' = [thread EXCEPT ![s] = Nil]
       /\ result_data' = [result_data EXCEPT ![i] = Nil]
       /\ answer' = [answer EXCEPT ![i] = a]
       /\ UNCHANGED <<session, ops, high, low, large_request, taken, serving>>
  BY <1>5, <1>11, <1>12, <1>15 DEF Response
<1>17. a \in ResultSet /\ a.ok = TRUE /\ a.bodies = bodies BY <1>14 DEF ResultSet
<1>18. \E n \in ReplySize : WholeMessage(a.bodies, i, ResponseLength(a.ok, n))
  <2>1. ResponseLength(a.ok, sz) = sz BY <1>17 DEF ResponseLength
  <2> QED BY <1>6, <1>9, <1>13, <1>17, <2>1
<1>19. ~Away(reply_low, s) BY <1>1, <1>5 DEF Away
<1>20. Away(reply_high, s) BY <1>5, <1>19 DEF IndInv, Apart
<1>21. /\ Types' /\ Threads' /\ HighOK(high', ops', thread') /\ LowOK(low', ops', thread')
       /\ ReplyHighOK(reply_high', thread') /\ ReplyLowOK(reply_low', thread')
       /\ Assembling' /\ TakenBefore' /\ Served' /\ Apart' /\ Fresh'
       /\ Intact' /\ TakenInOrder' /\ ReplyMatches' /\ CallInFlight'
  <2>1. Away(reply_high', s) BY <1>20
  <2>2. ReplyHighOK(reply_high', thread) BY DEF IndInv
  <2>3. \A t \in Session : t # s => /\ Final(reply_high', t) = Final(reply_high, t)
                                    /\ Final(reply_low', t) = Final(reply_low, t)
    BY <1>t, <1>1, FinalTaken
  <2>4. ~(Away(reply_high, s) /\ Away(reply_low, s)) BY <1>19
  <2>5. \A t : (Away(reply_high, t) => Away(reply_high', t)) /\ (Away(reply_low, t) => Away(reply_low', t))
    BY <1>5
  <2> QED BY <1>5, <1>7, <1>16, <1>17, <1>18, <2>1, <2>2, <2>3, <2>4, <2>5, Answered
<1>22. Gathering'
  <2>1. \A j \in Op : result_data'[j] = Nil
    <3>1. \A j \in Op : j # i => result_data[j] = Nil BY <1>5
    <3> QED BY <1>5, <1>16, <3>1 DEF IndInv, Types
  <2>2. reply_low' # <<>> => ~Piece(reply_low'[1]) BY <1>7 DEF Opens, Piece
  <2> QED BY <2>1, <2>2 DEF Gathering
<1> QED BY <1>21, <1>22 DEF IndInv

\* The channel, whatever frame it gets.
LEMMA ResponseKeeps ==
    ASSUME IndInv, NEW f, Response(f)
    PROVE  IndInv'
<1>1. \/ Takes(reply_high, reply_high', f) /\ reply_low' = reply_low
      \/ Takes(reply_low, reply_low', f) /\ reply_high' = reply_high
  BY DEF Response, ReplyArrives, Takes
<1>2. CASE Takes(reply_high, reply_high', f) /\ reply_low' = reply_low
  <2>1. CASE f.session = 0 \/ thread[f.session] = Nil BY <1>2, <2>1, ResponseLogged
  <2>2. CASE f.session # 0 /\ thread[f.session] # Nil BY <1>2, <2>2, ResponseSmall
  <2> QED BY <2>1, <2>2
<1>3. CASE Takes(reply_low, reply_low', f) /\ reply_high' = reply_high
  <2>1. f.type \in {"begin", "part", "end"} BY <1>3, LargeReplyFirst
  <2>2. CASE f.type = "begin" BY <1>3, <2>2, ResponseOpens
  <2>3. CASE f.type = "part" BY <1>3, <2>3, ResponsePart
  <2>4. CASE f.type = "end" BY <1>3, <2>4, ResponseEnd
  <2> QED BY <2>1, <2>2, <2>3, <2>4
<1> QED BY <1>1, <1>2, <1>3

-----------------------------------------------------------------------------
(***************************************************************************)
(* The coroutines of the agent                                             *)
(***************************************************************************)

\* A message that has been taken is one of the operations made.
LEMMA TakenMade ==
    ASSUME IndInv
    PROVE  /\ Len(taken) \in Nat
           /\ \A j \in 1..Len(taken) : TakenOp(j) \in 1..Len(ops)
           /\ TakenOps \subseteq 1..Len(ops)
<1>1. Len(taken) \in Nat BY DEF IndInv, Types
<1>2. \A j \in 1..Len(taken) : TakenOp(j) \in 1..Len(ops) BY DEF IndInv, TakenBefore, TakenOp
<1> QED BY <1>1, <1>2 DEF TakenOps

\* None is taken twice.
LEMMA TakenOnce ==
    ASSUME IndInv, NEW j \in 1..Len(taken), NEW k \in 1..Len(taken), j < k
    PROVE  TakenOp(j) # TakenOp(k)
<1>1. TakenOp(j) \in Nat /\ TakenOp(k) \in Nat BY TakenMade
<1>2. IsLargeRequest(ops[TakenOp(j)].size) = IsLargeRequest(ops[TakenOp(k)].size)
      => TakenOp(j) < TakenOp(k)
  BY DEF IndInv, TakenInOrder, TakenOp
<1> QED BY <1>1, <1>2

\* Messages come and go on the connection: no coroutine moves.
LEMMA NamesRest ==
    ASSUME IndInv, NameInv, taken' = taken, UNCHANGED lookup,
           \A i \in 1..Len(ops) : ops'[i] = ops[i]
    PROVE  NameInv'
<1>1. at' = at /\ asked' = asked /\ cached' = cached /\ handed' = handed BY DEF lookup
<1>2. \A j : TakenOp(j)' = TakenOp(j) BY DEF TakenOp
<1>3. TakenOps' = TakenOps BY DEF TakenOps, TakenOp
<1>4. \A i \in TakenOps : ops'[i] = ops[i] BY TakenMade
<1>5. Stages' BY <1>1 DEF NameInv, Stages
<1>6. Places' /\ CallsOnly'
  <2>1. ASSUME NEW i \in Op, at[i] # "none" \/ asked[i] # Nil PROVE i \in TakenOps
    BY <2>1 DEF NameInv, Places
  <2>2. ASSUME NEW i \in Op, asked[i] # Nil PROVE asked[i] \in TakenOps
    BY <2>2 DEF NameInv, Places
  <2>3. CallsOnly' BY <1>1, <1>4, <2>1 DEF NameInv, CallsOnly
  <2> QED BY <1>1, <1>2, <1>3, <1>4, <2>1, <2>2, <2>3 DEF NameInv, Places
<1>7. Askers'
  <2>1. ASSUME NEW i \in Op, at[i] = "ask" PROVE ops'[i] = ops[i]
    BY <1>4, <2>1 DEF NameInv, Places
  <2> QED BY <1>1, <2>1 DEF NameInv, Askers
<1>8. Joined'
  <2>1. \A j \in 1..Len(taken) : ops'[TakenOp(j)] = ops[TakenOp(j)] BY TakenMade
  <2>2. \A j \in 1..Len(taken) : \A k \in (j + 1)..Len(taken) : k \in 1..Len(taken)
    BY TakenMade
  <2> QED BY <1>1, <1>2, <2>1, <2>2 DEF NameInv, Joined
<1>9. Handed' BY <1>1, <1>3 DEF NameInv, Handed
<1>10. LaneOrder'
  <2>1. \A k \in 1..Len(handed) : ops'[handed[k]] = ops[handed[k]]
    BY <1>4 DEF NameInv, Handed
  <2>2. \A k \in 1..Len(handed) : \A j \in 1..(k - 1) : j \in 1..Len(handed)
    BY DEF NameInv, Stages
  <2> QED BY <1>1, <2>1, <2>2 DEF NameInv, LaneOrder
<1> QED BY <1>5, <1>6, <1>7, <1>8, <1>9, <1>10 DEF NameInv

\* No message is taken and no question asked; some coroutines go on.
LEMMA NamesMove ==
    ASSUME IndInv, NameInv, taken' = taken, ops' = ops, asked' = asked,
           cached' \subseteq Name, at' \in [Op -> Stage], handed' \in Seq(Op),
           Places', CallsOnly', Askers', Handed', LaneOrder',
           \A i \in Op : at'[i] \in Looking => at[i] \in Looking
    PROVE  NameInv'
<1>1. \A j : TakenOp(j)' = TakenOp(j) BY DEF TakenOp
<1>2. Stages' BY DEF NameInv, Stages
<1>3. Joined'
  <2>1. \A j \in 1..Len(taken) : TakenOp(j) \in Op
    <3>1. ops \in Seq(OpSet) /\ Len(ops) <= MaxOps BY DEF IndInv, Types
    <3> QED BY <3>1, TakenMade, ConstAssumption DEF Op
  <2> QED BY <1>1, <2>1 DEF NameInv, Joined
<1> QED BY <1>2, <1>3 DEF NameInv

\* Nothing is handed over.
LEMMA NamesHeld ==
    ASSUME IndInv, NameInv, taken' = taken, ops' = ops, asked' = asked, handed' = handed,
           \A i \in Op : at'[i] \in Looking => at[i] \in Looking
    PROVE  Handed' /\ LaneOrder'
<1>1. TakenOps' = TakenOps BY DEF TakenOps, TakenOp
<1>2. \A k \in 1..Len(handed) : handed[k] \in Op BY DEF NameInv, Stages
<1>3. Handed' BY <1>1, <1>2 DEF NameInv, Handed
<1>4. LaneOrder' BY DEF NameInv, LaneOrder
<1> QED BY <1>3, <1>4

\* clusterd has answered.
LEMMA NamesAnswered ==
    ASSUME IndInv, NameInv, NEW i \in Op, NEW found \in BOOLEAN, NameAnswered(i, found)
    PROVE  NameInv'
<1>1. /\ taken' = taken /\ ops' = ops /\ asked' = asked /\ handed' = handed
      /\ Ahead = {} /\ at[i] = "ask"
      /\ cached' = cached \/ cached' = cached \cup {ops[i].name}
  BY DEF NameAnswered, sending
<1>2. at' = [j \in Op |-> IF j = i THEN IF found THEN "found" ELSE "unknown"
                          ELSE IF at[j] = "wait" /\ asked[j] = i THEN "woken" ELSE at[j]]
  BY DEF NameAnswered
<1>3. /\ at'[i] \in {"found", "unknown"}
      /\ \A j \in Op : j # i => at'[j] = IF at[j] = "wait" /\ asked[j] = i THEN "woken" ELSE at[j]
  BY <1>2
<1>4. \A j \in Op : at[j] \notin {"woken", "found", "unknown"} BY <1>1 DEF Ahead
<1>5. /\ i \in TakenOps /\ asked[i] = i /\ i # Nil /\ ops[i].name \in Name
  <2>1. asked[i] = i BY <1>1 DEF NameInv, Places
  <2>2. i # Nil BY ConstAssumption DEF Op
  <2>3. i \in TakenOps /\ ops[i].name # Nil BY <2>1, <2>2 DEF NameInv, Places
  <2>4. ops[i] \in OpSet BY <2>3, TakenMade DEF IndInv, Types
  <2> QED BY <2>1, <2>2, <2>3, <2>4 DEF OpSet
<1>6. at' \in [Op -> Stage]
  <2>1. at \in [Op -> Stage] BY DEF NameInv, Stages
  <2> QED BY <1>2, <2>1 DEF Stage
<1>7. cached' \subseteq Name BY <1>1, <1>5 DEF NameInv, Stages
<1>8. TakenOps' = TakenOps /\ \A j : TakenOp(j)' = TakenOp(j) BY <1>1 DEF TakenOps, TakenOp
<1>9. Places'
  <2> SUFFICES ASSUME NEW j \in Op
               PROVE  /\ at'[j] # "none" => j \in TakenOps
                      /\ asked[j] # Nil => j \in TakenOps /\ asked[j] \in TakenOps /\ ops[j].name # Nil
                      /\ at'[j] = "found" /\ asked[j] = Nil => j = TakenOp(Len(taken))
                      /\ at'[j] = "ask" => asked[j] = j /\ ops[j].name \notin cached'
                      /\ at'[j] = "wait" => /\ asked[j] \notin {j, Nil}
                                            /\ at'[asked[j]] = "ask"
                                            /\ ops[asked[j]].name = ops[j].name
                      /\ at'[j] = "woken" => asked[j] \notin {j, Nil}
    BY <1>1, <1>8 DEF Places
  <2>1. CASE j = i BY <1>3, <1>5, <2>1 DEF NameInv, Places
  <2>2. CASE j # i
    <3>1. at'[j] # "none" => at[j] # "none" BY <1>3, <2>2
    <3>2. at'[j] # "found" BY <1>3, <1>4, <2>2
    <3>3. at'[j] = "ask" => at[j] = "ask" /\ ops[j].name # ops[i].name
      BY <1>1, <1>3, <2>2 DEF NameInv, Askers
    <3>4. at'[j] = "wait" => at[j] = "wait" /\ asked[j] # i BY <1>3, <2>2
    <3>5. at'[j] = "woken" => at[j] = "wait" BY <1>3, <1>4, <2>2
    <3>6. at'[j] = "wait" => at'[asked[j]] = "ask"
      <4> HAVE at'[j] = "wait"
      <4>1. at[asked[j]] = "ask" /\ asked[j] # Nil BY <3>4 DEF NameInv, Places
      <4>2. asked[j] \in Op BY <4>1 DEF NameInv, Stages
      <4> QED BY <1>3, <3>4, <4>1, <4>2
    <3> QED BY <1>1, <3>1, <3>2, <3>3, <3>4, <3>5, <3>6 DEF NameInv, Places
  <2> QED BY <2>1, <2>2
<1>10. CallsOnly' BY <1>1, <1>3 DEF NameInv, CallsOnly
<1>11. Askers'
  <2> SUFFICES ASSUME NEW j \in Op, NEW m \in Op, j # m
               PROVE  /\ at'[j] = "ask" /\ at'[m] = "ask" => ops[j].name # ops[m].name
                      /\ at'[j] = "ask" /\ asked[m] = j => at'[m] = "wait"
                      /\ at'[j] = "found" /\ asked[j] = j /\ asked[m] = j => at'[m] = "woken"
    BY <1>1 DEF Askers
  <2>1. at'[j] = "ask" => at[j] = "ask" BY <1>3
  <2>2. at'[m] = "ask" => at[m] = "ask" BY <1>3
  <2>3. at'[j] = "ask" /\ asked[m] = j => at'[m] = "wait"
    <3> HAVE at'[j] = "ask" /\ asked[m] = j
    <3>1. at[m] = "wait" BY <2>1 DEF NameInv, Askers
    <3>2. j # i /\ m # i BY <1>1, <1>3, <3>1
    <3> QED BY <1>3, <3>1, <3>2
  <2>4. at'[j] = "found" /\ asked[m] = j => at'[m] = "woken"
    <3> HAVE at'[j] = "found" /\ asked[m] = j
    <3>1. j = i BY <1>3, <1>4
    <3>2. at[m] = "wait" BY <1>1, <3>1 DEF NameInv, Askers
    <3> QED BY <1>3, <3>1, <3>2
  <2> QED BY <2>1, <2>2, <2>3, <2>4 DEF NameInv, Askers
<1>12. \A j \in Op : at'[j] \in Looking => at[j] \in Looking
  <2>1. \A j \in Op : j # i => at'[j] = at[j] \/ at[j] = "wait" BY <1>3
  <2>2. {"ask", "wait"} \subseteq Looking BY DEF Looking
  <2> QED BY <1>1, <2>1, <2>2
<1>13. Handed' /\ LaneOrder' BY <1>1, <1>12, NamesHeld
<1>14. handed' \in Seq(Op) BY <1>1 DEF NameInv, Stages
<1> QED BY <1>1, <1>6, <1>7, <1>9, <1>10, <1>11, <1>12, <1>13, <1>14, NamesMove

\* A woken coroutine goes on: none that asked is between.
LEMMA NamesResume ==
    ASSUME IndInv, NameInv, NEW i \in Op, Resume(i)
    PROVE  NameInv'
<1>1. /\ taken' = taken /\ ops' = ops /\ asked' = asked /\ handed' = handed /\ cached' = cached
      /\ Running = {} /\ at[i] = "woken"
  BY DEF Resume, sending
<1>2. PICK stage \in {"found", "unknown"} : at' = [at EXCEPT ![i] = stage] BY DEF Resume
<1>3. at \in [Op -> Stage] BY DEF NameInv, Stages
<1>4. at'[i] \in {"found", "unknown"} /\ \A j \in Op : j # i => at'[j] = at[j] BY <1>2, <1>3
<1>5. \A j \in Op : at[j] \notin {"found", "unknown"} BY <1>1 DEF Running
<1>6. at' \in [Op -> Stage] BY <1>2, <1>3 DEF Stage
<1>7. TakenOps' = TakenOps /\ \A j : TakenOp(j)' = TakenOp(j) BY <1>1 DEF TakenOps, TakenOp
<1>8. i \in TakenOps /\ asked[i] \notin {i, Nil} BY <1>1 DEF NameInv, Places
<1>9. Places'
  <2>1. \A j \in Op : at[j] = "wait" => at'[asked[j]] = "ask"
    <3> TAKE j \in Op
    <3> HAVE at[j] = "wait"
    <3>1. at[asked[j]] = "ask" /\ asked[j] # Nil BY DEF NameInv, Places
    <3>2. asked[j] \in Op BY <3>1 DEF NameInv, Stages
    <3> QED BY <1>1, <1>4, <3>1, <3>2
  <2> QED BY <1>1, <1>4, <1>7, <1>8, <2>1 DEF NameInv, Places
<1>10. CallsOnly' BY <1>1, <1>4 DEF NameInv, CallsOnly
<1>11. Askers'
  <2> SUFFICES ASSUME NEW j \in Op, NEW m \in Op, j # m
               PROVE  /\ at'[j] = "ask" /\ at'[m] = "ask" => ops[j].name # ops[m].name
                      /\ at'[j] = "ask" /\ asked[m] = j => at'[m] = "wait"
                      /\ at'[j] = "found" /\ asked[j] = j /\ asked[m] = j => at'[m] = "woken"
    BY <1>1 DEF Askers
  <2>1. at'[j] = "ask" /\ asked[m] = j => at'[m] = "wait"
    <3> HAVE at'[j] = "ask" /\ asked[m] = j
    <3>1. at[j] = "ask" BY <1>4
    <3>2. at[m] = "wait" BY <3>1 DEF NameInv, Askers
    <3> QED BY <1>1, <1>4, <3>2
  <2>2. at'[j] = "found" /\ asked[j] = j => FALSE BY <1>4, <1>5, <1>8
  <2> QED BY <1>4, <2>1, <2>2 DEF NameInv, Askers
<1>12. \A j \in Op : at'[j] \in Looking => at[j] \in Looking BY <1>1, <1>4 DEF Looking
<1>13. Handed' /\ LaneOrder' BY <1>1, <1>12, NamesHeld
<1>14. handed' \in Seq(Op) /\ cached' \subseteq Name BY <1>1 DEF NameInv, Stages
<1> QED BY <1>1, <1>6, <1>9, <1>10, <1>11, <1>12, <1>13, <1>14, NamesMove

\* A coroutine is done, or waits for its service.
LEMMA NamesDone ==
    ASSUME IndInv, NameInv, NEW i \in Op, taken' = taken, ops' = ops,
           asked' = asked, cached' = cached, handed' \in Seq(Op), Handed', LaneOrder',
           NEW stage \in {"none", "call"}, at' = [at EXCEPT ![i] = stage],
           at[i] \in {"found", "unknown", "call"},
           stage = "call" => ~ops[i].is_push
    PROVE  NameInv'
<1>1. at \in [Op -> Stage] BY DEF NameInv, Stages
<1>2. at'[i] = stage /\ \A j \in Op : j # i => at'[j] = at[j] BY <1>1
<1>3. at' \in [Op -> Stage] BY <1>1 DEF Stage
<1>4. TakenOps' = TakenOps /\ \A j : TakenOp(j)' = TakenOp(j) BY DEF TakenOps, TakenOp
<1>5. Places'
  <2>1. \A j \in Op : at[j] = "wait" => at'[asked[j]] = "ask"
    <3> TAKE j \in Op
    <3> HAVE at[j] = "wait"
    <3>1. at[asked[j]] = "ask" /\ asked[j] # Nil BY DEF NameInv, Places
    <3>2. asked[j] \in Op BY <3>1 DEF NameInv, Stages
    <3> QED BY <1>2, <3>1, <3>2
  <2> QED BY <1>2, <1>4, <2>1 DEF NameInv, Places
<1>6. CallsOnly' BY <1>2 DEF NameInv, CallsOnly
<1>7. Askers'
  <2> SUFFICES ASSUME NEW j \in Op, NEW m \in Op, j # m
               PROVE  /\ at'[j] = "ask" /\ at'[m] = "ask" => ops[j].name # ops[m].name
                      /\ at'[j] = "ask" /\ asked[m] = j => at'[m] = "wait"
                      /\ at'[j] = "found" /\ asked[j] = j /\ asked[m] = j => at'[m] = "woken"
    BY DEF Askers
  <2>1. at'[j] \in {"ask", "found"} => at[j] = at'[j] BY <1>2
  <2>2. at[m] \in {"wait", "woken"} => at'[m] = at[m] BY <1>2
  <2>3. at'[m] = "ask" => at[m] = "ask" BY <1>2
  <2> QED BY <2>1, <2>2, <2>3 DEF NameInv, Askers
<1>8. \A j \in Op : at'[j] \in Looking => at[j] \in Looking BY <1>2 DEF Looking
<1>9. cached' \subseteq Name BY DEF NameInv, Stages
<1> QED BY <1>3, <1>5, <1>6, <1>7, <1>8, <1>9, NamesMove

\* What is handed over: the message that came last, or one that waited for its name.
LEMMA NamesHanded ==
    ASSUME IndInv, NameInv, NEW r \in serving, HandOver(r)
    PROVE  NameInv'
<1> DEFINE i == r.op
<1>1. /\ taken' = taken /\ ops' = ops /\ asked' = asked /\ cached' = cached
      /\ handed' = Append(handed, i) /\ at[i] = "found"
  BY DEF HandOver, sending
<1>2. i \in Op BY DEF IndInv, Types
<1>3. i \in TakenOps BY <1>1, <1>2 DEF NameInv, Places
<1>4. /\ handed \in Seq(Op) /\ at \in [Op -> Stage] BY DEF NameInv, Stages
<1>5. PICK stage \in {"none", "call"} : /\ at' = [at EXCEPT ![i] = stage]
                                        /\ stage = "call" => ~ops[i].is_push
  BY DEF HandOver
<1>6. at'[i] = stage /\ \A j \in Op : j # i => at'[j] = at[j] BY <1>2, <1>4, <1>5
<1>7. /\ handed' \in Seq(Op) /\ Len(handed) \in Nat /\ Len(handed') = Len(handed) + 1
      /\ handed'[Len(handed) + 1] = i
      /\ \A k \in 1..Len(handed) : handed'[k] = handed[k] /\ handed[k] \in Op
  BY <1>1, <1>2, <1>4
<1>8. TakenOps' = TakenOps BY <1>1 DEF TakenOps, TakenOp
<1>9. Handed'
  <2> SUFFICES ASSUME NEW k \in 1..(Len(handed) + 1)
               PROVE  handed'[k] \in TakenOps /\ at'[handed'[k]] \notin Looking
    BY <1>7, <1>8 DEF Handed
  <2>1. stage \notin Looking BY DEF Looking
  <2>2. CASE k \in 1..Len(handed)
    <3>1. handed[k] \in TakenOps /\ at[handed[k]] \notin Looking BY <2>2 DEF NameInv, Handed
    <3> QED BY <1>6, <1>7, <2>1, <2>2, <3>1
  <2>3. CASE k = Len(handed) + 1 BY <1>3, <1>6, <1>7, <2>1, <2>3
  <2> QED BY <1>7, <2>2, <2>3
<1>10. ASSUME NEW j \in 1..Len(handed)
       PROVE  LET first == handed[j] IN
              /\ first # i
              /\ IsLargeRequest(ops[first].size) = IsLargeRequest(ops[i].size) /\ i < first =>
                    /\ asked[i] # Nil
                    /\ ops[i].name = ops[first].name => asked[first] = asked[i] /\ asked[i] # i
  <2> DEFINE first == handed[j]
  <2>1. first \in TakenOps /\ at[first] \notin Looking BY <1>10 DEF NameInv, Handed
  <2>2. first # i BY <1>1, <2>1 DEF Looking
  <2>3. ASSUME IsLargeRequest(ops[first].size) = IsLargeRequest(ops[i].size), i < first
        PROVE  /\ asked[i] # Nil
               /\ ops[i].name = ops[first].name => asked[first] = asked[i] /\ asked[i] # i
    <3>1. PICK m \in 1..Len(taken) : i = TakenOp(m) BY <1>3 DEF TakenOps
    <3>2. PICK n \in 1..Len(taken) : first = TakenOp(n) BY <2>1 DEF TakenOps
    <3>3. /\ Len(taken) \in Nat /\ i \in Nat /\ first \in Nat BY <3>1, <3>2, TakenMade
    <3>4. m < n
      <4>1. m # n BY <2>2, <3>1, <3>2
      <4>2. n < m => first < i BY <2>3, <3>1, <3>2 DEF IndInv, TakenInOrder, TakenOp
      <4> QED BY <2>3, <3>3, <4>1, <4>2
    <3>5. asked[i] # Nil
      <4>1. i # TakenOp(Len(taken))
        <5>1. CASE n = Len(taken) BY <2>2, <3>2, <5>1
        <5>2. CASE n # Len(taken)
          <6>1. Len(taken) \in 1..Len(taken) /\ m < Len(taken) BY <3>3, <3>4
          <6> QED BY <3>1, <6>1, TakenOnce
        <5> QED BY <5>1, <5>2
      <4> QED BY <1>1, <1>2, <4>1 DEF NameInv, Places
    <3>6. ASSUME ops[i].name = ops[first].name PROVE asked[first] = asked[i]
      <4>1. n \in (m + 1)..Len(taken) BY <3>3, <3>4
      <4>2. at[i] \in Looking BY <1>1 DEF Looking
      <4> QED BY <3>1, <3>2, <3>5, <3>6, <4>1, <4>2 DEF NameInv, Joined
    <3>7. asked[first] = asked[i] => asked[i] # i
      <4> SUFFICES ASSUME asked[first] = i, asked[i] = i PROVE FALSE OBVIOUS
      <4>1. first \in Op BY <1>7, <1>10
      <4>2. at[first] = "woken" BY <1>1, <1>2, <2>2, <4>1 DEF NameInv, Askers
      <4> QED BY <2>1, <4>2 DEF Looking
    <3> QED BY <3>5, <3>6, <3>7
  <2> QED BY <2>2, <2>3
<1>11. LaneOrder'
  <2> SUFFICES ASSUME NEW k \in 1..(Len(handed) + 1), NEW j \in 1..(k - 1)
               PROVE  LET first == handed'[j]
                          then == handed'[k]
                      IN
                      /\ first # then
                      /\ IsLargeRequest(ops[first].size) = IsLargeRequest(ops[then].size)
                            /\ then < first =>
                            /\ asked[then] # Nil
                            /\ ops[then].name = ops[first].name =>
                                  asked[first] = asked[then] /\ asked[then] # then
    BY <1>1, <1>7 DEF LaneOrder
  <2>1. j \in 1..Len(handed) /\ handed'[j] = handed[j] BY <1>7
  <2>2. CASE k \in 1..Len(handed) BY <1>7, <2>1, <2>2 DEF NameInv, LaneOrder
  <2>3. CASE k = Len(handed) + 1 BY <1>7, <1>10, <2>1, <2>3
  <2> QED BY <1>7, <2>2, <2>3
<1> QED BY <1>1, <1>2, <1>5, <1>7, <1>9, <1>11, NamesDone

\* A message has come whole: its coroutine has the address, asks for it, or joins the
\* one that asks.
LEMMA NamesAccepted ==
    ASSUME IndInv, IndInv', NameInv, ops' = ops, Ahead = {},
           NEW s, NEW bodies, NEW is_push, Accept(s, bodies, is_push)
    PROVE  NameInv'
<1> DEFINE i == bodies[1].op
           n == ops[i].name
<1>1. /\ taken' = Append(taken, [bodies |-> bodies, is_push |-> is_push])
      /\ LookUp(i) /\ cached' = cached /\ handed' = handed
  BY DEF Accept
<1>2. /\ taken \in Seq([bodies : Seq(BodySet), is_push : BOOLEAN])
      /\ taken' \in Seq([bodies : Seq(BodySet), is_push : BOOLEAN])
      /\ ops \in Seq(OpSet) /\ Len(ops) <= MaxOps
  BY DEF IndInv, Types
<1>3. Len(taken) \in Nat BY TakenMade
<1>5. PICK N \in Nat : N = Len(taken) + 1 BY <1>3
<1>4. /\ Len(taken') = Len(taken) + 1
      /\ \A j \in 1..Len(taken) : taken'[j] = taken[j]
      /\ taken'[Len(taken) + 1] = [bodies |-> bodies, is_push |-> is_push]
  <2> DEFINE d == [bodies |-> bodies, is_push |-> is_push]
             S == [bodies : Seq(BodySet), is_push : BOOLEAN] \cup {d}
  <2>1. taken \in Seq(S) /\ d \in S
    <3>1. \A k \in 1..Len(taken) : taken[k] \in S BY <1>2, ElementOfSeq
    <3>2. taken = [k \in 1..Len(taken) |-> taken[k]] BY <1>2
    <3> QED BY <1>3, <3>1, <3>2, SeqDef
  <2> HIDE DEF d, S
  <2>2. taken' = Append(taken, d) BY <1>1 DEF d
  <2>3. taken'[Len(taken) + 1] = d /\ Len(taken') = Len(taken) + 1
        /\ \A j \in 1..Len(taken) : taken'[j] = taken[j]
    BY <2>1, <2>2, AppendProperties
  <2> QED BY <2>3 DEF d
<1>6. /\ \A j \in 1..Len(taken) : TakenOp(j)' = TakenOp(j)
      /\ TakenOp(N)' = i
  BY <1>4, <1>5 DEF TakenOp
<1>7. i \in 1..Len(ops) /\ i \in Op
  <2>1. N \in 1..Len(taken') BY <1>3, <1>4, <1>5
  <2>2. TakenOp(N)' \in 1..Len(ops') BY <2>1 DEF IndInv, TakenBefore, TakenOp
  <2> QED BY <1>2, <1>6, <2>2, ConstAssumption DEF Op
<1>8. \A j \in 1..Len(taken) : TakenOp(j) # i
  <2> TAKE j \in 1..Len(taken)
  <2>1. TakenOp(j) \in Nat /\ i \in Nat BY <1>7, TakenMade
  <2>2. j \in 1..Len(taken') /\ N \in 1..Len(taken') /\ j < N BY <1>3, <1>4, <1>5
  <2>3. IsLargeRequest(ops[TakenOp(j)].size) = IsLargeRequest(ops[i].size) => TakenOp(j) < i
    <3>1. TakenOp(j)' = TakenOp(j) /\ TakenOp(N)' = i BY <1>6
    <3> QED BY <2>2, <3>1 DEF IndInv, TakenInOrder, TakenOp
  <2> QED BY <2>1, <2>3
<1>9. i \notin TakenOps BY <1>8 DEF TakenOps
<1>10. TakenOps' = TakenOps \cup {i}
  <2>1. \A j : j \in 1..Len(taken') <=> j \in 1..Len(taken) \/ j = N BY <1>3, <1>4, <1>5
  <2>2. TakenOps' = {TakenOp(j)' : j \in 1..Len(taken')} BY DEF TakenOps
  <2> QED BY <1>6, <2>1, <2>2 DEF TakenOps
<1>11. /\ at \in [Op -> Stage] /\ asked \in [Op -> Op \cup {Nil}]
       /\ cached \subseteq Name /\ handed \in Seq(Op)
  BY DEF NameInv, Stages
<1>12. at[i] = "none" /\ asked[i] = Nil BY <1>7, <1>9 DEF NameInv, Places
<1>13. \A j \in Op : asked[j] # i BY <1>7, <1>9, ConstAssumption DEF NameInv, Places, Op
<1>14. \A j \in Op : at[j] \notin {"woken", "found", "unknown"}
  BY DEF Ahead
<1>15. i # Nil /\ \A j \in Op : j # Nil BY <1>7, ConstAssumption DEF Op
<1>16. \/ at'[i] = "found" /\ asked'[i] = Nil /\ (n = Nil \/ n \in cached)
       \/ at'[i] = "ask" /\ asked'[i] = i /\ n # Nil /\ n \notin cached /\ Asking(n) = {}
       \/ at'[i] = "wait" /\ n # Nil /\ asked'[i] \in Asking(n)
  BY <1>1, <1>7, <1>11, <1>12 DEF LookUp
<1>17. \A j \in Op : j # i => at'[j] = at[j] /\ asked'[j] = asked[j]
  BY <1>1, <1>7, <1>11 DEF LookUp
<1>18. at' \in [Op -> Stage] /\ asked' \in [Op -> Op \cup {Nil}]
  <2>1. at' \in [Op -> Stage] BY <1>1, <1>11 DEF LookUp, Stage
  <2>2. asked' \in [Op -> Op \cup {Nil}] BY <1>1, <1>7, <1>11 DEF LookUp, Asking
  <2> QED BY <2>1, <2>2
<1>19. \A a \in Asking(n) : a \in Op /\ a # i /\ at[a] = "ask" /\ ops[a].name = n /\ a \in TakenOps
  BY <1>12 DEF Asking, NameInv, Places
<1>20. Stages' BY <1>1, <1>11, <1>18 DEF Stages
<1>21. Places'
  <2> SUFFICES ASSUME NEW j \in Op
               PROVE  /\ at'[j] # "none" => j \in TakenOps'
                      /\ asked'[j] # Nil => j \in TakenOps' /\ asked'[j] \in TakenOps' /\ ops[j].name # Nil
                      /\ at'[j] = "found" /\ asked'[j] = Nil => j = TakenOp(Len(taken))'
                      /\ at'[j] = "ask" => asked'[j] = j /\ ops[j].name \notin cached
                      /\ at'[j] = "wait" => /\ asked'[j] \notin {j, Nil}
                                            /\ at'[asked'[j]] = "ask"
                                            /\ ops[asked'[j]].name = ops[j].name
                      /\ at'[j] = "woken" => asked'[j] \notin {j, Nil}
    BY <1>1 DEF Places
  <2>0. TakenOp(Len(taken))' = i
    <3>1. Len(taken') = N BY <1>4, <1>5
    <3> QED BY <1>4, <1>5, <3>1 DEF TakenOp
  <2>1. CASE j = i
    <3>1. at'[i] = "wait" => /\ asked'[i] \in Op /\ asked'[i] # i /\ asked'[i] \in TakenOps
                             /\ at'[asked'[i]] = "ask" /\ ops[asked'[i]].name = n
      BY <1>16, <1>17, <1>19
    <3> QED BY <1>10, <1>15, <1>16, <2>0, <2>1, <3>1
  <2>2. CASE j # i
    <3>1. at'[j] = at[j] /\ asked'[j] = asked[j] BY <1>17, <2>2
    <3>2. at[j] = "wait" => at'[asked[j]] = "ask"
      <4> HAVE at[j] = "wait"
      <4>1. at[asked[j]] = "ask" /\ asked[j] # Nil BY DEF NameInv, Places
      <4>2. asked[j] \in Op BY <1>11, <4>1
      <4> QED BY <1>12, <1>17, <4>1, <4>2
    <3>3. at[j] # "found" BY <1>14
    <3> QED BY <1>10, <3>1, <3>2, <3>3 DEF NameInv, Places
  <2> QED BY <2>1, <2>2
<1>22. CallsOnly' BY <1>16, <1>17 DEF NameInv, CallsOnly
<1>23. Askers'
  <2> SUFFICES ASSUME NEW j \in Op, NEW m \in Op, j # m
               PROVE  /\ at'[j] = "ask" /\ at'[m] = "ask" => ops[j].name # ops[m].name
                      /\ at'[j] = "ask" /\ asked'[m] = j => at'[m] = "wait"
                      /\ at'[j] = "found" /\ asked'[j] = j /\ asked'[m] = j => at'[m] = "woken"
    BY DEF Askers
  <2>1. at'[j] = "found" /\ asked'[j] = j => FALSE
    <3>1. j # i => at[j] # "found" BY <1>14
    <3> QED BY <1>15, <1>16, <1>17, <3>1
  <2>2. CASE j = i
    <3>1. asked'[m] # i BY <1>13, <1>17, <2>2
    <3>2. at'[i] = "ask" /\ at'[m] = "ask" => ops[m].name # n
      <4> SUFFICES ASSUME at'[i] = "ask", at'[m] = "ask", ops[m].name = n PROVE FALSE OBVIOUS
      <4>1. Asking(n) = {} BY <1>16
      <4>2. at[m] = "ask" BY <1>17, <2>2
      <4> QED BY <4>1, <4>2 DEF Asking
    <3> QED BY <2>1, <2>2, <3>1, <3>2
  <2>3. CASE m = i
    <3>1. at'[j] = at[j] BY <1>17, <2>3
    <3>2. at'[j] = "ask" /\ at'[i] = "ask" => ops[j].name # n
      <4> SUFFICES ASSUME at[j] = "ask", at'[i] = "ask", ops[j].name = n PROVE FALSE BY <3>1
      <4>1. Asking(n) = {} BY <1>16
      <4> QED BY <4>1 DEF Asking
    <3>3. asked'[i] = j => at'[i] = "wait" BY <1>15, <1>16, <2>3
    <3> QED BY <2>1, <2>3, <3>2, <3>3
  <2>4. CASE j # i /\ m # i
    <3>1. at'[j] = at[j] /\ at'[m] = at[m] /\ asked'[m] = asked[m] BY <1>17, <2>4
    <3> QED BY <2>1, <3>1 DEF NameInv, Askers
  <2> QED BY <2>2, <2>3, <2>4
<1>24. Joined'
  <2> SUFFICES ASSUME NEW j \in 1..Len(taken'), NEW k \in (j + 1)..Len(taken'),
                      at'[TakenOp(j)'] \in Looking, asked'[TakenOp(j)'] # Nil,
                      ops[TakenOp(k)'].name = ops[TakenOp(j)'].name
               PROVE  asked'[TakenOp(k)'] = asked'[TakenOp(j)']
    BY DEF Joined
  <2> DEFINE o == TakenOp(j)
  <2>1. j \in 1..Len(taken) /\ TakenOp(j)' = o BY <1>3, <1>4, <1>6
  <2>2. o \in Op /\ o # i
    <3>1. o \in 1..Len(ops) BY <2>1, TakenMade
    <3>2. Len(ops) \in Nat BY <1>2
    <3>3. o \in Op BY <1>2, <3>1, <3>2, ConstAssumption DEF Op
    <3> QED BY <1>8, <2>1, <3>3
  <2>3. at[o] \in Looking /\ asked[o] # Nil BY <1>17, <2>1, <2>2
  <2>4. CASE k \in 1..Len(taken)
    <3>1. k \in (j + 1)..Len(taken) BY <1>3, <2>1, <2>4
    <3>2. TakenOp(k)' = TakenOp(k) /\ TakenOp(k) # i BY <1>6, <1>8, <2>4
    <3>3. TakenOp(k) \in Op
      <4>1. TakenOp(k) \in 1..Len(ops) BY <2>4, TakenMade
      <4> QED BY <1>2, <4>1, ConstAssumption DEF Op
    <3>4. asked[TakenOp(k)] = asked[o] BY <2>1, <2>3, <3>1, <3>2 DEF NameInv, Joined
    <3> QED BY <1>17, <2>1, <2>2, <3>2, <3>3, <3>4
  <2>5. CASE k = N
    <3>1. ops[o].name = n BY <1>6, <2>1, <2>5
    <3>2. at[o] \in {"ask", "wait"} BY <1>14, <2>2, <2>3 DEF Looking
    <3>3. asked[o] \in Op /\ at[asked[o]] = "ask" /\ ops[asked[o]].name = n
      <4>1. CASE at[o] = "ask" BY <2>2, <3>1, <4>1 DEF NameInv, Places
      <4>2. CASE at[o] = "wait" BY <1>11, <2>2, <2>3, <3>1, <4>2 DEF NameInv, Places
      <4> QED BY <3>2, <4>1, <4>2
    <3>4. asked[o] \in Asking(n) /\ n \notin cached BY <3>3 DEF Asking, NameInv, Places
    <3>5. n # Nil
      <4>1. ops[o].name # Nil BY <2>2, <2>3 DEF NameInv, Places
      <4> QED BY <3>1, <4>1
    <3>6. asked'[i] \in Asking(n) BY <1>16, <3>4, <3>5
    <3>7. asked'[i] = asked[o]
      <4>1. /\ asked'[i] \in Op /\ at[asked'[i]] = "ask" /\ ops[asked'[i]].name = n
        BY <3>6 DEF Asking
      <4> QED BY <3>3, <4>1 DEF NameInv, Askers
    <3>8. TakenOp(k)' = i BY <1>6, <2>5
    <3>9. asked'[o] = asked[o] BY <1>17, <2>2
    <3> QED BY <2>1, <3>7, <3>8, <3>9
  <2> QED BY <1>3, <1>4, <1>5, <2>1, <2>4, <2>5
<1>25. Handed'
  <2> SUFFICES ASSUME NEW k \in 1..Len(handed)
               PROVE  handed[k] \in TakenOps' /\ at'[handed[k]] \notin Looking
    BY <1>1 DEF Handed
  <2>1. handed[k] \in TakenOps /\ at[handed[k]] \notin Looking BY DEF NameInv, Handed
  <2>2. handed[k] \in Op BY <1>11
  <2> QED BY <1>9, <1>10, <1>17, <2>1, <2>2
<1>26. LaneOrder'
  <2>1. \A k \in 1..Len(handed) : asked'[handed[k]] = asked[handed[k]]
    <3> TAKE k \in 1..Len(handed)
    <3>1. handed[k] \in TakenOps BY DEF NameInv, Handed
    <3>2. handed[k] \in Op BY <1>11
    <3> QED BY <1>9, <1>17, <3>1, <3>2
  <2>2. \A k \in 1..Len(handed) : \A j \in 1..(k - 1) : j \in 1..Len(handed) BY <1>11
  <2> QED BY <1>1, <2>1, <2>2 DEF NameInv, LaneOrder
<1> QED BY <1>20, <1>21, <1>22, <1>23, <1>24, <1>25, <1>26 DEF NameInv

LEMMA OpsGrow ==
    ASSUME IndInv, NEW o \in OpSet, ops' = Append(ops, o)
    PROVE  \A i \in 1..Len(ops) : ops'[i] = ops[i]
<1>1. ops \in Seq(OpSet) BY DEF IndInv, Types
<1> QED BY <1>1, AppendProperties

\* Whatever the connection, clusterd and the services do.
LEMMA NameStep ==
    ASSUME IndInv, IndInv', NameInv, [Next]_vars
    PROVE  NameInv'
<1>1. ASSUME NEW sz \in Size, NEW name \in Name \cup {Nil}, NEW query \in {FALSE, name # Nil},
             req(sz, name, query)
      PROVE  NameInv'
  <2>1. \A i \in 1..Len(ops) : ops'[i] = ops[i] BY <1>1, OpsGrow DEF req, OpSet
  <2> QED BY <1>1, <2>1, NamesRest DEF req
<1>2. ASSUME NEW sz \in Size, NEW name \in Name \cup {Nil}, push(sz, name) PROVE NameInv'
  <2>1. \A i \in 1..Len(ops) : ops'[i] = ops[i] BY <1>2, OpsGrow DEF push, OpSet
  <2> QED BY <1>2, <2>1, NamesRest DEF push
<1>3. ASSUME NEW f \in Frames, Request(f) PROVE NameInv'
  <2>1. ops' = ops /\ Ahead = {} BY <1>3 DEF Request, sending
  <2>2. \/ taken' = taken /\ UNCHANGED lookup
        \/ \E s, bodies, is_push : Accept(s, bodies, is_push)
    BY <1>3, Zenon DEF Request, Refuse
  <2> QED BY <2>1, <2>2, NamesRest, NamesAccepted
<1>4. ASSUME NEW r \in serving, NEW ok \in BOOLEAN, NEW sz \in ReplySize, Respond(r, ok, sz)
      PROVE  NameInv'
  <2>1. /\ taken' = taken /\ ops' = ops /\ asked' = asked /\ handed' = handed /\ cached' = cached
        /\ at' = [at EXCEPT ![r.op] = "none"]
    BY <1>4 DEF Respond, sending
  <2>2. r.op \in Op BY DEF IndInv, Types
  <2>3. at[r.op] \in {"found", "unknown", "call"} BY <1>4 DEF Respond, Answers
  <2>4. handed' \in Seq(Op) BY <2>1 DEF NameInv, Stages
  <2>5. Handed' /\ LaneOrder'
    <3>1. at \in [Op -> Stage] BY DEF NameInv, Stages
    <3>2. \A i \in Op : at'[i] \in Looking => at[i] \in Looking BY <2>1, <2>2, <3>1 DEF Looking
    <3> QED BY <2>1, <3>2, NamesHeld
  <2> QED BY <2>1, <2>2, <2>3, <2>4, <2>5, NamesDone
<1>5. ASSUME NEW f \in ReplyFrames, Response(f) PROVE NameInv'
  <2>1. taken' = taken /\ UNCHANGED lookup /\ ops' = ops BY <1>5 DEF Response
  <2> QED BY <2>1, NamesRest
<1>6. ASSUME NEW i \in Op, Resume(i) PROVE NameInv' BY <1>6, NamesResume
<1>7. ASSUME NEW i \in Op, NEW found \in BOOLEAN, NameAnswered(i, found) PROVE NameInv'
  BY <1>7, NamesAnswered
<1>8. CASE namechange
  <2>1. /\ taken' = taken /\ ops' = ops /\ asked' = asked /\ handed' = handed /\ at' = at
        /\ cached' = {}
    BY <1>8 DEF namechange, sending
  <2>2. /\ at' \in [Op -> Stage] /\ handed' \in Seq(Op) BY <2>1 DEF NameInv, Stages
  <2>3. TakenOps' = TakenOps /\ \A j : TakenOp(j)' = TakenOp(j) BY <2>1 DEF TakenOps, TakenOp
  <2>4. Places' BY <2>1, <2>3 DEF NameInv, Places
  <2>5. CallsOnly' /\ Askers' BY <2>1 DEF NameInv, CallsOnly, Askers
  <2>6. Handed' /\ LaneOrder' BY <2>1, NamesHeld
  <2> QED BY <2>1, <2>2, <2>4, <2>5, <2>6, NamesMove
<1>9. ASSUME NEW r \in serving, HandOver(r) PROVE NameInv' BY <1>9, NamesHanded
<1>10. CASE UNCHANGED vars
  <2>1. taken' = taken /\ UNCHANGED lookup /\ ops' = ops BY <1>10 DEF vars, sending
  <2> QED BY <2>1, NamesRest
<1> QED BY <1>1, <1>2, <1>3, <1>4, <1>5, <1>6, <1>7, <1>8, <1>9, <1>10 DEF Next

LEMMA InitName == Init => NameInv
<1> SUFFICES ASSUME Init PROVE NameInv OBVIOUS
<1>1. /\ taken = <<>> /\ handed = <<>> /\ cached = {}
      /\ at = [i \in Op |-> "none"] /\ asked = [i \in Op |-> Nil]
  BY DEF Init
<1>2. Stages BY <1>1 DEF Stages, Stage
<1>3. Places /\ CallsOnly /\ Askers BY <1>1 DEF Places, CallsOnly, Askers
<1>4. Joined /\ Handed /\ LaneOrder
  <2>1. Len(taken) = 0 /\ Len(handed) = 0 BY <1>1
  <2> QED BY <2>1 DEF Joined, Handed, LaneOrder
<1> QED BY <1>2, <1>3, <1>4 DEF NameInv

-----------------------------------------------------------------------------
(***************************************************************************)
(* The invariant holds, and the properties with it                         *)
(***************************************************************************)

\* The coroutines of the agent do not touch the connection; a push that is handed over
\* is done with.
LEMMA LookUpKeeps ==
    ASSUME IndInv,
           UNCHANGED <<sending, high, low, large_request, taken, reply_high, reply_low,
                       result_data, answer>>,
           (serving' = serving) \/ (\E r \in serving : ops[r.op].is_push /\ serving' = serving \ {r})
    PROVE  IndInv'
<1>1. /\ session' = session /\ ops' = ops /\ thread' = thread /\ high' = high /\ low' = low
      /\ large_request' = large_request /\ taken' = taken
      /\ reply_high' = reply_high /\ reply_low' = reply_low
      /\ result_data' = result_data /\ answer' = answer
  BY DEF sending
<1>2. \A r \in serving' : r \in serving OBVIOUS
<1>3. Types' BY <1>1, <1>2 DEF IndInv, Types
<1>4. /\ Threads' /\ HighOK(high', ops', thread') /\ LowOK(low', ops', thread')
      /\ ReplyHighOK(reply_high', thread') /\ ReplyLowOK(reply_low', thread')
  BY <1>1 DEF IndInv, Threads
<1>5. Assembling' /\ TakenBefore' /\ Gathering' BY <1>1 DEF IndInv, Assembling, TakenBefore, Gathering
<1>6. Served' BY <1>1, <1>2 DEF IndInv, Served
<1>7. Apart' BY <1>1, <1>2 DEF IndInv, Apart
<1>8. Fresh' BY <1>1, <1>2 DEF IndInv, Fresh
<1>9. Intact' /\ TakenInOrder' /\ ReplyMatches' BY <1>1 DEF IndInv, Intact, TakenInOrder, ReplyMatches
<1>10. CallInFlight'
  <2>1. ASSUME NEW t \in Session, thread[t] # Nil
        PROVE  {q \in serving' : q.session = t} = {q \in serving : q.session = t}
    <3>1. ASSUME NEW r \in serving, ops[r.op].is_push PROVE r.session # t
      <4>1. 0 \notin Session BY DEF Session
      <4> QED BY <2>1, <3>1, <4>1 DEF IndInv, Served
    <3> QED BY <3>1
  <2> QED BY <1>1, <2>1 DEF IndInv, CallInFlight
<1> QED BY <1>3, <1>4, <1>5, <1>6, <1>7, <1>8, <1>9, <1>10 DEF IndInv

LEMMA InitInd == Init => IndInv
<1> SUFFICES ASSUME Init PROVE IndInv OBVIOUS
<1>1. /\ session = 1 /\ ops = <<>> /\ high = <<>> /\ low = <<>> /\ taken = <<>> /\ serving = {}
      /\ reply_high = <<>> /\ reply_low = <<>>
      /\ large_request = [s \in Session |-> Nil] /\ thread = [s \in Session |-> Nil]
      /\ result_data = [i \in Op |-> Nil] /\ answer = [i \in Op |-> Nil]
  BY DEF Init
<1>2. /\ Len(ops) = 0 /\ Len(high) = 0 /\ Len(low) = 0 /\ Len(taken) = 0
      /\ Len(reply_high) = 0 /\ Len(reply_low) = 0
  BY <1>1
<1>3. 1 \in Session BY ConstAssumption DEF Session
<1>4. Types
  <2>1. /\ ops \in Seq(OpSet) /\ high \in Seq(Frame) /\ low \in Seq(Frame)
        /\ reply_high \in Seq(Frame) /\ reply_low \in Seq(Frame)
        /\ taken \in Seq([bodies : Seq(BodySet), is_push : BOOLEAN])
    BY <1>1
  <2>2. Len(ops) <= MaxOps BY <1>2, ConstAssumption
  <2>3. session \in Session /\ serving \subseteq [session : Session \cup {0}, op : Op] BY <1>1, <1>3
  <2>4. /\ large_request \in [Session -> Partial \cup {Nil}] /\ thread \in [Session -> Op \cup {Nil}]
        /\ result_data \in [Op -> PileSet \cup {Nil}] /\ answer \in [Op -> ResultSet \cup {Nil}]
    BY <1>1
  <2> QED BY <2>1, <2>2, <2>3, <2>4 DEF Types
<1>5. \A k : k \notin 1..0 OBVIOUS
<1>6. Threads BY <1>1 DEF Threads
<1>7. HighOK(high, ops, thread) /\ LowOK(low, ops, thread)
  BY <1>2, <1>5 DEF HighOK, LowOK, Linked
<1>8. ReplyHighOK(reply_high, thread) /\ ReplyLowOK(reply_low, thread)
  BY <1>2, <1>5 DEF ReplyHighOK, ReplyLowOK, Linked
<1>9. Assembling /\ Gathering BY <1>1 DEF Assembling, Gathering
<1>10. TakenBefore /\ TakenInOrder BY <1>2, <1>5 DEF TakenBefore, TakenInOrder
<1>11. Served /\ ReplyMatches BY <1>1 DEF Served, ReplyMatches
<1>12. Apart BY <1>1, <1>2, <1>5 DEF Apart, Away
<1>13. Fresh BY <1>1, <1>2, <1>3, <1>5 DEF Fresh, Away
<1>14. Intact
  <2>1. taken \in Seq([bodies : Seq(BodySet), is_push : BOOLEAN]) BY <1>4 DEF Types
  <2> QED BY <1>2, <1>5, <2>1, IntactAt
<1>15. CallInFlight BY <1>1 DEF CallInFlight
<1> QED BY <1>4, <1>6, <1>7, <1>8, <1>9, <1>10, <1>11, <1>12, <1>13, <1>14, <1>15 DEF IndInv

LEMMA StepInd == IndInv /\ CallsOnly /\ [Next]_vars => IndInv'
<1> SUFFICES ASSUME IndInv, CallsOnly, [Next]_vars PROVE IndInv' OBVIOUS
<1>1. ASSUME NEW sz \in Size, NEW name \in Name \cup {Nil}, NEW query \in {FALSE, name # Nil},
             req(sz, name, query)
      PROVE  IndInv'
  BY <1>1, ReqKeeps
<1>2. ASSUME NEW sz \in Size, NEW name \in Name \cup {Nil}, push(sz, name) PROVE IndInv'
  BY <1>2, PushKeeps
<1>3. ASSUME NEW f \in Frames, Request(f) PROVE IndInv' BY <1>3, RequestKeeps
<1>4. ASSUME NEW r \in serving, NEW ok \in BOOLEAN, NEW sz \in ReplySize, Respond(r, ok, sz)
      PROVE  IndInv'
  BY <1>4, RespondKeeps
<1>5. ASSUME NEW f \in ReplyFrames, Response(f) PROVE IndInv' BY <1>5, ResponseKeeps
<1>6. ASSUME UNCHANGED <<sending, high, low, large_request, taken, reply_high, reply_low,
                         result_data, answer>>,
             (serving' = serving) \/ (\E r \in serving : ops[r.op].is_push /\ serving' = serving \ {r})
      PROVE  IndInv'
  BY <1>6, LookUpKeeps
<1>7. ASSUME NEW i \in Op, Resume(i) PROVE IndInv' BY <1>6, <1>7 DEF Resume
<1>8. ASSUME NEW i \in Op, NEW found \in BOOLEAN, NameAnswered(i, found) PROVE IndInv'
  BY <1>6, <1>8 DEF NameAnswered
<1>9. CASE namechange BY <1>6, <1>9 DEF namechange
<1>10. ASSUME NEW r \in serving, HandOver(r) PROVE IndInv'
  <2>1. (serving' = serving) \/ (ops[r.op].is_push /\ serving' = serving \ {r}) BY <1>10 DEF HandOver
  <2> QED BY <1>6, <1>10, <2>1 DEF HandOver
<1>11. CASE UNCHANGED vars BY <1>6, <1>11 DEF vars
<1> QED BY <1>1, <1>2, <1>3, <1>4, <1>5, <1>7, <1>8, <1>9, <1>10, <1>11 DEF Next

\* For any number of requests and pushes of any size on a connection: each lane is whole
\* from the frame that comes next, the agent and the channel each put together only the
\* message that frame belongs to, and a session is in one place at a time; and what comes
\* after a message whose name is asked for, and has the same name, joins its coroutine.
THEOREM IndInvHolds == Spec => [](IndInv /\ NameInv)
<1>1. Init => IndInv /\ NameInv BY InitInd, InitName
<1>2. IndInv /\ NameInv /\ [Next]_vars => (IndInv /\ NameInv)'
  <2>1. NameInv => CallsOnly BY DEF NameInv
  <2> QED BY <2>1, StepInd, NameStep
<1> QED BY <1>1, <1>2, PTL DEF Spec

\* What dispatch_request hands to a service is one request or push, whole and still what
\* it was when packrequest packed it, however small messages come in between.
THEOREM IntactHolds == Spec => []Intact
<1>1. IndInv => Intact BY DEF IndInv
<1> QED BY <1>1, IndInvHolds, PTL

\* Messages of one priority come through to dispatch_request in the order command.req and
\* command.push sent them, and none of them twice.
THEOREM TakenInOrderHolds == Spec => []TakenInOrder
<1>1. IndInv => TakenInOrder BY DEF IndInv
<1> QED BY <1>1, IndInvHolds, PTL

\* They reach the services in that order too, except where register_name made a coroutine
\* wait: it may be overtaken, but of messages for its own name only by one that waited
\* for the same answer of clusterd, and not at all if it is the one that asked.
THEOREM LaneOrderHolds == Spec => []LaneOrder
<1>1. NameInv => LaneOrder BY DEF NameInv
<1> QED BY <1>1, IndInvHolds, PTL

\* dispatch_by_session gives a caller the whole response to its own request.
THEOREM ReplyMatchesHolds == Spec => []ReplyMatches
<1>1. IndInv => ReplyMatches BY DEF IndInv
<1> QED BY <1>1, IndInvHolds, PTL

\* A caller that waits in the channel has exactly one request or response under way.
THEOREM CallInFlightHolds == Spec => []CallInFlight
<1>1. IndInv => CallInFlight BY DEF IndInv
<1> QED BY <1>1, IndInvHolds, PTL
=============================================================================
