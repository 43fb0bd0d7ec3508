----------------------------- MODULE ClusterCodec -----------------------------
(***************************************************************************)
(* The frames of lua-beecluster.c: how a request, a push or a response is  *)
(* cut into frames (packrequest, packpush, packresponse) and how the       *)
(* pieces of a large message are put together again (append, concat).      *)
(*                                                                         *)
(* The bytes from offset `from`, `len` of them, of the message of an       *)
(* operation are the body [op, from, len].                                 *)
(***************************************************************************)
EXTENDS Integers, Sequences

MULTI_PART == 32768
TEMP_LENGTH == 33280

\* What a frame carries besides its body, length prefix included: a request
\* to a number, to a name of namelen bytes, a part, a response.
NumberHead == 11
NameHead(namelen) == 8 + namelen
PartHead == 7
ResponseHead == 7

\* A frame of len bytes fits the buffer it is put together in, and the length
\* that fill_header writes fits 16 bits (its assertion).
Fits(len) == len <= TEMP_LENGTH /\ len - 2 < 65536

\* The session after this one; 1 follows the largest positive int.
NextSession(session, max) == IF session + 1 > max THEN 1 ELSE session + 1

Body(op, from, len) == [op |-> op, from |-> from, len |-> len]

(***************************************************************************)
(* Parts: packreq_multi and the loop of lpackresponse                      *)
(***************************************************************************)

PartCount(sz) == (sz - 1) \div MULTI_PART + 1

\* The bytes left when the loop reaches part i (the first is 0).
Left(sz, i) == sz - i * MULTI_PART

LastPart_Strict(sz, i) == Left(sz, i) < MULTI_PART
LastPart(sz, i) == Left(sz, i) <= MULTI_PART
PartLength(sz, i) == IF LastPart(sz, i) THEN Left(sz, i) ELSE MULTI_PART

Parts(session, op, sz) ==
    [i \in 1..PartCount(sz) |->
        [type |-> IF LastPart(sz, i - 1) THEN "end" ELSE "part",
         session |-> session,
         body |-> Body(op, (i - 1) * MULTI_PART, PartLength(sz, i - 1))]]

(***************************************************************************)
(* packrequest, packpush                                                   *)
(***************************************************************************)

IsLargeRequest(sz) == sz >= MULTI_PART

\* packreq_number and packreq_string: the only frame, or the one that
\* announces the parts. A push in a single frame has session 0.
FirstFrame(session, op, sz, is_push) ==
    IF IsLargeRequest(sz)
    THEN [type |-> IF is_push THEN "multi push" ELSE "multi req",
          session |-> session, size |-> sz]
    ELSE [type |-> "single",
          session |-> IF is_push THEN 0 ELSE session,
          body |-> Body(op, 0, sz)]

packrequest(session, op, sz, is_push) ==
    <<FirstFrame(session, op, sz, is_push)>> \o
    (IF IsLargeRequest(sz) THEN Parts(session, op, sz) ELSE <<>>)

\* unpackrequest: the values dispatch_request gets. An announcing frame has the
\* size in the place of the message.
unpackrequest(f) ==
    LET announces == f.type \in {"multi req", "multi push"} IN
    [session |-> f.session,
     announces |-> announces,
     msg |-> IF announces THEN f.size ELSE f.body,
     padding |-> announces \/ f.type = "part",
     is_push |-> \/ f.type = "multi push"
                 \/ f.type = "single" /\ f.session = 0]

(***************************************************************************)
(* packresponse                                                            *)
(***************************************************************************)

IsLargeResponse(ok, sz) == ok /\ sz > MULTI_PART

\* A long error message is cut off.
ResponseLength(ok, sz) == IF ~ok /\ sz > MULTI_PART THEN MULTI_PART ELSE sz

packresponse(session, op, ok, sz) ==
    IF IsLargeResponse(ok, sz)
    THEN <<[type |-> "begin", session |-> session, size |-> sz]>> \o Parts(session, op, sz)
    ELSE <<[type |-> IF ok THEN "ok" ELSE "error", session |-> session,
            body |-> Body(op, 0, ResponseLength(ok, sz))]>>

unpackresponse(f) ==
    [session |-> f.session,
     ok |-> f.type # "error",
     msg |-> IF f.type = "begin" THEN f.size ELSE f.body,
     padding |-> f.type \in {"begin", "part"}]

(***************************************************************************)
(* append, concat                                                          *)
(***************************************************************************)

\* A pile of pieces: the announced size, the bodies in the order they came,
\* and their length so far.
Pile(size) == [size |-> size, bodies |-> <<>>, length |-> 0]
append(pile, body) ==
    [pile EXCEPT !.bodies = Append(@, body), !.length = @ + body.len]

\* A number after the first place, where concat stops looking for pieces.
Spoil(pile) == [pile EXCEPT !.size = -1]

\* concat returns nothing if the pieces do not add up to the announced size.
CanConcat(pile) == pile.length = pile.size

\* The bodies are the whole of one message of this size, in order.
WholeMessage(bodies, op, size) ==
    /\ bodies # <<>>
    /\ \A i \in 1..Len(bodies) : bodies[i].op = op
    /\ bodies[1].from = 0
    /\ \A i \in 1..(Len(bodies) - 1) : bodies[i + 1].from = bodies[i].from + bodies[i].len
    /\ bodies[Len(bodies)].from + bodies[Len(bodies)].len = size
=============================================================================
