------------------------- MODULE SocketServerProofs -------------------------
(***************************************************************************)
(* Theorems about SocketServer, for any number of slots, ids, packages and *)
(* bytes of a package.                                                     *)
(*                                                                         *)
(* The inductive invariant looks at the wire of a socket and at the        *)
(* buffers that wait for it as one line of packages: it is in order for    *)
(* each priority, and it is cut in at most one place, between the last     *)
(* package on the wire and the first buffer. Around that it says which     *)
(* sockets may have buffers and which then have their write event on, that *)
(* the packages in the pipe are newer than all in the lists, that the      *)
(* command that opens a socket is the first one for it in the pipe, that   *)
(* no command knows the id a slot is claimed for, and that the events of a *)
(* batch are of different sockets, which may be closed while the event is  *)
(* still to be cleared. It holds until a slot is claimed at the wrong      *)
(* moment (raced).                                                         *)
(*                                                                         *)
(* First what writing does to such a line (SendLine, InsertLine), then     *)
(* what the operations make of one socket (CloseOK, SendBufferOK,          *)
(* AppendOK, WrittenOK), then the steps on slots, pipe and events, and at  *)
(* last one lemma for each action.                                         *)
(***************************************************************************)
EXTENDS SocketServer, TLAPS, SequenceTheorems, FiniteSetTheorems

\* Packages of one priority are in the order they were sent.
Ord(p, q) == p.low = q.low => p.n < q.n

\* The wire x of a socket followed by the buffers q that wait for it: both are in order, and
\* only the last package of x may be incomplete; it then goes on with the first buffer.
Cut(x, q) ==
    /\ x # <<>> /\ q # <<>>
    /\ x[Len(x)].p = q[1].p /\ x[Len(x)].bytes + q[1].left = Size
Sorted(x) == \A i, j \in 1..Len(x) : i < j => Ord(x[i].p, x[j].p)
Line(x, q) ==
    /\ Sorted(x) /\ Sorted(q)
    /\ \A i \in 1..Len(x) : i < Len(x) => x[i].bytes = Size
    /\ \A i \in 1..Len(q) : 1 < i => q[i].left = Size
    /\ \A i \in 1..Len(x), j \in 1..Len(q) :
          Ord(x[i].p, q[j].p) \/ (i = Len(x) /\ j = 1 /\ x[i].bytes # Size)
    /\ x # <<>> => x[Len(x)].bytes = Size \/ Cut(x, q)
    /\ q # <<>> => q[1].left = Size \/ Cut(x, q)

\* The packages of a socket.
Packages(s) == {s.wire[i].p : i \in 1..Len(s.wire)} \cup {s.high[i].p : i \in 1..Len(s.high)}
               \cup {s.low[i].p : i \in 1..Len(s.low)}

LineInv(s) ==
    /\ Line(s.wire, Queue(s))
    /\ \A i \in 1..Len(s.low) : s.low[i].p.low /\ s.low[i].left = Size
    /\ \A p \in Packages(s) : p.id = s.id
ModeInv(s) ==
    /\ s.type \notin {"INVALID", "RESERVE"} => s.id \in Id
    /\ s.type \in {"INVALID", "RESERVE"} => Empty(s) /\ s.wire = <<>>
    /\ s.type = "CONNECTING" => s.write
    /\ ~Empty(s) => s.type \in {"CONNECTING", "CONNECTED", "HALFCLOSE"}
    /\ ~Empty(s) \/ s.type = "HALFCLOSE" => s.write

Opens(i) == pipe[i].c \in {"O", "L"}
PipeInv ==
    /\ \A i \in 1..Len(pipe) : pipe[i].id <= alloc_id
    /\ \A i, j \in 1..Len(pipe) : Opens(i) /\ pipe[i].id = pipe[j].id => i <= j
    /\ \A i \in 1..Len(pipe) : Opens(i) =>
          /\ At(pipe[i].id).type = "RESERVE" /\ At(pipe[i].id).id = pipe[i].id
          /\ claim[HASH_ID(pipe[i].id)] = 0
    /\ \A k \in Slot : slot[k].id <= alloc_id
    /\ \A k \in Slot : slot[k].type = "RESERVE" /\ claim[k] = 0 =>
          /\ HASH_ID(slot[k].id) = k
          /\ \E i \in 1..Len(pipe) : Opens(i) /\ pipe[i].id = slot[k].id

\* A slot that is claimed for an id has an earlier id, and no command is for the new one yet.
ClaimInv ==
    \A k \in Slot : claim[k] # 0 =>
        /\ slot[k].type = "RESERVE" /\ slot[k].id # claim[k]
        /\ HASH_ID(claim[k]) = k /\ claim[k] <= alloc_id
        /\ \A i \in 1..Len(pipe) : pipe[i].id # claim[k]

SendInv ==
    \A i \in 1..Len(pipe) : pipe[i].c = "D" =>
        /\ pipe[i].p.id = pipe[i].id /\ pipe[i].p.n <= sent
        /\ \A j \in 1..(i - 1) : pipe[j].c = "D" => pipe[j].p.n < pipe[i].p.n
        /\ \A k \in Slot : \A p \in Packages(slot[k]) : p.n < pipe[i].p.n

\* The slot of an event has the socket of the event, which may just have been closed.
EventInv ==
    /\ \A i \in 1..Len(ev) : ev[i].s # NULL =>
          /\ slot[ev[i].s].id = ev[i].id /\ claim[ev[i].s] = 0
          /\ slot[ev[i].s].type # "INVALID" \/ closing = ev[i].id
    /\ \A i, j \in 1..Len(ev) : i # j /\ ev[i].s # NULL => ev[i].s # ev[j].s

SlotsInv ==
    \A k \in Slot : /\ LineInv(slot[k]) /\ ModeInv(slot[k])
                    /\ \A p \in Packages(slot[k]) : p.n <= sent

Calm ==
    /\ TypeOK
    /\ SlotsInv
    /\ PipeInv /\ ClaimInv /\ SendInv /\ EventInv
IndInv == ~raced => Calm

-----------------------------------------------------------------------------
(* Writing                                                                 *)

USE SocketAssumption DEF SocketAssumption

LEMMA FunctionIsSeq ==
    ASSUME NEW S, NEW n \in Nat, NEW f \in [1..n -> S]
    PROVE  f \in Seq(S) /\ Len(f) = n
OBVIOUS

LEMMA BufferFields ==
    ASSUME NEW b \in Buffer
    PROVE  b.p \in Package /\ b.left \in 1..Size /\ b = [p |-> b.p, left |-> b.left]
BY DEF Buffer

LEMMA PieceFields ==
    ASSUME NEW b \in Piece
    PROVE  b.p \in Package /\ b.bytes \in 1..Size /\ b = [p |-> b.p, bytes |-> b.bytes]
BY DEF Piece

\* The first k buffers and n bytes of the next can be taken from q.
Takes(q, k, n) ==
    /\ k \in 0..Len(q) /\ n \in 0..(Size - 1)
    /\ IF k < Len(q) THEN n < q[k + 1].left ELSE n = 0
Begun(k, n) == IF n = 0 THEN k ELSE k + 1
Merged(x, q, k, n) == IF Begun(k, n) > 0 /\ Cut(x, q) THEN 1 ELSE 0
\* The bytes of buffer j that are then on the wire.
Out(q, j, k, n) == IF j <= k THEN Size ELSE Size - q[j].left + n

\* The sequence that the pieces of the first buffers make of the wire, entry by entry: all
\* buffers but the last are on it in full, and it goes on where the wire was cut.
LEMMA JoinEntries ==
    ASSUME NEW x \in Seq(Piece), NEW q \in Seq(Buffer), Line(x, q),
           NEW k, NEW n, Takes(q, k, n),
           NEW c, c = Begun(k, n),
           NEW m, m = Merged(x, q, k, n),
           NEW y, y = Join(x, Pieces(q, k, n))
    PROVE  /\ y \in Seq(Piece) /\ c \in 0..Len(q) /\ m \in {0, 1}
           /\ m = 1 => Len(x) > 0
           /\ Len(y) = Len(x) - m + c
           /\ \A i \in 1..(Len(x) - m) : y[i] = x[i]
           /\ \A j \in 1..c : y[Len(x) - m + j] =
                 [p |-> q[j].p, bytes |-> Out(q, j, k, n)]
<1> USE DEF Takes, Begun, Merged, Out
<1> DEFINE o == Pieces(q, k, n)
<1>1. c \in 0..Len(q) /\ Len(x) \in Nat /\ Len(q) \in Nat
  OBVIOUS
<1>2. \A j \in 1..Len(q) : q[j] \in Buffer /\ q[j].p \in Package /\ q[j].left \in 1..Size
  BY BufferFields
<1>3. \A i \in 1..Len(x) : x[i] \in Piece /\ x[i].p \in Package /\ x[i].bytes \in 1..Size
  BY PieceFields
<1>4. \A j \in 1..c : /\ o[j].p = q[j].p
                      /\ o[j].bytes = IF j <= k THEN q[j].left ELSE n
                      /\ o[j].bytes \in 1..Size
                      /\ o[j] \in Piece
  BY <1>1, <1>2 DEF Pieces, Piece
<1>5. Len(o) = c /\ o \in Seq(Piece)
  <2>1. o \in [1..c -> Piece]
    BY <1>4 DEF Pieces
  <2>2. c \in Nat
    BY <1>1
  <2> QED
    BY <2>1, <2>2, FunctionIsSeq
<1>6. m \in {0, 1} /\ (m = 1 => Len(x) > 0)
  BY <1>1 DEF Cut
<1>7. m = (IF x # <<>> /\ o # <<>> /\ x[Len(x)].p = o[1].p THEN 1 ELSE 0)
  <2>1. CASE c = 0
    BY <2>1, <1>5
  <2>2. CASE c > 0 /\ Cut(x, q)
    BY <2>2, <1>1, <1>4, <1>5 DEF Cut
  <2>3. CASE c > 0 /\ ~Cut(x, q)
    <3>1. ASSUME x # <<>> PROVE x[Len(x)].p # q[1].p
      <4>1. Len(x) \in 1..Len(x) /\ 1 \in 1..Len(q)
        BY <1>1, <2>3, <3>1
      <4>2. x[Len(x)].bytes = Size
        BY <2>3, <3>1 DEF Line
      <4>3. Ord(x[Len(x)].p, q[1].p)
        BY <4>1, <4>2 DEF Line
      <4> QED
        BY <4>1, <4>3, <1>2 DEF Ord, Package
    <3> QED
      BY <2>3, <3>1, <1>1, <1>4, <1>5
  <2> QED
    BY <2>1, <2>2, <2>3, <1>1
<1>8. y = [i \in 1..(Len(x) + c - m) |->
              IF m = 1 /\ i = Len(x) THEN [p |-> x[i].p, bytes |-> x[i].bytes + o[1].bytes]
              ELSE IF i <= Len(x) THEN x[i]
              ELSE o[i - Len(x) + m]]
  BY <1>5, <1>7 DEF Join
<1> DEFINE N == Len(x) - m + c
<1>9. N \in Nat /\ N = Len(x) + c - m
  BY <1>1, <1>6
<1>10. ASSUME NEW i \in 1..(Len(x) - m) PROVE y[i] = x[i]
  BY <1>1, <1>6, <1>8
<1>11. ASSUME NEW j \in 1..c
       PROVE  y[Len(x) - m + j] =
                 [p |-> q[j].p, bytes |-> IF j <= k THEN Size ELSE Size - q[j].left + n]
  <2> DEFINE i == Len(x) - m + j
  <2>0. i \in 1..(Len(x) + c - m) /\ j \in 1..Len(q)
    BY <1>1, <1>6
  <2>1. CASE m = 1 /\ j = 1
    <3>1. i = Len(x) /\ Cut(x, q)
      BY <2>1, <1>1
    <3>2. y[i] = [p |-> q[1].p, bytes |-> x[Len(x)].bytes + o[1].bytes]
      BY <3>1, <2>0, <2>1, <1>8 DEF Cut
    <3>3. x[Len(x)].bytes + q[1].left = Size
      BY <3>1 DEF Cut
    <3>a. x[Len(x)].bytes \in Int /\ q[1].left \in Int
      BY <2>0, <2>1, <1>1, <1>2, <1>3, <1>6
    <3>b. o[1].bytes = IF 1 <= k THEN q[1].left ELSE n
      BY <2>0, <2>1, <1>4
    <3>4. x[Len(x)].bytes + o[1].bytes = IF j <= k THEN Size ELSE Size - q[j].left + n
      BY SMTT(20), <3>3, <3>a, <3>b, <2>1
    <3> QED
      BY <3>2, <3>4, <2>1
  <2>2. CASE ~(m = 1 /\ j = 1)
    <3>1. y[i] = o[j]
      BY <2>0, <2>2, <1>1, <1>6, <1>8
    <3>2. q[j].left = Size
      <4>1. CASE j > 1
        BY <4>1, <2>0 DEF Line
      <4>2. CASE j = 1
        <5>1. c > 0 /\ ~Cut(x, q)
          BY <4>2, <2>2, <2>0, <1>1
        <5> QED
          BY <5>1, <4>2, <2>0 DEF Line
      <4> QED
        BY <4>1, <4>2, <2>0
    <3>3. o[j].bytes = IF j <= k THEN Size ELSE Size - q[j].left + n
      BY <3>2, <1>4
    <3>4. o[j] = [p |-> q[j].p, bytes |-> o[j].bytes]
      BY <1>4, <2>0, <1>1, <1>2 DEF Pieces
    <3> QED
      BY <3>1, <3>3, <3>4
  <2> QED
    BY <2>1, <2>2
<1>12. ASSUME NEW i \in 1..N PROVE y[i] \in Piece
  <2>1. CASE i <= Len(x) - m
    BY <2>1, <1>1, <1>3, <1>6, <1>10
  <2>2. CASE i > Len(x) - m
    <3> DEFINE j == i - (Len(x) - m)
               b == IF j <= k THEN Size ELSE Size - q[j].left + n
    <3>1. j \in 1..c /\ i = Len(x) - m + j
      BY <2>2, <1>1, <1>6
    <3>2. y[i] = [p |-> q[j].p, bytes |-> b]
      BY <3>1, <1>11
    <3> HIDE DEF j
    <3>3. j \in 1..Len(q) /\ (j > k => j = k + 1 /\ k < Len(q) /\ n > 0)
      BY <3>1, <1>1
    <3>4. q[j].left \in 1..Size /\ q[j].p \in Package
      BY <3>3, <1>2
    <3>5. b \in 1..Size
      BY <3>3, <3>4
    <3> HIDE DEF b
    <3> QED
      BY <3>2, <3>4, <3>5 DEF Piece
  <2> QED
    BY <2>1, <2>2, <1>1, <1>6
<1>13. y \in Seq(Piece) /\ Len(y) = N
  <2>1. y \in [1..N -> Piece]
    <3>1. DOMAIN y = 1..N /\ y = [i \in DOMAIN y |-> y[i]]
      BY <1>8, <1>9
    <3> QED
      BY <3>1, <1>12
  <2>2. N \in Nat
    BY <1>9
  <2> HIDE DEF N
  <2> QED
    BY <2>1, <2>2, FunctionIsSeq
<1> QED
  BY <1>1, <1>6, <1>10, <1>11, <1>13

LEMMA RestEntries ==
    ASSUME NEW q \in Seq(Buffer), NEW k, NEW n, Takes(q, k, n),
           NEW r, r = Rest(q, k, n)
    PROVE  /\ r \in Seq(Buffer) /\ Len(r) = Len(q) - k
           /\ \A i \in 1..Len(r) :
                 /\ r[i].p = q[i + k].p
                 /\ r[i].left = IF i = 1 THEN q[1 + k].left - n ELSE q[i + k].left
<1> USE DEF Takes
<1> DEFINE N == Len(q) - k
           b(i) == IF i = 1 THEN q[1 + k].left - n ELSE q[i + k].left
<1>1. N \in Nat
  OBVIOUS
<1>2. \A i \in 1..N : i + k \in 1..Len(q)
  OBVIOUS
<1>3. \A j \in 1..Len(q) : q[j].p \in Package /\ q[j].left \in 1..Size
  BY BufferFields
<1>4. ASSUME NEW i \in 1..N PROVE b(i) \in 1..Size
  <2>1. q[i + k].left \in 1..Size
    BY <1>2, <1>3
  <2>2. CASE i = 1
    BY <2>1, <2>2
  <2>3. CASE i # 1
    BY <2>1, <2>3
  <2> QED
    BY <2>2, <2>3
<1>5. r = [i \in 1..N |-> [p |-> q[i + k].p, left |-> b(i)]]
  BY DEF Rest
<1> HIDE DEF b
<1>6. ASSUME NEW i \in 1..N PROVE [p |-> q[i + k].p, left |-> b(i)] \in Buffer
  BY <1>2, <1>3, <1>4 DEF Buffer
<1>7. r \in [1..N -> Buffer]
  BY <1>5, <1>6
<1> HIDE DEF N
<1>8. r \in Seq(Buffer) /\ Len(r) = N
  BY <1>1, <1>7, FunctionIsSeq
<1>9. \A i \in 1..N : r[i].p = q[i + k].p /\ r[i].left = b(i)
  BY <1>5
<1> QED
  BY <1>8, <1>9 DEF N, b

\* The packages of y are of x or q.
From(y, x, q) ==
    \A i \in 1..Len(y) : \/ \E j \in 1..Len(x) : y[i].p = x[j].p
                         \/ \E j \in 1..Len(q) : y[i].p = q[j].p

\* Writing keeps the line of a socket: what was taken of the buffers is on the wire.
LEMMA SendLine ==
    ASSUME NEW x \in Seq(Piece), NEW q \in Seq(Buffer), Line(x, q),
           NEW k, NEW n, Takes(q, k, n),
           NEW y, y = Join(x, Pieces(q, k, n)),
           NEW r, r = Rest(q, k, n)
    PROVE  /\ y \in Seq(Piece) /\ r \in Seq(Buffer)
           /\ Line(y, r) /\ From(y, x, q)
<1> DEFINE c == Begun(k, n)
           m == Merged(x, q, k, n)
           a == Len(x) - m
<1>1. /\ y \in Seq(Piece) /\ c \in 0..Len(q) /\ m \in {0, 1}
      /\ m = 1 => Len(x) > 0
      /\ Len(y) = a + c
      /\ \A i \in 1..a : y[i] = x[i]
      /\ \A j \in 1..c : y[a + j] = [p |-> q[j].p, bytes |-> Out(q, j, k, n)]
  <2> HIDE DEF c, m
  <2>1. c = Begun(k, n)
    BY DEF c
  <2>2. m = Merged(x, q, k, n)
    BY DEF m
  <2> QED
    BY <2>1, <2>2, JoinEntries
<1>2. /\ r \in Seq(Buffer) /\ Len(r) = Len(q) - k
      /\ \A i \in 1..Len(r) :
            /\ r[i].p = q[i + k].p
            /\ r[i].left = IF i = 1 THEN q[1 + k].left - n ELSE q[i + k].left
  BY RestEntries
<1>3. \A j \in 1..Len(q) : q[j].p \in Package /\ q[j].left \in 1..Size
  BY BufferFields
<1>4. /\ Len(x) \in Nat /\ Len(q) \in Nat /\ a \in Nat /\ a <= Len(x)
      /\ c \in Nat /\ k <= c /\ c <= k + 1 /\ c <= Len(q) /\ (c = k <=> n = 0)
  BY <1>1 DEF Takes, Begun
<1>5. ASSUME c > 0, a > 0 PROVE \A i \in 1..a, j \in 1..Len(q) : Ord(x[i].p, q[j].p)
  <2>1. CASE Cut(x, q)
    BY <1>4, <1>5, <2>1 DEF Line, Merged, Cut
  <2>2. CASE ~Cut(x, q)
    BY <1>4, <1>5, <2>2 DEF Line, Merged
  <2> QED
    BY <2>1, <2>2
<1>6. \A i \in 1..a : y[i].p = x[i].p /\ y[i].bytes = x[i].bytes
  BY <1>1
<1>7. \A j \in 1..c : y[a + j].p = q[j].p /\ y[a + j].bytes = Out(q, j, k, n)
  <2> HIDE DEF c, m, a
  <2>1. ASSUME NEW j \in 1..c PROVE y[a + j].p = q[j].p /\ y[a + j].bytes = Out(q, j, k, n)
    <3>1. y[a + j] = [p |-> q[j].p, bytes |-> Out(q, j, k, n)]
      BY <1>1
    <3> QED
      BY <3>1
  <2> QED
    BY <2>1
<1>8. ASSUME NEW i \in 1..Len(y)
      PROVE  i \in 1..a \/ (i - a \in 1..c /\ i - a \in 1..Len(q) /\ i = a + (i - a))
  BY <1>1, <1>4
<1>9. k \in Nat /\ n \in Nat /\ Len(r) = Len(q) - k
      /\ \A i \in 1..Len(r) : i + k \in 1..Len(q)
      /\ (k < Len(q) => n < q[k + 1].left) /\ (k = Len(q) => n = 0)
  BY <1>2 DEF Takes
<1> HIDE DEF c, m, a
<1>10. CASE c = 0
  <2>1. k = 0 /\ n = 0
    BY <1>4, <1>9, <1>10
  <2>2. m = 0 /\ a = Len(x)
    BY <1>1, <1>10, <1>4 DEF m, Merged, c, a
  <2>3. Len(y) = Len(x) /\ Len(r) = Len(q)
    BY <2>1, <2>2, <1>1, <1>2, <1>4, <1>10
  <2>4. y = x
    BY <2>2, <2>3, <1>1
  <2>5. r = q
    <3>1. ASSUME NEW i \in 1..Len(q) PROVE r[i] = q[i]
      <4>1. r[i].p = q[i].p /\ r[i].left = q[i].left
        BY <2>1, <2>3, <1>2, <1>3
      <4>2. r \in Seq(Buffer) /\ i \in 1..Len(r)
        BY <2>3, <1>2
      <4>3. r[i] \in Buffer /\ q[i] \in Buffer
        BY <4>2
      <4> QED
        BY <4>1, <4>3, BufferFields
    <3>2. r \in Seq(Buffer)
      BY <1>2
    <3> QED
      BY <3>1, <3>2, <2>3
  <2>6. From(y, x, q)
    BY <2>4 DEF From
  <2> QED
    BY <2>4, <2>5, <2>6, <1>1, <1>2
<1>11. CASE c > 0
  <2>1. Sorted(y)
    <3>1. SUFFICES ASSUME NEW i \in 1..Len(y), NEW j \in 1..Len(y), i < j
                   PROVE  Ord(y[i].p, y[j].p)
      BY DEF Sorted
    <3>2. CASE j \in 1..a
      <4>1. i \in 1..a
        BY <3>1, <3>2, <1>4
      <4>2. i \in 1..Len(x) /\ j \in 1..Len(x) /\ i < j
        BY <3>1, <3>2, <4>1, <1>4
      <4>3. Ord(x[i].p, x[j].p)
        BY <4>2 DEF Line, Sorted
      <4> QED
        BY <3>2, <4>1, <4>3, <1>6
    <3>3. CASE i \in 1..a /\ j \notin 1..a
      <4>1. Ord(x[i].p, q[j - a].p)
        BY <3>3, <1>5, <1>8, <1>11, <1>4
      <4> QED
        BY <4>1, <3>3, <1>6, <1>7, <1>8
    <3>4. CASE i \notin 1..a /\ j \notin 1..a
      <4>1. i - a < j - a /\ i - a \in 1..c /\ j - a \in 1..c
        BY <3>1, <3>4, <1>8, <1>4
      <4>2. Ord(q[i - a].p, q[j - a].p)
        BY <4>1, <3>4, <1>8 DEF Line, Sorted
      <4> QED
        BY <4>1, <4>2, <3>4, <1>7, <1>8
    <3> QED
      BY <3>1, <3>2, <3>3, <3>4, <1>4
  <2>2. Sorted(r)
    BY <1>2, <1>9 DEF Line, Sorted
  <2>3. ASSUME NEW i \in 1..Len(y), i < Len(y) PROVE y[i].bytes = Size
    <3>1. CASE i \in 1..a
      <4>1. x[i].bytes = Size
        <5>1. CASE i < Len(x)
          BY <5>1, <3>1, <1>4 DEF Line
        <5>2. CASE i = Len(x)
          BY <5>2, <3>1, <1>4, <1>11 DEF Line, m, Merged, a, c
        <5> QED
          BY <5>1, <5>2, <3>1, <1>4
      <4> QED
        BY <4>1, <3>1, <1>6
    <3>2. CASE i \notin 1..a
      <4>1. i - a <= k /\ i - a \in 1..c
        BY <2>3, <3>2, <1>8, <1>1, <1>4, <1>9
      <4> QED
        BY <4>1, <3>2, <1>7, <1>8 DEF Out
    <3> QED
      BY <3>1, <3>2
  <2>4. ASSUME NEW i \in 1..Len(r), 1 < i PROVE r[i].left = Size
    <3>1. r[i].left = q[i + k].left
      BY <2>4, <1>2
    <3>2. i + k \in 1..Len(q) /\ k \in Nat
      BY <1>9
    <3>3. 1 < i + k
      BY <2>4, <3>2
    <3> QED
      BY <3>1, <3>2, <3>3 DEF Line
  <2>5. ASSUME n > 0 PROVE Cut(y, r)
    <3>1. c = k + 1 /\ k < Len(q) /\ Len(r) > 0 /\ Len(y) > 0 /\ Len(y) = a + c
      BY <2>5, <1>1, <1>4, <1>9
    <3>2. y[Len(y)].p = q[k + 1].p /\ y[Len(y)].bytes = Size - q[k + 1].left + n
      BY SMTT(20), <3>1, <1>7, <1>4, <1>9 DEF Out
    <3>3. r[1].p = q[k + 1].p /\ r[1].left = q[k + 1].left - n
      BY <3>1, <1>2, <1>9
    <3>4. q[k + 1].left \in 1..Size
      BY <3>1, <1>3, <1>9
    <3> QED
      BY SMTT(20), <3>1, <3>2, <3>3, <3>4, <1>1, <1>2, <1>9 DEF Cut
  <2>6. ASSUME n = 0 PROVE y[Len(y)].bytes = Size /\ (Len(r) > 0 => r[1].left = Size)
    <3>1. c = k /\ k > 0 /\ Len(y) = a + c
      BY <2>6, <1>1, <1>4, <1>11
    <3>2. y[Len(y)].bytes = Size
      BY <3>1, <1>7, <1>4 DEF Out
    <3>3. ASSUME Len(r) > 0 PROVE r[1].left = Size
      <4>1. k + 1 \in 1..Len(q) /\ 1 < k + 1 /\ 1 \in 1..Len(r)
        BY <3>1, <3>3, <1>9, <1>2
      <4>2. q[k + 1].left = Size
        BY <4>1 DEF Line
      <4> QED
        BY <4>1, <4>2, <2>6, <1>2, <1>9
    <3> QED
      BY <3>2, <3>3
  <2>7. ASSUME NEW i \in 1..Len(y), NEW j \in 1..Len(r)
        PROVE  Ord(y[i].p, r[j].p) \/ (i = Len(y) /\ j = 1 /\ y[i].bytes # Size)
    <3>1. r[j].p = q[j + k].p /\ j + k \in 1..Len(q)
      BY <1>2, <1>9
    <3>2. CASE i \in 1..a
      BY <3>1, <3>2, <1>5, <1>6, <1>11, <1>4
    <3>3. CASE i \notin 1..a
      <4>1. i - a \in 1..c /\ i - a \in 1..Len(q) /\ y[i].p = q[i - a].p
            /\ y[i].bytes = Out(q, i - a, k, n)
        BY <3>3, <1>7, <1>8
      <4>2. CASE i - a < j + k
        BY <4>1, <4>2, <3>1 DEF Line, Sorted
      <4>3. CASE ~(i - a < j + k)
        <5>1. i - a = k + 1 /\ j = 1 /\ c = k + 1 /\ n > 0 /\ i = Len(y) /\ k < Len(q)
          BY SMTT(20), <4>1, <4>3, <3>1, <1>1, <1>4, <1>9
        <5>2. y[i].bytes = Size - q[k + 1].left + n /\ q[k + 1].left \in 1..Size
          BY <5>1, <4>1, <1>3, <1>9 DEF Out
        <5> QED
          BY SMTT(20), <5>1, <5>2, <1>9
      <4> QED
        BY <4>2, <4>3
    <3> QED
      BY <3>2, <3>3
  <2>8. Line(y, r)
    <3>1. y # <<>> => y[Len(y)].bytes = Size \/ Cut(y, r)
      BY <2>5, <2>6, <1>9
    <3>2. r # <<>> => r[1].left = Size \/ Cut(y, r)
      BY <2>5, <2>6, <1>2, <1>9
    <3> QED
      BY <2>1, <2>2, <2>3, <2>4, <2>7, <3>1, <3>2 DEF Line
  <2>9. ASSUME NEW i \in 1..Len(y)
        PROVE  \/ \E j \in 1..Len(x) : y[i].p = x[j].p
               \/ \E j \in 1..Len(q) : y[i].p = q[j].p
    <3>1. CASE i \in 1..a
      BY <3>1, <1>4, <1>6
    <3>2. CASE i \notin 1..a
      BY <3>2, <1>7, <1>8
    <3> QED
      BY <3>1, <3>2
  <2> QED
    BY <2>8, <2>9, <1>1, <1>2 DEF From
<1> QED
  BY <1>10, <1>11, <1>4

LEMMA QueueEntries ==
    ASSUME NEW h \in Seq(Buffer), NEW l \in Seq(Buffer)
    PROVE  /\ h \o l \in Seq(Buffer) /\ Len(h \o l) = Len(h) + Len(l)
           /\ \A i \in 1..Len(h) : (h \o l)[i] = h[i]
           /\ \A i \in 1..Len(l) : (h \o l)[Len(h) + i] = l[i]
BY ConcatProperties

\* A package put into the queue of a socket behind all of its priority.
LEMMA InsertLine ==
    ASSUME NEW x \in Seq(Piece), NEW q \in Seq(Buffer), NEW r \in Seq(Buffer), Line(x, q),
           NEW p \in Package, NEW b, b = [p |-> p, left |-> Size],
           NEW c \in 0..Len(q), Len(r) = Len(q) + 1,
           \A i \in 1..c : r[i] = q[i],
           r[c + 1] = b,
           \A i \in (c + 1)..Len(q) : r[i + 1] = q[i],
           \A i \in (c + 1)..Len(q) : q[i].p.low # p.low /\ q[i].left = Size,
           \A i \in 1..Len(x) : x[i].p.n < p.n,
           \A i \in 1..Len(q) : q[i].p.n < p.n
    PROVE  Line(x, r)
<1>1. Len(x) \in Nat /\ Len(q) \in Nat
  OBVIOUS
<1>2. b.p = p /\ b.left = Size
  OBVIOUS
<1>3. ASSUME NEW i \in 1..Len(r)
      PROVE  \/ i \in 1..c /\ i \in 1..Len(q) /\ r[i] = q[i]
             \/ i = c + 1 /\ r[i] = b
             \/ i > c + 1 /\ i - 1 \in (c + 1)..Len(q) /\ i - 1 \in 1..Len(q) /\ r[i] = q[i - 1]
  <2>1. CASE i \in 1..c
    BY <2>1, <1>1
  <2>2. CASE i = c + 1
    BY <2>2
  <2>3. CASE i > c + 1
    <3>1. i - 1 \in (c + 1)..Len(q) /\ i = (i - 1) + 1 /\ i - 1 \in 1..Len(q)
      BY <2>3, <1>1
    <3>2. r[(i - 1) + 1] = q[i - 1]
      BY <3>1
    <3> QED
      BY <2>3, <3>1, <3>2
  <2> QED
    BY <2>1, <2>2, <2>3, <1>1
<1>4. Sorted(r)
  <2>1. SUFFICES ASSUME NEW i \in 1..Len(r), NEW j \in 1..Len(r), i < j
                 PROVE  Ord(r[i].p, r[j].p)
    BY DEF Sorted
  <2>2. CASE j = c + 1
    <3>1. i \in 1..Len(q) /\ r[i] = q[i] /\ r[j].p = p
      BY <2>1, <2>2, <1>1, <1>2, <1>3
    <3> QED
      BY <3>1 DEF Ord
  <2>3. CASE i = c + 1
    <3>1. r[j] = q[j - 1] /\ j - 1 \in (c + 1)..Len(q) /\ r[i].p = p
      BY <2>1, <2>3, <1>1, <1>2, <1>3
    <3> QED
      BY <3>1 DEF Ord
  <2>4. CASE i # c + 1 /\ j # c + 1
    <3>0. ASSUME NEW a \in 1..Len(r), a # c + 1
          PROVE  \E g \in 1..Len(q) : r[a] = q[g] /\ ((g = a /\ a <= c) \/ (g = a - 1 /\ a > c + 1))
      <4>1. CASE a \in 1..c
        <5>1. a \in 1..Len(q) /\ a <= c /\ r[a] = q[a]
          BY <4>1, <1>1
        <5> QED
          BY <5>1
      <4>2. CASE a > c + 1
        <5>1. a - 1 \in 1..Len(q) /\ r[a] = q[a - 1]
          BY <4>2, <1>1, <1>3
        <5> QED
          BY <4>2, <5>1
      <4> QED
        BY <4>1, <4>2, <3>0, <1>1
    <3>1. PICK g \in 1..Len(q) : r[i] = q[g] /\ ((g = i /\ i <= c) \/ (g = i - 1 /\ i > c + 1))
      BY <2>4, <3>0
    <3>2. PICK h \in 1..Len(q) : r[j] = q[h] /\ ((h = j /\ j <= c) \/ (h = j - 1 /\ j > c + 1))
      BY <2>4, <3>0
    <3>3. g < h
      BY <3>1, <3>2, <2>1, <2>4, <1>1
    <3> QED
      BY <3>1, <3>2, <3>3 DEF Line, Sorted
  <2> QED
    BY <2>2, <2>3, <2>4
<1>5. ASSUME NEW i \in 1..Len(r), 1 < i PROVE r[i].left = Size
  <2>1. CASE i < c + 1
    BY SMTT(20), <1>5, <2>1, <1>1, <1>3 DEF Line
  <2>2. CASE i = c + 1
    BY <2>2, <1>2
  <2>3. CASE i > c + 1
    <3>0. i \notin 1..c /\ i # c + 1
      BY <2>3, <1>1
    <3>1. i - 1 \in (c + 1)..Len(q) /\ r[i] = q[i - 1]
      BY <3>0, <1>3
    <3> QED
      BY <3>1
  <2> QED
    BY <2>1, <2>2, <2>3, <1>1
<1>6. ASSUME x # <<>>, c = 0 PROVE x[Len(x)].bytes = Size
  <2>1. ASSUME Cut(x, q) PROVE FALSE
    <3>1. 1 \in 1..Len(q) /\ q[1].left = Size /\ Len(x) \in 1..Len(x)
      BY <2>1, <1>6, <1>1 DEF Cut
    <3>2. x[Len(x)].bytes \in 1..Size
      BY <3>1, PieceFields
    <3> QED
      BY <2>1, <3>1, <3>2 DEF Cut
  <2> QED
    BY <2>1, <1>6 DEF Line
<1>7. ASSUME c > 0 PROVE r[1] = q[1] /\ q # <<>> /\ (Cut(x, q) => Cut(x, r))
  BY <1>7, <1>1 DEF Cut
<1>8. ASSUME NEW i \in 1..Len(x), NEW j \in 1..Len(r)
      PROVE  Ord(x[i].p, r[j].p) \/ (i = Len(x) /\ j = 1 /\ x[i].bytes # Size)
  <2>1. CASE j = c + 1
    BY <2>1, <1>2 DEF Ord
  <2>2. CASE j \in 1..c
    BY <2>2, <1>3 DEF Line
  <2>3. CASE j > c + 1
    <3>1. j - 1 \in 1..Len(q) /\ r[j] = q[j - 1]
      BY <2>3, <1>1, <1>3
    <3>2. Ord(x[i].p, q[j - 1].p) \/ (i = Len(x) /\ j - 1 = 1 /\ x[i].bytes # Size)
      BY <3>1 DEF Line
    <3>3. ~(i = Len(x) /\ j - 1 = 1 /\ x[i].bytes # Size)
      BY <2>3, <1>6, <1>1
    <3> QED
      BY <3>1, <3>2, <3>3
  <2> QED
    BY <2>1, <2>2, <2>3, <1>1
<1>9. x # <<>> => x[Len(x)].bytes = Size \/ Cut(x, r)
  BY <1>1, <1>6, <1>7 DEF Line
<1>10. r # <<>> => r[1].left = Size \/ Cut(x, r)
  <2>1. CASE c = 0
    BY <2>1, <1>2
  <2>2. CASE c > 0
    BY <2>2, <1>7 DEF Line
  <2> QED
    BY <2>1, <2>2
<1> QED
  BY <1>4, <1>5, <1>8, <1>9, <1>10 DEF Line

-----------------------------------------------------------------------------
(* One socket                                                              *)

LEMMA SocketFields ==
    ASSUME NEW s \in Socket
    PROVE  /\ s.type \in SocketType /\ s.id \in 0..MaxId /\ s.write \in BOOLEAN
           /\ s.high \in Seq(Buffer) /\ s.low \in Seq(Buffer) /\ s.wire \in Seq(Piece)
           /\ Queue(s) \in Seq(Buffer)
BY ConcatProperties DEF Socket, Queue

LEMMA EmptyLine ==
    ASSUME NEW s, Empty(s), s.wire = <<>>
    PROVE  LineInv(s) /\ Packages(s) = {}
<1>1. s.high = <<>> /\ s.low = <<>> /\ s.wire = <<>>
  BY DEF Empty
<1>2. Packages(s) = {}
  BY <1>1 DEF Packages
<1>3. Queue(s) = <<>>
  BY <1>1 DEF Queue
<1>4. Line(<<>>, <<>>)
  BY DEF Line, Sorted
<1> QED
  BY <1>1, <1>2, <1>3, <1>4 DEF LineInv

LEMMA CloseOK ==
    ASSUME NEW s \in Socket, NEW r, r = Force_close(s)
    PROVE  /\ r \in Socket /\ LineInv(r) /\ ModeInv(r) /\ Packages(r) = {}
           /\ r.type = "INVALID" /\ r.id = s.id /\ Empty(r)
<1>1. /\ r.type = "INVALID" /\ r.id = s.id /\ r.high = <<>> /\ r.low = <<>>
      /\ r.write = FALSE /\ r.wire = <<>> /\ r \in Socket
  <2>1. r = [type |-> "INVALID", id |-> s.id, high |-> <<>>, low |-> <<>>, write |-> FALSE,
             wire |-> <<>>]
    BY DEF Force_close, Socket
  <2>2. s.id \in 0..MaxId
    BY SocketFields
  <2>3. <<>> \in Seq(Buffer) /\ <<>> \in Seq(Piece)
    OBVIOUS
  <2>4. r \in Socket
    BY <2>1, <2>2, <2>3 DEF Socket, SocketType
  <2> QED
    BY <2>1, <2>4
<1> QED
  BY <1>1, EmptyLine DEF ModeInv, Empty

\* A package is that of an entry of the wire or of the queue.
LEMMA PackagesOf ==
    ASSUME NEW s \in Socket
    PROVE  \A p : p \in Packages(s) <=>
              \/ \E i \in 1..Len(s.wire) : p = s.wire[i].p
              \/ \E i \in 1..Len(Queue(s)) : p = Queue(s)[i].p
<1> DEFINE h == s.high
           l == s.low
           q == h \o l
<1>1. h \in Seq(Buffer) /\ l \in Seq(Buffer)
  BY SocketFields
<1>2. /\ Len(q) = Len(h) + Len(l) /\ Len(h) \in Nat /\ Len(l) \in Nat
      /\ \A i \in 1..Len(h) : q[i] = h[i]
      /\ \A i \in 1..Len(l) : q[Len(h) + i] = l[i]
  <2> HIDE DEF h, l
  <2> QED
    BY <1>1, QueueEntries
<1> SUFFICES ASSUME NEW p
             PROVE  p \in Packages(s) <=>
                       \/ \E i \in 1..Len(s.wire) : p = s.wire[i].p
                       \/ \E i \in 1..Len(q) : p = q[i].p
  BY DEF Queue
<1>3. p \in Packages(s) <=> \/ \E i \in 1..Len(s.wire) : p = s.wire[i].p
                            \/ \E i \in 1..Len(h) : p = h[i].p
                            \/ \E i \in 1..Len(l) : p = l[i].p
  BY DEF Packages
<1> HIDE DEF h, l, q
<1>4. ASSUME NEW i \in 1..Len(h), p = h[i].p PROVE \E j \in 1..Len(q) : p = q[j].p
  <2>1. i \in 1..Len(q) /\ q[i] = h[i]
    BY <1>2
  <2> QED
    BY <2>1, <1>4
<1>5. ASSUME NEW i \in 1..Len(l), p = l[i].p PROVE \E j \in 1..Len(q) : p = q[j].p
  <2>1. Len(h) + i \in 1..Len(q) /\ q[Len(h) + i] = l[i]
    BY <1>2
  <2> QED
    BY <2>1, <1>5
<1>6. ASSUME NEW j \in 1..Len(q), p = q[j].p
      PROVE  (\E i \in 1..Len(h) : p = h[i].p) \/ (\E i \in 1..Len(l) : p = l[i].p)
  <2>1. CASE j <= Len(h)
    <3>1. j \in 1..Len(h) /\ q[j] = h[j]
      BY <2>1, <1>2
    <3> QED
      BY <3>1, <1>6
  <2>2. CASE j > Len(h)
    <3>1. j - Len(h) \in 1..Len(l) /\ q[Len(h) + (j - Len(h))] = l[j - Len(h)]
          /\ Len(h) + (j - Len(h)) = j
      BY SMTT(20), <2>2, <1>2
    <3> QED
      BY <3>1, <1>6
  <2> QED
    BY <2>1, <2>2, <1>2
<1> QED
  BY <1>3, <1>4, <1>5, <1>6

LEMMA SameBuffers ==
    ASSUME NEW q \in Seq(Buffer), NEW r \in Seq(Buffer), Len(q) = Len(r),
           \A i \in 1..Len(q) : q[i].p = r[i].p /\ q[i].left = r[i].left
    PROVE  q = r
<1>1. ASSUME NEW i \in 1..Len(q) PROVE q[i] = r[i]
  <2>1. q[i] \in Buffer /\ r[i] \in Buffer
    OBVIOUS
  <2> QED
    BY <2>1, BufferFields
<1> QED
  BY <1>1

\* What is left of two lists, when the first is not all taken and when it is.
LEMMA RestHigh ==
    ASSUME NEW h \in Seq(Buffer), NEW l \in Seq(Buffer), NEW k, NEW n,
           Takes(h \o l, k, n), k < Len(h)
    PROVE  Rest(h, k, n) \in Seq(Buffer) /\ Rest(h, k, n) \o l = Rest(h \o l, k, n)
<1> DEFINE q == h \o l
           f == Rest(h, k, n)
           r == Rest(q, k, n)
<1>1. /\ q \in Seq(Buffer) /\ Len(q) = Len(h) + Len(l) /\ Len(h) \in Nat /\ Len(l) \in Nat
      /\ \A i \in 1..Len(h) : q[i] = h[i]
      /\ \A i \in 1..Len(l) : q[Len(h) + i] = l[i]
  BY QueueEntries
<1>2. r = Rest(q, k, n) /\ f = Rest(h, k, n) /\ Takes(q, k, n)
  OBVIOUS
<1> HIDE DEF q, f, r
<1>3. k \in Nat /\ n \in Nat /\ k < Len(q) /\ k + 1 \in 1..Len(h)
  BY <1>1, <1>2 DEF Takes
<1>4. Takes(h, k, n)
  BY <1>1, <1>2, <1>3 DEF Takes
<1>5. /\ f \in Seq(Buffer) /\ Len(f) = Len(h) - k
      /\ \A i \in 1..Len(f) :
            /\ f[i].p = h[i + k].p
            /\ f[i].left = IF i = 1 THEN h[1 + k].left - n ELSE h[i + k].left
  BY <1>2, <1>4, RestEntries
<1>6. /\ r \in Seq(Buffer) /\ Len(r) = Len(q) - k
      /\ \A i \in 1..Len(r) :
            /\ r[i].p = q[i + k].p
            /\ r[i].left = IF i = 1 THEN q[1 + k].left - n ELSE q[i + k].left
  BY <1>1, <1>2, RestEntries
<1> DEFINE g == f \o l
<1>7. f \in Seq(Buffer)
  BY <1>5
<1>8. /\ g \in Seq(Buffer) /\ Len(g) = Len(f) + Len(l)
      /\ \A i \in 1..Len(f) : g[i] = f[i]
      /\ \A i \in 1..Len(l) : g[Len(f) + i] = l[i]
  BY <1>7, QueueEntries
<1> HIDE DEF g
<1>9. Len(g) = Len(r)
  BY <1>1, <1>3, <1>5, <1>6, <1>8
<1>10. ASSUME NEW i \in 1..Len(g) PROVE g[i].p = r[i].p /\ g[i].left = r[i].left
  <2>1. r[i].p = q[i + k].p /\ r[i].left = IF i = 1 THEN q[1 + k].left - n ELSE q[i + k].left
    BY <1>6, <1>9
  <2>2. CASE i <= Len(h) - k
    <3>1. i \in 1..Len(f) /\ i + k \in 1..Len(h)
      BY <2>2, <1>1, <1>3, <1>5
    <3>2. g[i] = f[i] /\ q[i + k] = h[i + k] /\ q[1 + k] = h[1 + k]
      BY <3>1, <1>1, <1>3, <1>8
    <3> QED
      BY <2>1, <3>1, <3>2, <1>5
  <2>3. CASE i > Len(h) - k
    <3> DEFINE j == i - (Len(h) - k)
    <3>1. j \in 1..Len(l) /\ i = Len(f) + j /\ i + k = Len(h) + j /\ i # 1
      BY <2>3, <1>1, <1>3, <1>5, <1>8
    <3>2. g[i] = l[j] /\ q[i + k] = l[j]
      BY <3>1, <1>1, <1>8
    <3> QED
      BY <2>1, <3>1, <3>2
  <2> QED
    BY <2>2, <2>3, <1>1, <1>3
<1>11. g = r
  BY <1>6, <1>8, <1>9, <1>10, SameBuffers
<1> QED
  BY <1>7, <1>11 DEF g, r, f, q

LEMMA RestLow ==
    ASSUME NEW h \in Seq(Buffer), NEW l \in Seq(Buffer), NEW k, NEW n,
           Takes(h \o l, k, n), ~(k < Len(h))
    PROVE  /\ Takes(l, k - Len(h), n)
           /\ Rest(l, k - Len(h), n) = Rest(h \o l, k, n)
<1> DEFINE q == h \o l
           c == k - Len(h)
           f == Rest(l, c, n)
           r == Rest(q, k, n)
<1>1. /\ q \in Seq(Buffer) /\ Len(q) = Len(h) + Len(l) /\ Len(h) \in Nat /\ Len(l) \in Nat
      /\ \A i \in 1..Len(h) : q[i] = h[i]
      /\ \A i \in 1..Len(l) : q[Len(h) + i] = l[i]
  BY QueueEntries
<1>2. r = Rest(q, k, n) /\ f = Rest(l, c, n) /\ Takes(q, k, n) /\ c = k - Len(h)
  OBVIOUS
<1> HIDE DEF q, f, r, c
<1>3. k \in Nat /\ n \in Nat /\ c \in 0..Len(l) /\ k = Len(h) + c /\ n \in 0..(Size - 1)
  BY <1>1, <1>2 DEF Takes
<1>4. Takes(l, c, n)
  <2>1. CASE c < Len(l)
    <3>0. c + 1 \in 1..Len(l) /\ k + 1 = Len(h) + (c + 1) /\ k < Len(q)
      BY <2>1, <1>1, <1>3
    <3>1. q[k + 1] = l[c + 1] /\ k < Len(q)
      BY <3>0, <1>1
    <3> QED
      BY <2>1, <3>1, <1>2, <1>3 DEF Takes
  <2>2. CASE c = Len(l)
    BY <2>2, <1>1, <1>2, <1>3 DEF Takes
  <2> QED
    BY <2>1, <2>2, <1>3, <1>1
<1>5. /\ f \in Seq(Buffer) /\ Len(f) = Len(l) - c
      /\ \A i \in 1..Len(f) :
            /\ f[i].p = l[i + c].p
            /\ f[i].left = IF i = 1 THEN l[1 + c].left - n ELSE l[i + c].left
  <2>1. f = Rest(l, c, n)
    BY <1>2
  <2> QED
    BY <2>1, <1>4, RestEntries
<1>6. /\ r \in Seq(Buffer) /\ Len(r) = Len(q) - k
      /\ \A i \in 1..Len(r) :
            /\ r[i].p = q[i + k].p
            /\ r[i].left = IF i = 1 THEN q[1 + k].left - n ELSE q[i + k].left
  <2>1. r = Rest(q, k, n)
    BY <1>2
  <2>2. q \in Seq(Buffer)
    BY <1>1
  <2>3. Takes(q, k, n)
    BY <1>2
  <2> QED
    BY <2>1, <2>2, <2>3, RestEntries
<1>7. Len(f) = Len(r)
  BY <1>1, <1>3, <1>5, <1>6
<1>8. ASSUME NEW i \in 1..Len(f) PROVE f[i].p = r[i].p /\ f[i].left = r[i].left
  <2>1. i + c \in 1..Len(l) /\ 1 + c \in 1..Len(l) /\ i + k = Len(h) + (i + c)
        /\ 1 + k = Len(h) + (1 + c)
    BY <1>1, <1>3, <1>5
  <2>2. q[i + k] = l[i + c] /\ q[1 + k] = l[1 + c]
    BY <2>1, <1>1
  <2>3. r[i].p = q[i + k].p /\ r[i].left = IF i = 1 THEN q[1 + k].left - n ELSE q[i + k].left
    BY <1>6, <1>7
  <2> QED
    BY <2>2, <2>3, <1>5
<1>9. f = r
  BY <1>5, <1>6, <1>7, <1>8, SameBuffers
<1> QED
  BY <1>4, <1>9 DEF r, f, q, c

\* send_buffer keeps the line of the socket, and turns its write event off only when nothing
\* is left.
LEMMA SendBufferOK ==
    ASSUME NEW s \in Socket, LineInv(s), NEW a \in Answers(s),
           NEW r, r = Send_buffer(s, a[1], a[2])
    PROVE  /\ r \in Socket /\ LineInv(r) /\ r.id = s.id /\ Packages(r) \subseteq Packages(s)
           /\ \/ r = Force_close(s)
              \/ r.type = s.type /\ r.write = s.write
              \/ r.type = s.type /\ s.type # "HALFCLOSE" /\ Empty(r)
<1> DEFINE k == a[1]
           n == a[2]
           h == s.high
           l == s.low
           x == s.wire
           q == h \o l
           y == Join(x, Pieces(q, k, n))
<1>1. /\ h \in Seq(Buffer) /\ l \in Seq(Buffer) /\ x \in Seq(Piece) /\ q \in Seq(Buffer)
      /\ s.type \in SocketType /\ s.id \in 0..MaxId /\ s.write \in BOOLEAN
  BY SocketFields DEF Queue
<1>2. Takes(q, k, n)
  BY DEF Answers, Queue, Takes
<1>3. /\ Line(x, q) /\ \A i \in 1..Len(l) : l[i].p.low /\ l[i].left = Size
  BY DEF LineInv, Queue
<1> DEFINE w == Rest(q, k, n)
<1>4. y = Join(x, Pieces(q, k, n)) /\ w = Rest(q, k, n) /\ q = h \o l
  OBVIOUS
<1>5. r = IF k < Len(h) THEN [s EXCEPT !.high = Rest(h, k, n), !.wire = y]
          ELSE IF l # <<>>
          THEN Raise_uncomplete([s EXCEPT !.high = <<>>, !.low = Rest(l, k - Len(h), n),
                                          !.wire = y])
          ELSE IF s.type = "HALFCLOSE" THEN Force_close(s)
          ELSE [s EXCEPT !.high = <<>>, !.write = FALSE, !.wire = y]
  BY DEF Send_buffer, Queue
<1>6. l = s.low /\ <<>> \in Seq(Buffer)
  OBVIOUS
<1>7. \A p : p \in Packages(s) <=> \/ \E i \in 1..Len(x) : p = x[i].p
                                   \/ \E i \in 1..Len(q) : p = q[i].p
  BY PackagesOf DEF Queue
<1>8. \A p \in Packages(s) : p.id = s.id
  BY DEF LineInv
<1> HIDE DEF k, n, h, l, x, q, y, w
<1>9. /\ y \in Seq(Piece) /\ w \in Seq(Buffer) /\ Line(y, w) /\ From(y, x, q)
  <2>1. x \in Seq(Piece)
    BY <1>1
  <2>2. q \in Seq(Buffer)
    BY <1>1
  <2>3. Line(x, q)
    BY <1>3
  <2>4. y = Join(x, Pieces(q, k, n))
    BY <1>4
  <2>5. w = Rest(q, k, n)
    BY <1>4
  <2> QED
    BY <2>1, <2>2, <2>3, <2>4, <2>5, <1>2, SendLine
<1>10. /\ Len(w) = Len(q) - k
       /\ \A i \in 1..Len(w) :
             /\ w[i].p = q[i + k].p
             /\ w[i].left = IF i = 1 THEN q[1 + k].left - n ELSE q[i + k].left
  <2>2. q \in Seq(Buffer)
    BY <1>1
  <2>5. w = Rest(q, k, n)
    BY <1>4
  <2> QED
    BY <2>2, <2>5, <1>2, RestEntries
<1>11. ASSUME NEW v \in Socket, Queue(v) = w, v.wire = y, v.id = s.id,
              \A i \in 1..Len(v.low) : v.low[i].p.low /\ v.low[i].left = Size
       PROVE  LineInv(v) /\ Packages(v) \subseteq Packages(s)
  <2>1. ASSUME NEW p \in Packages(v) PROVE p \in Packages(s)
    <3>1. \/ \E i \in 1..Len(y) : p = y[i].p
          \/ \E i \in 1..Len(w) : p = w[i].p
      BY <1>11, PackagesOf
    <3>2. CASE \E i \in 1..Len(y) : p = y[i].p
      BY <3>2, <1>7, <1>9 DEF From
    <3>3. ASSUME NEW i \in 1..Len(w), p = w[i].p PROVE p \in Packages(s)
      <4>1. i + k \in 1..Len(q) /\ p = q[i + k].p
        BY <3>3, <1>1, <1>2, <1>10 DEF Takes
      <4> QED
        BY <4>1, <1>7
    <3> QED
      BY <3>1, <3>2, <3>3
  <2> QED
    BY <2>1, <1>8, <1>9, <1>11 DEF LineInv
<1>12. CASE k < Len(h)
  <2>1. Rest(h, k, n) \in Seq(Buffer) /\ Rest(h, k, n) \o l = w
    BY SMTT(20), <1>1, <1>2, <1>4, <1>12, RestHigh
  <2>2. r = [s EXCEPT !.high = Rest(h, k, n), !.wire = y]
    BY <1>5, <1>12
  <2>3. /\ r \in Socket /\ r.type = s.type /\ r.id = s.id /\ r.write = s.write
        /\ r.high = Rest(h, k, n) /\ r.low = l /\ r.wire = y
    BY <2>1, <2>2, <1>1, <1>6, <1>9 DEF Socket
  <2>4. Queue(r) = w
    BY <2>1, <2>3 DEF Queue
  <2> QED
    BY <2>3, <2>4, <1>3, <1>11
<1>13. CASE ~(k < Len(h)) /\ l # <<>>
  <2> DEFINE f == Rest(l, k - Len(h), n)
             v == [s EXCEPT !.high = <<>>, !.low = f, !.wire = y]
  <2>1. f = w /\ Takes(l, k - Len(h), n)
    BY <1>1, <1>2, <1>4, <1>13, RestLow
  <2>2. r = Raise_uncomplete(v)
    BY <1>5, <1>13
  <2>3. f \in Seq(Buffer)
    BY <2>1, <1>9
  <2>4. \A i \in 1..Len(f) : f[i].p.low /\ (1 < i => f[i].left = Size)
    <3> DEFINE c == k - Len(h)
    <3>1. /\ Len(f) = Len(l) - c
          /\ \A i \in 1..Len(f) :
                /\ f[i].p = l[i + c].p
                /\ f[i].left = IF i = 1 THEN l[1 + c].left - n ELSE l[i + c].left
      BY <1>1, <2>1, RestEntries
    <3>2. \A i \in 1..Len(f) : i + c \in 1..Len(l)
      BY SMTT(20), <3>1, <2>1, <1>1 DEF Takes
    <3> HIDE DEF c, f
    <3> QED
      BY <3>1, <3>2, <1>3
  <2>5. /\ v \in Socket /\ v.type = s.type /\ v.id = s.id /\ v.write = s.write
        /\ v.high = <<>> /\ v.low = f /\ v.wire = y
    <3> HIDE DEF f
    <3> QED
      BY <2>3, <1>1, <1>6, <1>9 DEF Socket
  <2> HIDE DEF f, v
  <2>6. CASE Uncomplete(f)
    <3>1. r = [v EXCEPT !.high = <<f[1]>>, !.low = Tail(f)]
      BY <2>2, <2>5, <2>6 DEF Raise_uncomplete
    <3>2. f # <<>>
      BY <2>6 DEF Uncomplete
    <3>3. <<f[1]>> \in Seq(Buffer) /\ Tail(f) \in Seq(Buffer)
      BY <2>3, <3>2
    <3>4. /\ r \in Socket /\ r.type = s.type /\ r.id = s.id /\ r.write = s.write
          /\ r.high = <<f[1]>> /\ r.low = Tail(f) /\ r.wire = y
      BY <3>1, <3>3, <2>5, <1>1, <1>9 DEF Socket
    <3>5. <<f[1]>> \o Tail(f) = f
      BY <2>3, <3>2
    <3>6. Queue(r) = w
      BY <3>4, <3>5, <2>1 DEF Queue
    <3>7. \A i \in 1..Len(Tail(f)) : Tail(f)[i].p.low /\ Tail(f)[i].left = Size
      <4>1. ASSUME NEW i \in 1..Len(Tail(f))
            PROVE  Tail(f)[i] = f[i + 1] /\ i + 1 \in 1..Len(f) /\ 1 < i + 1
        BY <2>3, <3>2
      <4> QED
        BY <4>1, <2>4
    <3> QED
      BY <3>4, <3>6, <3>7, <1>11
  <2>7. CASE ~Uncomplete(f)
    <3>1. r = v
      BY <2>2, <2>5, <2>7 DEF Raise_uncomplete
    <3>2. <<>> \o f = f
      BY <2>3
    <3>3. Queue(r) = w
      BY <3>1, <3>2, <2>1, <2>5 DEF Queue
    <3>4. \A i \in 1..Len(f) : f[i].p.low /\ f[i].left = Size
      BY <2>3, <2>4, <2>7 DEF Uncomplete
    <3> QED
      BY <3>1, <3>3, <3>4, <2>5, <1>11
  <2> QED
    BY <2>6, <2>7
<1>14. CASE ~(k < Len(h)) /\ l = <<>> /\ s.type = "HALFCLOSE"
  <2>1. r = Force_close(s)
    BY <1>5, <1>14
  <2> QED
    BY <2>1, CloseOK
<1>15. CASE ~(k < Len(h)) /\ l = <<>> /\ s.type # "HALFCLOSE"
  <2>1. r = [s EXCEPT !.high = <<>>, !.write = FALSE, !.wire = y]
    BY <1>5, <1>15
  <2>2. /\ r \in Socket /\ r.type = s.type /\ r.id = s.id
        /\ r.high = <<>> /\ r.low = <<>> /\ r.wire = y
    BY <2>1, <1>1, <1>6, <1>9, <1>15 DEF Socket
  <2>3. Len(w) = 0
    BY <1>1, <1>2, <1>4, <1>10, <1>15 DEF Takes
  <2>4. Queue(r) = w
    BY <2>2, <2>3, <1>9 DEF Queue
  <2>5. \A i \in 1..Len(r.low) : r.low[i].p.low /\ r.low[i].left = Size
    BY <2>2
  <2>6. LineInv(r) /\ Packages(r) \subseteq Packages(s)
    BY <2>2, <2>4, <2>5, <1>11
  <2> QED
    BY <2>2, <2>6, <1>15 DEF Empty
<1> QED
  BY <1>12, <1>13, <1>14, <1>15

\* A package that is put into one of the lists.
LEMMA AppendOK ==
    ASSUME NEW s \in Socket, LineInv(s), NEW p \in Package, p.id = s.id,
           \A o \in Packages(s) : o.n < p.n,
           NEW r, \/ p.low /\ r = Append_Low(s, p)
                  \/ (p.low => Empty(s)) /\ r = Append_High(s, p, 0)
    PROVE  /\ r \in Socket /\ LineInv(r) /\ Packages(r) \subseteq Packages(s) \cup {p}
           /\ r.type = s.type /\ r.id = s.id /\ r.write = s.write /\ ~Empty(r)
<1> DEFINE b == [p |-> p, left |-> Size]
           h == s.high
           l == s.low
           x == s.wire
           q == h \o l
           w == Queue(r)
<1>1. /\ h \in Seq(Buffer) /\ l \in Seq(Buffer) /\ x \in Seq(Piece) /\ q \in Seq(Buffer)
      /\ s.type \in SocketType /\ s.id \in 0..MaxId /\ s.write \in BOOLEAN
  BY SocketFields DEF Queue
<1>2. b \in Buffer /\ b.p = p /\ b.left = Size
  BY DEF Buffer
<1>3. Append(h, b) \in Seq(Buffer) /\ Append(l, b) \in Seq(Buffer)
  BY <1>1, <1>2
<1>4. /\ Line(x, q) /\ \A i \in 1..Len(l) : l[i].p.low /\ l[i].left = Size
      /\ \A o \in Packages(s) : o.id = s.id
  BY DEF LineInv, Queue
<1>5. \A o : o \in Packages(s) <=> \/ \E i \in 1..Len(x) : o = x[i].p
                                   \/ \E i \in 1..Len(q) : o = q[i].p
  BY PackagesOf DEF Queue
<1>6. /\ Len(q) = Len(h) + Len(l) /\ Len(h) \in Nat /\ Len(l) \in Nat
      /\ \A i \in 1..Len(h) : q[i] = h[i]
      /\ \A i \in 1..Len(l) : q[Len(h) + i] = l[i]
  <2> HIDE DEF h, l
  <2> QED
    BY <1>1, QueueEntries
<1>7. r.type = s.type /\ r.id = s.id /\ r.write = s.write /\ r.wire = x /\ r \in Socket
  <2>1. r = [s EXCEPT !.low = Append(l, b)] \/ r = [s EXCEPT !.high = Append(h, b)]
    BY DEF Append_Low, Append_High
  <2>2. \A e \in Seq(Buffer) : /\ [s EXCEPT !.low = e] \in Socket
                               /\ [s EXCEPT !.high = e] \in Socket
    BY DEF Socket
  <2>3. r \in Socket
    BY <2>1, <2>2, <1>3
  <2>4. r.type = s.type /\ r.id = s.id /\ r.write = s.write /\ r.wire = x
    BY <2>1 DEF Socket
  <2> QED
    BY <2>3, <2>4
<1>8. \/ p.low /\ r.high = h /\ r.low = Append(l, b)
      \/ (p.low => h = <<>> /\ l = <<>>) /\ r.high = Append(h, b) /\ r.low = l
  BY DEF Append_Low, Append_High, Socket, Empty
<1>9. w = r.high \o r.low /\ w \in Seq(Buffer)
  BY <1>7, SocketFields DEF Queue
<1>10. ASSUME NEW c \in 0..Len(q), Len(w) = Len(q) + 1,
              \A i \in 1..c : w[i] = q[i],
              w[c + 1] = b,
              \A i \in (c + 1)..Len(q) : w[i + 1] = q[i],
              \A i \in (c + 1)..Len(q) : q[i].p.low # p.low /\ q[i].left = Size
       PROVE  Line(x, w) /\ Packages(r) \subseteq Packages(s) \cup {p}
  <2> HIDE DEF b, h, l, x, q, w
  <2>1. \A i \in 1..Len(x) : x[i].p.n < p.n
    BY <1>5
  <2>2. \A i \in 1..Len(q) : q[i].p.n < p.n
    BY <1>5
  <2>3. x \in Seq(Piece)
    BY <1>1
  <2>4. q \in Seq(Buffer)
    BY <1>1
  <2>5. w \in Seq(Buffer)
    BY <1>9
  <2>6. Line(x, q)
    BY <1>4
  <2>7. b = [p |-> p, left |-> Size]
    BY DEF b
  <2>8. Line(x, w)
    BY ZenonT(40), <1>10, <2>1, <2>2, <2>3, <2>4, <2>5, <2>6, <2>7, InsertLine
  <2>9. ASSUME NEW o \in Packages(r) PROVE o \in Packages(s) \cup {p}
    <3>1. \/ \E i \in 1..Len(x) : o = x[i].p
          \/ \E i \in 1..Len(w) : o = w[i].p
      BY <1>7, PackagesOf DEF w
    <3>2. ASSUME NEW i \in 1..Len(w), o = w[i].p PROVE o \in Packages(s) \cup {p}
      <4>1. CASE i <= c
        <5>1. i \in 1..Len(q) /\ w[i] = q[i]
          BY <4>1, <1>10, <2>4
        <5> QED
          BY <5>1, <3>2, <1>5
      <4>2. CASE i = c + 1
        BY <4>2, <1>10, <3>2, <1>2
      <4>3. CASE i > c + 1
        <5>1. i - 1 \in (c + 1)..Len(q) /\ i - 1 \in 1..Len(q) /\ i = (i - 1) + 1
          BY <4>3, <1>10, <2>4
        <5>2. w[(i - 1) + 1] = q[i - 1]
          BY <5>1, <1>10
        <5> QED
          BY <5>1, <5>2, <3>2, <1>5
      <4> QED
        BY <4>1, <4>2, <4>3, <1>10, <2>4
    <3> QED
      BY <3>1, <3>2, <1>5
  <2> QED
    BY <2>8, <2>9
<1> HIDE DEF b, h, l, x, q, w
<1>11. CASE p.low /\ r.high = h /\ r.low = Append(l, b)
  <2> DEFINE e == Append(l, b)
  <2>1. /\ e \in Seq(Buffer) /\ Len(e) = Len(l) + 1 /\ e[Len(l) + 1] = b
        /\ \A i \in 1..Len(l) : e[i] = l[i]
    BY <1>1, <1>2, <1>3
  <2> HIDE DEF e
  <2>2. w = h \o e
    BY <1>9, <1>11 DEF e
  <2>3. /\ Len(w) = Len(h) + Len(e)
        /\ \A i \in 1..Len(h) : w[i] = h[i]
        /\ \A i \in 1..Len(e) : w[Len(h) + i] = e[i]
    <3>1. h \in Seq(Buffer)
      BY <1>1
    <3>2. e \in Seq(Buffer)
      BY <2>1
    <3> QED
      BY <3>1, <3>2, <2>2, QueueEntries
  <2>4. Len(w) = Len(q) + 1 /\ Len(q) \in 0..Len(q)
    BY <2>1, <2>3, <1>6
  <2>5. w[Len(q) + 1] = b
    <3>1. Len(q) + 1 = Len(h) + (Len(l) + 1) /\ Len(l) + 1 \in 1..Len(e)
      BY <2>1, <1>6
    <3> QED
      BY <3>1, <2>1, <2>3
  <2>6. ASSUME NEW i \in 1..Len(q) PROVE w[i] = q[i]
    <3>1. CASE i \in 1..Len(h)
      BY <3>1, <1>6, <2>3
    <3>2. CASE i \notin 1..Len(h)
      <4> DEFINE j == i - Len(h)
      <4>1. j \in 1..Len(l) /\ j \in 1..Len(e) /\ i = Len(h) + j
        BY <3>2, <1>6, <2>1
      <4>2. w[Len(h) + j] = e[j] /\ q[Len(h) + j] = l[j] /\ e[j] = l[j]
        BY <4>1, <1>6, <2>1, <2>3
      <4> QED
        BY <4>1, <4>2
    <3> QED
      BY <3>1, <3>2
  <2>7. \A i \in (Len(q) + 1)..Len(q) :
           w[i + 1] = q[i] /\ q[i].p.low # p.low /\ q[i].left = Size
    BY <1>6
  <2>8. Line(x, w) /\ Packages(r) \subseteq Packages(s) \cup {p}
    BY <2>4, <2>5, <2>6, <2>7, <1>10
  <2>9. \A i \in 1..Len(e) : e[i].p.low /\ e[i].left = Size
    <3>1. \A i \in 1..Len(e) : i \in 1..Len(l) \/ i = Len(l) + 1
      BY <2>1, <1>6
    <3> QED
      BY <3>1, <2>1, <1>2, <1>4, <1>11
  <2>10. LineInv(r)
    <3>1. \A o \in Packages(r) : o.id = r.id
      BY <2>8, <1>4, <1>7
    <3>2. r.low = e /\ r.wire = x /\ Queue(r) = w
      BY <1>7, <1>11 DEF e, w
    <3> QED
      BY <3>1, <3>2, <2>8, <2>9 DEF LineInv
  <2>11. r.low # <<>>
    BY SMTT(20), <2>1, <1>11, <1>6 DEF e
  <2> QED
    BY <2>8, <2>10, <2>11, <1>7 DEF Empty
<1>12. CASE (p.low => h = <<>> /\ l = <<>>) /\ r.high = Append(h, b) /\ r.low = l
  <2> DEFINE e == Append(h, b)
  <2>1. /\ e \in Seq(Buffer) /\ Len(e) = Len(h) + 1 /\ e[Len(h) + 1] = b
        /\ \A i \in 1..Len(h) : e[i] = h[i]
    BY <1>1, <1>2, <1>3
  <2> HIDE DEF e
  <2>2. w = e \o l
    BY <1>9, <1>12 DEF e
  <2>3. /\ Len(w) = Len(e) + Len(l)
        /\ \A i \in 1..Len(e) : w[i] = e[i]
        /\ \A i \in 1..Len(l) : w[Len(e) + i] = l[i]
    BY <2>1, <2>2, <1>1, QueueEntries
  <2>4. Len(w) = Len(q) + 1 /\ Len(h) \in 0..Len(q)
    BY <2>1, <2>3, <1>6
  <2>5. w[Len(h) + 1] = b
    BY <2>1, <2>3, <1>6
  <2>6. ASSUME NEW i \in 1..Len(h) PROVE w[i] = q[i]
    BY <2>1, <2>3, <1>6
  <2>7. ASSUME NEW i \in (Len(h) + 1)..Len(q)
        PROVE  w[i + 1] = q[i] /\ q[i].p.low # p.low /\ q[i].left = Size
    <3> DEFINE j == i - Len(h)
    <3>1. j \in 1..Len(l) /\ i = Len(h) + j /\ i + 1 = Len(e) + j
      BY <2>1, <1>6
    <3> HIDE DEF j
    <3>2. w[Len(e) + j] = l[j] /\ q[Len(h) + j] = l[j]
      BY <3>1, <2>3, <1>6
    <3>3. ~p.low
      BY <3>1, <1>12
    <3>4. l[j].p.low /\ l[j].left = Size
      BY <3>1, <1>4
    <3> QED
      BY <3>1, <3>2, <3>3, <3>4
  <2>8. Line(x, w) /\ Packages(r) \subseteq Packages(s) \cup {p}
    BY <2>4, <2>5, <2>6, <2>7, <1>10
  <2>10. LineInv(r)
    <3>1. \A o \in Packages(r) : o.id = r.id
      BY <2>8, <1>4, <1>7
    <3>2. r.low = l /\ r.wire = x /\ Queue(r) = w
      BY <1>7, <1>12 DEF w
    <3> QED
      BY <3>1, <3>2, <2>8, <1>4 DEF LineInv
  <2>11. r.high # <<>>
    BY <2>1, <1>12, <1>6 DEF e
  <2> QED
    BY <2>8, <2>10, <2>11, <1>7 DEF Empty
<1> QED
  BY <1>8, <1>11, <1>12

\* A package of which n bytes are written at once.
LEMMA WrittenOK ==
    ASSUME NEW s \in Socket, LineInv(s), Empty(s), NEW p \in Package, p.id = s.id,
           \A o \in Packages(s) : o.n < p.n, NEW n \in 0..Size,
           NEW r, r = Written(s, p, n)
    PROVE  /\ r \in Socket /\ LineInv(r) /\ Packages(r) \subseteq Packages(s) \cup {p}
           /\ r.type = s.type /\ r.id = s.id
           /\ (Empty(r) /\ r.write = s.write) \/ (~Empty(r) /\ r.write)
<1> DEFINE b == [p |-> p, left |-> Size]
           f == Append_High(s, p, 0)
           x == s.wire
           q == <<b>>
<1>1. /\ f \in Socket /\ LineInv(f) /\ Packages(f) \subseteq Packages(s) \cup {p}
      /\ f.type = s.type /\ f.id = s.id /\ f.write = s.write /\ ~Empty(f)
  BY AppendOK
<1>2. s.high = <<>> /\ s.low = <<>>
  BY DEF Empty
<1>3. b \in Buffer /\ b.p = p /\ b.left = Size /\ q \in Seq(Buffer) /\ Len(q) = 1 /\ q[1] = b
  BY DEF Buffer
<1>4. f.high = q /\ f.low = <<>> /\ f.wire = x
  <2>1. f = [s EXCEPT !.high = Append(@, b)]
    BY DEF Append_High
  <2>2. Append(<<>>, b) = q
    OBVIOUS
  <2> QED
    BY <2>1, <2>2, <1>2 DEF Socket
<1>5. Queue(f) = q
  <2>1. q \o <<>> = q
    BY <1>3, ConcatEmptySeq
  <2> QED
    BY <2>1, <1>4 DEF Queue
<1>6. x \in Seq(Piece) /\ Line(x, q)
  BY <1>1, <1>4, <1>5, SocketFields DEF LineInv
<1>7. CASE n = 0
  <2>1. r = [f EXCEPT !.write = TRUE]
    BY <1>7 DEF Written, Wrote
  <2>2. /\ r \in Socket /\ r.type = s.type /\ r.id = s.id /\ r.write = TRUE
        /\ r.high = q /\ r.low = <<>> /\ r.wire = x
    BY <2>1, <1>1, <1>4 DEF Socket
  <2> HIDE DEF f, q, x
  <2>3. Packages(r) = Packages(f) /\ Queue(r) = Queue(f)
    BY <2>2, <1>4 DEF Packages, Queue
  <2>4. ~Empty(r)
    BY <2>2, <1>1, <1>4 DEF Empty
  <2> QED
    BY <2>2, <2>3, <2>4, <1>1, <1>4 DEF LineInv
<1>8. ASSUME n > 0, NEW k, NEW m, k = (IF n = Size THEN 1 ELSE 0), m = (IF n = Size THEN 0 ELSE n),
             NEW y, y = Join(x, Pieces(q, k, m)), NEW w, w = Rest(q, k, m)
      PROVE  /\ r \in Socket /\ LineInv(r) /\ Packages(r) \subseteq Packages(s) \cup {p}
             /\ r.type = s.type /\ r.id = s.id
             /\ (Empty(r) /\ r.write = s.write) \/ (~Empty(r) /\ r.write)
  <2>1. Takes(q, k, m)
    BY <1>8, <1>3 DEF Takes
  <2>2. Pieces(q, k, m) = <<[p |-> p, bytes |-> n]>>
    BY <1>8, <1>3 DEF Pieces
  <2>3. y \in Seq(Piece) /\ w \in Seq(Buffer) /\ Line(y, w) /\ From(y, x, q)
    <3> HIDE DEF x, q
    <3>1. x \in Seq(Piece)
      BY <1>6
    <3>2. q \in Seq(Buffer)
      BY <1>3
    <3> QED
      BY <2>1, <3>1, <3>2, <1>6, <1>8, SendLine
  <2>4. Wrote(s, p, n) = [s EXCEPT !.wire = y]
    BY <2>2, <1>8 DEF Wrote
  <2>5. ASSUME NEW i \in 1..Len(w) PROVE w[i].p = p
    BY <2>5, <1>3, <1>8 DEF Rest
  <2>6. ASSUME NEW v \in Socket, Queue(v) = w, v.wire = y, v.id = s.id, v.low = <<>>
        PROVE  LineInv(v) /\ Packages(v) \subseteq Packages(s) \cup {p}
    <3>1. ASSUME NEW o \in Packages(v) PROVE o \in Packages(s) \cup {p}
      <4>1. \/ \E i \in 1..Len(y) : o = y[i].p
            \/ \E i \in 1..Len(w) : o = w[i].p
        BY <2>6, PackagesOf
      <4>2. ASSUME NEW i \in 1..Len(y), o = y[i].p PROVE o \in Packages(s) \cup {p}
        <5>1. \A j \in 1..Len(x) : x[j].p \in Packages(s)
          BY DEF Packages
        <5>2. \A j \in 1..Len(q) : q[j].p = p
          BY <1>3
        <5> HIDE DEF x, q
        <5> QED
          BY <4>2, <5>1, <5>2, <2>3 DEF From
      <4> QED
        BY <4>1, <4>2, <2>5
    <3>2. \A o \in Packages(s) : o.id = s.id
      BY DEF LineInv
    <3> QED
      BY <3>1, <3>2, <2>3, <2>6 DEF LineInv
  <2>7. CASE n = Size
    <3>1. r = [s EXCEPT !.wire = y]
      BY <2>4, <2>7 DEF Written
    <3>2. /\ r \in Socket /\ r.type = s.type /\ r.id = s.id /\ r.write = s.write
          /\ r.high = <<>> /\ r.low = <<>> /\ r.wire = y
      BY <3>1, <2>3, <1>2 DEF Socket
    <3>3. Len(w) = 0
      BY <2>7, <1>8, <1>3 DEF Rest
    <3>4. Queue(r) = w
      BY <3>2, <3>3, <2>3 DEF Queue
    <3> QED
      BY <3>2, <3>4, <2>6 DEF Empty
  <2>8. CASE n # Size
    <3> DEFINE e == [p |-> p, left |-> Size - n]
    <3>1. w = <<e>>
      BY <2>8, <1>8, <1>3 DEF Rest
    <3>2. r = [Append_High([s EXCEPT !.wire = y], p, n) EXCEPT !.write = TRUE]
      BY <2>4, <2>8 DEF Written
    <3>3. Append(<<>>, e) = <<e>>
      OBVIOUS
    <3> HIDE DEF e
    <3>4. Append_High([s EXCEPT !.wire = y], p, n) = [s EXCEPT !.wire = y, !.high = w]
      BY <3>1, <3>3, <1>2 DEF Append_High, Socket, e
    <3>5. r = [s EXCEPT !.wire = y, !.high = w, !.write = TRUE]
      BY <3>2, <3>4
    <3>6. /\ r \in Socket /\ r.type = s.type /\ r.id = s.id /\ r.write = TRUE
          /\ r.high = w /\ r.low = <<>> /\ r.wire = y
      BY <3>5, <2>3, <1>2 DEF Socket
    <3>7. w \o <<>> = w /\ w # <<>>
      BY <2>3, <3>1, ConcatEmptySeq
    <3>8. Queue(r) = w
      BY <3>6, <3>7 DEF Queue
    <3> QED
      BY <3>6, <3>7, <3>8, <2>6 DEF Empty
  <2> QED
    BY <2>7, <2>8
<1> QED
  BY <1>7, <1>8

-----------------------------------------------------------------------------
(* The slots and the pipe                                                  *)

LEMMA HashSlot ==
    ASSUME NEW id \in Nat
    PROVE  HASH_ID(id) \in Slot
BY DEF HASH_ID, Slot

LEMMA CommandFields ==
    ASSUME NEW m \in Command
    PROVE  /\ m.id \in Id /\ m.c \in {"S", "L", "O", "K", "D"}
           /\ m.c = "D" => m.p \in Package
BY DEF Command

LEMMA TailEntries ==
    ASSUME NEW S, NEW q \in Seq(S), q # <<>>
    PROVE  /\ Tail(q) \in Seq(S) /\ Len(Tail(q)) = Len(q) - 1 /\ Len(q) \in Nat /\ Len(q) > 0
           /\ Head(q) = q[1] /\ q[1] \in S
           /\ \A i \in 1..Len(Tail(q)) : i + 1 \in 1..Len(q) /\ Tail(q)[i] = q[i + 1]
OBVIOUS

\* A slot k that is not reserved before or after an event.
LEMMA SlotStep ==
    ASSUME Calm, NEW k \in Slot, NEW r \in Socket, LineInv(r), ModeInv(r),
           slot' = [slot EXCEPT ![k] = r], UNCHANGED <<alloc_id, pipe, claim, sent>>,
           slot[k].type # "RESERVE", r.type # "RESERVE", r.id = slot[k].id,
           Packages(r) \subseteq Packages(slot[k])
    PROVE  slot' \in [Slot -> Socket] /\ SlotsInv' /\ PipeInv' /\ ClaimInv' /\ SendInv'
<1>1. slot \in [Slot -> Socket] /\ pipe \in Seq(Command)
  BY DEF Calm, TypeOK
<1>2. slot' \in [Slot -> Socket] /\ slot'[k] = r /\ \A j \in Slot : j # k => slot'[j] = slot[j]
  BY <1>1
<1>3. SlotsInv'
  <2>1. \A j \in Slot : /\ LineInv(slot'[j]) /\ ModeInv(slot'[j])
                        /\ \A p \in Packages(slot'[j]) : p.n <= sent
    BY <1>2 DEF Calm, SlotsInv
  <2> QED
    BY <2>1 DEF SlotsInv
<1>4. PipeInv'
  <2>1. \A i \in 1..Len(pipe) : HASH_ID(pipe[i].id) \in Slot
    BY <1>1, CommandFields, HashSlot DEF Id
  <2>2. \A i \in 1..Len(pipe) : Opens(i) =>
           /\ At(pipe[i].id)'.type = "RESERVE" /\ At(pipe[i].id)'.id = pipe[i].id
           /\ claim[HASH_ID(pipe[i].id)] = 0
    BY <2>1, <1>2 DEF Calm, PipeInv, At
  <2>3. \A j \in Slot : slot'[j].id <= alloc_id
    BY <1>2 DEF Calm, PipeInv
  <2>4. \A j \in Slot : slot'[j].type = "RESERVE" /\ claim[j] = 0 =>
           /\ HASH_ID(slot'[j].id) = j
           /\ \E i \in 1..Len(pipe) : Opens(i) /\ pipe[i].id = slot'[j].id
    BY <1>2 DEF Calm, PipeInv
  <2> QED
    BY <2>2, <2>3, <2>4 DEF Calm, PipeInv, Opens, At
<1>5. SendInv'
  <2>1. \A j \in Slot : Packages(slot'[j]) \subseteq Packages(slot[j])
    BY <1>2
  <2> QED
    BY <2>1 DEF Calm, SendInv
<1>6. ClaimInv'
  BY <1>2 DEF Calm, ClaimInv
<1> QED
  BY <1>2, <1>3, <1>4, <1>5, <1>6

\* A command is taken, and slot k becomes r.
LEMMA TakeStep ==
    ASSUME Calm, pipe # <<>>, pipe' = Tail(pipe), UNCHANGED <<alloc_id, claim, sent>>,
           NEW k \in Slot, NEW r \in Socket, LineInv(r), ModeInv(r),
           slot' = [slot EXCEPT ![k] = r], r.id = slot[k].id,
           \/ ~Opens(1) /\ (r.type = "RESERVE" <=> slot[k].type = "RESERVE")
           \/ Opens(1) /\ k = HASH_ID(pipe[1].id) /\ r.type # "RESERVE",
           \A p \in Packages(r) : p \in Packages(slot[k]) \/ (pipe[1].c = "D" /\ p = pipe[1].p)
    PROVE  /\ slot' \in [Slot -> Socket] /\ pipe' \in Seq(Command)
           /\ SlotsInv' /\ PipeInv' /\ ClaimInv' /\ SendInv'
<1>1. slot \in [Slot -> Socket] /\ pipe \in Seq(Command)
  BY DEF Calm, TypeOK
<1>2. slot' \in [Slot -> Socket] /\ slot'[k] = r /\ \A j \in Slot : j # k => slot'[j] = slot[j]
  BY <1>1
<1>3. /\ pipe' \in Seq(Command) /\ Len(pipe') = Len(pipe) - 1 /\ Len(pipe) \in Nat
      /\ Len(pipe) > 0
      /\ \A i \in 1..Len(pipe') : i + 1 \in 1..Len(pipe) /\ pipe'[i] = pipe[i + 1]
  BY <1>1, TailEntries
<1>4. \A i \in 2..Len(pipe) : i - 1 \in 1..Len(pipe') /\ pipe'[i - 1] = pipe[i]
  BY <1>1, <1>3
<1>5. PipeInv
  BY DEF Calm
<1>6. \A i \in 1..Len(pipe) : HASH_ID(pipe[i].id) \in Slot
  BY <1>1, CommandFields, HashSlot DEF Id
<1>7. SlotsInv'
  <2>1. \A j \in Slot : LineInv(slot'[j]) /\ ModeInv(slot'[j])
    BY <1>2 DEF Calm, SlotsInv
  <2>2. pipe[1].c = "D" => pipe[1].p.n <= sent
    BY <1>3 DEF Calm, SendInv
  <2>3. \A j \in Slot : \A p \in Packages(slot'[j]) : p.n <= sent
    BY <1>2, <2>2 DEF Calm, SlotsInv
  <2> QED
    BY <2>1, <2>3 DEF SlotsInv
<1>8. PipeInv'
  <2>1. \A i \in 1..Len(pipe') : pipe'[i].id <= alloc_id
    BY <1>3, <1>5 DEF PipeInv
  <2>2. \A i, j \in 1..Len(pipe') : Opens(i)' /\ pipe'[i].id = pipe'[j].id => i <= j
    BY <1>3, <1>5 DEF PipeInv, Opens
  <2>3. ASSUME NEW i \in 1..Len(pipe'), Opens(i)'
        PROVE  /\ slot'[HASH_ID(pipe'[i].id)].type = "RESERVE"
               /\ slot'[HASH_ID(pipe'[i].id)].id = pipe'[i].id
               /\ claim[HASH_ID(pipe'[i].id)] = 0
    <3>1. i + 1 \in 1..Len(pipe) /\ pipe'[i] = pipe[i + 1] /\ Opens(i + 1)
      BY <1>3, <2>3 DEF Opens
    <3> DEFINE j == HASH_ID(pipe[i + 1].id)
    <3>2. /\ j \in Slot /\ slot[j].type = "RESERVE" /\ slot[j].id = pipe[i + 1].id
          /\ claim[j] = 0
      BY <3>1, <1>5, <1>6 DEF PipeInv, At
    <3>3. CASE j # k
      BY <3>1, <3>2, <3>3, <1>2
    <3>4. CASE j = k /\ ~Opens(1)
      BY <3>1, <3>2, <3>4, <1>2
    <3>5. CASE j = k /\ Opens(1)
      <4>1. 1 \in 1..Len(pipe) /\ slot[k].id = pipe[1].id
        BY <3>5, <1>3, <1>5 DEF PipeInv, At
      <4>2. i + 1 <= 1
        BY <3>1, <3>2, <3>5, <4>1, <1>5 DEF PipeInv
      <4> QED
        BY <4>2
    <3> QED
      BY <3>3, <3>4, <3>5
  <2>4. \A j \in Slot : slot'[j].id <= alloc_id
    BY <1>2, <1>5 DEF PipeInv
  <2>5. ASSUME NEW j \in Slot, slot'[j].type = "RESERVE", claim[j] = 0
        PROVE  /\ HASH_ID(slot'[j].id) = j
               /\ \E i \in 1..Len(pipe') : Opens(i)' /\ pipe'[i].id = slot'[j].id
    <3>1. slot[j].type = "RESERVE" /\ slot'[j].id = slot[j].id /\ (Opens(1) => j # k)
      BY <2>5, <1>2
    <3>2. HASH_ID(slot[j].id) = j
      BY <3>1, <2>5, <1>5 DEF PipeInv
    <3>3. PICK i \in 1..Len(pipe) : Opens(i) /\ pipe[i].id = slot[j].id
      BY <3>1, <2>5, <1>5 DEF PipeInv
    <3>4. i # 1
      BY <3>1, <3>2, <3>3
    <3>5. i \in 2..Len(pipe)
      BY <3>4, <1>3
    <3>6. i - 1 \in 1..Len(pipe') /\ pipe'[i - 1] = pipe[i]
      BY <3>5, <1>4
    <3> QED
      BY <3>1, <3>2, <3>3, <3>6 DEF Opens
  <2> QED
    BY <2>1, <2>2, <2>3, <2>4, <2>5 DEF PipeInv, Opens, At
<1>9. SendInv'
  <2>1. SUFFICES ASSUME NEW i \in 1..Len(pipe'), pipe'[i].c = "D"
                 PROVE  /\ pipe'[i].p.id = pipe'[i].id /\ pipe'[i].p.n <= sent
                        /\ \A j \in 1..(i - 1) : pipe'[j].c = "D" => pipe'[j].p.n < pipe'[i].p.n
                        /\ \A j \in Slot : \A p \in Packages(slot'[j]) : p.n < pipe'[i].p.n
    BY DEF SendInv
  <2>2. i + 1 \in 1..Len(pipe) /\ pipe'[i] = pipe[i + 1]
    BY <1>3
  <2>3. /\ pipe[i + 1].p.id = pipe[i + 1].id /\ pipe[i + 1].p.n <= sent
        /\ \A j \in 1..i : pipe[j].c = "D" => pipe[j].p.n < pipe[i + 1].p.n
        /\ \A j \in Slot : \A p \in Packages(slot[j]) : p.n < pipe[i + 1].p.n
    <3>1. (i + 1) - 1 = i
      BY <2>2
    <3> QED
      BY <2>1, <2>2, <3>1 DEF Calm, SendInv
  <2>4. ASSUME NEW j \in 1..(i - 1), pipe'[j].c = "D" PROVE pipe'[j].p.n < pipe'[i].p.n
    <3>1. j + 1 \in 1..i /\ j \in 1..Len(pipe')
      BY <1>3
    <3> QED
      BY <3>1, <2>2, <2>3, <2>4, <1>3
  <2>5. ASSUME NEW j \in Slot, NEW p \in Packages(slot'[j]) PROVE p.n < pipe'[i].p.n
    <3>1. p \in Packages(slot[j]) \/ (pipe[1].c = "D" /\ p = pipe[1].p)
      BY <1>2
    <3>2. 1 \in 1..i
      OBVIOUS
    <3> QED
      BY <3>1, <3>2, <2>2, <2>3
  <2> QED
    BY <2>2, <2>3, <2>4, <2>5
<1>10. ClaimInv'
  <2>1. SUFFICES ASSUME NEW j \in Slot, claim[j] # 0
                 PROVE  /\ slot'[j].type = "RESERVE" /\ slot'[j].id # claim[j]
                        /\ HASH_ID(claim[j]) = j /\ claim[j] <= alloc_id
                        /\ \A i \in 1..Len(pipe') : pipe'[i].id # claim[j]
    BY DEF ClaimInv
  <2>2. /\ slot[j].type = "RESERVE" /\ slot[j].id # claim[j]
        /\ HASH_ID(claim[j]) = j /\ claim[j] <= alloc_id
        /\ \A i \in 1..Len(pipe) : pipe[i].id # claim[j]
    BY <2>1 DEF Calm, ClaimInv
  <2>3. ASSUME Opens(1) PROVE j # k
    <3>1. 1 \in 1..Len(pipe) /\ k = HASH_ID(pipe[1].id)
      BY <2>3, <1>3
    <3>2. claim[HASH_ID(pipe[1].id)] = 0
      BY <2>3, <3>1, <1>5 DEF PipeInv
    <3> QED
      BY <2>1, <3>1, <3>2
  <2>4. slot'[j].type = "RESERVE" /\ slot'[j].id = slot[j].id
    BY <2>2, <2>3, <1>2
  <2> QED
    BY <2>2, <2>4, <1>3
<1> QED
  BY <1>2, <1>3, <1>7, <1>8, <1>9, <1>10

\* A service asks for something.
LEMMA RequestStep ==
    ASSUME Calm, NEW m \in Command, pipe' = Append(pipe, m),
           UNCHANGED <<slot, alloc_id, claim>>,
           m.c \notin {"O", "L"}, m.id <= alloc_id, ~Gone(At(m.id), m.id), sent' \in 0..MaxPackage,
           IF m.c = "D" THEN m.p.id = m.id /\ m.p.n = sent + 1 /\ sent' = sent + 1
           ELSE sent' = sent
    PROVE  /\ slot' \in [Slot -> Socket] /\ pipe' \in Seq(Command)
           /\ SlotsInv' /\ PipeInv' /\ ClaimInv' /\ SendInv'
<1>1. slot \in [Slot -> Socket] /\ pipe \in Seq(Command) /\ sent \in Nat
  BY DEF Calm, TypeOK
<1> DEFINE N == Len(pipe)
<1>2. /\ pipe' \in Seq(Command) /\ Len(pipe') = N + 1 /\ N \in Nat
      /\ pipe'[N + 1] = m
      /\ \A i \in 1..N : pipe'[i] = pipe[i]
  BY <1>1
<1>3. \A i \in 1..Len(pipe') : i \in 1..N \/ i = N + 1
  BY <1>2
<1>4. sent <= sent' /\ sent' \in Nat
  BY <1>1
<1> HIDE DEF N
<1>5. \A j \in Slot : \A p \in Packages(slot[j]) : p.n \in Nat
  <2>1. ASSUME NEW j \in Slot, NEW p \in Packages(slot[j]) PROVE p \in Package
    <3>1. /\ slot[j].high \in Seq(Buffer) /\ slot[j].low \in Seq(Buffer)
          /\ slot[j].wire \in Seq(Piece)
      BY <1>1, SocketFields
    <3>2. /\ \A i \in 1..Len(slot[j].high) : slot[j].high[i].p \in Package
          /\ \A i \in 1..Len(slot[j].low) : slot[j].low[i].p \in Package
          /\ \A i \in 1..Len(slot[j].wire) : slot[j].wire[i].p \in Package
      BY SMTT(20), <3>1, BufferFields, PieceFields
    <3> QED
      BY <3>2 DEF Packages
  <2> QED
    BY <2>1 DEF Package
<1>6. SlotsInv'
  <2>1. \A j \in Slot : \A p \in Packages(slot[j]) : p.n <= sent'
    BY <1>1, <1>4, <1>5 DEF Calm, SlotsInv
  <2> QED
    BY <2>1 DEF Calm, SlotsInv
<1>7. PipeInv'
  <2>1. \A i \in 1..Len(pipe') : pipe'[i].id <= alloc_id
    BY <1>2, <1>3 DEF Calm, PipeInv, N
  <2>2. \A i \in 1..Len(pipe') : Opens(i)' => i \in 1..N /\ Opens(i)
    BY <1>2, <1>3 DEF Opens
  <2>3. \A i, j \in 1..Len(pipe') : Opens(i)' /\ pipe'[i].id = pipe'[j].id => i <= j
    <3>1. SUFFICES ASSUME NEW i \in 1..Len(pipe'), NEW j \in 1..Len(pipe'), Opens(i)',
                          pipe'[i].id = pipe'[j].id
                   PROVE  i <= j
      OBVIOUS
    <3>2. i \in 1..N /\ Opens(i)
      BY <3>1, <2>2
    <3>3. CASE j = N + 1
      BY <3>2, <3>3, <1>2
    <3>4. CASE j \in 1..N
      BY <3>1, <3>2, <3>4, <1>2 DEF Calm, PipeInv, N
    <3> QED
      BY <3>3, <3>4, <1>3
  <2>4. \A i \in 1..Len(pipe') : Opens(i)' =>
           /\ At(pipe'[i].id).type = "RESERVE" /\ At(pipe'[i].id).id = pipe'[i].id
           /\ claim[HASH_ID(pipe'[i].id)] = 0
    BY <2>2, <1>2 DEF Calm, PipeInv, N
  <2>5. \A k \in Slot : slot[k].type = "RESERVE" /\ claim[k] = 0 =>
           /\ HASH_ID(slot[k].id) = k
           /\ \E i \in 1..Len(pipe') : Opens(i)' /\ pipe'[i].id = slot[k].id
    <3>1. ASSUME NEW k \in Slot, slot[k].type = "RESERVE", claim[k] = 0
          PROVE  /\ HASH_ID(slot[k].id) = k
                 /\ \E i \in 1..Len(pipe') : Opens(i)' /\ pipe'[i].id = slot[k].id
      <4>1. PICK i \in 1..N : Opens(i) /\ pipe[i].id = slot[k].id
        BY <3>1 DEF Calm, PipeInv, N
      <4>2. i \in 1..Len(pipe') /\ pipe'[i] = pipe[i]
        BY <1>2
      <4> QED
        BY <3>1, <4>1, <4>2 DEF Calm, PipeInv, Opens
    <3> QED
      BY <3>1
  <2>6. \A k \in Slot : slot[k].id <= alloc_id
    BY DEF Calm, PipeInv
  <2> QED
    BY <2>1, <2>3, <2>4, <2>5, <2>6 DEF PipeInv, Opens, At
<1>8. SendInv'
  <2>1. SUFFICES ASSUME NEW i \in 1..Len(pipe'), pipe'[i].c = "D"
                 PROVE  /\ pipe'[i].p.id = pipe'[i].id /\ pipe'[i].p.n <= sent'
                        /\ \A j \in 1..(i - 1) : pipe'[j].c = "D" => pipe'[j].p.n < pipe'[i].p.n
                        /\ \A j \in Slot : \A p \in Packages(slot[j]) : p.n < pipe'[i].p.n
    BY DEF SendInv
  <2>2. \A j \in 1..N : pipe[j].c = "D" => pipe[j].p.n \in Nat /\ pipe[j].p.n <= sent
    BY <1>1, CommandFields DEF Package, Calm, SendInv, N
  <2>3. CASE i \in 1..N
    <3>1. pipe'[i] = pipe[i] /\ \A j \in 1..(i - 1) : pipe'[j] = pipe[j]
      BY <2>3, <1>2
    <3>2. /\ pipe[i].p.id = pipe[i].id /\ pipe[i].p.n <= sent
          /\ \A j \in 1..(i - 1) : pipe[j].c = "D" => pipe[j].p.n < pipe[i].p.n
          /\ \A j \in Slot : \A p \in Packages(slot[j]) : p.n < pipe[i].p.n
      BY <2>1, <2>3, <3>1 DEF Calm, SendInv, N
    <3>3. pipe[i].p.n <= sent'
      BY <2>1, <2>2, <2>3, <3>1, <3>2, <1>1, <1>4
    <3> QED
      BY <3>1, <3>2, <3>3
  <2>4. CASE i = N + 1
    <3>1. m.c = "D" /\ pipe'[i] = m /\ m.p.id = m.id /\ m.p.n = sent + 1 /\ sent' = sent + 1
      BY <2>1, <2>4, <1>2
    <3>2. ASSUME NEW j \in 1..(i - 1), pipe'[j].c = "D" PROVE pipe'[j].p.n < pipe'[i].p.n
      <4>1. j \in 1..N /\ pipe'[j] = pipe[j]
        BY <2>4, <1>2
      <4> QED
        BY <3>1, <3>2, <4>1, <2>2, <1>1
    <3>3. ASSUME NEW j \in Slot, NEW p \in Packages(slot[j]) PROVE p.n < pipe'[i].p.n
      BY <3>1, <1>1, <1>5 DEF Calm, SlotsInv
    <3> QED
      BY <3>1, <3>2, <3>3, <1>1
  <2> QED
    BY <2>3, <2>4, <1>3
<1>9. ClaimInv'
  <2>1. SUFFICES ASSUME NEW k \in Slot, claim[k] # 0, NEW i \in 1..Len(pipe')
                 PROVE  pipe'[i].id # claim[k]
    BY DEF Calm, ClaimInv
  <2>2. /\ slot[k].id # claim[k] /\ HASH_ID(claim[k]) = k
        /\ \A j \in 1..N : pipe[j].id # claim[k]
    BY <2>1 DEF Calm, ClaimInv, N
  <2>3. m.id # claim[k]
    BY <2>2 DEF Gone, At
  <2> QED
    BY <2>2, <2>3, <1>2, <1>3
<1> QED
  BY <1>1, <1>2, <1>6, <1>7, <1>8, <1>9

\* A free slot k is given to a new id: it is claimed by a service, or has the socket that was
\* accepted.
LEMMA ReserveStep ==
    ASSUME Calm, NEW id \in Id, alloc_id < id, NEW k, k = HASH_ID(id),
           slot[k].type = "INVALID",
           NEW r \in Socket, Empty(r), r.wire = <<>>,
           slot' = [slot EXCEPT ![k] = r], alloc_id' = id, UNCHANGED <<pipe, sent>>,
           \/ r.type = "PACCEPT" /\ r.id = id /\ claim' = claim
           \/ r.type = "RESERVE" /\ r.id = slot[k].id /\ claim' = [claim EXCEPT ![k] = id]
    PROVE  /\ slot' \in [Slot -> Socket] /\ pipe' \in Seq(Command)
           /\ SlotsInv' /\ PipeInv' /\ ClaimInv' /\ SendInv'
<1>1. /\ slot \in [Slot -> Socket] /\ pipe \in Seq(Command) /\ k \in Slot /\ alloc_id \in Nat
      /\ id \in Nat /\ id # 0 /\ claim \in [Slot -> 0..MaxId]
  <2>1. id \in Nat /\ id # 0
    BY DEF Id
  <2>2. k \in Slot
    BY <2>1, HashSlot
  <2>3. alloc_id \in Nat
    BY DEF Calm, TypeOK
  <2> QED
    BY <2>1, <2>2, <2>3 DEF Calm, TypeOK
<1>2. slot' \in [Slot -> Socket] /\ slot'[k] = r /\ \A j \in Slot : j # k => slot'[j] = slot[j]
  BY <1>1
<1>3. LineInv(r) /\ Packages(r) = {} /\ ModeInv(r)
  BY EmptyLine DEF ModeInv
<1>4. PipeInv /\ ClaimInv
  BY DEF Calm
<1>5. \A i \in 1..Len(pipe) : HASH_ID(pipe[i].id) \in Slot /\ pipe[i].id \in Nat
  <2>1. \A i \in 1..Len(pipe) : pipe[i] \in Command
    BY <1>1
  <2>2. \A i \in 1..Len(pipe) : pipe[i].id \in Nat
    BY <2>1, CommandFields DEF Id
  <2> QED
    BY <2>2, HashSlot
<1>6. SlotsInv'
  <2>1. \A j \in Slot : /\ LineInv(slot'[j]) /\ ModeInv(slot'[j])
                        /\ \A p \in Packages(slot'[j]) : p.n <= sent
    BY <1>2, <1>3 DEF Calm, SlotsInv
  <2> QED
    BY <2>1 DEF SlotsInv
<1>7. \A j \in Slot : slot[j].id \in Nat /\ slot[j].id < id
  BY <1>1, <1>4, SocketFields DEF PipeInv
<1>8. \A j \in Slot : slot'[j].id <= id
  BY <1>1, <1>2, <1>7
<1>9. claim[k] = 0 /\ \A j \in Slot : j # k => claim'[j] = claim[j]
  BY <1>1, <1>4 DEF ClaimInv
<1>10. \A i \in 1..Len(pipe) : pipe[i].id < id
  BY <1>1, <1>4, <1>5 DEF PipeInv
<1>11. PipeInv'
  <2>1. ASSUME NEW i \in 1..Len(pipe), Opens(i)
        PROVE  /\ slot'[HASH_ID(pipe[i].id)].type = "RESERVE"
               /\ slot'[HASH_ID(pipe[i].id)].id = pipe[i].id
               /\ claim'[HASH_ID(pipe[i].id)] = 0
    <3>1. /\ slot[HASH_ID(pipe[i].id)].type = "RESERVE"
          /\ slot[HASH_ID(pipe[i].id)].id = pipe[i].id
          /\ claim[HASH_ID(pipe[i].id)] = 0
      BY <1>4, <2>1 DEF PipeInv, At
    <3>2. HASH_ID(pipe[i].id) # k
      BY <3>1
    <3> QED
      BY <3>1, <3>2, <1>2, <1>5, <1>9
  <2>2. ASSUME NEW j \in Slot, slot'[j].type = "RESERVE", claim'[j] = 0
        PROVE  /\ HASH_ID(slot'[j].id) = j
               /\ \E i \in 1..Len(pipe) : Opens(i) /\ pipe[i].id = slot'[j].id
    <3>1. j # k
      BY <2>2, <1>1, <1>2
    <3>2. slot'[j] = slot[j] /\ claim[j] = 0
      BY <3>1, <2>2, <1>2, <1>9
    <3> QED
      BY <3>2, <2>2, <1>4 DEF PipeInv
  <2>3. \A i \in 1..Len(pipe) : pipe[i].id <= id
    BY <1>1, <1>5, <1>10
  <2>4. \A i, j \in 1..Len(pipe) : Opens(i) /\ pipe[i].id = pipe[j].id => i <= j
    BY <1>4 DEF PipeInv
  <2> QED
    BY <2>1, <2>2, <2>3, <2>4, <1>8 DEF PipeInv, Opens, At
<1>12. ClaimInv'
  <2>1. SUFFICES ASSUME NEW j \in Slot, claim'[j] # 0
                 PROVE  /\ slot'[j].type = "RESERVE" /\ slot'[j].id # claim'[j]
                        /\ HASH_ID(claim'[j]) = j /\ claim'[j] <= id
                        /\ \A i \in 1..Len(pipe) : pipe[i].id # claim'[j]
    BY DEF ClaimInv
  <2>2. CASE j # k
    <3>1. slot'[j] = slot[j] /\ claim'[j] = claim[j] /\ claim[j] # 0
      BY <2>1, <2>2, <1>2, <1>9
    <3>2. /\ slot[j].type = "RESERVE" /\ slot[j].id # claim[j] /\ HASH_ID(claim[j]) = j
          /\ claim[j] <= alloc_id /\ \A i \in 1..Len(pipe) : pipe[i].id # claim[j]
      BY <3>1, <1>4 DEF ClaimInv
    <3>3. claim[j] <= id
      BY <3>2, <1>1
    <3> QED
      BY <3>1, <3>2, <3>3
  <2>3. CASE j = k
    <3>1. r.type = "RESERVE" /\ r.id = slot[k].id /\ claim'[k] = id
      BY <2>1, <2>3, <1>1, <1>9
    <3>2. slot[k].id # id /\ \A i \in 1..Len(pipe) : pipe[i].id # id
      BY <1>1, <1>5, <1>7, <1>10
    <3> QED
      BY <3>1, <3>2, <2>3, <1>1, <1>2
  <2> QED
    BY <2>2, <2>3
<1>13. SendInv'
  <2>1. \A j \in Slot : Packages(slot'[j]) \subseteq Packages(slot[j])
    BY <1>2, <1>3
  <2> QED
    BY <2>1 DEF Calm, SendInv
<1> QED
  BY <1>1, <1>2, <1>6, <1>11, <1>12, <1>13

\* The slot k that is claimed for an id gets it, and its first command is in the pipe.
LEMMA ClaimedStep ==
    ASSUME Calm, NEW id \in Id, NEW k, k = HASH_ID(id), claim[k] = id,
           NEW r \in Socket, Empty(r), r.wire = <<>>, r.id = id, r.type = "RESERVE",
           slot' = [slot EXCEPT ![k] = r], claim' = [claim EXCEPT ![k] = 0],
           UNCHANGED <<alloc_id, sent>>,
           NEW c \in {"O", "L"}, pipe' = Append(pipe, [c |-> c, id |-> id])
    PROVE  /\ slot' \in [Slot -> Socket] /\ pipe' \in Seq(Command)
           /\ SlotsInv' /\ PipeInv' /\ ClaimInv' /\ SendInv'
<1>1. /\ slot \in [Slot -> Socket] /\ pipe \in Seq(Command) /\ k \in Slot /\ alloc_id \in Nat
      /\ id \in Nat /\ id # 0 /\ claim \in [Slot -> 0..MaxId]
  <2>1. id \in Nat /\ id # 0
    BY DEF Id
  <2>2. k \in Slot
    BY <2>1, HashSlot
  <2>3. alloc_id \in Nat
    BY DEF Calm, TypeOK
  <2> QED
    BY <2>1, <2>2, <2>3 DEF Calm, TypeOK
<1>2. slot' \in [Slot -> Socket] /\ slot'[k] = r /\ \A j \in Slot : j # k => slot'[j] = slot[j]
  BY <1>1
<1>3. LineInv(r) /\ Packages(r) = {} /\ ModeInv(r)
  BY EmptyLine DEF ModeInv
<1>4. PipeInv /\ ClaimInv
  BY DEF Calm
<1>5. \A i \in 1..Len(pipe) : HASH_ID(pipe[i].id) \in Slot
  <2>1. \A i \in 1..Len(pipe) : pipe[i] \in Command
    BY <1>1
  <2>2. \A i \in 1..Len(pipe) : pipe[i].id \in Nat
    BY <2>1, CommandFields DEF Id
  <2> QED
    BY <2>2, HashSlot
<1>6. SlotsInv'
  <2>1. \A j \in Slot : /\ LineInv(slot'[j]) /\ ModeInv(slot'[j])
                        /\ \A p \in Packages(slot'[j]) : p.n <= sent
    BY <1>2, <1>3 DEF Calm, SlotsInv
  <2> QED
    BY <2>1 DEF SlotsInv
<1>7. claim'[k] = 0 /\ \A j \in Slot : j # k => claim'[j] = claim[j]
  BY <1>1
<1>8. id <= alloc_id /\ \A i \in 1..Len(pipe) : pipe[i].id # id
  BY <1>1, <1>4 DEF ClaimInv
<1> DEFINE m == [c |-> c, id |-> id]
           N == Len(pipe)
<1>9. m \in Command /\ m.c \in {"O", "L"} /\ m.id = id
  BY DEF Command
<1>10. /\ pipe' \in Seq(Command) /\ Len(pipe') = N + 1 /\ N \in Nat
       /\ pipe'[N + 1] = m
       /\ \A i \in 1..N : pipe'[i] = pipe[i]
  BY <1>9, <1>1
<1>11. \A i \in 1..Len(pipe') : i \in 1..N \/ i = N + 1
  BY <1>10
<1> HIDE DEF m, N
<1>12. PipeInv'
  <2>1. \A i \in 1..Len(pipe') : pipe'[i].id <= alloc_id
    BY <1>4, <1>8, <1>9, <1>10, <1>11 DEF PipeInv, N
  <2>2. ASSUME NEW i \in 1..Len(pipe'), NEW j \in 1..Len(pipe'), Opens(i)',
               pipe'[i].id = pipe'[j].id
        PROVE  i <= j
    <3>1. CASE i \in 1..N /\ j \in 1..N
      <4>1. Opens(i) /\ pipe[i].id = pipe[j].id
        BY <2>2, <3>1, <1>10 DEF Opens
      <4> QED
        BY <4>1, <3>1, <1>4 DEF PipeInv, N
    <3>2. CASE i \in 1..N /\ j = N + 1
      BY <3>2, <1>10
    <3>3. CASE i = N + 1 /\ j \in 1..N
      BY <2>2, <3>3, <1>8, <1>9, <1>10 DEF N
    <3>4. CASE i = N + 1 /\ j = N + 1
      BY <3>4, <1>10
    <3> QED
      BY <3>1, <3>2, <3>3, <3>4, <1>11
  <2>3. ASSUME NEW i \in 1..Len(pipe'), Opens(i)'
        PROVE  /\ slot'[HASH_ID(pipe'[i].id)].type = "RESERVE"
               /\ slot'[HASH_ID(pipe'[i].id)].id = pipe'[i].id
               /\ claim'[HASH_ID(pipe'[i].id)] = 0
    <3>1. CASE i \in 1..N
      <4>1. i \in 1..Len(pipe) /\ Opens(i) /\ pipe'[i] = pipe[i]
        BY <2>3, <3>1, <1>10 DEF Opens, N
      <4>2. /\ slot[HASH_ID(pipe[i].id)].type = "RESERVE"
            /\ slot[HASH_ID(pipe[i].id)].id = pipe[i].id
            /\ claim[HASH_ID(pipe[i].id)] = 0
        BY <4>1, <1>4 DEF PipeInv, At
      <4>3. HASH_ID(pipe[i].id) # k
        BY <4>2, <1>1
      <4> QED
        BY <4>1, <4>2, <4>3, <1>2, <1>5, <1>7
    <3>2. CASE i = N + 1
      BY <3>2, <1>2, <1>7, <1>9, <1>10
    <3> QED
      BY <3>1, <3>2, <1>11
  <2>4. ASSUME NEW j \in Slot, slot'[j].type = "RESERVE", claim'[j] = 0
        PROVE  /\ HASH_ID(slot'[j].id) = j
               /\ \E i \in 1..Len(pipe') : Opens(i)' /\ pipe'[i].id = slot'[j].id
    <3>1. CASE j = k
      <4>1. N + 1 \in 1..Len(pipe') /\ pipe'[N + 1].c \in {"O", "L"} /\ pipe'[N + 1].id = id
        BY <1>9, <1>10
      <4>2. slot'[j].id = id /\ HASH_ID(slot'[j].id) = j
        BY <3>1, <1>2
      <4>3. \E i \in 1..Len(pipe') : pipe'[i].c \in {"O", "L"} /\ pipe'[i].id = id
        BY <4>1
      <4> QED
        BY <4>2, <4>3 DEF Opens
    <3>2. CASE j # k
      <4>1. slot'[j] = slot[j] /\ claim[j] = 0
        BY <2>4, <3>2, <1>2, <1>7
      <4>2. PICK i \in 1..N : Opens(i) /\ pipe[i].id = slot[j].id
        BY <4>1, <2>4, <1>4 DEF PipeInv, N
      <4>3. i \in 1..Len(pipe') /\ pipe'[i] = pipe[i]
        BY <1>10
      <4>4. HASH_ID(slot[j].id) = j
        BY <4>1, <2>4, <1>4 DEF PipeInv
      <4> QED
        BY <4>1, <4>2, <4>3, <4>4 DEF Opens
    <3> QED
      BY <3>1, <3>2
  <2>5. \A j \in Slot : slot'[j].id <= alloc_id
    BY <1>2, <1>4, <1>8 DEF PipeInv
  <2> QED
    BY <2>1, <2>2, <2>3, <2>4, <2>5 DEF PipeInv, Opens, At
<1>13. ClaimInv'
  <2>1. SUFFICES ASSUME NEW j \in Slot, claim'[j] # 0
                 PROVE  /\ slot'[j].type = "RESERVE" /\ slot'[j].id # claim'[j]
                        /\ HASH_ID(claim'[j]) = j /\ claim'[j] <= alloc_id
                        /\ \A i \in 1..Len(pipe') : pipe'[i].id # claim'[j]
    BY DEF ClaimInv
  <2>2. j # k /\ slot'[j] = slot[j] /\ claim'[j] = claim[j]
    BY <2>1, <1>2, <1>7
  <2>3. /\ slot[j].type = "RESERVE" /\ slot[j].id # claim[j] /\ HASH_ID(claim[j]) = j
        /\ claim[j] <= alloc_id /\ \A i \in 1..N : pipe[i].id # claim[j]
    BY <2>1, <2>2, <1>4 DEF ClaimInv, N
  <2>4. id # claim[j]
    BY <2>2, <2>3
  <2> QED
    BY <2>2, <2>3, <2>4, <1>9, <1>10, <1>11
<1>14. SendInv'
  <2>1. SUFFICES ASSUME NEW i \in 1..Len(pipe'), pipe'[i].c = "D"
                 PROVE  /\ pipe'[i].p.id = pipe'[i].id /\ pipe'[i].p.n <= sent
                        /\ \A j \in 1..(i - 1) :
                              pipe'[j].c = "D" => pipe'[j].p.n < pipe'[i].p.n
                        /\ \A j \in Slot : \A p \in Packages(slot'[j]) : p.n < pipe'[i].p.n
    BY DEF SendInv
  <2>2. i \in 1..N
    BY <2>1, <1>9, <1>10, <1>11
  <2>3. pipe'[i] = pipe[i] /\ \A j \in 1..(i - 1) : pipe'[j] = pipe[j]
    BY <2>2, <1>10
  <2>4. /\ pipe[i].p.id = pipe[i].id /\ pipe[i].p.n <= sent
        /\ \A j \in 1..(i - 1) : pipe[j].c = "D" => pipe[j].p.n < pipe[i].p.n
        /\ \A j \in Slot : \A p \in Packages(slot[j]) : p.n < pipe[i].p.n
    BY <2>1, <2>2, <2>3 DEF Calm, SendInv, N
  <2>5. \A j \in Slot : Packages(slot'[j]) \subseteq Packages(slot[j])
    BY <1>2, <1>3
  <2> QED
    BY <2>3, <2>4, <2>5
<1> QED
  BY <1>2, <1>6, <1>10, <1>12, <1>13, <1>14

-----------------------------------------------------------------------------
(* The batch of events                                                     *)

LEMMA EventFields ==
    ASSUME NEW e \in Event
    PROVE  e.s \in Slot \cup {NULL} /\ e.id \in Id /\ [e EXCEPT !.s = NULL] \in Event
           /\ [e EXCEPT !.s = NULL].s = NULL /\ [e EXCEPT !.read = FALSE] \in Event
           /\ [e EXCEPT !.read = FALSE].s = e.s /\ [e EXCEPT !.read = FALSE].id = e.id
BY DEF Event

LEMMA EventFacts ==
    ASSUME Calm
    PROVE  /\ ev \in Seq(Event)
           /\ \A i \in 1..Len(ev) : ev[i].s # NULL =>
                 /\ slot[ev[i].s].id = ev[i].id /\ claim[ev[i].s] = 0 /\ ev[i].s \in Slot
                 /\ slot[ev[i].s].type # "INVALID" \/ closing = ev[i].id
                 /\ closing = 0 => slot[ev[i].s].type # "INVALID"
                 /\ ev[i].id # 0
           /\ \A i, j \in 1..Len(ev) : i # j /\ ev[i].s # NULL => ev[i].s # ev[j].s
<1>1. ev \in Seq(Event)
  BY DEF Calm, TypeOK
<1>2. \A i \in 1..Len(ev) : ev[i].s \in Slot \cup {NULL} /\ ev[i].id # 0
  <2>1. \A i \in 1..Len(ev) : ev[i] \in Event
    BY <1>1
  <2>2. \A i \in 1..Len(ev) : ev[i].s \in Slot \cup {NULL} /\ ev[i].id \in Id
    BY <2>1, EventFields
  <2> QED
    BY <2>2 DEF Id
<1>3. \A i \in 1..Len(ev) : ev[i].s # NULL =>
         /\ slot[ev[i].s].id = ev[i].id /\ claim[ev[i].s] = 0
         /\ slot[ev[i].s].type # "INVALID" \/ closing = ev[i].id
  BY DEF Calm, EventInv
<1>4. \A i, j \in 1..Len(ev) : i # j /\ ev[i].s # NULL => ev[i].s # ev[j].s
  BY DEF Calm, EventInv
<1> QED
  BY <1>1, <1>2, <1>3, <1>4

\* The slots of the events keep their sockets.
LEMMA SameEvents ==
    ASSUME Calm, UNCHANGED <<ev, closing>>,
           \A i \in 1..Len(ev) : ev[i].s # NULL =>
              /\ slot'[ev[i].s].id = slot[ev[i].s].id /\ claim'[ev[i].s] = 0
              /\ slot[ev[i].s].type # "INVALID" => slot'[ev[i].s].type # "INVALID"
    PROVE  ev' \in Seq(Event) /\ EventInv'
BY EventFacts DEF EventInv

\* A command changes slot k, or closes it: its event is then still to be cleared.
LEMMA SetSlotEvents ==
    ASSUME Calm, closing = 0, UNCHANGED <<ev, claim>>,
           NEW k \in Slot, NEW r, r.id = slot[k].id, SetSlot(k, r)
    PROVE  EventInv'
<1>1. slot'[k] = r /\ \A j \in Slot : j # k => slot'[j] = slot[j]
  BY DEF Calm, TypeOK, SetSlot
<1>2. closing' = IF r.type = "INVALID" THEN slot[k].id ELSE 0
  BY DEF SetSlot
<1>3. ASSUME NEW i \in 1..Len(ev), ev[i].s # NULL
      PROVE  /\ slot'[ev[i].s].id = ev[i].id /\ claim[ev[i].s] = 0
             /\ slot'[ev[i].s].type # "INVALID" \/ closing' = ev[i].id
  <2>1. /\ slot[ev[i].s].id = ev[i].id /\ claim[ev[i].s] = 0 /\ ev[i].s \in Slot
        /\ slot[ev[i].s].type # "INVALID"
    BY <1>3, EventFacts
  <2> QED
    BY <2>1, <1>1, <1>2
<1>4. \A i, j \in 1..Len(ev) : i # j /\ ev[i].s # NULL => ev[i].s # ev[j].s
  BY EventFacts
<1> QED
  BY <1>3, <1>4 DEF EventInv

\* The event of slot k was looked at, or that of another slot that stays as it is.
LEMMA LookedEvents ==
    ASSUME Calm, closing = 0, UNCHANGED <<closing, claim>>, ev # <<>>, ev' = Tail(ev),
           \A j \in Slot : j # Head(ev).s /\ slot[j].type # "INVALID" =>
              slot'[j].id = slot[j].id /\ slot'[j].type # "INVALID"
    PROVE  ev' \in Seq(Event) /\ EventInv'
<1>1. ev \in Seq(Event)
  BY DEF Calm, TypeOK
<1>2. /\ ev' \in Seq(Event) /\ Len(ev') = Len(ev) - 1 /\ Len(ev) \in Nat /\ Head(ev) = ev[1]
      /\ Len(ev) > 0
      /\ \A i \in 1..Len(ev') : i + 1 \in 1..Len(ev) /\ ev'[i] = ev[i + 1]
  BY <1>1, TailEntries
<1>3. /\ \A i \in 1..Len(ev) : ev[i].s # NULL =>
            /\ slot[ev[i].s].id = ev[i].id /\ claim[ev[i].s] = 0 /\ ev[i].s \in Slot
            /\ slot[ev[i].s].type # "INVALID"
      /\ \A i, j \in 1..Len(ev) : i # j /\ ev[i].s # NULL => ev[i].s # ev[j].s
  BY EventFacts
<1>4. ASSUME NEW i \in 1..Len(ev'), ev'[i].s # NULL
      PROVE  /\ slot'[ev'[i].s].id = ev'[i].id /\ claim'[ev'[i].s] = 0
             /\ slot'[ev'[i].s].type # "INVALID"
  <2>1. i + 1 \in 1..Len(ev) /\ ev'[i] = ev[i + 1] /\ i + 1 # 1 /\ 1 \in 1..Len(ev)
    BY <1>2
  <2>2. ev[i + 1].s # ev[1].s
    BY <2>1, <1>3, <1>4
  <2> QED
    BY <2>1, <2>2, <1>2, <1>3, <1>4
<1>5. ASSUME NEW i \in 1..Len(ev'), NEW j \in 1..Len(ev'), i # j, ev'[i].s # NULL
      PROVE  ev'[i].s # ev'[j].s
  <2>1. i + 1 \in 1..Len(ev) /\ j + 1 \in 1..Len(ev) /\ i + 1 # j + 1
    BY <1>2, <1>5
  <2> QED
    BY <2>1, <1>2, <1>3, <1>5
<1> QED
  BY <1>2, <1>4, <1>5 DEF EventInv

-----------------------------------------------------------------------------
(* The steps                                                               *)

\* What every proof of a step begins with.
LEMMA Types ==
    ASSUME Calm
    PROVE  /\ slot \in [Slot -> Socket] /\ alloc_id \in 0..MaxId /\ pipe \in Seq(Command)
           /\ checkctrl \in BOOLEAN /\ ev \in Seq(Event) /\ first \in BOOLEAN
           /\ claim \in [Slot -> 0..MaxId] /\ closing \in 0..MaxId /\ raced \in BOOLEAN
           /\ sent \in 0..MaxPackage
           /\ \A k \in Slot : slot[k] \in Socket /\ LineInv(slot[k]) /\ ModeInv(slot[k])
BY DEF Calm, TypeOK, SlotsInv

\* The slot that is claimed, that has got its new id, and that has an accepted connection.
ClaimedFor(s) == [s EXCEPT !.type = "RESERVE"]
ReservedFor(s, id) == [s EXCEPT !.id = id]
AcceptedAs(s, id) == [New_fd(s, "PACCEPT", FALSE) EXCEPT !.id = id]

LEMMA NewSlotOK ==
    ASSUME NEW s \in Socket, ModeInv(s), s.type \in {"INVALID", "RESERVE"}, NEW id \in Id
    PROVE  /\ \A r : r = ClaimedFor(s) =>
                 r \in Socket /\ Empty(r) /\ r.wire = <<>> /\ r.id = s.id /\ r.type = "RESERVE"
           /\ \A r : r = ReservedFor(s, id) =>
                 r \in Socket /\ Empty(r) /\ r.wire = <<>> /\ r.id = id /\ r.type = s.type
           /\ \A r : r = AcceptedAs(s, id) =>
                 r \in Socket /\ Empty(r) /\ r.wire = <<>> /\ r.id = id /\ r.type = "PACCEPT"
<1>1. s.high = <<>> /\ s.low = <<>> /\ s.wire = <<>>
  BY DEF ModeInv, Empty
<1>2. "RESERVE" \in SocketType /\ "PACCEPT" \in SocketType /\ id \in 0..MaxId
  BY DEF SocketType, Id
<1>3. ASSUME NEW r, r = ClaimedFor(s)
      PROVE  r \in Socket /\ Empty(r) /\ r.wire = <<>> /\ r.id = s.id /\ r.type = "RESERVE"
  BY <1>1, <1>2, <1>3 DEF Socket, ClaimedFor, Empty
<1>4. ASSUME NEW r, r = ReservedFor(s, id)
      PROVE  r \in Socket /\ Empty(r) /\ r.wire = <<>> /\ r.id = id /\ r.type = s.type
  BY <1>1, <1>2, <1>4 DEF Socket, ReservedFor, Empty
<1>5. ASSUME NEW r, r = AcceptedAs(s, id)
      PROVE  r \in Socket /\ Empty(r) /\ r.wire = <<>> /\ r.id = id /\ r.type = "PACCEPT"
  BY <1>1, <1>2, <1>5 DEF Socket, AcceptedAs, New_fd, Empty
<1> QED
  BY <1>3, <1>4, <1>5

LEMMA ReserveIdStep ==
    ASSUME Calm, NEW id \in Id, Reserve(id), ~raced'
    PROVE  Calm'
<1>1. PICK k : k = HASH_ID(id)
  OBVIOUS
<1>2. k \in Slot
  BY <1>1, HashSlot DEF Id
<1>3. slot[k] \in Socket /\ ModeInv(slot[k])
  BY <1>2, Types
<1>4. slot[k].type = "INVALID" /\ alloc_id < id
  BY <1>1 DEF Reserve, Reserved, Free, At
<1>5. PICK r : r = ClaimedFor(slot[k])
  OBVIOUS
<1>6. r \in Socket /\ Empty(r) /\ r.wire = <<>> /\ r.id = slot[k].id /\ r.type = "RESERVE"
  BY <1>3, <1>4, <1>5, NewSlotOK
<1>7. slot' = [slot EXCEPT ![k] = r]
  BY <1>1, <1>2, <1>5, Types DEF Reserve, ClaimedFor
<1>8. /\ alloc_id' = id /\ claim' = [claim EXCEPT ![k] = id]
      /\ UNCHANGED <<pipe, checkctrl, ev, first, closing, sent>>
      /\ raced' = \E i \in DOMAIN ev : ev[i].s = k
  BY <1>1 DEF Reserve
<1>9. /\ slot' \in [Slot -> Socket] /\ pipe' \in Seq(Command)
      /\ SlotsInv' /\ PipeInv' /\ ClaimInv' /\ SendInv'
  BY <1>1, <1>4, <1>6, <1>7, <1>8, ReserveStep
<1>10. ev' \in Seq(Event) /\ EventInv'
  <2>1. \A i \in 1..Len(ev) : ev[i].s # k
    BY <1>8, Types
  <2>2. \A i \in 1..Len(ev) : ev[i].s # NULL => ev[i].s \in Slot /\ claim[ev[i].s] = 0
    BY EventFacts
  <2>3. \A i \in 1..Len(ev) : ev[i].s # NULL =>
           slot'[ev[i].s] = slot[ev[i].s] /\ claim'[ev[i].s] = 0
    BY <2>1, <2>2, <1>7, <1>8, Types
  <2> QED
    BY <2>3, <1>8, SameEvents
<1>11. claim' \in [Slot -> 0..MaxId] /\ raced' \in BOOLEAN /\ alloc_id' \in 0..MaxId
  <2>1. id \in 0..MaxId /\ claim \in [Slot -> 0..MaxId]
    BY Types DEF Id
  <2> QED
    BY <2>1, <1>8
<1> QED
  BY <1>8, <1>9, <1>10, <1>11, Types DEF Calm, TypeOK

LEMMA OpenStep ==
    ASSUME Calm, NEW id \in Id, NEW c \in {"O", "L"}, Open(id, c)
    PROVE  Calm'
<1>1. PICK k : k = HASH_ID(id)
  OBVIOUS
<1>2. k \in Slot /\ id # 0
  BY <1>1, HashSlot DEF Id
<1>3. slot[k] \in Socket /\ ModeInv(slot[k])
  BY <1>2, Types
<1>4. claim[k] = id /\ slot[k].type = "RESERVE"
  BY <1>1, <1>2 DEF Open, Calm, ClaimInv
<1>5. PICK r : r = ReservedFor(slot[k], id)
  OBVIOUS
<1>6. r \in Socket /\ Empty(r) /\ r.wire = <<>> /\ r.id = id /\ r.type = "RESERVE"
  BY <1>3, <1>4, <1>5, NewSlotOK
<1>7. slot' = [slot EXCEPT ![k] = r]
  BY <1>1, <1>2, <1>5, Types DEF Open, ReservedFor
<1>8. /\ claim' = [claim EXCEPT ![k] = 0] /\ pipe' = Append(pipe, [c |-> c, id |-> id])
      /\ UNCHANGED <<alloc_id, checkctrl, ev, first, closing, raced, sent>>
  BY <1>1 DEF Open, Request
<1>9. /\ slot' \in [Slot -> Socket] /\ pipe' \in Seq(Command)
      /\ SlotsInv' /\ PipeInv' /\ ClaimInv' /\ SendInv'
  BY <1>1, <1>4, <1>6, <1>7, <1>8, ClaimedStep
<1>10. ev' \in Seq(Event) /\ EventInv'
  <2>1. \A i \in 1..Len(ev) : ev[i].s # NULL => ev[i].s \in Slot /\ claim[ev[i].s] = 0
    BY EventFacts
  <2>2. \A i \in 1..Len(ev) : ev[i].s # NULL =>
           slot'[ev[i].s] = slot[ev[i].s] /\ claim'[ev[i].s] = 0
    BY <2>1, <1>2, <1>4, <1>7, <1>8, Types
  <2> QED
    BY <2>2, <1>8, SameEvents
<1>11. claim' \in [Slot -> 0..MaxId]
  <2>1. 0 \in 0..MaxId /\ claim \in [Slot -> 0..MaxId]
    BY Types
  <2> QED
    BY <2>1, <1>8
<1> QED
  BY <1>8, <1>9, <1>10, <1>11, Types DEF Calm, TypeOK

LEMMA AskStep ==
    ASSUME Calm, NEW id \in Id, NEW b \in BOOLEAN, Send(id, b) \/ Start(id) \/ Close(id, b)
    PROVE  Calm'
<1>1. HASH_ID(id) \in Slot
  BY HashSlot DEF Id
<1>2. id <= alloc_id /\ ~Gone(At(id), id)
  BY <1>1 DEF Calm, PipeInv, Send, Start, Close, Gone, At
<1>3. UNCHANGED <<slot, alloc_id, checkctrl, ev, first, claim, closing, raced>>
  BY DEF Send, Start, Close
<1>4. EventInv'
  BY <1>3 DEF Calm, EventInv
<1>5. CASE Send(id, b)
  <2> DEFINE p == [n |-> sent + 1, id |-> id, low |-> b]
             m == [c |-> "D", id |-> id, p |-> p]
  <2>1. pipe' = Append(pipe, m) /\ sent' = sent + 1 /\ sent < MaxPackage
    BY <1>5 DEF Send, Request
  <2>2. p \in Package /\ p.id = id /\ p.n = sent + 1
    BY <2>1, Types DEF Package
  <2>3. m \in Command /\ m.c = "D" /\ m.id = id /\ m.p = p
    BY <2>2 DEF Command
  <2>4. sent' \in 0..MaxPackage
    BY <2>1, Types
  <2> HIDE DEF m, p
  <2>5. slot' \in [Slot -> Socket] /\ pipe' \in Seq(Command) /\ SlotsInv' /\ PipeInv' /\ ClaimInv' /\ SendInv'
    BY <2>1, <2>2, <2>3, <2>4, <1>2, <1>3, RequestStep
  <2> QED
    BY <2>4, <2>5, <1>3, <1>4, Types DEF Calm, TypeOK
<1>6. CASE Start(id) \/ Close(id, b)
  <2>1. PICK m \in Command : pipe' = Append(pipe, m) /\ m.c \in {"S", "K"} /\ m.id = id
    <3>1. CASE Start(id)
      <4>1. [c |-> "S", id |-> id] \in Command
        BY DEF Command
      <4> QED
        BY <3>1, <4>1 DEF Start, Request
    <3>2. CASE Close(id, b)
      <4>1. [c |-> "K", id |-> id, shutdown |-> b] \in Command
        BY DEF Command
      <4> QED
        BY <3>2, <4>1 DEF Close, Request
    <3> QED
      BY <3>1, <3>2, <1>6
  <2>2. sent' = sent /\ sent' \in 0..MaxPackage
    BY <1>6, Types DEF Start, Close
  <2>3. slot' \in [Slot -> Socket] /\ pipe' \in Seq(Command) /\ SlotsInv' /\ PipeInv' /\ ClaimInv' /\ SendInv'
    BY <2>1, <2>2, <1>2, <1>3, RequestStep
  <2> QED
    BY <2>2, <2>3, <1>3, <1>4, Types DEF Calm, TypeOK
<1> QED
  BY <1>5, <1>6

\* A command is taken that leaves the slots alone, or changes slot k to r.
LEMMA TakenStep ==
    ASSUME Calm, NEW c, Take(c), NEW k \in Slot, NEW r \in Socket, LineInv(r), ModeInv(r),
           \/ SetSlot(k, r)
           \/ r = slot[k] /\ NoSlot,
           r.id = slot[k].id,
           \/ ~Opens(1) /\ (r.type = "RESERVE" <=> slot[k].type = "RESERVE")
           \/ Opens(1) /\ k = HASH_ID(pipe[1].id) /\ r.type # "RESERVE",
           \A p \in Packages(r) : p \in Packages(slot[k]) \/ (pipe[1].c = "D" /\ p = pipe[1].p)
    PROVE  Calm'
<1>1. /\ pipe # <<>> /\ pipe' = Tail(pipe)
      /\ UNCHANGED <<alloc_id, checkctrl, ev, first, claim, sent>>
      /\ closing = 0
  BY DEF Take
<1>2. slot' = [slot EXCEPT ![k] = r]
  BY Types DEF SetSlot, NoSlot
<1>3. /\ slot' \in [Slot -> Socket] /\ pipe' \in Seq(Command)
      /\ SlotsInv' /\ PipeInv' /\ ClaimInv' /\ SendInv'
  BY <1>1, <1>2, TakeStep
<1>4. closing' \in 0..MaxId /\ EventInv'
  <2>1. CASE SetSlot(k, r)
    <3>1. slot[k].id \in 0..MaxId /\ 0 \in 0..MaxId
      BY Types, SocketFields
    <3>2. closing' \in 0..MaxId
      BY <2>1, <3>1 DEF SetSlot
    <3> QED
      BY <2>1, <3>2, <1>1, SetSlotEvents
  <2>2. CASE NoSlot
    <3>1. UNCHANGED <<slot, closing, ev, claim>>
      BY <2>2, <1>1 DEF NoSlot
    <3> QED
      BY <3>1, Types DEF Calm, EventInv
  <2> QED
    BY <2>1, <2>2
<1>5. raced' \in BOOLEAN
  BY DEF Take
<1> QED
  BY <1>1, <1>3, <1>4, <1>5, Types DEF Calm, TypeOK

\* The command at hand is for slot k; unless it opens the socket, the socket is open. (A start
\* may find the slot claimed, with its old id.)
LEMMA HeadFacts ==
    ASSUME Calm, NEW c, Take(c), ~raced', NEW k, k = HASH_ID(Head(pipe).id)
    PROVE  /\ Head(pipe) = pipe[1] /\ pipe[1] \in Command /\ pipe[1].c = c /\ pipe[1].id \in Id
           /\ k \in Slot /\ k = HASH_ID(pipe[1].id) /\ At(Head(pipe).id) = slot[k]
           /\ slot[k] \in Socket /\ LineInv(slot[k]) /\ ModeInv(slot[k])
           /\ Opens(1) <=> c \in {"O", "L"}
           /\ Opens(1) => slot[k].type = "RESERVE" /\ slot[k].id \in Id
           /\ c \in {"D", "K"} /\ ~Gone(slot[k], pipe[1].id) => slot[k].type # "RESERVE"
           /\ c = "D" => /\ pipe[1].p \in Package /\ pipe[1].p.id = pipe[1].id
                         /\ \A p \in Packages(slot[k]) : p.n < pipe[1].p.n
<1>1. pipe \in Seq(Command) /\ pipe # <<>> /\ Head(pipe).c = c
  BY Types DEF Take
<1>2. Head(pipe) = pipe[1] /\ pipe[1] \in Command /\ 1 \in 1..Len(pipe)
  BY <1>1
<1>3. pipe[1].id \in Id /\ pipe[1].c = c /\ (c = "D" => pipe[1].p \in Package)
  BY <1>1, <1>2, CommandFields
<1>4. k \in Slot /\ k = HASH_ID(pipe[1].id) /\ At(Head(pipe).id) = slot[k]
  BY <1>2, <1>3, HashSlot DEF Id, At
<1>5. slot[k] \in Socket /\ LineInv(slot[k]) /\ ModeInv(slot[k])
  BY <1>4, Types
<1>6. Opens(1) <=> c \in {"O", "L"}
  BY <1>3 DEF Opens
<1>7. Opens(1) => slot[k].type = "RESERVE" /\ slot[k].id \in Id
  BY <1>2, <1>3, <1>4 DEF Calm, PipeInv, At
<1>8. ASSUME c \in {"D", "K"}, ~Gone(slot[k], pipe[1].id), slot[k].type = "RESERVE" PROVE FALSE
  <2>1. slot[k].id = pipe[1].id
    BY <1>8 DEF Gone
  <2>a. claim[k] = 0
    BY <2>1, <1>2, <1>4, <1>8 DEF Take, Claimed
  <2>2. PICK i \in 1..Len(pipe) : Opens(i) /\ pipe[i].id = pipe[1].id
    BY <2>1, <2>a, <1>4, <1>8 DEF Calm, PipeInv
  <2>3. i <= 1
    BY <2>2, <1>2 DEF Calm, PipeInv
  <2>4. i = 1
    BY <2>2, <2>3
  <2> QED
    BY <2>2, <2>4, <1>6, <1>8
<1>9. c = "D" => pipe[1].p.id = pipe[1].id /\ \A p \in Packages(slot[k]) : p.n < pipe[1].p.n
  BY <1>2, <1>3, <1>4 DEF Calm, SendInv
<1> QED
  BY <1>2, <1>3, <1>4, <1>5, <1>6, <1>7, <1>8, <1>9

\* The slot that is opened: its lists are empty.
LEMMA NewFdOK ==
    ASSUME NEW s \in Socket, ModeInv(s), s.type = "RESERVE", s.id \in Id,
           NEW r \in {New_fd(s, "CONNECTED", FALSE), New_fd(s, "CONNECTING", TRUE),
                      New_fd(s, "PLISTEN", FALSE), [s EXCEPT !.type = "INVALID"]}
    PROVE  /\ r \in Socket /\ LineInv(r) /\ ModeInv(r) /\ r.id = s.id /\ r.type # "RESERVE"
           /\ Packages(r) = {}
<1>1. s.high = <<>> /\ s.low = <<>> /\ s.wire = <<>> /\ s.id \in Id
  BY DEF ModeInv, Empty
<1>2. {"CONNECTED", "CONNECTING", "PLISTEN", "INVALID"} \subseteq SocketType
  BY DEF SocketType
<1>3. ASSUME NEW t \in SocketType, NEW w \in BOOLEAN,
             r = New_fd(s, t, w) \/ r = [s EXCEPT !.type = t]
      PROVE  /\ r \in Socket /\ r.high = s.high /\ r.low = s.low /\ r.wire = s.wire
             /\ r.id = s.id /\ r.type = t /\ (r = New_fd(s, t, w) => r.write = w)
  BY <1>3 DEF Socket, New_fd
<1>4. /\ r \in Socket /\ r.high = s.high /\ r.low = s.low /\ r.wire = s.wire
      /\ r.id = s.id /\ r.type \in {"CONNECTED", "CONNECTING", "PLISTEN", "INVALID"}
      /\ r.type = "CONNECTING" => r.write
  <2>1. CASE r = New_fd(s, "CONNECTED", FALSE)
    BY <2>1, <1>2, <1>3
  <2>2. CASE r = New_fd(s, "CONNECTING", TRUE)
    BY <2>2, <1>2, <1>3
  <2>3. CASE r = New_fd(s, "PLISTEN", FALSE)
    BY <2>3, <1>2, <1>3
  <2>4. CASE r = [s EXCEPT !.type = "INVALID"]
    BY <2>4, <1>2, <1>3
  <2> QED
    BY <2>1, <2>2, <2>3, <2>4
<1>5. Empty(r) /\ r.wire = <<>>
  BY <1>1, <1>4 DEF Empty
<1> QED
  BY <1>1, <1>4, <1>5, EmptyLine DEF ModeInv

LEMMA OpenSocketStep ==
    ASSUME Calm, Open_socket \/ Listen_socket, ~raced'
    PROVE  Calm'
<1> DEFINE id == Head(pipe).id
           k == HASH_ID(id)
           s == slot[k]
<1>1. PICK c \in {"O", "L"} : Take(c) /\
         \E r \in {New_fd(At(id), "CONNECTED", FALSE), New_fd(At(id), "CONNECTING", TRUE),
                   New_fd(At(id), "PLISTEN", FALSE), [At(id) EXCEPT !.type = "INVALID"]} :
            SetSlot(k, r)
  BY DEF Open_socket, Listen_socket
<1>2. k = HASH_ID(Head(pipe).id) /\ Take(c)
  BY <1>1
<1> HIDE DEF k
<1>3. /\ k \in Slot /\ k = HASH_ID(pipe[1].id) /\ At(id) = s /\ s \in Socket /\ ModeInv(s)
      /\ Opens(1) /\ s.type = "RESERVE" /\ s.id \in Id
  BY <1>1, <1>2, HeadFacts
<1> HIDE DEF id, s
<1>4. PICK r \in {New_fd(s, "CONNECTED", FALSE), New_fd(s, "CONNECTING", TRUE),
                  New_fd(s, "PLISTEN", FALSE), [s EXCEPT !.type = "INVALID"]} : SetSlot(k, r)
  BY <1>1, <1>3
<1>5. /\ r \in Socket /\ LineInv(r) /\ ModeInv(r) /\ r.id = s.id
      /\ r.type # "RESERVE" /\ Packages(r) = {}
  BY <1>3, NewFdOK
<1> QED
  BY <1>2, <1>3, <1>4, <1>5, TakenStep DEF s

LEMMA StartSocketStep ==
    ASSUME Calm, Start_socket, ~raced'
    PROVE  Calm'
<1> DEFINE id == Head(pipe).id
           k == HASH_ID(id)
           s == slot[k]
<1>1. /\ Take("S")
      /\ \/ NoSlot
         \/ ~Gone(At(id), id) /\ \E r \in Started(At(id)) : SetSlot(k, r)
  BY DEF Start_socket
<1>2. k = HASH_ID(Head(pipe).id)
  OBVIOUS
<1> HIDE DEF k
<1>3. /\ k \in Slot /\ k = HASH_ID(pipe[1].id) /\ At(id) = s /\ s \in Socket
      /\ LineInv(s) /\ ModeInv(s) /\ ~Opens(1) /\ id = pipe[1].id
  BY <1>1, <1>2, HeadFacts
<1> HIDE DEF id, s
<1>4. CASE NoSlot
  BY <1>1, <1>3, <1>4, TakenStep DEF s
<1>5. ASSUME ~Gone(s, id), NEW r \in Started(s), SetSlot(k, r) PROVE Calm'
  <2>1. CASE r = s
    BY <2>1, <1>1, <1>3, <1>5, TakenStep DEF s
  <2>2. CASE s.type \in {"PACCEPT", "PLISTEN"} /\ r = Force_close(s)
    <3>1. /\ r \in Socket /\ LineInv(r) /\ ModeInv(r) /\ Packages(r) = {}
          /\ r.type = "INVALID" /\ r.id = s.id
      BY <2>2, <1>3, CloseOK
    <3> QED
      BY <3>1, <2>2, <1>1, <1>3, <1>5, TakenStep DEF s
  <2>3. CASE \/ s.type = "PACCEPT" /\ r = New_fd(s, "CONNECTED", FALSE)
             \/ s.type = "PLISTEN" /\ r = New_fd(s, "LISTEN", FALSE)
    <3>1. s.type \in {"PACCEPT", "PLISTEN"}
      BY <2>3
    <3>2. /\ r.type \in {"CONNECTED", "LISTEN"} /\ r.id = s.id /\ r.high = s.high
          /\ r.low = s.low /\ r.wire = s.wire /\ r \in Socket
      BY <2>3, <1>3 DEF New_fd, Socket, SocketType
    <3>3. Empty(s)
      BY <3>1, <1>3 DEF ModeInv
    <3>4. Empty(r) /\ Queue(r) = Queue(s) /\ Packages(r) = Packages(s)
      BY <3>2, <3>3 DEF Empty, Queue, Packages
    <3>5. LineInv(r)
      BY <3>2, <3>4, <1>3 DEF LineInv
    <3>6. ModeInv(r)
      BY <3>1, <3>2, <3>4, <1>3 DEF ModeInv
    <3> QED
      BY <3>1, <3>2, <3>4, <3>5, <3>6, <1>1, <1>3, <1>5, TakenStep DEF s
  <2> QED
    BY <2>1, <2>2, <2>3, <1>5 DEF Started
<1> QED
  BY <1>1, <1>3, <1>4, <1>5

\* What send_buffer makes of an open socket: it is closed, or it is still the same one, and
\* its write event is turned off only when nothing is left to write.
LEMMA FlushedOK ==
    ASSUME NEW s \in Socket, LineInv(s), NEW r \in Flushed(s)
    PROVE  /\ r \in Socket /\ LineInv(r) /\ r.id = s.id /\ Packages(r) \subseteq Packages(s)
           /\ Empty(s) => Empty(r)
           /\ \/ r.type = "INVALID" /\ Empty(r) /\ ModeInv(r)
              \/ r.type = s.type /\ r.write = s.write
              \/ r.type = s.type /\ s.type # "HALFCLOSE" /\ Empty(r)
<1>1. CASE r = Force_close(s)
  BY <1>1, CloseOK
<1>2. ASSUME NEW a \in Answers(s), r = Send_buffer(s, a[1], a[2]), r # Force_close(s)
      PROVE  /\ r \in Socket /\ LineInv(r) /\ r.id = s.id /\ Packages(r) \subseteq Packages(s)
             /\ Empty(s) => Empty(r)
             /\ \/ r.type = s.type /\ r.write = s.write
                \/ r.type = s.type /\ s.type # "HALFCLOSE" /\ Empty(r)
  <2>1. /\ r \in Socket /\ LineInv(r) /\ r.id = s.id /\ Packages(r) \subseteq Packages(s)
        /\ \/ r.type = s.type /\ r.write = s.write
           \/ r.type = s.type /\ s.type # "HALFCLOSE" /\ Empty(r)
    BY <1>2, SendBufferOK
  <2>2. ASSUME Empty(s) PROVE Empty(r)
    <3>1. s.high = <<>> /\ s.low = <<>>
      BY <2>2 DEF Empty
    <3>2. ~(a[1] < Len(s.high))
      BY <3>1 DEF Answers
    <3>3. r = [s EXCEPT !.high = <<>>, !.write = FALSE,
                       !.wire = Join(s.wire, Pieces(Queue(s), a[1], a[2]))]
      BY <3>1, <3>2, <1>2 DEF Send_buffer
    <3>4. r.high = <<>> /\ r.low = s.low
      BY <3>3 DEF Socket
    <3> QED
      BY <3>1, <3>4 DEF Empty
  <2> QED
    BY <2>1, <2>2
<1> QED
  BY <1>1, <1>2 DEF Flushed

LEMMA CloseSocketStep ==
    ASSUME Calm, Close_socket, ~raced'
    PROVE  Calm'
<1> DEFINE id == Head(pipe).id
           k == HASH_ID(id)
           s == slot[k]
           Closed(r) == IF Head(pipe).shutdown \/ Empty(r) THEN Force_close(r)
                        ELSE [r EXCEPT !.type = "HALFCLOSE"]
<1>1. /\ Take("K")
      /\ \/ NoSlot
         \/ /\ ~Gone(At(id), id)
            /\ \E r \in (IF Empty(At(id)) THEN {At(id)} ELSE Flushed(At(id))) : SetSlot(k, Closed(r))
  BY DEF Close_socket
<1>2. k = HASH_ID(Head(pipe).id)
  OBVIOUS
<1> HIDE DEF k
<1>3. /\ k \in Slot /\ k = HASH_ID(pipe[1].id) /\ At(id) = s /\ s \in Socket
      /\ LineInv(s) /\ ModeInv(s) /\ ~Opens(1) /\ id = pipe[1].id
      /\ (~Gone(s, id) => s.type # "RESERVE")
  BY <1>1, <1>2, HeadFacts
<1> HIDE DEF id, s
<1>4. CASE NoSlot
  BY <1>1, <1>3, <1>4, TakenStep DEF s
<1>5. ASSUME ~Gone(s, id), NEW r \in (IF Empty(s) THEN {s} ELSE Flushed(s)), SetSlot(k, Closed(r))
      PROVE  Calm'
  <2>1. s.type # "RESERVE" /\ s.type # "INVALID"
    BY <1>3, <1>5 DEF Gone
  <2>2. /\ r \in Socket /\ LineInv(r) /\ r.id = s.id /\ Packages(r) \subseteq Packages(s)
        /\ ~Empty(r) => ~Empty(s) /\ r.type = s.type /\ r.write = s.write
    <3>1. CASE r = s
      BY <3>1, <1>3, <1>5
    <3>2. CASE ~Empty(s) /\ r \in Flushed(s)
      BY <3>2, <1>3, FlushedOK
    <3> QED
      BY <3>1, <3>2, <1>5
  <2> DEFINE q == Closed(r)
  <2>3. CASE q = Force_close(r)
    <3>1. SetSlot(k, q)
      BY <1>5
    <3> HIDE DEF q
    <3>2. /\ q \in Socket /\ LineInv(q) /\ ModeInv(q) /\ Packages(q) = {}
          /\ q.type = "INVALID" /\ q.id = s.id
      BY <2>2, <2>3, CloseOK
    <3> QED
      BY <3>1, <3>2, <2>1, <1>1, <1>3, TakenStep DEF s
  <2>4. CASE q = [r EXCEPT !.type = "HALFCLOSE"] /\ ~Empty(r)
    <3>1. SetSlot(k, q)
      BY <1>5
    <3> HIDE DEF q
    <3>2. /\ q \in Socket /\ q.type = "HALFCLOSE" /\ q.id = r.id /\ q.high = r.high
          /\ q.low = r.low /\ q.wire = r.wire /\ q.write = r.write
      BY <2>2, <2>4 DEF Socket, SocketType
    <3>3. Queue(q) = Queue(r) /\ Packages(q) = Packages(r) /\ ~Empty(q)
      BY <3>2, <2>4 DEF Empty, Queue, Packages
    <3>4. LineInv(q)
      BY <3>2, <3>3, <2>2 DEF LineInv
    <3>5. s.write /\ s.id \in Id
      BY <2>1, <2>2, <2>4, <1>3 DEF ModeInv
    <3>6. ModeInv(q)
      BY <3>2, <3>5, <2>2, <2>4 DEF ModeInv
    <3> QED
      BY <3>1, <3>2, <3>3, <3>4, <3>6, <2>1, <2>2, <1>1, <1>3, TakenStep DEF s
  <2> QED
    BY <2>3, <2>4
<1> QED
  BY <1>1, <1>3, <1>4, <1>5

LEMMA SendSocketStep ==
    ASSUME Calm, Send_socket, ~raced'
    PROVE  Calm'
<1> DEFINE id == Head(pipe).id
           k == HASH_ID(id)
           s == slot[k]
           p == pipe[1].p
<1>1. Take("D")
  BY DEF Send_socket
<1>2. k = HASH_ID(Head(pipe).id)
  OBVIOUS
<1>3. /\ k \in Slot /\ k = HASH_ID(pipe[1].id) /\ At(id) = s /\ s \in Socket
      /\ LineInv(s) /\ ModeInv(s) /\ ~Opens(1) /\ id = pipe[1].id /\ Head(pipe) = pipe[1]
      /\ (~Gone(s, id) => s.type # "RESERVE")
      /\ p \in Package /\ p.id = id /\ pipe[1].c = "D" /\ \A o \in Packages(s) : o.n < p.n
  <2> HIDE DEF k
  <2> QED
    BY <1>1, <1>2, HeadFacts
<1>4. \/ NoSlot
      \/ /\ ~Refused(s, id) /\ Directly(s)
         /\ \/ \E n \in 0..Size : SetSlot(k, Written(s, p, n))
            \/ SetSlot(k, Force_close(s))
      \/ /\ ~Refused(s, id) /\ ~Directly(s)
         /\ SetSlot(k, IF p.low THEN Append_Low(s, p) ELSE Append_High(s, p, 0))
  BY <1>3 DEF Send_socket
<1> HIDE DEF id, k, s, p
<1>5. ASSUME ~Refused(s, id)
      PROVE  s.type \in {"CONNECTING", "CONNECTED"} /\ p.id = s.id /\ s.id \in Id
  BY <1>3, <1>5 DEF Refused, Gone, Socket, SocketType, ModeInv
<1>6. ASSUME ~Refused(s, id), NEW r \in Socket, LineInv(r), SetSlot(k, r),
             Packages(r) \subseteq Packages(s) \cup {p}, r.type = s.type, r.id = s.id,
             (Empty(r) /\ r.write = s.write) \/ (~Empty(r) /\ r.write)
      PROVE  Calm'
  <2>1. s.type \in {"CONNECTING", "CONNECTED"} /\ s.id \in Id
    BY <1>5, <1>6
  <2>2. ModeInv(r)
    BY <2>1, <1>3, <1>6 DEF ModeInv
  <2>3. \A o \in Packages(r) : o \in Packages(slot[k]) \/ (pipe[1].c = "D" /\ o = pipe[1].p)
    BY <1>3, <1>6 DEF s, p
  <2>4. r.type # "RESERVE" /\ slot[k].type # "RESERVE" /\ r.id = slot[k].id
    BY <2>1, <1>6 DEF s
  <2> QED
    BY <2>2, <2>3, <2>4, <1>1, <1>3, <1>6, TakenStep
<1>7. CASE NoSlot
  BY <1>1, <1>3, <1>7, TakenStep DEF s
<1>8. ASSUME ~Refused(s, id), Directly(s), NEW n \in 0..Size, SetSlot(k, Written(s, p, n))
      PROVE  Calm'
  <2>1. PICK r : r = Written(s, p, n)
    OBVIOUS
  <2>2. Empty(s)
    BY <1>8 DEF Directly
  <2>3. /\ r \in Socket /\ LineInv(r) /\ Packages(r) \subseteq Packages(s) \cup {p}
        /\ r.type = s.type /\ r.id = s.id
        /\ (Empty(r) /\ r.write = s.write) \/ (~Empty(r) /\ r.write)
    BY <2>1, <2>2, <1>3, <1>5, <1>8, WrittenOK
  <2> QED
    BY <2>1, <2>3, <1>6, <1>8
<1>9. ASSUME ~Refused(s, id), SetSlot(k, Force_close(s)) PROVE Calm'
  <2>1. PICK r : r = Force_close(s)
    OBVIOUS
  <2>2. /\ r \in Socket /\ LineInv(r) /\ ModeInv(r) /\ Packages(r) = {}
        /\ r.type = "INVALID" /\ r.id = s.id
    BY <2>1, <1>3, CloseOK
  <2>3. s.type # "RESERVE" /\ SetSlot(k, r)
    BY <2>1, <1>5, <1>9
  <2> QED
    BY <2>2, <2>3, <1>1, <1>3, TakenStep DEF s
<1>10. ASSUME ~Refused(s, id), ~Directly(s),
              SetSlot(k, IF p.low THEN Append_Low(s, p) ELSE Append_High(s, p, 0))
       PROVE  Calm'
  <2>1. PICK r : r = IF p.low THEN Append_Low(s, p) ELSE Append_High(s, p, 0)
    OBVIOUS
  <2>2. \/ p.low /\ r = Append_Low(s, p)
        \/ (p.low => Empty(s)) /\ r = Append_High(s, p, 0)
    BY <2>1
  <2>3. s \in Socket /\ LineInv(s)
    BY <1>3
  <2>6. p \in Package
    BY <1>3
  <2>7. p.id = s.id
    BY <1>5, <1>10
  <2>8. \A o \in Packages(s) : o.n < p.n
    BY <1>3
  <2>4. /\ r \in Socket /\ LineInv(r) /\ Packages(r) \subseteq Packages(s) \cup {p}
        /\ r.type = s.type /\ r.id = s.id /\ r.write = s.write /\ ~Empty(r)
    BY <2>2, <2>3, <2>6, <2>7, <2>8, AppendOK
  <2>5. s.write
    <3>1. s.type = "CONNECTING" \/ ~Empty(s)
      BY <1>5, <1>10 DEF Directly
    <3> QED
      BY <3>1, <1>3 DEF ModeInv
  <2> QED
    BY <2>1, <2>4, <2>5, <1>6, <1>10
<1> QED
  BY <1>4, <1>7, <1>8, <1>9, <1>10

\* The sockets and the pipe stay as they are.
LEMMA StayStep ==
    ASSUME Calm, UNCHANGED <<slot, alloc_id, pipe, claim, raced, sent>>,
           ev' \in Seq(Event), EventInv',
           first' \in BOOLEAN, checkctrl' \in BOOLEAN, closing' \in 0..MaxId
    PROVE  Calm'
<1>1. slot' \in [Slot -> Socket] /\ alloc_id' \in 0..MaxId /\ pipe' \in Seq(Command)
      /\ sent' \in 0..MaxPackage
  BY Types
<1>2. SlotsInv' /\ ClaimInv' /\ SendInv'
  BY DEF Calm, SlotsInv, ClaimInv, SendInv
<1>3. PipeInv'
  BY DEF Calm, PipeInv, Opens, At
<1>4. claim' \in [Slot -> 0..MaxId] /\ raced' \in BOOLEAN
  BY Types
<1> QED
  BY <1>1, <1>2, <1>3, <1>4 DEF Calm, TypeOK

\* An event of slot k is done, and the slot has become r.
LEMMA EventStep ==
    ASSUME Calm, NEW k \in Slot, ev # <<>>, Look(Tail(ev)), Head(ev).s = k, alloc_id' = alloc_id,
           slot[k].type # "RESERVE",
           NEW r \in Socket, LineInv(r), ModeInv(r), slot' = [slot EXCEPT ![k] = r],
           r.type # "RESERVE", r.id = slot[k].id, Packages(r) \subseteq Packages(slot[k])
    PROVE  Calm'
<1>1. /\ ev' = Tail(ev) /\ first' = FALSE /\ closing = 0
      /\ UNCHANGED <<pipe, checkctrl, claim, closing, raced, sent>>
  BY DEF Look
<1>2. slot' \in [Slot -> Socket] /\ SlotsInv' /\ PipeInv' /\ ClaimInv' /\ SendInv'
  BY <1>1, SlotStep
<1>3. \A j \in Slot : j # Head(ev).s => slot'[j] = slot[j]
  BY Types
<1>4. ev' \in Seq(Event) /\ EventInv'
  BY <1>1, <1>3, LookedEvents
<1> QED
  BY <1>1, <1>2, <1>4, Types DEF Calm, TypeOK

LEMMA NoCommandStep ==
    ASSUME Calm, NoCommand
    PROVE  Calm'
<1>1. EventInv' /\ ev' \in Seq(Event)
  BY Types DEF NoCommand, Calm, EventInv
<1>2. /\ UNCHANGED <<slot, alloc_id, pipe, claim, raced, sent>>
      /\ first' \in BOOLEAN /\ checkctrl' \in BOOLEAN /\ closing' \in 0..MaxId
  BY Types DEF NoCommand
<1> QED
  BY <1>1, <1>2, StayStep

\* clear_closed_event: the events that are left are of slots that are not free.
LEMMA ClearStep ==
    ASSUME Calm, Clear
    PROVE  Calm'
<1> DEFINE V(i) == IF /\ ev[i].s # NULL
                      /\ slot[ev[i].s].type = "INVALID" /\ slot[ev[i].s].id = closing
                   THEN [ev[i] EXCEPT !.s = NULL] ELSE ev[i]
<1>1. /\ ev' = [i \in DOMAIN ev |-> V(i)] /\ closing' = 0
      /\ UNCHANGED <<slot, alloc_id, pipe, checkctrl, first, claim, raced, sent>>
  BY DEF Clear
<1>2. ev \in Seq(Event) /\ DOMAIN ev = 1..Len(ev) /\ Len(ev) \in Nat
  BY Types
<1>3. \A i \in 1..Len(ev) : ev[i] \in Event
  BY <1>2
<1>4. \A i \in 1..Len(ev) : V(i) \in Event
  BY <1>3, EventFields
<1>5. \A i \in 1..Len(ev) :
         \/ V(i).s = NULL
         \/ /\ V(i) = ev[i]
            /\ ev[i].s # NULL => ~(slot[ev[i].s].type = "INVALID" /\ slot[ev[i].s].id = closing)
  BY <1>3, EventFields
<1> HIDE DEF V
<1>6. ev' \in Seq(Event) /\ Len(ev') = Len(ev)
  <2>1. ev' \in [1..Len(ev) -> Event]
    BY <1>1, <1>2, <1>4
  <2> QED
    BY <2>1, <1>2, FunctionIsSeq
<1>7. \A i \in 1..Len(ev) :
         \/ ev'[i].s = NULL
         \/ /\ ev'[i] = ev[i]
            /\ ev[i].s # NULL => ~(slot[ev[i].s].type = "INVALID" /\ slot[ev[i].s].id = closing)
  BY <1>1, <1>2, <1>5
<1>8. /\ \A i \in 1..Len(ev) : ev[i].s # NULL =>
            /\ slot[ev[i].s].id = ev[i].id /\ claim[ev[i].s] = 0
            /\ slot[ev[i].s].type # "INVALID" \/ closing = ev[i].id
      /\ \A i, j \in 1..Len(ev) : i # j /\ ev[i].s # NULL => ev[i].s # ev[j].s
  BY EventFacts
<1>9. \A i \in 1..Len(ev) : ev'[i].s # NULL =>
         /\ slot[ev'[i].s].id = ev'[i].id /\ claim[ev'[i].s] = 0
         /\ slot[ev'[i].s].type # "INVALID"
  BY <1>7, <1>8
<1>10. \A i, j \in 1..Len(ev) : i # j /\ ev'[i].s # NULL => ev'[i].s # ev'[j].s
  <2>1. SUFFICES ASSUME NEW i \in 1..Len(ev), NEW j \in 1..Len(ev), i # j, ev'[i].s # NULL
                 PROVE  ev'[i].s # ev'[j].s
    OBVIOUS
  <2>2. ev'[i] = ev[i] /\ (ev'[j].s = NULL \/ ev'[j] = ev[j])
    BY <2>1, <1>7
  <2>3. ev[i].s # NULL /\ ev[i].s # ev[j].s
    BY <2>1, <2>2, <1>8
  <2> QED
    BY <2>1, <2>2, <2>3
<1>11. EventInv'
  <2>1. \A i \in 1..Len(ev') : ev'[i].s # NULL =>
           /\ slot'[ev'[i].s].id = ev'[i].id /\ claim'[ev'[i].s] = 0
           /\ slot'[ev'[i].s].type # "INVALID"
    BY <1>1, <1>6, <1>9
  <2>2. \A i, j \in 1..Len(ev') : i # j /\ ev'[i].s # NULL => ev'[i].s # ev'[j].s
    BY <1>6, <1>10
  <2> QED
    BY <2>1, <2>2 DEF EventInv
<1>12. first' \in BOOLEAN /\ checkctrl' \in BOOLEAN /\ closing' \in 0..MaxId
  BY <1>1, Types
<1> QED
  BY <1>1, <1>6, <1>11, <1>12, StayStep

\* The events of a batch are of sockets that are open now, one of each.
LEMMA WaitStep ==
    ASSUME Calm, Wait
    PROVE  Calm'
<1> DEFINE E == UNION {EventOf(k) : k \in Watched}
<1>1. IsFiniteSet(Watched)
  <2>1. IsFiniteSet(Slot)
    BY FS_Interval DEF Slot
  <2> QED
    BY <2>1, FS_Subset DEF Watched
<1>2. Cardinality(Watched) \in Nat
  BY <1>1, FS_CardinalityType
<1>3. ASSUME NEW e \in E
      PROVE  /\ e \in Event /\ e.s \in Slot /\ slot[e.s].id = e.id
             /\ slot[e.s].type # "INVALID" /\ claim[e.s] = 0
  <2>1. PICK k \in Watched : e \in EventOf(k)
    OBVIOUS
  <2>2. k \in Slot /\ slot[k].type \notin {"INVALID", "RESERVE"} /\ claim[k] = 0
    BY DEF Watched, Calm, ClaimInv
  <2>3. slot[k].id \in Id /\ slot[k].write \in BOOLEAN
    BY <2>2, Types, SocketFields DEF ModeInv
  <2>4. e \in [s : {k}, read : BOOLEAN, write : {FALSE, slot[k].write}, id : {slot[k].id}]
    BY <2>1 DEF EventOf
  <2>5. e.s = k /\ e.id = slot[k].id
    BY <2>4
  <2>6. e \in Event
    BY <2>2, <2>3, <2>4 DEF Event
  <2> QED
    BY <2>2, <2>5, <2>6
<1> HIDE DEF E
<1>4. PICK m \in 0..Cardinality(Watched) : ev' \in [1..m -> E]
  BY DEF Wait, Batch, E
<1>5. \A i, j \in DOMAIN ev' : i # j => ev'[i].s # ev'[j].s
  BY DEF Wait, Batch
<1>6. m \in Nat
  BY <1>2, <1>4
<1>7. ev' \in Seq(Event) /\ Len(ev') = m /\ DOMAIN ev' = 1..m
  <2>1. ev' \in [1..m -> Event]
    BY <1>3, <1>4
  <2> QED
    BY <2>1, <1>6, FunctionIsSeq
<1>8. UNCHANGED <<slot, alloc_id, pipe, claim, closing, raced, sent>>
  BY DEF Wait
<1>9. EventInv'
  <2>1. \A i \in 1..m : /\ slot[ev'[i].s].id = ev'[i].id /\ claim[ev'[i].s] = 0
                        /\ slot[ev'[i].s].type # "INVALID"
    BY <1>3, <1>4
  <2> QED
    BY <2>1, <1>5, <1>7, <1>8 DEF EventInv
<1>10. first' \in BOOLEAN /\ checkctrl' \in BOOLEAN /\ closing' \in 0..MaxId
  BY <1>8, Types DEF Wait
<1> QED
  BY <1>7, <1>8, <1>9, <1>10, StayStep

LEMMA SkipStep ==
    ASSUME Calm, Skip
    PROVE  Calm'
<1>1. /\ ev # <<>> /\ ev' = Tail(ev) /\ first' = FALSE /\ closing = 0
      /\ UNCHANGED <<slot, alloc_id, pipe, checkctrl, claim, closing, raced, sent>>
  BY DEF Skip, Look
<1>2. ev' \in Seq(Event) /\ EventInv'
  BY <1>1, LookedEvents
<1>3. first' \in BOOLEAN /\ checkctrl' \in BOOLEAN /\ closing' \in 0..MaxId
  BY <1>1, Types
<1> QED
  BY <1>1, <1>2, <1>3, StayStep

LEMMA ConnectStep ==
    ASSUME Calm, NEW k \in Slot, Report_connect(k)
    PROVE  Calm'
<1> DEFINE s == slot[k]
           r == [s EXCEPT !.type = "CONNECTED", !.write = @ /\ ~Empty(s)]
<1>1. /\ s.type = "CONNECTING" /\ ev # <<>> /\ Look(Tail(ev)) /\ Head(ev).s = k
      /\ alloc_id' = alloc_id
  BY DEF Report_connect, Look
<1>2. s \in Socket /\ LineInv(s) /\ ModeInv(s)
  BY Types
<1>3. slot' = [slot EXCEPT ![k] = Force_close(s)] \/ slot' = [slot EXCEPT ![k] = r]
  BY Types DEF Report_connect
<1> HIDE DEF s
<1>4. CASE slot' = [slot EXCEPT ![k] = Force_close(s)]
  <2>1. PICK q : q = Force_close(s)
    OBVIOUS
  <2>2. /\ q \in Socket /\ LineInv(q) /\ ModeInv(q) /\ Packages(q) = {}
        /\ q.type = "INVALID" /\ q.id = s.id
    BY <2>1, <1>2, CloseOK
  <2> QED
    BY <2>1, <2>2, <1>1, <1>4, EventStep DEF s
<1>5. CASE slot' = [slot EXCEPT ![k] = r]
  <2>1. (s.write /\ ~Empty(s)) \in BOOLEAN
    OBVIOUS
  <2>2. /\ r \in Socket /\ r.type = "CONNECTED" /\ r.id = s.id /\ r.high = s.high
        /\ r.low = s.low /\ r.wire = s.wire /\ r.write = (s.write /\ ~Empty(s))
    BY <2>1, <1>2 DEF Socket, SocketType
  <2> HIDE DEF r
  <2>3. Queue(r) = Queue(s) /\ Packages(r) = Packages(s) /\ (Empty(r) <=> Empty(s))
    BY <2>2 DEF Empty, Queue, Packages
  <2>4. LineInv(r)
    BY <2>2, <2>3, <1>2 DEF LineInv
  <2>5. ModeInv(r)
    BY <2>2, <2>3, <1>1, <1>2 DEF ModeInv
  <2> QED
    BY <2>2, <2>3, <2>4, <2>5, <1>1, <1>5, EventStep DEF s
<1> QED
  BY <1>3, <1>4, <1>5

LEMMA AcceptStep ==
    ASSUME Calm, NEW k \in Slot, Report_accept(k)
    PROVE  Calm'
<1>1. /\ ev # <<>> /\ ev' = Tail(ev) /\ first' = FALSE /\ closing = 0
      /\ UNCHANGED <<pipe, checkctrl, claim, closing, raced, sent>>
  BY DEF Report_accept, Look
<1>2. first' \in BOOLEAN /\ checkctrl' \in BOOLEAN /\ closing' \in 0..MaxId
  BY <1>1, Types
<1>3. CASE UNCHANGED <<alloc_id, slot>>
  <2>1. ev' \in Seq(Event) /\ EventInv'
    BY <1>1, <1>3, LookedEvents
  <2> QED
    BY <2>1, <1>1, <1>2, <1>3, StayStep
<1>4. ASSUME NEW id \in Id, Reserved(id), alloc_id' = id,
             slot' = [slot EXCEPT ![HASH_ID(id)] = [New_fd(@, "PACCEPT", FALSE) EXCEPT !.id = id]]
      PROVE  Calm'
  <2> DEFINE h == HASH_ID(id)
  <2>1. h \in Slot
    BY HashSlot DEF Id
  <2>2. slot[h].type = "INVALID" /\ alloc_id < id
    BY <1>4 DEF Reserved, Free, At
  <2>3. slot[h] \in Socket /\ ModeInv(slot[h])
    BY <2>1, Types
  <2>4. PICK r : r = AcceptedAs(slot[h], id)
    OBVIOUS
  <2>5. slot' = [slot EXCEPT ![h] = r]
    BY <2>1, <2>4, <1>4, Types DEF AcceptedAs
  <2>6. h = HASH_ID(id)
    OBVIOUS
  <2> HIDE DEF h
  <2>7. r \in Socket /\ Empty(r) /\ r.wire = <<>> /\ r.id = id /\ r.type = "PACCEPT"
    BY <2>2, <2>3, <2>4, NewSlotOK
  <2>8. slot' \in [Slot -> Socket] /\ pipe' \in Seq(Command) /\ SlotsInv' /\ PipeInv' /\ ClaimInv' /\ SendInv'
    <3>1. r.type = "PACCEPT" /\ r.id = id /\ claim' = claim
      BY <2>7, <1>1
    <3>2. r \in Socket /\ Empty(r) /\ r.wire = <<>>
      BY <2>7
    <3>3. UNCHANGED <<pipe, sent>> /\ alloc_id' = id
      BY <1>1, <1>4
    <3> QED
      BY <3>1, <3>2, <3>3, <2>2, <2>5, <2>6, ReserveStep
  <2>9. \A j \in Slot : slot[j].type # "INVALID" => slot'[j] = slot[j]
    BY <2>2, <2>5, Types
  <2>10. ev' \in Seq(Event) /\ EventInv'
    BY <2>9, <1>1, LookedEvents
  <2> QED
    BY <2>8, <2>10, <1>1, <1>2, <1>4, Types DEF Calm, TypeOK, Id
<1> QED
  BY <1>3, <1>4 DEF Report_accept

LEMMA ReadStep ==
    ASSUME Calm, NEW k \in Slot, ReadGoesOn(k)
    PROVE  Calm'
<1>1. /\ ev # <<>> /\ first' = FALSE /\ closing = 0
      /\ UNCHANGED <<slot, alloc_id, pipe, checkctrl, claim, closing, raced, sent>>
      /\ ev' = Tail(ev) \/ ev' = [ev EXCEPT ![1].read = FALSE]
  BY DEF ReadGoesOn, Look
<1>2. ev' \in Seq(Event) /\ EventInv'
  <2>1. CASE ev' = Tail(ev)
    BY <2>1, <1>1, LookedEvents
  <2>2. CASE ev' = [ev EXCEPT ![1].read = FALSE]
    <3>1. /\ ev \in Seq(Event)
          /\ \A i \in 1..Len(ev) : ev[i].s # NULL =>
                /\ slot[ev[i].s].id = ev[i].id /\ claim[ev[i].s] = 0
                /\ slot[ev[i].s].type # "INVALID"
          /\ \A i, j \in 1..Len(ev) : i # j /\ ev[i].s # NULL => ev[i].s # ev[j].s
      BY <1>1, EventFacts
    <3>2. 1 \in 1..Len(ev) /\ ev[1] \in Event
      BY <3>1, <1>1
    <3>3. PICK e : e = [ev[1] EXCEPT !.read = FALSE]
      OBVIOUS
    <3>4. e \in Event /\ e.s = ev[1].s /\ e.id = ev[1].id
      BY <3>2, <3>3, EventFields
    <3>5. ev' = [ev EXCEPT ![1] = e]
      BY <2>2, <3>1, <3>2, <3>3
    <3>6. ev' \in Seq(Event) /\ Len(ev') = Len(ev) /\ DOMAIN ev' = 1..Len(ev)
      BY <3>1, <3>2, <3>4, <3>5
    <3>7. \A i \in 1..Len(ev) : ev'[i].s = ev[i].s /\ ev'[i].id = ev[i].id
      BY <3>1, <3>2, <3>4, <3>5
    <3>8. \A i \in 1..Len(ev) : ev'[i].s # NULL =>
             /\ slot'[ev'[i].s].id = ev'[i].id /\ claim'[ev'[i].s] = 0
             /\ slot'[ev'[i].s].type # "INVALID"
      BY <3>1, <3>7, <1>1
    <3>9. \A i, j \in 1..Len(ev) : i # j /\ ev'[i].s # NULL => ev'[i].s # ev'[j].s
      BY <3>1, <3>7
    <3> QED
      BY <3>6, <3>8, <3>9 DEF EventInv
  <2> QED
    BY <2>1, <2>2, <1>1
<1>3. first' \in BOOLEAN /\ checkctrl' \in BOOLEAN /\ closing' \in 0..MaxId
  BY <1>1, Types
<1> QED
  BY <1>1, <1>2, <1>3, StayStep

LEMMA ReadEndsStep ==
    ASSUME Calm, NEW k \in Slot, ReadEnds(k)
    PROVE  Calm'
<1>1. /\ slot[k].type \in {"CONNECTED", "HALFCLOSE"} /\ ev # <<>> /\ Look(Tail(ev))
      /\ Head(ev).s = k /\ alloc_id' = alloc_id
  BY DEF ReadEnds, Look
<1>2. slot[k] \in Socket
  BY Types
<1>3. PICK r : r = Force_close(slot[k])
  OBVIOUS
<1>4. /\ r \in Socket /\ LineInv(r) /\ ModeInv(r) /\ Packages(r) = {}
      /\ r.type = "INVALID" /\ r.id = slot[k].id
  BY <1>2, <1>3, CloseOK
<1>5. slot' = [slot EXCEPT ![k] = r]
  BY <1>3, Types DEF ReadEnds
<1> QED
  BY <1>1, <1>4, <1>5, EventStep

LEMMA WriteStep ==
    ASSUME Calm, NEW k \in Slot, WriteEvent(k)
    PROVE  Calm'
<1>1. /\ slot[k].type \in {"CONNECTED", "HALFCLOSE"} /\ ev # <<>> /\ Look(Tail(ev))
      /\ Head(ev).s = k /\ alloc_id' = alloc_id
  BY DEF WriteEvent, Look
<1>2. slot[k] \in Socket /\ LineInv(slot[k]) /\ ModeInv(slot[k])
  BY Types
<1>3. PICK r \in Flushed(slot[k]) : slot' = [slot EXCEPT ![k] = r]
  BY DEF WriteEvent
<1>4. /\ r \in Socket /\ LineInv(r) /\ r.id = slot[k].id /\ Packages(r) \subseteq Packages(slot[k])
      /\ Empty(slot[k]) => Empty(r)
      /\ \/ r.type = "INVALID" /\ Empty(r) /\ ModeInv(r)
         \/ r.type = slot[k].type /\ r.write = slot[k].write
         \/ r.type = slot[k].type /\ slot[k].type # "HALFCLOSE" /\ Empty(r)
  BY <1>2, FlushedOK
<1>5. ModeInv(r)
  BY <1>1, <1>2, <1>4 DEF ModeInv
<1> QED
  BY <1>1, <1>3, <1>4, <1>5, EventStep

-----------------------------------------------------------------------------
(* The theorems                                                            *)

LEMMA InitCalm == Init => Calm
<1>1. SUFFICES ASSUME Init PROVE Calm
  OBVIOUS
<1>2. PICK s : s = [type |-> "INVALID", id |-> 0, high |-> <<>>, low |-> <<>>,
                    write |-> FALSE, wire |-> <<>>]
  OBVIOUS
<1>3. /\ s.type = "INVALID" /\ s.id = 0 /\ s.high = <<>> /\ s.low = <<>>
      /\ s.write = FALSE /\ s.wire = <<>> /\ s \in Socket
  <2>1. <<>> \in Seq(Buffer) /\ <<>> \in Seq(Piece)
    OBVIOUS
  <2> QED
    BY <2>1, <1>2 DEF Socket, SocketType
<1>4. LineInv(s) /\ ModeInv(s) /\ Packages(s) = {}
  BY <1>3, EmptyLine DEF ModeInv, Empty
<1>5. slot \in [Slot -> Socket] /\ \A k \in Slot : slot[k] = s
  BY <1>1, <1>2, <1>3 DEF Init
<1>6. TypeOK
  <2>1. <<>> \in Seq(Command) /\ <<>> \in Seq(Event)
    OBVIOUS
  <2>2. alloc_id \in 0..MaxId /\ sent \in 0..MaxPackage
    BY <1>1 DEF Init
  <2>3. checkctrl \in BOOLEAN /\ first \in BOOLEAN
    BY <1>1 DEF Init
  <2>4. claim \in [Slot -> 0..MaxId] /\ closing \in 0..MaxId /\ raced \in BOOLEAN
    <3>1. 0 \in 0..MaxId
      OBVIOUS
    <3>2. claim = [k \in Slot |-> 0] /\ closing = 0 /\ raced = FALSE
      BY <1>1 DEF Init
    <3> QED
      BY <3>1, <3>2
  <2> QED
    BY <2>1, <2>2, <2>3, <2>4, <1>1, <1>5 DEF Init, TypeOK
<1>7. SlotsInv
  BY <1>4, <1>5 DEF SlotsInv
<1>8. PipeInv /\ ClaimInv /\ SendInv /\ EventInv
  BY <1>1, <1>3, <1>5 DEF Init, PipeInv, ClaimInv, SendInv, EventInv
<1> QED
  BY <1>6, <1>7, <1>8 DEF Calm

LEMMA NextCalm == Calm /\ [Next]_vars /\ ~raced' => Calm'
<1>1. SUFFICES ASSUME Calm, [Next]_vars, ~raced' PROVE Calm'
  OBVIOUS
<1>2. CASE Services
  BY <1>1, <1>2, ReserveIdStep, OpenStep, AskStep DEF Services
<1>3. CASE Commands
  BY <1>1, <1>3, OpenSocketStep, StartSocketStep, CloseSocketStep, SendSocketStep DEF Commands
<1>4. CASE Clear \/ NoCommand \/ Wait \/ Skip
  BY <1>1, <1>4, ClearStep, NoCommandStep, WaitStep, SkipStep
<1>5. CASE \E k \in Slot : Events(k)
  BY <1>1, <1>5, ConnectStep, AcceptStep, ReadStep, ReadEndsStep, WriteStep DEF Events
<1>6. CASE UNCHANGED vars
  <2>1. /\ UNCHANGED <<slot, alloc_id, pipe, checkctrl, ev, first, claim, closing, raced>>
        /\ sent' = sent
    BY <1>6 DEF vars
  <2>2. /\ ev' \in Seq(Event) /\ EventInv' /\ first' \in BOOLEAN /\ checkctrl' \in BOOLEAN
        /\ closing' \in 0..MaxId
    BY <2>1, <1>1, Types DEF Calm, EventInv
  <2> QED
    BY <2>1, <2>2, <1>1, StayStep
<1> QED
  BY <1>1, <1>2, <1>3, <1>4, <1>5, <1>6 DEF Next

\* Until a slot is claimed at the wrong moment, the inductive invariant holds, for any number
\* of slots, ids, packages and commands in the pipe; the types of the variables are part of it.
THEOREM IndInvHolds == Spec => []IndInv
<1>1. Init => IndInv
  BY InitCalm DEF IndInv
<1>2. IndInv /\ [Next]_vars => IndInv'
  <2>1. SUFFICES ASSUME IndInv, [Next]_vars, ~raced' PROVE Calm'
    BY DEF IndInv
  <2>2. ~raced
    BY <2>1 DEF Next, vars
  <2> QED
    BY <2>1, <2>2, NextCalm DEF IndInv
<1> QED
  BY <1>1, <1>2, PTL DEF Spec

\* What is on a wire is whole: send_list_tcp, raise_uncomplete, append_sendbuffer and the
\* direct write of send_socket never put a package into another one, or before an earlier
\* one of its priority, or onto the wire of the next socket in the slot.
THEOREM WholeHolds == Spec => []Whole
<1>1. IndInv => Whole
  <2>1. SUFFICES ASSUME Calm, NEW k \in Slot,
                        NEW i \in DOMAIN slot[k].wire, NEW j \in DOMAIN slot[k].wire
                 PROVE  LET x == slot[k].wire
                        IN  /\ x[i].p.id = slot[k].id
                            /\ i < j => /\ x[i].bytes = Size /\ x[i].p # x[j].p
                                        /\ x[i].p.low = x[j].p.low => x[i].p.n < x[j].p.n
    BY DEF Whole, IndInv
  <2> DEFINE x == slot[k].wire
  <2>2. slot[k] \in Socket /\ LineInv(slot[k])
    BY <2>1, Types
  <2>3. x \in Seq(Piece) /\ Line(x, Queue(slot[k]))
    BY <2>2, SocketFields DEF LineInv
  <2>4. i \in 1..Len(x) /\ j \in 1..Len(x)
    BY <2>3
  <2>5. x[i].p \in Packages(slot[k])
    BY <2>4 DEF Packages
  <2>6. x[i].p.id = slot[k].id
    BY <2>2, <2>5 DEF LineInv
  <2>7. x[i].p \in Package /\ x[j].p \in Package
    BY <2>3, <2>4, PieceFields
  <2>8. ASSUME i < j
        PROVE  /\ x[i].bytes = Size /\ x[i].p # x[j].p
               /\ x[i].p.low = x[j].p.low => x[i].p.n < x[j].p.n
    <3>1. x[i].bytes = Size /\ Ord(x[i].p, x[j].p)
      BY <2>3, <2>4, <2>8 DEF Line, Sorted
    <3> QED
      BY <3>1, <2>7 DEF Ord, Package
  <2> QED
    BY <2>6, <2>8
<1> QED
  BY <1>1, IndInvHolds, PTL

\* No socket is forgotten: wherever packages wait, or the socket is half-closed, the write
\* event is on (send_buffer, append_sendbuffer, report_connect and close_socket agree on it).
THEOREM DrainingHolds == Spec => []Draining
<1>1. IndInv => Draining
  BY Types DEF Draining, ModeInv, IndInv
<1> QED
  BY <1>1, IndInvHolds, PTL

\* clear_closed_event is enough unless the slot is claimed before it: no event of the batch is
\* handed to another socket than the one that epoll reported, however many commands are taken
\* in between.
THEOREM FreshEventsHolds == Spec => []FreshEvents
<1>1. IndInv => FreshEvents
  <2>1. SUFFICES ASSUME Calm, closing = 0, NEW i \in DOMAIN ev, ev[i].s # NULL
                 PROVE  slot[ev[i].s].id = ev[i].id /\ slot[ev[i].s].type # "INVALID"
    BY DEF IndInv, FreshEvents
  <2>2. i \in 1..Len(ev)
    BY <2>1, Types
  <2> QED
    BY <2>1, <2>2, EventFacts
<1> QED
  BY <1>1, IndInvHolds, PTL

\* The assertions of the socket thread fail only by the races of reserve_id.
THEOREM SlotAssertsHolds == Spec => []SlotAsserts
<1>1. IndInv => SlotAsserts
  <2>1. SUFFICES ASSUME Calm, ~raced PROVE SlotAsserts
    BY DEF IndInv, SlotAsserts
  <2>2. ASSUME NEW k \in Slot
        PROVE  /\ ~Uncomplete(slot[k].low)
               /\ slot[k].type \in {"INVALID", "RESERVE"} => Empty(slot[k])
    <3>1. slot[k] \in Socket /\ LineInv(slot[k]) /\ ModeInv(slot[k])
      BY <2>1, Types
    <3>2. slot[k].low \in Seq(Buffer)
      BY <3>1, SocketFields
    <3>3. ~Uncomplete(slot[k].low)
      BY <3>1, <3>2 DEF LineInv, Uncomplete
    <3> QED
      BY <3>1, <3>3 DEF ModeInv
  <2>3. ASSUME NEW i \in DOMAIN pipe
        PROVE  LET id == pipe[i].id
                   reserved == At(id).type = "RESERVE" /\ At(id).id = id
               IN  IF pipe[i].c \in {"O", "L"} THEN reserved
                   ELSE reserved /\ ~Claimed(id) =>
                           \E j \in 1..(i - 1) : pipe[j].c \in {"O", "L"} /\ pipe[j].id = id
    <3>1. i \in 1..Len(pipe) /\ pipe[i] \in Command
      BY <2>1, <2>3, Types
    <3>2. HASH_ID(pipe[i].id) \in Slot
      BY <3>1, CommandFields, HashSlot DEF Id
    <3>3. PipeInv
      BY <2>1 DEF Calm
    <3>4. CASE Opens(i)
      BY <3>1, <3>3, <3>4 DEF PipeInv, Opens
    <3>5. ASSUME ~Opens(i), At(pipe[i].id).type = "RESERVE", At(pipe[i].id).id = pipe[i].id,
                 ~Claimed(pipe[i].id)
          PROVE  \E j \in 1..(i - 1) : Opens(j) /\ pipe[j].id = pipe[i].id
      <4>1. PICK j \in 1..Len(pipe) : Opens(j) /\ pipe[j].id = pipe[i].id
        BY <3>2, <3>3, <3>5 DEF PipeInv, At, Claimed
      <4>2. j <= i
        BY <4>1, <3>1, <3>3 DEF PipeInv
      <4>3. j # i
        BY <4>1, <3>5
      <4>4. j \in 1..(i - 1)
        BY <4>1, <4>2, <4>3, <3>1
      <4> QED
        BY <4>1, <4>4
    <3> QED
      BY <3>4, <3>5 DEF Opens
  <2> QED
    BY <2>2, <2>3 DEF SlotAsserts
<1> QED
  BY <1>1, IndInvHolds, PTL
=============================================================================
