---------------------------- MODULE SocketServer ----------------------------
(***************************************************************************)
(* The socket thread of a skynet process (socket_server.c): the slots of   *)
(* the sockets, the pipe of commands from the services, the batch of       *)
(* events from epoll, and the two lists of packages that wait to be        *)
(* written to a socket.                                                    *)
(*                                                                         *)
(* One command, or one event, is a step of the thread, together with what  *)
(* the kernel answers to its system calls; clear_closed_event is a step    *)
(* after the command that closed a socket. A service reserves a slot in    *)
(* two steps, the claim and the new id. Two races come of that (raced);    *)
(* behaviours end with them. Bound file descriptors and UDP are left out.  *)
(***************************************************************************)
EXTENDS Integers, Sequences, FiniteSets

CONSTANTS
    MAX_SOCKET,   \* slots
    MaxId,        \* bound: ids given out
    MaxPackage,   \* bound: packages sent
    MaxPipe,      \* commands the pipe holds before its writers have to wait
    Size          \* bytes of a package

ASSUME SocketAssumption ==
    /\ MAX_SOCKET \in Nat \ {0} /\ MaxId \in Nat
    /\ MaxPackage \in Nat /\ MaxPipe \in Nat \ {0} /\ Size \in Nat \ {0}

VARIABLES
    slot,       \* of each slot: type, id, the write lists high and low, and whether
                \* epoll is asked for its write events; and (history) the packages
                \* written to it and how many bytes of each
    alloc_id,
    pipe,       \* commands on their way to the socket thread
    checkctrl,
    ev,         \* events not yet looked at; id is that of the socket at the time (history)
    first,      \* sp_wait has just returned ev: its first event comes before any command
    claim,      \* of each slot: the id it was claimed for and does not have yet, or 0
    closing,    \* the socket a command has closed whose event is still to be cleared, or 0
    raced,      \* history: a slot was claimed at the wrong moment
    sent        \* history: packages sent so far

vars == <<slot, alloc_id, pipe, checkctrl, ev, first, claim, closing, raced, sent>>

Slot == 0..(MAX_SOCKET - 1)
Id == 1..MaxId
SocketType == {"INVALID", "RESERVE", "PLISTEN", "LISTEN", "CONNECTING", "CONNECTED",
               "HALFCLOSE", "PACCEPT"}
Package == [n : 1..MaxPackage, id : Id, low : BOOLEAN]
Buffer == [p : Package, left : 1..Size]
Piece == [p : Package, bytes : 1..Size]
Socket == [type : SocketType, id : 0..MaxId, high : Seq(Buffer), low : Seq(Buffer),
           write : BOOLEAN, wire : Seq(Piece)]
Command == [c : {"S", "L", "O"}, id : Id] \cup [c : {"K"}, id : Id, shutdown : BOOLEAN]
           \cup [c : {"D"}, id : Id, p : Package]
NULL == -1   \* no socket
Event == [s : Slot \cup {NULL}, read : BOOLEAN, write : BOOLEAN, id : Id]

TypeOK ==
    /\ slot \in [Slot -> Socket]
    /\ alloc_id \in 0..MaxId
    /\ pipe \in Seq(Command)
    /\ checkctrl \in BOOLEAN
    /\ ev \in Seq(Event)
    /\ first \in BOOLEAN
    /\ claim \in [Slot -> 0..MaxId] /\ closing \in 0..MaxId /\ raced \in BOOLEAN
    /\ sent \in 0..MaxPackage

HASH_ID(id) == id % MAX_SOCKET
At(id) == slot[HASH_ID(id)]

\* socket_server_create
Init ==
    /\ slot = [k \in Slot |-> [type |-> "INVALID", id |-> 0, high |-> <<>>, low |-> <<>>,
                               write |-> FALSE, wire |-> <<>>]]
    /\ alloc_id = 0
    /\ pipe = <<>> /\ checkctrl = TRUE /\ ev = <<>> /\ first = FALSE
    /\ claim = [k \in Slot |-> 0] /\ closing = 0 /\ raced = FALSE
    /\ sent = 0

-----------------------------------------------------------------------------
(* The services                                                            *)

\* reserve_id: the next id whose slot is free; the ids of occupied slots are skipped. (When
\* all are occupied it fails, and the ids it tried are gone.)
Free(id) == At(id).type = "INVALID"
Reserved(id) ==
    /\ alloc_id < id /\ id <= alloc_id + MAX_SOCKET
    /\ Free(id) /\ \A j \in (alloc_id + 1)..(id - 1) : ~Free(j)

\* The slot is claimed and has its old id still. If an event for it waits, its socket was
\* closed a moment ago, and clear_closed_event will not find it closed.
Reserve(id) ==
    /\ Reserved(id)
    /\ alloc_id' = id
    /\ slot' = [slot EXCEPT ![HASH_ID(id)].type = "RESERVE"]
    /\ claim' = [claim EXCEPT ![HASH_ID(id)] = id]
    /\ raced' = \E i \in DOMAIN ev : ev[i].s = HASH_ID(id)
    /\ UNCHANGED <<pipe, checkctrl, ev, first, closing, sent>>

Request(cmd) == Len(pipe) < MaxPipe /\ pipe' = Append(pipe, cmd)

\* socket_server_connect and socket_server_listen, after the claim
Open(id, c) ==
    /\ claim[HASH_ID(id)] = id
    /\ slot' = [slot EXCEPT ![HASH_ID(id)].id = id]
    /\ claim' = [claim EXCEPT ![HASH_ID(id)] = 0]
    /\ Request([c |-> c, id |-> id])
    /\ UNCHANGED <<alloc_id, checkctrl, ev, first, closing, raced, sent>>

Gone(s, id) == s.type = "INVALID" \/ s.id # id

\* socket_server_send and _send_lowpriority, unless the socket is seen to be gone.
Send(id, low) ==
    /\ sent < MaxPackage
    /\ ~Gone(At(id), id)
    /\ sent' = sent + 1
    /\ Request([c |-> "D", id |-> id, p |-> [n |-> sent + 1, id |-> id, low |-> low]])
    /\ UNCHANGED <<slot, alloc_id, checkctrl, ev, first, claim, closing, raced>>

\* socket_server_start. The state of the socket is not looked at before the command is taken;
\* the guard leaves out the commands that would only be answered, here those for a socket
\* that is gone or connected, and below those for one that is gone.
Start(id) ==
    /\ ~Gone(At(id), id) /\ At(id).type \in {"RESERVE", "PLISTEN", "PACCEPT"}
    /\ Request([c |-> "S", id |-> id])
    /\ UNCHANGED <<slot, alloc_id, checkctrl, ev, first, claim, closing, raced, sent>>

\* socket_server_close and _shutdown
Close(id, shutdown) ==
    /\ ~Gone(At(id), id)
    /\ Request([c |-> "K", id |-> id, shutdown |-> shutdown])
    /\ UNCHANGED <<slot, alloc_id, checkctrl, ev, first, claim, closing, raced, sent>>

-----------------------------------------------------------------------------
(* Writing to a socket s, a record                                         *)

\* force_close
Force_close(s) ==
    [s EXCEPT !.type = "INVALID", !.high = <<>>, !.low = <<>>, !.write = FALSE, !.wire = <<>>]

\* send_buffer_empty
Empty(s) == s.high = <<>> /\ s.low = <<>>

\* What is on the wire when the pieces o follow x: a piece of the package that x ends with
\* goes on with it.
Join(x, o) ==
    LET m == IF x # <<>> /\ o # <<>> /\ x[Len(x)].p = o[1].p THEN 1 ELSE 0
    IN  [i \in 1..(Len(x) + Len(o) - m) |->
            IF m = 1 /\ i = Len(x) THEN [p |-> x[i].p, bytes |-> x[i].bytes + o[1].bytes]
            ELSE IF i <= Len(x) THEN x[i]
            ELSE o[i - Len(x) + m]]

\* send_list_tcp: write takes the first k buffers of the list and n bytes of the next one;
\* those are the pieces that are written, and the buffers that are left.
Pieces(list, k, n) ==
    [i \in 1..(IF n = 0 THEN k ELSE k + 1) |->
        [p |-> list[i].p, bytes |-> IF i <= k THEN list[i].left ELSE n]]
Rest(list, k, n) ==
    [i \in 1..(Len(list) - k) |->
        [p |-> list[i + k].p, left |-> IF i = 1 THEN list[1 + k].left - n ELSE list[i + k].left]]

Uncomplete(list) == list # <<>> /\ list[1].left # Size

Raise_uncomplete_Not(s) == s
\* raise_uncomplete: what is left of a low package goes before all others.
Raise_uncomplete(s) ==
    IF Uncomplete(s.low) THEN [s EXCEPT !.high = <<s.low[1]>>, !.low = Tail(s.low)] ELSE s

\* What write may take of both lists together: k buffers, and n bytes of the next.
Queue(s) == s.high \o s.low
Answers(s) ==
    {a \in (0..Len(Queue(s))) \X (0..(Size - 1)) :
        IF a[1] < Len(Queue(s)) THEN a[2] < Queue(s)[a[1] + 1].left ELSE a[2] = 0}

\* send_buffer when no write fails: the high list, then the low one, then the write event is
\* turned off and a half-closed socket closed.
Send_buffer(s, k, n) ==
    LET h == Len(s.high)
        x == Join(s.wire, Pieces(Queue(s), k, n))
    IN  IF k < h THEN [s EXCEPT !.high = Rest(s.high, k, n), !.wire = x]
        ELSE IF s.low # <<>>
        THEN Raise_uncomplete([s EXCEPT !.high = <<>>, !.low = Rest(s.low, k - h, n), !.wire = x])
        ELSE IF s.type = "HALFCLOSE" THEN Force_close(s)
        ELSE [s EXCEPT !.high = <<>>, !.write = FALSE, !.wire = x]

\* send_buffer, with what its writes may do.
Flushed(s) == {Send_buffer(s, a[1], a[2]) : a \in Answers(s)}
              \cup (IF Empty(s) THEN {} ELSE {Force_close(s)})

-----------------------------------------------------------------------------
(* The socket thread: commands                                             *)

\* Slot k becomes s.
SetSlot(k, s) ==
    /\ slot' = [slot EXCEPT ![k] = s]
    /\ closing' = IF s.type = "INVALID" THEN slot[k].id ELSE 0
NoSlot == UNCHANGED <<slot, closing>>

\* clear_closed_event: an event of a socket that the last command has closed is void. It is
\* known by the slot, which has the socket's id and is free.
Clear_Keep ==
    /\ closing # 0
    /\ closing' = 0
    /\ UNCHANGED <<slot, alloc_id, pipe, checkctrl, ev, first, claim, raced, sent>>
Clear ==
    /\ closing # 0
    /\ closing' = 0
    /\ ev' = [i \in DOMAIN ev |->
                  IF /\ ev[i].s # NULL
                     /\ slot[ev[i].s].type = "INVALID" /\ slot[ev[i].s].id = closing
                  THEN [ev[i] EXCEPT !.s = NULL] ELSE ev[i]]
    /\ UNCHANGED <<slot, alloc_id, pipe, checkctrl, first, claim, raced, sent>>

\* The slot of id is claimed for another socket, and id is its id still.
Claimed(id) == claim[HASH_ID(id)] # 0 /\ At(id).id = id

\* A package or a close that comes to such a slot is not refused: the package goes into the
\* lists of the new socket, the close fails the assertion of force_close.
Take(c) ==
    /\ closing = 0
    /\ checkctrl /\ ~first /\ pipe # <<>> /\ Head(pipe).c = c
    /\ pipe' = Tail(pipe)
    /\ raced' = (c \in {"D", "K"} /\ Claimed(Head(pipe).id))
    /\ UNCHANGED <<alloc_id, checkctrl, ev, first, claim, sent>>

\* new_fd
New_fd(s, type, write) == [s EXCEPT !.type = type, !.write = write]

\* open_socket: connected at once, connecting, or failed.
Open_socket ==
    /\ Take("O")
    /\ LET id == Head(pipe).id
       IN  \E s \in {New_fd(At(id), "CONNECTED", FALSE), New_fd(At(id), "CONNECTING", TRUE),
                     [At(id) EXCEPT !.type = "INVALID"]} : SetSlot(HASH_ID(id), s)

Listen_socket ==
    /\ Take("L")
    /\ LET id == Head(pipe).id IN SetSlot(HASH_ID(id), New_fd(At(id), "PLISTEN", FALSE))

\* start_socket: epoll may refuse the socket.
Started(s) ==
    CASE s.type = "PACCEPT" -> {New_fd(s, "CONNECTED", FALSE), Force_close(s)}
      [] s.type = "PLISTEN" -> {New_fd(s, "LISTEN", FALSE), Force_close(s)}
      [] OTHER -> {s}
Start_socket ==
    /\ Take("S")
    /\ LET id == Head(pipe).id
       IN  IF Gone(At(id), id) THEN NoSlot
           ELSE \E s \in Started(At(id)) : SetSlot(HASH_ID(id), s)

\* close_socket: what can be written is written first.
Close_socket ==
    /\ Take("K")
    /\ LET id == Head(pipe).id
           s == At(id)
       IN  IF Gone(s, id) THEN NoSlot
           ELSE \E r \in (IF Empty(s) THEN {s} ELSE Flushed(s)) :
                   SetSlot(HASH_ID(id), IF Head(pipe).shutdown \/ Empty(r) THEN Force_close(r)
                                        ELSE [r EXCEPT !.type = "HALFCLOSE"])

\* send_socket: directly if nothing waits, otherwise to the end of a list.
Directly(s) == Empty(s) /\ s.type = "CONNECTED"
Append_Low(s, p) == [s EXCEPT !.low = Append(@, [p |-> p, left |-> Size])]
Append_High(s, p, n) == [s EXCEPT !.high = Append(@, [p |-> p, left |-> Size - n])]

Refused_ByState(s, id) == s.type \in {"INVALID", "HALFCLOSE", "PACCEPT", "PLISTEN", "LISTEN"}
Refused(s, id) ==
    \/ Gone(s, id)
    \/ s.type \in {"HALFCLOSE", "PACCEPT", "PLISTEN", "LISTEN"}

\* write took n bytes of the package.
Wrote(s, p, n) ==
    IF n = 0 THEN s ELSE [s EXCEPT !.wire = Join(@, <<[p |-> p, bytes |-> n]>>)]
Written_NotArmed(s, p, n) ==
    IF n = Size THEN Wrote(s, p, n) ELSE Append_High(Wrote(s, p, n), p, n)
Written(s, p, n) ==
    IF n = Size THEN Wrote(s, p, n)
    ELSE [Append_High(Wrote(s, p, n), p, n) EXCEPT !.write = TRUE]

Send_socket ==
    /\ Take("D")
    /\ LET id == Head(pipe).id
           p == Head(pipe).p
           s == At(id)
       IN  \/ /\ Refused(s, id)
              /\ NoSlot
           \/ /\ ~Refused(s, id) /\ Directly(s)
              /\ \/ \E n \in 0..Size : SetSlot(HASH_ID(id), Written(s, p, n))
                 \/ SetSlot(HASH_ID(id), Force_close(s))
           \/ /\ ~Refused(s, id) /\ ~Directly(s)
              /\ SetSlot(HASH_ID(id), IF p.low THEN Append_Low(s, p) ELSE Append_High(s, p, 0))

-----------------------------------------------------------------------------
(* The socket thread: events                                               *)

\* The pipe is empty: now the events.
NoCommand ==
    /\ closing = 0
    /\ checkctrl /\ ~first /\ pipe = <<>>
    /\ checkctrl' = FALSE
    /\ UNCHANGED <<slot, alloc_id, pipe, ev, first, claim, closing, raced, sent>>

\* sp_wait returns events of the sockets it watches, in any order, and that of the pipe,
\* which has no socket. Commands are looked at again, but first the first event of the
\* batch, unless that is the one of the pipe.
Watched == {k \in Slot : slot[k].type \in {"LISTEN", "CONNECTING", "CONNECTED", "HALFCLOSE"}}
EventOf(k) == {e \in [s : {k}, read : BOOLEAN, write : {FALSE, slot[k].write}, id : {slot[k].id}] :
                  e.read \/ e.write}
Batch == {b \in UNION {[1..m -> UNION {EventOf(k) : k \in Watched}] :
                          m \in 0..Cardinality(Watched)} :
             \A i, j \in DOMAIN b : i # j => b[i].s # b[j].s}
Wait ==
    /\ ~checkctrl /\ ev = <<>>
    /\ ev' \in Batch
    /\ first' \in {ev' # <<>>, FALSE}
    /\ ~first' => pipe # <<>>
    /\ checkctrl' = TRUE
    /\ UNCHANGED <<slot, alloc_id, pipe, claim, closing, raced, sent>>

\* The next event. rest is what is left of the batch.
Look(rest) ==
    /\ closing = 0
    /\ first \/ ~checkctrl
    /\ ev # <<>>
    /\ ev' = rest
    /\ first' = FALSE
    /\ UNCHANGED <<pipe, checkctrl, claim, closing, raced, sent>>

\* The socket of the event was closed.
Skip ==
    /\ Look(Tail(ev))
    /\ Head(ev).s = NULL
    /\ UNCHANGED <<slot, alloc_id>>

\* report_connect
Report_connect(k) ==
    /\ slot[k].type = "CONNECTING"
    /\ Look(Tail(ev)) /\ Head(ev).s = k
    /\ \/ slot' = [slot EXCEPT ![k] = Force_close(@)]
       \/ slot' = [slot EXCEPT ![k].type = "CONNECTED",
                               ![k].write = @ /\ ~Empty(slot[k])]
    /\ UNCHANGED alloc_id

\* report_accept: the new socket waits for its start; or accept failed, or no slot is free.
Report_accept(k) ==
    /\ slot[k].type = "LISTEN"
    /\ Look(Tail(ev)) /\ Head(ev).s = k
    /\ \/ \E id \in Id :
             /\ Reserved(id)
             /\ alloc_id' = id
             /\ slot' = [slot EXCEPT ![HASH_ID(id)] =
                            [New_fd(@, "PACCEPT", FALSE) EXCEPT !.id = id]]
       \/ UNCHANGED <<alloc_id, slot>>

\* forward_message_tcp: data or nothing, or the end of the connection.
ReadGoesOn(k) ==
    /\ slot[k].type \in {"CONNECTED", "HALFCLOSE"} /\ Head(ev).read
    /\ Head(ev).s = k
    /\ Look(IF Head(ev).write THEN [ev EXCEPT ![1].read = FALSE] ELSE Tail(ev))
    /\ UNCHANGED <<slot, alloc_id>>
ReadEnds(k) ==
    /\ slot[k].type \in {"CONNECTED", "HALFCLOSE"} /\ Head(ev).read
    /\ Look(Tail(ev)) /\ Head(ev).s = k
    /\ slot' = [slot EXCEPT ![k] = Force_close(@)]
    /\ UNCHANGED alloc_id

WriteEvent(k) ==
    /\ slot[k].type \in {"CONNECTED", "HALFCLOSE"} /\ ~Head(ev).read
    /\ Look(Tail(ev)) /\ Head(ev).s = k
    /\ \E s \in Flushed(slot[k]) : slot' = [slot EXCEPT ![k] = s]
    /\ UNCHANGED alloc_id

-----------------------------------------------------------------------------

Services ==
    \/ \E id \in Id : Reserve(id)
    \/ \E id \in Id, c \in {"O", "L"} : Open(id, c)
    \/ \E id \in Id, low \in BOOLEAN : Send(id, low)
    \/ \E id \in Id : Start(id)
    \/ \E id \in Id, shutdown \in BOOLEAN : Close(id, shutdown)

Commands == Open_socket \/ Listen_socket \/ Start_socket \/ Close_socket \/ Send_socket

Events(k) ==
    Report_connect(k) \/ Report_accept(k) \/ ReadGoesOn(k) \/ ReadEnds(k) \/ WriteEvent(k)

Next ==
    /\ ~raced
    /\ \/ Services
       \/ Commands \/ Clear \/ NoCommand
       \/ Wait \/ Skip \/ \E k \in Slot : ev # <<>> /\ Events(k)

Spec == Init /\ [][Next]_vars

-----------------------------------------------------------------------------
(* Properties                                                              *)

\* All four are for the time before a race. After one, an assertion of new_fd or of
\* force_close fails, or an event of the old socket is taken for one of the new.

\* On the wire of a socket are only packages for it, in one piece, and those of one
\* priority in the order they were sent: neither a partial write, nor the raise of a low
\* package, nor the reuse of a slot cuts into another package.
Whole ==
    ~raced => \A k \in Slot : LET x == slot[k].wire IN \A i, j \in DOMAIN x :
        /\ x[i].p.id = slot[k].id
        /\ i < j => /\ x[i].bytes = Size /\ x[i].p # x[j].p
                    /\ x[i].p.low = x[j].p.low => x[i].p.n < x[j].p.n

\* A socket with packages to write, or one that is to be closed after them, has its write
\* event turned on: it is not forgotten.
Draining ==
    ~raced => \A k \in Slot :
        ~Empty(slot[k]) \/ slot[k].type = "HALFCLOSE" => slot[k].write

\* When the socket thread goes on to an event, it is for the socket it was reported for: the
\* slot was not closed, or closed and reused, by a command taken in between.
FreshEvents ==
    ~raced /\ closing = 0 => \A i \in DOMAIN ev : ev[i].s # NULL =>
        slot[ev[i].s].id = ev[i].id /\ slot[ev[i].s].type # "INVALID"

\* The assertions of send_buffer, raise_uncomplete, new_fd, check_wb_list and force_close
\* fail in no other way than by the race of a command with reserve_id: no low package waits
\* half-written behind others, a slot without a descriptor has nothing to write, a slot is
\* still reserved when its open or listen command is taken, and that command comes before
\* all others for the socket, which must not find it reserved.
SlotAsserts ==
    ~raced =>
        /\ \A k \in Slot :
              /\ ~Uncomplete(slot[k].low)
              /\ slot[k].type \in {"INVALID", "RESERVE"} => Empty(slot[k])
        /\ \A i \in DOMAIN pipe :
              LET id == pipe[i].id
                  reserved == At(id).type = "RESERVE" /\ At(id).id = id
              IN  IF pipe[i].c \in {"O", "L"} THEN reserved
                  ELSE reserved /\ ~Claimed(id) =>
                          \E j \in 1..(i - 1) : pipe[j].c \in {"O", "L"} /\ pipe[j].id = id
=============================================================================
