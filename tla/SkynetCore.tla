----------------------------- MODULE SkynetCore -----------------------------
(***************************************************************************)
(* The message dispatch of a skynet process: the mailbox of a service and  *)
(* the global queue of mailboxes (skynet_mq.c), the reference count of its *)
(* context (skynet_server.c), the worker threads with their sleep, and the *)
(* threads that only send (skynet_start.c).                                *)
(*                                                                         *)
(* A mailbox belongs to whoever took it out of the global queue, until it  *)
(* is put back or found empty. A context is freed by the thread that drops *)
(* the last reference, a mailbox by the worker that later finds it in the  *)
(* global queue with its release mark.                                     *)
(*                                                                         *)
(* A step is the region of one lock or one atomic instruction, or a write  *)
(* another thread may look at. Handles are not reused here: the table of   *)
(* handles is the subject of HandleTable.                                  *)
(***************************************************************************)
EXTENDS Integers, Sequences, FiniteSets

CONSTANTS
    Svc,           \* services, each with its handle, context and mailbox
    First,         \* the one skynet_start launches before the threads start
    Worker,        \* worker threads
    Timer, Socket, \* the threads that run services by sending to them only
    weight,        \* of each worker: which share of a mailbox it works off at a time
    Source,        \* which of the two do send in an instance
    MaxMsg,        \* bound: messages sent by services, timers and sockets
    Nil

Thread == Worker \cup {Timer, Socket}

ASSUME CoreAssumption ==
    /\ First \in Svc /\ Nil \notin Svc
    /\ IsFiniteSet(Worker) /\ Timer \notin Worker /\ Socket \notin Worker /\ Timer # Socket
    /\ Source \subseteq {Timer, Socket}
    /\ weight \in [Worker -> Int]
    /\ MaxMsg \in Nat \ {0}

VARIABLES
    table,      \* handles that lead to a context (skynet_handle.c)
    ref,        \* ctx->ref
    alive,      \* contexts that are allocated
    mqs,        \* a mailbox is not created ("none"), "live" or "freed"
    queue,      \* its messages
    in_global, release,
    Q,          \* the global queue
    pc, ret,    \* where a thread is, and where it goes on after a send or a release
    q, nq,      \* the mailbox a thread works on, and a second one that is its own
    ctx, hold,  \* contexts it has a reference to: for the dispatch, for the call it makes
    del,        \* the context it is deleting
    left,       \* messages the dispatch may still take
    msg,        \* the message in its hands
    quit,
    sent, fate  \* history: messages made so far, and what became of each

ctxVars == <<table, ref, alive>>
mqVars == <<mqs, queue, in_global, release, Q>>
owned == <<q, nq>>
refs == <<ctx, hold, del>>
hist == <<sent, fate>>
vars == <<ctxVars, mqVars, pc, ret, owned, refs, left, msg, quit, hist>>

Msg == [id : 1..MaxMsg, src : Svc \cup {Nil}, to : Svc \cup {Nil}, err : BOOLEAN]

Asleep == {"locked", "waiting", "woken"}
WorkerPc ==
    {"loop", "pop", "grab", "next", "first", "again", "len", "cb", "after", "pushback", "abort",
     "relq", "drop", "send", "push", "rel", "delete", "free",
     "create", "count", "init", "publish", "unreg",
     "tosleep", "exit"} \cup Asleep
OuterPc == {"idle", "send", "push", "rel", "delete", "free", "signal", "quitting", "end"}

TypeOK ==
    /\ table \in SUBSET Svc /\ alive \in SUBSET Svc
    /\ ref \in [Svc -> Nat]
    /\ mqs \in [Svc -> {"none", "live", "freed"}]
    /\ queue \in [Svc -> Seq(Msg)]
    /\ in_global \in [Svc -> BOOLEAN] /\ release \in [Svc -> BOOLEAN]
    /\ Q \in Seq(Svc)
    /\ pc \in [Thread -> WorkerPc \cup OuterPc]
    /\ ret \in [Thread -> WorkerPc \cup OuterPc \cup {Nil}]
    /\ q \in [Thread -> Svc \cup {Nil}] /\ nq \in [Thread -> Svc \cup {Nil}]
    /\ ctx \in [Thread -> Svc \cup {Nil}] /\ hold \in [Thread -> Svc \cup {Nil}]
    /\ del \in [Thread -> Svc \cup {Nil}]
    /\ left \in [Thread -> Nat]
    /\ msg \in [Thread -> Msg \cup {Nil}]
    /\ quit \in BOOLEAN
    /\ sent \in 0..MaxMsg
    /\ fate \in [1..MaxMsg -> {"none", "hand", "queued", "delivered", "dropped", "refused",
                              "lost"}]

\* skynet_start has launched First, whose init sent it a message, as that of snlua does.
Init ==
    /\ table = {First} /\ alive = {First}
    /\ ref = [s \in Svc |-> IF s = First THEN 1 ELSE 0]
    /\ mqs = [s \in Svc |-> IF s = First THEN "live" ELSE "none"]
    /\ queue = [s \in Svc |-> IF s = First
                              THEN <<[id |-> 1, src |-> First, to |-> First, err |-> FALSE]>>
                              ELSE <<>>]
    /\ in_global = [s \in Svc |-> s = First]
    /\ release = [s \in Svc |-> FALSE]
    /\ Q = <<First>>
    /\ pc = [t \in Thread |-> IF t \in Worker THEN "loop" ELSE "idle"]
    /\ ret = [t \in Thread |-> Nil]
    /\ q = [t \in Thread |-> Nil] /\ nq = [t \in Thread |-> Nil]
    /\ ctx = [t \in Thread |-> Nil] /\ hold = [t \in Thread |-> Nil]
    /\ del = [t \in Thread |-> Nil]
    /\ left = [t \in Thread |-> 0]
    /\ msg = [t \in Thread |-> Nil]
    /\ quit = FALSE
    /\ sent = 1
    /\ fate = [i \in 1..MaxMsg |-> IF i = 1 THEN "queued" ELSE "none"]

Goto(t, l) == pc' = [pc EXCEPT ![t] = l]

Return(t) == Goto(t, ret[t]) /\ ret' = [ret EXCEPT ![t] = Nil]

Fate(m, f) == fate' = IF m.err THEN fate ELSE [fate EXCEPT ![m.id] = f]

-----------------------------------------------------------------------------
(* References and sending                                                  *)

\* t is to release s, which is in its hands, and to go on at l.
ToRelease(t, s, l) ==
    /\ hold' = [hold EXCEPT ![t] = s]
    /\ Goto(t, "rel")
    /\ ret' = [ret EXCEPT ![t] = l]

\* skynet_context_push: the receiver is found and referenced, or the send fails.
SendGrab(t) ==
    /\ pc[t] = "send"
    /\ IF msg[t].to \in table
       THEN /\ ref' = [ref EXCEPT ![msg[t].to] = @ + 1]
            /\ hold' = [hold EXCEPT ![t] = msg[t].to]
            /\ Goto(t, "push")
            /\ UNCHANGED <<msg, fate, ret>>
       ELSE /\ Return(t)
            /\ Fate(msg[t], "refused")
            /\ msg' = [msg EXCEPT ![t] = Nil]
            /\ UNCHANGED <<ref, hold>>
    /\ UNCHANGED <<table, alive, mqVars, owned, ctx, del, left, quit, sent>>

\* skynet_mq_push: a mailbox that nobody has joins the global queue.
Mq_push(s, m) ==
    /\ queue' = [queue EXCEPT ![s] = Append(@, m)]
    /\ in_global' = [in_global EXCEPT ![s] = TRUE]
    /\ Q' = IF in_global[s] THEN Q ELSE Append(Q, s)

SendPush(t) ==
    /\ pc[t] = "push" /\ mqs[hold[t]] # "none"
    /\ Mq_push(hold[t], msg[t])
    /\ Fate(msg[t], "queued")
    /\ msg' = [msg EXCEPT ![t] = Nil]
    /\ Goto(t, "rel")
    /\ UNCHANGED <<ctxVars, mqs, release, ret, owned, refs, left, quit, sent>>

\* The receiver is being launched and ctx->queue is not set yet. The push goes through
\* whatever it holds; here the message is gone, and nothing else is touched.
SendLost(t) ==
    /\ pc[t] = "push" /\ mqs[hold[t]] = "none"
    /\ Fate(msg[t], "lost")
    /\ msg' = [msg EXCEPT ![t] = Nil]
    /\ Goto(t, "rel")
    /\ UNCHANGED <<ctxVars, mqVars, ret, owned, refs, left, quit, sent>>

\* skynet_context_release: who drops the last reference deletes the context.
Release(t) ==
    /\ pc[t] = "rel"
    /\ ref' = [ref EXCEPT ![hold[t]] = @ - 1]
    /\ hold' = [hold EXCEPT ![t] = Nil]
    /\ IF ref[hold[t]] = 1
       THEN Goto(t, "delete") /\ del' = [del EXCEPT ![t] = hold[t]] /\ UNCHANGED ret
       ELSE Return(t) /\ UNCHANGED del
    /\ UNCHANGED <<table, alive, mqVars, owned, ctx, left, msg, quit, hist>>

\* skynet_mq_mark_release: nobody else would bring an idle mailbox to a worker.
Mark_release(s) ==
    /\ release' = [release EXCEPT ![s] = TRUE]
    /\ Q' = IF in_global[s] THEN Q ELSE Append(Q, s)

\* delete_context: the mailbox is marked, and may be freed from then on; then the
\* context is freed and not counted any more.
Delete(t) ==
    /\ pc[t] = "delete"
    /\ Mark_release(del[t])
    /\ Goto(t, "free")
    /\ UNCHANGED <<ctxVars, mqs, queue, in_global, ret, owned, refs, left, msg, quit, hist>>

Free(t) ==
    /\ pc[t] = "free"
    /\ alive' = alive \ {del[t]}
    /\ del' = [del EXCEPT ![t] = Nil]
    /\ Return(t)
    /\ UNCHANGED <<table, ref, mqVars, owned, ctx, hold, left, msg, quit, hist>>

\* t makes a message of src to d and begins to send it.
ToSend(t, src, d, l) ==
    /\ sent < MaxMsg
    /\ sent' = sent + 1
    /\ msg' = [msg EXCEPT ![t] = [id |-> sent + 1, src |-> src, to |-> d, err |-> FALSE]]
    /\ Goto(t, "send")
    /\ ret' = [ret EXCEPT ![t] = l]

\* skynet_handle_retire by t: the table's reference is now in its hands.
ToRetire(t, s, l) ==
    IF s \in table
    THEN table' = table \ {s} /\ ToRelease(t, s, l)
    ELSE Goto(t, l) /\ UNCHANGED <<table, hold, ret>>

-----------------------------------------------------------------------------
(* skynet_context_message_dispatch, called in a loop by thread_worker.     *)

\* The head of the loop. Without a mailbox in hand the worker asks for one.
Loop(w) ==
    /\ pc[w] = "loop"
    /\ IF quit THEN Goto(w, "exit") ELSE Goto(w, IF q[w] = Nil THEN "pop" ELSE "grab")
    /\ UNCHANGED <<ctxVars, mqVars, ret, owned, refs, left, msg, quit, hist>>

\* skynet_globalmq_pop, at the start of a dispatch or as its last step. Without a mailbox
\* the worker goes to sleep.
NextQueue(w) ==
    /\ pc[w] \in {"pop", "next"}
    /\ IF Q = <<>>
       THEN Goto(w, "tosleep") /\ UNCHANGED <<Q, q>>
       ELSE /\ Q' = Tail(Q) /\ q' = [q EXCEPT ![w] = Head(Q)]
            /\ Goto(w, IF pc[w] = "pop" THEN "grab" ELSE "loop")
    /\ UNCHANGED <<ctxVars, mqs, queue, in_global, release, ret, nq, refs, left, msg, quit, hist>>

\* skynet_handle_grab of the mailbox's own service.
Grab(w) ==
    /\ pc[w] = "grab"
    /\ IF q[w] \in table
       THEN /\ ref' = [ref EXCEPT ![q[w]] = @ + 1]
            /\ ctx' = [ctx EXCEPT ![w] = q[w]]
            /\ Goto(w, "first")
       ELSE Goto(w, "relq") /\ UNCHANGED <<ref, ctx>>
    /\ UNCHANGED <<table, alive, mqVars, ret, owned, hold, del, left, msg, quit, hist>>

\* The worker releases the context it dispatches and goes on at l.
ReleaseCtx(w, l) ==
    /\ ToRelease(w, ctx[w], l)
    /\ ctx' = [ctx EXCEPT ![w] = Nil]

\* skynet_mq_pop: an empty mailbox is given up.
PopEmpty_Kept(w) ==
    /\ pc[w] \in {"first", "again"} /\ queue[q[w]] = <<>>
    /\ q' = [q EXCEPT ![w] = Nil]
    /\ ReleaseCtx(w, "next")
    /\ UNCHANGED <<ctxVars, mqs, queue, in_global, release, Q, nq, del, left, msg, quit, hist>>
PopEmpty(w) ==
    /\ pc[w] \in {"first", "again"} /\ queue[q[w]] = <<>>
    /\ in_global' = [in_global EXCEPT ![q[w]] = FALSE]
    /\ q' = [q EXCEPT ![w] = Nil]
    /\ ReleaseCtx(w, "next")
    /\ UNCHANGED <<ctxVars, mqs, queue, release, Q, nq, del, left, msg, quit, hist>>

Pop(w) ==
    /\ pc[w] \in {"first", "again"} /\ queue[q[w]] # <<>>
    /\ msg' = [msg EXCEPT ![w] = Head(queue[q[w]])]
    /\ queue' = [queue EXCEPT ![q[w]] = Tail(@)]
    /\ Fate(Head(queue[q[w]]), "hand")
    /\ IF pc[w] = "first"
       THEN left' = [left EXCEPT ![w] = 0] /\ Goto(w, IF weight[w] < 0 THEN "cb" ELSE "len")
       ELSE left' = [left EXCEPT ![w] = @ - 1] /\ Goto(w, "cb")
    /\ UNCHANGED <<ctxVars, mqs, in_global, release, Q, ret, owned, refs, quit, sent>>

\* n = skynet_mq_length(q) >> weight, of which the message in hand is the first.
Length(w) ==
    /\ pc[w] = "len"
    /\ LET k == Len(queue[q[w]]) \div (2 ^ weight[w])
       IN  left' = [left EXCEPT ![w] = IF k = 0 THEN 0 ELSE k - 1]
    /\ Goto(w, "cb")
    /\ UNCHANGED <<ctxVars, mqVars, ret, owned, refs, msg, quit, hist>>

\* dispatch_message: the callback takes the message and makes at most one call:
\* none, a send, EXIT or KILL (handle_exit), ABORT, or LAUNCH.
Callback(w) ==
    /\ pc[w] = "cb"
    /\ Fate(msg[w], "delivered")
    /\ UNCHANGED <<release, Q, q, ctx, del, left, quit>>

CbReturns(w) ==
    /\ Callback(w)
    /\ Goto(w, "after")
    /\ msg' = [msg EXCEPT ![w] = Nil]
    /\ UNCHANGED <<ctxVars, mqs, queue, in_global, ret, nq, hold, sent>>

CbSends(w, d) ==
    /\ Callback(w)
    /\ ToSend(w, ctx[w], d, "after")
    /\ UNCHANGED <<ctxVars, mqs, queue, in_global, nq, hold>>

CbKills(w, d) ==
    /\ Callback(w)
    /\ ToRetire(w, d, "after")
    /\ msg' = [msg EXCEPT ![w] = Nil]
    /\ UNCHANGED <<ref, alive, mqs, queue, in_global, nq, sent>>

CbAborts(w) ==
    /\ Callback(w)
    /\ Goto(w, "abort")
    /\ msg' = [msg EXCEPT ![w] = Nil]
    /\ UNCHANGED <<ctxVars, mqs, queue, in_global, ret, nq, hold, sent>>

\* skynet_handle_retireall
Abort(w) ==
    /\ pc[w] = "abort"
    /\ \/ /\ table = {}
          /\ Goto(w, "after")
          /\ UNCHANGED <<table, hold, ret>>
       \/ \E s \in table : ToRetire(w, s, "abort")
    /\ UNCHANGED <<ref, alive, mqVars, owned, ctx, del, left, msg, quit, hist>>

\* After a message: the next one of the same mailbox, or the next mailbox, if there is
\* one; otherwise this one again.
After(w) ==
    /\ pc[w] = "after"
    /\ \/ /\ left[w] > 0
          /\ Goto(w, "again")
          /\ UNCHANGED <<Q, nq, ctx, hold, ret>>
       \/ /\ left[w] = 0 /\ Q = <<>>
          /\ ReleaseCtx(w, "loop")
          /\ UNCHANGED <<Q, nq>>
       \/ /\ left[w] = 0 /\ Q # <<>>
          /\ nq' = [nq EXCEPT ![w] = Head(Q)]
          /\ Q' = Tail(Q)
          /\ Goto(w, "pushback")
          /\ UNCHANGED <<ctx, hold, ret>>
    /\ UNCHANGED <<ctxVars, mqs, queue, in_global, release, q, del, left, msg, quit, hist>>

PushBack(w) ==
    /\ pc[w] = "pushback"
    /\ Q' = Append(Q, q[w])
    /\ q' = [q EXCEPT ![w] = nq[w]]
    /\ nq' = [nq EXCEPT ![w] = Nil]
    /\ ReleaseCtx(w, "loop")
    /\ UNCHANGED <<ctxVars, mqs, queue, in_global, release, del, left, msg, quit, hist>>

\* The mailbox whose release is under way: one found without a context, or that of a
\* launch that failed. Where the thread goes on with it done.
Mine(w) == IF nq[w] # Nil THEN nq[w] ELSE q[w]
Disown(w) ==
    IF nq[w] # Nil
    THEN nq' = [nq EXCEPT ![w] = Nil] /\ Goto(w, "after") /\ UNCHANGED q
    ELSE q' = [q EXCEPT ![w] = Nil] /\ Goto(w, "next") /\ UNCHANGED nq

\* skynet_mq_release: not before the context is gone.
ReleaseQueue_Early(w) ==
    /\ pc[w] = "relq"
    /\ Goto(w, "drop")
    /\ UNCHANGED <<ctxVars, mqVars, ret, owned, refs, left, msg, quit, hist>>
ReleaseQueue(w) ==
    /\ pc[w] = "relq"
    /\ IF release[Mine(w)]
       THEN Goto(w, "drop") /\ UNCHANGED <<Q, q, nq>>
       ELSE Q' = Append(Q, Mine(w)) /\ Disown(w)
    /\ UNCHANGED <<ctxVars, mqs, queue, in_global, release, ret, refs, left, msg, quit, hist>>

\* drop_message: the sender is told, unless it is no service.
DropMessage(w) ==
    /\ pc[w] = "drop" /\ queue[Mine(w)] # <<>>
    /\ LET m == Head(queue[Mine(w)])
       IN  /\ queue' = [queue EXCEPT ![Mine(w)] = Tail(@)]
           /\ Fate(m, "dropped")
           /\ IF m.src = Nil
              THEN UNCHANGED <<pc, ret, msg>>
              ELSE /\ msg' = [msg EXCEPT ![w] =
                                 [id |-> m.id, src |-> Mine(w), to |-> m.src, err |-> TRUE]]
                   /\ Goto(w, "send")
                   /\ ret' = [ret EXCEPT ![w] = "drop"]
    /\ UNCHANGED <<ctxVars, mqs, in_global, release, Q, owned, refs, left, quit, sent>>

\* _drop_queue found the mailbox empty and frees it.
FreeQueue(w) ==
    /\ pc[w] = "drop" /\ queue[Mine(w)] = <<>>
    /\ in_global' = [in_global EXCEPT ![Mine(w)] = FALSE]
    /\ mqs' = [mqs EXCEPT ![Mine(w)] = "freed"]
    /\ Disown(w)
    /\ UNCHANGED <<ctxVars, queue, release, Q, ret, refs, left, msg, quit, hist>>

-----------------------------------------------------------------------------
(* skynet_context_new, called by a callback.                               *)

\* The context has two references: the table's and the launching thread's. From here
\* on its handle leads to it.
CbLaunches(w, s) ==
    /\ Callback(w)
    /\ mqs[s] = "none" /\ ref[s] = 0
    /\ table' = table \cup {s} /\ alive' = alive \cup {s}
    /\ ref' = [ref EXCEPT ![s] = 2]
    /\ hold' = [hold EXCEPT ![w] = s]
    /\ Goto(w, "create")
    /\ msg' = [msg EXCEPT ![w] = Nil]
    /\ UNCHANGED <<mqs, queue, in_global, nq, ret, sent>>

\* skynet_mq_create: the mailbox is kept out of the global queue by its flag.
Mq_create(w) ==
    /\ pc[w] = "create"
    /\ mqs' = [mqs EXCEPT ![hold[w]] = "live"]
    /\ in_global' = [in_global EXCEPT ![hold[w]] = TRUE]
    /\ nq' = [nq EXCEPT ![w] = hold[w]]
    /\ Goto(w, "count")
    /\ UNCHANGED <<ctxVars, queue, release, Q, ret, q, refs, left, msg, quit, hist>>

\* The contexts G_NODE.total counts.
Counted == alive \ {hold[w] : w \in {v \in Worker : pc[v] \in {"create", "count"}}}

Context_inc(w) ==
    /\ pc[w] = "count"
    /\ Goto(w, "init")
    /\ UNCHANGED <<ctxVars, mqVars, ret, owned, refs, left, msg, quit, hist>>

\* The init function of the module succeeds or fails; either way the launching thread
\* drops its reference, which may be the last one if the service was killed meanwhile.
InitEnds(w) ==
    /\ pc[w] = "init"
    /\ \E l \in {"publish", "unreg"} : ret' = [ret EXCEPT ![w] = l]
    /\ Goto(w, "rel")
    /\ UNCHANGED <<ctxVars, mqVars, owned, refs, left, msg, quit, hist>>

Publish(w) ==
    /\ pc[w] = "publish"
    /\ Q' = Append(Q, nq[w])
    /\ nq' = [nq EXCEPT ![w] = Nil]
    /\ Goto(w, "after")
    /\ UNCHANGED <<ctxVars, mqs, queue, in_global, release, ret, q, refs, left, msg, quit, hist>>

Unregister(w) ==
    /\ pc[w] = "unreg"
    /\ ToRetire(w, nq[w], "relq")
    /\ UNCHANGED <<ref, alive, mqVars, owned, ctx, del, left, msg, quit, hist>>

-----------------------------------------------------------------------------
(* The sleep of the workers, and the other threads (skynet_start.c).       *)

MutexFree == \A w \in Worker : pc[w] # "locked"
Sleeping == {w \in Worker : pc[w] \in Asleep}   \* m->sleep of them
Waiting == {w \in Worker : pc[w] = "waiting"}

SleepLocks(w) ==
    /\ pc[w] = "tosleep" /\ MutexFree
    /\ Goto(w, "locked")
    /\ UNCHANGED <<ctxVars, mqVars, ret, owned, refs, left, msg, quit, hist>>

\* pthread_cond_wait, unless quit is set: it is set under the mutex.
SleepWaits(w) ==
    /\ pc[w] = "locked"
    /\ Goto(w, IF quit THEN "loop" ELSE "waiting")
    /\ UNCHANGED <<ctxVars, mqVars, ret, owned, refs, left, msg, quit, hist>>

SleepEnds(w) ==
    /\ pc[w] = "woken" /\ MutexFree
    /\ Goto(w, "loop")
    /\ UNCHANGED <<ctxVars, mqVars, ret, owned, refs, left, msg, quit, hist>>

\* wakeup(m, count - atleast): the signal is lost on a worker that does not wait yet.
Wakeup(atleast, others) ==
    IF Cardinality(Sleeping) >= atleast /\ Waiting # {}
    THEN \E w \in Waiting : pc' = [others EXCEPT ![w] = "woken"]
    ELSE pc' = others

\* forward_message and dispatch_list: an event for a service.
Event(t, d) ==
    /\ pc[t] = "idle"
    /\ ToSend(t, Nil, d, IF t = Socket THEN "signal" ELSE "idle")
    /\ UNCHANGED <<ctxVars, mqVars, owned, refs, left, quit, fate>>

\* thread_socket after a message: a signal, unless there are more, and CHECK_ABORT then.
SocketSignals ==
    /\ pc[Socket] = "signal"
    /\ \/ Wakeup(Cardinality(Worker), [pc EXCEPT ![Socket] = "idle"])
       \/ Goto(Socket, IF Counted = {} THEN "end" ELSE "idle")
    /\ UNCHANGED <<ctxVars, mqVars, ret, owned, refs, left, msg, quit, hist>>

\* thread_timer, every 2.5 ms: CHECK_ABORT, or a signal if anyone sleeps.
Tick_Never == FALSE
Tick ==
    /\ pc[Timer] = "idle"
    /\ IF Counted = {} THEN Goto(Timer, "quitting") ELSE Wakeup(1, pc)
    /\ UNCHANGED <<ctxVars, mqVars, ret, owned, refs, left, msg, quit, hist>>

Quit_Signal ==
    /\ pc[Timer] = "quitting" /\ MutexFree
    /\ quit' = TRUE
    /\ Wakeup(1, [pc EXCEPT ![Timer] = "end"])
    /\ UNCHANGED <<ctxVars, mqVars, ret, owned, refs, left, msg, hist>>
Quit ==
    /\ pc[Timer] = "quitting" /\ MutexFree
    /\ quit' = TRUE
    /\ pc' = [t \in Thread |-> IF t = Timer THEN "end"
                               ELSE IF t \in Waiting THEN "woken" ELSE pc[t]]
    /\ UNCHANGED <<ctxVars, mqVars, ret, owned, refs, left, msg, hist>>

-----------------------------------------------------------------------------

Common(t) ==
    SendGrab(t) \/ SendPush(t) \/ SendLost(t) \/ Release(t) \/ Delete(t) \/ Free(t)

WorkerRuns(w) ==
    \/ Common(w)
    \/ Loop(w) \/ NextQueue(w) \/ Grab(w) \/ PopEmpty(w) \/ Pop(w) \/ Length(w)
    \/ CbReturns(w) \/ CbAborts(w) \/ Abort(w) \/ After(w) \/ PushBack(w)
    \/ \E d \in Svc : CbSends(w, d) \/ CbKills(w, d) \/ CbLaunches(w, d)
    \/ ReleaseQueue(w) \/ DropMessage(w) \/ FreeQueue(w)
    \/ Mq_create(w) \/ Context_inc(w) \/ InitEnds(w) \/ Publish(w) \/ Unregister(w)
    \/ SleepLocks(w) \/ SleepWaits(w) \/ SleepEnds(w)

TimerRuns == Common(Timer) \/ Tick \/ Quit
SocketRuns == Common(Socket) \/ SocketSignals

Next ==
    \/ \E w \in Worker : WorkerRuns(w)
    \/ TimerRuns
    \/ SocketRuns
    \/ \E t \in Source, d \in Svc : Event(t, d)

Spec == Init /\ [][Next]_vars

\* Every thread runs, its callbacks return, and nobody holds a lock for ever. That
\* sockets and timers have something to send is not assumed.
Fairness ==
    /\ \A w \in Worker : WF_vars(WorkerRuns(w))
    /\ WF_vars(TimerRuns) /\ WF_vars(SocketRuns)

FairSpec == Spec /\ Fairness

-----------------------------------------------------------------------------
(* Properties                                                              *)

InQ(s) == \E i \in DOMAIN Q : Q[i] = s
Owns(t, s) == s # Nil /\ (q[t] = s \/ nq[t] = s)

\* A mailbox is in the global queue once or in the hands of one thread, never both: two
\* workers never run the callback of one service at a time (the assertion of
\* CHECKCALLING_BEGIN), its messages are taken in order, and the links of the global
\* queue are not cut (the assertions of skynet_globalmq_push and _release).
OneOwner ==
    /\ \A i, j \in DOMAIN Q : Q[i] = Q[j] => i = j
    /\ \A t \in Thread, s \in Svc : Owns(t, s) => ~InQ(s) /\ mqs[s] = "live"
    /\ \A t, u \in Thread, s \in Svc : Owns(t, s) /\ Owns(u, s) => t = u
    /\ \A t \in Thread : q[t] = nq[t] => q[t] = Nil

\* A mailbox with messages, or one that waits to be freed, is in the global queue or in
\* the hands of a thread: in_global is not cleared while it is needed, and the worker
\* that empties a mailbox does not miss a message pushed meanwhile.
NeverStranded ==
    \A s \in Svc : mqs[s] = "live" /\ (queue[s] # <<>> \/ release[s]) =>
        InQ(s) \/ \E t \in Thread : Owns(t, s)

\* A context is not freed while the table, a dispatching worker or a sender refers to
\* it, and its mailbox, which may go before it, not while one of them pushes into it or
\* takes from it, nor before it was marked.
HeldAlive ==
    /\ table \subseteq alive
    /\ \A t \in Thread :
          /\ ctx[t] # Nil => ctx[t] \in alive /\ mqs[ctx[t]] = "live"
          /\ hold[t] # Nil => hold[t] \in alive /\ mqs[hold[t]] # "freed"
          /\ pc[t] = "delete" => mqs[del[t]] = "live"

\* The messages that were accepted are all delivered or dropped in the end, although a
\* worker may be about to sleep when a mailbox is queued and the signal be lost, and a
\* retired service keeps its mailbox circling; or the process ends.
Pending(i) == fate[i] = "queued"
Settles == (\E i \in 1..MaxMsg : Pending(i)) ~> (quit \/ \A i \in 1..MaxMsg : ~Pending(i))

\* Once the last service is gone every worker ends: none sleeps through quit.
QuitEnds == alive = {} ~> \A w \in Worker : pc[w] = "exit"
=============================================================================
