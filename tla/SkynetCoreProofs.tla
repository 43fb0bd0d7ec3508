-------------------------- MODULE SkynetCoreProofs --------------------------
(***************************************************************************)
(* Mailboxes and contexts are safe for any number of services, workers and *)
(* messages: OneOwner, NeverStranded and HeldAlive of SkynetCore.          *)
(*                                                                         *)
(* The invariant says of each thread what it has in its hands where it is, *)
(* of each context that ref counts the references to it, and of each       *)
(* mailbox that it has a place, in the global queue or with one thread,    *)
(* exactly when in_global or release says so. An action changes what is    *)
(* said of one thread and of one or two services.                          *)
(***************************************************************************)
EXTENDS SkynetCore, FiniteSetTheorems, SequenceTheorems, TLAPS

SubPc == {"send", "push", "rel", "delete", "free"}

\* Where a thread is, or goes on after the send or release it is in.
At(t) == IF pc[t] \in SubPc THEN ret[t] ELSE pc[t]

DispatchPc == {"first", "again", "len", "cb", "after", "abort", "create"}   \* with a context
SecondPc == {"pushback", "count", "init", "publish", "unreg"}          \* and a second mailbox
LaunchPc == {"create", "count", "init"}                                \* and a call's
ReleasePc == {"relq", "drop"}
FreePc == {"pop", "next", "tosleep", "locked", "waiting", "woken"}
OtherPc == {"idle", "signal", "quitting", "end"}
TopPc == DispatchPc \cup SecondPc \cup ReleasePc \cup FreePc \cup OtherPc
         \cup {"loop", "grab", "exit"}

Typed ==
    /\ table \in SUBSET Svc /\ alive \in SUBSET Svc
    /\ ref \in [Svc -> Int]
    /\ mqs \in [Svc -> {"none", "live", "freed"}]
    /\ DOMAIN queue = Svc
    /\ in_global \in [Svc -> BOOLEAN] /\ release \in [Svc -> BOOLEAN]
    /\ Q \in Seq(Svc)
    /\ pc \in [Thread -> TopPc \cup SubPc]
    /\ ret \in [Thread -> TopPc \cup {Nil}]
    /\ q \in [Thread -> Svc \cup {Nil}] /\ nq \in [Thread -> Svc \cup {Nil}]
    /\ ctx \in [Thread -> Svc \cup {Nil}] /\ hold \in [Thread -> Svc \cup {Nil}]
    /\ del \in [Thread -> Svc \cup {Nil}]

\* What t has in its hands.
Local(t) ==
    /\ pc[t] \in SubPc => ret[t] \in TopPc \ LaunchPc
    /\ hold[t] # Nil <=> pc[t] \in {"push", "rel"} \cup LaunchPc
    /\ del[t] # Nil <=> pc[t] \in {"delete", "free"}
    /\ At(t) \in {"grab"} \cup DispatchPc \cup SecondPc \cup ReleasePc => q[t] # Nil
    /\ At(t) \in FreePc \cup OtherPc => q[t] = Nil
    /\ At(t) \in SecondPc => nq[t] # Nil
    /\ At(t) \notin SecondPc \cup ReleasePc => nq[t] = Nil
    /\ ctx[t] # Nil <=> \/ At(t) \in DispatchPc \cup SecondPc
                        \/ At(t) \in ReleasePc /\ nq[t] # Nil
    /\ ctx[t] # Nil => ctx[t] = q[t]
    /\ At(t) = "drop" => release[Mine(t)]
    /\ At(t) \in OtherPc <=> t \notin Worker
    /\ q[t] = nq[t] => q[t] = Nil

Count(f, s) == Cardinality({t \in Thread : f[t] = s})

\* The references to the context of s.
RefOf(s) ==
    /\ ref[s] = (IF s \in table THEN 1 ELSE 0) + Count(ctx, s) + Count(hold, s)
    /\ s \in table => s \in alive
    /\ \A t \in Thread : ctx[t] = s \/ hold[t] = s => s \in alive
    /\ \A t \in Thread : del[t] = s => s \in alive /\ ref[s] = 0
    /\ \A t, u \in Thread : del[t] = s /\ del[u] = s => t = u

Has(sq, s) == \E k \in DOMAIN sq : sq[k] = s
Distinct(sq) == \A j, k \in DOMAIN sq : sq[j] = sq[k] => j = k

\* t launches s and has not created its mailbox yet, or has marked it and is to free the
\* context.
Creates(t, s) == pc[t] = "create" /\ hold[t] = s
Frees(t, s) == pc[t] = "free" /\ del[t] = s

\* The place of the mailbox of s, which is created once and marked with its last reference
\* gone.
BoxOf(s) ==
    /\ mqs[s] = "none" => ~release[s] /\ (s \in alive => \E t \in Thread : Creates(t, s))
    /\ mqs[s] = "freed" => release[s]
    /\ release[s] /\ s \in alive => \E t \in Thread : Frees(t, s)
    /\ \A t, u \in Thread : Creates(t, s) => mqs[s] = "none" /\ (Creates(u, s) => t = u)
    /\ (Has(Q, s) \/ \E t \in Thread : Owns(t, s))
          <=> mqs[s] = "live" /\ (in_global[s] \/ release[s])
    /\ mqs[s] = "live" /\ queue[s] # <<>> => in_global[s] \/ release[s]
    /\ \A t \in Thread : Owns(t, s) => ~Has(Q, s)
    /\ \A t, u \in Thread : Owns(t, s) /\ Owns(u, s) => t = u

Locals == \A t \in Thread : Local(t)
RefInv == \A s \in Svc : RefOf(s)
BoxInv == \A s \in Svc : BoxOf(s)

Inv == Typed /\ Locals /\ RefInv /\ BoxInv /\ Distinct(Q)

-----------------------------------------------------------------------------
(* Counting and queueing                                                   *)

\* There are finitely many threads.
LEMMA FiniteThreads == IsFiniteSet(Thread)
<1>1. IsFiniteSet(Worker \cup {Timer})
    BY CoreAssumption, FS_AddElement
<1>2. Thread = (Worker \cup {Timer}) \cup {Socket}
    BY DEF Thread
<1> QED BY <1>1, <1>2, FS_AddElement

\* A count changes only with the threads that refer to s.
LEMMA CountSame ==
    ASSUME NEW f, NEW g, NEW s, \A u \in Thread : g[u] = s <=> f[u] = s
    PROVE  Count(g, s) = Count(f, s)
BY DEF Count

\* A thread that begins to refer to s is counted.
LEMMA CountUp ==
    ASSUME NEW f, NEW g, NEW s, NEW t \in Thread, f[t] # s, g[t] = s,
           \A u \in Thread : u # t => (g[u] = s <=> f[u] = s)
    PROVE  Count(f, s) \in Nat /\ Count(g, s) = Count(f, s) + 1
<1> DEFINE S == {u \in Thread : f[u] = s}
           R == {u \in Thread : g[u] = s}
<1>1. IsFiniteSet(S)
  <2>1. S \subseteq Thread
      OBVIOUS
  <2> QED BY <2>1, FiniteThreads, FS_Subset
<1>2. R = S \cup {t} /\ t \notin S
    OBVIOUS
<1>3. Cardinality(S) \in Nat /\ Cardinality(R) = Cardinality(S) + 1
  <2> HIDE DEF R, S
  <2> QED BY <1>1, <1>2, FS_CardinalityType, FS_AddElement
<1> QED BY <1>3 DEF Count

\* A thread that ceases to refer to s is not counted any more.
LEMMA CountDown ==
    ASSUME NEW f, NEW g, NEW s, NEW t \in Thread, f[t] = s, g[t] # s,
           \A u \in Thread : u # t => (g[u] = s <=> f[u] = s)
    PROVE  Count(g, s) \in Nat /\ Count(f, s) = Count(g, s) + 1
BY CountUp

\* A count is positive exactly if a thread is counted.
LEMMA CountZero ==
    ASSUME NEW f \in [Thread -> Svc \cup {Nil}], NEW s \in Svc
    PROVE  /\ Count(f, s) \in Nat
           /\ Count(f, s) = 0 <=> \A t \in Thread : f[t] # s
<1> DEFINE S == {u \in Thread : f[u] = s}
<1>1. IsFiniteSet(S)
  <2>1. S \subseteq Thread
      OBVIOUS
  <2> QED BY <2>1, FiniteThreads, FS_Subset
<1>2. Cardinality(S) \in Nat /\ (Cardinality(S) = 0 <=> S = {})
    BY <1>1, FS_CardinalityType, FS_EmptySet
<1> QED BY <1>2 DEF Count

\* A mailbox is put at the end of the global queue.
LEMMA AppendPlaces ==
    ASSUME NEW sq \in Seq(Svc), NEW s \in Svc
    PROVE  /\ Append(sq, s) \in Seq(Svc)
           /\ \A x \in Svc : Has(Append(sq, s), x) <=> Has(sq, x) \/ x = s
           /\ Distinct(sq) /\ ~Has(sq, s) => Distinct(Append(sq, s))
<1>1. /\ Append(sq, s) \in Seq(Svc)
      /\ DOMAIN sq = 1..Len(sq) /\ Len(sq) \in Nat
      /\ DOMAIN Append(sq, s) = 1..(Len(sq) + 1)
      /\ \A k \in 1..Len(sq) : Append(sq, s)[k] = sq[k]
      /\ Append(sq, s)[Len(sq) + 1] = s
    BY AppendProperties, LenProperties
<1>2. ASSUME NEW x \in Svc
      PROVE  Has(Append(sq, s), x) <=> Has(sq, x) \/ x = s
    BY <1>1 DEF Has
<1>3. ASSUME Distinct(sq), ~Has(sq, s)
      PROVE  Distinct(Append(sq, s))
    BY <1>1, <1>3 DEF Has, Distinct
<1> QED BY <1>1, <1>2, <1>3

\* The first mailbox is taken out of the global queue.
LEMMA HeadPlaces ==
    ASSUME NEW sq \in Seq(Svc), sq # <<>>, Distinct(sq)
    PROVE  /\ Head(sq) \in Svc /\ Tail(sq) \in Seq(Svc) /\ Has(sq, Head(sq))
           /\ \A x \in Svc : Has(Tail(sq), x) <=> Has(sq, x) /\ x # Head(sq)
           /\ Distinct(Tail(sq))
<1>1. /\ Tail(sq) \in Seq(Svc) /\ Head(sq) = sq[1] /\ Head(sq) \in Svc
      /\ DOMAIN sq = 1..Len(sq) /\ Len(sq) \in Nat /\ Len(sq) >= 1
      /\ DOMAIN Tail(sq) = 1..(Len(sq) - 1)
      /\ \A k \in 1..(Len(sq) - 1) : Tail(sq)[k] = sq[k + 1]
    BY HeadTailProperties, LenProperties, EmptySeq
<1>2. Has(sq, Head(sq))
    BY <1>1 DEF Has
<1>3. ASSUME NEW x \in Svc
      PROVE  Has(Tail(sq), x) <=> Has(sq, x) /\ x # Head(sq)
  <2>1. ASSUME Has(Tail(sq), x) PROVE Has(sq, x) /\ x # Head(sq)
    <3>1. PICK k \in 1..(Len(sq) - 1) : sq[k + 1] = x
        BY <1>1, <2>1 DEF Has
    <3>2. k + 1 \in DOMAIN sq /\ 1 \in DOMAIN sq /\ k + 1 # 1
        BY <1>1, <3>1
    <3> QED BY <1>1, <3>1, <3>2 DEF Has, Distinct
  <2>2. ASSUME Has(sq, x), x # Head(sq) PROVE Has(Tail(sq), x)
    <3>1. PICK k \in 1..Len(sq) : sq[k] = x
        BY <1>1, <2>2 DEF Has
    <3>2. k # 1 /\ k - 1 \in 1..(Len(sq) - 1)
        BY <1>1, <2>2, <3>1
    <3>3. Tail(sq)[k - 1] = x
        BY <1>1, <3>1, <3>2
    <3> QED BY <1>1, <3>2, <3>3 DEF Has
  <2> QED BY <2>1, <2>2
<1>4. Distinct(Tail(sq))
  <2> SUFFICES ASSUME NEW j \in 1..(Len(sq) - 1), NEW k \in 1..(Len(sq) - 1),
                      Tail(sq)[j] = Tail(sq)[k]
               PROVE  j = k
      BY <1>1 DEF Distinct
  <2>1. sq[j + 1] = sq[k + 1] /\ j + 1 \in DOMAIN sq /\ k + 1 \in DOMAIN sq
      BY <1>1
  <2>2. j + 1 = k + 1
      BY <2>1 DEF Distinct
  <2> QED BY <2>2
<1> QED BY <1>1, <1>2, <1>3, <1>4

-----------------------------------------------------------------------------
(* What an action leaves alone                                             *)

\* Nothing that Local says of u has changed.
SameHands(u) ==
    /\ pc'[u] = pc[u] /\ ret'[u] = ret[u]
    /\ q'[u] = q[u] /\ nq'[u] = nq[u]
    /\ ctx'[u] = ctx[u] /\ hold'[u] = hold[u] /\ del'[u] = del[u]

\* Nothing that RefOf says of s has changed.
SameRefs(s) ==
    /\ s \in table' <=> s \in table
    /\ s \in alive' <=> s \in alive
    /\ ref'[s] = ref[s]
    /\ \A t \in Thread : /\ ctx'[t] = s <=> ctx[t] = s
                         /\ hold'[t] = s <=> hold[t] = s
                         /\ del'[t] = s <=> del[t] = s

\* Nothing that BoxOf says of s has changed, except that messages were taken out.
SameBox(s) ==
    /\ s \in alive' => s \in alive
    /\ mqs'[s] = mqs[s] /\ in_global'[s] = in_global[s] /\ release'[s] = release[s]
    /\ queue'[s] # <<>> => queue[s] # <<>>
    /\ Has(Q', s) <=> Has(Q, s)
    /\ \A t \in Thread : /\ Owns(t, s)' <=> Owns(t, s)
                         /\ Creates(t, s)' <=> Creates(t, s)
                         /\ Frees(t, s)' <=> Frees(t, s)

\* A step of t that neither creates a mailbox nor frees a context.
Plain(t) ==
    /\ {pc[t], pc'[t]} \cap {"create", "free"} = {}
    /\ \A u \in Thread : u # t => SameHands(u)

\* Threads an action does not touch: release marks are only ever set.
LEMMA SameHandsKeeps ==
    ASSUME Typed, NEW u \in Thread, Local(u), SameHands(u),
           \A s \in Svc : release[s] => release'[s]
    PROVE  Local(u)'
<1>1. At(u)' = At(u) /\ Mine(u)' = Mine(u)
    BY DEF SameHands, At, Mine
<1>2. At(u) = "drop" => Mine(u) \in Svc
    BY DEF Typed, Local, Mine, ReleasePc
<1> QED BY <1>1, <1>2 DEF Local, SameHands

\* References an action does not touch.
LEMMA SameRefsKeeps ==
    ASSUME NEW s \in Svc, RefOf(s), SameRefs(s)
    PROVE  RefOf(s)'
<1>1. Count(ctx', s) = Count(ctx, s) /\ Count(hold', s) = Count(hold, s)
    BY DEF Count, SameRefs
<1>2. (ref[s] = (IF s \in table THEN 1 ELSE 0) + Count(ctx, s) + Count(hold, s))'
    BY <1>1 DEF RefOf, SameRefs
<1> QED BY <1>2 DEF RefOf, SameRefs

\* Mailboxes an action does not touch.
LEMMA SameBoxKeeps ==
    ASSUME NEW s \in Svc, BoxOf(s), SameBox(s)
    PROVE  BoxOf(s)'
BY DEF BoxOf, SameBox

\* Launches and deletions such a step leaves where they are.
LEMMA PlainSame ==
    ASSUME NEW t \in Thread, Plain(t)
    PROVE  \A u \in Thread, s \in Svc : /\ Creates(u, s)' <=> Creates(u, s)
                                        /\ Frees(u, s)' <=> Frees(u, s)
BY DEF Plain, SameHands, Creates, Frees

-----------------------------------------------------------------------------
(* Actions that only move a thread                                         *)

\* t goes on elsewhere; the other threads stay where they are.
Moves(t) ==
    /\ pc'[t] \in TopPc \cup SubPc /\ pc' = [pc EXCEPT ![t] = pc'[t]]
    /\ ret'[t] \in TopPc \cup {Nil} /\ ret' = [ret EXCEPT ![t] = ret'[t]]
    /\ {pc[t], pc'[t]} \cap {"create", "free"} = {} \/ pc'[t] = pc[t]
    /\ Local(t)'

\* No reference and no mailbox changes hands; messages may be taken out.
Quiet ==
    /\ UNCHANGED <<ctxVars, refs, mqs, in_global, release, Q, owned>>
    /\ DOMAIN queue' = Svc
    /\ \A s \in Svc : queue'[s] # <<>> => queue[s] # <<>>

\* Such a step keeps the invariant.
LEMMA QuietKeeps ==
    ASSUME Inv, Quiet, NEW t \in Thread, Moves(t)
    PROVE  Inv'
<1> USE DEF ctxVars, refs, owned
<1>1. Typed'
    BY DEF Inv, Typed, Quiet, Moves
<1>2. Locals'
  <2>1. ASSUME NEW u \in Thread, u # t
        PROVE  Local(u)'
    <3>1. SameHands(u)
        BY <2>1 DEF Inv, Typed, Quiet, Moves, SameHands
    <3> QED BY <3>1, SameHandsKeeps DEF Inv, Locals, Quiet
  <2> QED BY <2>1 DEF Locals, Moves
<1>3. RefInv'
  <2>1. \A s \in Svc : SameRefs(s)
      BY DEF Quiet, SameRefs
  <2> QED BY <2>1, SameRefsKeeps DEF Inv, RefInv
<1>4. BoxInv'
  <2>1. \A u \in Thread, s \in Svc : /\ Creates(u, s)' <=> Creates(u, s)
                                     /\ Frees(u, s)' <=> Frees(u, s)
      BY DEF Inv, Typed, Quiet, Moves, Creates, Frees
  <2>2. \A s \in Svc : SameBox(s)
      BY <2>1 DEF Quiet, SameBox, Owns
  <2> QED BY <2>2, SameBoxKeeps DEF Inv, BoxInv
<1>5. Distinct(Q')
    BY DEF Inv, Quiet
<1> QED BY <1>1, <1>2, <1>3, <1>4, <1>5 DEF Inv

\* The steps of a worker that only move it.
LEMMA WorkerQuiet ==
    ASSUME Inv, NEW w \in Worker,
           \/ Loop(w) \/ Length(w) \/ CbReturns(w) \/ CbAborts(w)
           \/ Context_inc(w) \/ InitEnds(w)
           \/ \E d \in Svc : CbSends(w, d)
           \/ SleepLocks(w) \/ SleepWaits(w) \/ SleepEnds(w)
    PROVE  Quiet /\ Moves(w)
<1>0. /\ w \in Thread /\ Local(w) /\ Typed
      /\ Timer \notin Worker /\ Socket \notin Worker
    BY CoreAssumption DEF Inv, Locals, Thread
<1> USE <1>0 DEF Typed, ctxVars, mqVars, refs, owned, hist, Goto, Return, Quiet, Moves,
        Local, At, Mine, SubPc, TopPc, DispatchPc, SecondPc, LaunchPc, ReleasePc, FreePc,
        OtherPc
<1>1. CASE Loop(w)
    BY <1>1 DEF Loop
<1>2. CASE Length(w)
    BY <1>2 DEF Length
<1>3. CASE CbReturns(w)
    BY <1>3 DEF CbReturns, Callback
<1>4. CASE CbAborts(w)
    BY <1>4 DEF CbAborts, Callback
<1>5. CASE InitEnds(w)
    BY <1>5 DEF InitEnds
<1>6. CASE \E d \in Svc : CbSends(w, d)
    BY <1>6 DEF CbSends, Callback, ToSend
<1>7. CASE SleepLocks(w)
    BY <1>7 DEF SleepLocks
<1>8. CASE SleepWaits(w)
    BY <1>8 DEF SleepWaits
<1>9. CASE SleepEnds(w)
    BY <1>9 DEF SleepEnds
<1>10. CASE Context_inc(w)
    BY <1>10 DEF Context_inc
<1> QED BY <1>1, <1>2, <1>3, <1>4, <1>5, <1>6, <1>7, <1>8, <1>9, <1>10

\* The branches of other steps that only move the thread.
LEMMA BranchQuiet ==
    ASSUME Inv, NEW w \in Worker,
           \/ NextQueue(w) /\ Q = <<>>
           \/ Grab(w) /\ q[w] \notin table
           \/ Pop(w)
           \/ After(w) /\ left[w] > 0
           \/ ReleaseQueue(w) /\ release[Mine(w)]
           \/ DropMessage(w)
           \/ Abort(w) /\ table = {}
           \/ Unregister(w) /\ nq[w] \notin table
           \/ \E d \in Svc : CbKills(w, d) /\ d \notin table
    PROVE  Quiet /\ Moves(w)
<1>0. /\ w \in Thread /\ Local(w) /\ Typed
      /\ Timer \notin Worker /\ Socket \notin Worker
    BY CoreAssumption DEF Inv, Locals, Thread
<1> USE <1>0 DEF Typed, ctxVars, mqVars, refs, owned, hist, Goto, Return, Quiet, Moves,
        Local, At, Mine, SubPc, TopPc, DispatchPc, SecondPc, LaunchPc, ReleasePc, FreePc,
        OtherPc
<1>1. CASE NextQueue(w) /\ Q = <<>>
    BY <1>1 DEF NextQueue
<1>2. CASE Grab(w) /\ q[w] \notin table
    BY <1>2 DEF Grab
<1>3. CASE Pop(w)
    BY <1>3 DEF Pop
<1>4. CASE After(w) /\ left[w] > 0
    BY <1>4 DEF After
<1>5. CASE ReleaseQueue(w) /\ release[Mine(w)]
    BY <1>5 DEF ReleaseQueue
<1>6. CASE DropMessage(w)
    BY <1>6 DEF DropMessage
<1>7. CASE Abort(w) /\ table = {}
    BY <1>7 DEF Abort, ToRetire
<1>8. CASE Unregister(w) /\ nq[w] \notin table
    BY <1>8 DEF Unregister, ToRetire
<1>9. CASE \E d \in Svc : CbKills(w, d) /\ d \notin table
    BY <1>9 DEF CbKills, Callback, ToRetire
<1> QED BY <1>1, <1>2, <1>3, <1>4, <1>5, <1>6, <1>7, <1>8, <1>9

\* A send that fails, and an event that begins one.
LEMMA SenderQuiet ==
    ASSUME Inv, NEW t \in Thread,
           \/ SendGrab(t) /\ msg[t].to \notin table
           \/ SendLost(t)
           \/ t \in Source /\ \E d \in Svc : Event(t, d)
    PROVE  Quiet /\ Moves(t)
<1>0. /\ Local(t) /\ Typed /\ Timer \notin Worker /\ Socket \notin Worker
      /\ t \in Source => t \notin Worker
    BY CoreAssumption DEF Inv, Locals, Thread
<1> USE <1>0 DEF Typed, ctxVars, mqVars, refs, owned, hist, Goto, Return, Quiet, Moves,
        Local, At, Mine, SubPc, TopPc, DispatchPc, SecondPc, LaunchPc, ReleasePc, FreePc,
        OtherPc
<1>1. CASE SendGrab(t) /\ msg[t].to \notin table
  <2>1. Quiet /\ pc[t] = "send" /\ Return(t)
      BY <1>1 DEF SendGrab
  <2>2. /\ pc' = [pc EXCEPT ![t] = ret[t]] /\ ret' = [ret EXCEPT ![t] = Nil]
        /\ ret[t] \in TopPc \ LaunchPc
      BY <2>1
  <2>3. At(t)' = At(t) /\ pc'[t] \notin SubPc /\ pc'[t] \notin LaunchPc
      BY <2>1, <2>2
  <2> QED BY <2>1, <2>2, <2>3
<1>2. CASE t \in Source /\ \E d \in Svc : Event(t, d)
    BY <1>2 DEF Event, ToSend
<1>3. CASE SendLost(t)
    BY <1>3 DEF SendLost
<1> QED BY <1>1, <1>2, <1>3

\* Steps of the timer and the socket thread that wake workers.
LEMMA WakingKeeps ==
    ASSUME Inv, SocketSignals \/ Tick \/ Quit
    PROVE  Inv'
<1> USE DEF ctxVars, mqVars, refs, owned, hist
<1>0. /\ Typed /\ Timer \notin Worker /\ Socket \notin Worker
      /\ Timer \in Thread /\ Socket \in Thread /\ Timer # Socket
      /\ \A u \in Thread : Local(u)
    BY CoreAssumption DEF Inv, Locals, Thread
<1>1. Quiet /\ UNCHANGED ret
    BY <1>0 DEF SocketSignals, Tick, Quit, Quiet, Typed
<1>2. /\ pc' \in [Thread -> TopPc \cup SubPc]
      /\ \A u \in Thread : \/ pc'[u] = pc[u]
                           \/ pc[u] = "waiting" /\ pc'[u] = "woken"
                           \/ pc[u] \in OtherPc /\ pc'[u] \in OtherPc
  <2> USE <1>0 DEF Typed, Goto, Waiting, TopPc, FreePc, OtherPc, Thread
  <2>1. CASE SocketSignals
      BY <2>1 DEF SocketSignals, Wakeup
  <2>2. CASE Tick
      BY <2>2 DEF Tick, Wakeup
  <2>3. CASE Quit
      BY <2>3 DEF Quit
  <2> QED BY <2>1, <2>2, <2>3
<1>3. Typed'
    BY <1>0, <1>1, <1>2 DEF Typed, Quiet
<1>4. Locals'
  <2>1. ASSUME NEW u \in Thread
        PROVE  Local(u)'
    <3>1. CASE pc'[u] = pc[u]
        BY <1>0, <1>1, <3>1, SameHandsKeeps DEF SameHands, Quiet
    <3>2. CASE pc'[u] # pc[u]
        BY <1>0, <1>1, <1>2, <3>2 DEF Quiet, Local, At, Mine, SubPc, DispatchPc, SecondPc,
           LaunchPc, ReleasePc, FreePc, OtherPc
    <3> QED BY <3>1, <3>2
  <2> QED BY <2>1 DEF Locals
<1>5. RefInv'
  <2>1. \A s \in Svc : SameRefs(s)
      BY <1>1 DEF Quiet, SameRefs
  <2> QED BY <2>1, SameRefsKeeps DEF Inv, RefInv
<1>6. BoxInv'
  <2>1. \A u \in Thread, s \in Svc : /\ Creates(u, s)' <=> Creates(u, s)
                                     /\ Frees(u, s)' <=> Frees(u, s)
      BY <1>1, <1>2 DEF Quiet, Creates, Frees, OtherPc
  <2>2. \A s \in Svc : SameBox(s)
      BY <1>1, <2>1 DEF Quiet, SameBox, Owns
  <2> QED BY <2>2, SameBoxKeeps DEF Inv, BoxInv
<1>7. Distinct(Q')
    BY <1>1 DEF Inv, Quiet
<1> QED BY <1>3, <1>4, <1>5, <1>6, <1>7 DEF Inv

-----------------------------------------------------------------------------
(* References that change hands                                            *)

\* A reference is taken by the table's, for a call or for the dispatch.
Acquires(t, s) ==
    /\ s \in table
    /\ ref' = [ref EXCEPT ![s] = @ + 1]
    /\ \/ hold[t] = Nil /\ hold' = [hold EXCEPT ![t] = s] /\ UNCHANGED ctx
       \/ ctx[t] = Nil /\ ctx' = [ctx EXCEPT ![t] = s] /\ UNCHANGED hold
    /\ UNCHANGED <<table, alive, del>>

\* A reference to s passes from the table or the dispatch to the call of t.
Passes(t, s) ==
    /\ hold[t] = Nil /\ hold' = [hold EXCEPT ![t] = s]
    /\ \/ s \in table /\ table' = table \ {s} /\ UNCHANGED ctx
       \/ ctx[t] = s /\ ctx' = [ctx EXCEPT ![t] = Nil] /\ UNCHANGED table
    /\ UNCHANGED <<ref, alive, del>>

\* t drops its reference to s, and has s to delete if that was the last one.
Drops(t, s) ==
    /\ hold[t] = s /\ hold' = [hold EXCEPT ![t] = Nil]
    /\ ref' = [ref EXCEPT ![s] = @ - 1]
    /\ \/ ref[s] = 1 /\ del' = [del EXCEPT ![t] = s]
       \/ ref[s] # 1 /\ UNCHANGED del
    /\ UNCHANGED <<table, alive, ctx>>

\* What an action does to the references of other services than s.
OthersSame(s) == \A x \in Svc : x # s => SameRefs(x)

\* The count of the touched service is all there is to prove.
LEMMA RefsOfOne ==
    ASSUME RefInv, NEW s \in Svc, OthersSame(s), RefOf(s)'
    PROVE  RefInv'
<1>1. ASSUME NEW x \in Svc, x # s PROVE RefOf(x)'
    BY <1>1, SameRefsKeeps DEF OthersSame, RefInv
<1> QED BY <1>1 DEF RefInv

\* ref still counts the references when one is taken.
LEMMA AcquiresKeeps ==
    ASSUME Typed, RefInv, NEW t \in Thread, NEW s \in Svc, Acquires(t, s)
    PROVE  RefInv'
<1>1. RefOf(s) /\ Nil # s
    BY CoreAssumption DEF RefInv
<1>2. OthersSame(s)
    BY CoreAssumption DEF OthersSame, SameRefs, Acquires, Typed
<1>3. Count(ctx, s) \in Nat /\ Count(hold, s) \in Nat
    BY CountZero DEF Typed
<1>4. Count(ctx', s) + Count(hold', s) = Count(ctx, s) + Count(hold, s) + 1
  <2>1. CASE hold[t] = Nil /\ hold' = [hold EXCEPT ![t] = s] /\ UNCHANGED ctx
    <3>1. /\ hold[t] # s /\ hold'[t] = s
          /\ \A u \in Thread : u # t => (hold'[u] = s <=> hold[u] = s)
        BY <1>1, <2>1 DEF Typed
    <3>2. Count(hold', s) = Count(hold, s) + 1
        BY ONLY <3>1, CountUp, t \in Thread
    <3>3. Count(ctx', s) = Count(ctx, s)
        BY <2>1
    <3> QED BY ONLY <1>3, <3>2, <3>3
  <2>2. CASE ctx[t] = Nil /\ ctx' = [ctx EXCEPT ![t] = s] /\ UNCHANGED hold
    <3>1. /\ ctx[t] # s /\ ctx'[t] = s
          /\ \A u \in Thread : u # t => (ctx'[u] = s <=> ctx[u] = s)
        BY <1>1, <2>2 DEF Typed
    <3>2. Count(ctx', s) = Count(ctx, s) + 1
        BY ONLY <3>1, CountUp, t \in Thread
    <3>3. Count(hold', s) = Count(hold, s)
        BY <2>2
    <3> QED BY ONLY <1>3, <3>2, <3>3
  <2> QED BY <2>1, <2>2 DEF Acquires
<1>5. Count(ctx', s) \in Nat /\ Count(hold', s) \in Nat
  <2>1. ctx' \in [Thread -> Svc \cup {Nil}] /\ hold' \in [Thread -> Svc \cup {Nil}]
      BY DEF Acquires, Typed
  <2> QED BY ONLY <2>1, CountZero, s \in Svc
<1>6. ref'[s] = ref[s] + 1 /\ s \in table /\ s \in table' /\ UNCHANGED <<alive, del>>
    BY DEF Acquires, Typed
<1>7. ref'[s] = 1 + Count(ctx', s) + Count(hold', s) /\ ref[s] # 0
    BY ONLY <1>1, <1>3, <1>4, <1>5, <1>6 DEF RefOf
<1>8. RefOf(s)'
    BY <1>1, <1>6, <1>7 DEF RefOf
<1> QED BY <1>2, <1>8, RefsOfOne

\* ref still counts the references when one is passed on.
LEMMA PassesKeeps ==
    ASSUME Typed, RefInv, NEW t \in Thread, NEW s \in Svc, Passes(t, s)
    PROVE  RefInv'
<1>1. RefOf(s) /\ Nil # s
    BY CoreAssumption DEF RefInv
<1>2. OthersSame(s)
    BY CoreAssumption DEF OthersSame, SameRefs, Passes, Typed
<1>3. Count(ctx, s) \in Nat /\ Count(hold, s) \in Nat
    BY CountZero DEF Typed
<1>4. Count(hold', s) = Count(hold, s) + 1
  <2>1. /\ hold[t] # s /\ hold'[t] = s
        /\ \A u \in Thread : u # t => (hold'[u] = s <=> hold[u] = s)
      BY <1>1 DEF Passes, Typed
  <2> QED BY ONLY <2>1, CountUp, t \in Thread
<1>5. UNCHANGED <<ref, alive, del>>
    BY DEF Passes
<1>6. ref'[s] = (IF s \in table' THEN 1 ELSE 0) + Count(ctx', s) + Count(hold', s)
  <2>1. CASE s \in table /\ table' = table \ {s} /\ UNCHANGED ctx
    <3>1. Count(ctx', s) = Count(ctx, s) /\ s \notin table' /\ s \in table
        BY <2>1
    <3> QED BY ONLY <1>1, <1>3, <1>4, <1>5, <3>1 DEF RefOf
  <2>2. CASE ctx[t] = s /\ ctx' = [ctx EXCEPT ![t] = Nil] /\ UNCHANGED table
    <3>1. /\ ctx[t] = s /\ ctx'[t] # s
          /\ \A u \in Thread : u # t => (ctx'[u] = s <=> ctx[u] = s)
        BY <1>1, <2>2 DEF Typed
    <3>2. Count(ctx', s) \in Nat /\ Count(ctx, s) = Count(ctx', s) + 1
        BY ONLY <3>1, CountDown, t \in Thread
    <3>3. table' = table
        BY <2>2
    <3> QED BY ONLY <1>1, <1>3, <1>4, <1>5, <3>2, <3>3 DEF RefOf
  <2> QED BY <2>1, <2>2 DEF Passes
<1>7. s \in alive /\ (s \in table' => s \in table)
    BY <1>1 DEF Passes, RefOf
<1>8. \A u \in Thread : ctx'[u] = s \/ hold'[u] = s => s \in alive
    BY <1>7
<1>9. RefOf(s)'
    BY <1>1, <1>5, <1>6, <1>7, <1>8 DEF RefOf
<1> QED BY <1>2, <1>9, RefsOfOne

\* ref still counts the references when one is dropped, and one thread at most has the
\* context to delete.
LEMMA DropsKeeps ==
    ASSUME Typed, RefInv, NEW t \in Thread, NEW s \in Svc, Drops(t, s), del[t] = Nil
    PROVE  RefInv'
<1>1. RefOf(s) /\ Nil # s
    BY CoreAssumption DEF RefInv
<1>2. OthersSame(s)
    BY CoreAssumption DEF OthersSame, SameRefs, Drops, Typed
<1>3. Count(ctx, s) \in Nat /\ Count(hold, s) \in Nat
    BY CountZero DEF Typed
<1>4. Count(hold', s) \in Nat /\ Count(hold, s) = Count(hold', s) + 1
  <2>1. /\ hold[t] = s /\ hold'[t] # s
        /\ \A u \in Thread : u # t => (hold'[u] = s <=> hold[u] = s)
      BY <1>1 DEF Drops, Typed
  <2> QED BY ONLY <2>1, CountDown, t \in Thread
<1>5. ref'[s] = ref[s] - 1 /\ UNCHANGED <<table, alive, ctx>>
    BY DEF Drops, Typed
<1>6. /\ ref'[s] = (IF s \in table' THEN 1 ELSE 0) + Count(ctx', s) + Count(hold', s)
      /\ ref[s] # 0
  <2>1. Count(ctx', s) = Count(ctx, s) /\ table' = table
      BY <1>5
  <2> QED BY ONLY <1>1, <1>3, <1>4, <1>5, <2>1 DEF RefOf
<1>7. s \in alive
    BY <1>1 DEF Drops, RefOf
<1>8. \A u \in Thread : del[u] # s
    BY <1>1, <1>6 DEF RefOf
<1>9. \A u \in Thread : del'[u] = s => u = t /\ ref'[s] = 0
    BY <1>5, <1>8 DEF Drops, Typed
<1>10. RefOf(s)'
    BY <1>1, <1>5, <1>6, <1>7, <1>9 DEF RefOf
<1> QED BY <1>2, <1>10, RefsOfOne

\* A context that is deleted has no references left.
LEMMA DeletesKeeps ==
    ASSUME Typed, RefInv, NEW t \in Thread, NEW s \in Svc, del[t] = s,
           alive' = alive \ {s}, del' = [del EXCEPT ![t] = Nil],
           UNCHANGED <<table, ref, ctx, hold>>
    PROVE  RefInv'
<1>1. RefOf(s) /\ Nil # s
    BY CoreAssumption DEF RefInv
<1>2. OthersSame(s)
    BY CoreAssumption DEF OthersSame, SameRefs, Typed
<1>3. Count(ctx, s) \in Nat /\ Count(hold, s) \in Nat
    BY CountZero DEF Typed
<1>4. ref[s] = 0
    BY <1>1 DEF RefOf
<1>5. s \notin table /\ Count(ctx, s) = 0 /\ Count(hold, s) = 0
    BY ONLY <1>1, <1>3, <1>4 DEF RefOf
<1>6. \A u \in Thread : ctx[u] # s /\ hold[u] # s
    BY <1>5, CountZero DEF Typed
<1>7. \A u \in Thread : del'[u] # s
    BY <1>1 DEF RefOf, Typed
<1>8. RefOf(s)'
    BY <1>4, <1>5, <1>6, <1>7 DEF RefOf
<1> QED BY <1>2, <1>8, RefsOfOne

\* A new context has two references.
LEMMA LaunchKeepsRefs ==
    ASSUME Typed, RefInv, NEW t \in Thread, NEW s \in Svc, s \notin alive, hold[t] = Nil,
           table' = table \cup {s}, alive' = alive \cup {s},
           ref' = [ref EXCEPT ![s] = 2], hold' = [hold EXCEPT ![t] = s],
           UNCHANGED <<ctx, del>>
    PROVE  RefInv'
<1>1. RefOf(s) /\ Nil # s
    BY CoreAssumption DEF RefInv
<1>2. OthersSame(s)
    BY CoreAssumption DEF OthersSame, SameRefs, Typed
<1>3. \A u \in Thread : ctx[u] # s /\ hold[u] # s /\ del[u] # s
    BY <1>1 DEF RefOf
<1>4. Count(ctx, s) = 0 /\ Count(hold, s) = 0
    BY <1>3, CountZero DEF Typed
<1>5. Count(hold', s) = Count(hold, s) + 1
  <2>1. /\ hold[t] # s /\ hold'[t] = s
        /\ \A u \in Thread : u # t => (hold'[u] = s <=> hold[u] = s)
      BY <1>1 DEF Typed
  <2> QED BY ONLY <2>1, CountUp, t \in Thread
<1>6. ref'[s] = 2 /\ s \in table' /\ s \in alive'
    BY DEF Typed
<1>7. ref'[s] = 1 + Count(ctx', s) + Count(hold', s)
  <2>1. Count(ctx', s) = Count(ctx, s)
      OBVIOUS
  <2> QED BY ONLY <1>4, <1>5, <1>6, <2>1
<1>8. RefOf(s)'
    BY <1>3, <1>6, <1>7 DEF RefOf
<1> QED BY <1>2, <1>8, RefsOfOne

-----------------------------------------------------------------------------
(* Mailboxes that change hands                                             *)

\* The place of the touched mailbox is all there is to prove.
LEMMA BoxesOfOne ==
    ASSUME BoxInv, NEW s \in Svc, \A x \in Svc : x # s => SameBox(x), BoxOf(s)'
    PROVE  BoxInv'
<1>1. ASSUME NEW x \in Svc, x # s PROVE BoxOf(x)'
    BY <1>1, SameBoxKeeps DEF BoxInv
<1> QED BY <1>1 DEF BoxInv

\* Only t's ownership of s may change.
OthersOwn(t, s) ==
    \A u \in Thread, x \in Svc : u # t \/ x # s => (Owns(u, x)' <=> Owns(u, x))

\* What t has besides s is as before.
LEMMA OwnChange ==
    ASSUME NEW t \in Thread, NEW s \in Svc,
           \A u \in Thread : u # t => q'[u] = q[u] /\ nq'[u] = nq[u],
           \A x \in Svc : x # s => (q'[t] = x \/ nq'[t] = x <=> q[t] = x \/ nq[t] = x)
    PROVE  OthersOwn(t, s) /\ (Owns(t, s)' <=> q'[t] = s \/ nq'[t] = s)
BY CoreAssumption DEF OthersOwn, Owns

\* t takes s, the first in the global queue.
Takes(t, s) ==
    /\ Q # <<>> /\ s = Head(Q) /\ Q' = Tail(Q)
    /\ OthersOwn(t, s) /\ Owns(t, s)'
    /\ UNCHANGED <<alive, mqs, queue, in_global, release>>

\* t puts s, which it has, back.
PutsBack(t, s) ==
    /\ Owns(t, s) /\ Q' = Append(Q, s)
    /\ OthersOwn(t, s) /\ ~Owns(t, s)'
    /\ UNCHANGED <<alive, mqs, queue, in_global, release>>

\* t gives up s, which it has: s is empty, or freed.
GivesUp(t, s) ==
    /\ Owns(t, s) /\ queue[s] = <<>>
    /\ OthersOwn(t, s) /\ ~Owns(t, s)'
    /\ in_global' = [in_global EXCEPT ![s] = FALSE]
    /\ \/ ~release[s] /\ UNCHANGED mqs
       \/ release[s] /\ mqs' = [mqs EXCEPT ![s] = "freed"]
    /\ UNCHANGED <<alive, queue, release, Q>>

\* The queue has s, so that no thread has it until t takes it.
LEMMA TakesKeeps ==
    ASSUME Typed, BoxInv, Distinct(Q), NEW t \in Thread, NEW s \in Svc, Takes(t, s), Plain(t)
    PROVE  BoxInv' /\ Distinct(Q') /\ Q' \in Seq(Svc) /\ \A u \in Thread : ~Owns(u, s)
<1>1. /\ Q' \in Seq(Svc) /\ Has(Q, s) /\ Distinct(Q')
      /\ \A x \in Svc : Has(Q', x) <=> Has(Q, x) /\ x # s
    BY HeadPlaces DEF Takes, Typed
<1>2. BoxOf(s)
    BY DEF BoxInv
<1>3. \A u \in Thread : ~Owns(u, s)
    BY <1>1, <1>2 DEF BoxOf
<1>4. BoxOf(s)'
  <2>1. \A u \in Thread : Owns(u, s)' <=> u = t
      BY <1>3 DEF Takes, OthersOwn
  <2>2. ~Has(Q', s) /\ mqs[s] = "live" /\ (in_global[s] \/ release[s])
      BY <1>1, <1>2 DEF BoxOf
  <2> QED BY <1>2, <2>1, <2>2, PlainSame DEF BoxOf, Takes
<1>5. \A x \in Svc : x # s => SameBox(x)
    BY <1>1, PlainSame DEF SameBox, Takes, OthersOwn
<1> QED BY <1>1, <1>3, <1>4, <1>5, BoxesOfOne

\* Only t has s, so that the queue has it once.
LEMMA PutsBackKeeps ==
    ASSUME Typed, BoxInv, Distinct(Q), NEW t \in Thread, NEW s \in Svc, PutsBack(t, s), Plain(t)
    PROVE  BoxInv' /\ Distinct(Q') /\ Q' \in Seq(Svc)
<1>1. BoxOf(s)
    BY DEF BoxInv
<1>2. ~Has(Q, s)
    BY <1>1 DEF BoxOf, PutsBack
<1>3. /\ Q' \in Seq(Svc) /\ Distinct(Q')
      /\ \A x \in Svc : Has(Q', x) <=> Has(Q, x) \/ x = s
    BY <1>2, AppendPlaces DEF PutsBack, Typed
<1>4. BoxOf(s)'
  <2>1. \A u \in Thread : ~Owns(u, s)'
      BY <1>1 DEF PutsBack, OthersOwn, BoxOf
  <2>2. Has(Q', s) /\ mqs[s] = "live" /\ (in_global[s] \/ release[s])
      BY <1>1, <1>3 DEF BoxOf, PutsBack
  <2> QED BY <1>1, <2>1, <2>2, PlainSame DEF BoxOf, PutsBack
<1>5. \A x \in Svc : x # s => SameBox(x)
    BY <1>3, PlainSame DEF SameBox, PutsBack, OthersOwn
<1> QED BY <1>3, <1>4, <1>5, BoxesOfOne

\* Nobody looks for s any more.
LEMMA GivesUpKeeps ==
    ASSUME Typed, BoxInv, NEW t \in Thread, NEW s \in Svc, GivesUp(t, s), Plain(t)
    PROVE  BoxInv'
<1>1. BoxOf(s)
    BY DEF BoxInv
<1>2. ~Has(Q, s) /\ \A u \in Thread : ~Owns(u, s)'
    BY <1>1 DEF BoxOf, GivesUp, OthersOwn
<1>3. BoxOf(s)'
  <2>1. ~in_global'[s] /\ queue'[s] = <<>> /\ Q' = Q /\ release' = release /\ alive' = alive
      BY DEF GivesUp, Typed
  <2>2. mqs[s] = "live"
      BY <1>1 DEF GivesUp, BoxOf
  <2>3. mqs'[s] = IF release[s] THEN "freed" ELSE "live"
      BY <2>2 DEF GivesUp, Typed
  <2>4. \A u \in Thread : ~Creates(u, s)
      BY <1>1, <2>2 DEF BoxOf
  <2> QED BY <1>1, <1>2, <2>1, <2>3, <2>4, PlainSame DEF BoxOf
<1>4. \A x \in Svc : x # s => SameBox(x)
    BY PlainSame DEF SameBox, GivesUp, OthersOwn, Typed
<1> QED BY <1>3, <1>4, BoxesOfOne

\* A mailbox that is nowhere joins the global queue.
LEMMA JoinsPlaces ==
    ASSUME Typed, NEW s \in Svc, BoxOf(s), mqs[s] = "live", ~release[s], Distinct(Q),
           Q' = IF in_global[s] THEN Q ELSE Append(Q, s)
    PROVE  /\ Q' \in Seq(Svc) /\ Distinct(Q')
           /\ \A x \in Svc : x # s => (Has(Q', x) <=> Has(Q, x))
           /\ Has(Q', s) \/ \E t \in Thread : Owns(t, s)
           /\ \A t \in Thread : Owns(t, s) => ~Has(Q', s)
<1>1. CASE in_global[s]
    BY <1>1 DEF BoxOf, Typed
<1>2. CASE ~in_global[s]
  <2>1. ~Has(Q, s) /\ \A t \in Thread : ~Owns(t, s)
      BY <1>2 DEF BoxOf
  <2>2. /\ Append(Q, s) \in Seq(Svc) /\ Distinct(Append(Q, s))
        /\ \A x \in Svc : Has(Append(Q, s), x) <=> Has(Q, x) \/ x = s
      BY <2>1, AppendPlaces DEF Typed
  <2> QED BY <1>2, <2>1, <2>2
<1> QED BY <1>1, <1>2

\* A message makes its mailbox one that somebody looks at.
LEMMA PushKeeps ==
    ASSUME Typed, BoxInv, Distinct(Q), NEW t \in Thread, Plain(t), NEW s \in Svc, NEW m,
           mqs[s] = "live", ~release[s], Mq_push(s, m), UNCHANGED <<alive, mqs, release, q, nq>>
    PROVE  BoxInv' /\ Distinct(Q') /\ Q' \in Seq(Svc)
<1>1. BoxOf(s)
    BY DEF BoxInv
<1>2. /\ Q' \in Seq(Svc) /\ Distinct(Q')
      /\ \A x \in Svc : x # s => (Has(Q', x) <=> Has(Q, x))
      /\ Has(Q', s) \/ \E u \in Thread : Owns(u, s)
      /\ \A u \in Thread : Owns(u, s) => ~Has(Q', s)
    BY <1>1, JoinsPlaces DEF Mq_push
<1>3. \A u \in Thread, x \in Svc : Owns(u, x)' <=> Owns(u, x)
    BY DEF Owns
<1>4. BoxOf(s)'
  <2>1. in_global'[s]
      BY DEF Mq_push, Typed
  <2> QED BY <1>1, <1>2, <1>3, <2>1, PlainSame DEF BoxOf
<1>5. \A x \in Svc : x # s => SameBox(x)
    BY <1>2, <1>3, PlainSame DEF SameBox, Mq_push, Typed
<1> QED BY <1>2, <1>4, <1>5, BoxesOfOne

\* The mark makes the mailbox of a deleted context one that somebody looks at.
LEMMA MarkKeeps ==
    ASSUME Typed, BoxInv, Distinct(Q), NEW t \in Thread, NEW s \in Svc, mqs[s] = "live",
           ~release[s], pc[t] = "delete", del[t] = s, Goto(t, "free"), Mark_release(s),
           UNCHANGED <<alive, mqs, queue, in_global, q, nq, hold, del>>
    PROVE  BoxInv' /\ Distinct(Q') /\ Q' \in Seq(Svc)
<1>1. BoxOf(s)
    BY DEF BoxInv
<1>2. /\ Q' \in Seq(Svc) /\ Distinct(Q')
      /\ \A x \in Svc : x # s => (Has(Q', x) <=> Has(Q, x))
      /\ Has(Q', s) \/ \E u \in Thread : Owns(u, s)
      /\ \A u \in Thread : Owns(u, s) => ~Has(Q', s)
    BY <1>1, JoinsPlaces DEF Mark_release
<1>3. \A u \in Thread, x \in Svc : Owns(u, x)' <=> Owns(u, x)
    BY DEF Owns
<1>4. /\ \A u \in Thread, x \in Svc : Creates(u, x)' <=> Creates(u, x)
      /\ \A u \in Thread, x \in Svc : x # s => (Frees(u, x)' <=> Frees(u, x))
      /\ Frees(t, s)'
    BY DEF Creates, Frees, Goto, Typed
<1>5. BoxOf(s)'
  <2>1. release'[s]
      BY DEF Mark_release, Typed
  <2> QED BY <1>1, <1>2, <1>3, <1>4, <2>1 DEF BoxOf
<1>6. \A x \in Svc : x # s => SameBox(x)
    BY <1>2, <1>3, <1>4 DEF SameBox, Mark_release, Typed
<1> QED BY <1>2, <1>5, <1>6, BoxesOfOne

\* The context is freed after its mailbox was marked.
LEMMA FreeKeepsBoxes ==
    ASSUME Typed, BoxInv, NEW t \in Thread, NEW s \in Svc, Frees(t, s), mqs[s] # "none",
           alive' = alive \ {s}, del' = [del EXCEPT ![t] = Nil], pc' = [pc EXCEPT ![t] = pc'[t]],
           pc'[t] \notin {"create", "free"}, UNCHANGED <<mqVars, owned, hold>>
    PROVE  BoxInv'
<1> USE DEF mqVars, owned
<1>1. BoxOf(s) /\ Nil # s
    BY CoreAssumption DEF BoxInv
<1>2. \A u \in Thread, x \in Svc : Owns(u, x)' <=> Owns(u, x)
    BY DEF Owns
<1>3. /\ \A u \in Thread, x \in Svc : Creates(u, x)' <=> Creates(u, x)
      /\ \A u \in Thread, x \in Svc : x # s => (Frees(u, x)' <=> Frees(u, x))
    BY CoreAssumption DEF Creates, Frees, Typed
<1>4. BoxOf(s)'
    BY <1>1, <1>2, <1>3 DEF BoxOf
<1>5. \A x \in Svc : x # s => SameBox(x)
    BY <1>2, <1>3 DEF SameBox
<1> QED BY <1>4, <1>5, BoxesOfOne

\* A new mailbox is with the thread that launches its service.
LEMMA CreateKeepsBoxes ==
    ASSUME Typed, BoxInv, NEW t \in Thread, NEW s \in Svc, Creates(t, s), nq[t] = Nil,
           mqs' = [mqs EXCEPT ![s] = "live"], in_global' = [in_global EXCEPT ![s] = TRUE],
           nq' = [nq EXCEPT ![t] = s], Goto(t, "count"),
           UNCHANGED <<alive, queue, release, Q, q, hold, del>>
    PROVE  BoxInv'
<1>1. BoxOf(s) /\ Nil \notin Svc /\ mqs[s] = "none"
    BY CoreAssumption DEF BoxInv, BoxOf
<1>2. ~Has(Q, s) /\ ~release[s] /\ \A u \in Thread : ~Owns(u, s)
    BY <1>1 DEF BoxOf
<1>3. \A u \in Thread : Owns(u, s)' <=> u = t
    BY <1>1, <1>2 DEF Owns, Typed
<1>4. /\ \A u \in Thread, x \in Svc : Frees(u, x)' <=> Frees(u, x)
      /\ \A u \in Thread, x \in Svc : x # s => (Creates(u, x)' <=> Creates(u, x))
      /\ \A u \in Thread : ~Creates(u, s)'
  <2>1. pc'[t] = "count" /\ \A u \in Thread : u # t => pc'[u] = pc[u]
      BY DEF Goto, Typed
  <2>2. \A u \in Thread : Creates(u, s) => u = t
      BY <1>1 DEF BoxOf
  <2> QED BY <2>1, <2>2 DEF Creates, Frees
<1>5. BoxOf(s)'
  <2>1. in_global'[s] /\ mqs'[s] = "live"
      BY DEF Typed
  <2> QED BY <1>2, <1>3, <1>4, <2>1 DEF BoxOf
<1>6. \A x \in Svc : x # s => SameBox(x)
    BY <1>1, <1>4 DEF SameBox, Owns, Typed
<1> QED BY <1>5, <1>6, BoxesOfOne

\* A context that is about to get its mailbox.
LEMMA LaunchKeepsBoxes ==
    ASSUME Typed, BoxInv, NEW t \in Thread, NEW s \in Svc, mqs[s] = "none", s \notin alive,
           pc[t] = "cb", Goto(t, "create"), hold[t] = Nil, hold' = [hold EXCEPT ![t] = s],
           alive' = alive \cup {s}, UNCHANGED <<mqVars, owned, del>>,
           \A u \in Thread : hold[u] # s
    PROVE  BoxInv'
<1> USE DEF mqVars, owned
<1>1. BoxOf(s) /\ Nil \notin Svc
    BY CoreAssumption DEF BoxInv
<1>2. \A u \in Thread, x \in Svc : Owns(u, x)' <=> Owns(u, x)
    BY DEF Owns
<1>3. /\ \A u \in Thread, x \in Svc : Frees(u, x)' <=> Frees(u, x)
      /\ \A u \in Thread, x \in Svc : x # s => (Creates(u, x)' <=> Creates(u, x))
      /\ \A u \in Thread : Creates(u, s)' <=> u = t
    BY <1>1 DEF Creates, Frees, Goto, Typed
<1>4. BoxOf(s)'
    BY <1>1, <1>2, <1>3 DEF BoxOf
<1>5. \A x \in Svc : x # s => SameBox(x)
    BY <1>2, <1>3 DEF SameBox
<1> QED BY <1>4, <1>5, BoxesOfOne

\* What is referred to has not been marked, and has its mailbox unless it is just being
\* launched.
LEMMA Referred ==
    ASSUME Typed, RefInv, BoxInv, NEW t \in Thread, NEW s \in Svc,
           ctx[t] = s \/ hold[t] = s
    PROVE  ~release[s] /\ mqs[s] # "freed" /\ ref[s] # 0 /\ s \in alive
<1>1. RefOf(s) /\ BoxOf(s)
    BY DEF RefInv, BoxInv
<1>2. ref[s] # 0
  <2>1. /\ Count(ctx, s) \in Nat /\ Count(hold, s) \in Nat
        /\ Count(ctx, s) # 0 \/ Count(hold, s) # 0
      BY CountZero DEF Typed
  <2> QED BY ONLY <1>1, <2>1 DEF RefOf
<1>3. \A u \in Thread : del[u] # s
    BY <1>1, <1>2 DEF RefOf
<1> QED BY <1>1, <1>2, <1>3 DEF RefOf, BoxOf, Frees

\* A context that is to be deleted has its mailbox, which is not marked yet.
LEMMA ToDelete ==
    ASSUME Typed, RefInv, BoxInv, NEW t \in Thread, NEW s \in Svc, del[t] = s
    PROVE  /\ mqs[s] # "none"
           /\ pc[t] # "free" => mqs[s] = "live" /\ ~release[s]
<1>1. RefOf(s) /\ BoxOf(s)
    BY DEF RefInv, BoxInv
<1>2. ref[s] = 0 /\ s \in alive /\ \A u \in Thread : del[u] = s => u = t
    BY <1>1 DEF RefOf
<1>3. \A u \in Thread : hold[u] # s
    BY <1>2, Referred
<1>4. mqs[s] # "none"
    BY <1>1, <1>2, <1>3 DEF BoxOf, Creates
<1> QED BY <1>1, <1>2, <1>4 DEF BoxOf, Frees, Typed

-----------------------------------------------------------------------------
(* One step                                                                *)

\* The parts of the invariant after a step of t.
LEMMA Assemble ==
    ASSUME Inv, NEW t \in Thread, Typed', Local(t)',
           \A u \in Thread : u # t => SameHands(u),
           \A s \in Svc : release[s] => release'[s],
           RefInv', BoxInv', Distinct(Q')
    PROVE  Inv'
<1>1. Locals'
  <2>1. ASSUME NEW u \in Thread, u # t PROVE Local(u)'
      BY <2>1, SameHandsKeeps DEF Inv, Locals
  <2> QED BY <2>1 DEF Locals
<1> QED BY <1>1 DEF Inv

\* Mailboxes stay where they are.
Boxes == <<alive, mqs, queue, in_global, release, Q, q, nq>>
LEMMA BoxesKept ==
    ASSUME BoxInv, UNCHANGED Boxes, NEW t \in Thread, Plain(t)
    PROVE  BoxInv'
<1>1. \A s \in Svc : SameBox(s)
    BY PlainSame DEF Boxes, SameBox, Owns
<1> QED BY <1>1, SameBoxKeeps DEF BoxInv

\* References stay where they are.
LEMMA RefsKept ==
    ASSUME RefInv, UNCHANGED <<ctxVars, refs>>
    PROVE  RefInv'
<1>1. \A s \in Svc : SameRefs(s)
    BY DEF ctxVars, refs, SameRefs
<1> QED BY <1>1, SameRefsKeeps DEF RefInv

\* A thread goes on where it was before its send or release, with empty hands.
LEMMA ReturnLocal ==
    ASSUME Typed, NEW t \in Thread, Local(t), pc[t] \in SubPc, Return(t),
           hold'[t] = Nil, del'[t] = Nil, UNCHANGED <<q, nq, ctx>>,
           \A s \in Svc : release[s] => release'[s]
    PROVE  /\ Local(t)'
           /\ pc' \in [Thread -> TopPc \cup SubPc] /\ ret' \in [Thread -> TopPc \cup {Nil}]
           /\ pc'[t] \notin {"create", "free"}
<1>1. ret[t] \in TopPc \ LaunchPc /\ At(t) = ret[t]
    BY DEF Local, At
<1>2. /\ pc' = [pc EXCEPT ![t] = ret[t]] /\ ret' = [ret EXCEPT ![t] = Nil]
      /\ pc'[t] = ret[t]
    BY DEF Return, Goto, Typed
<1>3. pc'[t] \notin SubPc /\ pc'[t] \notin LaunchPc
    BY <1>1, <1>2 DEF SubPc, TopPc, DispatchPc, SecondPc, ReleasePc, FreePc, OtherPc
<1>4. At(t)' = At(t) /\ Mine(t)' = Mine(t)
    BY <1>1, <1>2, <1>3 DEF At, Mine
<1>5. At(t) = "drop" => Mine(t) \in Svc
    BY DEF Typed, Local, Mine, ReleasePc
<1>6. Local(t)'
    BY <1>3, <1>4, <1>5 DEF Local, SubPc
<1>7. pc'[t] \notin {"create", "free"}
    BY <1>3 DEF SubPc, LaunchPc
<1> QED BY <1>1, <1>2, <1>6, <1>7 DEF Typed

\* Releasing a context and deleting it keep the invariant.
LEMMA CommonKeeps ==
    ASSUME Inv, NEW t \in Thread, Common(t)
    PROVE  Inv'
<1>0. /\ Local(t) /\ Typed /\ RefInv /\ BoxInv /\ Distinct(Q) /\ Nil \notin Svc
    BY CoreAssumption DEF Inv, Locals
<1>1. CASE SendGrab(t) /\ msg[t].to \notin table
    BY <1>1, SenderQuiet, QuietKeeps
<1>2. CASE SendGrab(t) /\ msg[t].to \in table
  <2> DEFINE s == msg[t].to
  <2>1. /\ s \in Svc /\ pc[t] = "send" /\ Goto(t, "push") /\ UNCHANGED ret
        /\ hold' = [hold EXCEPT ![t] = s]
        /\ ref' = [ref EXCEPT ![s] = @ + 1]
        /\ UNCHANGED <<table, alive, mqVars, owned, ctx, del>>
      BY <1>0, <1>2 DEF SendGrab, Typed
  <2> HIDE DEF s
  <2>2. Acquires(t, s)
      BY <1>0, <1>2, <2>1 DEF Acquires, Local, LaunchPc, s
  <2>3. RefInv'
      BY <1>0, <2>1, <2>2, AcquiresKeeps
  <2>7. Plain(t) /\ \A u \in Thread : u # t => SameHands(u)
      BY <1>0, <2>1 DEF Typed, Goto, mqVars, owned, SameHands, Plain
  <2>4. BoxInv' /\ Distinct(Q')
      BY <1>0, <2>1, <2>7, BoxesKept DEF Boxes, mqVars, owned
  <2>5. Typed'
      BY <1>0, <2>1 DEF Typed, Goto, SubPc, mqVars, owned
  <2>6. Local(t)'
      BY <1>0, <2>1 DEF Typed, Goto, SubPc, LaunchPc, mqVars, owned, Local, At, Mine
  <2> QED BY <2>1, <2>3, <2>4, <2>5, <2>6, <2>7, Assemble DEF mqVars
<1>3. CASE SendPush(t)
  <2>1. /\ pc[t] = "push" /\ mqs[hold[t]] # "none" /\ Goto(t, "rel") /\ Mq_push(hold[t], msg[t])
        /\ UNCHANGED <<ctxVars, mqs, release, ret, owned, refs>>
      BY <1>3 DEF SendPush
  <2>2. hold[t] \in Svc
      BY <1>0, <2>1 DEF Typed, Local
  <2>3. mqs[hold[t]] = "live" /\ ~release[hold[t]]
      BY <1>0, <2>1, <2>2, Referred DEF Typed
  <2>8. Plain(t) /\ \A u \in Thread : u # t => SameHands(u)
      BY <1>0, <2>1 DEF Typed, Goto, owned, refs, SameHands, Plain
  <2>4. BoxInv' /\ Distinct(Q') /\ Q' \in Seq(Svc)
      BY <1>0, <2>1, <2>2, <2>3, <2>8, PushKeeps DEF ctxVars, owned
  <2>5. RefInv'
      BY <1>0, <2>1, RefsKept
  <2>6. Typed'
      BY <1>0, <2>1, <2>4 DEF Typed, Goto, SubPc, ctxVars, owned, refs, Mq_push
  <2>7. Local(t)'
      BY <1>0, <2>1 DEF Typed, Goto, SubPc, LaunchPc, owned, refs, Local, At, Mine
  <2> QED BY <2>1, <2>4, <2>5, <2>6, <2>7, <2>8, Assemble
<1>4. CASE Release(t)
  <2> DEFINE s == hold[t]
  <2>1. /\ pc[t] = "rel" /\ s \in Svc /\ del[t] = Nil
        /\ ref' = [ref EXCEPT ![s] = @ - 1]
        /\ hold' = [hold EXCEPT ![t] = Nil]
        /\ \/ ref[s] = 1 /\ Goto(t, "delete") /\ del' = [del EXCEPT ![t] = s] /\ UNCHANGED ret
           \/ ref[s] # 1 /\ Return(t) /\ UNCHANGED del
        /\ UNCHANGED <<table, alive, mqVars, owned, ctx>>
      BY <1>0, <1>4 DEF Release, Typed, Local
  <2> HIDE DEF s
  <2>2. Drops(t, s)
      BY <1>0, <2>1 DEF Drops, s
  <2>3. RefInv'
      BY <1>0, <2>1, <2>2, DropsKeeps
  <2>5. /\ Local(t)' /\ pc'[t] \notin {"create", "free"}
        /\ pc' \in [Thread -> TopPc \cup SubPc] /\ ret' \in [Thread -> TopPc \cup {Nil}]
    <3>1. CASE ref[s] = 1 /\ Goto(t, "delete") /\ del' = [del EXCEPT ![t] = s] /\ UNCHANGED ret
        BY <1>0, <2>1, <3>1 DEF Typed, Goto, SubPc, LaunchPc, mqVars, owned, Local,
           At, Mine
    <3>2. CASE ref[s] # 1 /\ Return(t) /\ UNCHANGED del
      <4>1. hold'[t] = Nil /\ del'[t] = Nil /\ UNCHANGED <<q, nq, ctx, release>> /\ pc[t] \in SubPc
          BY <1>0, <2>1, <3>2 DEF Typed, mqVars, owned, SubPc
      <4> QED BY <1>0, <3>2, <4>1, ReturnLocal
    <3> QED BY <2>1, <3>1, <3>2
  <2>6. Typed'
    <3>1. del' \in [Thread -> Svc \cup {Nil}] /\ hold' \in [Thread -> Svc \cup {Nil}]
        BY <1>0, <2>1 DEF Typed
    <3>2. ref' \in [Svc -> Int]
        BY <1>0, <2>1 DEF Typed
    <3>3. UNCHANGED <<table, alive, mqVars, owned, ctx>>
        BY <2>1
    <3> QED BY ONLY <1>0, <2>5, <3>1, <3>2, <3>3 DEF Typed, mqVars, owned
  <2>7. Plain(t) /\ \A u \in Thread : u # t => SameHands(u)
      BY <1>0, <2>1, <2>5 DEF Typed, Goto, Return, mqVars, owned, SameHands, Plain
  <2>4. BoxInv' /\ Distinct(Q')
      BY <1>0, <2>1, <2>7, BoxesKept DEF Boxes, mqVars, owned
  <2> QED BY <2>1, <2>3, <2>4, <2>5, <2>6, <2>7, Assemble DEF mqVars
<1>5. CASE Delete(t)
  <2> DEFINE s == del[t]
  <2>1. /\ pc[t] = "delete" /\ s \in Svc /\ Mark_release(s) /\ Goto(t, "free")
        /\ UNCHANGED <<ctxVars, mqs, queue, in_global, ret, owned, refs>>
      BY <1>0, <1>5 DEF Delete, Typed, Local
  <2>2. mqs[s] = "live" /\ ~release[s]
      BY <1>0, <2>1, ToDelete
  <2>3. RefInv'
      BY <1>0, <2>1, RefsKept
  <2> HIDE DEF s
  <2>4. BoxInv' /\ Distinct(Q') /\ Q' \in Seq(Svc)
      BY <1>0, <2>1, <2>2, MarkKeeps DEF owned, refs, ctxVars, s
  <2>5. \A x \in Svc : release[x] => release'[x]
      BY <1>0, <2>1 DEF Mark_release, Typed
  <2>6. Local(t)'
      BY <1>0, <2>1, <2>5 DEF Typed, Goto, SubPc, LaunchPc, ReleasePc, owned, refs, Local, At,
         Mine
  <2>7. Typed'
      BY <1>0, <2>1, <2>4 DEF Typed, Goto, SubPc, owned, refs, ctxVars, Mark_release
  <2>8. \A u \in Thread : u # t => SameHands(u)
      BY <1>0, <2>1 DEF Typed, Goto, owned, refs, SameHands
  <2> QED BY <2>3, <2>4, <2>5, <2>6, <2>7, <2>8, Assemble
<1>6. CASE Free(t)
  <2> DEFINE s == del[t]
  <2>1. /\ pc[t] = "free" /\ s \in Svc /\ hold[t] = Nil
        /\ alive' = alive \ {s} /\ del' = [del EXCEPT ![t] = Nil]
        /\ Return(t)
        /\ UNCHANGED <<table, ref, mqVars, owned, ctx, hold>>
      BY <1>0, <1>6 DEF Free, Typed, Local, LaunchPc
  <2>2. mqs[s] # "none"
      BY <1>0, <2>1, ToDelete
  <2>3. RefInv'
      BY <1>0, <2>1, DeletesKeeps
  <2>4. /\ Local(t)' /\ pc'[t] \notin {"create", "free"}
        /\ pc' \in [Thread -> TopPc \cup SubPc] /\ ret' \in [Thread -> TopPc \cup {Nil}]
    <3>1. /\ hold'[t] = Nil /\ del'[t] = Nil /\ UNCHANGED <<q, nq, ctx, release>>
          /\ pc[t] \in SubPc
        BY <1>0, <2>1 DEF Typed, mqVars, owned, SubPc
    <3> QED BY <1>0, <2>1, <3>1, ReturnLocal
  <2>5. BoxInv'
    <3>1. pc' = [pc EXCEPT ![t] = pc'[t]]
        BY <1>0, <2>1 DEF Return, Goto, Typed
    <3> QED BY <1>0, <2>1, <2>2, <2>4, <3>1, FreeKeepsBoxes DEF Frees
  <2> HIDE DEF s
  <2>6. Typed'
      BY <1>0, <2>1, <2>4 DEF Typed, mqVars, owned
  <2>7. \A u \in Thread : u # t => SameHands(u)
      BY <1>0, <2>1 DEF Typed, Goto, Return, owned, SameHands
  <2>8. Distinct(Q') /\ \A x \in Svc : release[x] => release'[x]
      BY <1>0, <2>1 DEF mqVars
  <2> QED BY <2>3, <2>4, <2>5, <2>6, <2>7, <2>8, Assemble
<1>7. CASE SendLost(t)
    BY <1>7, SenderQuiet, QuietKeeps
<1> QED BY <1>1, <1>2, <1>3, <1>4, <1>5, <1>6, <1>7 DEF Common

\* The steps of a worker that move references only.
LEMMA WorkerRefsKeep ==
    ASSUME Inv, NEW w \in Worker,
           \/ Grab(w) /\ q[w] \in table
           \/ \E d \in Svc : CbKills(w, d) /\ d \in table
           \/ Abort(w) /\ table # {}
           \/ Unregister(w) /\ nq[w] \in table
           \/ After(w) /\ left[w] = 0 /\ Q = <<>>
    PROVE  Inv'
<1>0. /\ w \in Thread /\ Local(w) /\ Typed /\ RefInv /\ BoxInv /\ Distinct(Q)
      /\ Nil \notin Svc /\ Timer \notin Worker /\ Socket \notin Worker
    BY CoreAssumption DEF Inv, Locals, Thread
<1>1. CASE Grab(w) /\ q[w] \in table
  <2>1. /\ pc[w] = "grab" /\ Goto(w, "first") /\ ctx' = [ctx EXCEPT ![w] = q[w]]
        /\ ref' = [ref EXCEPT ![q[w]] = @ + 1]
        /\ UNCHANGED <<table, alive, mqVars, ret, owned, hold, del>>
      BY <1>1 DEF Grab
  <2>2. Acquires(w, q[w]) /\ q[w] \in Svc
      BY <1>0, <1>1, <2>1 DEF Acquires, Local, At, SubPc, DispatchPc, SecondPc, ReleasePc, Typed
  <2>3. RefInv'
      BY <1>0, <2>2, AcquiresKeeps
  <2>4. Typed'
      BY <1>0, <2>1, <2>2 DEF Typed, Goto, TopPc, DispatchPc, mqVars, owned
  <2>5. Local(w)'
      BY <1>0, <2>1, <2>2 DEF Typed, Goto, mqVars, owned, Local, At, Mine, SubPc, TopPc,
         DispatchPc, SecondPc, LaunchPc, ReleasePc, FreePc, OtherPc
  <2>6. Plain(w) /\ \A u \in Thread : u # w => SameHands(u)
      BY <1>0, <2>1 DEF Typed, Goto, mqVars, owned, SameHands, Plain
  <2>7. BoxInv' /\ Distinct(Q')
      BY <1>0, <2>1, <2>6, BoxesKept DEF Boxes, mqVars, owned
  <2> QED BY <1>0, <2>1, <2>3, <2>4, <2>5, <2>6, <2>7, Assemble DEF mqVars
<1>2. ASSUME NEW s \in table, NEW l, table' = table \ {s}, ToRelease(w, s, l),
             UNCHANGED <<ref, alive, mqVars, owned, ctx, del>>,
             \/ pc[w] = "cb" /\ l = "after"
             \/ pc[w] = "abort" /\ l = "abort"
             \/ pc[w] = "unreg" /\ l = "relq"
      PROVE  Inv'
  <2>1. /\ hold' = [hold EXCEPT ![w] = s] /\ s \in Svc
        /\ pc' = [pc EXCEPT ![w] = "rel"] /\ ret' = [ret EXCEPT ![w] = l]
      BY <1>0, <1>2 DEF ToRelease, Goto, Typed
  <2>2. Passes(w, s)
      BY <1>0, <1>2, <2>1 DEF Passes, Local, LaunchPc
  <2>3. RefInv'
      BY <1>0, <2>1, <2>2, PassesKeeps
  <2>4. Typed'
      BY <1>0, <1>2, <2>1 DEF Typed, SubPc, TopPc, DispatchPc, ReleasePc, mqVars, owned
  <2>5. Local(w)'
      BY <1>0, <1>2, <2>1 DEF Typed, mqVars, owned, Local, At, Mine, SubPc, TopPc,
         DispatchPc, SecondPc, LaunchPc, ReleasePc, FreePc, OtherPc
  <2>6. Plain(w) /\ \A u \in Thread : u # w => SameHands(u)
      BY <1>0, <1>2, <2>1 DEF Typed, mqVars, owned, SameHands, Plain
  <2>7. BoxInv' /\ Distinct(Q')
      BY <1>0, <1>2, <2>6, BoxesKept DEF Boxes, mqVars, owned
  <2> QED BY <1>0, <1>2, <2>3, <2>4, <2>5, <2>6, <2>7, Assemble DEF mqVars
<1>3. CASE \E d \in Svc : CbKills(w, d) /\ d \in table
  <2>1. PICK d \in table : CbKills(w, d)
      BY <1>3
  <2> QED BY <1>2, <2>1 DEF CbKills, Callback, ToRetire, mqVars, owned
<1>4. CASE Abort(w) /\ table # {}
  <2>1. PICK s \in table : ToRetire(w, s, "abort")
      BY <1>4 DEF Abort
  <2> QED BY <1>2, <1>4, <2>1 DEF Abort, ToRetire
<1>5. CASE Unregister(w) /\ nq[w] \in table
    BY <1>2, <1>5 DEF Unregister, ToRetire
<1>6. CASE After(w) /\ left[w] = 0 /\ Q = <<>>
  <2>1. /\ pc[w] = "after" /\ ctx[w] \in Svc /\ ctx' = [ctx EXCEPT ![w] = Nil]
        /\ hold' = [hold EXCEPT ![w] = ctx[w]]
        /\ pc' = [pc EXCEPT ![w] = "rel"] /\ ret' = [ret EXCEPT ![w] = "loop"]
        /\ UNCHANGED <<ctxVars, mqVars, owned, del>>
      BY <1>0, <1>6 DEF After, ReleaseCtx, ToRelease, Goto, Typed, Local, At, SubPc, DispatchPc,
         mqVars, owned
  <2>2. Passes(w, ctx[w])
      BY <1>0, <2>1 DEF Passes, Local, LaunchPc, ctxVars
  <2>3. RefInv'
      BY <1>0, <2>1, <2>2, PassesKeeps
  <2>4. Typed'
      BY <1>0, <2>1 DEF Typed, SubPc, TopPc, mqVars, owned, ctxVars
  <2>5. Local(w)'
      BY <1>0, <2>1 DEF Typed, mqVars, owned, Local, At, Mine, SubPc, TopPc,
         DispatchPc, SecondPc, LaunchPc, ReleasePc, FreePc, OtherPc
  <2>6. Plain(w) /\ \A u \in Thread : u # w => SameHands(u)
      BY <1>0, <2>1 DEF Typed, mqVars, owned, SameHands, Plain
  <2>7. BoxInv' /\ Distinct(Q')
      BY <1>0, <2>1, <2>6, BoxesKept DEF Boxes, mqVars, owned, ctxVars
  <2> QED BY <1>0, <2>1, <2>3, <2>4, <2>5, <2>6, <2>7, Assemble DEF mqVars
<1> QED BY <1>1, <1>3, <1>4, <1>5, <1>6

\* A worker that takes a mailbox out of the global queue.
LEMMA TakingKeeps ==
    ASSUME Inv, NEW w \in Worker, Q # <<>>, NextQueue(w) \/ (After(w) /\ left[w] = 0)
    PROVE  Inv'
<1>0. /\ w \in Thread /\ Local(w) /\ Typed /\ RefInv /\ BoxInv /\ Distinct(Q)
      /\ Nil \notin Svc /\ Timer \notin Worker /\ Socket \notin Worker
    BY CoreAssumption DEF Inv, Locals, Thread
<1>1. PICK s \in Svc : s = Head(Q)
    BY <1>0, HeadPlaces DEF Typed
<1>2. CASE NextQueue(w)
  <2>1. /\ pc[w] \in {"pop", "next"} /\ Q' = Tail(Q) /\ q' = [q EXCEPT ![w] = s]
        /\ pc' = [pc EXCEPT ![w] = IF pc[w] = "pop" THEN "grab" ELSE "loop"]
        /\ UNCHANGED <<ctxVars, mqs, queue, in_global, release, ret, nq, refs>>
      BY <1>1, <1>2 DEF NextQueue, Goto
  <2>2. q[w] = Nil /\ nq[w] = Nil
      BY <1>0, <2>1 DEF Local, At, SubPc, FreePc, SecondPc, ReleasePc
  <2>3. OthersOwn(w, s) /\ Owns(w, s)'
    <3>1. /\ q'[w] = s /\ nq'[w] = Nil
          /\ \A u \in Thread : u # w => q'[u] = q[u] /\ nq'[u] = nq[u]
        BY <1>0, <2>1, <2>2 DEF Typed
    <3>2. \A x \in Svc : x # s => (q'[w] = x \/ nq'[w] = x <=> q[w] = x \/ nq[w] = x)
        BY ONLY <1>0, <1>1, <2>2, <3>1
    <3> QED BY ONLY <1>0, <1>1, <2>2, <3>1, <3>2, OwnChange
  <2>4. Takes(w, s)
      BY <1>1, <2>1, <2>3 DEF Takes, ctxVars
  <2>p. Plain(w) /\ \A u \in Thread : u # w => SameHands(u)
      BY <1>0, <2>1 DEF Typed, refs, SameHands, Plain
  <2>5. BoxInv' /\ Distinct(Q') /\ Q' \in Seq(Svc)
      BY <1>0, <1>1, <2>4, <2>p, TakesKeeps
  <2>6. Typed'
      BY <1>0, <1>1, <2>1, <2>5 DEF Typed, TopPc, ctxVars, refs
  <2>7. Local(w)'
      BY <1>0, <1>1, <2>1, <2>2 DEF Typed, refs, Local, At, Mine, SubPc, TopPc,
         DispatchPc, SecondPc, LaunchPc, ReleasePc, FreePc, OtherPc
  <2>9. RefInv'
      BY <1>0, <2>1, RefsKept
  <2> QED BY <1>0, <2>1, <2>5, <2>6, <2>7, <2>p, <2>9, Assemble
<1>3. CASE After(w) /\ left[w] = 0
  <2>1. /\ pc[w] = "after" /\ Q' = Tail(Q) /\ nq' = [nq EXCEPT ![w] = s]
        /\ pc' = [pc EXCEPT ![w] = "pushback"]
        /\ UNCHANGED <<ctxVars, mqs, queue, in_global, release, ret, q, refs>>
      BY <1>1, <1>3 DEF After, Goto, refs
  <2>2. nq[w] = Nil
      BY <1>0, <2>1 DEF Local, At, SubPc, SecondPc, ReleasePc
  <2>3. OthersOwn(w, s) /\ Owns(w, s)'
    <3>1. /\ q'[w] = q[w] /\ nq'[w] = s
          /\ \A u \in Thread : u # w => q'[u] = q[u] /\ nq'[u] = nq[u]
        BY <1>0, <2>1 DEF Typed
    <3>2. \A x \in Svc : x # s => (q'[w] = x \/ nq'[w] = x <=> q[w] = x \/ nq[w] = x)
        BY ONLY <1>0, <1>1, <2>2, <3>1
    <3> QED BY ONLY <1>0, <1>1, <2>2, <3>1, <3>2, OwnChange
  <2>4. Takes(w, s)
      BY <1>1, <2>1, <2>3 DEF Takes, ctxVars
  <2>p. Plain(w) /\ \A u \in Thread : u # w => SameHands(u)
      BY <1>0, <2>1 DEF Typed, refs, SameHands, Plain
  <2>5. BoxInv' /\ Distinct(Q') /\ Q' \in Seq(Svc) /\ ~Owns(w, s)
      BY <1>0, <1>1, <2>4, <2>p, TakesKeeps
  <2>6. Typed'
      BY <1>0, <1>1, <2>1, <2>5 DEF Typed, TopPc, SecondPc, ctxVars, refs
  <2>7. q[w] # s
      BY <1>0, <1>1, <2>5 DEF Owns
  <2>8. Local(w)'
      BY <1>0, <1>1, <2>1, <2>2, <2>7 DEF Typed, refs, Local, At, Mine, SubPc, TopPc,
         DispatchPc, SecondPc, LaunchPc, ReleasePc, FreePc, OtherPc
  <2>10. RefInv'
      BY <1>0, <2>1, RefsKept
  <2> QED BY <1>0, <2>1, <2>5, <2>6, <2>8, <2>p, <2>10, Assemble
<1> QED BY <1>2, <1>3

\* A worker that gives up the mailbox it found empty.
LEMMA PopEmptyKeeps ==
    ASSUME Inv, NEW w \in Worker, PopEmpty(w)
    PROVE  Inv'
<1>0. /\ w \in Thread /\ Local(w) /\ Typed /\ RefInv /\ BoxInv /\ Distinct(Q)
      /\ Nil \notin Svc /\ Timer \notin Worker /\ Socket \notin Worker
    BY CoreAssumption DEF Inv, Locals, Thread
<1>s. PICK s \in Svc : s = q[w]
    BY <1>0 DEF PopEmpty, Typed, Local, At, SubPc, DispatchPc
<1>1. /\ pc[w] \in {"first", "again"} /\ queue[s] = <<>>
      /\ in_global' = [in_global EXCEPT ![s] = FALSE] /\ q' = [q EXCEPT ![w] = Nil]
      /\ hold' = [hold EXCEPT ![w] = ctx[w]] /\ ctx' = [ctx EXCEPT ![w] = Nil]
      /\ pc' = [pc EXCEPT ![w] = "rel"] /\ ret' = [ret EXCEPT ![w] = "next"]
      /\ UNCHANGED <<ctxVars, mqs, queue, release, Q, nq, del>>
    BY <1>s DEF PopEmpty, ReleaseCtx, ToRelease, Goto
<1>2. s \in Svc /\ ctx[w] = s /\ nq[w] = Nil
    BY <1>0, <1>s, <1>1 DEF Typed, Local, At, SubPc, DispatchPc, SecondPc, ReleasePc
<1>3. Passes(w, s)
    BY <1>0, <1>1, <1>2 DEF Passes, Local, LaunchPc, ctxVars
<1>4. RefInv'
    BY <1>0, <1>2, <1>3, PassesKeeps
<1>5. Owns(w, s) /\ OthersOwn(w, s) /\ ~Owns(w, s)'
  <2>1. Owns(w, s) /\ Nil # s /\ q[w] = s
      BY <1>0, <1>s DEF Owns
  <2>2. /\ q'[w] = Nil /\ nq'[w] = Nil
        /\ \A u \in Thread : u # w => q'[u] = q[u] /\ nq'[u] = nq[u]
      BY <1>0, <1>1, <1>2 DEF Typed
  <2>3. \A x \in Svc : x # s => (q'[w] = x \/ nq'[w] = x <=> q[w] = x \/ nq[w] = x)
      BY ONLY <1>0, <1>2, <2>1, <2>2
  <2> QED BY ONLY <1>0, <1>2, <2>1, <2>2, <2>3, OwnChange
<1>6. ~release[s]
    BY <1>0, <1>2, Referred
<1>7. GivesUp(w, s)
    BY <1>1, <1>5, <1>6 DEF GivesUp, ctxVars
<1>p. Plain(w) /\ \A u \in Thread : u # w => SameHands(u)
    BY <1>0, <1>1 DEF Typed, SameHands, Plain
<1>8. BoxInv'
    BY <1>0, <1>2, <1>7, <1>p, GivesUpKeeps
<1>9. Typed'
    BY <1>0, <1>1, <1>2 DEF Typed, SubPc, TopPc, FreePc, ctxVars
<1>10. Local(w)'
    BY <1>0, <1>1, <1>2 DEF Typed, Local, At, Mine, SubPc, TopPc,
       DispatchPc, SecondPc, LaunchPc, ReleasePc, FreePc, OtherPc
<1> QED BY <1>0, <1>1, <1>4, <1>8, <1>9, <1>10, <1>p, Assemble

\* A worker that puts a mailbox into the global queue.
LEMMA PuttingKeeps ==
    ASSUME Inv, NEW w \in Worker,
           PushBack(w) \/ Publish(w) \/ (ReleaseQueue(w) /\ ~release[Mine(w)])
    PROVE  Inv'
<1>0. /\ w \in Thread /\ Local(w) /\ Typed /\ RefInv /\ BoxInv /\ Distinct(Q)
      /\ Nil \notin Svc /\ Timer \notin Worker /\ Socket \notin Worker
    BY CoreAssumption DEF Inv, Locals, Thread
<1>1. CASE PushBack(w)
  <2>s. PICK s \in Svc : s = q[w]
      BY <1>0, <1>1 DEF PushBack, Typed, Local, At, SubPc, SecondPc
  <2>1. /\ pc[w] = "pushback" /\ Q' = Append(Q, s)
        /\ q' = [q EXCEPT ![w] = nq[w]] /\ nq' = [nq EXCEPT ![w] = Nil]
        /\ hold' = [hold EXCEPT ![w] = ctx[w]] /\ ctx' = [ctx EXCEPT ![w] = Nil]
        /\ pc' = [pc EXCEPT ![w] = "rel"] /\ ret' = [ret EXCEPT ![w] = "loop"]
        /\ UNCHANGED <<ctxVars, mqs, queue, in_global, release, del>>
      BY <1>1, <2>s DEF PushBack, ReleaseCtx, ToRelease, Goto
  <2>2. s \in Svc /\ ctx[w] = s /\ nq[w] # s /\ nq[w] \in Svc
      BY <1>0, <2>s, <2>1 DEF Typed, Local, At, SubPc, DispatchPc, SecondPc, ReleasePc
  <2>3. Passes(w, s)
      BY <1>0, <2>1, <2>2 DEF Passes, Local, LaunchPc, ctxVars
  <2>4. RefInv'
      BY <1>0, <2>2, <2>3, PassesKeeps
  <2>5. Owns(w, s) /\ OthersOwn(w, s) /\ ~Owns(w, s)'
    <3>1. Owns(w, s) /\ Nil # s /\ q[w] = s
        BY <1>0, <2>s DEF Owns
    <3>2. /\ q'[w] = nq[w] /\ nq'[w] = Nil
          /\ \A u \in Thread : u # w => q'[u] = q[u] /\ nq'[u] = nq[u]
        BY <1>0, <2>1 DEF Typed
    <3>3. \A x \in Svc : x # s => (q'[w] = x \/ nq'[w] = x <=> q[w] = x \/ nq[w] = x)
        BY ONLY <1>0, <2>2, <3>1, <3>2
    <3> QED BY ONLY <1>0, <2>2, <3>1, <3>2, <3>3, OwnChange
  <2>6. PutsBack(w, s)
      BY <2>1, <2>5 DEF PutsBack, ctxVars
  <2>p. Plain(w) /\ \A u \in Thread : u # w => SameHands(u)
      BY <1>0, <2>1 DEF Typed, SameHands, Plain
  <2>7. BoxInv' /\ Distinct(Q') /\ Q' \in Seq(Svc)
      BY <1>0, <2>2, <2>6, <2>p, PutsBackKeeps
  <2>8. Typed'
      BY <1>0, <2>1, <2>2, <2>7 DEF Typed, SubPc, TopPc, ctxVars
  <2>9. Local(w)'
      BY <1>0, <2>1, <2>2 DEF Typed, Local, At, Mine, SubPc, TopPc,
         DispatchPc, SecondPc, LaunchPc, ReleasePc, FreePc, OtherPc
  <2> QED BY <1>0, <2>1, <2>4, <2>7, <2>8, <2>9, <2>p, Assemble
<1>2. CASE Publish(w) \/ (ReleaseQueue(w) /\ ~release[Mine(w)])
  <2>s. PICK s \in Svc : s = Mine(w)
      BY <1>0, <1>2 DEF Publish, ReleaseQueue, Typed, Local, At, Mine, SubPc, SecondPc, ReleasePc
  <2>1. /\ Q' = Append(Q, s)
        /\ UNCHANGED <<ctxVars, mqs, queue, in_global, release, ret, refs>>
        /\ \/ /\ pc[w] \in {"publish", "relq"} /\ nq[w] # Nil
              /\ nq' = [nq EXCEPT ![w] = Nil]
              /\ pc' = [pc EXCEPT ![w] = "after"] /\ UNCHANGED q
           \/ /\ pc[w] = "relq" /\ nq[w] = Nil
              /\ q' = [q EXCEPT ![w] = Nil]
              /\ pc' = [pc EXCEPT ![w] = "next"] /\ UNCHANGED nq
    <3>1. pc[w] = "publish" => nq[w] # Nil
        BY <1>0 DEF Local, At, SubPc, SecondPc
    <3>2. CASE Publish(w)
        BY <2>s, <3>1, <3>2 DEF Publish, Goto, Mine
    <3>3. CASE ReleaseQueue(w) /\ ~release[Mine(w)]
        BY <2>s, <3>3 DEF ReleaseQueue, Disown, Goto, Mine
    <3> QED BY <1>2, <3>2, <3>3
  <2>2. s \in Svc /\ q[w] \in Svc /\ (nq[w] # Nil => q[w] # nq[w])
      BY <1>0, <2>1 DEF Typed, Local, At, Mine, SubPc, DispatchPc, SecondPc, ReleasePc
  <2>3. s = (IF nq[w] # Nil THEN nq[w] ELSE q[w])
      BY <2>s DEF Mine
  <2>4. Owns(w, s) /\ OthersOwn(w, s) /\ ~Owns(w, s)'
    <3>1. Owns(w, s) /\ Nil # s
        BY <1>0, <2>2, <2>3 DEF Owns
    <3>2. /\ nq'[w] = Nil /\ q'[w] = (IF nq[w] # Nil THEN q[w] ELSE Nil)
          /\ \A u \in Thread : u # w => q'[u] = q[u] /\ nq'[u] = nq[u]
        BY <1>0, <2>1 DEF Typed
    <3>3. \A x \in Svc : x # s => (q'[w] = x \/ nq'[w] = x <=> q[w] = x \/ nq[w] = x)
        BY ONLY <1>0, <2>2, <2>3, <3>1, <3>2
    <3> QED BY ONLY <1>0, <2>2, <2>3, <3>1, <3>2, <3>3, OwnChange
  <2>5. PutsBack(w, s)
      BY <2>1, <2>4 DEF PutsBack, ctxVars
  <2>p. Plain(w) /\ \A u \in Thread : u # w => SameHands(u)
      BY <1>0, <2>1 DEF Typed, refs, SameHands, Plain
  <2>6. BoxInv' /\ Distinct(Q') /\ Q' \in Seq(Svc)
      BY <1>0, <2>2, <2>5, <2>p, PutsBackKeeps
  <2>7. RefInv'
      BY <1>0, <2>1, RefsKept
  <2>8. Typed'
      BY <1>0, <2>1, <2>6 DEF Typed, TopPc, DispatchPc, FreePc, ctxVars, refs
  <2>9. Local(w)'
      BY <1>0, <2>1, <2>2 DEF Typed, refs, Local, At, Mine, SubPc, TopPc,
         DispatchPc, SecondPc, LaunchPc, ReleasePc, FreePc, OtherPc
  <2> QED BY <1>0, <2>1, <2>6, <2>7, <2>8, <2>9, <2>p, Assemble
<1> QED BY <1>1, <1>2

\* A worker that frees the mailbox it emptied.
LEMMA FreeQueueKeeps ==
    ASSUME Inv, NEW w \in Worker, FreeQueue(w)
    PROVE  Inv'
<1>0. /\ w \in Thread /\ Local(w) /\ Typed /\ RefInv /\ BoxInv /\ Distinct(Q)
      /\ Nil \notin Svc /\ Timer \notin Worker /\ Socket \notin Worker
    BY CoreAssumption DEF Inv, Locals, Thread
<1>s. PICK s \in Svc : s = Mine(w)
    BY <1>0 DEF FreeQueue, Typed, Local, At, Mine, SubPc, ReleasePc
<1>1. /\ pc[w] = "drop" /\ queue[s] = <<>>
      /\ in_global' = [in_global EXCEPT ![s] = FALSE]
      /\ mqs' = [mqs EXCEPT ![s] = "freed"]
      /\ UNCHANGED <<ctxVars, queue, release, Q, ret, refs>>
      /\ \/ /\ nq[w] # Nil /\ nq' = [nq EXCEPT ![w] = Nil]
            /\ pc' = [pc EXCEPT ![w] = "after"] /\ UNCHANGED q
         \/ /\ nq[w] = Nil /\ q' = [q EXCEPT ![w] = Nil]
            /\ pc' = [pc EXCEPT ![w] = "next"] /\ UNCHANGED nq
    BY <1>s DEF FreeQueue, Disown, Goto
<1>2. /\ s \in Svc /\ q[w] \in Svc /\ (nq[w] # Nil => q[w] # nq[w]) /\ release[s]
      /\ s = (IF nq[w] # Nil THEN nq[w] ELSE q[w])
    BY <1>0, <1>s, <1>1 DEF Typed, Local, At, Mine, SubPc, DispatchPc, SecondPc, ReleasePc
<1>3. Owns(w, s) /\ OthersOwn(w, s) /\ ~Owns(w, s)'
  <2>1. Owns(w, s) /\ Nil # s
      BY <1>0, <1>2 DEF Owns
  <2>2. /\ nq'[w] = Nil /\ q'[w] = (IF nq[w] # Nil THEN q[w] ELSE Nil)
        /\ \A u \in Thread : u # w => q'[u] = q[u] /\ nq'[u] = nq[u]
      BY <1>0, <1>1 DEF Typed
  <2>3. \A x \in Svc : x # s => (q'[w] = x \/ nq'[w] = x <=> q[w] = x \/ nq[w] = x)
      BY ONLY <1>0, <1>2, <2>1, <2>2
  <2> QED BY ONLY <1>0, <1>2, <2>1, <2>2, <2>3, OwnChange
<1>5. GivesUp(w, s)
    BY <1>1, <1>2, <1>3 DEF GivesUp, ctxVars
<1>p. Plain(w) /\ \A u \in Thread : u # w => SameHands(u)
    BY <1>0, <1>1 DEF Typed, refs, SameHands, Plain
<1>6. BoxInv'
    BY <1>0, <1>2, <1>5, <1>p, GivesUpKeeps
<1>7. RefInv'
    BY <1>0, <1>1, RefsKept
<1>8. Typed'
    BY <1>0, <1>1, <1>2 DEF Typed, TopPc, DispatchPc, FreePc, ctxVars, refs
<1>9. Local(w)'
    BY <1>0, <1>1, <1>2 DEF Typed, refs, Local, At, Mine, SubPc, TopPc,
       DispatchPc, SecondPc, LaunchPc, ReleasePc, FreePc, OtherPc
<1> QED BY <1>0, <1>1, <1>6, <1>7, <1>8, <1>9, <1>p, Assemble

\* A worker that launches a service.
LEMMA LaunchKeeps ==
    ASSUME Inv, NEW w \in Worker, NEW s \in Svc, CbLaunches(w, s)
    PROVE  Inv'
<1>0. /\ w \in Thread /\ Local(w) /\ Typed /\ RefInv /\ BoxInv /\ Distinct(Q)
      /\ Nil \notin Svc /\ Timer \notin Worker /\ Socket \notin Worker
    BY CoreAssumption DEF Inv, Locals, Thread
<1>1. /\ pc[w] = "cb" /\ mqs[s] = "none" /\ ref[s] = 0
      /\ table' = table \cup {s} /\ alive' = alive \cup {s}
      /\ ref' = [ref EXCEPT ![s] = 2] /\ hold' = [hold EXCEPT ![w] = s]
      /\ pc' = [pc EXCEPT ![w] = "create"]
      /\ UNCHANGED <<mqVars, owned, ret, ctx, del>>
    BY DEF CbLaunches, Callback, Goto, mqVars, owned
<1>2. hold[w] = Nil /\ nq[w] = Nil
    BY <1>0, <1>1 DEF Local, At, SubPc, SecondPc, LaunchPc, ReleasePc
<1>3. /\ s \notin alive
      /\ \A u \in Thread : hold[u] # s
  <2>1. \A u \in Thread : hold[u] # s
      BY <1>0, <1>1, Referred
  <2>2. BoxOf(s)
      BY <1>0 DEF BoxInv
  <2> QED BY <1>1, <2>1, <2>2 DEF BoxOf, Creates
<1>4. RefInv'
    BY <1>0, <1>1, <1>2, <1>3, LaunchKeepsRefs
<1>5. BoxInv'
    BY <1>0, <1>1, <1>2, <1>3, LaunchKeepsBoxes DEF Goto
<1>6. Typed'
    BY <1>0, <1>1 DEF Typed, TopPc, DispatchPc, mqVars, owned
<1>7. Local(w)'
    BY <1>0, <1>1, <1>2 DEF Typed, mqVars, owned, Local, At, Mine, SubPc, TopPc,
       DispatchPc, SecondPc, LaunchPc, ReleasePc, FreePc, OtherPc
<1>8. \A u \in Thread : u # w => SameHands(u)
    BY <1>0, <1>1 DEF Typed, owned, SameHands
<1> QED BY <1>0, <1>1, <1>4, <1>5, <1>6, <1>7, <1>8, Assemble DEF mqVars

\* A worker that creates the mailbox of the service it launches.
LEMMA CreateKeeps ==
    ASSUME Inv, NEW w \in Worker, Mq_create(w)
    PROVE  Inv'
<1>0. /\ w \in Thread /\ Local(w) /\ Typed /\ RefInv /\ BoxInv /\ Distinct(Q)
      /\ Nil \notin Svc /\ Timer \notin Worker /\ Socket \notin Worker
    BY CoreAssumption DEF Inv, Locals, Thread
<1>s. PICK s \in Svc : s = hold[w]
    BY <1>0 DEF Mq_create, Typed, Local, LaunchPc
<1>1. /\ pc[w] = "create" /\ hold[w] = s
      /\ mqs' = [mqs EXCEPT ![s] = "live"] /\ in_global' = [in_global EXCEPT ![s] = TRUE]
      /\ nq' = [nq EXCEPT ![w] = s] /\ pc' = [pc EXCEPT ![w] = "count"]
      /\ UNCHANGED <<ctxVars, queue, release, Q, ret, q, refs>>
    BY <1>s DEF Mq_create, Goto
<1>2. nq[w] = Nil
    BY <1>0, <1>1 DEF Local, At, SubPc, SecondPc, ReleasePc
<1>3. q[w] # s
  <2>1. ~Owns(w, s)
      BY <1>0, <1>1 DEF BoxInv, BoxOf, Creates
  <2> QED BY <1>0, <2>1 DEF Owns
<1>4. RefInv'
    BY <1>0, <1>1, RefsKept
<1>5. BoxInv'
    BY <1>0, <1>1, <1>2, CreateKeepsBoxes DEF Goto, ctxVars, refs, Creates
<1>6. Typed'
    BY <1>0, <1>1 DEF Typed, TopPc, SecondPc, ctxVars, refs
<1>7. Local(w)'
    BY <1>0, <1>1, <1>2, <1>3 DEF Typed, refs, Local, At, Mine, SubPc, TopPc,
       DispatchPc, SecondPc, LaunchPc, ReleasePc, FreePc, OtherPc
<1>8. \A u \in Thread : u # w => SameHands(u)
    BY <1>0, <1>1 DEF Typed, refs, SameHands
<1> QED BY <1>0, <1>1, <1>4, <1>5, <1>6, <1>7, <1>8, Assemble

-----------------------------------------------------------------------------

\* skynet_start begins with one service, in the global queue.
LEMMA InitInv == Init => Inv
<1> SUFFICES ASSUME Init PROVE Inv
    OBVIOUS
<1>0. First \in Svc /\ Nil \notin Svc /\ Timer \notin Worker /\ Socket \notin Worker /\ Timer # Socket
    BY CoreAssumption
<1>1. Typed
    BY <1>0 DEF Init, Typed, TopPc, OtherPc, Thread
<1>2. Locals
    BY <1>0 DEF Init, Locals, Local, At, Mine, Thread, SubPc, TopPc, DispatchPc, SecondPc, LaunchPc,
       ReleasePc, FreePc, OtherPc
<1>3. RefInv
  <2> SUFFICES ASSUME NEW s \in Svc PROVE RefOf(s)
      BY DEF RefInv
  <2>1. \A t \in Thread : ctx[t] # s /\ hold[t] # s /\ del[t] # s
      BY <1>0 DEF Init
  <2>2. Count(ctx, s) = 0 /\ Count(hold, s) = 0
      BY <1>1, <2>1, CountZero DEF Typed
  <2> QED BY <2>1, <2>2 DEF RefOf, Init
<1>4. BoxInv
  <2> SUFFICES ASSUME NEW s \in Svc PROVE BoxOf(s)
      BY DEF BoxInv
  <2>1. \A t \in Thread : ~Owns(t, s)
      BY DEF Owns, Init
  <2>2. Has(Q, s) <=> s = First
      BY DEF Has, Init
  <2> QED BY <2>1, <2>2 DEF BoxOf, Init, Creates, Frees
<1>5. Distinct(Q)
    BY DEF Distinct, Init
<1> QED BY <1>1, <1>2, <1>3, <1>4, <1>5 DEF Inv

\* Every step keeps the invariant.
LEMMA NextInv == Inv /\ [Next]_vars => Inv'
<1> SUFFICES ASSUME Inv, [Next]_vars PROVE Inv'
    OBVIOUS
<1>0. Timer \in Thread /\ Socket \in Thread /\ Worker \subseteq Thread /\ Source \subseteq Thread
    BY CoreAssumption DEF Thread
<1>1. ASSUME NEW w \in Worker, WorkerRuns(w)
      PROVE  Inv'
  <2>0. After(w) => left[w] > 0 \/ left[w] = 0
      BY DEF After
  <2>1. CASE Common(w)
      BY <1>0, <2>1, CommonKeeps
  <2>2. CASE \/ Loop(w) \/ Length(w) \/ CbReturns(w) \/ CbAborts(w)
             \/ Context_inc(w) \/ InitEnds(w)
             \/ \E d \in Svc : CbSends(w, d)
             \/ SleepLocks(w) \/ SleepWaits(w) \/ SleepEnds(w)
      BY <1>0, <2>2, WorkerQuiet, QuietKeeps
  <2>3. CASE Pop(w) \/ DropMessage(w)
      BY <1>0, <2>3, BranchQuiet, QuietKeeps
  <2>4. CASE NextQueue(w)
      BY <1>0, <2>4, BranchQuiet, QuietKeeps, TakingKeeps
  <2>5. CASE Grab(w)
      BY <1>0, <2>5, BranchQuiet, QuietKeeps, WorkerRefsKeep
  <2>6. CASE PopEmpty(w)
      BY <2>6, PopEmptyKeeps
  <2>7. CASE Abort(w)
      BY <1>0, <2>7, BranchQuiet, QuietKeeps, WorkerRefsKeep
  <2>8. CASE After(w)
      BY <1>0, <2>0, <2>8, BranchQuiet, QuietKeeps, WorkerRefsKeep, TakingKeeps
  <2>9. CASE PushBack(w) \/ Publish(w)
      BY <2>9, PuttingKeeps
  <2>10. CASE ReleaseQueue(w)
      BY <1>0, <2>10, BranchQuiet, QuietKeeps, PuttingKeeps
  <2>11. CASE FreeQueue(w)
      BY <2>11, FreeQueueKeeps
  <2>12. CASE \E d \in Svc : CbKills(w, d)
      BY <1>0, <2>12, BranchQuiet, QuietKeeps, WorkerRefsKeep
  <2>13. CASE \E d \in Svc : CbLaunches(w, d)
      BY <2>13, LaunchKeeps
  <2>14. CASE Unregister(w)
      BY <1>0, <2>14, BranchQuiet, QuietKeeps, WorkerRefsKeep
  <2>15. CASE Mq_create(w)
      BY <2>15, CreateKeeps
  <2> QED BY <1>1, <2>1, <2>2, <2>3, <2>4, <2>5, <2>6, <2>7, <2>8, <2>9, <2>10, <2>11, <2>12,
             <2>13, <2>14, <2>15 DEF WorkerRuns
<1>2. CASE TimerRuns \/ SocketRuns
    BY <1>0, <1>2, CommonKeeps, WakingKeeps DEF TimerRuns, SocketRuns
<1>3. CASE \E t \in Source, d \in Svc : Event(t, d)
    BY <1>0, <1>3, SenderQuiet, QuietKeeps
<1>4. CASE UNCHANGED vars
  <2>1. UNCHANGED <<ctxVars, mqVars, pc, ret, owned, refs>>
      BY <1>4 DEF vars
  <2>2. Quiet /\ Moves(Timer)
    <3>1. Local(Timer)' /\ Typed
      <4>1. SameHands(Timer)
          BY <2>1 DEF SameHands, owned, refs
      <4> QED BY <1>0, <2>1, <4>1, SameHandsKeeps DEF Inv, Locals, mqVars
    <3> QED BY <1>0, <2>1, <3>1 DEF Quiet, Moves, Typed, mqVars
  <2> QED BY <1>0, <2>2, QuietKeeps
<1> QED BY <1>1, <1>2, <1>3, <1>4 DEF Next

\* The invariant holds in every reachable state.
LEMMA Invariance == Spec => []Inv
BY InitInv, NextInv, PTL DEF Spec

\* A mailbox is in the global queue once or with one thread: for any number of services
\* and workers, no two workers run the callback of a service at the same time.
THEOREM OneOwnerHolds == Spec => []OneOwner
<1>1. Inv => OneOwner
    BY CoreAssumption DEF Inv, Locals, Local, BoxInv, BoxOf, Distinct, Has, InQ, OneOwner, Owns
<1> QED BY <1>1, Invariance, PTL

\* A mailbox with messages or with a release mark is never out of the workers' reach.
THEOREM NeverStrandedHolds == Spec => []NeverStranded
<1>1. Inv => NeverStranded
    BY DEF Inv, BoxInv, BoxOf, Has, InQ, NeverStranded
<1> QED BY <1>1, Invariance, PTL

\* A context is alive while anything refers to it, and its mailbox is not freed while a
\* thread uses it or before it is marked.
THEOREM HeldAliveHolds == Spec => []HeldAlive
<1>1. Inv => HeldAlive
  <2> SUFFICES ASSUME Inv PROVE HeldAlive
      OBVIOUS
  <2>0. Typed /\ Locals /\ RefInv /\ BoxInv
      BY DEF Inv
  <2>1. table \subseteq alive
      BY <2>0 DEF Typed, RefInv, RefOf
  <2>2. ASSUME NEW t \in Thread, ctx[t] # Nil
        PROVE  ctx[t] \in alive /\ mqs[ctx[t]] = "live"
    <3>1. ctx[t] \in Svc /\ Owns(t, ctx[t])
        BY <2>0, <2>2 DEF Typed, Locals, Local, Owns
    <3> QED BY <2>0, <3>1, Referred DEF BoxInv, BoxOf
  <2>3. ASSUME NEW t \in Thread, hold[t] # Nil
        PROVE  hold[t] \in alive /\ mqs[hold[t]] # "freed"
    <3>1. hold[t] \in Svc
        BY <2>0, <2>3 DEF Typed
    <3> QED BY <2>0, <3>1, Referred
  <2>4. ASSUME NEW t \in Thread, pc[t] = "delete"
        PROVE  mqs[del[t]] = "live"
    <3>1. del[t] \in Svc
        BY <2>0, <2>4 DEF Typed, Locals, Local
    <3> QED BY <2>0, <2>4, <3>1, ToDelete
  <2> QED BY <2>1, <2>2, <2>3, <2>4 DEF HeldAlive
<1> QED BY <1>1, Invariance, PTL
=============================================================================
