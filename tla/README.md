# Verification of the bee cluster

TLA+ models, TLC runs and TLAPS proofs for the cluster layer of this repository (the
services and the library in `lua/BeeCluster/`, the wire format in
`cpp/beecluster/lua-beecluster.c`), for the database pool in `lua/lpersistence/`, and
for the core of the skynet process all of them run in (`3rd/skynet/skynet-src/`):
message dispatch, the handle table, the timer and the socket server. `PROJECT.json`
lists the runs, the mutants, the hazards, the theorems, and for every definition the
source lines it models.

## Inventory

| component | state it keeps | operations | hard part |
|---|---|---|---|
| `bee_clusterd.lua`, connections | `node_address`, `node_sender`, `node_sender_closed`, `node_channel`, `connecting`, `config.nowaiting` | `sender`, `senders`, `reload`, the forks of a reload | coroutines that yield in `newservice` and `changenode` while others ask for the node and the config changes |
| `bee_clusterd.lua`, names and agents | `register_name` (both directions in one table), `cluster_agent` | `register`, `unregister`, `queryname`, `socket` | a connection that closes while its agent is launched |
| `bee_clusterd.lua`, `listen`, `proxy` | `proxy` | start a gate, start a proxy | double launch of a proxy |
| `bee_clustersender.lua` | its channel, `session` | `req`, `push`, `changenode` | sessions of large pushes |
| `bee_clusteragent.lua` | `register_name` (cache), `inquery_name`, `large_request` | client requests, `namechange`, `exit` | stale cache, merged queries, parts among small frames |
| `bee_cluster.lua` | `sender`, `task_queue` | `call`, `query`, `send`, ... | order through the queue, handshake between coroutines, failing calls |
| `lua-beecluster.c` | none | pack/unpack of requests, pushes, responses; `append`, `concat` | sizes at the part boundary, session wrap |
| `skynet.lua` (scheduler) | `wakeup_session`, `sleep_session`, `fork_queue` | `wait`, `wakeup`, `fork`, `call`, message dispatch | a slice that raises does not resume the woken coroutines |
| `socketchannel.lua`, `gate.lua` | sockets, waiting threads, connections | `request`, `dispatch_by_session`, `forward`, ... | reconnection, priorities |
| `mysqlpool.lua`, `memcache.lua` | `pool`, `pool_reconn_lock`, `pool_reconn_pending` (a `memcache` per slot) | `execute`, `execute_send`, `reconn`, `start`, `stop` | a slot repaired by one coroutine while others use it, wait for it or stop the pool |
| `lpersistence.lua` | none | starts and registers the pool | none |
| `skynet_mq.c`, `skynet_server.c`, `skynet_start.c` | mailboxes and the queue of mailboxes, contexts with their reference counts, sleeping workers | push, pop, dispatch, launch, exit, kill, abort, sleep, wake up, quit | worker threads that empty a mailbox while it is filled, free a service while it is sent to, or miss a signal |
| `skynet_handle.c`, `rwlock.h` | the table of handles, the sorted names, the lock | `register`, `retire`, `grab`, `retireall`, `findname`, `namehandle` | a home-made lock, rehashing under a sweep, handles assigned outside the lock |
| `skynet_timer.c` | the wheel of lists, the time | `timeout`, `updatetime` | cascades between levels, a word that wraps |
| `socket_server.c` | slots, write lists of two priorities, the command pipe, a batch of events | connect, listen, accept, start, send, close, shutdown | partial writes, commands between events, reuse of slots |
| `cpp/common` (Service, RPC, Timer, Dispatcher, Pack) | RPC sessions, timers | request/response, timers | timers that stop themselves, unanswered sessions |
| lobby, activity_master, shop, log | little | request handlers | routing of activities |

A game service calls `bee_cluster.call(node, address, ...)`. The library asks the
clusterd of its node for the *sender* of the remote node, which clusterd launches
and connects on demand. The sender writes frames to the *gate* of the remote node;
the remote clusterd gives every connection an *agent*, the agent resolves names at
its clusterd, hands the message to the service, and writes the response back.

What makes the parts correct, in short: one opener and one sender per node, and the
sender follows the config; nobody who waits is forgotten; operations reach the
sender in the order they were made; a name leads to the address that leads back to
it, and caches of it are refreshed; no agent outlives its connection; a message is
delivered whole, once, to the caller or service it is for. Of the process below them:
a service runs on one thread at a time and is freed when nobody refers to it; an
accepted message is delivered or its sender told; the handle table behaves as if every
call were one step; a timeout fires in its tick; a package is not torn apart.

## Modules

**`BeeClusterd`**: `open_channel`, `loadconfig`, `command.sender`, `command.senders`
and `command.reload`. The scheduler of skynet is part of it: `running` is the
coroutine that runs, `wakeup` the table `wakeup_session`, `draining` says that
`suspend` is resuming woken coroutines. A coroutine's position in `open_channel` is
`pc`:

| `pc` | line | left by |
|---|---|---|
| `enter` | 17 | `Enter`: wait behind an open (`wait`), wait for an address (`namequery`), or `open` |
| `open` | 41 | `Open`: launch a sender, call `changenode`, or nothing to do |
| `launch` | 46 | `LaunchReply`, or `LaunchFails` for an address without host and port |
| `call`, `reply` | 56, 72 | `Changenode` (the sender runs it), `ChangenodeReply` |
| `finish` | 80 | `Finish`: release the waiters, start over if the address changed, return or raise |
| `wait`, `namequery` | 23, 38 | `Wake` |

`Reload` models `loadconfig` as one step, because it does not yield, with the order
of `pairs()` as a choice (`early`: the names visited before the option
`__nowaiting`); `ReloadFails` is the one that stops at the assertion of line 110.
The config read at the start (`Init`) may give any address to any node.

**`ClusterNames`**: `register_name` of clusterd as two functions (`name_addr`,
`addr_name`), `command.socket`, and the agents. `box` is what clusterd sends to an
agent, in order: `namechange`, `exit`, and answers of `queryname`. `inquery` is
`inquery_name` together with whether the table the answer will be stored in is still
the agent's current one. `same` says whether a request holds that table.

**`BeeCluster`**: the client library in one service towards one node. An operation
is numbered when it is made. `slice` is what the service runs: a handler, the
coroutine `request_sender` (`confirm`), another woken coroutine (`other`), or the
scheduler resuming woken coroutines (`drain`).

**`ClusterCodec`**: the functions of `lua-beecluster.c` on frames; a message body is
an interval of the bytes of an operation. **`ClusterWire`** composes them: one
connection with `command.req`, `command.push`, the agent's `dispatch_request` and
the channel's `dispatch_by_session`. Frames written with `socket.lwrite` go only
when there are none written with `socket.write`, and a frame that has been begun is
finished first: `SocketServer` shows that of the code below. A message that has come whole
(`taken`) has a coroutine in the agent, whose place in `register_name` and
`dispatch_request` is `at`: it asks clusterd for the address (`ask`) or waits for the one
that does (`wait`), is woken and resumed in any order, and hands the message over
(`HandOver`) or learns that nobody has the name. `asked` keeps whose question it waited for.

**`MysqlPool`**: statements, the repair of a slot (`gtables.reconn`) and `CMD.stop`. A
connection is the latest one of its slot (`obj`), in the pool or not (`inpool`):
`live`, `closing` once its channel is closed, `dead` once `disconnect` has removed its
methods. `mine` says whether the `db` a coroutine holds is that connection. The channel
of a statement, or `index`, may lead to any slot; `Uses` restricts it for the run. A
message is handled to the end of its slice, and then the woken coroutines are resumed one
after the other, in any order (`draining`); a slice that raises leaves them for the end of
a later one. `stray` marks a slot for which that, or a connection lost at once, has upset
the order. A coroutine's position is `pc`:

| `pc` | line | left by |
|---|---|---|
| `query` | 143 | `Reported`, then `Answered`, or `QueryFailed`, which runs `reconn` to its first yield |
| `wait` | 47 | `WaitEnds`: line 49 on, without another look at the lock |
| `connect` | 71 | `ConnectOk`, `ConnectFails` |
| `closing` | 81 | `SocketClosed`, `DisconnectEnds` (also in `CMD.stop`, line 201: `StopGoesOn`) |
| `charset` | 82 | `CharsetOk`, `CharsetFails` |

The initial state is the pool after `CMD.start`: `lpersistence.lua` waits for it and
does not register a pool whose start raised. The connections are external; a
statement is answered or fails at any time, or never ends. What comes of the second
query (line 151) does not touch the pool. One `CMD.stop` runs at a time.

**`Memcache`**: the methods of `memcache.lua` on its two counters and its table.
**`Deque`** is what its users rely on, an abstract double-ended queue; `Contents` maps
one to the other. `MysqlPool` uses sequences for `pool_reconn_pending` on that ground.

**`SkynetCore`**: `skynet_context_message_dispatch` and `thread_worker` as they run on
several threads, with the timer and the socket thread, which send and wake. A step is the
region of one spin lock or one atomic instruction. `pc` is the place of a thread; `send`,
`push`, `rel`, `delete` and `free` are the inner steps of `skynet_context_push` and
`skynet_context_release`, which go on at `ret`; `create` and `count` are those of
`skynet_context_new` between the registration of the handle and the init function. A
thread's hands are explicit: the mailbox it works on (`q`), a second one (`nq`: the next
to work on, or that of a launch), and the contexts it refers to (`ctx`, `hold`) or deletes
(`del`). A callback makes at most one call: a send, `EXIT`/`KILL`, `ABORT` or `LAUNCH`. A
mailbox is a sequence (its ring buffer and the overload warning are left out). Handles are
not reused. A mailbox is marked (line 203) before its context is freed (line 205), and
another worker may free it in between. A handle leads to its context (line 144) before the
mailbox exists (line 145): a message sent to it in between goes through a pointer that is
not set. `SendLost` takes the message as gone; what else such a push may touch is not
modelled.

**`HandleTable`**: `skynet_handle.c` with every access to `rwlock.h` a step of its own,
sequentially consistent as the `__sync` built-ins make it. The two assignments at the end
of a rehash are two steps because `retireall` reads `slot_size` without the lock, and
`ctx->handle = skynet_handle_register(ctx)` is one after the lock is released.
**`Directory`** is what the callers rely on: a function from handles to contexts, one from
names to handles, and calls with their arguments (`op`, `arg`) that take effect in the
step in which they return: a grab answers for its own handle, and `retire` removes only
that one. `retireall` removes handles one at a time, any of them, as launches go on
meanwhile. The refinement mapping counts a context as registered, and the launch as
returned, from the moment the context has its handle. The two loops over the array of
names are recursive functions, of the interval that is left to search (`Between`) and of
the entries that were looked at (`Kept`).

**`TimerWheel`**: the lists of the wheel and the thread that moves it. The numbers of
lists are constants; the word wraps where the coarsest level does, as in the code. `due`
counts down the ticks a timeout has to wait, and is what the wheel is compared with.
The delay is below half of the word: it is a positive `int`, and the word is unsigned.

**`SocketServer`**: `socket_server_poll` for TCP. A step of the socket thread is one
command or one event, or `clear_closed_event` after the command that closed a socket
(`closing`, `Clear`), with what the kernel answers as a choice: `write` takes `k` whole
buffers and `n` bytes of the next one (`Answers`), or fails; a connection is made at
once, later or not at all. `ev` is the rest of the batch `epoll_wait` returned. After a
batch has come (`Wait`), its first event is looked at before any command unless it is the
one of the pipe (`first`); then, with `checkctrl`, the pipe is emptied, and then come the
other events. An event whose socket a command has closed is void (`Skip`). `wire` records
what was written to the socket in a slot. The services act between any two of these steps.
One that opens a socket takes two: the slot is claimed (`Reserve`, the swap of line 255),
and then has its new id and its first command (`Open`, line 256); `claim` is the id a slot
is waiting for. The increment of `alloc_id` (line 249) is in the first, so ids are given
out in their order. Behaviours end with the two races that come of this (`raced`):

- The slot of a socket that was just closed (line 351) is claimed before
  `clear_closed_event` (line 1209) looks for its event. Line 1192 does not find the slot
  free, the event stays, and is taken for one of the new socket.
- A package or a close for the old id is taken by the socket thread when the slot is
  claimed and has not got its new id. Nothing refuses it: the package goes into the lists
  of the new socket, which fails the assertion of `check_wb_list` in `new_fd`, and the
  close the one of `force_close` (line 340).

`MC...` modules only add symmetry sets and constant functions. `...Proofs` modules hold
the theorems.

## Runs

| run | instance (distinct states) | shows |
|---|---|---|
| `clusterd_open` | 1 node, 2 addresses and a malformed one, 3 callers, 2 forks, failing reloads (52,516) | `SingleOpener`, `OneSender`, `NoLostWaiter` |
| `clusterd_live` | 2 callers, 1 fork, well-formed configs (21,530) | `SenderFollowsConfig`, `NamequeryNeedsName`, `ReplyIsCurrent`, `OpenEnds`, `RequestsAnswered` |
| `names` | 2 names, 1 address, 1 connection, 2 requests, boxes up to 2 (88,019) | `NamesMatch`, `CacheCoherent`, `NoOrphanAgent`, `LookupSound`, `LookupEnds`, `AgentsEnd` |
| `client` | 4 operations (17,402) | `SentInOrder`, `QueueFate`, `OpsSettle` |
| `wire` | 3 operations, sizes around 0x8000 and 0x10000, 3 sessions, 1 name (3,856,274) | `Intact`, `LaneOrder`, `ReplyMatches`, `CallInFlight` |
| `pool` | 2 slots, 3 statements, one of them on both, `CMD.stop` (276,808) | `ReconnExclusive`, `NoLostPending`, `NoOrphan`, `ReconnEnds` |
| `core` | 2 services, 2 workers of different weight, timer and socket thread, 3 messages (369,634) | `OneOwner`, `NeverStranded`, `HeldAlive`, `Settles`, `QuitEnds` |
| `handles` | 2 threads, 3 contexts, 4 handles, 2 names, a table that starts with 1 slot (640,203) | `LockExclusive`, `IsDirectory` (refinement), `SweepComplete`, `WriterProceeds` |
| `timer` | 2 timeouts, every delay below half of a five-bit word (335,872) | `OnTime`, `InOrder` |
| `socket` | 2 slots, 3 ids, 2 packages of 2 bytes, 2 commands in the pipe (5,384,015) | `Whole`, `Draining`, `FreshEvents`, `SlotAsserts` |
| `clusterd_off` | violation | see Findings |
| `handles_overlap` | violation | see Findings |

Bounds. The nodes of clusterd share the scheduler, `wakeup` and the options, and nothing
else. The runs have one node; that other nodes make no difference to the safety properties
is what their theorems show, which hold for any number. Three callers give an opener, a
waiter and a late comer, two forks two overlapping reloads. Two handles would let a second
sender appear. In `names`, two names at one address are what renaming needs (`NamesMatch`
is proved for any number), and two requests a query and one that joins it; agents share
nothing but clusterd's tables. `MaxBox` stops name changes while that many messages wait
at an agent. Four operations in `client` allow a queue of calls and pushes in any mix, its
end, and operations behind it. In `wire` the sizes are the last one that fits a frame, the
first that does not, and two full parts; three sessions make the counter wrap, and three
operations are one that asks for a name and two that join it, which may be resumed in
either order. In `pool`, two slots are the fewest `CMD.start` accepts. Three statements on
one slot are a repair and two waiters, one of which wakes the other; one of them may go to
the other slot, so that `CMD.stop` finds a connection that is dead behind one that is
repaired. The refusal of line 41 needs more; `WaitersBounded` is the theorem about it.
`MaxPending` stands for the code's 2000.

In `core`, two workers are what two owners of a mailbox would take; one takes one message
at a time and the other all there are. The second service can be launched, killed while
it is launched, sent to while it goes, and told about dropped messages. Three messages
let a mailbox be filled again while it is emptied. The socket thread sends; the timer
thread's own events, which take the same path, are turned off (`Source`). In `handles`,
the table is doubled twice and the handles wrap round; one thread launches and the other
makes every other call. In `timer` each of the five levels has two lists, the delays
reach all of them, and time runs round the word. In `socket` the third id reuses a slot,
and packages of two bytes can be written in part.

`wire`, `core` and `socket` turn the deadlock check off: the runs end when their
operations or messages are used up or the process has quit.

Fairness. A message in a mailbox is handled in the end, and a service is never
stopped for good: strong fairness of a coroutine's next step in clusterd, whose
answers are in the mailbox while other messages are handled, and weak fairness of
each mailbox in `ClusterNames`. (`Settles` is that promise of the process itself.)
`BeeClusterd` also assumes that clusterd goes on receiving messages while a coroutine is
left in `wakeup` by a slice that raised (`WF(SendersRequest)`), because only the end of
another slice resumes it. The client does not assume that of an arbitrary service:
`OpsSettle` excepts the behaviours in which woken coroutines are never worked off.

`MysqlPool` assumes that MySQL accepts or refuses a connection and the first statement on
it, and that the socket layer reports a socket that is being closed: strong fairness,
since such a message waits in the queue of the service. It assumes that the service goes
on receiving messages while a slice that raised has left coroutines (`WF(OtherMessage)`),
but not that other statements are answered. `SkynetCore` and `HandleTable` assume that
every thread runs and every callback returns: weak fairness of each thread, and nothing
about who gets a lock that several spin on. `Settles` rests on the tick of the timer
thread every 2.5 ms: a signal may come when the worker has found the queue empty and does
not wait yet, and is then lost.

What some properties do not say, because the code does not provide it:

- `CacheCoherent` excepts agents that missed a change while they were launched:
  `cluster_agent[fd]` is a boolean until `newservice` returns, but the gate forwards
  requests to the agent before that, and `clearnamecache` skips booleans.
- `LookupSound` lets a request be told that a name is unknown if it joined a query
  older than the last `namechange`: the answer goes to the table that was replaced.
- With a malformed address `newservice` raises in `open_channel`, and `connecting[key]`
  stays: later callers of the node wait in its table for ever. `clusterd_open` has such
  addresses; what it checks still holds.
- `SenderFollowsConfig` is for reloads that do not fail. One that stops at the assertion
  of line 110 of `bee_clusterd.lua` has stored the addresses it visited without forking
  `open_channel` for them; the corrected config then finds no change, and the sender
  keeps the old address, although the comment at line 114 promises a reset.
- `ReconnExclusive` and `NoOrphan` are for a slot that is not `stray`: what excludes a
  second repair is not the lock but the order of the slices, and the code lets that be
  upset in two ways. If the new connection is lost before its charset query, the query
  fails at once, `unlock_func` wakes a waiter, and a statement that failed together with
  the old connection may run before it. And a slice that raises skips `dispatch_wakeup`
  (`CMD.stop` at a connection that is `dead`, `quote_sql_str` at one or at an empty slot,
  a statement at an empty slot): a waiter it leaves woken may run after a later statement
  has begun a repair. Both coroutines then repair the slot, and the connection of the
  first is dropped without `disconnect`. Without the condition TLC finds that in ten steps.
- `NoLostPending` excepts a slot `CMD.stop` has emptied: there a woken waiter raises at
  line 50 and does not wake the next. It does hold in the half closed pool that a
  `CMD.stop` leaves which raised at a `dead` connection.
- `LaneOrder` orders messages of one priority only, and so does `Whole`. It lets a message
  be overtaken that had to wait for its name: by those to other services, and by those to
  its own that waited for the same answer, since `dispatch_wakeup` takes the coroutines in
  the order of a hash table. The one whose coroutine asked is not overtaken by them. So
  pushes to a name whose address is not cached may arrive in another order than sent.
- `ClusterWire` lets the session counter advance only to a session that is not in
  use, which is what the code relies on the size of `INT32_MAX` for. (With a single
  session it could not advance at all; the proofs assume two.)
- `ReplyIsCurrent` lets a caller be handed a channel that still leads to the address of
  an earlier config if the fork of the reload has not run yet: the caller was woken by
  the same slice of the scheduler and came first. The fork then moves the channel. It is
  for reloads that do not fail. With one that does, two nodes are enough for an answer
  that stays wrong: an open of node B raises and leaves its waiter in `wakeup`, an open of
  node A succeeds and its waiter queues up behind, the waiter of B raises too, the reload
  that stops half way changes the address of A, and the waiter of A, resumed by the next
  message, is handed the channel to the old one.
- `IsDirectory` is for one launching thread (see Findings), and as long as no service has
  the handle 0. A node with a harbor id has none. The nodes of this repository set
  `harbor = 0`: `skynet_handle_init` starts at 1 ("reserve 0 for system",
  `skynet_handle.c:251`), but the index comes back to 0 after 2^24 launches, and 0 then
  is the handle of a service that `retireall` passes over and that looks, to a rehash,
  as if it had no handle yet. The theorems say `ZeroUnused` for that.
- `SweepComplete` speaks of handles that were in use before the last pass of
  `retireall`; a launch that overlaps it may leave a service behind.
- `SkynetCore` does the last steps of a launch as the code means them: that
  `skynet_context_new` writes `ctx->init` after it has dropped its own reference
  (`skynet_server.c:155`), when the service may have been killed, is inside one step.
- `HeldAlive` lets a thread hold a context whose mailbox does not exist yet, which is the
  window of `SendLost`; and it lets the mailbox of a marked context go first.
- `Settles` and `NeverStranded` speak of messages that a mailbox has taken, not of those
  that `SendLost` loses.
- `Whole`, `Draining`, `FreshEvents` and `SlotAsserts` are for the time before one of the
  two races of `reserve_id` above: the code has no guard against them, and after one of
  them an assertion fails or an event reaches the wrong socket. They say that this is the
  only way.

The comment above `packrequest` in `lua-beecluster.c` gives a size of 0x8000 to the
single frame, the code to the multi-part form. Both are understood by the other end.

## Findings

`clusterd_off`: a node is switched off (`false`), gets an address again whose
connection fails, and is switched off again. `changenode` had reopened the channel,
but `node_sender_closed` is cleared only on success (line 61), so line 67 takes the
node for closed and leaves its channel open.

`handles_overlap`: two launches overlap. The first has put its context into the table and
not yet assigned `ctx->handle` (`skynet_server.c:144`), which is 0 (line 143); the second
finds the table full and rehashes it by `ctx->handle`. If another handle hashes to 0 the
assertion of `skynet_handle.c:60` fails; otherwise the context gets a slot its handle does
not lead to. Launches overlap wherever a service launches another itself instead of
asking the launcher, as `lua/service.lua:19` and `lua/shop_master.lua:47` do.

## Proofs

Each theorem holds for every value of the constants that its module's `ASSUME` admits.
Where a property is not inductive, the module defines the invariant that is, and TLC has
checked that invariant on the instance of the run before it was proved.

**`BeeClusterdProofs`**, for any nodes, callers, forks, services and addresses, from
`ConstAssumption` (the model values differ). `TypeCorrect`, `SingleOpenerHolds`,
`OneSenderHolds` and `NoLostWaiterHolds` are parts of one inductive invariant,
`IndInv`. `SingleOpener` alone is not inductive: that a woken or running coroutine is
where the scheduler believes it to be (`RunningInv`, `WakeupInv`), that the tables
list only coroutines that wait for their node (`WaitingInv`), and what an opener
knows across a yield (`OpenInv`) are needed with it. There is one lemma per action.
`SenderFollowsConfigHolds` assumes `~BadConfig` and adds `Follow`: a settled node's
sender is at the configured address, an opener past `changenode` has moved the
channel to *its* address, and a node whose address differs from that is either being
opened or about to be. `ReplyIsCurrentHolds`, an action property, adds `GotInv`: what a
waiter has been handed is the sender of its node. `NamequeryNeedsNameHolds` is inductive
with `IndInv`. The three assume `~BadConfig` because a reload that stops at the
assertion of line 110 leaves forks and wake-ups undone.

**`ClusterNamesProofs`**, for any names, addresses, connections and requests:
`TypeCorrect`, and `NamesMatchHolds` (the two directions of `register_name` agree),
inductive with the types. `NoOrphanAgentHolds`, `CacheCoherentHolds` and
`LookupSoundHolds` come from `IndInv`: a connection, its entry in `cluster_agent`, the
launch of its agent and the `exit` on its way are in one of few phases (`LifeInv`); one
request at a time asks clusterd for a name, and those that joined it remember at least
what it does (`AskInv`); an answer on its way is for a request that waits for it and is
an address the name had since (`ReplyInv`); and an outdated address, in the cache or
still on its way, has a `namechange` behind it (`StaleInv`). The order of the box is
what the last one is about: `CacheCoherent` alone is broken by an old answer that
arrives after a `namechange`.

**`BeeClusterProofs`**, for any number of operations and queues: `SentInOrderHolds` and
`QueueFateHolds`. The invariant follows the *turn* that `request_sender` and the calls
it wakes pass to and fro: it is in one place at a time (`OneTurn`), although the list of
woken coroutines is shared with the rest of the service and a slice that raises leaves
it as it is. The queue is an interval of the operations that ends with the latest
(`QueueShape`), what was sent was made before what the loop has still to do
(`SentBefore`), and the operations of a queue that the loop has passed have met the fate
its sender decides (`Fates`, with the generations of `GenFits`).

**`ClusterWireProofs`**, from `ConstAssumption`, with at least two sessions. Of the codec,
for every message size: the parts cover the message (`PartsCover`), only the last is
marked last (`LastPartMarked`), every frame fits its buffer and its length field
(`FramesFit`), the session counter stays positive (`SessionsPositive`), and requests and
pushes are told apart at the other end (`KindKept`). Of the connection: `IntactHolds`,
`LaneOrderHolds`, `ReplyMatchesHolds` and `CallInFlightHolds`. `IndInv` says that a lane
of large messages is linked, frame to frame, from each announcement to its last piece,
except for a beginning that is cut off (`Linked`); that the agent and the channel put
together exactly the message of the frame that comes next, and have its bytes up to that
frame (`Assembling`, `Gathering`); that what was taken was made before what is in
its lane (`TakenBefore`); and that a session is in one place at a time, as a request,
being served, or as a response (`Apart`). `CallInFlight` counts the last frames of a
session, and the lemmas about `Final` say how taking and adding frames changes the count.
`LaneOrder` rests on a second invariant, `NameInv`, about the coroutines that look a name
up: one asks for a name at a time and those that joined it go on after it (`Askers`),
whatever comes for that name meanwhile joins it too (`Joined`), and a coroutine that goes
on without having waited is that of the message that came last (`Places`).

**`MysqlPoolProofs`**, for any number of slots and coroutines, from `PoolAssumption`:
`RepairExclusive` and `WaitersOwned` (`ReconnExclusive`, `NoLostPending`), `NoOrphanHolds`
and `WaitersBounded`. The lock is not what excludes a woken waiter, so the first is not
inductive. The invariant `Inv` says of every slot that its list holds distinct sleeping
coroutines (`Asleep`), that the lock and the waiters have a coroutine that will release and
wake them (`Owned`), and, while it is not stray, how its woken coroutines follow one
another (`Order`): they have all run before the next message, and a waiter, or the
coroutine of a repair, is woken alone and finds the slot unlocked. `Order` also
keeps the `db` of a repair the slot's connection, which is what `NoOrphan` needs: it is
not alive when the new one replaces it. `SlotSame` is the lemma for the slots a step leaves
alone; `TakeoverKeeps`, `ReconnKeeps`, `FinishesKeeps` (whatever ends a repair) and
`LeavesKeeps` (whatever else a coroutine does) are those for the slot it works on.
`WaitersBounded`: at most `MaxPending + 1` coroutines wait for a slot, since `reconn`
compares the list before it adds to it and nothing else does.
The module also has the theorems about `Memcache`, for any objects and from
`MemcacheAssumption`: `ShapeKept` (the keys in use are those between the counters) and,
from it, `ImplementsDeque`, the refinement of `Deque` call by call. No run repeats them.

**`SkynetCoreProofs`**, for any services, workers and messages, from `CoreAssumption`:
`OneOwnerHolds`, `NeverStrandedHolds` and `HeldAliveHolds`. They are inductive only
together and with what ties them: what a thread has in its hands at each place
(`Locals`), that `ref` counts the references of the table and of the threads and that at
most one thread deletes a context, when there are none (`RefInv`), and that a mailbox has a
place exactly when `in_global` or `release` says so (`BoxInv`), the global queue being
without repetition. A context without its mailbox is one a thread launches (`Creates`), one
with a marked mailbox is one a thread is about to free (`Frees`). An action changes one
thread and one or two services, so there is a lemma for each way in which a mailbox or a
reference changes hands, and each action is a case of one.

**`HandleTimerProofs`**, for any number of threads, contexts, names, handles and timeouts
and any size of the table and the wheel, from `HandleAssumption` and `TimerAssumption`.
Its first section is about numbers: that a set of numbers has a least member (from the
library's `WFMin`), and that one with 0 and every successor has all (`Climb`). With these,
induction needs no theorem that takes an operator, and a recursive function is unfolded
by building, step by step, one that satisfies its equation (`BetweenIs`, `KeptIs`,
`MovedIs`). The rest of that section is what `%` and `\div` by a variable do, derived from
uniqueness of quotient and remainder (`ModUnique`), since the SMT backend does not know it.

- The lock: `LockExclusiveHolds`. With respect to it every action is one of eight moves
  (`StepIsMove`), and `LockInv` says that `read` is the number of threads between counting
  and discounting themselves, and that the flag is set by exactly one thread. The point is
  a writer that finds `read = 0`: a reader that counts itself later looks at the flag
  again before it enters.
- The table: `TableInvHolds` and, from it, `IsDirectoryHolds`, `SweepCompleteHolds` and
  `OnlyExhaustionHolds`. `TableInv` says that a context is in the slot of its handle, or
  of the one it is about to get (`PlaceInv`); that the size of the table divides the
  number of handles, so that contexts that meet in the larger table would have met in the
  smaller (`ShapeInv`, `Divides`) and the index may wrap; that a pass of `retireall` that
  has retired nothing has its handles still before it (`SweepInv`), which a rehash keeps
  since it moves a context up or leaves it; and that the names are sorted (`NameInv`),
  which makes the binary search find a name or its place (`SearchIs`). Every step is then
  a step of `Directory` or none: a call of `retire`, `grab`, `findname` or `namehandle`
  takes effect in the step within the lock that ends it, for the argument it was called
  with (`ReturnEnds`), `retireall` with each handle it removes (`RetireDrops`), and a
  launch when `ctx->handle` is assigned. `OnlyExhaustionHolds` completes the finding
  `handles_overlap`: without overlapping launches the assertions of
  `skynet_handle_register` fail only when every handle is used.
- The assumptions of these four: `SoleLauncher`, that one thread calls
  `skynet_handle_register`, which the launcher service makes true for what goes through
  it, and `[]ZeroUnused`, that nobody is given the handle 0 or asks for it. The second is
  true of every behaviour when there is a harbor, and without one until the index wraps.
  Where either fails the invariant does too.
- The timer: `OnTimeHolds` and `InOrderHolds`. `WheelInv` says that a timeout that is not
  yet due is in the list that `add_node` would choose for it at this time (`Placed`), and
  that each list has the timeouts of one tick in the order of the calls (`Ranked`). A tick
  changes that choice for one list at most, the one that `timer_shift` spreads (`Stays`);
  as timeouts of one tick are always in the same list, they are spread together and in
  their order (`SpreadIs`). Two things follow that the code does not rely on:
  the first `timer_execute` of `timer_update` ("rare condition") and the second look of
  `timer_execute` at its list never find anything.

**`SocketServerProofs`**, for any number of slots, ids, packages and bytes of a package,
from `SocketAssumption`: `WholeHolds`, `DrainingHolds`, `FreshEventsHolds` and
`SlotAssertsHolds`, all until a race of `reserve_id`, as far as which `Calm` is inductive
(`NextCalm`). The wire of a socket and the buffers that wait for it are one line of
packages, in order for each priority and cut in at most one place, between the last
package on the wire and the first buffer (`Line`, in `SlotsInv`). `SendInv` says that the
packages in the pipe are newer than all in the lists; `PipeInv` that the command that
opens a socket is the first one for it in the pipe, which is why the assertions on the
type of a slot hold; `ClaimInv` that a claimed slot still has an earlier id and that no
command is for the new one; `EventInv` that the events of a batch are of different sockets,
each in its slot, open or closed by the command whose event is still to be cleared.

Only model-checked: the liveness properties `OpenEnds`, `RequestsAnswered`, `LookupEnds`,
`AgentsEnd`, `OpsSettle`, `ReconnEnds`, `Settles`, `QuitEnds` and `WriterProceeds`.
Fairness and ENABLED are out of the prover's reach. Every safety invariant and action
property of the runs that pass has its theorem.

## Not modelled

- Of the socket channel (`socketchannel.lua`): connecting, reconnecting, closing,
  `wakeup_all`, and the dispatch thread of an old socket beside the new one. A remote call
  is modelled on one connection that stays up.
- `command.proxy` and `bee_clusterproxy.lua`; the traffic of `listen`.
- Of the socket server: UDP, bound descriptors, socket options, the exit command.
- Of the message dispatch: the ring buffer and overload warning of a mailbox, the
  endless-loop monitor, the harbor, the text commands, and the message to the exit
  monitor, which no service of the repository asks for.
- The tables of sessions and timers of the C++ service base: sequential bookkeeping of
  one callback.
- The routing of `activity_master`, the request handlers of the game services, logging,
  the protobuf packing, deployment files, `lpacktrace` (nothing calls it).
- Vendored code (Lua, jemalloc, the C libraries of skynet) and generated code (`cpp/pb`).
  By lines this is by far the larger part of the repository.

Worth doing next: a model of the socket channel with an abstract remote call (answered
once, or failed) above it, and one of the service base in C++ (`cpp/common`), whose RPC
sessions and timers are still without one.
