# A TLA+ model of mtcp-lua

mtcp-lua runs Lua scripts as asynchronous TCP clients on top of mTCP and DPDK.
Every core has one application thread with an event loop, a Lua state whose
coroutines are the clients, and the thread of the mTCP stack.  This directory
holds TLA+ modules that model a core, the process with all its cores, the DPDK bindings
and one thread of the download client, TLC configurations that check them, and TLAPS
proofs about them.

## The system

| Part | State | Operations | Hard parts |
|---|---|---|---|
| Timers (`event_timer.[ch]`, `event.h`) | one `event_t` per coroutine: node key, `timer_set`, `timedout`; the tree of armed nodes | `event_add_timer` (keeps a close key: the lazy rule), `event_del_timer`, `event_find_timer`, `event_expire_timers` | unsigned keys that wrap, signed comparison, handlers that change the tree during a pass |
| Red-black tree (`rbtree.[ch]`) | root, links, colours, sentinel | insert (by timer key or by plain key), delete, minimum, find | rebalancing, duplicates, links of the sentinel |
| Coroutines (`main.c`) | Lua threads, their contexts, the C stack of nested `lua_resume` | `spawn`, `sleep`, `mtcp_lua_run_thread`, `timer_handler` | a resumed coroutine runs inside the one that spawns it or inside the event loop |
| TCP sockets (`mtcp_lua_socket_tcp.c`) | `fd`, `connected`, `active`, `vm`/`vm_ctx`, timeouts | `tcp`, `settimeout`, `connect`, `send`, `recv`, `close`, `__gc`, two handlers | the stack works between a call and the registration with epoll; timeouts race events; stale events; reused ids |
| Event loop (`thread_entry` in `main.c`) | batch of events, iteration count | epoll wait, dispatch, expire, `sleep(1)`, `exit(5)` in iteration 10 | a batch is older than the state its handlers meet |
| mTCP (external) | ids, connections, receive buffers, epoll set | as used by `src/` | a thread of its own |
| Process (`main.c`) | `num_cores`, `cores[]`, `app_thread[]`, `global_context[]` | `main`, `usage`, `daemonize`, `thread_entry` | threads read their number from main's stack; one core's end, or its tenth iteration, ends all |
| Log (`mtcp_lua_log.c`) | level, file | `mtcp_lua_log_init`, `mtcp_lua_log` | the program relies on FATAL not to return, and it may |
| Download client (`mtcp_lua.c`, `mtcp_lua_thread.c`) | flow counters per thread | mTCP's epwget loop; in no build target | several events of one id in a batch; ids reused while a batch is handled; a signal |
| DPDK bindings (`lconf.c`, `lmbuf.c`, `ldpdk.c`) | core mask, core table, handles with an mbuf pointer | `init`, `mbuf`, `set`, `send`, `__gc`; in no build target | a mask written digit by digit, 8-bit queue numbers, ownership of an mbuf after send |

How they interact: a script calls the API from a running coroutine.  A call that
must wait writes the coroutine's `event_t` (handler, data), registers it with
epoll, arms its timer and yields to whoever resumed the coroutine.  The event loop
calls `ev->handler(ev)` for events and for expired timers; a handler resumes the
coroutine that the socket object names.  All of this is one thread: the only
concurrency is that of the stack and the clock, which move between any two steps.
Cores share nothing but the process: `exit` by any of them, or a FATAL of main, ends all.

What makes it correct: a coroutine that waits is resumed, once, with the result of
its own wait; the timer tree is never corrupted; control returns to the loop; every core
works on its own context, and the process does not report success after it has served.

## Modules

| Module | Models | Remarks |
|---|---|---|
| `Null`, `Msec` | NULL; `msec_t` and its signed difference | width is the constant `KeyMod` |
| `EventTimer` | bodies of the timer functions as operators | the tree is the SET of armed events |
| `TimerService` | the timers under an arbitrary client | own specification, with history of the deadlines |
| `TimerQueue` | what the tree promises: a map from armed nodes to keys | abstract specification |
| `RBTree`, `MCRBTree` | `rbtree.c` on pointers, one step per loop iteration | implements `TimerQueue`; `Workloads` says which nodes are inserted in which order and with which of the two insert functions |
| `Coroutine` | spawn, sleep, resume, return | `fault` marks an access through a bad pointer |
| `Mtcp` | the stack, external | its assumptions are listed in the module |
| `SocketTcp` | socket calls and handlers | `connect` and `recv` that wait are two steps, the stack may work between them |
| `MtcpLua`, `MCMtcpLua` | the composition: loop, scripts, stack, clock | the properties of a core |
| `Scheduler` | what a core promises its scripts: who runs, who waits in which call, with which answer a wait ends | abstract specification, implemented by `MtcpLua` when sockets are not shared |
| `Log`, `Process` | the log level and FATAL; main and the threads of all cores | own specification; an iteration of a core's loop, the subject of `MtcpLua`, is one step |
| `Dpdk` | `dpdk.init`, and packet buffers with their handles | own specification; the pool counts the copies of a buffer and a ring is a set of numbered descriptors, so that a buffer given back or sent twice is there twice |
| `Wget` | one thread of the download client, over `Mtcp` | own specification |
| `MsecProofs` | lemmas: the arithmetic of wrapped keys | used by the next four |
| `TimerServiceProofs` | theorems about the timers alone | |
| `MtcpLuaProofs` | theorems about a core: types and timers, then control with the refinement of `Scheduler`, then sockets | the parts build on each other |
| `RBTreeShape` | lemmas about the tree: statements, shape, heights and colours, walking | no invariant of the program yet |
| `RBTreeProofs` | theorems about the tree, with the refinement of `TimerQueue` | the steps of `RBTree`, from the lemmas of `RBTreeShape` |
| `ProcessProofs`, `WgetProofs`, `DpdkProofs` | theorems about these modules | |

`Coroutine` and `SocketTcp` use the operators of `EventTimer` directly, so the timer
code that is checked alone is the code the sockets use.  The scripts are arbitrary:
the coroutine on top of the stack takes any API call with any object that `Holders`
lets it reach.  After a fault nothing happens: what the C program does is undefined.

Correspondence worth knowing:

* `Dispatch`, `ExpireOne` are one iteration of their C loops including the handler up to
  `lua_resume`; what the resumed script does are `Api` steps, and the loop goes on when
  the stack of resumes is empty again.
* `batch` is a set: mTCP promises no order among events, so any order is possible.
* the three timeouts of an object, and `vm` with `vm_ctx`, are always assigned together
  and are one variable each.
* `send`, and calls that only return an error, change no modelled state.
* `mtcp.sleep` clears `timer_set` before `event_add_timer`: `SleepWhileLinked` is the
  case in which the node is still linked.  It ends in the state in which `rbtree_insert` is
  called, flag clear, node linked, new key written; what becomes of the tree is undefined,
  and `fault` stops the core.
* `mtcp_lua` registers with MTCP_EPOLLET, and `Mtcp` announces an event once.  `Wget` registers
  without it (lines 207 and 260): its `EpollWait` may return again what is still true of a
  registered connection (`LevelReady`).
* `Wget`: a step of the thread ends where the stack can interfere (after `mtcp_connect`,
  `mtcp_epoll_wait`, `mtcp_read`) and after each event.  `back` is the return address of
  the loop that makes connections, which `RunWgetMain` and `CloseConnection` share.  The
  server answers only what it was asked and chooses the lengths of header and body when
  the header is parsed; since the code parses once per connection, that is the same as
  choosing them beforehand.  No code of the repository sets `flows` or `concurrency`
  (they are 0 and the client does nothing); the module takes them as constants.
* `Process`: a step of main or of a thread ends where another thread can interfere.  `exit`
  in any thread is one step that ends all.  FATAL has two outcomes (`FatalOutcomes`).  It ends
  the process, with 1, or with 139 if the label of level 5, read from behind
  `log_level_string[5]`, crashes first; or `vsnprintf` fails and the function returns
  (lines 69-71), and main goes on behind the step that failed: without a stack, past a thread
  that was not created, or to the next join.  `came_back` records where that happened.
  A failed `fork` takes the parent's branch and ends with 0.
* `Dpdk`: `dpdk.init` may be called at any time.  Every call overwrites the mask before it does
  anything that can fail, so `eal_mask` keeps the mask of the call that DPDK accepted last.
* `Dpdk`: `extra` counts how often a handle whose buffer was sent gave it away again, and
  `MaxStale` bounds it; the steps after a NULL access (`fault`) are not modelled.
* `Wget`: a failing `CreateConnection` has three outcomes: `mtcp_socket` fails, which leaves the
  records alone (`SocketFails`); `mtcp_connect` fails after the record of the id was cleared
  (`ConnectFails`); `mtcp_setsock_nonblock` fails, which is `exit(-1)` (`NonblockFails`).
* After a signal `mtcp_epoll_wait` may return events or EINTR, and goes on returning
  EINTR: an assumption on the stack.

## Runs

`expect: pass`:

| Run | Instance | What it shows |
|---|---|---|
| `timer_service` | 3 events, delays 0, 1, 3, lazy delay 2, 16 keys, clock 13..19 | the clock and the keys wrap at 16; distances stay below half the range, as the assumption demands (2^63 ms in the code). `LazyWithinDelay`, `FindTimerExact`, `ExpiryInOrder`, `PassLeavesNothingDue`, and `PassEnds`, though handlers may re-arm with 0 for ever |
| `tree` | 6 timer nodes, 5 nodes with plain keys, in all orders of insert and delete; 10 timer nodes inserted in ascending order and {1,5,8,10} deleted; keys 12..15,0.. with equal pairs | search order and the minimum, red-black shape, parent links, siblings, lookups, bounded loops, and the refinement of `TimerQueue`, in all intermediate trees.  With 6 nodes the deletion loop never climbs from a black inner node; with 10 it does |
| `one_user` | 2 coroutines, 1 object used by one of them, 2 ids, 3 iterations | `WakeupNotLost` across the window between call and registration; `WaitIsTimed` and `TimerGoneMeansResumed`; `WaitIsSafe`: no stale event meets a waiting coroutine with a freed object or an unlinked timer, and none but a stale event in a sleep resumes it with a linked one (`ResumedUnlinked`) or early (`SleepsItsTime`); `ConnectedHasContext`; the refinement of `Scheduler` |
| `two_sockets` | 1 coroutine, 2 objects, 2 ids | the coroutine's one `event_t` serves both objects: events of one arrive while it waits on the other, and ids are reused; only `connect` forgets an open connection (`ForgottenOnlyByConnect`) |
| `shared_socket` | 2 coroutines sharing an object | `LostOnlyToAnother`: where `vm` is overwritten by another user, a wait may lose its timer without a resume, and only then or after a failed connect |
| `download` | 3 flows, 2 at a time, 2 ids, headers of 1 or 2 units, bodies of 0 or 3, reads of up to 3 units of which the parser keeps 2; failures and a signal | `RecvCountsBytes` and `CountedIsOpen` across stale events and reused ids; until something fails the counters are exact and every connection asks; the size that is taken for the expected one comes from a whole response (`FirstSizeIsWhole`); the thread ends (`ThreadEnds`, `SignalEnds`) |
| `process` | arrays of 3, 2 or 4 CPUs, 0 to 4 configured cores, log levels 0, 1, 5, 9, ten iterations | `OwnContext`, `InBounds`, `ThreadsHaveStack`, `SuccessMeansNoneServed`, `ProcessEnds`, with every step that can fail failing and FATAL coming back or not |
| `dpdk` | `init` with 1, 2, 3, 5, 128 or 129 cores, called again after a failure or a success; scripts on 2 cores, 2 buffers, 2 handles, one use of a handle after its send | the mask selects exactly the cores (`MaskExact`), a queue of its own for each (`QueuePerCore`), and `BuffersConserved`: buffers are duplicated by uses after a send and by nothing else |

In the socket runs keys do not wrap (64 keys, the clock stays below 20); wrapping is
the subject of `timer_service` and the tree.  In `timer_service` the clock stops at `MaxNow` and
passes begin before that, so that the clock always gets past the reading of a pass.  `LoopLimit` is 4 or 5
instead of 10: a wait that begins in one iteration, its timeout in the next and a stale
event in the third fit.  In these runs receive buffers hold at most `MaxRx` chunks; one
is enough to tell empty from not empty, which is all the socket code looks at.  The
downloads need more: a first read shorter than the header, equal to it and longer than the parser's
buffer all occur with 3 units.  With one id fewer than connections to make, ids are
used again while events of their last connection may be in the batch.  In `process` more
cores can be configured than the arrays hold or the machine has, and the levels lie below,
at the ends of and above the valid range.  In `dpdk` the numbers of cores are the
boundaries of the valid range and all four remainders by 4; the queues of other numbers
follow the same formula.

`expect: violation`, each a disagreement between the code and what is said about it:

| Run | Statement | What the code does |
|---|---|---|
| `connect_failure` | README.md:22-25: `connect` returns `nil, err` | after SO_ERROR `connect_handler` has deleted the timer and returns without resuming |
| `use_after_close` | the guard "socket not connected." of send and recv | `close` resets neither `fd` nor `connected` |
| `double_insert` | event_timer.h:58-73: a timer that is set keeps its key or is deleted first | `mtcp.sleep` clears `timer_set` itself: a coroutine woken early that sleeps again has its linked node inserted a second time |
| `download_assert` | mtcp_lua_thread.c:221: `assert(ctx->pending >= 0)` | an error and a read event of one id in a batch close the connection twice |

The models reach more disagreements, which are recorded here and have no run of their own:

* A connection stays registered for EPOLLOUT with the coroutine's `event_t` after `connect`.  The
  next EPOLLOUT ends a sleep that has begun meanwhile (test.lua:10 sleeps 10 seconds there): the
  first half of the `double_insert` run.
* `connect` that succeeds at once leaves `vm_ctx` NULL, and `close` and `__gc` (README.md:42)
  dereference it (fault `null_ctx`).
* With two events of one id in a batch the first can end the script (README.md:34-37 returns after
  a failed `recv` without a close), the object is collected, and the second calls the handler with it
  (fault `freed_socket`).
* A second `connect` prints "Socket conneced. close current." (line 153) and calls the `close` of libc
  with an mTCP id: the connection stays open.
* `spawn(func, ip, port)` (README.md:53) moves one value, the last, to the new thread, which then
  has no function to run (`SpawnWithArguments`).
* The download client clears the record of a complete response for the next connection before it
  compares the size, and prints "Response size mismatch!" (mtcp_lua_thread.c:296) without cause.

The passing properties say how far each of these goes.  `TimerGoneMeansResumed`, `WaitIsTimed`
and `WaitIsSafe` except a connect that has failed and nothing else; `SleepsItsTime` and
`ResumedUnlinked` say that only an event of the batch that meets a sleep ends it early or resumes a
coroutine with a linked timer, so `NeverLinkedTwice` is violated in no other way while objects are
not shared, and not at all without sockets (theorem `TimersNeverFault`);
`WaitIsSafe` says that a coroutine that waits is never the one for which a handler meets a freed
object; `ConnectedHasContext` that an object which `send` and `recv` accept has a context;
`ForgottenOnlyByConnect` that nothing but a second or a failed connect leaves a
connection open, and `FirstSizeIsWhole` that a cleared record is never taken for the expected
size.  In the other direction `CountedIsOpen` bounds the counter of `download_assert` from above.

After a fault of a core, and after the assertion of `Wget`, nothing more happens: `fault` and
`pc = "aborted"` are terminal, and the other properties are about the behaviour up to there.

Other things the models show: an `-l` out of range leaves the level at 0 and the log on standard
output.  A core whose context cannot be made is only noticed after the cores before it have
returned.  A first read of the download client that ends exactly with the header takes the branch
"connection closed by remote host".  After a failure a stale write event can mark a new connection
as asked that is not established yet; its request is never sent.

### Fairness

Safety runs use `Spec`.  `FairSpec` of `TimerService` assumes that a pass takes its next
step, that is, that the handlers return (a script that computes for ever blocks its core, and no
property could hold), and that the clock runs.  `FairSpec` of `Process` assumes that main and every thread run; an
iteration ends because `mtcp_epoll_wait` has a timeout of 500 ms and scripts give up
control.  `FairSpec` of `Wget` assumes that the thread runs and that the network
does: a connection is established or fails, and a server that was asked sends data or
closes.  `ThreadEnds` is about behaviours in which nothing fails: after a failure a
stale write event can leave a connection without its request, and an error before the
registration is not reported; both make the thread wait for ever.

## Proofs

All theorems hold for every value of the constants that meets the named assumptions of the
modules: any number of coroutines, objects, ids, cores and buffers, and any
widths and delays.  The assumptions say that NULL is no element, that delays and limits are
natural numbers, that the set of ids of `Wget` is finite (its counters count them), and in
`TimerService` that delay, lag and lazy delay together stay below half the range of a key
and of an int, which is 2^63 and 2^31 ms in the code.  Three hypotheses are part of the
theorems that need them:

* `Exclusive`: no two coroutines use one object.  Without it the theorems about waits are
  false: the object's `vm` is overwritten by the second user (`shared_socket` is the run
  without it).
* `KeysFit`: the deadlines that a core can set in its `LoopLimit` iterations fit into half
  the range of a key.  With the code's 10 iterations and 64-bit keys they do, and the instances
  of the socket runs meet it.
* `KeysClose`: the keys of the timers that are linked or being inserted lie in one half of the
  circle of the keys, wherever it begins.  Without it the signed difference orders nothing: a
  can be before b, b before c and c before a.  The delays of the code are ints, so that its
  keys meet it with a large margin (`TInv` below says so of the timers); it says nothing of
  plain keys.  The keys of the run `tree` meet it across the wrap, 12 to 15 and then 0.

### A core

* `TypeCorrect`: `Spec => []TypeOK`.  Not inductive alone.  `IInv` adds that an event with a
  socket handler points to an object whose `vm` is set (otherwise a handler would resume
  nothing), that a coroutine inside `connect` or `recv` has such a handler, that an armed event
  has a handler, that only registered ids are ready, with a context as pointer (otherwise
  the batch would hold none), and that up to the first fault `timer_set` tells whether a node
  is linked: `SleepWhileLinked` breaks that, and with it the core stops.
* `LostToAnother`: `Spec => LostOnlyToAnother`, with any sharing.  It needs that what a handler
  resumes is `vm`, and `IInv` for the object being the one of the last wait.
* `WaitsAreTimed`, `TimerGoneResumes`: with `Exclusive`, `WaitIsTimed` and
  `TimerGoneMeansResumed`.  Every step is of one of four kinds (`StepKinds`), which preserve
  `Owned` (the event and the object name each other) and `WaitIsTimed`.
* `WaitsAreSafe`: `Exclusive => (Spec => []WaitIsSafe)`.  `LiveOK`: the object of a coroutine that
  waits in `connect` or `recv`, or is about to, has not been collected: the script that waits
  holds it.  With `WaitIsTimed` the timer is linked as well.
* `ResumedHaveNoTimer`: `Exclusive => (Spec => ResumedUnlinked)`.  A handler of a socket deletes
  the timer of the event it was called for, and that is the coroutine it resumes; a pass deletes it
  before the handler; what is left is `timer_handler` called by an event of the batch.
* `SleepIsWhole`: `Exclusive /\ KeysFit => (Spec => SleepsItsTime)`.  A timeout resumes nobody but
  the coroutine whose timer it is (`Owned`), so only its own timer ends a sleep in a pass.  `ClockInv` follows
  the clock through an iteration: `mtcp_epoll_wait` and `sleep` add what they may, and during a
  pass the clock gets at most one past its reading or to `MaxNow`.  So all keys are in the lower
  half of their range (`KeysLow`) and the signed comparison is that of the times.
* `TimersNeverFault`: without sockets no step is a fault.  `TimersInv`: only a suspended
  coroutine has an armed timer, so that the `timer_set = 0` of `mtcp.sleep` is harmless.
* `CoreImplementsScheduler`: `Exclusive => (Spec => ImplementsScheduler)`, the refinement of
  `Scheduler`.  It needs all of the above and `SchedOK`: a wait that has begun has not timed
  out and has no result yet (else a late event could continue a coroutine that is lost, or
  a failed registration would look like an answer), and a script that was never resumed
  has an armed timer, and the lemma `ControlOnOneStack`: the coroutines inside Lua code are those on
  the stack, each once.  Every action is shown to be one step of the scheduler or invisible
  to it.
* `ContextSet`: `Spec => []ConnectedHasContext`, with shared sockets too.
* `OnlyConnectForgets`: `Spec => ForgottenOnlyByConnect`, with shared sockets and uses after a
  close too.  It needs `NetOK`: a free id has no owner and is not registered, so that an
  object whose id has been reused closes another object's connection but does not own it.
* `WakeupsKept`: `Exclusive => (Spec => []WakeupNotLost)`.  An event is raised only if the id
  is registered for what the coroutine waits for, so the inductive form `WakeInv` adds that:
  a connect is registered for writing, a recv for reading.  Besides `Owned` and `NetOK`
  (a connection that has just been established has no data, so a recv on it misses nothing)
  it needs `ArmOK` (the second half of a call belongs to the first) and `BatchOK`
  (`mtcp_epoll_wait` overwrites no event that was not handled).  The proof follows the
  event: call and registration, the stack's steps, the move into the batch, the handler; and
  it shows that what other coroutines, their handlers and the collector do leaves the wait
  alone.

`WakeupNotLost` is about waits whose object is marked `active`.  Looking for `WakeInv` showed
why that is needed: `recv` ignores a failure of `mtcp_lua_epoll_ctl`, and the registration
of an object that is not active is an ADD, which fails if the id is registered.  That is so
when a closed object of the coroutine still has the id, which was given to the new object,
and a `recv` on the closed one has registered it and taken the event of the stream's end:
the `recv` on the new object finds nothing to read, its registration fails, and the end is
not announced again; the coroutine waits until its timer expires.

### The timers

`LazyIsClose`, `FindIsExact`, `ExpiryOrdered`, `PassIsComplete`: `LazyWithinDelay`,
`FindTimerExact`, `ExpiryInOrder` and `PassLeavesNothingDue` of `TimerService`, for an
arbitrary client, with keys that wrap.  They rest on `MsecExact`, that the signed difference
of two wrapped times is the difference of the times if these are less than half the range
apart, and on the invariant `TInv`: the key of an armed timer is its deadline modulo
`KeyMod`, and the deadline is behind the clock by at most `MaxLag` and ahead of it by at most
some delay.  The lazy rule needs that invariant as well: `abs` gets an `int`.

### The tree

What `RBTree` computes on a tree of any height cannot be proved by induction over trees, so
the invariant is stated without one.  A *layout* (`Layouts`) gives every linked node
a position in the order and the two positions between which its subtree lies; `Shape(x, w)` says
that the links of the tree x agree with the layout w: a child link leads to the node
whose bounds are those of its parent, cut at the parent's position, and to the sentinel exactly
if nothing is between; parent links lead back; nodes that are not linked have no children.  All
of this is about a node and its neighbours.  A rotation leaves the positions alone and moves two
bounds (`RotateShape`), an insert and a deletion open or close one position (`GrowShape`,
`SpliceShape`), and a substitute takes over a position (`RenameShape`).  Likewise `Balanced` gives
every node a black height that fits its children's, and `Painted` says where a red node may
have a red parent.

* `TreeInvariant`: `Spec => []TreeInv(FALSE)`.  There is a layout that `Fits`: between operations
  and during the descent of an insert the tree is balanced and painted (`Calm`); in the loop of
  `rbtree_insert` only `node` may have a red parent, or be a red root (`Growing`); in that of
  `rbtree_delete` the subtree of `temp` is one black node short (`Shrinking`).  Each case of the
  two loops has a lemma: recolour and climb, inner and outer rotation (`InsertFixStep`); red
  sibling, two black nephews, inner and outer nephew (`DeleteFixStep`).
* `TreeTypeCorrect`, `ParentsAgree`, `SiblingExists`, `RedBlackHolds`: `TypeOK`, `ParentLinks`,
  `SiblingIsNode`, `RedBlack`.  Without `Shrinking` a sibling could be the sentinel: it has
  black height at least 1 because `temp` lacks one.
* `OrderedTreeInvariant`, `TreeSearchOrder`: with `[]KeysClose`, the order of the positions is that
  of the keys, and during a descent the key of `node` belongs between the bounds of `temp`
  (`Searchable`); therefore `SearchOrder`.
* `TreeFindExact`: `FindExact`, for plain keys, without a hypothesis.
* `TreeImplementsQueue`: `Spec => ImplementsQueue`.  The linked nodes are the members of the layout,
  so that the steps that rebalance change nothing `TimerQueue` sees, `Descend` adds one node when
  it finds the place, and `Delete` takes one away.
* `TreeLoopsAreShort`: `Spec => []LoopsAreShort`.  `RoundsInv` bounds the iterations of a call by
  black heights: a descent makes at most two for every black node above `temp`, the loop of
  `rbtree_insert` one for every black node below `node` and a last one that rotates, that of
  `rbtree_delete` one for every black node below `temp` and a last one.  A subtree of black height i
  that is not short of a node has at least 2^i - 1 nodes (`HeightIsLow`).

The recursive functions of `RBTree` (`rbtree_min`, `rbtree_find`, `InOrder`, `BlackHeight`) are
dealt with in two steps: a function that solves the equation is written down from the layout, so that
the chosen one solves it too; and where that one differs from what is claimed, the node with the
narrowest bounds at which it does contradicts the equation.  That needs only the least of a set
of numbers.  In the module these functions stop at whatever is no node, NULL included, so that
the equations have a solution for every tree; the links that they follow never are NULL.

### The process

`ContextsApart`, `ArraysInBounds`, `FatalNotSilenced`, `SuccessServedNothing`: `OwnContext`,
`InBounds`, `ThreadsHaveStack` and `SuccessMeansNoneServed` of `Process`, for any
`MAX_CORE_LIMIT`, configuration and log levels, and whichever FATALs come back.  The invariant `PInv` says what main has
done when it is where it is: which entries of `cores` are written, that a core that has
read its number has that of its own entry, and that the level never exceeds FATAL.

### The download client

* `RecvExact`: `Spec => []RecvCountsBytes` of `Wget`.  Not inductive alone: a connection
  that is sent its request has its count cleared, which is right only because nothing
  was read before (`ConnInv`: data comes after the request, the request comes once, a
  free id has an empty buffer).
* `CountIsOpen`: `Spec => []CountedIsOpen`, failures, stale events, reused ids and a signal
  included.  `CountInv`: a connection that `CreateConnection` has opened is one more than the
  counter says until it is added.
* `CountIsExact`, `RequestIsWritten`: `PendingIsOpen` and `RequestWritten`.  They hold until
  something fails, because until then no event in the stack or in the batch is about an
  earlier use of its id (`EventsFresh`, part of `CalmInv`).
* `FirstIsWhole`: `Spec => FirstSizeIsWhole`.  `ReportInv`: between `CloseConnection` and the
  comparison the record is a whole response or has been cleared, and a cleared one has the
  length 0, which leaves the size unset.

### The DPDK bindings

* `MaskIsExact`, `QueueIsPerCore`: `MaskExact` and `QueuePerCore`, for every number of cores
  that `init` accepts, failed and repeated calls included; `core_mask_conv` is computed for an arbitrary number (`Digits`), and
  8-bit queue numbers suffice because there are at most 128 cores.
* `BuffersAreConserved`: `Spec => []BuffersConserved`.  `BufInv` adds that a
  handle without a buffer was never sent, so that only one with a buffer can give it away
  again, and that the descriptors in use and the owners of a buffer are finite sets.

### Only model-checked

* Liveness under fairness: `PassEnds`, `ProcessEnds`, `ThreadEnds`, `SignalEnds`.

## Not modelled

* The text of the log and the bounds of its 1024-byte buffer.
* What `set` writes into a packet buffer, and receiving packets, for which there is no code.
  `ldpdk_core_conf` has `RTE_MAX_LCORE` entries, a number of DPDK's that the repository does
  not state: whether `i <= ncore` stays within them is not checked.
* Of the download client: counters that are only printed, writing to a file (`fio` is never set), and `main`,
  which starts `core_limit` threads: nothing sets it, so it starts none.
  `mtcp_lua.c` is the same file as `mtcp_lua_thread.c`.
* `rbtree_traverse`, which prints a tree, and the commented-out test of `rbtree.c`.
* The contents of the data, partial writes, and which error text is returned.
* Clock steps backwards (`gettimeofday` is not monotonic), the overflow of
  `(int) seconds * 1000` in `mtcp.sleep`, and coroutines made with `coroutine.create`.
* `lua_resume` on a coroutine that has ended is taken to return an error and change
  nothing else.
* The capacity of the epoll queue (10240 events).

## Plan

1. Done: timers, tree, coroutines, sockets, loop, stack, the process and its log, the DPDK
   bindings, the download client; the scheduler and its refinement; the proofs above.
2. Done: proofs of every safety property that a passing run checks, the refinements included.
