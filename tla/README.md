# Verification of mcqnet

mcqnet is a header-only C++20 coroutine runtime for network programs: a
single-threaded event loop, timers, cooperative cancellation, tasks that can be
joined, socket operations over io_uring, and memory pools. This directory holds
TLA+ models of its core, the TLC configurations that check them, and
proofs of nearly every safety property, for any number of coroutines, threads, operations,
descriptors and blocks. Paths below are relative to
`src/mcqnet/include/mcqnet/`.

## The system

| Part | State | Operations | Talks to |
|---|---|---|---|
| **Runtime** (`runtime/runtime.h`) | `ready_queue_`, `owned_continuations_`, `pending_work_`, `timers_`/`timers_by_deadline_`, `stopped_`, `driving_`, `driver_thread_id_`, `completion_backend_`, all under `mutex_`; `ready_cv_` | `post`, `spawn`, `run`, `run_one`, `stop`, `set_completion_backend`; for awaitables `retain_work`, `release_work`, `enqueue_ready_continuation`, `schedule_timer`, `cancel_timer` | the backend (`poll`, `wake`), every awaitable |
| **Await protocol** (`detail/operation_base.h`, `operation_awaiter.h`, `scheduler.h`) | `state_`, the continuation and its `SchedulerBinding` | `prepare_await`, `submit`, `complete`, `cancel`, `complete_inline_exception` | retains one unit of `pending_work_` before it suspends; completion puts the continuation into `ready_queue_` |
| **Cancellation** (`runtime/cancel.h`) | `CancelState`: `stop_requested_`, `callbacks_`; per callback `armed_`, `running_`; the `CancelRegistration`s | `cancel`, `reset`, `reset(token, …)`, move | calls `cancel_from_source` of the operations |
| **Timer operations** (`time/sleep.h`, `time/timeout.h`) | `resolved_`, `timer_id_`, the registration | `submit`, `finish_from_deadline`, `cancel_from_source`, destruction | Runtime's timer tables, a token |
| **Task, JoinHandle, spawn** (`task/*.h`) | the promise's continuation and binding; `JoinState`: `ready_`, `continuation_`, schedule function, tracker | `co_await task`, `spawn`, `co_await handle`, `wait`, `set_value` | Runtime's queue and `pending_work_` |
| **Socket operations** (`runtime/io_operation.h`, `net/socket_operations.h`) | `resolved_`, `io_backend_`, registration, result | first attempt, `submit`, `complete_*`, `cancel_from_source` | the io backend, a token |
| **IoUringBackend** (`runtime/io_uring_backend.h`) | `entries_by_id_`, `pending_cancel_ids_` (`state_mutex_`), the ring (`ring_mutex_`), `wake_fd_`, `wake_poll_armed_` | `submit`, `cancel`, `poll`, `wake` | the kernel, Runtime as its driver |
| **FixedBlockPool** (`memory/fixed_block_pool.h`) | `local_free_list`, lock-free `remote_free_list`, `live_count` per chunk, `ref_count`, `retired`, `chunks` | `allocate` (owner), `deallocate` (any thread), `shutdown` (owner) | `ThreadLocalPool` |
| **ThreadLocalPool** (`memory/thread_local_pool.h`), under ObjectPool, memory_resource and coroutine frames | per thread, a pool for each size class; fallback allocations | `allocate`, `deallocate`, `usable_size`, end of the thread | FixedBlockPool, `operator new` |
| **TcpStream, TcpListener, LinuxSocketApi** (`net/`) | `socket_`, a descriptor nobody closes implicitly | `open`, `close`, move, `reset`, `release_socket`, `bind`, `listen`, `accept_raw`, `connect`, `read_some`, `write_some`, `shutdown` | the kernel's descriptor table; operations copy the handle |
| value types, configuration (`net/`, `core/`, `config/`) | none that changes | | |

What makes this code hard, and what each part must guarantee:

- **Runtime.** Any thread may post, spawn, stop, arm or cancel a timer while one
  thread drives. Notification (`ready_cv_`, `backend->wake()`) happens *after*
  `mutex_` is released. `pending_work_` is incremented by the awaitables and
  decremented by the loop, far apart. Correct means: the counter is exact; a queued
  continuation is resumed once; a blocked driver that could go on has been, or
  is about to be, notified; armed timers refer to living sleeps; `run()` returns only
  when it has drained everything, and does return after `stop()`.
- **Cancellation.** `reset()` races a callback that runs on another thread; a
  registration races the stop. Correct means: `reset()` is a barrier, and a
  stop reaches every callback.
- **Timer operations.** Deadline, cancellation, submission and destruction race.
  Correct means: one completion, and nobody touches the operation after it.
- **Join.** `set_value` races `co_await` and `wait()`, on bound and unbound threads.
  Correct means: whoever waits goes on, with the result, where it belongs; no frame is
  used after its destruction; the work is counted.
- **IoUring.** A completion, a cancellation, a wake-up and the driver waiting in the
  kernel. Correct means: each entry has exactly one completion to come, and a
  wake-up or a cancellation takes effect.
- **FixedBlockPool.** Remote frees race `shutdown()`. Correct means: blocks are
  never in two places, chunks and the control block are freed once, last.
- **ThreadLocalPool.** `deallocate()` finds everything it needs right in front of
  the caller's storage, on whatever thread, also after the allocating thread has
  ended. Correct means: storage is aligned, large enough, nobody else's, and apart from
  headers; a thread that has ended leaves nothing behind but what callers still hold.
- **Sockets.** Descriptors are numbers the kernel reuses, copied into operations and
  looked at again when a completion comes. Correct means: each open one has exactly
  one owner, an operation is about the file its stream holds when it is awaited, and
  its result is that of its own request.

`PROJECT.json` lists the hazards one by one, with their lines and the
properties that watch them.

## The modules

| Module | Models |
|---|---|
| `Runtime` | the event loop and its clients: awaits, timers, cancellation of a sleep, foreign threads |
| `Executor` | abstract: what the loop promises, with no lock, condition, backend or counter |
| `RuntimeExecutor` | the refinement mapping from `Runtime` to `Executor` |
| `RuntimeInvariant` | the inductive invariants of `Runtime` |
| `Cancel` | `CancelState`, callbacks, registrations |
| `TimerOp` | one sleep or timeout; composes `Cancel` by `INSTANCE` |
| `Join` | one task, its bridge coroutine, its handle and whoever waits |
| `AsyncIo` | abstract: what a socket operation promises its awaiter, with no queue, table or ring |
| `IoUring` | socket operations, the backend, the ring and the loop around `poll()`; implements `AsyncIo` |
| `Sockets` | streams, listeners, descriptors and open files, and what each kind of operation does to them |
| `BlockPool` | abstract: what a pool of blocks promises, with no list, counter or thread |
| `FixedBlockPool` | the pool; implements `BlockPool` |
| `Heap` | abstract: what `allocate()` and `deallocate()` promise |
| `Layout` | addresses and sizes; `align_up` |
| `ThreadLocalPool` | size classes, the layout of chunks, blocks and fallback allocations; implements `Heap` |
| `RuntimeProofs`, `CancelProofs`, `TimerOpProofs`, `JoinProofs`, `IoUringProofs`, `SocketsProofs`, `FixedBlockPoolProofs`, `ThreadLocalPoolProofs` | for each of these modules its inductive invariant and its theorems, proved with TLAPS |
| `MC*` | add symmetry sets, if any, for TLC |

Definitions commented *Faulty* are plausible mistakes in the code. No
specification uses them; each one, put in the place of the definition that follows
it, makes the property it is aimed at fail (`mutants` in `PROJECT.json`), which is
how the properties were tested.

**Granularity.** One action is one critical section, one access of an atomic
variable, or one system call, with the private code around it. What a call does
after it has released the lock is a later action: in `Runtime` the pending
notifications of thread `t` are `tail[t]`, with the backend pointer read under
the lock; in `Cancel`, `TimerOp` and `IoUring` the program counters `pc`, `where`
and `body` separate the steps. A coroutine's body is any sequence of awaits
(`RetainWork`, then one of the `Submit…` actions) and calls.
Two modules look at the same code on a coarser scale, for what the fine one leaves out.
In `ThreadLocalPool` a call of a pool is one step, as `ImplementsBlockPool` justifies: a block is
with one caller or with none, and its chunk is there (a real pool may take a new chunk a little
earlier, while a block is on its way back). In `Sockets` a call, or the `submit()` of an operation, is
one step, because the coroutines of one runtime and its completions run one at a time; the
kernel, the peers and the completion of a request are steps of their own. `IoUring` has the
threads, the locks and the ring, and knows nothing of descriptors.

**State.** Variables carry the members' names where they can (`ready` is
`ready_queue_`, `pending` is `pending_work_`, `timer[c]` is the deadline of
`c`'s entry in both timer tables, `driver` stands for `driving_` and
`driver_thread_id_`). `co[c]` in `Runtime` says where a coroutine is: queued,
running, between `retain_work` and `submit` (`retained`), asleep, in io, waiting for
another party, or suspended without retained work (`parked`, `untracked`).
`frame` and `cur` are the driver's local variables: the batch of expired timers or
completions, the deadline of the wait, the item popped.
`Sockets` keeps two kinds of names apart: a descriptor (`handle`, `hand`, `op[i].socket`) is
what the program has, a file (`op[i].file`) what the kernel works on; `table` connects them.
In `ThreadLocalPool` an allocation is where it lies and what was asked for, all in bytes;
what is free is what no block in a caller's hands uses.

**Assumptions of the models.** Atomics are sequentially consistent. A freed
chunk's memory keeps what it held, but `live_count` read from it is arbitrary.
`now` advances in steps; a deadline is a number up to `MaxTime`. Registrations
in `IoUring` behave as `Cancel` shows they do: the callback runs at
most once, and `reset()` waits for it. Of the kernel, `Sockets` assumes what
`socket(7)` and io_uring document: numbers are reused, a request keeps its file open, `close()`
frees the number even when it reports an error, SO_ERROR is cleared by reading. That the request
of a connect answers EALREADY during a handshake was observed on Linux 6.18.

## The runs

`tlc -workers 2 -config X.cfg MC….tla` in this directory; the largest takes about
a minute and a half.

| Run | Bounds | Shows |
|---|---|---|
| `RuntimeRun` | 2 coroutines, 2 threads that both may drive; `run()`, every public call, sleeps, io and failing submissions, two awaits each, clock to 2 | `TypeOK`, `WorkAccounted`, `QueuedOnce`, `SleepersCanWake`, `NoLostWakeup`, `ReturnsDrained`, `ImplementsExecutor` |
| `RuntimeRunOne` | 2 coroutines, 2 threads; `run()` and `run_one()` mixed over a user's backend; every kind of await, joins included | `IInv`: the invariant of the proofs survives what `run_one()` drops and what a join does not count |
| `RuntimeLive` | as `RuntimeRun` with one driver, one await each | `StopReturns`, `QueuedRuns`, `SleepsEnd` |
| `Cancel` | 2 registrations, 3 callbacks, 2 threads | `TypeOK`, `ResetIsBarrier`, `ArmedIsReachable`, `OwnedOnce`, `CallsReturn` |
| `TimerOp` | one sleep, its driver and two threads that cancel | `DestroyedIsUnreachable`, `CompletedOnce`, `SleepEnds` |
| `Join` | a task that suspends up to twice, two awaiters, one `wait()`, the driver and two threads | `WorkAccounted`, `FramesAreAlive`, `ResultIsThere`, `ReturnsHome`, `JoinCompletes` |
| `IoUring` | a cancellable receive and a send; the driver and another thread; timeouts zero and finite; one post; submissions that find the ring full | `EntryHasCompletion`, `DestroyedIsUnused`, `WakeReachesDriver`, `CancelLands`, `PostRuns`, `ImplementsAsyncIo` |
| `Sockets` | 2 streams, a listener, an operation of any of the four kinds, one after the other; 2 descriptors, 3 files; handshakes of any length | `DescriptorsAreOwned`, `RequestsHitTheirStream`, `ConnectTellsTheTruth` |
| `Pool` | 2 chunks of 2 blocks, the owner and 2 threads | `LiveCounted`, `OnePlace`, `FreedByTheLast`, `ImplementsBlockPool` |
| `ThreadLocalPool` | 2 threads; 2 size classes with chunks of 2 and 1 blocks; requests of size 0, for either class, over-aligned, too large; 5 addresses; 3 allocations | `MetadataIsSafe`, `ExitedKeepsNothing`, `ImplementsHeap` |
| `WakeIgnored` | violates `PostRuns` | finding 1 |
| `ConnectInProgress` | violates `ConnectIsOver` | finding 2 |

**Why the bounds suffice.** The races are between pairs: the driver and one
foreign thread, a timer and a cancellation of it, an awaiter and a completer.
Two coroutines give a queue with an order, a batch in which one member is
cancelled, and one item in hand while another is queued; two awaits let
a coroutine come back to a stale timer, batch entry or wake-up of its first await.
`MaxTime = 2` gives an earlier and a later deadline with a time before both.
In `Cancel`, three callbacks let a registration be reused and moved while the
list still holds two. Two chunks of two blocks give a chunk that is free while the
other is not, and a remote list with more than one element; two remote threads may
race each other as well as the owner. A second thread in `IoUring` is a submitter,
a canceller or a poster in turn. `MaxPost` bounds a task that posts itself, which
would keep the driver from polling for ever (a property of the code: `run()`
polls only when the queue is empty). An accept and a connect in place of the receive and the
send give the same results (96,469 states). In `Sockets` two descriptors and three files let
a number be reused while a request still holds the file it named before, and an operation
outlive its stream's socket; with two operations at a time, of three kinds, on one stream the
properties hold, too (about a million states). In `ThreadLocalPool` the five addresses are
too few for everything to fit, so chunks and fallback allocations lie next to each other and
memory is reused; the theorems drop every bound. Coroutines and threads are interchangeable in
`RuntimeRun` (both drive), coroutines in `RuntimeRunOne`, remote threads and chunks in
`Pool`, streams, operations, descriptors and files in `Sockets`; only there symmetry is used, and no liveness property is checked with it.

**Deadlock** is not checked (`CHECK_DEADLOCK FALSE`): the system may stop. `run()`
waits for ever when nothing is pending and nobody calls `stop()`, and the bounded
programs come to their end. The type invariants of `TimerOp`, `Join`, `IoUring`,
`FixedBlockPool` and `Sockets` are theorems; their runs check what says more.

**Fairness.** Every `LiveSpec` assumes weak fairness of the steps *inside* calls:
a thread that has entered a call, a callback or a coroutine body goes on, because the
scheduler of the operating system runs it. Nobody is obliged to make
a call: `stop()`, `post`, `cancel`, or to send bytes. Beyond that,
`Runtime` assumes that the clock advances and that what was handed to another
party or to the backend completes (without it `run()` rightly never returns after
`stop()`); `TimerOp` that an armed timer is collected, which `SleepsEnd` shows of
the driver; `IoUring` that the kernel reports `wake_fd_` readable and deadlines pass, but
not that a request ends; `Join` not even that what the task awaits completes.

### Notes on some properties

- `NoLostWakeup` allows the driver to be blocked although it could go on only while
  some thread still carries the notification in `tail`, or the wake-up is
  latched in the backend. Timers are asked of `poll()` only: for `ready_cv_` the
  code fails it (the second deviation below).
- `WakeReachesDriver` is about `wake_fd_` alone, and holds whatever else goes wrong; what the
  driver makes of the wake-up is `CancelLands` and `PostRuns`.
- `ImplementsExecutor` says more than the invariants: continuations are taken
  in the order they became ready, one turn at a time, and the driver leaves
  only when closed and empty.
- `ReturnsDrained` compares `Counted`, the ghost count over `co`, not
  `pending_work_` itself, with the return of `run()`.
- `OnePlace` follows a block through all the places it can be, including a push
  to the remote list by a thread that read `retired` before `shutdown()` set it.
- `FreedByTheLast` says both that nothing is freed under a block that is out or in
  flight, and that when the last reference is gone everything is.
- `ImplementsBlockPool` leaves the callers what they see: the blocks they hold and the memory
  that is there. A chunk goes only after `shutdown()`, when none of its blocks is held, and the
  control block after the last chunk.
- `ImplementsAsyncIo` maps the cancelled sources to `asked` and what the kernel works on to
  `lent`. It excepts connect, which takes any `ECANCELED` for a cancellation, from reporting
  a cancellation only to who asked.
- `ImplementsHeap` holds for the sizes of a debug build; see the deviations.
- `DescriptorsAreOwned` counts the program's mistakes as an owner: a handle that was
  overwritten or destroyed without `close()` is `dropped`, a leak the code documents
  (`tcp_stream.h:89`, `:193`). What it rules out is two owners, or an owner of a number that is free.
- `RequestsHitTheirStream` is about the moment of submission. Closing a stream afterwards does
  not end its pending requests: they hold the file.
- `CancelLands` and `PostRuns` hold for finite timeouts; see finding 1 and the
  deviations of `IoUring`.

## Findings

Each is a run that TLC finds violated; `PROJECT.json` quotes the code and what it
contradicts.

1. **`poll()` without a deadline does not return for a wake-up**
   (`io_uring_backend.h:154`): a `post()` or `stop()` made while the driver waits for
   io is seen only when some io completes.
2. **A connect is completed with "in progress"** (`io_uring_backend.h:366`): the request
   calls `connect()` again, the kernel answers EALREADY at once while the handshake of the
   first attempt goes on, and `co_await` returns `completed = false, would_block`. Over loopback,
   as in the tests, the handshake is over by then.

### Other deviations met while modelling

All but the last group are kept out of the passing runs by a constant: with the value named
here, TLC shows the violation.

- *Runtime, `"one"` in `Entry`:* `run_one()` pops an item, finds expired timers in the same
  section, dispatches them and `continue`s: the item is neither resumed nor queued again
  (`runtime.h:384`, `QueuedOnce`). It also returns with collected timers undispatched
  (`:379`, `SleepersCanWake`).
- *Runtime, `"host"` in `Op` of `RuntimeLive`:* without a backend, the predicate of the wait on
  `ready_cv_` (`runtime.h:329`) ignores timers: a sleep armed by a coroutine on another
  thread may never end (`SleepsEnd`).
- *Runtime, `"join"` in `Await` with `"spawn"` and `"host"`; Join, `Untracked = TRUE`:* the
  handle of `Runtime::spawn()` awaited outside the runtime retains no work and is resumed through
  the queue, so `pending_work_` is decremented below zero: `DecrementIsPaidFor` (the assertion of
  `runtime.h:676`) and `WorkAccounted`.
- *Runtime, `InitBackend = "owned"` with `"swap"` in `Op`:* `stop()` or `post()` wakes the backend
  whose pointer it read under the lock (`runtime.h:285-289`) when `set_completion_backend` may
  have destroyed it: `WakesLiveBackend`, which is in no run.
- *ThreadLocalPool, `HeaderSize = 40`:* the sizes of a release build, where `AllocationHeader` has
  no `magic` and `state`. The first block begins 40 + 40 + 8 bytes behind an aligned address
  (`fixed_block_pool.h:344`), so every block is misaligned by 8: `BlocksAreAligned`,
  `ImplementsHeap`. A program built with g++ and without `MCQNET_DEBUG` shows the same.
- *Sockets, `CloseFails = TRUE`:* after a `close()` that reports an error the object keeps the
  number (`linux_socket_api.h:64`), which Linux has freed: `DescriptorsAreOwned`.
- *Sockets, `"connect"` in `CloseUnder`:* `complete_connect()` reads SO_ERROR of a number that
  may be closed, or somebody else's by then (`io_uring_backend.h:374`): `ConnectTellsTheTruth`.
- *IoUring, `"submit"` in `Failures`:* when `io_uring_submit()` fails the entry is erased but the
  prepared request stays in the ring (`io_uring_backend.h:93`), and the kernel later gets the
  buffer of a destroyed operation: `EntryHasCompletion`, `DestroyedIsUnused`.
- *IoUring, `Timeout = {"max"}`:* a cancellation or post between `flush_pending_cancel_submissions()`
  (`io_uring_backend.h:125`) and `drain_ready_cqes()` (`:127`) loses its wake-up to the drain
  and waits for the deadline, however long, or for ever without one.
- *IoUring, `Early = TRUE`:* a cancellation from another thread while `submit()` runs.
  Between the check and the assignment of `io_backend_` it completes the operation while
  submission goes on; before the entry exists it is lost; a driver may destroy
  the operation under a foreign `submit()`. Violates `DestroyedIsUnused`,
  `EntryHasCompletion` and `CancelLands`.
- *TimerOp, `Submitter` other than `Driver`:* `submit()` uses the operation after it
  has armed the timer (`sleep.h:97`), when the driver may have destroyed it:
  `DestroyedIsUnreachable`.
- *TimerOp, `"cancellable"` in `Throws`:* a `schedule_timer` that throws after the
  registration was armed may complete the operation twice (`operation_base.h:147`):
  `CompletedOnce`.
- *FixedBlockPool:* `ReadsLiveChunk` (defined, in no run) is violated. `shutdown()` follows
  the next pointers of blocks whose chunk another thread may free
  (`fixed_block_pool.h:425-429`); a returning thread reads `live_count` again (`:377-385`)
  after its decrement (`:225`), when `shutdown()` (`:437-439`) may have freed the
  chunk. The model carries on past both, with what such reads may return.
- *Join:* a second awaiter of the same handle overwrites `continuation_`
  (`join_handle.h:107`), and the first one is never resumed; `JoinCompletes` speaks of the
  awaiter the handle remembers.

Read from the code and not in a model: `usable_size` of a fallback allocation is truncated to
32 bits, so that of 2^32 bytes is 0 (`thread_local_pool.h:222`), and the sum in `:199` wraps near
SIZE_MAX (`SizeAssumption` keeps requests below); `~Runtime()` destroys frames under
`mutex_`, which the destructor of a pending sleep locks again (`runtime.h:218`);
`finish_ready_item` calls `done()` on the freed frame of a `DetachedTask`
(`runtime.h:680`); a callback that resets its own registration waits for itself
(`cancel.h:58`); a second consumer of a `JoinHandle` gets a moved-from value
(`join_handle.h:118`).

## The proofs

`tlapm M.tla` checks the proofs of one module; they take from half a minute to about six
minutes. Every theorem holds for all values of the constants that the module's `…Assumption`
admits, so for any number of coroutines, threads, registrations, operations, descriptors,
chunks and blocks. Where a theorem has a hypothesis, the counterexample without it is among
the deviations above; each hypothesis excludes just that.

| Module | Theorem | States | Under |
|---|---|---|---|
| `RuntimeProofs` | `TypeCorrect` | `[]TypeOK`; only the thread `begin_drive` admitted is in the loop | |
| | `InvariantHolds` | `[]IInv` | |
| | `PendingWorkIsExact` | `[]WorkAccounted` | `"join" \notin Await` |
| | `ArmedTimersAreLive` | `[]TimersAreLive` | |
| | `RunReturnsDrained` | `ReturnsDrained` | `"join" \notin Await` |
| | `QueuedContinuationsStay` | `[]QueuedOnce` | `"one" \notin Entry` |
| | `SleepersAreNotForgotten` | `[]SleepersCanWake` | `"one" \notin Entry` |
| | `WakeUpsAreNotLost` | `[]NoLostWakeup` | |
| | `RunImplementsExecutor` | `ImplementsExecutor` | `"one" \notin Entry`, `"join" \notin Await` |
| `CancelProofs` | `InvariantHolds`, `TypeCorrect` | `[]IInv`, `[]TypeOK` | |
| | `ResetIsABarrier` | `[]ResetIsBarrier` | |
| | `NoCallbackIsStranded` | `[]ArmedIsReachable` | |
| | `RegistrationsOwnAlone` | `[]OwnedOnce` | |
| `TimerOpProofs` | `InvariantHolds`, `TypeCorrect` | `[]IInv`, `[]TypeOK` | `Limits` |
| | `NothingIsLeftBehind` | `[]DestroyedIsUnreachable` | `Limits` |
| | `OneCompletionWins` | `[]CompletedOnce` | `Limits` |
| `JoinProofs` | `InvariantHolds`, `TypeCorrect` | `[]IInv`, `[]TypeOK` | |
| | `ResultIsAlwaysThere` | `[]ResultIsThere` | |
| | `FramesStayAlive` | `[]FramesAreAlive` | |
| | `WorkIsAccounted` | `[]WorkAccounted` | `~Untracked` |
| | `AwaitersReturnHome` | `ReturnsHome` | |
| `IoUringProofs` | `TypeCorrect` | `[]TypeOK` | |
| | `WakeUpsArrive` | `[]WakeReachesDriver` | |
| | `InvariantHolds` | `[]IInv` | `Limits` |
| | `EntriesAreAnswered` | `[]EntryHasCompletion` | `Limits` |
| | `DestroyedIsLeftAlone` | `[]DestroyedIsUnused` | `Limits` |
| | `AsyncIoIsImplemented` | `ImplementsAsyncIo` | `Limits` |
| `SocketsProofs` | `TypeCorrect` | `[]Typed` | |
| | `OwnershipHolds`, `DescriptorsHaveOneOwner` | `[]OwnInv`, `[]DescriptorsAreOwned` | `~CloseFails` |
| | `RequestsFollowTheirStream` | `RequestsHitTheirStream` | |
| | `FilesHold`, `ConnectReportsItsAnswer` | `[]FileInv`, `ConnectTellsTheTruth` | `"connect" \notin CloseUnder` |
| `FixedBlockPoolProofs` | `InvariantHolds`, `TypeCorrect` | `[]IInv`, `[]TypeOK` | |
| | `LiveCountIsExact` | `[]LiveCounted` | |
| | `BlocksAreInOnePlace` | `[]OnePlace` | |
| | `LastReferenceFrees` | `[]FreedByTheLast` | |
| | `PoolImplementsBlockPool` | `ImplementsBlockPool` | |
| `ThreadLocalPoolProofs` | `InvariantHolds` | `[]IInv` | |
| | `MetadataStaysSafe` | `[]MetadataIsSafe` | |
| | `ExitedThreadsKeepNothing` | `[]ExitedKeepsNothing` | |
| | `PoolImplementsHeap` | `ImplementsHeap` | `LayoutAligned` |

`Limits` of `TimerOpProofs` says that the driver of the runtime submits the sleep and that
`schedule_timer` throws only for one without a token; `Limits` of `IoUringProofs` that no
operation is cancelled while it is submitted (`~Early`) and that `io_uring_submit()` does not
fail, while a full ring is allowed. `LayoutAligned` is met by a debug build.
The assumptions of the modules say that null values are none of the others, that what is
counted is finite, and that the names of kinds and stages the modules use as tags
(`"task"` in the queue of `IoUring`, `"reset"` and `"add"` as what a call of `Cancel` is
for) are not at the same time operations or registrations.

A property is seldom inductive, and each module's `IInv` says what its steps rely on. `IInv`
was checked with TLC on the instances of the runs before it was proved. A proof has, for every
part of `IInv`, a lemma with one step for each action; operators that only reshape sequences or
sets have lemmas of their own (`AppendElems`, `TailElems`, `AppendIn`, `CountMove` …).

### Runtime

`WorkAccounted` is not inductive: to know that a step moves the
counter as it moves the count, one must know in which state the coroutine was
that the step completes. `IInv` therefore adds `Structure`, who may hold a coroutine:

- `BodiesSound`: a thread in a body executes a running coroutine nobody else
  executes, so suspending it removes one unit and no other thread is affected;
- `CancelsSound`: a cancellation in progress owns a sleeping, resolved operation, so
  its completion queues a coroutine that was counted, and once;
- `BatchSound`: what the driver has collected is suspended, or was cancelled
  meanwhile and will be skipped, so a dispatch never queues a coroutine twice;
- `IoSound`, `QueueSound`, `DriverSound`: a completion belongs to a coroutine in io; what
  is queued or in hand is `queued`, once; the driver holds something only where it
  popped it;
- `TimersAreLive`: a timer collected into the batch is that of a sleeper;
- `JoinsTracked`: no coroutine is suspended untracked, if joins are not.

`Structure` holds for `run_one()` and untracked joins, too; only `WorkAccounted` needs
joins to be tracked. `RunReturnsDrained` adds that only `RunReturn` takes `run()` from the top
of the loop to its end (`OnlyRunReturnEnds`), where `pending = 0` gives `Counted = {}` by the
account, and `TimersAreLive` that no timer is armed.

What `run_one()` breaks is a second invariant, `RunInv`, for `run()` alone. `QueueSound`
says that what is in the queue is queued; `QueuedThere` is the converse, that what is queued
is there. It needs `OnlyRun`: a driver that dispatches timers has nothing in hand, which
is the very thing `run_one()` does not keep. `SleepersCanWake` needs `ResolvedIsCancelled`: a
sleep whose `resolved_` is set and that still sleeps has a thread in `cancel_from_source`.

`NoLostWakeup` holds for both entries. Its proof goes by what the notifier changed: each
section that makes a blocked driver able to go on leaves its notification in `tail` of the
thread that ran it, and `EndOfTurnWakes` covers the many ways a coroutine's turn may end,
arming an earlier timer among them.

`RunImplementsExecutor` maps a coroutine to what the Executor sees of it (`StateOf`): what
`run()` has popped is already having its turn. A step then moves at most one coroutine
(`MoveEffect`) and is a step of the Executor, or moves none (`NothingMoves`).
The ends of a turn (`EndOfTurnSteps`), the wake-ups of suspended coroutines (`WakeSteps`) and the
arrivals from outside (`AcceptSteps`) are each one family of steps. `FinishSound`
gives that a turn that is over has left the coroutine suspended or done, and
`NothingCounted` that nothing is suspended when `run()` returns.

### Cancellation

`ResetIsBarrier` looks at the end of `reset()`, and the proof has to follow the callback
through the whole call. `CallsSound`: while a registration is in a call, no other
call touches it, and it still has the callback the call is about. `FreshSound`: the state that
`reset(token, …)` makes is in no registration and on no list. `KnownSound`: what is armed
or running has a context, and the list of a source has no duplicates, so that `erase`
removes all there is of a callback. `DisarmedSound` is the heart: after `disarm_and_wait` has
cleared `armed_`, nothing sets it again, and a thread that is past `invoke()`'s check has
set `running_`, for which the wait waits.

### Timer operations

The token of a sleep is not proved about again. `Proved == INSTANCE CancelProofs`
brings the invariant of `Cancel` over, `TokenMoves` shows that every step of `TimerOp` is a step
of `Cancel` or leaves the token's variables alone, and so `Proved!IInv` is inductive here, too.
On top of it, `Arbiter` says that of deadline and cancellation one has won `resolved_`, and
that it finds the operation awaiting until it has completed it; `Arming` that the
callback is the driver's own until it is registered, so that a stop requested earlier runs it
there; `TimerSound` that an entry in the timer tables is wanted, or that whoever is to take
it out already has its id or is about to read it. The last is what `submit()` checks again for
after it has published the id (`sleep.h:97-103`); without that check it is not inductive.

### Join

`QueueSound` (no coroutine is queued twice, and each at a point where it may be resumed) and
`StagesSound` (the bridge's stage determines the task's) make `FramesAreAlive` a
consequence. `JoinSound` ties `JoinState`'s schedule function, its tracker and the awaiter it
remembers together: an awaiter waits with a unit of work exactly if the state has a
tracker. `WorkAccounted` is proved by counting: the queue by its length, the driver's item,
the operation of the task, the bridge and the awaiters that wait, each moved by the actions one
at a time (`WorkStep`).

### IoUring

`WakeSound` is small and independent of the rest: `wake_poll_armed_` means that the request
on `wake_fd_` is with the kernel or its completion is in the ring, and `poll()` waits
only with it armed.

The other properties rest on knowing who works on an operation. `Alone`: two threads are in
the code of the same one only when the driver waits, on its way to destroying it, for a
callback that runs. `SubmitSound` and `LeaveSound` are what a thread in `submit()` and in a
callback found out earlier and still relies on. `EntrySound`: an
entry stands for an operation that waits, with either its request in the kernel or exactly one
completion in the ring. `RegSound`: no registration is armed on an operation that is over. The completion queue
is handled by counting the positions an operation has in it (`In`, `AppendIn`, `TailIn`).
`AbstractStep` then goes through the actions once more: only the end of an operation, a
cancellation, the request reaching the kernel, its answer and the destruction are visible to `AsyncIo`.

### Sockets

Two invariants that are independent of each other. `OwnInv`: a descriptor has at most one
holder, of one kind (`HeldOnce`), and is open exactly if it has one (`OpenIsHeld`); the
descriptor of an accepted connection travels in the operation from the answer to the completion
(`AcceptedIsAnswered`), which is the point at which it could be lost or given out
twice. `FileInv`: no file has two descriptors, and a connect finds at completion the socket it
left at its answer (`ConnectSound`). `RequestsHitTheirStream` is an action property and needs only
`Typed`: the binding is refreshed in the same step that submits.

### FixedBlockPool

`LiveCounted` and `RefsCounted` give the two counters a meaning, and both have to count threads
in the middle of `deallocate()`: a block on its way back still counts in `live_count`,
while its thread already holds the reference the block had. `CarriedOnce` and `FreeIsThere` keep blocks
apart until the pool is retired. `FreedByTheLast` needs `ChunksHaveKeepers`: a chunk of a
retired pool has a block out, or `shutdown()` is still to look at it, or a thread has brought its
`live_count` to 0 and is on its way to free it. With no reference left none of these
is possible, so no chunk is left either. `TypeOK`'s bound on `live_count` follows from
`LiveCounted`.

The refinement puts them together: a block handed out was nobody's (`OnePlace`) and of a chunk
that is there (`FreeIsThere`), a chunk that is freed has none out (`LiveCounted`), and the
last `release_pool` finds nothing left (`FreedByTheLast`). Its one addition is
`SweepIsMade`: `shutdown()` looks only at chunks that were made, so that its sweep frees
none anew.

### ThreadLocalPool

It rests on `LayoutAssumption`, `AlignAssumption` (what `operator new` returns is a multiple of
`MaxAlign`; alignments divide each other, as powers of two do) and `SizeAssumption`.
`PoolImplementsHeap` also needs `LayoutAligned`, that ChunkControl, AllocationHeader and
AllocationPrefix together are a multiple of `MaxAlign`: 40 + 48 + 8 is, 40 + 40 + 8 is not.

What the abstract heap asks of an allocation, that it overlaps no other,
cannot be seen from `blocks` alone: two blocks may be of two chunks, and a chunk may lie next to
a fallback allocation. `IInv` says it of the raw memory, where `operator new` gives it
(`RawApart`), and that blocks in the callers' hands are distinct blocks of chunks that are there
(`HeldIsThere`, `HeldOnce`). `BlockLayout` and `FallbackLayout` then place the storage within
its raw allocation, behind its own header and in front of the next, `BlockAligned` aligns it, and
`RegionsApart` concludes that storage is disjoint. The refinement has a trap: a step that frees a
chunk with its last block must remove exactly one region, and one that allocates add one,
although regions are records of an address, a length and a request; `RegionsDiffer` says that
different allocations have different regions.

### Only model-checked

Liveness: fairness and `ENABLED` are beyond the prover. So `StopReturns`, `QueuedRuns`,
`SleepsEnd`, `CallsReturn`, `SleepEnds`, `JoinCompletes`, `CancelLands` and `PostRuns` stand on
the runs alone. Every safety property of a passing run is a theorem, under the
hypotheses of the table.

## Not modelled

- `~Runtime()`, the destruction of suspended frames, exceptions of `poll()` and failing
  allocations in the loop.
- Operations without a scheduler, which resume inline (`Join` has the inline resumption of
  a joiner).
- A failing wait for completions, wrapping request ids, tearing a ring down with requests in it.
- `Runtime`'s view of its backend and `IoUring` are two models of one contract
  (`completion_backend.h`), not connected by a refinement; finding 1 says that without
  a deadline there is none. `AsyncIo` is the part of the contract towards an operation.
- `IoUring` and `Sockets` are two views of the socket operations, connected by the lines both
  translate and not by a refinement: their product is out of TLC's reach.
- Socket options, addresses, the runtime handle an object hands to its operations, a half-closed
  writing side, buffers of length 0: they change no state the properties tell apart.
- Calls of one stream from two threads at once, which the objects do not claim to support.
- `MemoryResource` and `ObjectPool` beyond the calls of ThreadLocalPool they make.
- Running out of memory, in either allocator.
- Value types and configuration: nothing that changes.

## Plan

The order puts the event loop first, since everything goes through it. Done: the
event loop, its abstract specification and proofs; cancellation; one timer operation over
cancellation; the join; the ring with failing submissions and its abstract specification; the
sockets; both levels of the allocator; the inductive invariants of all of them, their safety
properties and the four refinements, proved.

What is left:

1. `ThreadLocalPool` over `BlockPool`: a pool that may take a new chunk while a block is still
   on its way back;
2. `Cancel` as what `IoUring` takes a registration for: a callback that runs at most once,
   and a `reset()` that waits for it;
3. what holds of an operation without the hypotheses of `IoUringProofs`, beyond `WakeUpsArrive`;
4. of the models, the destruction of a suspended frame and of the runtime, which needs a
   `Runtime` whose coroutines may disappear from the tables they are in.
