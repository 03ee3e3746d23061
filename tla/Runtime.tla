------------------------------- MODULE Runtime -------------------------------
(***************************************************************************)
(* The single-threaded event loop of mcqnet (runtime/runtime.h) together   *)
(* with the protocol its clients follow: awaitables that retain work       *)
(* before they suspend a coroutine and schedule its continuation when they *)
(* complete, timers, cancellation of a sleep, and calls from threads that  *)
(* do not drive the runtime.                                               *)
(*                                                                         *)
(* One action is one critical section of Runtime::mutex_ with the code     *)
(* around it that touches no shared state.  What a call does after it has  *)
(* released the mutex (ready_cv_.notify_*, CompletionBackend::wake) is     *)
(* kept in tail[t] and carried out by actions of its own, so every         *)
(* interleaving of the notification with the driver is explored.           *)
(***************************************************************************)
EXTENDS Naturals, Sequences, FiniteSets

CONSTANTS
  Coro,         \* the coroutines
  Thread,       \* the threads that call into the runtime
  Runner,       \* the threads that may call run() or run_one()
  Entry,        \* which of "run" and "one" (run_one) they call
  Op,           \* which public calls are made, see the guards below
  Await,        \* what a coroutine may co_await, see the guards below
  InitBackend,  \* the completion backend the runtime is constructed with
  MaxTime,      \* bound on the clock
  MaxAwait,     \* bound on the awaits of one coroutine
  NoCoro, NoThread

\* "owned" is the backend the runtime created itself, "user" a caller's.
Backend == {"owned", "user"}

ASSUME RuntimeAssumption ==
  /\ Coro # {} /\ IsFiniteSet(Coro) /\ NoCoro \notin Coro
  /\ IsFiniteSet(Thread) /\ NoThread \notin Thread /\ Runner \subseteq Thread
  /\ Entry \subseteq {"run", "one"}
  /\ InitBackend \in Backend \cup {"none"}
  /\ MaxTime \in Nat /\ MaxAwait \in Nat

VARIABLES
  ready,       \* ready_queue_: the continuations, in order
  owned,       \* owned_continuations_
  pending,     \* pending_work_
  timer,       \* timers_ and timers_by_deadline_: the deadline of c's timer
  stopped,     \* stopped_
  driver,      \* driving_ and driver_thread_id_
  backend,     \* completion_backend_
  mode,        \* the driver's entry; "polled" is run_one with backend_polled
  batch,       \* the driver's expired_timers, or the completions poll reaps
  limit,       \* the deadline of the driver's wait_until or poll
  pc, cur,     \* where each thread is, and the coroutine it holds
  tail,        \* what t must still notify after its critical section
  cancelling,  \* the sleep t is inside cancel_from_source for
  co,          \* the state of each coroutine
  awaits,      \* how many awaits it has started
  resolved,    \* BasicTimerOperation::resolved_ of its current sleep
  latch,       \* backends whose wake() has not been consumed by a poll
  ioready,     \* coroutines whose io has completed in the backend
  now          \* steady_clock

queue == <<ready, owned, pending>>
control == <<stopped, driver, backend>>
frame == <<mode, batch, limit>>
threads == <<pc, cur, cancelling>>
coros == <<co, awaits, resolved>>
io == <<latch, ioready>>
vars == <<queue, timer, control, frame, threads, tail, coros, io, now>>

Never == MaxTime + 1          \* no timer armed, or no deadline to wait for

CoroState ==
  {"new", "queued", "running", "retained", "sleeping", "io", "waiting",
   "untracked", "parked", "done"}
\* The coroutines one unit of pending work stands for.
Tracked == {"queued", "retained", "sleeping", "io", "waiting"}
DrivePc == {"loop", "dispatch", "cv", "woken", "poll", "resume", "finish", "end"}

Init ==
  /\ ready = <<>> /\ owned = {} /\ pending = 0
  /\ timer = [c \in Coro |-> Never]
  /\ stopped = FALSE /\ driver = NoThread /\ backend = InitBackend
  /\ mode = "run" /\ batch = {} /\ limit = Never
  /\ pc = [t \in Thread |-> "idle"] /\ cur = [t \in Thread |-> NoCoro]
  /\ tail = [t \in Thread |-> {}]
  /\ cancelling = [t \in Thread |-> NoCoro]
  /\ co = [c \in Coro |-> "new"] /\ awaits = [c \in Coro |-> 0]
  /\ resolved = [c \in Coro |-> FALSE]
  /\ latch = {} /\ ioready = {} /\ now = 0

-----------------------------------------------------------------------------
(* Notification: what follows a critical section, outside the mutex.       *)

\* A thread is between calls, or in a coroutine body that may make one.
Quiet(t) == tail[t] = {} /\ cancelling[t] = NoCoro
Free(t) == Quiet(t) /\ pc[t] \in {"idle", "body"}

\* Faulty: the condition variable is forgotten.
SignalBackendOnly == {backend} \ {"none"}

\* notify ready_cv_, and wake the backend read under the lock (if any).
Signal == {"cv", backend} \ {"none"}

\* notify_one/notify_all: at most the driver ever waits on ready_cv_.
Notify(t) ==
  /\ "cv" \in tail[t]
  /\ tail' = [tail EXCEPT ![t] = @ \ {"cv"}]
  /\ pc' = [u \in Thread |-> IF pc[u] = "cv" THEN "woken" ELSE pc[u]]
  /\ UNCHANGED <<queue, timer, control, frame, cur, cancelling, coros, io, now>>

\* CompletionBackend::wake: remembered until a poll consumes it.
Wake(t) ==
  /\ "cv" \notin tail[t]
  /\ \E b \in tail[t] :
       /\ tail' = [tail EXCEPT ![t] = @ \ {b}]
       /\ latch' = latch \cup {b}
  /\ UNCHANGED <<queue, timer, control, frame, threads, coros, ioready, now>>

\* Faulty: the continuation is queued silently.
EnqueueSilently(t, c) ==
  ready' = Append(ready, c) /\ co' = [co EXCEPT ![c] = "queued"] /\ tail' = tail

\* enqueue_ready_continuation: pending_work_ was retained by the awaitable.
EnqueueReady(t, c) ==
  /\ ready' = Append(ready, c)
  /\ co' = [co EXCEPT ![c] = "queued"]
  /\ tail' = [tail EXCEPT ![t] = Signal]

\* release_pending_work, and the decrement of finish_ready_item.
ReleaseWork(t) ==
  /\ pending' = IF pending > 0 THEN pending - 1 ELSE 0
  /\ tail' = [tail EXCEPT ![t] = IF stopped /\ pending' = 0 THEN Signal ELSE {}]

-----------------------------------------------------------------------------
(* Public calls, from a thread outside the runtime or a coroutine's body.  *)

\* post(c): c is not started yet, or parked in an awaitable that tracks no work.
Post(t, c) ==
  /\ "post" \in Op /\ Free(t) /\ ~stopped
  /\ co[c] \in {"new", "parked"}
  /\ EnqueueReady(t, c) /\ pending' = pending + 1
  /\ UNCHANGED <<owned, timer, control, frame, threads, awaits, resolved, io, now>>

\* spawn(task): c is the bridge coroutine, whose frame the runtime owns.
SpawnTask(t, c) ==
  /\ "spawn" \in Op /\ Free(t) /\ ~stopped
  /\ co[c] = "new"
  /\ EnqueueReady(t, c) /\ pending' = pending + 1 /\ owned' = owned \cup {c}
  /\ UNCHANGED <<timer, control, frame, threads, awaits, resolved, io, now>>

\* Faulty: stop() sets the flag and notifies nobody.
StopSilently(t) ==
  /\ "stop" \in Op /\ Free(t) /\ ~stopped
  /\ stopped' = TRUE
  /\ UNCHANGED <<queue, timer, driver, backend, frame, threads, tail, coros, io, now>>

\* stop(): a repeated call only notifies again, the first is modelled.
Stop(t) ==
  /\ "stop" \in Op /\ Free(t) /\ ~stopped
  /\ stopped' = TRUE
  /\ tail' = [tail EXCEPT ![t] = Signal]
  /\ UNCHANGED <<queue, timer, driver, backend, frame, threads, coros, io, now>>

\* set_completion_backend: throws unless the runtime is idle.
SetCompletionBackend(t, b) ==
  /\ "swap" \in Op /\ Free(t) /\ b # backend
  /\ driver = NoThread /\ pending = 0 /\ ready = <<>>
  /\ \A c \in Coro : timer[c] = Never
  /\ backend' = b
  /\ UNCHANGED <<queue, timer, stopped, driver, frame, threads, tail, coros, io, now>>

\* Another party completes the operation c waits on; a JoinHandle that
\* Runtime::spawn() returned is completed by the bridge coroutine's set_value.
Complete(t, c) ==
  /\ Free(t) /\ cur[t] # c
  /\ co[c] = "waiting" \/ (co[c] = "untracked" /\ cur[t] \in owned)
  /\ EnqueueReady(t, c)
  /\ UNCHANGED <<owned, pending, timer, control, frame, threads, awaits, resolved, io, now>>

\* cancel_from_source wins the race for resolved_ ...
CancelSleep(t, c) ==
  /\ "cancel" \in Op /\ Free(t) /\ cur[t] # c
  /\ co[c] = "sleeping" /\ ~resolved[c]
  /\ resolved' = [resolved EXCEPT ![c] = TRUE]
  /\ cancelling' = [cancelling EXCEPT ![t] = c]
  /\ UNCHANGED <<queue, timer, control, frame, pc, cur, tail, co, awaits, io, now>>

\* ... cancel_timer removes the timer unless the driver has collected it ...
CancelTimer(t) ==
  LET c == cancelling[t] IN
  /\ c # NoCoro /\ tail[t] = {} /\ timer[c] # Never
  /\ timer' = [timer EXCEPT ![c] = Never]
  /\ tail' = [tail EXCEPT ![t] = Signal]
  /\ UNCHANGED <<queue, control, frame, threads, coros, io, now>>

\* Faulty: completes without removing the timer first.
CancelCompleteEarly(t) ==
  LET c == cancelling[t] IN
  /\ c # NoCoro /\ tail[t] = {}
  /\ EnqueueReady(t, c)
  /\ cancelling' = [cancelling EXCEPT ![t] = NoCoro]
  /\ UNCHANGED <<owned, pending, timer, control, frame, pc, cur, awaits, resolved, io, now>>

\* ... and the operation completes as cancelled.
CancelComplete(t) ==
  LET c == cancelling[t] IN
  /\ c # NoCoro /\ tail[t] = {} /\ timer[c] = Never
  /\ EnqueueReady(t, c)
  /\ cancelling' = [cancelling EXCEPT ![t] = NoCoro]
  /\ UNCHANGED <<owned, pending, timer, control, frame, pc, cur, awaits, resolved, io, now>>

-----------------------------------------------------------------------------
(* A coroutine's body, on the driver or hosted by a thread of its own that *)
(* reaches the runtime through an explicit Handle.                         *)

\* Where the thread goes once its coroutine has suspended or returned.
Leave(t) ==
  IF t = driver
  THEN pc' = [pc EXCEPT ![t] = "finish"] /\ cur' = cur
  ELSE pc' = [pc EXCEPT ![t] = "idle"] /\ cur' = [cur EXCEPT ![t] = NoCoro]

InBody(t) == Quiet(t) /\ pc[t] = "body"
InSubmit(t) == Quiet(t) /\ pc[t] = "submit"

\* A detached coroutine starts on a thread that does not drive the runtime.
Host(t, c) ==
  /\ "host" \in Op /\ Quiet(t) /\ pc[t] = "idle" /\ co[c] = "new"
  /\ pc' = [pc EXCEPT ![t] = "body"] /\ cur' = [cur EXCEPT ![t] = c]
  /\ co' = [co EXCEPT ![c] = "running"]
  /\ UNCHANGED <<queue, timer, control, frame, tail, cancelling, awaits, resolved, io, now>>

\* Faulty: the awaitable suspends without retaining work.
RetainNothing(t) ==
  /\ InBody(t) /\ awaits[cur[t]] < MaxAwait
  /\ pc' = [pc EXCEPT ![t] = "submit"]
  /\ co' = [co EXCEPT ![cur[t]] = "retained"]
  /\ awaits' = [awaits EXCEPT ![cur[t]] = @ + 1]
  /\ UNCHANGED <<queue, timer, control, frame, cur, tail, cancelling, resolved, io, now>>

\* await_suspend: prepare_await succeeds, and retain_work.
RetainWork(t) ==
  /\ InBody(t) /\ awaits[cur[t]] < MaxAwait
  /\ pending' = pending + 1
  /\ pc' = [pc EXCEPT ![t] = "submit"]
  /\ co' = [co EXCEPT ![cur[t]] = "retained"]
  /\ awaits' = [awaits EXCEPT ![cur[t]] = @ + 1]
  /\ UNCHANGED <<ready, owned, timer, control, frame, cur, tail, cancelling, resolved, io, now>>

\* The new deadline comes before every timer that is armed.
Earlier(d) == \A c \in Coro : d < timer[c]

\* submit of a sleep: schedule_timer wakes the backend for an earlier deadline.
SubmitSleep(t) ==
  LET c == cur[t] IN
  /\ InSubmit(t) /\ "sleep" \in Await
  /\ \E d \in now + 1 .. MaxTime :
       /\ timer' = [timer EXCEPT ![c] = d]
       /\ tail' = [tail EXCEPT ![t] = IF Earlier(d) THEN Signal ELSE {"cv"}]
  /\ co' = [co EXCEPT ![c] = "sleeping"]
  /\ resolved' = [resolved EXCEPT ![c] = FALSE]
  /\ Leave(t)
  /\ UNCHANGED <<queue, control, frame, cancelling, awaits, io, now>>

\* submit of a sleep whose deadline has passed: completes inside submit.
SubmitElapsedSleep(t) ==
  /\ InSubmit(t) /\ "sleep" \in Await
  /\ EnqueueReady(t, cur[t])
  /\ Leave(t)
  /\ UNCHANGED <<owned, pending, timer, control, frame, cancelling, awaits, resolved, io, now>>

\* submit of an operation the backend or another party completes.
SubmitOp(t) ==
  /\ InSubmit(t)
  /\ \/ /\ "io" \in Await /\ backend # "none"
        /\ co' = [co EXCEPT ![cur[t]] = "io"]
     \/ /\ "op" \in Await
        /\ co' = [co EXCEPT ![cur[t]] = "waiting"]
  /\ resolved' = [resolved EXCEPT ![cur[t]] = FALSE]
  /\ Leave(t)
  /\ UNCHANGED <<queue, timer, control, frame, tail, cancelling, awaits, io, now>>

\* submit throws: the work is released and the coroutine goes on at once.
SubmitFails(t) ==
  /\ InSubmit(t) /\ "fail" \in Await
  /\ ReleaseWork(t)
  /\ pc' = [pc EXCEPT ![t] = "body"]
  /\ co' = [co EXCEPT ![cur[t]] = "running"]
  /\ UNCHANGED <<ready, owned, timer, control, frame, cur, cancelling, awaits, resolved, io, now>>

\* JoinState::await_suspend outside a scheduler scope: Runtime::spawn() has set
\* the handle's schedule function but no work tracker, so nothing is retained.
JoinUntracked(t) ==
  /\ InBody(t) /\ "join" \in Await /\ t # driver /\ awaits[cur[t]] < MaxAwait
  /\ \E b \in owned : co[b] # "done"
  /\ co' = [co EXCEPT ![cur[t]] = "untracked"]
  /\ awaits' = [awaits EXCEPT ![cur[t]] = @ + 1]
  /\ Leave(t)
  /\ UNCHANGED <<queue, timer, control, frame, tail, cancelling, resolved, io, now>>

\* An awaitable outside the work-tracking protocol suspends the coroutine.
Park(t) ==
  /\ InBody(t) /\ "park" \in Await /\ awaits[cur[t]] < MaxAwait
  /\ co' = [co EXCEPT ![cur[t]] = "parked"]
  /\ awaits' = [awaits EXCEPT ![cur[t]] = @ + 1]
  /\ Leave(t)
  /\ UNCHANGED <<queue, timer, control, frame, tail, cancelling, resolved, io, now>>

Return(t) ==
  /\ InBody(t)
  /\ co' = [co EXCEPT ![cur[t]] = "done"]
  /\ Leave(t)
  /\ UNCHANGED <<queue, timer, control, frame, tail, cancelling, awaits, resolved, io, now>>

-----------------------------------------------------------------------------
(* The driver: run() and run_one().                                        *)

\* Faulty: no check that the runtime is not driven already.
BeginDriveUnchecked(t, e) ==
  /\ t \in Runner /\ Quiet(t) /\ pc[t] = "idle"
  /\ driver' = t /\ mode' = e
  /\ pc' = [pc EXCEPT ![t] = "loop"]
  /\ UNCHANGED <<queue, timer, stopped, backend, batch, limit, cur, tail, cancelling, coros, io, now>>

\* begin_drive: throws, and changes nothing, while the runtime is driven.
BeginDrive(t, e) ==
  /\ t \in Runner /\ Quiet(t) /\ pc[t] = "idle" /\ driver = NoThread
  /\ driver' = t /\ mode' = e
  /\ pc' = [pc EXCEPT ![t] = "loop"]
  /\ UNCHANGED <<queue, timer, stopped, backend, batch, limit, cur, tail, cancelling, coros, io, now>>

Expired == {c \in Coro : timer[c] <= now}
Disarmed == [c \in Coro |-> IF c \in Expired THEN Never ELSE timer[c]]

\* The deadline of the first timer, Never when none is armed.
IsNextDeadline(d) == \A c \in Coro : d <= timer[c]

\* The predicate run() waits on ready_cv_ for.
WaitOver == ready # <<>> \/ (stopped /\ pending = 0)

\* pop_front into the driver's ready_item.
PopReady(t) == cur' = [cur EXCEPT ![t] = Head(ready)] /\ ready' = Tail(ready)

AtLoop(t, m) == Quiet(t) /\ pc[t] = "loop" /\ mode \in m

\* Faulty: erases every expired timer but hands only one to the dispatch.
RunCollectOne(t) ==
  /\ AtLoop(t, {"run"}) /\ Expired # {}
  /\ batch' = {CHOOSE c \in Expired : TRUE} /\ timer' = Disarmed
  /\ pc' = [pc EXCEPT ![t] = "dispatch"]
  /\ UNCHANGED <<queue, control, mode, limit, cur, cancelling, tail, coros, io, now>>

\* run(): expired timers come before anything else ...
RunCollect(t) ==
  /\ AtLoop(t, {"run"}) /\ Expired # {}
  /\ batch' = Expired /\ timer' = Disarmed
  /\ pc' = [pc EXCEPT ![t] = "dispatch"]
  /\ UNCHANGED <<queue, control, mode, limit, cur, cancelling, tail, coros, io, now>>

\* ... then the queue ...
RunPop(t) ==
  /\ AtLoop(t, {"run"}) /\ Expired = {} /\ ready # <<>>
  /\ PopReady(t)
  /\ pc' = [pc EXCEPT ![t] = "resume"]
  /\ UNCHANGED <<owned, pending, timer, control, frame, cancelling, tail, coros, io, now>>

\* Faulty: returns on stop() as soon as the queue is empty.
RunReturnEarly(t) ==
  /\ AtLoop(t, {"run"}) /\ Expired = {} /\ ready = <<>>
  /\ stopped
  /\ pc' = [pc EXCEPT ![t] = "end"]
  /\ UNCHANGED <<queue, timer, control, frame, cur, cancelling, tail, coros, io, now>>

\* ... then run() returns when stopped and drained ...
RunReturn(t) ==
  /\ AtLoop(t, {"run"}) /\ Expired = {} /\ ready = <<>>
  /\ stopped /\ pending = 0
  /\ pc' = [pc EXCEPT ![t] = "end"]
  /\ UNCHANGED <<queue, timer, control, frame, cur, cancelling, tail, coros, io, now>>

\* Faulty: blocks without regard to the next deadline.
RunBlockForever(t) ==
  /\ AtLoop(t, {"run"}) /\ Expired = {} /\ ~WaitOver
  /\ pc' = [pc EXCEPT ![t] = IF backend # "none" /\ pending > 0 THEN "poll" ELSE "cv"]
  /\ limit' = Never
  /\ UNCHANGED <<queue, timer, control, mode, batch, cur, cancelling, tail, coros, io, now>>

\* ... else it blocks, in the backend if there is work, else on ready_cv_.
RunBlock(t) ==
  /\ AtLoop(t, {"run"}) /\ Expired = {} /\ ~WaitOver
  /\ pc' = [pc EXCEPT ![t] = IF backend # "none" /\ pending > 0 THEN "poll" ELSE "cv"]
  /\ \E c \in Coro : IsNextDeadline(timer[c]) /\ limit' = timer[c]
  /\ UNCHANGED <<queue, timer, control, mode, batch, cur, cancelling, tail, coros, io, now>>

\* A notified (or spuriously woken) wait tests its predicate again, and does
\* not go back to waiting once the deadline has passed.
SpuriousWake(t) ==
  /\ pc[t] = "cv"
  /\ pc' = [pc EXCEPT ![t] = "woken"]
  /\ UNCHANGED <<queue, timer, control, frame, cur, cancelling, tail, coros, io, now>>

CvRecheck(t) ==
  /\ pc[t] = "woken"
  /\ pc' = [pc EXCEPT ![t] = IF WaitOver \/ limit <= now THEN "loop" ELSE "cv"]
  /\ UNCHANGED <<queue, timer, control, frame, cur, cancelling, tail, coros, io, now>>

CvTimeout(t) ==
  /\ pc[t] = "cv" /\ limit <= now
  /\ pc' = [pc EXCEPT ![t] = "loop"]
  /\ UNCHANGED <<queue, timer, control, frame, cur, cancelling, tail, coros, io, now>>

\* poll(timeout) returns for a wake, a completion or its timeout.
Poll(t) ==
  /\ pc[t] = "poll"
  /\ backend \in latch \/ ioready # {} \/ limit <= now
  /\ latch' = latch \ {backend}
  /\ batch' = ioready /\ ioready' = {}
  /\ pc' = [pc EXCEPT ![t] = "dispatch"]
  /\ mode' = IF mode = "one" THEN "polled" ELSE mode
  /\ UNCHANGED <<queue, timer, control, limit, cur, cancelling, tail, coros, now>>

\* run_one(): one critical section collects the expired timers and chooses.
RunOnePop(t) ==
  /\ AtLoop(t, {"one", "polled"}) /\ ready # <<>>
  /\ PopReady(t)
  /\ batch' = Expired /\ timer' = Disarmed
  /\ pc' = [pc EXCEPT ![t] = IF Expired = {} THEN "resume" ELSE "dispatch"]
  /\ UNCHANGED <<owned, pending, control, mode, limit, cancelling, tail, coros, io, now>>

RunOnePoll(t) ==
  /\ AtLoop(t, {"one"}) /\ ready = <<>> /\ backend # "none" /\ pending > 0
  /\ batch' = Expired /\ timer' = Disarmed
  /\ limit' = now
  /\ pc' = [pc EXCEPT ![t] = IF Expired = {} THEN "poll" ELSE "dispatch"]
  /\ UNCHANGED <<queue, control, mode, cur, cancelling, tail, coros, io, now>>

\* return false: the collected timers go out of scope undispatched.
RunOneReturn(t) ==
  /\ AtLoop(t, {"one", "polled"}) /\ ready = <<>>
  /\ mode = "polled" \/ backend = "none" \/ pending = 0
  /\ timer' = Disarmed
  /\ pc' = [pc EXCEPT ![t] = "end"]
  /\ UNCHANGED <<queue, control, frame, cur, cancelling, tail, coros, io, now>>

\* Faulty: dispatches without asking whether a cancellation came first.
DispatchUnguarded(t) ==
  /\ pc[t] = "dispatch" /\ Quiet(t)
  /\ \E c \in batch :
       /\ batch' = batch \ {c}
       /\ EnqueueReady(t, c) /\ resolved' = [resolved EXCEPT ![c] = TRUE]
  /\ UNCHANGED <<owned, pending, timer, control, mode, limit, threads, awaits, io, now>>

\* finish_from_deadline of one collected timer, complete() of one reaped
\* operation; the order within a batch is left open.
Dispatch(t) ==
  /\ pc[t] = "dispatch" /\ Quiet(t)
  /\ \E c \in batch :
       /\ batch' = batch \ {c}
       /\ IF resolved[c]
          THEN UNCHANGED <<ready, co, resolved, tail>>
          ELSE EnqueueReady(t, c) /\ resolved' = [resolved EXCEPT ![c] = TRUE]
  /\ UNCHANGED <<owned, pending, timer, control, mode, limit, threads, awaits, io, now>>

\* `continue`: run_one()'s ready_item, if any, goes out of scope here.
DispatchDone(t) ==
  /\ pc[t] = "dispatch" /\ Quiet(t) /\ batch = {}
  /\ pc' = [pc EXCEPT ![t] = "loop"]
  /\ cur' = [cur EXCEPT ![t] = NoCoro]
  /\ UNCHANGED <<queue, timer, control, frame, cancelling, tail, coros, io, now>>

Resume(t) ==
  /\ pc[t] = "resume"
  /\ pc' = [pc EXCEPT ![t] = "body"]
  /\ co' = [co EXCEPT ![cur[t]] = "running"]
  /\ UNCHANGED <<queue, timer, control, frame, cur, cancelling, tail, awaits, resolved, io, now>>

\* finish_ready_item: run() goes round again, run_one() returns true.
FinishReadyItem(t) ==
  /\ pc[t] = "finish" /\ Quiet(t)
  /\ ReleaseWork(t)
  /\ owned' = IF co[cur[t]] = "done" THEN owned \ {cur[t]} ELSE owned
  /\ pc' = [pc EXCEPT ![t] = IF mode = "run" THEN "loop" ELSE "end"]
  /\ cur' = [cur EXCEPT ![t] = NoCoro]
  /\ UNCHANGED <<ready, timer, control, frame, cancelling, coros, io, now>>

EndDrive(t) ==
  /\ pc[t] = "end" /\ Quiet(t)
  /\ driver' = NoThread
  /\ pc' = [pc EXCEPT ![t] = "idle"]
  /\ UNCHANGED <<queue, timer, stopped, backend, frame, cur, cancelling, tail, coros, io, now>>

-----------------------------------------------------------------------------
(* The environment.                                                        *)

\* An operation the backend holds has completed.
IoEvent(c) ==
  /\ co[c] = "io" /\ c \notin ioready /\ c \notin batch
  /\ ioready' = ioready \cup {c}
  /\ UNCHANGED <<queue, timer, control, frame, threads, tail, coros, latch, now>>

Tick ==
  /\ now < MaxTime
  /\ now' = now + 1
  /\ UNCHANGED <<queue, timer, control, frame, threads, tail, coros, io>>

\* What a thread inside a call or a body does next.
Continue(t) ==
  \/ Notify(t) \/ Wake(t) \/ CancelTimer(t) \/ CancelComplete(t)
  \/ RetainWork(t) \/ SubmitSleep(t) \/ SubmitElapsedSleep(t) \/ SubmitOp(t)
  \/ SubmitFails(t) \/ JoinUntracked(t) \/ Park(t) \/ Return(t)
  \/ RunCollect(t) \/ RunPop(t) \/ RunReturn(t) \/ RunBlock(t)
  \/ CvRecheck(t) \/ CvTimeout(t) \/ Poll(t)
  \/ RunOnePop(t) \/ RunOnePoll(t) \/ RunOneReturn(t)
  \/ Dispatch(t) \/ DispatchDone(t) \/ Resume(t) \/ FinishReadyItem(t)
  \/ EndDrive(t)

\* The calls a thread may choose to make.
Call(t) ==
  \/ \E e \in Entry : BeginDrive(t, e)
  \/ Stop(t)
  \/ \E b \in {"none", "user"} : SetCompletionBackend(t, b)
  \/ \E c \in Coro : \/ Post(t, c) \/ SpawnTask(t, c) \/ Host(t, c)
                     \/ CancelSleep(t, c)

Next ==
  \/ \E t \in Thread : Continue(t) \/ Call(t) \/ SpuriousWake(t)
  \/ \E t \in Thread, c \in Coro : Complete(t, c)
  \/ \E c \in Coro : IoEvent(c)
  \/ Tick

Spec == Init /\ [][Next]_vars

\* Threads finish what they started, time passes, every operation handed to
\* another party completes; nobody is obliged to call anything.
Fairness ==
  /\ \A t \in Thread : WF_vars(Continue(t))
  /\ \A c \in Coro : WF_vars(\E t \in Thread : Complete(t, c)) /\ WF_vars(IoEvent(c))
  /\ WF_vars(Tick)

LiveSpec == Spec /\ Fairness

-----------------------------------------------------------------------------
(* Properties.                                                             *)

\* Every variable has its type (runtime.h:718-731 and the threads), and only the
\* thread begin_drive admitted is inside the loop (runtime.h:697-709).
TypeOK ==
  /\ ready \in Seq(Coro) /\ owned \subseteq Coro /\ pending \in Nat
  /\ timer \in [Coro -> 0 .. Never]
  /\ stopped \in BOOLEAN /\ driver \in Thread \cup {NoThread}
  /\ backend \in Backend \cup {"none"}
  /\ mode \in {"run", "one", "polled"} /\ batch \subseteq Coro /\ limit \in 0 .. Never
  /\ pc \in [Thread -> {"idle", "body", "submit"} \cup DrivePc]
  /\ cur \in [Thread -> Coro \cup {NoCoro}]
  /\ tail \in [Thread -> SUBSET ({"cv"} \cup Backend)]
  /\ cancelling \in [Thread -> Coro \cup {NoCoro}]
  /\ co \in [Coro -> CoroState] /\ awaits \in [Coro -> 0 .. MaxAwait]
  /\ resolved \in [Coro -> BOOLEAN]
  /\ latch \subseteq Backend /\ ioready \subseteq Coro
  /\ now \in 0 .. MaxTime
  /\ \A t \in Thread :
       /\ pc[t] \in DrivePc => driver = t
       /\ pc[t] \in {"body", "submit", "resume", "finish"} => cur[t] # NoCoro

\* The coroutines that pending_work_ is owed for, and the driver while it
\* executes an item it has not yet finished.
Counted == {c \in Coro : co[c] \in Tracked}
Executing == driver # NoThread /\ pc[driver] \in {"body", "submit", "finish"}

\* pending_work_ is exactly the number of obligations: queued continuations,
\* suspensions that retained work, and the item being executed.  In particular
\* no decrement finds it 0 (the asserts of runtime.h:655 and :676).
WorkAccounted == pending = Cardinality(Counted) + (IF Executing THEN 1 ELSE 0)

\* The assert of release_pending_work and finish_ready_item on its own.
DecrementIsPaidFor == \A t \in Thread : pc[t] = "finish" => pending > 0

\* The elements of a sequence, and that none occurs twice.
Elems(s) == {s[i] : i \in DOMAIN s}
Distinct(s) == \A i, j \in DOMAIN s : s[i] = s[j] => i = j

\* The driver has taken c from the queue and has not resumed it.
InHand(c) == \E t \in Thread : pc[t] \in {"resume", "dispatch"} /\ cur[t] = c

\* A continuation that was queued is in the queue or about to be resumed by the
\* driver, and never twice: the loop loses none and resumes none again.
QueuedOnce ==
  /\ Distinct(ready)
  /\ \A c \in Coro :
       /\ co[c] = "queued" <=> c \in Elems(ready) \/ InHand(c)
       /\ ~(c \in Elems(ready) /\ InHand(c))

\* A sleeping coroutine still has someone who will wake it: its timer is armed,
\* or the driver is about to dispatch it, or a cancellation is completing it.
SleepersCanWake ==
  \A c \in Coro : co[c] = "sleeping" =>
    timer[c] # Never \/ c \in batch \/ \E t \in Thread : cancelling[t] = c

\* An armed timer refers to a suspended coroutine: no dispatch can reach an
\* operation that has already completed and may be gone.
TimersAreLive ==
  \A c \in Coro : timer[c] # Never => co[c] = "sleeping"

\* No lost wake-up: a driver blocked although it could go on has been notified,
\* or some thread is on its way to notify it.
NoLostWakeup ==
  \A t \in Thread :
    /\ pc[t] = "cv" /\ WaitOver => \E u \in Thread : "cv" \in tail[u]
    /\ pc[t] = "poll" /\ (WaitOver \/ \E c \in Coro : timer[c] < limit)
         => backend \in latch \/ \E u \in Thread : backend \in tail[u]

\* A backend that is destroyed is woken by nobody: set_completion_backend() destroys
\* the one the runtime owns (runtime.h:251), a call in progress may still hold it.
WakesLiveBackend == \A t \in Thread : "owned" \in tail[t] => backend = "owned"

\* run() returns only when it has drained everything: no queued continuation, no
\* suspended one that retained work, no armed timer, after stop().
ReturnsDrained ==
  [][\A t \in Thread : pc[t] = "loop" /\ mode = "run" /\ pc'[t] = "end" =>
       /\ stopped /\ ready = <<>> /\ Counted = {}
       /\ \A c \in Coro : timer[c] = Never]_vars

\* After stop() the driver eventually leaves run(), however many sleeps, io and
\* other awaits the coroutines still have to go through.
StopReturns == stopped /\ driver # NoThread ~> driver = NoThread

\* While the runtime is driven every queued continuation is eventually resumed.
QueuedRuns ==
  \A c \in Coro :
    co[c] = "queued" /\ driver # NoThread ~> co[c] # "queued" \/ driver = NoThread

\* While the runtime is driven every sleep eventually ends.
SleepsEnd ==
  \A c \in Coro :
    co[c] = "sleeping" /\ driver # NoThread ~> co[c] # "sleeping" \/ driver = NoThread

=============================================================================
