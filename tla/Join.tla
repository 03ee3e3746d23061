--------------------------------- MODULE Join ---------------------------------
(***************************************************************************)
(* One Task handed to spawn(), the bridge coroutine that awaits it, the    *)
(* JoinState of its handle, and whoever waits for that                     *)
(* (task/task.h, task/join_handle.h, task/spawn.h, Runtime::spawn).        *)
(*                                                                         *)
(* One action is one section of a mutex, or the code of a coroutine        *)
(* between two of them.  The driver resumes what is queued; a coroutine    *)
(* that is not bound to the runtime is resumed inline by another thread.   *)
(***************************************************************************)
EXTENDS Naturals, Sequences, FiniteSets

CONSTANTS
  Task, Bridge,
  Awaiter,    \* coroutines that co_await the handle
  Waiter,     \* threads that call wait()
  Driver, Helper,
  MaxSuspend, \* bound on the suspensions of the task
  Untracked,  \* whether a handle of Runtime::spawn is awaited outside the runtime
  None

Coro == Awaiter \cup {Task, Bridge}
Thread == Helper \cup {Driver}

ASSUME JoinAssumption ==
  /\ Task # Bridge /\ {Task, Bridge} \cap Awaiter = {} /\ Driver \notin Helper
  /\ IsFiniteSet(Awaiter) /\ MaxSuspend \in Nat /\ Untracked \in BOOLEAN
  /\ None \notin Coro \cup Thread

VARIABLES
  at, on,    \* where each coroutine goes on, and the thread it is on
  queue,     \* ready_queue_
  pending,   \* pending_work_
  item,      \* the driver's ready_item
  spawner,   \* the thread inside task::spawn()
  origin,    \* the spawn() that was called: "none", "runtime" or "free"
  childHome, \* the task's promise has a schedule function and a work tracker
  suspends,  \* how often the task suspended
  ready, continuation, home, tracked, \* JoinState; home: schedule_fn_ is set
  wait       \* the calls of wait(): "idle", "blocked", "woken" or "done"

coros == <<at, on>>
runtime == <<queue, pending, item>>
call == <<spawner, origin>>
child == <<childHome, suspends>>
join == <<ready, continuation, home, tracked>>
vars == <<coros, runtime, call, child, join, wait>>

Init ==
  /\ at = [c \in Coro |-> "new"] /\ on = [c \in Coro |-> None]
  /\ queue = <<>> /\ pending = 0 /\ item = None
  /\ spawner = None /\ origin = "none"
  /\ childHome = FALSE /\ suspends = 0
  /\ ready = FALSE /\ continuation = None /\ home = FALSE /\ tracked = FALSE
  /\ wait = [w \in Waiter |-> "idle"]

\* c runs on a thread, up to the point p, or is suspended there.
Run(c, t, p) == at' = [at EXCEPT ![c] = p] /\ on' = [on EXCEPT ![c] = t]
Suspend(c, p) == Run(c, None, p)
InCoro(c, p) == at[c] = p /\ on[c] # None

\* SchedulerScope::current: only the driver has a binding.
InScope(t) == t = Driver

\* retain_work of what is awaited.
Retain(tracks) == pending' = IF tracks THEN pending + 1 ELSE pending

-----------------------------------------------------------------------------
(* The calls of a thread outside the runtime, or of a coroutine's body.    *)

Idle(t) == t \in Helper /\ spawner # t /\ \A c \in Coro : on[c] # t
Caller(t) ==
  \/ Idle(t)
  \/ spawner # t /\ \E a \in Awaiter : at[a] = "body" /\ on[a] = t

\* Runtime::post and Task::start of a coroutine that will await the handle.
Post(t, a) ==
  /\ Idle(t) /\ at[a] = "new" /\ Suspend(a, "body")
  /\ queue' = Append(queue, a) /\ pending' = pending + 1
  /\ UNCHANGED <<item, call, child, join, wait>>

Start(t, a) ==
  /\ Idle(t) /\ at[a] = "new" /\ Run(a, t, "body")
  /\ UNCHANGED <<runtime, call, child, join, wait>>

\* Runtime::spawn: the handle has the runtime's schedule function, no tracker.
RuntimeSpawn(t) ==
  /\ origin = "none" /\ Caller(t)
  /\ origin' = "runtime" /\ home' = TRUE
  /\ Suspend(Bridge, "start")
  /\ queue' = Append(queue, Bridge) /\ pending' = pending + 1
  /\ UNCHANGED <<item, spawner, child, ready, continuation, tracked, wait>>

\* task::spawn: the bridge starts on the spot, ...
FreeSpawn(t) ==
  /\ origin = "none" /\ Caller(t)
  /\ origin' = "free" /\ spawner' = t
  /\ Run(Bridge, t, "start")
  /\ UNCHANGED <<runtime, child, join, wait>>

\* ... and the handle is returned when it has suspended or ended.
SpawnReturns ==
  /\ spawner # None /\ on[Task] # spawner /\ on[Bridge] # spawner
  /\ spawner' = None
  /\ UNCHANGED <<coros, runtime, origin, child, join, wait>>

Handle == origin # "none" /\ spawner = None

-----------------------------------------------------------------------------
(* The driver.                                                             *)

Dispatch ==
  /\ item = None /\ queue # <<>>
  /\ item' = Head(queue) /\ queue' = Tail(queue)
  /\ on' = [on EXCEPT ![item'] = Driver]
  /\ UNCHANGED <<at, pending, call, child, join, wait>>

\* What the driver resumed has suspended or ended.
Back == item # None /\ spawner # Driver /\ \A c \in Coro : on[c] # Driver

\* The bridge's frame holds the Task, whose destructor destroys the task's.
Destroyed == [at EXCEPT ![Bridge] = "gone", ![Task] = "gone"]

\* Faulty: destroys the frame it owns without asking whether it is done.
FinishItemUndone ==
  /\ Back /\ item' = None
  /\ pending' = IF pending > 0 THEN pending - 1 ELSE 0
  /\ at' = IF item = Bridge /\ origin = "runtime" THEN Destroyed ELSE at
  /\ UNCHANGED <<on, queue, call, child, join, wait>>

\* finish_ready_item: a bridge of Runtime::spawn is destroyed once it is done.
\* done() of a frame that is gone (task::spawn) may say anything, but that
\* frame is not in owned_continuations_.
FinishItem ==
  /\ Back /\ item' = None
  /\ pending' = IF pending > 0 THEN pending - 1 ELSE 0
  /\ at' = IF item = Bridge /\ at[Bridge] = "final" THEN Destroyed ELSE at
  /\ UNCHANGED <<on, queue, call, child, join, wait>>

-----------------------------------------------------------------------------
(* The bridge and the task.                                                *)

\* Task::await_suspend: binds the promise and transfers to the task.
AwaitTask ==
  LET t == on[Bridge] IN
  /\ InCoro(Bridge, "start")
  /\ childHome' = InScope(t) /\ Retain(InScope(t))
  /\ at' = [at EXCEPT ![Bridge] = "suspended", ![Task] = "body"]
  /\ on' = [on EXCEPT ![Bridge] = None, ![Task] = t]
  /\ UNCHANGED <<queue, item, call, suspends, join, wait>>

\* The task suspends on an operation of the runtime, or in an awaitable outside
\* the protocol of SchedulerBinding ...
TaskSuspend ==
  /\ InCoro(Task, "body") /\ suspends < MaxSuspend
  /\ suspends' = suspends + 1
  /\ \E p \in {"op", "parked"} : Suspend(Task, p) /\ Retain(p = "op")
  /\ UNCHANGED <<queue, item, call, childHome, join, wait>>

\* ... and is queued, or resumed by the thread that completes it.
OpCompletes ==
  /\ at[Task] = "op" /\ Suspend(Task, "body")
  /\ queue' = Append(queue, Task)
  /\ UNCHANGED <<pending, item, call, child, join, wait>>

ParkEnds(t) ==
  /\ Idle(t) /\ at[Task] = "parked" /\ Run(Task, t, "body")
  /\ UNCHANGED <<runtime, call, child, join, wait>>

\* PromiseBase::FinalAwaiter: the bridge is queued, or goes on at once.
TaskReturn ==
  LET t == IF childHome THEN None ELSE on[Task] IN
  /\ InCoro(Task, "body")
  /\ at' = [at EXCEPT ![Task] = "final", ![Bridge] = "result"]
  /\ on' = [on EXCEPT ![Task] = None, ![Bridge] = t]
  /\ queue' = IF childHome THEN Append(queue, Bridge) ELSE queue
  /\ UNCHANGED <<pending, item, call, child, join, wait>>

\* set_value and set_exception: the result is there, ...
SetValue ==
  /\ InCoro(Bridge, "result") /\ Run(Bridge, on[Bridge], "notify")
  /\ ready' = TRUE
  /\ UNCHANGED <<runtime, call, child, continuation, home, tracked, wait>>

\* ... every wait() is notified, ...
NotifyAll ==
  /\ InCoro(Bridge, "notify") /\ Run(Bridge, on[Bridge], "resume")
  /\ wait' = [w \in Waiter |-> IF wait[w] = "blocked" THEN "woken" ELSE wait[w]]
  /\ UNCHANGED <<runtime, call, child, join>>

\* ... and schedule_or_resume queues the awaiter or resumes it inline.
ResumeAwaiter ==
  LET a == continuation
      t == on[Bridge] IN
  /\ InCoro(Bridge, "resume")
  /\ IF a = None
     THEN Run(Bridge, t, "end") /\ queue' = queue
     ELSE /\ at' = [at EXCEPT ![Bridge] = "end", ![a] = "resume"]
          /\ on' = IF home THEN on ELSE [on EXCEPT ![a] = t]
          /\ queue' = IF home THEN Append(queue, a) ELSE queue
  /\ UNCHANGED <<pending, item, call, child, join, wait>>

\* The bridge returns, once an awaiter it resumed inline has: it stays at its
\* final suspend point for the runtime, or destroys itself.
BridgeReturns ==
  /\ InCoro(Bridge, "end")
  /\ \A a \in Awaiter : on[a] = on[Bridge] => at[a] # "resume"
  /\ on' = [on EXCEPT ![Bridge] = None]
  /\ at' = IF origin = "runtime" THEN [at EXCEPT ![Bridge] = "final"] ELSE Destroyed
  /\ UNCHANGED <<runtime, call, child, join, wait>>

-----------------------------------------------------------------------------
(* co_await of the handle, and wait().                                     *)

InAwaiter(a, p) == InCoro(a, p) /\ spawner # on[a]

AwaitReady(a) ==
  /\ InAwaiter(a, "body") /\ Handle
  /\ Untracked \/ InScope(on[a]) \/ origin = "free"
  /\ Run(a, on[a], IF ready THEN "resume" ELSE "suspend")
  /\ UNCHANGED <<runtime, call, child, join, wait>>

\* Faulty: does not look at ready_ again.
AwaitSuspendUnchecked(a) ==
  LET t == on[a] IN
  /\ InAwaiter(a, "suspend")
  /\ continuation' = a /\ home' = (home \/ InScope(t))
  /\ tracked' = (tracked \/ InScope(t)) /\ Retain(tracked')
  /\ Suspend(a, IF tracked' THEN "suspended" ELSE "detached")
  /\ UNCHANGED <<queue, item, call, child, ready, wait>>

\* Faulty: takes over the tracker of the scope, but not its schedule function.
AwaitSuspendUnbound(a) ==
  LET t == on[a] IN
  /\ InAwaiter(a, "suspend")
  /\ IF ready
     THEN Run(a, t, "resume") /\ UNCHANGED <<pending, continuation, home, tracked>>
     ELSE /\ continuation' = a /\ home' = home
          /\ tracked' = (tracked \/ InScope(t)) /\ Retain(tracked')
          /\ Suspend(a, IF tracked' THEN "suspended" ELSE "detached")
  /\ UNCHANGED <<queue, item, call, child, ready, wait>>

\* Faulty: retains no work.
AwaitSuspendUnretained(a) ==
  LET t == on[a] IN
  /\ InAwaiter(a, "suspend")
  /\ IF ready
     THEN Run(a, t, "resume") /\ UNCHANGED <<continuation, home, tracked>>
     ELSE /\ continuation' = a /\ home' = (home \/ InScope(t))
          /\ tracked' = (tracked \/ InScope(t))
          /\ Suspend(a, IF tracked' THEN "suspended" ELSE "detached")
  /\ UNCHANGED <<runtime, call, child, ready, wait>>

\* await_suspend: what the handle does not have it takes over from the scope;
\* the awaiter waits with a unit of work ("suspended") or without ("detached").
AwaitSuspend(a) ==
  LET t == on[a] IN
  /\ InAwaiter(a, "suspend")
  /\ IF ready
     THEN Run(a, t, "resume") /\ UNCHANGED <<pending, continuation, home, tracked>>
     ELSE /\ continuation' = a /\ home' = (home \/ InScope(t))
          /\ tracked' = (tracked \/ InScope(t)) /\ Retain(tracked')
          /\ Suspend(a, IF tracked' THEN "suspended" ELSE "detached")
  /\ UNCHANGED <<queue, item, call, child, ready, wait>>

AwaitResume(a) ==
  /\ InAwaiter(a, "resume") /\ Suspend(a, "done")
  /\ UNCHANGED <<runtime, call, child, join, wait>>

\* Faulty: any wake-up will do.
RecheckNothing(w) ==
  /\ wait[w] = "woken"
  /\ wait' = [wait EXCEPT ![w] = "done"]
  /\ UNCHANGED <<coros, runtime, call, child, join>>

\* cv_.wait: the predicate, before the thread blocks and after each wake-up.
Wait(w) ==
  /\ wait[w] = "idle" /\ Handle
  /\ wait' = [wait EXCEPT ![w] = IF ready THEN "done" ELSE "blocked"]
  /\ UNCHANGED <<coros, runtime, call, child, join>>

Recheck(w) ==
  /\ wait[w] = "woken"
  /\ wait' = [wait EXCEPT ![w] = IF ready THEN "done" ELSE "blocked"]
  /\ UNCHANGED <<coros, runtime, call, child, join>>

SpuriousWake(w) ==
  /\ wait[w] = "blocked"
  /\ wait' = [wait EXCEPT ![w] = "woken"]
  /\ UNCHANGED <<coros, runtime, call, child, join>>

-----------------------------------------------------------------------------
InBridge == AwaitTask \/ SetValue \/ NotifyAll \/ ResumeAwaiter \/ BridgeReturns
Await(a) == AwaitReady(a) \/ AwaitSuspend(a) \/ AwaitResume(a)
Drive == Dispatch \/ FinishItem

Next ==
  \/ \E t \in Thread :
       \/ RuntimeSpawn(t) \/ FreeSpawn(t) \/ ParkEnds(t)
       \/ \E a \in Awaiter : Post(t, a) \/ Start(t, a)
  \/ SpawnReturns \/ Drive \/ InBridge
  \/ TaskSuspend \/ OpCompletes \/ TaskReturn
  \/ \E a \in Awaiter : Await(a)
  \/ \E w \in Waiter : Wait(w) \/ Recheck(w) \/ SpuriousWake(w)

Spec == Init /\ [][Next]_vars

\* Threads go on with what they are at; nobody is obliged to complete what the
\* task awaits.
LiveSpec ==
  /\ Spec
  /\ WF_vars(SpawnReturns) /\ WF_vars(Drive) /\ WF_vars(InBridge) /\ WF_vars(TaskReturn)
  /\ \A a \in Awaiter : WF_vars(Await(a))
  /\ \A w \in Waiter : WF_vars(Recheck(w))

-----------------------------------------------------------------------------
(* Properties.                                                             *)

BridgePoints == {"start", "suspended", "result", "notify", "resume", "end", "final", "gone"}
TaskPoints == {"body", "op", "parked", "final", "gone"}
AwaiterPoints == {"body", "suspend", "suspended", "detached", "resume", "done"}

Queued == {queue[i] : i \in DOMAIN queue}

\* The members of JoinState and of the promises (join_handle.h:155-164); what is
\* queued is not running.
TypeOK ==
  /\ at[Bridge] \in BridgePoints \cup {"new"} /\ at[Task] \in TaskPoints \cup {"new"}
  /\ \A a \in Awaiter : at[a] \in AwaiterPoints \cup {"new"}
  /\ on \in [Coro -> Thread \cup {None}]
  /\ queue \in Seq(Coro) /\ pending \in Nat /\ item \in Coro \cup {None}
  /\ \A c \in Queued : on[c] = None
  /\ spawner \in Thread \cup {None} /\ origin \in {"none", "runtime", "free"}
  /\ childHome \in BOOLEAN /\ suspends \in 0 .. MaxSuspend
  /\ ready \in BOOLEAN /\ home \in BOOLEAN /\ tracked \in BOOLEAN
  /\ continuation \in Awaiter \cup {None}
  /\ wait \in [Waiter -> {"idle", "blocked", "woken", "done"}]

\* pending_work_ counts what is queued, what the driver executes, and what will
\* come back to the queue, the bridge and awaiters of the handle included
\* (runtime.h:267-271, join_handle.h:108).
WorkAccounted ==
  pending = Len(queue) + (IF item # None THEN 1 ELSE 0)
            + (IF at[Task] = "op" THEN 1 ELSE 0)
            + (IF at[Bridge] = "suspended" /\ childHome THEN 1 ELSE 0)
            + Cardinality({a \in Awaiter : at[a] = "suspended"})

\* An awaiter for which work was retained comes back through the queue, so that
\* the unit is released (join_handle.h:91-92).
ReturnsHome ==
  [][\A a \in Awaiter :
       at[a] = "suspended" /\ at'[a] = "resume" => on'[a] = None /\ a \in Queued']_vars

\* No destroyed frame is resumed, and the bridge outlives a task that has not
\* returned to it (runtime.h:56-57, spawn.h:25-26).
FramesAreAlive ==
  /\ \A c \in {Task, Bridge} : at[c] = "gone" => on[c] = None /\ c \notin Queued
  /\ at[Task] \in {"body", "op", "parked"} => at[Bridge] = "suspended"

\* Whoever goes on after co_await or wait() finds the result (the assertion of
\* join_handle.h:117).
ResultIsThere ==
  ready \/ /\ \A a \in Awaiter : at[a] \notin {"resume", "done"}
           /\ \A w \in Waiter : wait[w] # "done"

\* Once the result is there, the awaiter the handle remembers and every wait()
\* go on, however co_await and set_value interleave.
JoinCompletes ==
  /\ \A a \in Awaiter : ready /\ continuation = a ~> at[a] = "done"
  /\ \A w \in Waiter : ready /\ wait[w] = "blocked" ~> wait[w] = "done"

=============================================================================
