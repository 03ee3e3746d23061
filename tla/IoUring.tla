------------------------------- MODULE IoUring -------------------------------
(***************************************************************************)
(* Socket operations over io_uring: IoUringBackend                         *)
(* (runtime/io_uring_backend.h), IoOperationBase (runtime/io_operation.h)  *)
(* and the socket operations (net/socket_operations.h), from co_await to   *)
(* the destruction of the operation.                                       *)
(*                                                                         *)
(* One action is one section of state_mutex_ or ring_mutex_, one access of *)
(* an atomic, or one system call, with the private code around it.         *)
(* ring_mutex_ is held across actions only by a driver that waits in the   *)
(* kernel.  A registration is what Cancel shows it to be: its callback     *)
(* runs at most once, and its reset() waits for a callback that runs.      *)
(***************************************************************************)
EXTENDS Naturals, Sequences, FiniteSets

CONSTANTS
  Accept, Connect, Receive, Send,  \* the operations, by IoOperationKind
  Cancellable,  \* those that are given a CancelToken
  Thread, Driver,
  Timeout,   \* the timeouts the driver passes to poll()
  Early,     \* whether an operation may be cancelled while submit() still runs,
             \* or before that on a thread that is not the driver
  Failures,  \* where the submission of a request may fail: "sqe", no entry of the ring
             \* is free; "submit", the system call refuses a request that was prepared
  MaxPost,   \* bound on the tasks that are posted
  NoOp

Oper == Accept \cup Connect \cup Receive \cup Send

ASSUME IoUringAssumption ==
  /\ Driver \in Thread /\ Cancellable \subseteq Oper /\ Timeout \subseteq {"zero", "finite", "max"}
  /\ Failures \subseteq {"sqe", "submit"}
  /\ Early \in BOOLEAN /\ MaxPost \in Nat /\ NoOp \notin Oper /\ "task" \notin Oper

VARIABLES
  state,     \* state_ and result_: how the operation ended; "gone" once destroyed
  resolved,  \* the operations whose resolved_ is set
  bound,     \* those whose io_backend_ is set
  reg,       \* cancel_registration_: "none", "armed" or "running"
  stop,      \* those whose CancelSource has been cancelled
  entry,     \* entries_by_id_: "none", "live" or "cancelled" (cancel_requested)
  cancels,   \* pending_cancel_ids_
  pollArmed, \* wake_poll_armed_
  kernel,    \* the requests the kernel works on
  watch,     \* its poll request on wake_fd_
  cq,        \* the completion queue of the ring
  fd,        \* wake_fd_ is readable
  queue,     \* the runtime's ready queue: operations to resume, or a "task"
  posts,     \* how often a task was posted
  pc, arg,   \* where each thread is, and the operation it works on
  poll       \* the driver's timeout, cancel_ids, and whether something completed

arbiter == <<state, resolved>>
op == <<bound, reg, stop>>
backend == <<entry, cancels, pollArmed>>
system == <<kernel, watch, cq, fd>>
frame == <<pc, arg>>
runtime == <<queue, posts>>
vars == <<arbiter, op, backend, system, runtime, frame, poll>>

Cqe(kind, o, res) == [kind |-> kind, op |-> o, res |-> res]

NotPolling == [timeout |-> "zero", ids |-> {}, found |-> FALSE]

\* The constructor has armed the poll request on wake_fd_.
Init ==
  /\ state = [o \in Oper |-> "init"] /\ resolved = {} /\ bound = {}
  /\ reg = [o \in Oper |-> "none"] /\ stop = {}
  /\ entry = [o \in Oper |-> "none"] /\ cancels = {} /\ pollArmed = TRUE
  /\ kernel = {} /\ watch = TRUE /\ cq = <<>> /\ fd = FALSE /\ queue = {} /\ posts = 0
  /\ pc = [t \in Thread |-> "idle"] /\ arg = [t \in Thread |-> NoOp]
  /\ poll = NotPolling

At(t, l) == pc[t] = l
Goto(t, from, to) ==
  /\ At(t, from) /\ pc' = [pc EXCEPT ![t] = to]
  /\ arg' = IF to = "idle" THEN [arg EXCEPT ![t] = NoOp] ELSE arg
Enter(t, o, to) ==
  At(t, "idle") /\ pc' = [pc EXCEPT ![t] = to] /\ arg' = [arg EXCEPT ![t] = o]

\* The driver waits in the kernel, inside ring_mutex_.
Blocked == At(Driver, "blocked")

-----------------------------------------------------------------------------
(* What an operation makes of a result.                                    *)

AcceptOutcome(res, asked) ==
  CASE res = "data" -> {"data"}
    [] res = "ECANCELED" /\ asked -> {"cancelled"}
    [] OTHER -> {"error"}

\* SO_ERROR decides about a connect the kernel reports as done; ECANCELED is
\* taken for a cancellation whether or not one was asked for.
ConnectOutcome(res) ==
  CASE res = "data" -> {"data", "error"}
    [] res = "ECANCELED" -> {"cancelled"}
    [] OTHER -> {"error"}

ReceiveOutcome(res, asked) ==
  CASE res = "data" -> {"data"}
    [] res = "zero" -> {"eof"}
    [] res = "ECANCELED" /\ asked -> {"cancelled"}
    [] OTHER -> {"error"}

\* Faulty: every ECANCELED is taken for a cancellation.
SendOutcomeUnasked(res, asked) ==
  CASE res = "data" -> {"data"}
    [] res = "ECANCELED" -> {"cancelled"}
    [] OTHER -> {"error"}

SendOutcome(res, asked) ==
  CASE res = "data" -> {"data"}
    [] res = "ECANCELED" /\ asked -> {"cancelled"}
    [] OTHER -> {"error"}

\* complete_operation.
Outcome(o, res, asked) ==
  CASE o \in Accept -> AcceptOutcome(res, asked)
    [] o \in Connect -> ConnectOutcome(res)
    [] o \in Receive -> ReceiveOutcome(res, asked)
    [] o \in Send -> SendOutcome(res, asked)

\* What the first, non-blocking attempt of submit() may end with at once.
ConnectAttempt == {"data", "errno"}
AcceptAttempt == {"data", "errno"}
ReadAttempt == {"data", "zero", "errno"}
WriteAttempt == {"data", "errno"}
Attempt(o) ==
  CASE o \in Accept -> AcceptAttempt
    [] o \in Connect -> ConnectAttempt
    [] o \in Receive -> ReadAttempt
    [] o \in Send -> WriteAttempt

\* finish and finish_cancelled: whoever sets resolved_ completes the operation,
\* and schedules its continuation if it awaits.
Finish(o, s) ==
  IF o \in resolved
  THEN UNCHANGED <<arbiter, queue>>
  ELSE /\ resolved' = resolved \cup {o}
       /\ state' = [state EXCEPT ![o] = s]
       /\ queue' = IF state[o] = "awaiting" THEN queue \cup {o} ELSE queue

-----------------------------------------------------------------------------
(* co_await and submit(), on the driver or on another thread.              *)

\* OperationAwaiter::await_suspend, and submit() if the socket would block ...
Begin(t, o) ==
  /\ state[o] = "init" /\ Enter(t, o, "arm")
  /\ Early \/ t = Driver \/ o \notin stop
  /\ state' = [state EXCEPT ![o] = "awaiting"]
  /\ UNCHANGED <<resolved, op, backend, system, runtime, poll>>

\* ... or if its first attempt ends at once: the continuation is queued.
CompleteAtOnce(t, o) ==
  /\ state[o] = "init" /\ Enter(t, o, "signal")
  /\ resolved' = resolved \cup {o} /\ queue' = queue \cup {o}
  /\ \E res \in Attempt(o) : \E s \in Outcome(o, res, FALSE) :
       state' = [state EXCEPT ![o] = s]
  /\ UNCHANGED <<op, backend, system, posts, poll>>

\* arm_cancel_registration; after a stop the callback is called on the spot.
Arm(t) ==
  LET o == arg[t] IN
  /\ Goto(t, "arm", IF o \in stop THEN "decide" ELSE "check")
  /\ reg' = IF o \in Cancellable \ stop THEN [reg EXCEPT ![o] = "armed"] ELSE reg
  /\ UNCHANGED <<arbiter, bound, stop, backend, system, runtime, poll>>

\* is_completed().
Check(t) ==
  /\ Goto(t, "check", IF state[arg[t]] = "awaiting" THEN "bind" ELSE "idle")
  /\ UNCHANGED <<arbiter, op, backend, system, runtime, poll>>

\* submit_to_io_backend: the runtime's backend ...
Bind(t) ==
  /\ Goto(t, "bind", "insert")
  /\ bound' = bound \cup {arg[t]}
  /\ UNCHANGED <<arbiter, reg, stop, backend, system, runtime, poll>>

\* ... or none: complete_inline_exception, and the coroutine goes on.
Reject(t) ==
  /\ Goto(t, "bind", "destroy")
  /\ state' = [state EXCEPT ![arg[t]] = "error"]
  /\ UNCHANGED <<resolved, op, backend, system, runtime, poll>>

\* IoUringBackend::submit: the entry, ...
Insert(t) ==
  /\ Goto(t, "insert", "ring")
  /\ entry' = [entry EXCEPT ![arg[t]] = "live"]
  /\ UNCHANGED <<arbiter, op, cancels, pollArmed, system, runtime, poll>>

\* ... and the request, once ring_mutex_ is free.
Submit(t) ==
  /\ Goto(t, "ring", "idle") /\ ~Blocked
  /\ kernel' = kernel \cup {arg[t]}
  /\ UNCHANGED <<arbiter, op, backend, watch, cq, fd, runtime, poll>>

\* prepare_operation_submission_locked or submit_ring_locked throws. A request that
\* was prepared stays in the ring, and the kernel gets it with the next one.
SubmitFails(t) ==
  /\ Goto(t, "ring", "erase") /\ ~Blocked
  /\ \E k \in Failures : kernel' = kernel \cup (IF k = "submit" THEN {arg[t]} ELSE {})
  /\ UNCHANGED <<arbiter, op, backend, watch, cq, fd, runtime, poll>>

\* Faulty: the exception leaves the entry behind.
EraseNothing(t) ==
  /\ Goto(t, "erase", "destroy")
  /\ state' = [state EXCEPT ![arg[t]] = "error"]
  /\ UNCHANGED <<resolved, op, backend, system, runtime, poll>>

\* erase_entry; complete_inline_exception, and the coroutine goes on.
Erase(t) ==
  /\ Goto(t, "erase", "destroy")
  /\ entry' = [entry EXCEPT ![arg[t]] = "none"]
  /\ state' = [state EXCEPT ![arg[t]] = "error"]
  /\ UNCHANGED <<resolved, op, cancels, pollArmed, system, runtime, poll>>

-----------------------------------------------------------------------------
(* Cancellation, and posting, from any thread.                             *)

\* o is inside submit(), or leaves it with an exception.
Submitting(o) ==
  \E u \in Thread :
    /\ arg[u] = o
    /\ \/ pc[u] \in {"arm", "check", "bind", "insert", "ring", "erase"}
       \/ At(u, "destroy") /\ o \notin resolved

\* CancelSource::cancel calls cancel_from_source if that is registered.
RequestCancel(t, o) ==
  /\ o \in Cancellable \ stop /\ (Early \/ ~Submitting(o))
  /\ stop' = stop \cup {o}
  /\ IF reg[o] = "armed"
     THEN Enter(t, o, "decide") /\ reg' = [reg EXCEPT ![o] = "running"]
     ELSE At(t, "idle") /\ UNCHANGED <<frame, reg>>
  /\ UNCHANGED <<arbiter, bound, backend, system, runtime, poll>>

\* request_backend_cancel: resolved_ and io_backend_ are read, ...
Decide(t) ==
  LET o == arg[t] IN
  /\ Goto(t, "decide", CASE o \in resolved -> "leave"
                         [] o \in bound -> "lookup"
                         [] OTHER -> "abort")
  /\ UNCHANGED <<arbiter, op, backend, system, runtime, poll>>

\* ... and an operation without a backend is completed here.
Abort(t) ==
  /\ Goto(t, "abort", IF arg[t] \in resolved THEN "leave" ELSE "wake")
  /\ Finish(arg[t], "cancelled")
  /\ UNCHANGED <<op, backend, system, posts, poll>>

\* Faulty: marks the entry, and forgets to queue its id.
LookupUnqueued(t) ==
  LET o == arg[t] IN
  /\ Goto(t, "lookup", IF entry[o] = "live" THEN "wake" ELSE "leave")
  /\ entry' = IF entry[o] = "live" THEN [entry EXCEPT ![o] = "cancelled"] ELSE entry
  /\ UNCHANGED <<arbiter, op, cancels, pollArmed, system, runtime, poll>>

\* IoUringBackend::cancel: only an operation that has an entry is cancelled.
Lookup(t) ==
  LET o == arg[t] IN
  /\ Goto(t, "lookup", IF entry[o] = "live" THEN "wake" ELSE "leave")
  /\ entry' = IF entry[o] = "live" THEN [entry EXCEPT ![o] = "cancelled"] ELSE entry
  /\ cancels' = IF entry[o] = "live" THEN cancels \cup {o} ELSE cancels
  /\ UNCHANGED <<arbiter, op, pollArmed, system, runtime, poll>>

\* IoUringBackend::wake, by a canceller ...
Wake(t) ==
  /\ Goto(t, "wake", "leave")
  /\ fd' = TRUE
  /\ UNCHANGED <<arbiter, op, backend, kernel, watch, cq, runtime, poll>>

\* ... and by whoever has put something into the ready queue.
Signal(t) ==
  /\ Goto(t, "signal", "idle")
  /\ fd' = TRUE
  /\ UNCHANGED <<arbiter, op, backend, kernel, watch, cq, runtime, poll>>

\* The callback returns, to request_stop or to arm_cancel_registration.
Leave(t) ==
  LET o == arg[t] IN
  /\ Goto(t, "leave", IF reg[o] = "running" THEN "idle" ELSE "check")
  /\ reg' = [reg EXCEPT ![o] = "none"]
  /\ UNCHANGED <<arbiter, bound, stop, backend, system, runtime, poll>>

\* Runtime::post.
Post(t) ==
  /\ posts < MaxPost /\ "task" \notin queue /\ Enter(t, NoOp, "signal")
  /\ queue' = queue \cup {"task"} /\ posts' = posts + 1
  /\ UNCHANGED <<arbiter, op, backend, system, poll>>

-----------------------------------------------------------------------------
(* The driver: the loop of the runtime around poll().                      *)

Resume(o) ==
  /\ o \in queue \cap Oper /\ Enter(Driver, o, "destroy")
  /\ queue' = queue \ {o}
  /\ UNCHANGED <<arbiter, op, backend, system, posts, poll>>

RunTask ==
  /\ "task" \in queue /\ At(Driver, "idle")
  /\ queue' = queue \ {"task"}
  /\ UNCHANGED <<arbiter, op, backend, system, posts, frame, poll>>

\* Faulty: does not wait for the callback.
DestroyUnwaited(t) ==
  LET o == arg[t] IN
  /\ Goto(t, "destroy", "idle")
  /\ state' = [state EXCEPT ![o] = "gone"]
  /\ resolved' = resolved \ {o} /\ bound' = bound \ {o}
  /\ reg' = [reg EXCEPT ![o] = "none"]
  /\ UNCHANGED <<stop, backend, system, runtime, poll>>

\* The operation leaves scope; reset() waits for the callback.
Destroy(t) ==
  LET o == arg[t] IN
  /\ Goto(t, "destroy", "idle") /\ reg[o] # "running"
  /\ state' = [state EXCEPT ![o] = "gone"]
  /\ resolved' = resolved \ {o} /\ bound' = bound \ {o}
  /\ reg' = [reg EXCEPT ![o] = "none"]
  /\ UNCHANGED <<stop, backend, system, runtime, poll>>

\* run() and run_one() poll when nothing is ready and something is pending.
BeginPoll ==
  /\ queue = {} /\ \E o \in Oper : state[o] = "awaiting"
  /\ Enter(Driver, NoOp, "flush")
  /\ \E k \in Timeout : poll' = [timeout |-> k, ids |-> {}, found |-> FALSE]
  /\ UNCHANGED <<arbiter, op, backend, system, runtime>>

\* flush_pending_cancel_submissions: takes the ids ...
Flush ==
  /\ Goto(Driver, "flush", IF cancels = {} THEN "drain" ELSE "cancel")
  /\ poll' = [poll EXCEPT !.ids = cancels] /\ cancels' = {}
  /\ UNCHANGED <<arbiter, op, entry, pollArmed, system, runtime>>

\* ... and submits a cancel request for each.
SubmitCancel ==
  \E o \in poll.ids :
    /\ Goto(Driver, "cancel", IF poll.ids = {o} THEN "drain" ELSE "cancel")
    /\ poll' = [poll EXCEPT !.ids = @ \ {o}]
    /\ kernel' = kernel \ {o}
    /\ cq' = cq \o (IF o \in kernel THEN <<Cqe("op", o, "ECANCELED")>> ELSE <<>>)
                \o <<Cqe("cancel", o, "none")>>
    /\ UNCHANGED <<arbiter, op, backend, watch, fd, runtime>>

\* Faulty: the poll request on wake_fd_ still counts as armed.
ProcessWakeArmed ==
  /\ fd' = FALSE
  /\ UNCHANGED <<arbiter, op, backend, runtime, poll>>

\* handle_wake_cqe.
ProcessWake ==
  /\ fd' = FALSE /\ pollArmed' = FALSE
  /\ UNCHANGED <<arbiter, op, entry, cancels, runtime, poll>>

\* take_entry and complete_operation; the continuation it schedules wakes the
\* backend, too.
ProcessOp(o, res) ==
  /\ entry' = [entry EXCEPT ![o] = "none"]
  /\ \E s \in Outcome(o, res, entry[o] = "cancelled") : Finish(o, s)
  /\ fd' = TRUE /\ poll' = [poll EXCEPT !.found = TRUE]
  /\ UNCHANGED <<op, cancels, pollArmed, posts>>

\* process_cqe and io_uring_cqe_seen; what has no entry is not looked at.
ProcessCqe ==
  LET e == Head(cq) IN
  /\ cq # <<>> /\ cq' = Tail(cq)
  /\ CASE e.kind = "wake" -> ProcessWake
       [] e.kind = "op" /\ entry[e.op] # "none" -> ProcessOp(e.op, e.res)
       [] OTHER -> fd' = fd /\ UNCHANGED <<arbiter, op, backend, runtime, poll>>
  /\ UNCHANGED <<kernel, watch>>

\* drain_ready_cqes, before and after the wait.
Drain == \E l \in {"drain", "redrain"} : Goto(Driver, l, l) /\ ProcessCqe

DrainDone ==
  /\ cq = <<>>
  /\ \/ /\ poll.found \/ poll.timeout = "zero"
        /\ Goto(Driver, "drain", "idle") /\ poll' = NotPolling
     \/ /\ ~poll.found /\ poll.timeout # "zero"
        /\ Goto(Driver, "drain", "wait") /\ poll' = poll
  /\ UNCHANGED <<arbiter, op, backend, system, runtime>>

\* wait_for_one_cqe: arms the poll request on wake_fd_ if need be, and waits ...
Wait ==
  /\ Goto(Driver, "wait", "blocked")
  /\ watch' = (watch \/ ~pollArmed) /\ pollArmed' = TRUE
  /\ UNCHANGED <<arbiter, op, entry, cancels, kernel, cq, fd, runtime, poll>>

\* ... for a completion ...
Reap == Goto(Driver, "blocked", "redrain") /\ ProcessCqe

\* Faulty: a deadline is no reason to return.
ExpireAgain ==
  /\ poll.timeout = "finite" /\ Goto(Driver, "blocked", "flush")
  /\ UNCHANGED <<arbiter, op, backend, system, runtime, poll>>

\* ... or, unless poll() was given no limit, until its deadline.
Expire ==
  /\ poll.timeout = "finite" /\ Goto(Driver, "blocked", "idle")
  /\ poll' = NotPolling
  /\ UNCHANGED <<arbiter, op, backend, system, runtime>>

\* poll() returns if something completed or its deadline has passed, and goes
\* round again otherwise.
PollAgain ==
  /\ cq = <<>>
  /\ \/ ~poll.found /\ Goto(Driver, "redrain", "flush") /\ poll' = poll
     \/ /\ poll.found \/ poll.timeout = "finite"
        /\ Goto(Driver, "redrain", "idle") /\ poll' = NotPolling
  /\ UNCHANGED <<arbiter, op, backend, system, runtime>>

-----------------------------------------------------------------------------
(* The kernel.                                                             *)

\* A request ends; ECANCELED without a cancel request is what it reports when
\* the thread that submitted it has exited.
Arrive(o) ==
  /\ o \in kernel /\ kernel' = kernel \ {o}
  /\ \E res \in (Attempt(o) \ {"errno"}) \cup {"ECANCELED"} : cq' = Append(cq, Cqe("op", o, res))
  /\ UNCHANGED <<arbiter, op, backend, watch, fd, runtime, frame, poll>>

WakeEvent ==
  /\ watch /\ fd /\ watch' = FALSE
  /\ cq' = Append(cq, Cqe("wake", NoOp, "none"))
  /\ UNCHANGED <<arbiter, op, backend, kernel, fd, runtime, frame, poll>>

-----------------------------------------------------------------------------
InSubmit(t) ==
  \/ Arm(t) \/ Check(t) \/ Bind(t)
  \/ Reject(t) \/ Insert(t) \/ Submit(t) \/ SubmitFails(t) \/ Erase(t)
InCancel(t) ==
  Decide(t) \/ Abort(t) \/ Lookup(t) \/ Wake(t) \/ Signal(t) \/ Leave(t)
Drive ==
  \/ \E o \in Oper : Resume(o)
  \/ RunTask \/ BeginPoll \/ Flush \/ SubmitCancel \/ Drain \/ DrainDone
  \/ Wait \/ Reap \/ Expire \/ PollAgain
Continue(t) == InSubmit(t) \/ InCancel(t) \/ Destroy(t)

Next ==
  \/ \E t \in Thread :
       \/ Continue(t) \/ Post(t)
       \/ \E o \in Oper : Begin(t, o) \/ CompleteAtOnce(t, o) \/ RequestCancel(t, o)
  \/ Drive
  \/ \E o \in Oper : Arrive(o)
  \/ WakeEvent

Spec == Init /\ [][Next]_vars

\* Threads go on, deadlines pass and the kernel reports that wake_fd_ is
\* readable; no peer is obliged to send anything.
LiveSpec ==
  Spec /\ WF_vars(WakeEvent) /\ WF_vars(Drive) /\ \A t \in Thread : WF_vars(Continue(t))

-----------------------------------------------------------------------------
(* Properties.                                                             *)

States == {"init", "awaiting", "data", "eof", "error", "cancelled", "gone"}
SubmitPc == {"arm", "check", "bind", "insert", "ring", "erase"}
CancelPc == {"decide", "abort", "lookup", "wake", "signal", "leave"}
PollPc == {"flush", "cancel", "drain", "wait", "blocked", "redrain"}

\* The fields of io_uring_backend.h:586-596 and io_operation.h:178-184; only the
\* driver polls.
TypeOK ==
  /\ state \in [Oper -> States] /\ resolved \subseteq Oper /\ bound \subseteq Oper
  /\ reg \in [Oper -> {"none", "armed", "running"}]
  /\ stop \subseteq Oper
  /\ entry \in [Oper -> {"none", "live", "cancelled"}] /\ cancels \subseteq Oper
  /\ pollArmed \in BOOLEAN /\ kernel \subseteq Oper /\ watch \in BOOLEAN
  /\ fd \in BOOLEAN /\ queue \subseteq Oper \cup {"task"} /\ posts \in 0 .. MaxPost
  /\ pc \in [Thread -> {"idle", "destroy"} \cup SubmitPc \cup CancelPc \cup PollPc]
  /\ \A t \in Thread : pc[t] \in PollPc => t = Driver
  /\ poll.ids \subseteq Oper /\ (poll.ids # {} => At(Driver, "cancel"))

\* The completions of o that wait in the ring.
Reported(o) == {i \in DOMAIN cq : cq[i].kind = "op" /\ cq[i].op = o}

\* An entry stands for an operation that still waits, and exactly one completion
\* is to come for it: process_cqe never completes a destroyed operation, nor is
\* one forgotten (io_uring_backend.h:282-303).
EntryHasCompletion ==
  \A o \in Oper : entry[o] # "none" =>
    /\ state[o] = "awaiting"
    /\ LET toSubmit == \E t \in Thread : pc[t] \in {"ring", "erase"} /\ arg[t] = o IN
       /\ toSubmit => o \notin kernel /\ Reported(o) = {}
       /\ o \in kernel => Reported(o) = {}
       /\ toSubmit \/ o \in kernel \/ Cardinality(Reported(o)) = 1

\* Nobody uses a destroyed operation: it has no entry, the kernel does not write
\* to its buffer, and no callback or submit() is at work on it (io_operation.h:72).
DestroyedIsUnused ==
  \A o \in Oper : state[o] = "gone" =>
    /\ entry[o] = "none" /\ o \notin kernel /\ o \notin queue /\ reg[o] = "none"
    /\ \A t \in Thread : arg[t] = o => pc[t] = "signal"

\* A wake() while the driver waits in the kernel gets it out of there: the poll
\* request on wake_fd_ is armed again after every wake-up that was consumed.
WakeReachesDriver == Blocked /\ fd => watch \/ cq # <<>>

\* To the awaiter an operation is what AsyncIo promises: it ends once, it reports
\* operation_aborted only to who asked (a connect cannot tell), and neither it ends
\* nor is it destroyed while the kernel has it (operation_base.h, complete_*).
Abstract == INSTANCE AsyncIo WITH asked <- stop, lent <- kernel, Blind <- Connect
ImplementsAsyncIo == Abstract!Spec

\* A cancellation ends an operation that waits, whatever its peer does.
CancelLands ==
  \A o \in Oper :
    o \in stop /\ reg[o] = "running" /\ state[o] = "awaiting" ~> state[o] # "awaiting"

\* What is posted while the driver polls is run.
PostRuns == "task" \in queue ~> "task" \notin queue

=============================================================================
