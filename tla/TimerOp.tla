------------------------------- MODULE TimerOp -------------------------------
(***************************************************************************)
(* One sleep or timeout: BasicTimerOperation (time/sleep.h) with its       *)
(* OperationBase, from await_suspend to the destructor that runs when the  *)
(* resumed coroutine leaves the co_await.  It composes Cancel: the token's *)
(* callback is cancel_from_source of this operation.  Of the runtime only  *)
(* what the operation touches remains: its entry in the timer tables and   *)
(* its continuation in the ready queue.                                    *)
(***************************************************************************)
EXTENDS Naturals, Sequences

CONSTANTS
  Thread, Driver, Submitter,  \* the runtime's driver, and who calls submit()
  Cb, NoCb, Reg, NoReg,
  Fired,                      \* how a deadline completes: "completed" for sleep,
                              \* "cancelled" (timed_out) for timeout
  Throws                      \* the submissions in which schedule_timer may throw

ASSUME TimerOpAssumption ==
  /\ {Driver, Submitter} \subseteq Thread /\ NoReg # "reg" /\ NoCb \notin Cb /\ Reg = {"reg"}
  /\ Fired \in {"completed", "cancelled"} /\ Throws \subseteq {"cancellable", "uncancellable"}

VARIABLES stop, list, armed, running, holds, context, made, pc, obj, goal, cb, todo

Token == INSTANCE Cancel

VARIABLES
  state,      \* OperationBase::state_
  resolved,   \* resolved_
  timerId,    \* timer_id_ # 0
  table,      \* the entry in Runtime's tables; "collected" by the driver
  queued,     \* how often the continuation is in the ready queue
  dead,       \* the operation has been destroyed
  where,      \* where each thread is in the operation's code
  body        \* where it is in cancel_from_source

token == <<stop, list, armed, running, holds, context, made, pc, obj, goal, cb, todo>>
arbiter == <<state, resolved, timerId>>
runtime == <<table, queued>>
vars == <<token, arbiter, runtime, dead, where, body>>

Init ==
  /\ Token!Init
  /\ state = "init" /\ resolved = FALSE /\ timerId = FALSE
  /\ table = "none" /\ queued = 0 /\ dead = FALSE
  /\ where = [t \in Thread |-> "idle"] /\ body = [t \in Thread |-> "none"]

\* t goes on from one place of the operation's code to another, in no token call.
Step(t, from, to) ==
  /\ where[t] = from /\ pc[t] = "idle"
  /\ where' = [where EXCEPT ![t] = to]

\* Faulty: nobody is scheduled.
FinishSilently(s) == state' = s /\ queued' = queued

\* OperationBase::complete and cancel: the first to leave `awaiting` schedules.
Finish(s) ==
  /\ state' = s
  /\ queued' = IF state = "awaiting" THEN queued + 1 ELSE queued

\* Runtime::cancel_timer: nothing to do once the driver has collected it.
RemoveTimer == table' = IF table = "armed" THEN "none" ELSE table

-----------------------------------------------------------------------------
(* await_suspend and submit.                                               *)

PrepareAwait(t) ==
  /\ t = Submitter /\ state = "init" /\ Step(t, "idle", "arm")
  /\ state' = "awaiting"
  /\ UNCHANGED <<token, resolved, timerId, runtime, dead, body>>

\* cancel_registration_.reset(cancel_token_, ...); a stop that is already
\* requested runs cancel_from_source here.
ArmCancel(t) ==
  /\ where[t] = "arm" /\ where' = [where EXCEPT ![t] = "armed"]
  /\ Token!Register(t, "reg")
  /\ UNCHANGED <<arbiter, runtime, dead, body>>

\* Without a token, or once the registration is made and nothing resolved it.
Armed(t) ==
  /\ Step(t, "armed", IF resolved THEN "idle" ELSE "schedule")
  /\ UNCHANGED <<token, arbiter, runtime, dead, body>>

NoToken(t) ==
  /\ Step(t, "arm", "schedule")
  /\ UNCHANGED <<token, arbiter, runtime, dead, body>>

\* The deadline has passed: finish_from_deadline inside submit.
Elapsed(t) ==
  /\ Step(t, "schedule", "fire")
  /\ UNCHANGED <<token, arbiter, runtime, dead, body>>

Schedule(t) ==
  /\ Step(t, "schedule", "publish")
  /\ table' = "armed"
  /\ UNCHANGED <<token, arbiter, queued, dead, body>>

PublishId(t) ==
  /\ Step(t, "publish", "recheck")
  /\ timerId' = TRUE
  /\ UNCHANGED <<token, state, resolved, runtime, dead, body>>

\* resolved_ is tested again: a cancellation that saw no id left the timer behind.
Recheck(t) ==
  /\ Step(t, "recheck", IF resolved THEN "unpublish" ELSE "idle")
  /\ IF resolved THEN RemoveTimer ELSE UNCHANGED table
  /\ UNCHANGED <<token, arbiter, queued, dead, body>>

UnpublishId(t) ==
  /\ Step(t, "unpublish", "idle")
  /\ timerId' = FALSE
  /\ UNCHANGED <<token, state, resolved, runtime, dead, body>>

\* schedule_timer throws: await_suspend completes the operation with the
\* exception and the coroutine goes on without being suspended.
SubmitThrows(t) ==
  /\ (IF holds["reg"] = NoCb THEN "uncancellable" ELSE "cancellable") \in Throws
  /\ Step(t, "schedule", "inline")
  /\ UNCHANGED <<token, arbiter, runtime, dead, body>>

InlineException(t) ==
  /\ Step(t, "inline", "destroy")
  /\ state' = "completed"
  /\ UNCHANGED <<token, resolved, timerId, runtime, dead, body>>

-----------------------------------------------------------------------------
(* finish_from_deadline, on the driver or inside submit.                   *)

\* The driver has collected the expired timer and calls fire_from_runtime.
Collect(t) ==
  /\ t = Driver /\ table = "armed" /\ Step(t, "idle", "fire")
  /\ table' = "collected"
  /\ UNCHANGED <<token, arbiter, queued, dead, body>>

Fire(t) ==
  /\ Step(t, "fire", IF resolved THEN "idle" ELSE "unregister")
  /\ resolved' = TRUE /\ table' = "none"
  /\ UNCHANGED <<token, state, timerId, queued, dead, body>>

\* Faulty: goes on without cancel_registration_.reset().
ResetNothing(t, from, to) == Step(t, from, to) /\ UNCHANGED token

\* cancel_registration_.reset(), which waits for a callback that is running.
ResetRegistration(t, from, to) ==
  /\ where[t] = from /\ where' = [where EXCEPT ![t] = to]
  /\ \/ Token!Reset(t, "reg")
     \/ holds["reg"] = NoCb /\ pc[t] = "idle" /\ UNCHANGED token

Unregister(t) ==
  /\ ResetRegistration(t, "unregister", "clear")
  /\ UNCHANGED <<arbiter, runtime, dead, body>>

ClearId(t) ==
  /\ Step(t, "clear", "complete")
  /\ timerId' = FALSE
  /\ UNCHANGED <<token, state, resolved, runtime, dead, body>>

Complete(t) ==
  /\ Step(t, "complete", "idle")
  /\ Finish(Fired)
  /\ UNCHANGED <<token, resolved, timerId, table, dead, body>>

-----------------------------------------------------------------------------
(* cancel_from_source, the body of the token's callback.                   *)

InBody(t, from, to) ==
  /\ pc[t] = "body" /\ body[t] = from
  /\ body' = [body EXCEPT ![t] = to]

\* Faulty: resolved_ is not consulted.
CancelUnarbitrated(t) ==
  /\ InBody(t, "exchange", "takeId")
  /\ resolved' = TRUE
  /\ UNCHANGED <<token, state, timerId, runtime, dead, where>>

CancelExchange(t) ==
  /\ InBody(t, "exchange", IF resolved THEN "done" ELSE "takeId")
  /\ resolved' = TRUE
  /\ UNCHANGED <<token, state, timerId, runtime, dead, where>>

CancelTakeId(t) ==
  /\ InBody(t, "takeId", IF timerId THEN "untime" ELSE "cancel")
  /\ timerId' = FALSE
  /\ UNCHANGED <<token, state, resolved, runtime, dead, where>>

CancelTimer(t) ==
  /\ InBody(t, "untime", "cancel")
  /\ RemoveTimer
  /\ UNCHANGED <<token, arbiter, queued, dead, where>>

CancelFinish(t) ==
  /\ InBody(t, "cancel", "done")
  /\ Finish("cancelled")
  /\ UNCHANGED <<token, resolved, timerId, table, dead, where>>

-----------------------------------------------------------------------------
(* Resumption, and the destructor.                                         *)

Resume(t) ==
  /\ t = Driver /\ queued > 0 /\ Step(t, "idle", "destroy")
  /\ queued' = queued - 1
  /\ UNCHANGED <<token, arbiter, table, dead, body>>

Destroy(t) ==
  /\ ResetRegistration(t, "destroy", "dropTimer")
  /\ UNCHANGED <<arbiter, runtime, dead, body>>

\* timer_id_.exchange and cancel_timer: nobody else uses the id any more.
DropTimer(t) ==
  /\ Step(t, "dropTimer", "free")
  /\ IF timerId THEN RemoveTimer ELSE UNCHANGED table
  /\ timerId' = FALSE
  /\ UNCHANGED <<token, state, resolved, queued, dead, body>>

Free(t) ==
  /\ Step(t, "free", "idle")
  /\ dead' = TRUE
  /\ UNCHANGED <<token, arbiter, runtime, body>>

-----------------------------------------------------------------------------
(* The token.                                                              *)

\* invoke() calls cancel_from_source, and goes on when that has returned.
EnterBody(t) ==
  /\ Token!Invoke(t) /\ body' = [body EXCEPT ![t] = "exchange"]
  /\ UNCHANGED <<arbiter, runtime, dead, where>>

LeaveBody(t) ==
  /\ Token!InvokeReturn(t) /\ body[t] = "done" /\ body' = [body EXCEPT ![t] = "none"]
  /\ UNCHANGED <<arbiter, runtime, dead, where>>

TokenStep(t) ==
  /\ \/ Token!InvokeSkip(t) \/ Token!InvokeNotify(t) \/ Token!RemoveCallback(t)
     \/ Token!Disarm(t) \/ Token!Recheck(t) \/ Token!Release(t) \/ Token!Add(t)
     \/ Token!Store(t)
  /\ UNCHANGED <<arbiter, runtime, dead, where, body>>

\* CancelSource::cancel, from any thread that is not in the operation.
RequestCancel(t) ==
  /\ where[t] = "idle" /\ Token!RequestStop(t)
  /\ UNCHANGED <<arbiter, runtime, dead, where, body>>

Continue(t) ==
  \/ ArmCancel(t) \/ NoToken(t) \/ Armed(t) \/ Elapsed(t) \/ Schedule(t)
  \/ PublishId(t) \/ Recheck(t) \/ UnpublishId(t)
  \/ SubmitThrows(t) \/ InlineException(t)
  \/ Collect(t) \/ Fire(t) \/ Unregister(t) \/ ClearId(t) \/ Complete(t)
  \/ CancelExchange(t) \/ CancelTakeId(t) \/ CancelTimer(t) \/ CancelFinish(t)
  \/ Resume(t) \/ Destroy(t) \/ DropTimer(t) \/ Free(t)
  \/ EnterBody(t) \/ LeaveBody(t) \/ TokenStep(t)

Next == \E t \in Thread : PrepareAwait(t) \/ Continue(t) \/ RequestCancel(t)

Spec == Init /\ [][Next]_vars

\* Threads finish what they started; an armed timer expires and the driver runs.
LiveSpec == Spec /\ \A t \in Thread : WF_vars(Continue(t))

-----------------------------------------------------------------------------
(* Properties.                                                             *)

\* The operation and its arbitration: whoever completes it has won resolved_, and
\* it is queued only after it completed (sleep.h:129-153, operation_base.h:116-139).
TypeOK ==
  /\ state \in {"init", "awaiting", "completed", "cancelled"}
  /\ resolved \in BOOLEAN /\ timerId \in BOOLEAN /\ dead \in BOOLEAN
  /\ table \in {"none", "armed", "collected"} /\ queued \in 0 .. 1
  /\ state \in {"init", "awaiting"} => queued = 0 /\ ~dead

\* A destroyed operation is out of everybody's reach: no timer in the tables, no
\* callback running or armed, no thread in submit or in a completion, and its
\* continuation is not queued again (the destructor of sleep.h:61-67).
DestroyedIsUnreachable ==
  dead => /\ table = "none" /\ queued = 0
          /\ armed = {} /\ running = {}
          /\ \A t \in Thread : where[t] = "idle"

\* complete(), cancel() and complete_inline_exception() find the operation awaiting:
\* the asserts of operation_base.h:125, :138 and :147 never see a second completion.
CompletedOnce ==
  \A t \in Thread :
    where[t] \in {"complete", "inline"} \/ body[t] = "cancel" => state = "awaiting"

\* A sleep that was started ends, and its operation is destroyed.
SleepEnds == state = "awaiting" ~> dead

=============================================================================
