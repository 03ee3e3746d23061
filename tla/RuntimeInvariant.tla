-------------------------- MODULE RuntimeInvariant --------------------------
(***************************************************************************)
(* The inductive invariant of Runtime: what WorkAccounted, QueuedOnce and  *)
(* ReturnsDrained need to know of the rest of the state.                   *)
(***************************************************************************)
EXTENDS Runtime

\* A thread in a body or in submit() executes a coroutine nobody else executes.
BodiesSound ==
  /\ \A t \in Thread :
       /\ pc[t] = "body" => co[cur[t]] = "running"
       /\ pc[t] = "submit" => co[cur[t]] = "retained"
  /\ \A t, u \in Thread :
       /\ pc[t] \in {"body", "submit"} /\ pc[u] \in {"body", "submit"}
       /\ cur[t] = cur[u]
       => t = u

\* cancel_from_source works on a sleep it has resolved, alone.
CancelsSound ==
  /\ \A t \in Thread : cancelling[t] # NoCoro =>
       co[cancelling[t]] = "sleeping" /\ resolved[cancelling[t]]
  /\ \A t, u \in Thread :
       cancelling[t] # NoCoro /\ cancelling[t] = cancelling[u] => t = u

\* The operations the driver dispatches are suspended, or were cancelled while
\* they waited in the batch and will be skipped.
BatchSound ==
  /\ batch # {} => driver # NoThread /\ pc[driver] = "dispatch"
  /\ \A c \in batch :
       /\ timer[c] = Never /\ c \notin ioready
       /\ co[c] \in {"sleeping", "io", "queued"}
       /\ ~resolved[c] => co[c] # "queued"

IoSound == \A c \in ioready : co[c] = "io"

\* What is in the queue or in the driver's hand was queued, once.
QueueSound ==
  /\ Distinct(ready)
  /\ \A c \in Elems(ready) : co[c] = "queued"
  /\ \A t \in Thread :
       pc[t] \in {"resume", "dispatch"} /\ cur[t] # NoCoro =>
         co[cur[t]] = "queued" /\ cur[t] \notin Elems(ready)

\* The driver is inside its call, and holds a coroutine only while it has popped
\* or executes one; joins are tracked if Await says so.
DriverSound ==
  /\ driver # NoThread => pc[driver] # "idle"
  /\ \A t \in Thread :
       pc[t] \in {"idle", "loop", "cv", "woken", "poll", "end"} => cur[t] = NoCoro
JoinsTracked == "join" \notin Await => \A c \in Coro : co[c] # "untracked"

Structure ==
  /\ BodiesSound /\ CancelsSound /\ BatchSound /\ IoSound /\ QueueSound
  /\ TimersAreLive /\ DriverSound /\ JoinsTracked

IInv ==
  /\ TypeOK /\ Structure
  /\ "join" \notin Await => WorkAccounted

-----------------------------------------------------------------------------
(* What QueuedOnce, SleepersCanWake and NoLostWakeup need, beyond IInv.     *)

\* The driver is in run(), which takes nothing from the queue before its timers
\* have been dispatched.
OnlyRun ==
  /\ mode = "run"
  /\ \A t \in Thread : pc[t] = "dispatch" => cur[t] = NoCoro

QueuedThere ==
  \A c \in Coro : co[c] = "queued" => c \in Elems(ready) \/ InHand(c)

\* A sleep that was resolved and still sleeps is being cancelled.
ResolvedIsCancelled ==
  \A c \in Coro : co[c] = "sleeping" /\ resolved[c] =>
    \E t \in Thread : cancelling[t] = c

\* When its turn is over, a coroutine has been suspended or has returned.
FinishSound ==
  \A t \in Thread :
    pc[t] = "finish" => co[cur[t]] \notin {"new", "running", "retained"}

RunInv == OnlyRun /\ QueuedThere /\ SleepersCanWake /\ ResolvedIsCancelled /\ FinishSound

WakeInv ==
  /\ NoLostWakeup
  /\ \A t \in Thread : pc[t] = "poll" => backend # "none"

=============================================================================
