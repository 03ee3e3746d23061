--------------------------- MODULE RuntimeExecutor ---------------------------
(***************************************************************************)
(* run() implements Executor: the refinement mapping.                      *)
(***************************************************************************)
EXTENDS RuntimeInvariant

\* A continuation popped into the driver's hand is already having its turn.
StateOf(c) ==
  CASE co[c] = "new" -> "fresh"
    [] co[c] = "queued" -> IF c \in Elems(ready) THEN "ready" ELSE "running"
    [] co[c] \in {"running", "retained"} -> "running"
    [] co[c] \in {"sleeping", "io", "waiting"} -> "suspended"
    [] co[c] \in {"parked", "untracked"} -> "detached"
    [] co[c] = "done" -> "done"

AbstractState == [c \in Coro |-> StateOf(c)]

AbstractDriven == driver # NoThread /\ pc[driver] # "end"
AbstractExecuting == IF driver = NoThread THEN NoCoro ELSE cur[driver]

Abstract ==
  INSTANCE Executor WITH
    state <- AbstractState, line <- ready, executing <- AbstractExecuting,
    open <- ~stopped, driven <- AbstractDriven

\* Every step of the event loop in run() mode, and of every thread around it,
\* is a step of the Executor or invisible to it (runtime.h:302-355).
ImplementsExecutor == Abstract!Spec

=============================================================================
