------------------------------ MODULE Executor ------------------------------
(***************************************************************************)
(* What mcqnet::runtime::Runtime promises to the coroutines given to it,   *)
(* with no mutex, condition variable, backend or counter: continuations    *)
(* are resumed one at a time, in the order they became ready, exactly once *)
(* for each time they became ready; and the driver leaves only when the    *)
(* runtime is closed and no continuation is ready or will become ready     *)
(* (runtime.h:293-301, :405-407, :697-698).                                *)
(***************************************************************************)
EXTENDS Sequences

CONSTANTS Coro, NoCoro

VARIABLES
  state,      \* "detached": suspended in a way the runtime does not track
  line,       \* the ready continuations, oldest first
  executing,  \* the coroutine whose turn it is
  open,       \* new work is accepted
  driven      \* somebody is inside run()

vars == <<state, line, executing, open, driven>>

Init ==
  /\ state = [c \in Coro |-> "fresh"] /\ line = <<>> /\ executing = NoCoro
  /\ open = TRUE /\ driven = FALSE

Become(c, s) == state' = [state EXCEPT ![c] = s]
Enqueue(c) == Become(c, "ready") /\ line' = Append(line, c)

Accept(c) ==
  /\ open /\ state[c] \in {"fresh", "detached"}
  /\ Enqueue(c) /\ UNCHANGED <<executing, open, driven>>

\* c starts on a thread of its own.
Adopt(c) ==
  /\ state[c] = "fresh"
  /\ Become(c, "running") /\ UNCHANGED <<line, executing, open, driven>>

Take ==
  /\ driven /\ executing = NoCoro /\ line # <<>>
  /\ executing' = Head(line) /\ line' = Tail(line)
  /\ Become(Head(line), "running") /\ UNCHANGED <<open, driven>>

\* c leaves the processor, for good or until it is woken or accepted again.
Stop(c) ==
  /\ state[c] = "running"
  /\ \E s \in {"suspended", "detached", "done"} : Become(c, s)
  /\ UNCHANGED <<line, executing, open, driven>>

\* c is woken, or gives up its turn.
Wake(c) ==
  /\ state[c] \in {"suspended", "running"}
  /\ Enqueue(c) /\ UNCHANGED <<executing, open, driven>>

TurnOver ==
  /\ executing # NoCoro /\ state[executing] # "running"
  /\ executing' = NoCoro /\ UNCHANGED <<state, line, open, driven>>

Close == open /\ open' = FALSE /\ UNCHANGED <<state, line, executing, driven>>

Drive == ~driven /\ driven' = TRUE /\ UNCHANGED <<state, line, executing, open>>

Leave ==
  /\ driven /\ ~open /\ executing = NoCoro
  /\ line = <<>> /\ \A c \in Coro : state[c] # "suspended"
  /\ driven' = FALSE /\ UNCHANGED <<state, line, executing, open>>

Next ==
  \/ \E c \in Coro : Accept(c) \/ Adopt(c) \/ Stop(c) \/ Wake(c)
  \/ Take \/ TurnOver \/ Close \/ Drive \/ Leave

Spec == Init /\ [][Next]_vars

=============================================================================
