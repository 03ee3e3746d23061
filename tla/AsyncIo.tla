-------------------------------- MODULE AsyncIo --------------------------------
(* What an asynchronous socket operation promises to the coroutine that awaits   *)
(* it: it ends once, it does not claim to be cancelled unless it was asked to    *)
(* be, and while it is in the hands of the kernel neither the coroutine goes on  *)
(* nor the operation goes away. No queue, no table, no ring.                     *)
CONSTANTS Oper,
  Blind   \* the operations that cannot tell a cancellation from a failure

VARIABLES
  state,   \* "init", "awaiting", how it ended, or "gone"
  asked,   \* the operations somebody has asked to cancel
  lent     \* those whose buffer the kernel uses

vars == <<state, asked, lent>>

Ended == {"data", "eof", "error", "cancelled"}

Init == state = [o \in Oper |-> "init"] /\ asked = {} /\ lent = {}

Await(o) ==
  /\ state[o] = "init" /\ state' = [state EXCEPT ![o] = "awaiting"]
  /\ UNCHANGED <<asked, lent>>

Lend(o) ==
  /\ state[o] = "awaiting" /\ lent' = lent \cup {o}
  /\ UNCHANGED <<state, asked>>

\* Cancellation takes back what was lent in the step that asks the kernel for it.
Return(o) ==
  /\ o \in lent /\ lent' = lent \ {o}
  /\ UNCHANGED <<state, asked>>

Ask(o) ==
  /\ asked' = asked \cup {o}
  /\ UNCHANGED <<state, lent>>

End(o) ==
  /\ state[o] \in {"init", "awaiting"} /\ o \notin lent
  /\ \E s \in Ended :
       /\ s = "cancelled" => o \in asked \cup Blind
       /\ state' = [state EXCEPT ![o] = s]
  /\ UNCHANGED <<asked, lent>>

Destroy(o) ==
  /\ state[o] \in Ended /\ o \notin lent
  /\ state' = [state EXCEPT ![o] = "gone"]
  /\ UNCHANGED <<asked, lent>>

Next ==
  \E o \in Oper : Await(o) \/ Lend(o) \/ Return(o) \/ Ask(o) \/ End(o) \/ Destroy(o)

Spec == Init /\ [][Next]_vars

=============================================================================
