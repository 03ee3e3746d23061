-------------------------------- MODULE Cancel --------------------------------
(***************************************************************************)
(* Cooperative cancellation (runtime/cancel.h): one CancelState shared by  *)
(* every copy of a CancelSource and its tokens, the CancelCallbackStates   *)
(* registered with it, and the CancelRegistrations that own those.         *)
(*                                                                         *)
(* One action is one critical section of CancelState::mutex_ or of         *)
(* CancelCallbackState::mutex_, with the code that follows it up to the    *)
(* next one.  A callback runs between two sections of invoke(), outside    *)
(* every mutex, for as long as it likes.                                   *)
(***************************************************************************)
EXTENDS Naturals, Sequences, SequencesExt

CONSTANTS
  Reg,          \* the CancelRegistration objects
  Cb,           \* the callback states made by reset(token, callback, context)
  Thread,
  NoReg, NoCb

ASSUME CancelAssumption ==
  NoReg \notin Reg /\ NoCb \notin Cb /\ {"reset", "add"} \cap Reg = {}

VARIABLES
  stop,         \* CancelState::stop_requested_
  list,         \* CancelState::callbacks_
  armed,        \* the callback states whose armed_ is set
  running,      \* the callback states whose running_ is set
  holds,        \* CancelRegistration::callback_
  context,      \* the callbacks whose context still exists
  made,         \* the callback states made so far
  pc,           \* where each thread is in the code
  obj,          \* the registration its call is about
  goal,         \* what reset() is part of: "reset", "add" or a registration
  cb,           \* the callback state reset(token, ...) registers
  todo          \* the callbacks the thread is to invoke, in order

shared == <<stop, list>>
state == <<armed, running>>
frame == <<obj, goal, cb>>
vars == <<shared, state, holds, context, made, pc, frame, todo>>

Init ==
  /\ stop = FALSE /\ list = <<>>
  /\ armed = {} /\ running = {}
  /\ holds = [r \in Reg |-> NoCb] /\ context = {} /\ made = {}
  /\ pc = [t \in Thread |-> "idle"]
  /\ obj = [t \in Thread |-> NoReg] /\ goal = [t \in Thread |-> "reset"]
  /\ cb = [t \in Thread |-> NoCb] /\ todo = [t \in Thread |-> <<>>]

At(t, l) == pc[t] = l
Goto(t, l) == pc' = [pc EXCEPT ![t] = l]

\* A registration is used by one thread at a time: it is part of an operation.
Unused(r) == \A u \in Thread : ~At(u, "idle") => r \notin {obj[u], goal[u]}

-----------------------------------------------------------------------------
(* CancelSource::cancel and CancelCallbackState::invoke.                   *)

\* Faulty: goes into the loop without looking whether there is a callback.
RequestStopUntested(t) ==
  /\ At(t, "idle") /\ ~stop
  /\ stop' = TRUE /\ list' = <<>>
  /\ todo' = [todo EXCEPT ![t] = list]
  /\ obj' = [obj EXCEPT ![t] = NoReg] /\ goal' = [goal EXCEPT ![t] = "reset"]
  /\ Goto(t, "invoke")
  /\ UNCHANGED <<state, holds, context, made, cb>>

\* request_stop: only the first call takes the callbacks, and invokes them.
RequestStop(t) ==
  /\ At(t, "idle") /\ ~stop
  /\ stop' = TRUE /\ list' = <<>>
  /\ todo' = [todo EXCEPT ![t] = list]
  /\ obj' = [obj EXCEPT ![t] = NoReg] /\ goal' = [goal EXCEPT ![t] = "reset"]
  /\ Goto(t, IF list = <<>> THEN "idle" ELSE "invoke")
  /\ UNCHANGED <<state, holds, context, made, cb>>

\* invoke, first section: take the armed callback and call it.
Invoke(t) ==
  LET b == Head(todo[t]) IN
  /\ At(t, "invoke") /\ b \in armed
  /\ armed' = armed \ {b} /\ running' = running \cup {b}
  /\ Goto(t, "body")
  /\ UNCHANGED <<shared, holds, context, made, frame, todo>>

\* The callback has returned; second section of invoke.
InvokeReturn(t) ==
  /\ At(t, "body")
  /\ running' = running \ {Head(todo[t])}
  /\ Goto(t, "notify")
  /\ UNCHANGED <<shared, armed, holds, context, made, frame, todo>>

\* Next callback of the loop in request_stop, if any.
Advance(t, p) ==
  /\ todo' = [todo EXCEPT ![t] = Tail(@)]
  /\ pc' = [p EXCEPT ![t] = IF Len(todo[t]) = 1 THEN "idle" ELSE "invoke"]

\* invoke returns at once for a callback that is not armed any more.
InvokeSkip(t) ==
  /\ At(t, "invoke") /\ Head(todo[t]) \notin armed
  /\ Advance(t, pc)
  /\ UNCHANGED <<shared, state, holds, context, made, frame>>

\* Faulty: cv_.notify_all() is forgotten.
InvokeNotifyNobody(t) ==
  /\ At(t, "notify")
  /\ Advance(t, pc)
  /\ UNCHANGED <<shared, state, holds, context, made, frame>>

\* cv_.notify_all(): wakes whoever waits in disarm_and_wait of this callback.
InvokeNotify(t) ==
  /\ At(t, "notify")
  /\ Advance(t, [u \in Thread |->
       IF At(u, "wait") /\ holds[obj[u]] = Head(todo[t]) THEN "woken" ELSE pc[u]])
  /\ UNCHANGED <<shared, state, holds, context, made, frame>>

-----------------------------------------------------------------------------
(* CancelRegistration::reset, reset(token, ...) and move assignment.       *)

\* A call about r starts; all three begin with reset() if r holds a callback.
Begin(t, r, g, then) ==
  /\ At(t, "idle") /\ Unused(r)
  /\ obj' = [obj EXCEPT ![t] = r] /\ goal' = [goal EXCEPT ![t] = g]
  /\ Goto(t, IF holds[r] # NoCb THEN "remove" ELSE then)
  /\ UNCHANGED <<shared, state, holds, context, todo>>

\* reset() and the destructor.
Reset(t, r) ==
  /\ holds[r] # NoCb /\ Begin(t, r, "reset", "idle")
  /\ UNCHANGED <<made, cb>>

\* reset(token, callback, context), on a new or used registration; b is the state
\* it makes once the old one is gone.
Register(t, r) ==
  /\ Begin(t, r, "add", "add")
  /\ \E b \in Cb \ made : made' = made \cup {b} /\ cb' = [cb EXCEPT ![t] = b]

\* r = std::move(s).
MoveFrom(t, r, s) ==
  /\ r # s /\ Unused(s) /\ Begin(t, r, s, "take")
  /\ UNCHANGED <<made, cb>>

\* remove_if and erase: a callback state is added once, so there is at most one b.
Erase(s, b) ==
  IF b \in ToSet(s) THEN RemoveAt(s, CHOOSE i \in DOMAIN s : s[i] = b) ELSE s

\* remove_callback.
RemoveCallback(t) ==
  /\ At(t, "remove")
  /\ list' = Erase(list, holds[obj[t]])
  /\ Goto(t, "disarm")
  /\ UNCHANGED <<stop, state, holds, context, made, frame, todo>>

\* Faulty: disarms without waiting for a callback that is running.
DisarmOnly(t) ==
  /\ At(t, "disarm")
  /\ armed' = armed \ {holds[obj[t]]}
  /\ Goto(t, "release")
  /\ UNCHANGED <<shared, running, holds, context, made, frame, todo>>

\* disarm_and_wait: cv_.wait only while the callback runs ...
Disarm(t) ==
  LET b == holds[obj[t]] IN
  /\ At(t, "disarm")
  /\ armed' = armed \ {b}
  /\ Goto(t, IF b \in running THEN "wait" ELSE "release")
  /\ UNCHANGED <<shared, running, holds, context, made, frame, todo>>

\* ... and tests running_ again when it is woken.
Recheck(t) ==
  /\ At(t, "woken")
  /\ Goto(t, IF holds[obj[t]] \in running THEN "wait" ELSE "release")
  /\ UNCHANGED <<shared, state, holds, context, made, frame, todo>>

SpuriousWake(t) ==
  /\ At(t, "wait") /\ Goto(t, "woken")
  /\ UNCHANGED <<shared, state, holds, context, made, frame, todo>>

\* reset() lets go of the callback; its caller may destroy the context now.
Release(t) ==
  LET b == holds[obj[t]] IN
  /\ At(t, "release")
  /\ holds' = [holds EXCEPT ![obj[t]] = NoCb]
  /\ context' = context \ {b}
  /\ Goto(t, CASE goal[t] = "reset" -> "idle"
               [] goal[t] = "add" -> "add"
               [] OTHER -> "take")
  /\ UNCHANGED <<shared, state, made, frame, todo>>

\* Faulty: does not ask whether the stop was requested already.
AddUnchecked(t) ==
  /\ At(t, "add")
  /\ armed' = armed \cup {cb[t]} /\ context' = context \cup {cb[t]}
  /\ list' = Append(list, cb[t])
  /\ Goto(t, "store")
  /\ UNCHANGED <<stop, running, holds, made, frame, todo>>

\* add_callback; after the stop the callback is invoked on the spot and the
\* registration stays empty.
Add(t) ==
  /\ At(t, "add")
  /\ armed' = armed \cup {cb[t]} /\ context' = context \cup {cb[t]}
  /\ \/ stop /\ todo' = [todo EXCEPT ![t] = <<cb[t]>>] /\ Goto(t, "invoke") /\ list' = list
     \/ ~stop /\ list' = Append(list, cb[t]) /\ Goto(t, "store") /\ todo' = todo
  /\ UNCHANGED <<stop, running, holds, made, frame>>

\* The registration takes the callback state, which may be running by now.
Store(t) ==
  /\ At(t, "store")
  /\ holds' = [holds EXCEPT ![obj[t]] = cb[t]]
  /\ Goto(t, "idle")
  /\ UNCHANGED <<shared, state, context, made, frame, todo>>

\* Faulty: a move that leaves the source with the callback, too.
TakeCopies(t) ==
  /\ At(t, "take")
  /\ holds' = [holds EXCEPT ![obj[t]] = holds[goal[t]]]
  /\ Goto(t, "idle")
  /\ UNCHANGED <<shared, state, context, made, frame, todo>>

\* The rest of a move assignment, when the target is empty.
Take(t) ==
  /\ At(t, "take")
  /\ holds' = [holds EXCEPT ![obj[t]] = holds[goal[t]], ![goal[t]] = NoCb]
  /\ Goto(t, "idle")
  /\ UNCHANGED <<shared, state, context, made, frame, todo>>

-----------------------------------------------------------------------------
\* What a thread inside a call does next.
Continue(t) ==
  \/ Invoke(t) \/ InvokeSkip(t) \/ InvokeReturn(t) \/ InvokeNotify(t)
  \/ RemoveCallback(t) \/ Disarm(t) \/ Recheck(t) \/ Release(t)
  \/ Add(t) \/ Store(t) \/ Take(t)

Next ==
  \E t \in Thread :
    \/ Continue(t) \/ RequestStop(t) \/ SpuriousWake(t)
    \/ \E r \in Reg : \/ Reset(t, r) \/ Register(t, r)
                      \/ \E s \in Reg : MoveFrom(t, r, s)

Spec == Init /\ [][Next]_vars

\* Threads finish the calls they make: callbacks return.
Fairness == \A t \in Thread : WF_vars(Continue(t))
LiveSpec == Spec /\ Fairness

-----------------------------------------------------------------------------
(* Properties.                                                             *)

CallPc == {"invoke", "body", "notify", "remove", "disarm", "wait", "woken",
           "release", "add", "store", "take"}

\* The types of the fields of cancel.h:69-74, 126-130 and 183-184 and the threads; a
\* thread is inside invoke() only while it has a callback to invoke.
TypeOK ==
  /\ stop \in BOOLEAN /\ list \in Seq(Cb)
  /\ armed \subseteq Cb /\ running \subseteq Cb
  /\ holds \in [Reg -> Cb \cup {NoCb}] /\ context \subseteq Cb /\ made \subseteq Cb
  /\ pc \in [Thread -> {"idle"} \cup CallPc] /\ obj \in [Thread -> Reg \cup {NoReg}]
  /\ goal \in [Thread -> {"reset", "add"} \cup Reg]
  /\ cb \in [Thread -> Cb \cup {NoCb}] /\ todo \in [Thread -> Seq(Cb)]
  /\ \A t \in Thread : todo[t] # <<>> <=> pc[t] \in {"invoke", "body", "notify"}

\* reset() is a barrier: once it has returned, the callback neither runs nor can
\* run later, so the operation it points at may be destroyed (sleep.h:62,
\* io_operation.h:72 rely on it).
ResetIsBarrier ==
  \A b \in made \ context : b \notin armed /\ b \notin running

\* No callback is stranded: one that is still armed after the stop is on the way
\* to be invoked, one armed before the stop is where request_stop finds it, unless
\* its owner is about to disarm it.
ArmedIsReachable ==
  \A b \in armed :
    \/ IF stop THEN \E t \in Thread : b \in ToSet(todo[t]) ELSE b \in ToSet(list)
    \/ \E t \in Thread : At(t, "disarm") /\ holds[obj[t]] = b

\* Two registrations never own the same callback state, and what one owns is
\* alive, also after moves.
OwnedOnce ==
  \A r, s \in Reg :
    holds[r] # NoCb => holds[r] \in context /\ (holds[r] = holds[s] => r = s)

\* Every call returns, also a reset() that waits for a running callback.
CallsReturn == \A t \in Thread : ~At(t, "idle") ~> At(t, "idle")

=============================================================================
