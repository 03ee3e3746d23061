----------------------------- MODULE TimerOpProofs -----------------------------
(***************************************************************************)
(* Proofs about TimerOp: however many threads cancel its token, a sleep or *)
(* timeout that is submitted by the driver of its runtime completes once,  *)
(* and is out of everybody's reach when it is destroyed.                   *)
(***************************************************************************)
EXTENDS TimerOp, SequencesExt, TLAPS

\* What is proved of cancel.h holds of the token of this operation.
Proved == INSTANCE CancelProofs

-----------------------------------------------------------------------------
(* The inductive invariant.                                                *)

Places == {"idle", "arm", "armed", "schedule", "publish", "recheck", "unpublish", "inline",
           "fire", "unregister", "clear", "complete", "destroy", "dropTimer", "free"}
Bodies == {"none", "exchange", "takeId", "untime", "cancel", "done"}

\* The sleep is submitted by the driver of its runtime, and schedule_timer throws only
\* for one that has no registration.
Limits == Submitter = Driver /\ "cancellable" \notin Throws

Typed ==
  /\ state \in {"init", "awaiting", "completed", "cancelled"}
  /\ resolved \in BOOLEAN /\ timerId \in BOOLEAN /\ dead \in BOOLEAN
  /\ table \in {"none", "armed", "collected"} /\ queued \in {0, 1}
  /\ where \in [Thread -> Places] /\ body \in [Thread -> Bodies]
  /\ state \in {"init", "awaiting"} => queued = 0 /\ ~dead

\* Only the driver is in the operation's code or in a call about its registration;
\* other threads are at most in request_stop.
Roles ==
  /\ \A t \in Thread :
       /\ body[t] # "none" <=> pc[t] = "body"
       /\ t # Driver => where[t] = "idle" /\ pc[t] \in {"idle", "invoke", "body", "notify"}
  /\ \/ pc[Driver] = "idle"
     \/ where[Driver] \in {"idle", "armed"} /\ pc[Driver] \in {"invoke", "body", "notify"}
     \/ where[Driver] = "armed" /\ pc[Driver] \in {"add", "store"}
     \/ /\ where[Driver] \in {"clear", "dropTimer"}
        /\ pc[Driver] \in {"remove", "disarm", "wait", "woken", "release"}
        /\ obj[Driver] = "reg" /\ goal[Driver] = "reset"
  /\ where[Driver] \notin {"idle", "armed", "clear", "dropTimer"} => pc[Driver] = "idle"

\* While the registration is made, the callback state is the driver's own, and a stop
\* that was requested before runs it there.
Arming ==
  where[Driver] = "armed" =>
    LET b == cb[Driver] IN
    /\ pc[Driver] \in {"add", "store"} => obj[Driver] = "reg" /\ goal[Driver] = "add"
    /\ pc[Driver] \in {"invoke", "body", "notify"} => todo[Driver] = <<b>>
    /\ pc[Driver] = "invoke" =>
         /\ b \in armed /\ b \notin ToSet(list)
         /\ \A t \in Thread \ {Driver} : b \notin ToSet(todo[t])
    /\ pc[Driver] = "notify" => resolved
    /\ pc[Driver] = "idle" => resolved \/ holds["reg"] # NoCb

\* What is armed or runs is registered, or about to be.
ArmedSound ==
  /\ \A b \in armed \cup running :
       \/ b = holds["reg"]
       \/ /\ b = cb[Driver] /\ where[Driver] = "armed"
          /\ pc[Driver] \in {"store", "invoke", "body"}
  /\ \/ where[Driver] \in {"clear", "complete", "dropTimer", "free"} /\ pc[Driver] = "idle"
     \/ dead
     => holds["reg"] = NoCb

\* Whoever has set resolved_ and not completed the operation yet: the driver, or a body.
Firing(t) == where[t] \in {"unregister", "clear", "complete"}
Cancelling(t) == body[t] \in {"takeId", "untime", "cancel"}

\* One of them wins, and completes an operation that still awaits.
Arbiter ==
  /\ \A t \in Thread : Cancelling(t) => resolved /\ state = "awaiting" /\ ~Firing(Driver)
  /\ \A t, u \in Thread : Cancelling(t) /\ Cancelling(u) => t = u
  /\ Firing(Driver) => resolved /\ state = "awaiting" /\ table = "none"
  /\ \A t \in Thread : body[t] = "done" => resolved
  /\ resolved => state # "init"

\* The stages of the driver.
Stages ==
  /\ state = "init" => where[Driver] = "idle" /\ made = {} /\ table = "none" /\ ~timerId
  /\ where[Driver] = "arm" => made = {} /\ ~resolved /\ state = "awaiting"
  /\ where[Driver] \in {"arm", "armed", "schedule", "inline", "unpublish"} => table = "none"
  /\ where[Driver] \in {"arm", "armed", "schedule", "inline", "publish"} => ~timerId
  /\ where[Driver] = "schedule" /\ holds["reg"] = NoCb => made = {} /\ ~resolved
  /\ where[Driver] = "inline" => made = {} /\ ~resolved /\ state = "awaiting"
  /\ where[Driver] \in {"destroy", "dropTimer", "free"} \/ dead =>
       /\ state \in {"completed", "cancelled"} /\ table = "none" /\ queued = 0
       /\ ~resolved => made = {}
  /\ dead => where[Driver] = "idle"
  /\ state \in {"completed", "cancelled"} /\ ~resolved =>
       dead \/ where[Driver] \in {"destroy", "dropTimer", "free"}

\* A timer in the tables is still wanted, or somebody is about to take it out.
TimerSound ==
  /\ table # "none" =>
       \/ where[Driver] \in {"publish", "recheck", "fire"}
       \/ \E t \in Thread : body[t] = "untime"
       \/ timerId /\ (~resolved \/ \E t \in Thread : body[t] = "takeId")
  /\ where[Driver] = "recheck" /\ ~resolved => timerId
  /\ table = "collected" => where[Driver] = "fire"

Inv == Typed /\ Roles /\ Arming /\ ArmedSound /\ Arbiter /\ Stages /\ TimerSound

IInv == Proved!IInv /\ Inv

-----------------------------------------------------------------------------
(* The token takes the steps that cancel.h allows.                         *)

LEMMA TokenAssumption == Proved!CancelAssumption
  BY TimerOpAssumption DEF Proved!CancelAssumption

LEMMA SameErase ==
  ASSUME NEW s, NEW b
  PROVE  Token!Erase(s, b) = Proved!Erase(s, b)
  BY Zenon DEF Token!Erase, Proved!Erase, Token!ToSet, Proved!ToSet, Token!RemoveAt,
     Proved!RemoveAt

LEMMA SameSteps ==
  ASSUME NEW t \in Thread
  PROVE  /\ Token!Invoke(t) <=> Proved!Invoke(t)
         /\ Token!InvokeSkip(t) <=> Proved!InvokeSkip(t)
         /\ Token!InvokeReturn(t) <=> Proved!InvokeReturn(t)
         /\ Token!InvokeNotify(t) <=> Proved!InvokeNotify(t)
         /\ Token!RemoveCallback(t) <=> Proved!RemoveCallback(t)
         /\ Token!Disarm(t) <=> Proved!Disarm(t)
         /\ Token!Recheck(t) <=> Proved!Recheck(t)
         /\ Token!Release(t) <=> Proved!Release(t)
         /\ Token!Add(t) <=> Proved!Add(t)
         /\ Token!Store(t) <=> Proved!Store(t)
         /\ Token!RequestStop(t) <=> Proved!RequestStop(t)
         /\ Token!Reset(t, "reg") <=> Proved!Reset(t, "reg")
         /\ Token!Register(t, "reg") <=> Proved!Register(t, "reg")
  <1> USE DEF Token!At, Proved!At, Token!Goto, Proved!Goto, Token!shared, Proved!shared,
        Token!state, Proved!state, Token!frame, Proved!frame
  <1>1. Token!Invoke(t) <=> Proved!Invoke(t)
    BY DEF Token!Invoke, Proved!Invoke
  <1>2. Token!InvokeSkip(t) <=> Proved!InvokeSkip(t)
    BY DEF Token!InvokeSkip, Proved!InvokeSkip, Token!Advance, Proved!Advance
  <1>3. Token!InvokeReturn(t) <=> Proved!InvokeReturn(t)
    BY DEF Token!InvokeReturn, Proved!InvokeReturn
  <1>4. Token!InvokeNotify(t) <=> Proved!InvokeNotify(t)
    BY DEF Token!InvokeNotify, Proved!InvokeNotify, Token!Advance, Proved!Advance
  <1>5. Token!RemoveCallback(t) <=> Proved!RemoveCallback(t)
    BY SameErase DEF Token!RemoveCallback, Proved!RemoveCallback
  <1>6. Token!Disarm(t) <=> Proved!Disarm(t)
    BY DEF Token!Disarm, Proved!Disarm
  <1>7. Token!Recheck(t) <=> Proved!Recheck(t)
    BY DEF Token!Recheck, Proved!Recheck
  <1>8. Token!Release(t) <=> Proved!Release(t)
    BY DEF Token!Release, Proved!Release
  <1>9. Token!Add(t) <=> Proved!Add(t)
    BY DEF Token!Add, Proved!Add
  <1>10. Token!Store(t) <=> Proved!Store(t)
    BY DEF Token!Store, Proved!Store
  <1>11. Token!RequestStop(t) <=> Proved!RequestStop(t)
    BY DEF Token!RequestStop, Proved!RequestStop
  <1>12. Token!Reset(t, "reg") <=> Proved!Reset(t, "reg")
    BY DEF Token!Reset, Proved!Reset, Token!Begin, Proved!Begin, Token!Unused,
       Proved!Unused
  <1>13. Token!Register(t, "reg") <=> Proved!Register(t, "reg")
    BY DEF Token!Register, Proved!Register, Token!Begin, Proved!Begin, Token!Unused,
       Proved!Unused
  <1> QED
    BY <1>1, <1>2, <1>3, <1>4, <1>5, <1>6, <1>7, <1>8, <1>9, <1>10, <1>11, <1>12, <1>13

\* The operation leaves the token alone but for the calls of cancel.h it makes.
LEMMA TokenMoves ==
  ASSUME [Next]_vars
  PROVE  [Proved!Next]_(Proved!vars)
  <1> USE DEF Proved!Next, Proved!Continue, Proved!vars, Proved!shared, Proved!state,
        Proved!frame
  <1>1. ASSUME NEW t \in Thread, PrepareAwait(t) PROVE [Proved!Next]_(Proved!vars)
    <2>1. UNCHANGED token
      BY <1>1 DEF PrepareAwait, Step, InBody
    <2> QED
      BY <2>1 DEF token
  <1>2. ASSUME NEW t \in Thread, ArmCancel(t) PROVE [Proved!Next]_(Proved!vars)
    BY <1>2, SameSteps, TimerOpAssumption DEF ArmCancel
  <1>3. ASSUME NEW t \in Thread, NoToken(t) PROVE [Proved!Next]_(Proved!vars)
    <2>1. UNCHANGED token
      BY <1>3 DEF NoToken, Step, InBody
    <2> QED
      BY <2>1 DEF token
  <1>4. ASSUME NEW t \in Thread, Armed(t) PROVE [Proved!Next]_(Proved!vars)
    <2>1. UNCHANGED token
      BY <1>4 DEF Armed, Step, InBody
    <2> QED
      BY <2>1 DEF token
  <1>5. ASSUME NEW t \in Thread, Elapsed(t) PROVE [Proved!Next]_(Proved!vars)
    <2>1. UNCHANGED token
      BY <1>5 DEF Elapsed, Step, InBody
    <2> QED
      BY <2>1 DEF token
  <1>6. ASSUME NEW t \in Thread, Schedule(t) PROVE [Proved!Next]_(Proved!vars)
    <2>1. UNCHANGED token
      BY <1>6 DEF Schedule, Step, InBody
    <2> QED
      BY <2>1 DEF token
  <1>7. ASSUME NEW t \in Thread, PublishId(t) PROVE [Proved!Next]_(Proved!vars)
    <2>1. UNCHANGED token
      BY <1>7 DEF PublishId, Step, InBody
    <2> QED
      BY <2>1 DEF token
  <1>8. ASSUME NEW t \in Thread, Recheck(t) PROVE [Proved!Next]_(Proved!vars)
    <2>1. UNCHANGED token
      BY <1>8 DEF Recheck, Step, InBody
    <2> QED
      BY <2>1 DEF token
  <1>9. ASSUME NEW t \in Thread, UnpublishId(t) PROVE [Proved!Next]_(Proved!vars)
    <2>1. UNCHANGED token
      BY <1>9 DEF UnpublishId, Step, InBody
    <2> QED
      BY <2>1 DEF token
  <1>10. ASSUME NEW t \in Thread, SubmitThrows(t) PROVE [Proved!Next]_(Proved!vars)
    <2>1. UNCHANGED token
      BY <1>10 DEF SubmitThrows, Step, InBody
    <2> QED
      BY <2>1 DEF token
  <1>11. ASSUME NEW t \in Thread, InlineException(t) PROVE [Proved!Next]_(Proved!vars)
    <2>1. UNCHANGED token
      BY <1>11 DEF InlineException, Step, InBody
    <2> QED
      BY <2>1 DEF token
  <1>12. ASSUME NEW t \in Thread, Collect(t) PROVE [Proved!Next]_(Proved!vars)
    <2>1. UNCHANGED token
      BY <1>12 DEF Collect, Step, InBody
    <2> QED
      BY <2>1 DEF token
  <1>13. ASSUME NEW t \in Thread, Fire(t) PROVE [Proved!Next]_(Proved!vars)
    <2>1. UNCHANGED token
      BY <1>13 DEF Fire, Step, InBody
    <2> QED
      BY <2>1 DEF token
  <1>14. ASSUME NEW t \in Thread, Unregister(t) PROVE [Proved!Next]_(Proved!vars)
    <2>1. CASE UNCHANGED token
      BY <2>1 DEF token
    <2>2. CASE Token!Reset(t, "reg")
      BY <2>2, SameSteps, TimerOpAssumption
    <2> QED
      BY <1>14, <2>1, <2>2 DEF Unregister, ResetRegistration
  <1>15. ASSUME NEW t \in Thread, ClearId(t) PROVE [Proved!Next]_(Proved!vars)
    <2>1. UNCHANGED token
      BY <1>15 DEF ClearId, Step, InBody
    <2> QED
      BY <2>1 DEF token
  <1>16. ASSUME NEW t \in Thread, Complete(t) PROVE [Proved!Next]_(Proved!vars)
    <2>1. UNCHANGED token
      BY <1>16 DEF Complete, Step, InBody
    <2> QED
      BY <2>1 DEF token
  <1>17. ASSUME NEW t \in Thread, CancelExchange(t) PROVE [Proved!Next]_(Proved!vars)
    <2>1. UNCHANGED token
      BY <1>17 DEF CancelExchange, Step, InBody
    <2> QED
      BY <2>1 DEF token
  <1>18. ASSUME NEW t \in Thread, CancelTakeId(t) PROVE [Proved!Next]_(Proved!vars)
    <2>1. UNCHANGED token
      BY <1>18 DEF CancelTakeId, Step, InBody
    <2> QED
      BY <2>1 DEF token
  <1>19. ASSUME NEW t \in Thread, CancelTimer(t) PROVE [Proved!Next]_(Proved!vars)
    <2>1. UNCHANGED token
      BY <1>19 DEF CancelTimer, Step, InBody
    <2> QED
      BY <2>1 DEF token
  <1>20. ASSUME NEW t \in Thread, CancelFinish(t) PROVE [Proved!Next]_(Proved!vars)
    <2>1. UNCHANGED token
      BY <1>20 DEF CancelFinish, Step, InBody
    <2> QED
      BY <2>1 DEF token
  <1>21. ASSUME NEW t \in Thread, Resume(t) PROVE [Proved!Next]_(Proved!vars)
    <2>1. UNCHANGED token
      BY <1>21 DEF Resume, Step, InBody
    <2> QED
      BY <2>1 DEF token
  <1>22. ASSUME NEW t \in Thread, Destroy(t) PROVE [Proved!Next]_(Proved!vars)
    <2>1. CASE UNCHANGED token
      BY <2>1 DEF token
    <2>2. CASE Token!Reset(t, "reg")
      BY <2>2, SameSteps, TimerOpAssumption
    <2> QED
      BY <1>22, <2>1, <2>2 DEF Destroy, ResetRegistration
  <1>23. ASSUME NEW t \in Thread, DropTimer(t) PROVE [Proved!Next]_(Proved!vars)
    <2>1. UNCHANGED token
      BY <1>23 DEF DropTimer, Step, InBody
    <2> QED
      BY <2>1 DEF token
  <1>24. ASSUME NEW t \in Thread, Free(t) PROVE [Proved!Next]_(Proved!vars)
    <2>1. UNCHANGED token
      BY <1>24 DEF Free, Step, InBody
    <2> QED
      BY <2>1 DEF token
  <1>25. ASSUME NEW t \in Thread, EnterBody(t) PROVE [Proved!Next]_(Proved!vars)
    BY <1>25, SameSteps DEF EnterBody
  <1>26. ASSUME NEW t \in Thread, LeaveBody(t) PROVE [Proved!Next]_(Proved!vars)
    BY <1>26, SameSteps DEF LeaveBody
  <1>27. ASSUME NEW t \in Thread, TokenStep(t) PROVE [Proved!Next]_(Proved!vars)
    BY <1>27, SameSteps DEF TokenStep
  <1>28. ASSUME NEW t \in Thread, RequestCancel(t) PROVE [Proved!Next]_(Proved!vars)
    BY <1>28, SameSteps DEF RequestCancel
  <1>29. ASSUME UNCHANGED vars PROVE [Proved!Next]_(Proved!vars)
    BY <1>29 DEF vars, token
  <1> QED
    BY <1>1, <1>2, <1>3, <1>4, <1>5, <1>6, <1>7, <1>8, <1>9, <1>10, <1>11, <1>12, <1>13,
       <1>14, <1>15, <1>16, <1>17, <1>18, <1>19, <1>20, <1>21, <1>22, <1>23, <1>24, <1>25,
       <1>26, <1>27, <1>28, <1>29 DEF Next, Continue

LEMMA TokenInit == Init => Proved!IInv
  <1>1. Token!Init <=> Proved!Init
    BY DEF Token!Init, Proved!Init
  <1> QED
    BY <1>1, TokenAssumption, Proved!InitStep DEF Init

LEMMA TokenStaysSound ==
  ASSUME Proved!IInv, [Next]_vars
  PROVE  Proved!IInv'
  BY TokenMoves, TokenAssumption, Proved!NextStep

-----------------------------------------------------------------------------
(* What the invariant of the token says of the one registration here.      *)

Idle(t) == pc[t] = "idle"
Invoking == {"invoke", "body", "notify"}

TokenSound ==
  /\ stop \in BOOLEAN /\ armed \subseteq Cb /\ running \subseteq Cb /\ made \subseteq Cb
  /\ holds \in [{"reg"} -> Cb \cup {NoCb}] /\ list \in Seq(Cb)
  /\ pc \in [Thread -> {"idle"} \cup Token!CallPc]
  /\ obj \in [Thread -> {"reg", NoReg}] /\ goal \in [Thread -> {"reset", "add", "reg"}]
  /\ cb \in [Thread -> Cb \cup {NoCb}] /\ todo \in [Thread -> Seq(Cb)]
  /\ armed \subseteq made /\ running \subseteq made
  /\ holds["reg"] = NoCb \/ holds["reg"] \in made
  /\ \A t \in Thread :
       /\ pc[t] \in Invoking => todo[t] # <<>> /\ Head(todo[t]) \in made
       /\ pc[t] \in {"body", "notify"} => Head(todo[t]) \notin armed
       /\ pc[t] = "release" => holds[obj[t]] \notin armed /\ holds[obj[t]] \notin running
       /\ pc[t] \in {"add", "store"} => cb[t] \in made /\ holds["reg"] = NoCb
       /\ pc[t] = "add" => /\ cb[t] \notin ToSet(list)
                           /\ \A u \in Thread : cb[t] \notin ToSet(todo[u])

LEMMA SequenceFacts ==
  ASSUME NEW S, NEW q \in Seq(S), q # <<>>
  PROVE  /\ Head(q) \in S /\ Tail(q) \in Seq(S) /\ ToSet(Tail(q)) \subseteq ToSet(q)
         /\ Head(q) \in ToSet(q)
  BY DEF ToSet

LEMMA TokenFacts ==
  ASSUME Proved!IInv
  PROVE  TokenSound
  <1> USE TimerOpAssumption DEF Proved!IInv, Proved!TypeOK
  <1>1. \A q : Proved!ToSet(q) = ToSet(q)
    BY DEF ToSet, Proved!ToSet
  <1>2. ASSUME NEW t \in Thread, pc[t] \in Invoking
        PROVE  todo[t] # <<>> /\ Head(todo[t]) \in made
    <2>1. todo[t] # <<>> /\ todo[t] \in Seq(Cb)
      BY <1>2 DEF Invoking
    <2> QED
      BY <1>1, <2>1, SequenceFacts DEF Proved!KnownSound
  <1>3. ASSUME NEW t \in Thread
        PROVE  /\ pc[t] \in {"body", "notify"} => Head(todo[t]) \notin armed
               /\ pc[t] = "release" => holds[obj[t]] \notin armed /\ holds[obj[t]] \notin running
    BY DEF Proved!DisarmedSound
  <1>4. ASSUME NEW t \in Thread, pc[t] \in {"add", "store"}
        PROVE  /\ cb[t] \in made /\ holds["reg"] = NoCb
               /\ pc[t] = "add" => /\ cb[t] \notin ToSet(list)
                                   /\ \A u \in Thread : cb[t] \notin ToSet(todo[u])
    BY <1>1, <1>4 DEF Proved!FreshSound, Proved!Fresh, Proved!CallsSound
  <1>5. armed \subseteq made /\ running \subseteq made
    BY DEF Proved!KnownSound
  <1>6. holds["reg"] = NoCb \/ holds["reg"] \in made
    BY DEF Proved!KnownSound, Proved!OwnedOnce
  <1>7. /\ stop \in BOOLEAN /\ armed \subseteq Cb /\ running \subseteq Cb /\ made \subseteq Cb
        /\ holds \in [{"reg"} -> Cb \cup {NoCb}] /\ list \in Seq(Cb)
        /\ obj \in [Thread -> {"reg", NoReg}] /\ goal \in [Thread -> {"reset", "add", "reg"}]
        /\ cb \in [Thread -> Cb \cup {NoCb}] /\ todo \in [Thread -> Seq(Cb)]
    <2>1. Reg \cup {NoReg} = {"reg", NoReg} /\ {"reset", "add"} \cup Reg = {"reset", "add", "reg"}
      OBVIOUS
    <2> QED
      BY <2>1
  <1>8. pc \in [Thread -> {"idle"} \cup Token!CallPc]
    BY DEF Proved!CallPc, Token!CallPc
  <1> QED
    BY <1>2, <1>3, <1>4, <1>5, <1>6, <1>7, <1>8 DEF TokenSound

LEMMA ShortSequences ==
  /\ ToSet(<<>>) = {}
  /\ \A x : Head(<<x>>) = x /\ Len(<<x>>) = 1 /\ ToSet(<<x>>) = {x}
  BY DEF ToSet

\* The loop of request_stop goes on to what is left of its callbacks.
LEMMA AdvanceFacts ==
  ASSUME TokenSound, NEW t \in Thread, Token!InvokeSkip(t) \/ Token!InvokeNotify(t)
  PROVE  /\ ToSet(todo'[t]) \subseteq ToSet(todo[t])
         /\ \A u \in Thread \ {t} :
              /\ todo'[u] = todo[u]
              /\ pc'[u] = pc[u] \/ (pc[u] = "wait" /\ pc'[u] = "woken")
         /\ pc'[t] \in {"idle", "invoke"} /\ (Len(todo[t]) = 1 => pc'[t] = "idle")
         /\ UNCHANGED <<stop, list, armed, running, holds, context, made, obj, goal, cb>>
  <1>1. /\ todo[t] \in Seq(Cb) /\ todo[t] # <<>> /\ todo \in [Thread -> Seq(Cb)]
        /\ pc \in [Thread -> {"idle"} \cup Token!CallPc]
        /\ todo' = [todo EXCEPT ![t] = Tail(todo[t])]
    BY DEF TokenSound, Token!InvokeSkip, Token!InvokeNotify, Token!Advance, Token!At,
       Invoking
  <1>2. ToSet(todo'[t]) \subseteq ToSet(todo[t]) /\ \A u \in Thread \ {t} : todo'[u] = todo[u]
    BY <1>1, SequenceFacts
  <1>3. CASE Token!InvokeSkip(t)
    BY <1>1, <1>2, <1>3 DEF Token!InvokeSkip, Token!Advance, Token!shared, Token!state,
       Token!frame
  <1>4. CASE Token!InvokeNotify(t)
    BY <1>1, <1>2, <1>4 DEF Token!InvokeNotify, Token!Advance, Token!At, Token!shared,
       Token!state, Token!frame
  <1> QED
    BY <1>3, <1>4

-----------------------------------------------------------------------------
(* Every step preserves the invariant.                                     *)

LEMMA TypedStep ==
  ASSUME Limits, Proved!IInv, Inv, [Next]_vars
  PROVE  Typed'
  <1> DEFINE G == Typed'
  <1>0. TokenSound
    BY TokenFacts
  <1> USE <1>0, TimerOpAssumption DEF TokenSound, Invoking, Limits, Inv, Typed, Roles,
               Arming,
        ArmedSound, Arbiter, Stages, TimerSound, Firing, Cancelling, Places, Bodies,
        token, arbiter, runtime, Step, InBody, Finish, RemoveTimer, ResetRegistration,
        Token!CallPc, Token!At, Token!Goto, Token!Reset, Token!Register, Token!Begin,
        Token!Unused, Token!shared, Token!state, Token!frame
  <1>1. ASSUME NEW t \in Thread, PrepareAwait(t) PROVE G
    BY <1>1 DEF PrepareAwait
  <1>2. ASSUME NEW t \in Thread, ArmCancel(t) PROVE G
    BY <1>2 DEF ArmCancel
  <1>3. ASSUME NEW t \in Thread, NoToken(t) PROVE G
    BY <1>3 DEF NoToken
  <1>4. ASSUME NEW t \in Thread, Armed(t) PROVE G
    BY <1>4 DEF Armed
  <1>5. ASSUME NEW t \in Thread, Elapsed(t) PROVE G
    BY <1>5 DEF Elapsed
  <1>6. ASSUME NEW t \in Thread, Schedule(t) PROVE G
    BY <1>6 DEF Schedule
  <1>7. ASSUME NEW t \in Thread, PublishId(t) PROVE G
    BY <1>7 DEF PublishId
  <1>8. ASSUME NEW t \in Thread, Recheck(t) PROVE G
    BY <1>8 DEF Recheck
  <1>9. ASSUME NEW t \in Thread, UnpublishId(t) PROVE G
    BY <1>9 DEF UnpublishId
  <1>10. ASSUME NEW t \in Thread, SubmitThrows(t) PROVE G
    BY <1>10 DEF SubmitThrows
  <1>11. ASSUME NEW t \in Thread, InlineException(t) PROVE G
    BY <1>11 DEF InlineException
  <1>12. ASSUME NEW t \in Thread, Collect(t) PROVE G
    BY <1>12 DEF Collect
  <1>13. ASSUME NEW t \in Thread, Fire(t) PROVE G
    BY <1>13 DEF Fire
  <1>14. ASSUME NEW t \in Thread, Unregister(t) PROVE G
    BY <1>14 DEF Unregister
  <1>15. ASSUME NEW t \in Thread, ClearId(t) PROVE G
    BY <1>15 DEF ClearId
  <1>16. ASSUME NEW t \in Thread, Complete(t) PROVE G
    BY <1>16 DEF Complete
  <1>17. ASSUME NEW t \in Thread, CancelExchange(t) PROVE G
    BY <1>17 DEF CancelExchange
  <1>18. ASSUME NEW t \in Thread, CancelTakeId(t) PROVE G
    BY <1>18 DEF CancelTakeId
  <1>19. ASSUME NEW t \in Thread, CancelTimer(t) PROVE G
    BY <1>19 DEF CancelTimer
  <1>20. ASSUME NEW t \in Thread, CancelFinish(t) PROVE G
    BY <1>20 DEF CancelFinish
  <1>21. ASSUME NEW t \in Thread, Resume(t) PROVE G
    BY <1>21 DEF Resume
  <1>22. ASSUME NEW t \in Thread, Destroy(t) PROVE G
    BY <1>22 DEF Destroy
  <1>23. ASSUME NEW t \in Thread, DropTimer(t) PROVE G
    BY <1>23 DEF DropTimer
  <1>24. ASSUME NEW t \in Thread, Free(t) PROVE G
    BY <1>24 DEF Free
  <1>25. ASSUME NEW t \in Thread, EnterBody(t) PROVE G
    BY <1>25 DEF EnterBody, Token!Invoke
  <1>26. ASSUME NEW t \in Thread, LeaveBody(t) PROVE G
    BY <1>26 DEF LeaveBody, Token!InvokeReturn
  <1>27. ASSUME NEW t \in Thread, TokenStep(t) PROVE G
    <2>1. ASSUME Token!InvokeSkip(t) PROVE G
      BY <1>27, <2>1 DEF TokenStep, Token!InvokeSkip, Token!Advance
    <2>2. ASSUME Token!InvokeNotify(t) PROVE G
      BY <1>27, <2>2 DEF TokenStep, Token!InvokeNotify, Token!Advance
    <2>3. ASSUME Token!RemoveCallback(t) PROVE G
      BY <1>27, <2>3 DEF TokenStep, Token!RemoveCallback
    <2>4. ASSUME Token!Disarm(t) PROVE G
      BY <1>27, <2>4 DEF TokenStep, Token!Disarm
    <2>5. ASSUME Token!Recheck(t) PROVE G
      BY <1>27, <2>5 DEF TokenStep, Token!Recheck
    <2>6. ASSUME Token!Release(t) PROVE G
      BY <1>27, <2>6 DEF TokenStep, Token!Release
    <2>7. ASSUME Token!Add(t) PROVE G
      BY <1>27, <2>7 DEF TokenStep, Token!Add
    <2>8. ASSUME Token!Store(t) PROVE G
      BY <1>27, <2>8 DEF TokenStep, Token!Store
    <2> QED
      BY <1>27, <2>1, <2>2, <2>3, <2>4, <2>5, <2>6, <2>7, <2>8 DEF TokenStep
  <1>28. ASSUME NEW t \in Thread, RequestCancel(t) PROVE G
    BY <1>28 DEF RequestCancel, Token!RequestStop
  <1>29. ASSUME UNCHANGED vars PROVE G
    BY <1>29 DEF vars
  <1> QED
    BY <1>1, <1>2, <1>3, <1>4, <1>5, <1>6, <1>7, <1>8, <1>9, <1>10, <1>11, <1>12, <1>13,
       <1>14, <1>15, <1>16, <1>17, <1>18, <1>19, <1>20, <1>21, <1>22, <1>23, <1>24, <1>25,
       <1>26, <1>27, <1>28, <1>29 DEF Next, Continue

LEMMA RolesStep ==
  ASSUME Limits, Proved!IInv, Inv, [Next]_vars
  PROVE  Roles'
  <1> DEFINE G == Roles'
  <1>0. TokenSound
    BY TokenFacts
  <1> USE <1>0, TimerOpAssumption DEF TokenSound, Invoking, Limits, Inv, Typed, Roles,
               Arming,
        ArmedSound, Arbiter, Stages, TimerSound, Firing, Cancelling, Places, Bodies,
        token, arbiter, runtime, Step, InBody, Finish, RemoveTimer, ResetRegistration,
        Token!CallPc, Token!At, Token!Goto, Token!Reset, Token!Register, Token!Begin,
        Token!Unused, Token!shared, Token!state, Token!frame
  <1>1. ASSUME NEW t \in Thread, PrepareAwait(t) PROVE G
    BY <1>1 DEF PrepareAwait
  <1>2. ASSUME NEW t \in Thread, ArmCancel(t) PROVE G
    BY <1>2 DEF ArmCancel
  <1>3. ASSUME NEW t \in Thread, NoToken(t) PROVE G
    BY <1>3 DEF NoToken
  <1>4. ASSUME NEW t \in Thread, Armed(t) PROVE G
    BY <1>4 DEF Armed
  <1>5. ASSUME NEW t \in Thread, Elapsed(t) PROVE G
    BY <1>5 DEF Elapsed
  <1>6. ASSUME NEW t \in Thread, Schedule(t) PROVE G
    BY <1>6 DEF Schedule
  <1>7. ASSUME NEW t \in Thread, PublishId(t) PROVE G
    BY <1>7 DEF PublishId
  <1>8. ASSUME NEW t \in Thread, Recheck(t) PROVE G
    BY <1>8 DEF Recheck
  <1>9. ASSUME NEW t \in Thread, UnpublishId(t) PROVE G
    BY <1>9 DEF UnpublishId
  <1>10. ASSUME NEW t \in Thread, SubmitThrows(t) PROVE G
    BY <1>10 DEF SubmitThrows
  <1>11. ASSUME NEW t \in Thread, InlineException(t) PROVE G
    BY <1>11 DEF InlineException
  <1>12. ASSUME NEW t \in Thread, Collect(t) PROVE G
    BY <1>12 DEF Collect
  <1>13. ASSUME NEW t \in Thread, Fire(t) PROVE G
    BY <1>13 DEF Fire
  <1>14. ASSUME NEW t \in Thread, Unregister(t) PROVE G
    BY <1>14 DEF Unregister
  <1>15. ASSUME NEW t \in Thread, ClearId(t) PROVE G
    BY <1>15 DEF ClearId
  <1>16. ASSUME NEW t \in Thread, Complete(t) PROVE G
    BY <1>16 DEF Complete
  <1>17. ASSUME NEW t \in Thread, CancelExchange(t) PROVE G
    BY <1>17 DEF CancelExchange
  <1>18. ASSUME NEW t \in Thread, CancelTakeId(t) PROVE G
    BY <1>18 DEF CancelTakeId
  <1>19. ASSUME NEW t \in Thread, CancelTimer(t) PROVE G
    BY <1>19 DEF CancelTimer
  <1>20. ASSUME NEW t \in Thread, CancelFinish(t) PROVE G
    BY <1>20 DEF CancelFinish
  <1>21. ASSUME NEW t \in Thread, Resume(t) PROVE G
    BY <1>21 DEF Resume
  <1>22. ASSUME NEW t \in Thread, Destroy(t) PROVE G
    BY <1>22 DEF Destroy
  <1>23. ASSUME NEW t \in Thread, DropTimer(t) PROVE G
    BY <1>23 DEF DropTimer
  <1>24. ASSUME NEW t \in Thread, Free(t) PROVE G
    BY <1>24 DEF Free
  <1>25. ASSUME NEW t \in Thread, EnterBody(t) PROVE G
    BY <1>25 DEF EnterBody, Token!Invoke
  <1>26. ASSUME NEW t \in Thread, LeaveBody(t) PROVE G
    BY <1>26 DEF LeaveBody, Token!InvokeReturn
  <1>27. ASSUME NEW t \in Thread, TokenStep(t) PROVE G
    <2>1. ASSUME Token!InvokeSkip(t) PROVE G
      BY <1>27, <2>1 DEF TokenStep, Token!InvokeSkip, Token!Advance
    <2>2. ASSUME Token!InvokeNotify(t) PROVE G
      BY <1>27, <2>2 DEF TokenStep, Token!InvokeNotify, Token!Advance
    <2>3. ASSUME Token!RemoveCallback(t) PROVE G
      BY <1>27, <2>3 DEF TokenStep, Token!RemoveCallback
    <2>4. ASSUME Token!Disarm(t) PROVE G
      BY <1>27, <2>4 DEF TokenStep, Token!Disarm
    <2>5. ASSUME Token!Recheck(t) PROVE G
      BY <1>27, <2>5 DEF TokenStep, Token!Recheck
    <2>6. ASSUME Token!Release(t) PROVE G
      BY <1>27, <2>6 DEF TokenStep, Token!Release
    <2>7. ASSUME Token!Add(t) PROVE G
      <3>1. t = Driver /\ pc[t] = "add" /\ where[t] = "armed"
        BY <2>7 DEF Token!Add
      <3>2. pc' = [pc EXCEPT ![t] = "invoke"] \/ pc' = [pc EXCEPT ![t] = "store"]
        BY <2>7 DEF Token!Add
      <3>3. UNCHANGED <<obj, goal, cb, where, body>>
        BY <1>27, <2>7 DEF TokenStep, Token!Add
      <3> QED
        BY <3>1, <3>2, <3>3
    <2>8. ASSUME Token!Store(t) PROVE G
      BY <1>27, <2>8 DEF TokenStep, Token!Store
    <2> QED
      BY <1>27, <2>1, <2>2, <2>3, <2>4, <2>5, <2>6, <2>7, <2>8 DEF TokenStep
  <1>28. ASSUME NEW t \in Thread, RequestCancel(t) PROVE G
    BY <1>28 DEF RequestCancel, Token!RequestStop
  <1>29. ASSUME UNCHANGED vars PROVE G
    BY <1>29 DEF vars
  <1> QED
    BY <1>1, <1>2, <1>3, <1>4, <1>5, <1>6, <1>7, <1>8, <1>9, <1>10, <1>11, <1>12, <1>13,
       <1>14, <1>15, <1>16, <1>17, <1>18, <1>19, <1>20, <1>21, <1>22, <1>23, <1>24, <1>25,
       <1>26, <1>27, <1>28, <1>29 DEF Next, Continue

LEMMA ArmingStep ==
  ASSUME Limits, Proved!IInv, Inv, [Next]_vars
  PROVE  Arming'
  <1> DEFINE G == Arming'
  <1>0. TokenSound
    BY TokenFacts
  <1> USE <1>0, TimerOpAssumption DEF TokenSound, Invoking, Limits, Inv, Typed, Roles,
               Arming,
        ArmedSound, Arbiter, Stages, TimerSound, Firing, Cancelling, Places, Bodies,
        token, arbiter, runtime, Step, InBody, Finish, RemoveTimer, ResetRegistration,
        Token!CallPc, Token!At, Token!Goto, Token!Reset, Token!Register, Token!Begin,
        Token!Unused, Token!shared, Token!state, Token!frame
  <1>1. ASSUME NEW t \in Thread, PrepareAwait(t) PROVE G
    BY <1>1 DEF PrepareAwait
  <1>2. ASSUME NEW t \in Thread, ArmCancel(t) PROVE G
    BY <1>2 DEF ArmCancel
  <1>3. ASSUME NEW t \in Thread, NoToken(t) PROVE G
    BY <1>3 DEF NoToken
  <1>4. ASSUME NEW t \in Thread, Armed(t) PROVE G
    BY <1>4 DEF Armed
  <1>5. ASSUME NEW t \in Thread, Elapsed(t) PROVE G
    BY <1>5 DEF Elapsed
  <1>6. ASSUME NEW t \in Thread, Schedule(t) PROVE G
    BY <1>6 DEF Schedule
  <1>7. ASSUME NEW t \in Thread, PublishId(t) PROVE G
    BY <1>7 DEF PublishId
  <1>8. ASSUME NEW t \in Thread, Recheck(t) PROVE G
    BY <1>8 DEF Recheck
  <1>9. ASSUME NEW t \in Thread, UnpublishId(t) PROVE G
    BY <1>9 DEF UnpublishId
  <1>10. ASSUME NEW t \in Thread, SubmitThrows(t) PROVE G
    BY <1>10 DEF SubmitThrows
  <1>11. ASSUME NEW t \in Thread, InlineException(t) PROVE G
    BY <1>11 DEF InlineException
  <1>12. ASSUME NEW t \in Thread, Collect(t) PROVE G
    BY <1>12 DEF Collect
  <1>13. ASSUME NEW t \in Thread, Fire(t) PROVE G
    BY <1>13 DEF Fire
  <1>14. ASSUME NEW t \in Thread, Unregister(t) PROVE G
    BY <1>14 DEF Unregister
  <1>15. ASSUME NEW t \in Thread, ClearId(t) PROVE G
    BY <1>15 DEF ClearId
  <1>16. ASSUME NEW t \in Thread, Complete(t) PROVE G
    BY <1>16 DEF Complete
  <1>17. ASSUME NEW t \in Thread, CancelExchange(t) PROVE G
    BY <1>17 DEF CancelExchange
  <1>18. ASSUME NEW t \in Thread, CancelTakeId(t) PROVE G
    BY <1>18 DEF CancelTakeId
  <1>19. ASSUME NEW t \in Thread, CancelTimer(t) PROVE G
    BY <1>19 DEF CancelTimer
  <1>20. ASSUME NEW t \in Thread, CancelFinish(t) PROVE G
    BY <1>20 DEF CancelFinish
  <1>21. ASSUME NEW t \in Thread, Resume(t) PROVE G
    BY <1>21 DEF Resume
  <1>22. ASSUME NEW t \in Thread, Destroy(t) PROVE G
    BY <1>22 DEF Destroy
  <1>23. ASSUME NEW t \in Thread, DropTimer(t) PROVE G
    BY <1>23 DEF DropTimer
  <1>24. ASSUME NEW t \in Thread, Free(t) PROVE G
    BY <1>24 DEF Free
  <1>25. ASSUME NEW t \in Thread, EnterBody(t) PROVE G
    <2>1. /\ pc[t] = "invoke" /\ Head(todo[t]) \in ToSet(todo[t])
          /\ armed' = armed \ {Head(todo[t])}
          /\ pc' = [pc EXCEPT ![t] = "body"] /\ body' = [body EXCEPT ![t] = "exchange"]
          /\ UNCHANGED <<list, todo, where, cb, obj, goal, resolved, holds>>
      BY <1>25, SequenceFacts DEF EnterBody, Token!Invoke
    <2> QED
      BY <2>1
  <1>26. ASSUME NEW t \in Thread, LeaveBody(t) PROVE G
    BY <1>26 DEF LeaveBody, Token!InvokeReturn
  <1>27. ASSUME NEW t \in Thread, TokenStep(t) PROVE G
    <2>1. ASSUME Token!InvokeSkip(t) PROVE G
      <3>1. /\ pc[t] \in {"invoke", "notify"}
            /\ pc[t] = "invoke" => Head(todo[t]) \notin armed
            /\ UNCHANGED <<where, body, resolved, dead>>
        BY <1>27, <2>1 DEF TokenStep, Token!InvokeSkip, Token!InvokeNotify
      <3>2. /\ ToSet(todo'[t]) \subseteq ToSet(todo[t])
            /\ \A u \in Thread \ {t} :
                 /\ todo'[u] = todo[u]
                 /\ pc'[u] = pc[u] \/ (pc[u] = "wait" /\ pc'[u] = "woken")
            /\ pc'[t] \in {"idle", "invoke"} /\ (Len(todo[t]) = 1 => pc'[t] = "idle")
            /\ UNCHANGED <<list, armed, running, holds, obj, goal, cb>>
        BY <2>1, <1>0, AdvanceFacts
      <3>3. CASE t = Driver /\ where[Driver] = "armed"
        <4>1. todo[t] = <<cb[t]>>
          BY <3>1, <3>3
        <4>2. Head(todo[t]) = cb[t] /\ Len(todo[t]) = 1
          BY ONLY <4>1, ShortSequences, Zenon
        <4> QED
          BY <3>1, <3>2, <3>3, <4>1, <4>2
      <3>4. CASE ~(t = Driver /\ where[Driver] = "armed")
        BY <3>1, <3>2, <3>4
      <3> QED
        BY <3>3, <3>4
    <2>2. ASSUME Token!InvokeNotify(t) PROVE G
      <3>1. /\ pc[t] \in {"invoke", "notify"}
            /\ pc[t] = "invoke" => Head(todo[t]) \notin armed
            /\ UNCHANGED <<where, body, resolved, dead>>
        BY <1>27, <2>2 DEF TokenStep, Token!InvokeSkip, Token!InvokeNotify
      <3>2. /\ ToSet(todo'[t]) \subseteq ToSet(todo[t])
            /\ \A u \in Thread \ {t} :
                 /\ todo'[u] = todo[u]
                 /\ pc'[u] = pc[u] \/ (pc[u] = "wait" /\ pc'[u] = "woken")
            /\ pc'[t] \in {"idle", "invoke"} /\ (Len(todo[t]) = 1 => pc'[t] = "idle")
            /\ UNCHANGED <<list, armed, running, holds, obj, goal, cb>>
        BY <2>2, <1>0, AdvanceFacts
      <3>3. CASE t = Driver /\ where[Driver] = "armed"
        <4>1. todo[t] = <<cb[t]>>
          BY <3>1, <3>3
        <4>2. Head(todo[t]) = cb[t] /\ Len(todo[t]) = 1
          BY ONLY <4>1, ShortSequences, Zenon
        <4> QED
          BY <3>1, <3>2, <3>3, <4>1, <4>2
      <3>4. CASE ~(t = Driver /\ where[Driver] = "armed")
        BY <3>1, <3>2, <3>4
      <3> QED
        BY <3>3, <3>4
    <2>3. ASSUME Token!RemoveCallback(t) PROVE G
      BY <1>27, <2>3 DEF TokenStep, Token!RemoveCallback
    <2>4. ASSUME Token!Disarm(t) PROVE G
      BY <1>27, <2>4 DEF TokenStep, Token!Disarm
    <2>5. ASSUME Token!Recheck(t) PROVE G
      BY <1>27, <2>5 DEF TokenStep, Token!Recheck
    <2>6. ASSUME Token!Release(t) PROVE G
      BY <1>27, <2>6 DEF TokenStep, Token!Release
    <2>7. ASSUME Token!Add(t) PROVE G
      BY <1>27, <2>7 DEF TokenStep, Token!Add
    <2>8. ASSUME Token!Store(t) PROVE G
      BY <1>27, <2>8 DEF TokenStep, Token!Store
    <2> QED
      BY <1>27, <2>1, <2>2, <2>3, <2>4, <2>5, <2>6, <2>7, <2>8 DEF TokenStep
  <1>28. ASSUME NEW t \in Thread, RequestCancel(t) PROVE G
    <2>1. /\ t # Driver \/ where[Driver] # "armed"
          /\ list' = <<>> /\ todo' = [todo EXCEPT ![t] = list]
          /\ UNCHANGED <<armed, where, body, cb, resolved, holds>>
          /\ obj' = [obj EXCEPT ![t] = NoReg] /\ goal' = [goal EXCEPT ![t] = "reset"]
          /\ \/ pc' = [pc EXCEPT ![t] = "idle"]
             \/ pc' = [pc EXCEPT ![t] = "invoke"]
      BY <1>28 DEF RequestCancel, Token!RequestStop
    <2> QED
      BY <2>1, ShortSequences
  <1>29. ASSUME UNCHANGED vars PROVE G
    BY <1>29 DEF vars
  <1> QED
    BY <1>1, <1>2, <1>3, <1>4, <1>5, <1>6, <1>7, <1>8, <1>9, <1>10, <1>11, <1>12, <1>13,
       <1>14, <1>15, <1>16, <1>17, <1>18, <1>19, <1>20, <1>21, <1>22, <1>23, <1>24, <1>25,
       <1>26, <1>27, <1>28, <1>29 DEF Next, Continue

LEMMA ArmedSoundStep ==
  ASSUME Limits, Proved!IInv, Inv, [Next]_vars
  PROVE  ArmedSound'
  <1> DEFINE G == ArmedSound'
  <1>0. TokenSound
    BY TokenFacts
  <1> USE <1>0, TimerOpAssumption DEF TokenSound, Invoking, Limits, Inv, Typed, Roles,
               Arming,
        ArmedSound, Arbiter, Stages, TimerSound, Firing, Cancelling, Places, Bodies,
        token, arbiter, runtime, Step, InBody, Finish, RemoveTimer, ResetRegistration,
        Token!CallPc, Token!At, Token!Goto, Token!Reset, Token!Register, Token!Begin,
        Token!Unused, Token!shared, Token!state, Token!frame
  <1>1. ASSUME NEW t \in Thread, PrepareAwait(t) PROVE G
    BY <1>1 DEF PrepareAwait
  <1>2. ASSUME NEW t \in Thread, ArmCancel(t) PROVE G
    BY <1>2 DEF ArmCancel
  <1>3. ASSUME NEW t \in Thread, NoToken(t) PROVE G
    BY <1>3 DEF NoToken
  <1>4. ASSUME NEW t \in Thread, Armed(t) PROVE G
    BY <1>4 DEF Armed
  <1>5. ASSUME NEW t \in Thread, Elapsed(t) PROVE G
    BY <1>5 DEF Elapsed
  <1>6. ASSUME NEW t \in Thread, Schedule(t) PROVE G
    BY <1>6 DEF Schedule
  <1>7. ASSUME NEW t \in Thread, PublishId(t) PROVE G
    BY <1>7 DEF PublishId
  <1>8. ASSUME NEW t \in Thread, Recheck(t) PROVE G
    BY <1>8 DEF Recheck
  <1>9. ASSUME NEW t \in Thread, UnpublishId(t) PROVE G
    BY <1>9 DEF UnpublishId
  <1>10. ASSUME NEW t \in Thread, SubmitThrows(t) PROVE G
    BY <1>10 DEF SubmitThrows
  <1>11. ASSUME NEW t \in Thread, InlineException(t) PROVE G
    BY <1>11 DEF InlineException
  <1>12. ASSUME NEW t \in Thread, Collect(t) PROVE G
    BY <1>12 DEF Collect
  <1>13. ASSUME NEW t \in Thread, Fire(t) PROVE G
    BY <1>13 DEF Fire
  <1>14. ASSUME NEW t \in Thread, Unregister(t) PROVE G
    BY <1>14 DEF Unregister
  <1>15. ASSUME NEW t \in Thread, ClearId(t) PROVE G
    BY <1>15 DEF ClearId
  <1>16. ASSUME NEW t \in Thread, Complete(t) PROVE G
    BY <1>16 DEF Complete
  <1>17. ASSUME NEW t \in Thread, CancelExchange(t) PROVE G
    BY <1>17 DEF CancelExchange
  <1>18. ASSUME NEW t \in Thread, CancelTakeId(t) PROVE G
    BY <1>18 DEF CancelTakeId
  <1>19. ASSUME NEW t \in Thread, CancelTimer(t) PROVE G
    BY <1>19 DEF CancelTimer
  <1>20. ASSUME NEW t \in Thread, CancelFinish(t) PROVE G
    BY <1>20 DEF CancelFinish
  <1>21. ASSUME NEW t \in Thread, Resume(t) PROVE G
    BY <1>21 DEF Resume
  <1>22. ASSUME NEW t \in Thread, Destroy(t) PROVE G
    BY <1>22 DEF Destroy
  <1>23. ASSUME NEW t \in Thread, DropTimer(t) PROVE G
    BY <1>23 DEF DropTimer
  <1>24. ASSUME NEW t \in Thread, Free(t) PROVE G
    BY <1>24 DEF Free
  <1>25. ASSUME NEW t \in Thread, EnterBody(t) PROVE G
    BY <1>25 DEF EnterBody, Token!Invoke
  <1>26. ASSUME NEW t \in Thread, LeaveBody(t) PROVE G
    BY <1>26 DEF LeaveBody, Token!InvokeReturn
  <1>27. ASSUME NEW t \in Thread, TokenStep(t) PROVE G
    <2>1. ASSUME Token!InvokeSkip(t) PROVE G
      <3>1. /\ pc[t] \in {"invoke", "notify"}
            /\ pc[t] = "invoke" => Head(todo[t]) \notin armed
            /\ UNCHANGED <<where, body, resolved, dead>>
        BY <1>27, <2>1 DEF TokenStep, Token!InvokeSkip, Token!InvokeNotify
      <3>2. /\ ToSet(todo'[t]) \subseteq ToSet(todo[t])
            /\ \A u \in Thread \ {t} :
                 /\ todo'[u] = todo[u]
                 /\ pc'[u] = pc[u] \/ (pc[u] = "wait" /\ pc'[u] = "woken")
            /\ pc'[t] \in {"idle", "invoke"} /\ (Len(todo[t]) = 1 => pc'[t] = "idle")
            /\ UNCHANGED <<list, armed, running, holds, obj, goal, cb>>
        BY <2>1, <1>0, AdvanceFacts
      <3>3. CASE t = Driver /\ where[Driver] = "armed"
        <4>1. todo[t] = <<cb[t]>>
          BY <3>1, <3>3
        <4>2. Head(todo[t]) = cb[t] /\ Len(todo[t]) = 1
          BY ONLY <4>1, ShortSequences, Zenon
        <4> QED
          BY <3>1, <3>2, <3>3, <4>1, <4>2
      <3>4. CASE ~(t = Driver /\ where[Driver] = "armed")
        BY <3>1, <3>2, <3>4
      <3> QED
        BY <3>3, <3>4
    <2>2. ASSUME Token!InvokeNotify(t) PROVE G
      <3>1. /\ pc[t] \in {"invoke", "notify"}
            /\ pc[t] = "invoke" => Head(todo[t]) \notin armed
            /\ UNCHANGED <<where, body, resolved, dead>>
        BY <1>27, <2>2 DEF TokenStep, Token!InvokeSkip, Token!InvokeNotify
      <3>2. /\ ToSet(todo'[t]) \subseteq ToSet(todo[t])
            /\ \A u \in Thread \ {t} :
                 /\ todo'[u] = todo[u]
                 /\ pc'[u] = pc[u] \/ (pc[u] = "wait" /\ pc'[u] = "woken")
            /\ pc'[t] \in {"idle", "invoke"} /\ (Len(todo[t]) = 1 => pc'[t] = "idle")
            /\ UNCHANGED <<list, armed, running, holds, obj, goal, cb>>
        BY <2>2, <1>0, AdvanceFacts
      <3>3. CASE t = Driver /\ where[Driver] = "armed"
        <4>1. todo[t] = <<cb[t]>>
          BY <3>1, <3>3
        <4>2. Head(todo[t]) = cb[t] /\ Len(todo[t]) = 1
          BY ONLY <4>1, ShortSequences, Zenon
        <4> QED
          BY <3>1, <3>2, <3>3, <4>1, <4>2
      <3>4. CASE ~(t = Driver /\ where[Driver] = "armed")
        BY <3>1, <3>2, <3>4
      <3> QED
        BY <3>3, <3>4
    <2>3. ASSUME Token!RemoveCallback(t) PROVE G
      BY <1>27, <2>3 DEF TokenStep, Token!RemoveCallback
    <2>4. ASSUME Token!Disarm(t) PROVE G
      BY <1>27, <2>4 DEF TokenStep, Token!Disarm
    <2>5. ASSUME Token!Recheck(t) PROVE G
      BY <1>27, <2>5 DEF TokenStep, Token!Recheck
    <2>6. ASSUME Token!Release(t) PROVE G
      BY <1>27, <2>6 DEF TokenStep, Token!Release
    <2>7. ASSUME Token!Add(t) PROVE G
      BY <1>27, <2>7 DEF TokenStep, Token!Add
    <2>8. ASSUME Token!Store(t) PROVE G
      <3>1. t = Driver /\ pc[t] = "store" /\ where[t] = "armed"
        BY <2>8 DEF Token!Store
      <3>2. /\ holds["reg"] = NoCb /\ NoCb \notin armed \cup running /\ ~dead
        BY <3>1
      <3>3. /\ holds'["reg"] = cb[t] /\ pc'[Driver] = "idle"
            /\ UNCHANGED <<armed, running, cb, where, dead>>
        BY <3>1, <1>27, <2>8 DEF TokenStep, Token!Store
      <3> QED
        BY ONLY <3>1, <3>2, <3>3, Inv DEF Inv, ArmedSound
    <2> QED
      BY <1>27, <2>1, <2>2, <2>3, <2>4, <2>5, <2>6, <2>7, <2>8 DEF TokenStep
  <1>28. ASSUME NEW t \in Thread, RequestCancel(t) PROVE G
    BY <1>28 DEF RequestCancel, Token!RequestStop
  <1>29. ASSUME UNCHANGED vars PROVE G
    BY <1>29 DEF vars
  <1> QED
    BY <1>1, <1>2, <1>3, <1>4, <1>5, <1>6, <1>7, <1>8, <1>9, <1>10, <1>11, <1>12, <1>13,
       <1>14, <1>15, <1>16, <1>17, <1>18, <1>19, <1>20, <1>21, <1>22, <1>23, <1>24, <1>25,
       <1>26, <1>27, <1>28, <1>29 DEF Next, Continue

LEMMA ArbiterStep ==
  ASSUME Limits, Proved!IInv, Inv, [Next]_vars
  PROVE  Arbiter'
  <1> DEFINE G == Arbiter'
  <1>0. TokenSound
    BY TokenFacts
  <1> USE <1>0, TimerOpAssumption DEF TokenSound, Invoking, Limits, Inv, Typed, Roles,
               Arming,
        ArmedSound, Arbiter, Stages, TimerSound, Firing, Cancelling, Places, Bodies,
        token, arbiter, runtime, Step, InBody, Finish, RemoveTimer, ResetRegistration,
        Token!CallPc, Token!At, Token!Goto, Token!Reset, Token!Register, Token!Begin,
        Token!Unused, Token!shared, Token!state, Token!frame
  <1>1. ASSUME NEW t \in Thread, PrepareAwait(t) PROVE G
    BY <1>1 DEF PrepareAwait
  <1>2. ASSUME NEW t \in Thread, ArmCancel(t) PROVE G
    BY <1>2 DEF ArmCancel
  <1>3. ASSUME NEW t \in Thread, NoToken(t) PROVE G
    BY <1>3 DEF NoToken
  <1>4. ASSUME NEW t \in Thread, Armed(t) PROVE G
    BY <1>4 DEF Armed
  <1>5. ASSUME NEW t \in Thread, Elapsed(t) PROVE G
    BY <1>5 DEF Elapsed
  <1>6. ASSUME NEW t \in Thread, Schedule(t) PROVE G
    BY <1>6 DEF Schedule
  <1>7. ASSUME NEW t \in Thread, PublishId(t) PROVE G
    BY <1>7 DEF PublishId
  <1>8. ASSUME NEW t \in Thread, Recheck(t) PROVE G
    BY <1>8 DEF Recheck
  <1>9. ASSUME NEW t \in Thread, UnpublishId(t) PROVE G
    BY <1>9 DEF UnpublishId
  <1>10. ASSUME NEW t \in Thread, SubmitThrows(t) PROVE G
    BY <1>10 DEF SubmitThrows
  <1>11. ASSUME NEW t \in Thread, InlineException(t) PROVE G
    BY <1>11 DEF InlineException
  <1>12. ASSUME NEW t \in Thread, Collect(t) PROVE G
    BY <1>12 DEF Collect
  <1>13. ASSUME NEW t \in Thread, Fire(t) PROVE G
    BY <1>13 DEF Fire
  <1>14. ASSUME NEW t \in Thread, Unregister(t) PROVE G
    BY <1>14 DEF Unregister
  <1>15. ASSUME NEW t \in Thread, ClearId(t) PROVE G
    BY <1>15 DEF ClearId
  <1>16. ASSUME NEW t \in Thread, Complete(t) PROVE G
    BY <1>16 DEF Complete
  <1>17. ASSUME NEW t \in Thread, CancelExchange(t) PROVE G
    BY <1>17 DEF CancelExchange
  <1>18. ASSUME NEW t \in Thread, CancelTakeId(t) PROVE G
    BY <1>18 DEF CancelTakeId
  <1>19. ASSUME NEW t \in Thread, CancelTimer(t) PROVE G
    BY <1>19 DEF CancelTimer
  <1>20. ASSUME NEW t \in Thread, CancelFinish(t) PROVE G
    BY <1>20 DEF CancelFinish
  <1>21. ASSUME NEW t \in Thread, Resume(t) PROVE G
    BY <1>21 DEF Resume
  <1>22. ASSUME NEW t \in Thread, Destroy(t) PROVE G
    BY <1>22 DEF Destroy
  <1>23. ASSUME NEW t \in Thread, DropTimer(t) PROVE G
    BY <1>23 DEF DropTimer
  <1>24. ASSUME NEW t \in Thread, Free(t) PROVE G
    BY <1>24 DEF Free
  <1>25. ASSUME NEW t \in Thread, EnterBody(t) PROVE G
    BY <1>25 DEF EnterBody, Token!Invoke
  <1>26. ASSUME NEW t \in Thread, LeaveBody(t) PROVE G
    BY <1>26 DEF LeaveBody, Token!InvokeReturn
  <1>27. ASSUME NEW t \in Thread, TokenStep(t) PROVE G
    <2>1. ASSUME Token!InvokeSkip(t) PROVE G
      BY <1>27, <2>1 DEF TokenStep, Token!InvokeSkip, Token!Advance
    <2>2. ASSUME Token!InvokeNotify(t) PROVE G
      BY <1>27, <2>2 DEF TokenStep, Token!InvokeNotify, Token!Advance
    <2>3. ASSUME Token!RemoveCallback(t) PROVE G
      BY <1>27, <2>3 DEF TokenStep, Token!RemoveCallback
    <2>4. ASSUME Token!Disarm(t) PROVE G
      BY <1>27, <2>4 DEF TokenStep, Token!Disarm
    <2>5. ASSUME Token!Recheck(t) PROVE G
      BY <1>27, <2>5 DEF TokenStep, Token!Recheck
    <2>6. ASSUME Token!Release(t) PROVE G
      BY <1>27, <2>6 DEF TokenStep, Token!Release
    <2>7. ASSUME Token!Add(t) PROVE G
      BY <1>27, <2>7 DEF TokenStep, Token!Add
    <2>8. ASSUME Token!Store(t) PROVE G
      BY <1>27, <2>8 DEF TokenStep, Token!Store
    <2> QED
      BY <1>27, <2>1, <2>2, <2>3, <2>4, <2>5, <2>6, <2>7, <2>8 DEF TokenStep
  <1>28. ASSUME NEW t \in Thread, RequestCancel(t) PROVE G
    BY <1>28 DEF RequestCancel, Token!RequestStop
  <1>29. ASSUME UNCHANGED vars PROVE G
    BY <1>29 DEF vars
  <1> QED
    BY <1>1, <1>2, <1>3, <1>4, <1>5, <1>6, <1>7, <1>8, <1>9, <1>10, <1>11, <1>12, <1>13,
       <1>14, <1>15, <1>16, <1>17, <1>18, <1>19, <1>20, <1>21, <1>22, <1>23, <1>24, <1>25,
       <1>26, <1>27, <1>28, <1>29 DEF Next, Continue

LEMMA StagesStep ==
  ASSUME Limits, Proved!IInv, Inv, [Next]_vars
  PROVE  Stages'
  <1> DEFINE G == Stages'
  <1>0. TokenSound
    BY TokenFacts
  <1> USE <1>0, TimerOpAssumption DEF TokenSound, Invoking, Limits, Inv, Typed, Roles,
               Arming,
        ArmedSound, Arbiter, Stages, TimerSound, Firing, Cancelling, Places, Bodies,
        token, arbiter, runtime, Step, InBody, Finish, RemoveTimer, ResetRegistration,
        Token!CallPc, Token!At, Token!Goto, Token!Reset, Token!Register, Token!Begin,
        Token!Unused, Token!shared, Token!state, Token!frame
  <1>1. ASSUME NEW t \in Thread, PrepareAwait(t) PROVE G
    BY <1>1 DEF PrepareAwait
  <1>2. ASSUME NEW t \in Thread, ArmCancel(t) PROVE G
    BY <1>2 DEF ArmCancel
  <1>3. ASSUME NEW t \in Thread, NoToken(t) PROVE G
    BY <1>3 DEF NoToken
  <1>4. ASSUME NEW t \in Thread, Armed(t) PROVE G
    BY <1>4 DEF Armed
  <1>5. ASSUME NEW t \in Thread, Elapsed(t) PROVE G
    BY <1>5 DEF Elapsed
  <1>6. ASSUME NEW t \in Thread, Schedule(t) PROVE G
    BY <1>6 DEF Schedule
  <1>7. ASSUME NEW t \in Thread, PublishId(t) PROVE G
    BY <1>7 DEF PublishId
  <1>8. ASSUME NEW t \in Thread, Recheck(t) PROVE G
    BY <1>8 DEF Recheck
  <1>9. ASSUME NEW t \in Thread, UnpublishId(t) PROVE G
    BY <1>9 DEF UnpublishId
  <1>10. ASSUME NEW t \in Thread, SubmitThrows(t) PROVE G
    BY <1>10 DEF SubmitThrows
  <1>11. ASSUME NEW t \in Thread, InlineException(t) PROVE G
    BY <1>11 DEF InlineException
  <1>12. ASSUME NEW t \in Thread, Collect(t) PROVE G
    BY <1>12 DEF Collect
  <1>13. ASSUME NEW t \in Thread, Fire(t) PROVE G
    BY <1>13 DEF Fire
  <1>14. ASSUME NEW t \in Thread, Unregister(t) PROVE G
    BY <1>14 DEF Unregister
  <1>15. ASSUME NEW t \in Thread, ClearId(t) PROVE G
    BY <1>15 DEF ClearId
  <1>16. ASSUME NEW t \in Thread, Complete(t) PROVE G
    BY <1>16 DEF Complete
  <1>17. ASSUME NEW t \in Thread, CancelExchange(t) PROVE G
    BY <1>17 DEF CancelExchange
  <1>18. ASSUME NEW t \in Thread, CancelTakeId(t) PROVE G
    BY <1>18 DEF CancelTakeId
  <1>19. ASSUME NEW t \in Thread, CancelTimer(t) PROVE G
    BY <1>19 DEF CancelTimer
  <1>20. ASSUME NEW t \in Thread, CancelFinish(t) PROVE G
    BY <1>20 DEF CancelFinish
  <1>21. ASSUME NEW t \in Thread, Resume(t) PROVE G
    BY <1>21 DEF Resume
  <1>22. ASSUME NEW t \in Thread, Destroy(t) PROVE G
    BY <1>22 DEF Destroy
  <1>23. ASSUME NEW t \in Thread, DropTimer(t) PROVE G
    BY <1>23 DEF DropTimer
  <1>24. ASSUME NEW t \in Thread, Free(t) PROVE G
    BY <1>24 DEF Free
  <1>25. ASSUME NEW t \in Thread, EnterBody(t) PROVE G
    BY <1>25 DEF EnterBody, Token!Invoke
  <1>26. ASSUME NEW t \in Thread, LeaveBody(t) PROVE G
    BY <1>26 DEF LeaveBody, Token!InvokeReturn
  <1>27. ASSUME NEW t \in Thread, TokenStep(t) PROVE G
    <2>1. ASSUME Token!InvokeSkip(t) PROVE G
      BY <1>27, <2>1 DEF TokenStep, Token!InvokeSkip, Token!Advance
    <2>2. ASSUME Token!InvokeNotify(t) PROVE G
      BY <1>27, <2>2 DEF TokenStep, Token!InvokeNotify, Token!Advance
    <2>3. ASSUME Token!RemoveCallback(t) PROVE G
      BY <1>27, <2>3 DEF TokenStep, Token!RemoveCallback
    <2>4. ASSUME Token!Disarm(t) PROVE G
      BY <1>27, <2>4 DEF TokenStep, Token!Disarm
    <2>5. ASSUME Token!Recheck(t) PROVE G
      BY <1>27, <2>5 DEF TokenStep, Token!Recheck
    <2>6. ASSUME Token!Release(t) PROVE G
      BY <1>27, <2>6 DEF TokenStep, Token!Release
    <2>7. ASSUME Token!Add(t) PROVE G
      BY <1>27, <2>7 DEF TokenStep, Token!Add
    <2>8. ASSUME Token!Store(t) PROVE G
      BY <1>27, <2>8 DEF TokenStep, Token!Store
    <2> QED
      BY <1>27, <2>1, <2>2, <2>3, <2>4, <2>5, <2>6, <2>7, <2>8 DEF TokenStep
  <1>28. ASSUME NEW t \in Thread, RequestCancel(t) PROVE G
    BY <1>28 DEF RequestCancel, Token!RequestStop
  <1>29. ASSUME UNCHANGED vars PROVE G
    BY <1>29 DEF vars
  <1> QED
    BY <1>1, <1>2, <1>3, <1>4, <1>5, <1>6, <1>7, <1>8, <1>9, <1>10, <1>11, <1>12, <1>13,
       <1>14, <1>15, <1>16, <1>17, <1>18, <1>19, <1>20, <1>21, <1>22, <1>23, <1>24, <1>25,
       <1>26, <1>27, <1>28, <1>29 DEF Next, Continue

LEMMA TimerSoundStep ==
  ASSUME Limits, Proved!IInv, Inv, [Next]_vars
  PROVE  TimerSound'
  <1> DEFINE G == TimerSound'
  <1>0. TokenSound
    BY TokenFacts
  <1> USE <1>0, TimerOpAssumption DEF TokenSound, Invoking, Limits, Inv, Typed, Roles,
               Arming,
        ArmedSound, Arbiter, Stages, TimerSound, Firing, Cancelling, Places, Bodies,
        token, arbiter, runtime, Step, InBody, Finish, RemoveTimer, ResetRegistration,
        Token!CallPc, Token!At, Token!Goto, Token!Reset, Token!Register, Token!Begin,
        Token!Unused, Token!shared, Token!state, Token!frame
  <1>1. ASSUME NEW t \in Thread, PrepareAwait(t) PROVE G
    BY <1>1 DEF PrepareAwait
  <1>2. ASSUME NEW t \in Thread, ArmCancel(t) PROVE G
    BY <1>2 DEF ArmCancel
  <1>3. ASSUME NEW t \in Thread, NoToken(t) PROVE G
    BY <1>3 DEF NoToken
  <1>4. ASSUME NEW t \in Thread, Armed(t) PROVE G
    BY <1>4 DEF Armed
  <1>5. ASSUME NEW t \in Thread, Elapsed(t) PROVE G
    BY <1>5 DEF Elapsed
  <1>6. ASSUME NEW t \in Thread, Schedule(t) PROVE G
    BY <1>6 DEF Schedule
  <1>7. ASSUME NEW t \in Thread, PublishId(t) PROVE G
    BY <1>7 DEF PublishId
  <1>8. ASSUME NEW t \in Thread, Recheck(t) PROVE G
    BY <1>8 DEF Recheck
  <1>9. ASSUME NEW t \in Thread, UnpublishId(t) PROVE G
    BY <1>9 DEF UnpublishId
  <1>10. ASSUME NEW t \in Thread, SubmitThrows(t) PROVE G
    BY <1>10 DEF SubmitThrows
  <1>11. ASSUME NEW t \in Thread, InlineException(t) PROVE G
    BY <1>11 DEF InlineException
  <1>12. ASSUME NEW t \in Thread, Collect(t) PROVE G
    BY <1>12 DEF Collect
  <1>13. ASSUME NEW t \in Thread, Fire(t) PROVE G
    BY <1>13 DEF Fire
  <1>14. ASSUME NEW t \in Thread, Unregister(t) PROVE G
    BY <1>14 DEF Unregister
  <1>15. ASSUME NEW t \in Thread, ClearId(t) PROVE G
    BY <1>15 DEF ClearId
  <1>16. ASSUME NEW t \in Thread, Complete(t) PROVE G
    BY <1>16 DEF Complete
  <1>17. ASSUME NEW t \in Thread, CancelExchange(t) PROVE G
    BY <1>17 DEF CancelExchange
  <1>18. ASSUME NEW t \in Thread, CancelTakeId(t) PROVE G
    BY <1>18 DEF CancelTakeId
  <1>19. ASSUME NEW t \in Thread, CancelTimer(t) PROVE G
    BY <1>19 DEF CancelTimer
  <1>20. ASSUME NEW t \in Thread, CancelFinish(t) PROVE G
    BY <1>20 DEF CancelFinish
  <1>21. ASSUME NEW t \in Thread, Resume(t) PROVE G
    BY <1>21 DEF Resume
  <1>22. ASSUME NEW t \in Thread, Destroy(t) PROVE G
    BY <1>22 DEF Destroy
  <1>23. ASSUME NEW t \in Thread, DropTimer(t) PROVE G
    BY <1>23 DEF DropTimer
  <1>24. ASSUME NEW t \in Thread, Free(t) PROVE G
    BY <1>24 DEF Free
  <1>25. ASSUME NEW t \in Thread, EnterBody(t) PROVE G
    BY <1>25 DEF EnterBody, Token!Invoke
  <1>26. ASSUME NEW t \in Thread, LeaveBody(t) PROVE G
    BY <1>26 DEF LeaveBody, Token!InvokeReturn
  <1>27. ASSUME NEW t \in Thread, TokenStep(t) PROVE G
    <2>1. ASSUME Token!InvokeSkip(t) PROVE G
      BY <1>27, <2>1 DEF TokenStep, Token!InvokeSkip, Token!Advance
    <2>2. ASSUME Token!InvokeNotify(t) PROVE G
      BY <1>27, <2>2 DEF TokenStep, Token!InvokeNotify, Token!Advance
    <2>3. ASSUME Token!RemoveCallback(t) PROVE G
      BY <1>27, <2>3 DEF TokenStep, Token!RemoveCallback
    <2>4. ASSUME Token!Disarm(t) PROVE G
      BY <1>27, <2>4 DEF TokenStep, Token!Disarm
    <2>5. ASSUME Token!Recheck(t) PROVE G
      BY <1>27, <2>5 DEF TokenStep, Token!Recheck
    <2>6. ASSUME Token!Release(t) PROVE G
      BY <1>27, <2>6 DEF TokenStep, Token!Release
    <2>7. ASSUME Token!Add(t) PROVE G
      BY <1>27, <2>7 DEF TokenStep, Token!Add
    <2>8. ASSUME Token!Store(t) PROVE G
      BY <1>27, <2>8 DEF TokenStep, Token!Store
    <2> QED
      BY <1>27, <2>1, <2>2, <2>3, <2>4, <2>5, <2>6, <2>7, <2>8 DEF TokenStep
  <1>28. ASSUME NEW t \in Thread, RequestCancel(t) PROVE G
    BY <1>28 DEF RequestCancel, Token!RequestStop
  <1>29. ASSUME UNCHANGED vars PROVE G
    BY <1>29 DEF vars
  <1> QED
    BY <1>1, <1>2, <1>3, <1>4, <1>5, <1>6, <1>7, <1>8, <1>9, <1>10, <1>11, <1>12, <1>13,
       <1>14, <1>15, <1>16, <1>17, <1>18, <1>19, <1>20, <1>21, <1>22, <1>23, <1>24, <1>25,
       <1>26, <1>27, <1>28, <1>29 DEF Next, Continue


-----------------------------------------------------------------------------
(* The theorems.                                                           *)

LEMMA InitStep == Init => IInv
  <1> SUFFICES ASSUME Init
               PROVE  Inv
    BY TokenInit DEF IInv
  <1> USE TimerOpAssumption DEF Init, Token!Init
  <1>1. Typed /\ Roles /\ Stages
    BY DEF Typed, Roles, Stages, Places, Bodies
  <1>2. Arming /\ Arbiter /\ TimerSound
    BY DEF Arming, Arbiter, Firing, Cancelling, TimerSound
  <1>3. ArmedSound
    BY DEF ArmedSound
  <1> QED
    BY <1>1, <1>2, <1>3 DEF Inv

LEMMA NextStep == Limits /\ IInv /\ [Next]_vars => IInv'
  BY TokenStaysSound, TypedStep, RolesStep, ArmingStep, ArmedSoundStep, ArbiterStep,
     StagesStep,
     TimerSoundStep DEF IInv, Inv

\* Whatever the order of deadline, cancellation, resumption and the calls of cancel.h:
\* the invariant holds of every sleep and timeout that the driver of its runtime
\* submits (time/sleep.h).
THEOREM InvariantHolds == Limits => (Spec => []IInv)
  <1>1. Init => IInv
    BY InitStep
  <1>2. Limits /\ IInv /\ [Next]_vars => IInv'
    BY NextStep
  <1>3. ASSUME Limits
        PROVE  Spec => []IInv
    BY <1>1, <1>2, <1>3, PTL DEF Spec
  <1> QED
    BY <1>3

\* The destructor of sleep.h:61-67 leaves nothing behind: no entry in the timer tables
\* or the ready queue, no callback that runs or may still run, nobody in the code.
THEOREM NothingIsLeftBehind == Limits => (Spec => []DestroyedIsUnreachable)
  <1>1. ASSUME IInv
        PROVE  DestroyedIsUnreachable
    <2>1. TokenSound
      BY <1>1, TokenFacts DEF IInv
    <2>2. ASSUME dead
          PROVE  /\ table = "none" /\ queued = 0
                 /\ \A t \in Thread : where[t] = "idle"
      BY <1>1, <2>2 DEF IInv, Inv, Stages, Roles
    <2>3. ASSUME dead
          PROVE  armed = {} /\ running = {}
      <3>1. holds["reg"] = NoCb /\ where[Driver] = "idle"
        BY <1>1, <2>2, <2>3, TimerOpAssumption DEF IInv, Inv, ArmedSound
      <3> QED
        BY <1>1, <2>1, <3>1, TimerOpAssumption DEF IInv, Inv, ArmedSound, TokenSound
    <2> QED
      BY <2>2, <2>3 DEF DestroyedIsUnreachable
  <1>2. Limits => (Spec => []IInv)
    BY InvariantHolds
  <1> QED
    BY <1>1, <1>2, PTL

\* Of the deadline, the cancellation and the exception of submit(), at most one
\* completes the operation, and it finds it awaiting: the asserts of
\* operation_base.h:125, :138 and :147 cannot fail.
THEOREM OneCompletionWins == Limits => (Spec => []CompletedOnce)
  <1>1. ASSUME IInv
        PROVE  CompletedOnce
    <2>1. ASSUME NEW t \in Thread, where[t] = "complete"
          PROVE  state = "awaiting"
      BY <1>1, <2>1 DEF IInv, Inv, Roles, Arbiter, Firing
    <2>2. ASSUME NEW t \in Thread, where[t] = "inline"
          PROVE  state = "awaiting"
      BY <1>1, <2>2 DEF IInv, Inv, Roles, Stages
    <2>3. ASSUME NEW t \in Thread, body[t] = "cancel"
          PROVE  state = "awaiting"
      BY <1>1, <2>3 DEF IInv, Inv, Arbiter, Cancelling
    <2> QED
      BY <2>1, <2>2, <2>3 DEF CompletedOnce
  <1>2. Limits => (Spec => []IInv)
    BY InvariantHolds
  <1> QED
    BY <1>1, <1>2, PTL

\* The types of sleep.h:157-162 and operation_base.h:116-139: whoever completes the
\* operation has won resolved_, and its continuation is queued only after that, once.
THEOREM TypeCorrect == Limits => (Spec => []TypeOK)
  <1>1. IInv => TypeOK
    BY DEF IInv, Inv, Typed, TypeOK
  <1>2. Limits => (Spec => []IInv)
    BY InvariantHolds
  <1> QED
    BY <1>1, <1>2, PTL

=============================================================================
