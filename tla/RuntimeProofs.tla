---------------------------- MODULE RuntimeProofs ----------------------------
(***************************************************************************)
(* Theorems about the event loop, for every number of coroutines and       *)
(* threads and every choice of calls, and the invariant they rest on.      *)
(***************************************************************************)
EXTENDS RuntimeExecutor, FiniteSetTheorems, TLAPS

-----------------------------------------------------------------------------
(* Type correctness.                                                       *)

LEMMA TypeOKInit == Init => TypeOK
<1> SUFFICES ASSUME Init PROVE TypeOK
  OBVIOUS
<1> USE DEF Init, Never
<1>1. tail \in [Thread -> SUBSET ({"cv"} \cup Backend)] /\ pc \in [Thread -> {"idle"}]
  OBVIOUS
<1>2. timer \in [Coro -> 0 .. Never] /\ awaits \in [Coro -> 0 .. MaxAwait]
  BY RuntimeAssumption
<1>3. co \in [Coro -> CoroState]
  BY DEF CoroState
<1>4. \A t \in Thread : pc[t] = "idle"
  OBVIOUS
<1>5. ready \in Seq(Coro) /\ cur \in [Thread -> Coro \cup {NoCoro}]
      /\ cancelling \in [Thread -> Coro \cup {NoCoro}]
  OBVIOUS
<1>6. backend \in Backend \cup {"none"} /\ limit \in 0 .. Never /\ now \in 0 .. MaxTime
  BY RuntimeAssumption
<1>7. QED
  BY <1>1, <1>2, <1>3, <1>4, <1>5, <1>6 DEF TypeOK, DrivePc

\* Leaving a body keeps the types of pc and cur and what TypeOK says of them.
LEMMA LeaveKeepsType ==
  ASSUME TypeOK, NEW t \in Thread, pc[t] \in {"body", "submit"}, Leave(t)
  PROVE  /\ pc' \in [Thread -> {"idle", "body", "submit"} \cup DrivePc]
         /\ cur' \in [Thread -> Coro \cup {NoCoro}]
         /\ \A u \in Thread :
              /\ pc'[u] \in DrivePc => driver = u
              /\ pc'[u] \in {"body", "submit", "resume", "finish"} => cur'[u] # NoCoro
<1>1. CASE t = driver
  BY <1>1 DEF Leave, TypeOK, DrivePc
<1>2. CASE t # driver
  BY <1>2 DEF Leave, TypeOK, DrivePc
<1>3. QED  BY <1>1, <1>2

LEMMA TypeOKStep ==
  ASSUME TypeOK, [Next]_vars
  PROVE  TypeOK'
<1> USE RuntimeAssumption DEF TypeOK, Never, CoroState, DrivePc, Backend,
          queue, control, frame, threads, coros, io
<1> SUFFICES ASSUME Next PROVE TypeOK'
  BY DEF vars
<1>1. ASSUME NEW t \in Thread, Notify(t) PROVE TypeOK'
  BY <1>1 DEF Notify
<1>2. ASSUME NEW t \in Thread, Wake(t) PROVE TypeOK'
  <2>1. PICK b \in tail[t] \ {"cv"} :
           tail' = [tail EXCEPT ![t] = @ \ {b}] /\ latch' = latch \cup {b}
    BY <1>2 DEF Wake
  <2>2. b \in Backend
    BY <2>1
  <2>3. QED  BY <1>2, <2>1, <2>2 DEF Wake
<1>3. ASSUME NEW t \in Thread, CancelTimer(t) PROVE TypeOK'
  BY <1>3 DEF CancelTimer, Signal
<1>4. ASSUME NEW t \in Thread, CancelComplete(t) PROVE TypeOK'
  BY <1>4 DEF CancelComplete, Signal, EnqueueReady
<1>5. ASSUME NEW t \in Thread, RetainWork(t) PROVE TypeOK'
  BY <1>5 DEF RetainWork, InBody, Quiet
<1>6. ASSUME NEW t \in Thread, SubmitSleep(t) PROVE TypeOK'
  BY <1>6, LeaveKeepsType DEF SubmitSleep, InSubmit, Quiet, Signal
<1>7. ASSUME NEW t \in Thread, SubmitElapsedSleep(t) PROVE TypeOK'
  BY <1>7, LeaveKeepsType DEF SubmitElapsedSleep, InSubmit, Quiet, EnqueueReady, Signal
<1>8. ASSUME NEW t \in Thread, SubmitOp(t) PROVE TypeOK'
  <2> DEFINE Now(s) == [co EXCEPT ![cur[t]] = s]
  <2>1. co' = Now("io") \/ co' = Now("waiting")
    BY <1>8 DEF SubmitOp
  <2>2. pc[t] = "submit" /\ Leave(t)
    BY <1>8 DEF SubmitOp, InSubmit
  <2>3. co' \in [Coro -> CoroState]
    BY <2>1
  <2>4. QED  BY <1>8, <2>2, <2>3, LeaveKeepsType DEF SubmitOp
<1>9. ASSUME NEW t \in Thread, SubmitFails(t) PROVE TypeOK'
  BY <1>9, SMTT(30) DEF SubmitFails, InSubmit, Quiet, ReleaseWork, Signal
<1>10. ASSUME NEW t \in Thread, JoinUntracked(t) PROVE TypeOK'
  <2>1. co' \in [Coro -> CoroState] /\ awaits' \in [Coro -> 0 .. MaxAwait]
    BY <1>10 DEF JoinUntracked, InBody
  <2>2. pc[t] = "body" /\ Leave(t)
    BY <1>10 DEF JoinUntracked, InBody
  <2>3. QED  BY <1>10, <2>1, <2>2, LeaveKeepsType DEF JoinUntracked
<1>11. ASSUME NEW t \in Thread, Park(t) PROVE TypeOK'
  BY <1>11, LeaveKeepsType DEF Park, InBody, Quiet
<1>12. ASSUME NEW t \in Thread, Return(t) PROVE TypeOK'
  BY <1>12, LeaveKeepsType DEF Return, InBody, Quiet
<1>13. ASSUME NEW t \in Thread, RunCollect(t) PROVE TypeOK'
  BY <1>13 DEF RunCollect, AtLoop, Quiet, Expired, Disarmed
<1>14. ASSUME NEW t \in Thread, RunPop(t) PROVE TypeOK'
  BY <1>14 DEF RunPop, AtLoop, Quiet, PopReady
<1>15. ASSUME NEW t \in Thread, RunReturn(t) PROVE TypeOK'
  BY <1>15 DEF RunReturn, AtLoop, Quiet
<1>16. ASSUME NEW t \in Thread, RunBlock(t) PROVE TypeOK'
  BY <1>16 DEF RunBlock, AtLoop, Quiet
<1>17. ASSUME NEW t \in Thread, CvRecheck(t) PROVE TypeOK'
  BY <1>17 DEF CvRecheck, WaitOver
<1>18. ASSUME NEW t \in Thread, CvTimeout(t) PROVE TypeOK'
  BY <1>18 DEF CvTimeout
<1>19. ASSUME NEW t \in Thread, Poll(t) PROVE TypeOK'
  BY <1>19 DEF Poll
<1>20. ASSUME NEW t \in Thread, RunOnePop(t) PROVE TypeOK'
  <2>1. ready' \in Seq(Coro) /\ Head(ready) \in Coro /\ cur' = [cur EXCEPT ![t] = Head(ready)]
    BY <1>20 DEF RunOnePop, PopReady
  <2>2. timer' \in [Coro -> 0 .. Never] /\ batch' \subseteq Coro
    BY <1>20 DEF RunOnePop, Expired, Disarmed
  <2>3. PICK p \in {"resume", "dispatch"} : pc' = [pc EXCEPT ![t] = p]
    BY <1>20 DEF RunOnePop
  <2>4. QED  BY <1>20, <2>1, <2>2, <2>3, ZenonT(30) DEF RunOnePop, AtLoop
<1>21. ASSUME NEW t \in Thread, RunOnePoll(t) PROVE TypeOK'
  BY <1>21 DEF RunOnePoll, AtLoop, Quiet, Expired, Disarmed
<1>22. ASSUME NEW t \in Thread, RunOneReturn(t) PROVE TypeOK'
  BY <1>22 DEF RunOneReturn, AtLoop, Quiet, Expired, Disarmed
<1>23. ASSUME NEW t \in Thread, Dispatch(t) PROVE TypeOK'
  <2>1. PICK c \in batch :
           /\ batch' = batch \ {c}
           /\ IF resolved[c] THEN UNCHANGED <<ready, co, resolved, tail>>
              ELSE EnqueueReady(t, c) /\ resolved' = [resolved EXCEPT ![c] = TRUE]
    BY <1>23 DEF Dispatch
  <2>2. CASE resolved[c]
    BY <1>23, <2>1, <2>2 DEF Dispatch
  <2>3. CASE ~resolved[c]
    <3>1. c \in Coro /\ EnqueueReady(t, c) /\ resolved' = [resolved EXCEPT ![c] = TRUE]
      BY <2>1, <2>3
    <3>2. ready' \in Seq(Coro) /\ co' \in [Coro -> CoroState]
      BY <3>1 DEF EnqueueReady
    <3>3. tail' \in [Thread -> SUBSET ({"cv"} \cup Backend)]
      BY <3>1 DEF EnqueueReady, Signal
    <3>4. QED  BY <1>23, <2>1, <3>1, <3>2, <3>3 DEF Dispatch
  <2>4. QED  BY <2>2, <2>3
<1>24. ASSUME NEW t \in Thread, DispatchDone(t) PROVE TypeOK'
  BY <1>24 DEF DispatchDone, Quiet
<1>25. ASSUME NEW t \in Thread, Resume(t) PROVE TypeOK'
  BY <1>25 DEF Resume
<1>26. ASSUME NEW t \in Thread, FinishReadyItem(t) PROVE TypeOK'
  BY <1>26 DEF FinishReadyItem, Quiet, ReleaseWork, Signal
<1>27. ASSUME NEW t \in Thread, EndDrive(t) PROVE TypeOK'
  BY <1>27 DEF EndDrive, Quiet
<1>28. ASSUME NEW t \in Thread, NEW e \in Entry, BeginDrive(t, e) PROVE TypeOK'
  BY <1>28 DEF BeginDrive, Quiet
<1>29. ASSUME NEW t \in Thread, Stop(t) PROVE TypeOK'
  BY <1>29 DEF Stop, Free, Quiet, Signal
<1>30. ASSUME NEW t \in Thread, NEW b \in {"none", "user"}, SetCompletionBackend(t, b) PROVE TypeOK'
  BY <1>30 DEF SetCompletionBackend, Free, Quiet
<1>31. ASSUME NEW t \in Thread, NEW c \in Coro, Post(t, c) PROVE TypeOK'
  BY <1>31, SMTT(30) DEF Post, Free, Quiet, EnqueueReady, Signal
<1>32. ASSUME NEW t \in Thread, NEW c \in Coro, SpawnTask(t, c) PROVE TypeOK'
  BY <1>32, SMTT(30) DEF SpawnTask, Free, Quiet, EnqueueReady, Signal
<1>33. ASSUME NEW t \in Thread, NEW c \in Coro, Host(t, c) PROVE TypeOK'
  BY <1>33 DEF Host, Quiet
<1>34. ASSUME NEW t \in Thread, NEW c \in Coro, CancelSleep(t, c) PROVE TypeOK'
  BY <1>34 DEF CancelSleep, Free, Quiet
<1>35. ASSUME NEW t \in Thread, NEW c \in Coro, Complete(t, c) PROVE TypeOK'
  BY <1>35 DEF Complete, Free, Quiet, EnqueueReady, Signal
<1>36. ASSUME NEW t \in Thread, SpuriousWake(t) PROVE TypeOK'
  BY <1>36 DEF SpuriousWake
<1>37. ASSUME NEW c \in Coro, IoEvent(c) PROVE TypeOK'
  BY <1>37 DEF IoEvent
<1>38. ASSUME Tick PROVE TypeOK'
  BY <1>38 DEF Tick
<1> HIDE DEF TypeOK, queue, control, frame, threads, coros, io
<1>39. QED
  BY <1>1, <1>2, <1>3, <1>4, <1>5, <1>6, <1>7, <1>8, <1>9, <1>10, <1>11, <1>12, <1>13,
     <1>14, <1>15, <1>16, <1>17, <1>18, <1>19, <1>20, <1>21, <1>22, <1>23, <1>24, <1>25,
     <1>26, <1>27, <1>28, <1>29, <1>30, <1>31, <1>32, <1>33, <1>34, <1>35, <1>36, <1>37,
     <1>38 DEF Next, Continue, Call

\* Every reachable state is well typed, and inside the event loop there is never
\* more than the one thread that begin_drive let in.
THEOREM TypeCorrect == Spec => []TypeOK
<1>1. QED  BY TypeOKInit, TypeOKStep, PTL DEF Spec

-----------------------------------------------------------------------------
(* The ready queue as a set.                                               *)

LEMMA ElemsInSet ==
  ASSUME NEW S, NEW s \in Seq(S)
  PROVE  Elems(s) \subseteq S
BY DEF Elems

LEMMA AppendElems ==
  ASSUME NEW S, NEW s \in Seq(S), NEW c \in S
  PROVE  /\ Elems(Append(s, c)) = Elems(s) \cup {c}
         /\ Distinct(s) /\ c \notin Elems(s) => Distinct(Append(s, c))
<1>1. /\ Len(s) \in Nat /\ DOMAIN s = 1 .. Len(s)
      /\ DOMAIN Append(s, c) = 1 .. Len(s) + 1
      /\ \A i \in 1 .. Len(s) : Append(s, c)[i] = s[i]
      /\ Append(s, c)[Len(s) + 1] = c
  OBVIOUS
<1>2. Elems(s) \cup {c} \subseteq Elems(Append(s, c))
  BY <1>1 DEF Elems
<1>3. Elems(Append(s, c)) \subseteq Elems(s) \cup {c}
  <2>1. \A i \in 1 .. Len(s) + 1 : i \in 1 .. Len(s) \/ i = Len(s) + 1
    BY <1>1
  <2>2. QED  BY <1>1, <2>1 DEF Elems
<1>4. Distinct(s) /\ c \notin Elems(s) => Distinct(Append(s, c))
  BY <1>1 DEF Elems, Distinct
<1>5. QED  BY <1>2, <1>3, <1>4

LEMMA TailElems ==
  ASSUME NEW S, NEW s \in Seq(S), s # <<>>, Distinct(s)
  PROVE  /\ Head(s) \in Elems(s)
         /\ Elems(Tail(s)) = Elems(s) \ {Head(s)}
         /\ Distinct(Tail(s))
<1>1. /\ Tail(s) \in Seq(S) /\ Len(Tail(s)) = Len(s) - 1 /\ Len(s) \in Nat /\ Len(s) > 0
      /\ \A i \in 1 .. Len(s) - 1 : Tail(s)[i] = s[i + 1]
  OBVIOUS
<1>2. Head(s) = s[1]
  OBVIOUS
<1>3. Elems(Tail(s)) \subseteq Elems(s) \ {Head(s)}
  BY <1>1, <1>2 DEF Elems, Distinct
<1>4. ASSUME NEW x \in Elems(s) \ {Head(s)} PROVE x \in Elems(Tail(s))
  <2>1. PICK i \in 1 .. Len(s) : s[i] = x /\ i # 1
    BY <1>2 DEF Elems
  <2>2. i - 1 \in DOMAIN Tail(s) /\ Tail(s)[i - 1] = x
    BY <1>1, <2>1
  <2>3. QED  BY <2>2 DEF Elems
<1>5. Distinct(Tail(s))
  BY <1>1 DEF Distinct
<1>6. QED  BY <1>1, <1>2, <1>3, <1>4, <1>5 DEF Elems

-----------------------------------------------------------------------------
(* The inductive invariant.                                                *)

\* Leaving a body touches no other thread, and takes this one to finish_ready_item
\* if it drives the runtime, out of the coroutine otherwise.
LEMMA LeaveEffect ==
  ASSUME TypeOK, NEW t \in Thread, pc[t] \in {"body", "submit"}, Leave(t)
  PROVE  /\ \A u \in Thread \ {t} : pc'[u] = pc[u] /\ cur'[u] = cur[u]
         /\ \/ t = driver /\ pc'[t] = "finish" /\ cur'[t] = cur[t]
            \/ t # driver /\ pc'[t] = "idle" /\ cur'[t] = NoCoro
<1>1. CASE t = driver
  BY <1>1 DEF Leave, TypeOK
<1>2. CASE t # driver
  BY <1>2 DEF Leave, TypeOK
<1>3. QED  BY <1>1, <1>2

\* It leaves the other bodies alone, whatever its own coroutine becomes.
LEMMA LeaveKeepsBodies ==
  ASSUME TypeOK, BodiesSound, DriverSound, NEW t \in Thread,
         pc[t] \in {"body", "submit"}, Leave(t), driver' = driver,
         NEW s, co' = [co EXCEPT ![cur[t]] = s]
  PROVE  BodiesSound' /\ DriverSound'
<1> DEFINE c == cur[t]
<1>1. \A u \in Thread \ {t} :
        /\ pc'[u] = pc[u] /\ cur'[u] = cur[u]
        /\ pc[u] \in {"body", "submit"} => cur[u] # c
  BY LeaveEffect DEF BodiesSound
<1>2. pc'[t] \in {"finish", "idle"} /\ (pc'[t] = "idle" => t # driver /\ cur'[t] = NoCoro)
  BY LeaveEffect
<1>3. \A u \in Thread \ {t} : cur[u] # c => co'[cur[u]] = co[cur[u]]
  BY DEF TypeOK
<1>4. BodiesSound'
  BY <1>1, <1>2, <1>3 DEF BodiesSound
<1>5. DriverSound'
  BY <1>1, <1>2 DEF DriverSound, TypeOK
<1>6. QED  BY <1>4, <1>5

LEMMA StructureInit == Init => Structure
BY RuntimeAssumption DEF Init, Structure, BodiesSound, CancelsSound, BatchSound, IoSound,
   QueueSound, TimersAreLive, DriverSound, JoinsTracked, Elems, Distinct

LEMMA StructureStep ==
  ASSUME TypeOK, Structure, [Next]_vars
  PROVE  Structure'
<1> USE RuntimeAssumption DEF TypeOK, Structure, BodiesSound, CancelsSound, BatchSound,
   IoSound, QueueSound, TimersAreLive, DriverSound, JoinsTracked, 
   queue, control, frame, threads, coros, io, Never, DrivePc
<1> SUFFICES ASSUME Next PROVE Structure'
  BY DEF vars
<1>1. ASSUME NEW t \in Thread, Notify(t) PROVE Structure'
  BY <1>1 DEF Notify
<1>2. ASSUME NEW t \in Thread, Wake(t) PROVE Structure'
  BY <1>2 DEF Wake
<1>3. ASSUME NEW t \in Thread, CancelTimer(t) PROVE Structure'
  BY <1>3 DEF CancelTimer, Signal
<1>4. ASSUME NEW t \in Thread, CancelComplete(t) PROVE Structure'
  BY <1>4, AppendElems DEF CancelComplete, Signal, EnqueueReady
<1>5. ASSUME NEW t \in Thread, RetainWork(t) PROVE Structure'
  BY <1>5 DEF RetainWork, InBody, Quiet
<1>6. ASSUME NEW t \in Thread, SubmitSleep(t) PROVE Structure'
  <2> DEFINE c == cur[t]
  <2>1. /\ pc[t] = "submit" /\ co[c] = "retained" /\ c \in Coro
        /\ Leave(t) /\ driver' = driver
    BY <1>6 DEF SubmitSleep, InSubmit
  <2>2. co' = [co EXCEPT ![cur[t]] = "sleeping"]
    BY <1>6 DEF SubmitSleep
  <2>3. BodiesSound' /\ DriverSound'
    <3>1. TypeOK /\ BodiesSound /\ DriverSound
      OBVIOUS
    <3> HIDE DEF TypeOK, BodiesSound, DriverSound, Structure
    <3>2. QED  BY <2>1, <2>2, <3>1, LeaveKeepsBodies
  <2>4. /\ \A u \in Thread \ {t} : pc'[u] = pc[u] /\ cur'[u] = cur[u]
        /\ pc'[t] \in {"finish", "idle"}
    BY <2>1, LeaveEffect
  <2>5. \A d \in Coro \ {c} : co'[d] = co[d]
    BY <2>2
  <2>6. c \notin batch /\ c \notin Elems(ready) /\ Elems(ready) \subseteq Coro
    BY <2>1, ElemsInSet
  <2>7. CancelsSound' /\ IoSound'
    BY <1>6, <2>1, <2>2, <2>5 DEF SubmitSleep
  <2>8. BatchSound'
    BY <1>6, <2>1, <2>2, <2>4, <2>5, <2>6 DEF SubmitSleep
  <2>9. QueueSound'
    <3>1. \A u \in Thread : pc'[u] \in {"resume", "dispatch"} =>
             pc'[u] = pc[u] /\ cur'[u] = cur[u]
      BY <2>4
    <3>2. \A u \in Thread : pc[u] \in {"resume", "dispatch"} => cur[u] # c
      BY <2>1
    <3>3. ready' = ready
      BY <1>6 DEF SubmitSleep
    <3>4. QED  BY <2>1, <2>2, <2>5, <2>6, <3>1, <3>2, <3>3
  <2>10. TimersAreLive' /\ JoinsTracked'
    BY <1>6, <2>1, <2>2 DEF SubmitSleep
  <2>11. QED  BY <2>3, <2>7, <2>8, <2>9, <2>10
<1>7. ASSUME NEW t \in Thread, SubmitElapsedSleep(t) PROVE Structure'
  <2> DEFINE c == cur[t]
  <2>1. /\ pc[t] = "submit" /\ co[c] = "retained" /\ c \in Coro
        /\ Leave(t) /\ driver' = driver
    BY <1>7 DEF SubmitElapsedSleep, InSubmit
  <2>2. co' = [co EXCEPT ![cur[t]] = "queued"]
    BY <1>7 DEF SubmitElapsedSleep, EnqueueReady
  <2>3. BodiesSound' /\ DriverSound'
    <3>1. TypeOK /\ BodiesSound /\ DriverSound
      OBVIOUS
    <3> HIDE DEF TypeOK, BodiesSound, DriverSound, Structure
    <3>2. QED  BY <2>1, <2>2, <3>1, LeaveKeepsBodies
  <2>4. /\ \A u \in Thread \ {t} : pc'[u] = pc[u] /\ cur'[u] = cur[u]
        /\ pc'[t] \in {"finish", "idle"}
    BY <2>1, LeaveEffect
  <2>5. \A d \in Coro \ {c} : co'[d] = co[d]
    BY <2>2
  <2>6. c \notin batch /\ c \notin Elems(ready) /\ Elems(ready) \subseteq Coro
    BY <2>1, ElemsInSet
  <2>7. CancelsSound' /\ IoSound'
    BY <1>7, <2>1, <2>2, <2>5 DEF SubmitElapsedSleep
  <2>8. BatchSound'
    BY <1>7, <2>1, <2>2, <2>4, <2>5, <2>6 DEF SubmitElapsedSleep, EnqueueReady
  <2>9. QueueSound'
    <3>1. \A u \in Thread : pc'[u] \in {"resume", "dispatch"} =>
             pc'[u] = pc[u] /\ cur'[u] = cur[u]
      BY <2>4
    <3>2. \A u \in Thread : pc[u] \in {"resume", "dispatch"} => cur[u] # c
      BY <2>1
    <3>3. Elems(ready') = Elems(ready) \cup {c} /\ Distinct(ready')
      BY <1>7, <2>1, <2>6, AppendElems DEF SubmitElapsedSleep, EnqueueReady
    <3>4. QED  BY <2>1, <2>2, <2>5, <2>6, <3>1, <3>2, <3>3
  <2>10. TimersAreLive' /\ JoinsTracked'
    BY <1>7, <2>1, <2>2 DEF SubmitElapsedSleep
  <2>11. QED  BY <2>3, <2>7, <2>8, <2>9, <2>10
<1>8. ASSUME NEW t \in Thread, SubmitOp(t) PROVE Structure'
  <2> DEFINE c == cur[t]
  <2>1. /\ pc[t] = "submit" /\ co[c] = "retained" /\ c \in Coro
        /\ Leave(t) /\ driver' = driver
    BY <1>8 DEF SubmitOp, InSubmit
  <2>2. \E s \in {"io", "waiting"} : co' = [co EXCEPT ![cur[t]] = s]
    BY <1>8 DEF SubmitOp
  <2>3. BodiesSound' /\ DriverSound'
    <3>1. TypeOK /\ BodiesSound /\ DriverSound
      OBVIOUS
    <3> HIDE DEF TypeOK, BodiesSound, DriverSound, Structure
    <3>2. QED  BY <2>1, <2>2, <3>1, LeaveKeepsBodies
  <2>4. /\ \A u \in Thread \ {t} : pc'[u] = pc[u] /\ cur'[u] = cur[u]
        /\ pc'[t] \in {"finish", "idle"}
    BY <2>1, LeaveEffect
  <2>5. \A d \in Coro \ {c} : co'[d] = co[d]
    BY <2>2
  <2>6. c \notin batch /\ c \notin Elems(ready) /\ Elems(ready) \subseteq Coro
    BY <2>1, ElemsInSet
  <2>7. CancelsSound' /\ IoSound'
    BY <1>8, <2>1, <2>2, <2>5 DEF SubmitOp
  <2>8. BatchSound'
    BY <1>8, <2>1, <2>2, <2>4, <2>5, <2>6 DEF SubmitOp
  <2>9. QueueSound'
    <3>1. \A u \in Thread : pc'[u] \in {"resume", "dispatch"} =>
             pc'[u] = pc[u] /\ cur'[u] = cur[u]
      BY <2>4
    <3>2. \A u \in Thread : pc[u] \in {"resume", "dispatch"} => cur[u] # c
      BY <2>1
    <3>3. ready' = ready
      BY <1>8 DEF SubmitOp
    <3>4. QED  BY <2>1, <2>2, <2>5, <2>6, <3>1, <3>2, <3>3
  <2>10. TimersAreLive' /\ JoinsTracked'
    BY <1>8, <2>1, <2>2 DEF SubmitOp
  <2>11. QED  BY <2>3, <2>7, <2>8, <2>9, <2>10
<1>9. ASSUME NEW t \in Thread, SubmitFails(t) PROVE Structure'
  BY <1>9 DEF SubmitFails, InSubmit, Quiet, ReleaseWork, Signal
<1>10. ASSUME NEW t \in Thread, JoinUntracked(t) PROVE Structure'
  <2> DEFINE c == cur[t]
  <2>1. /\ pc[t] = "body" /\ co[c] = "running" /\ c \in Coro
        /\ Leave(t) /\ driver' = driver
    BY <1>10 DEF JoinUntracked, InBody
  <2>2. co' = [co EXCEPT ![cur[t]] = "untracked"]
    BY <1>10 DEF JoinUntracked
  <2>3. BodiesSound' /\ DriverSound'
    <3>1. TypeOK /\ BodiesSound /\ DriverSound
      OBVIOUS
    <3> HIDE DEF TypeOK, BodiesSound, DriverSound, Structure
    <3>2. QED  BY <2>1, <2>2, <3>1, LeaveKeepsBodies
  <2>4. /\ \A u \in Thread \ {t} : pc'[u] = pc[u] /\ cur'[u] = cur[u]
        /\ pc'[t] \in {"finish", "idle"}
    BY <2>1, LeaveEffect
  <2>5. \A d \in Coro \ {c} : co'[d] = co[d]
    BY <2>2
  <2>6. c \notin batch /\ c \notin Elems(ready) /\ Elems(ready) \subseteq Coro
    BY <2>1, ElemsInSet
  <2>7. CancelsSound' /\ IoSound'
    BY <1>10, <2>1, <2>2, <2>5 DEF JoinUntracked
  <2>8. BatchSound'
    BY <1>10, <2>1, <2>2, <2>4, <2>5, <2>6 DEF JoinUntracked
  <2>9. QueueSound'
    <3>1. \A u \in Thread : pc'[u] \in {"resume", "dispatch"} =>
             pc'[u] = pc[u] /\ cur'[u] = cur[u]
      BY <2>4
    <3>2. \A u \in Thread : pc[u] \in {"resume", "dispatch"} => cur[u] # c
      BY <2>1
    <3>3. ready' = ready
      BY <1>10 DEF JoinUntracked
    <3>4. QED  BY <2>1, <2>2, <2>5, <2>6, <3>1, <3>2, <3>3
  <2>10. TimersAreLive' /\ JoinsTracked'
    BY <1>10, <2>1, <2>2 DEF JoinUntracked
  <2>11. QED  BY <2>3, <2>7, <2>8, <2>9, <2>10
<1>11. ASSUME NEW t \in Thread, Park(t) PROVE Structure'
  <2> DEFINE c == cur[t]
  <2>1. /\ pc[t] = "body" /\ co[c] = "running" /\ c \in Coro
        /\ Leave(t) /\ driver' = driver
    BY <1>11 DEF Park, InBody
  <2>2. co' = [co EXCEPT ![cur[t]] = "parked"]
    BY <1>11 DEF Park
  <2>3. BodiesSound' /\ DriverSound'
    <3>1. TypeOK /\ BodiesSound /\ DriverSound
      OBVIOUS
    <3> HIDE DEF TypeOK, BodiesSound, DriverSound, Structure
    <3>2. QED  BY <2>1, <2>2, <3>1, LeaveKeepsBodies
  <2>4. /\ \A u \in Thread \ {t} : pc'[u] = pc[u] /\ cur'[u] = cur[u]
        /\ pc'[t] \in {"finish", "idle"}
    BY <2>1, LeaveEffect
  <2>5. \A d \in Coro \ {c} : co'[d] = co[d]
    BY <2>2
  <2>6. c \notin batch /\ c \notin Elems(ready) /\ Elems(ready) \subseteq Coro
    BY <2>1, ElemsInSet
  <2>7. CancelsSound' /\ IoSound'
    BY <1>11, <2>1, <2>2, <2>5 DEF Park
  <2>8. BatchSound'
    BY <1>11, <2>1, <2>2, <2>4, <2>5, <2>6 DEF Park
  <2>9. QueueSound'
    <3>1. \A u \in Thread : pc'[u] \in {"resume", "dispatch"} =>
             pc'[u] = pc[u] /\ cur'[u] = cur[u]
      BY <2>4
    <3>2. \A u \in Thread : pc[u] \in {"resume", "dispatch"} => cur[u] # c
      BY <2>1
    <3>3. ready' = ready
      BY <1>11 DEF Park
    <3>4. QED  BY <2>1, <2>2, <2>5, <2>6, <3>1, <3>2, <3>3
  <2>10. TimersAreLive' /\ JoinsTracked'
    BY <1>11, <2>1, <2>2 DEF Park
  <2>11. QED  BY <2>3, <2>7, <2>8, <2>9, <2>10
<1>12. ASSUME NEW t \in Thread, Return(t) PROVE Structure'
  <2> DEFINE c == cur[t]
  <2>1. /\ pc[t] = "body" /\ co[c] = "running" /\ c \in Coro
        /\ Leave(t) /\ driver' = driver
    BY <1>12 DEF Return, InBody
  <2>2. co' = [co EXCEPT ![cur[t]] = "done"]
    BY <1>12 DEF Return
  <2>3. BodiesSound' /\ DriverSound'
    <3>1. TypeOK /\ BodiesSound /\ DriverSound
      OBVIOUS
    <3> HIDE DEF TypeOK, BodiesSound, DriverSound, Structure
    <3>2. QED  BY <2>1, <2>2, <3>1, LeaveKeepsBodies
  <2>4. /\ \A u \in Thread \ {t} : pc'[u] = pc[u] /\ cur'[u] = cur[u]
        /\ pc'[t] \in {"finish", "idle"}
    BY <2>1, LeaveEffect
  <2>5. \A d \in Coro \ {c} : co'[d] = co[d]
    BY <2>2
  <2>6. c \notin batch /\ c \notin Elems(ready) /\ Elems(ready) \subseteq Coro
    BY <2>1, ElemsInSet
  <2>7. CancelsSound' /\ IoSound'
    BY <1>12, <2>1, <2>2, <2>5 DEF Return
  <2>8. BatchSound'
    BY <1>12, <2>1, <2>2, <2>4, <2>5, <2>6 DEF Return
  <2>9. QueueSound'
    <3>1. \A u \in Thread : pc'[u] \in {"resume", "dispatch"} =>
             pc'[u] = pc[u] /\ cur'[u] = cur[u]
      BY <2>4
    <3>2. \A u \in Thread : pc[u] \in {"resume", "dispatch"} => cur[u] # c
      BY <2>1
    <3>3. ready' = ready
      BY <1>12 DEF Return
    <3>4. QED  BY <2>1, <2>2, <2>5, <2>6, <3>1, <3>2, <3>3
  <2>10. TimersAreLive' /\ JoinsTracked'
    BY <1>12, <2>1, <2>2 DEF Return
  <2>11. QED  BY <2>3, <2>7, <2>8, <2>9, <2>10
<1>13. ASSUME NEW t \in Thread, RunCollect(t) PROVE Structure'
  BY <1>13 DEF RunCollect, AtLoop, Quiet, Expired, Disarmed
<1>14. ASSUME NEW t \in Thread, RunPop(t) PROVE Structure'
  BY <1>14, TailElems DEF RunPop, AtLoop, Quiet, PopReady
<1>15. ASSUME NEW t \in Thread, RunReturn(t) PROVE Structure'
  BY <1>15 DEF RunReturn, AtLoop, Quiet
<1>16. ASSUME NEW t \in Thread, RunBlock(t) PROVE Structure'
  BY <1>16 DEF RunBlock, AtLoop, Quiet
<1>17. ASSUME NEW t \in Thread, CvRecheck(t) PROVE Structure'
  BY <1>17 DEF CvRecheck, WaitOver
<1>18. ASSUME NEW t \in Thread, CvTimeout(t) PROVE Structure'
  BY <1>18 DEF CvTimeout
<1>19. ASSUME NEW t \in Thread, Poll(t) PROVE Structure'
  BY <1>19 DEF Poll
<1>20. ASSUME NEW t \in Thread, RunOnePop(t) PROVE Structure'
  <2>1. t = driver /\ pc[t] = "loop" /\ batch = {} /\ cur[t] = NoCoro
    BY <1>20 DEF RunOnePop, AtLoop
  <2>2. /\ Head(ready) \in Elems(ready) /\ co[Head(ready)] = "queued"
        /\ Elems(ready') = Elems(ready) \ {Head(ready)} /\ Distinct(ready')
    BY <1>20, TailElems DEF RunOnePop, PopReady
  <2>3. Head(ready) \in Coro /\ cur' = [cur EXCEPT ![t] = Head(ready)]
    BY <1>20, <2>2 DEF RunOnePop, PopReady, Elems
  <2>4. /\ pc' = [pc EXCEPT ![t] = IF Expired = {} THEN "resume" ELSE "dispatch"]
        /\ \A c \in batch' : timer'[c] = Never /\ timer[c] # Never
        /\ batch' # {} => Expired # {}
    BY <1>20 DEF RunOnePop, Expired, Disarmed
  <2>5. BodiesSound' /\ CancelsSound' /\ IoSound' /\ JoinsTracked' /\ DriverSound'
    BY <1>20, <2>1, <2>3, <2>4 DEF RunOnePop
  <2>6. QueueSound'
    BY <1>20, <2>1, <2>2, <2>3, <2>4 DEF RunOnePop
  <2>7. BatchSound'
    <3>1. batch' = Expired /\ timer' = Disarmed
      BY <1>20 DEF RunOnePop
    <3>2. \A c \in batch' : co'[c] = "sleeping" /\ timer'[c] = Never /\ c \notin ioready'
      BY <1>20, <3>1, <2>4 DEF RunOnePop, Expired
    <3>3. batch' # {} => driver' = t /\ pc'[t] = "dispatch"
      BY <1>20, <2>1, <2>4 DEF RunOnePop
    <3>4. QED  BY <3>2, <3>3
  <2>8. TimersAreLive'
    BY <1>20 DEF RunOnePop, Disarmed
  <2>9. QED  BY <2>5, <2>6, <2>7, <2>8
<1>21. ASSUME NEW t \in Thread, RunOnePoll(t) PROVE Structure'
  BY <1>21 DEF RunOnePoll, AtLoop, Quiet, Expired, Disarmed
<1>22. ASSUME NEW t \in Thread, RunOneReturn(t) PROVE Structure'
  BY <1>22 DEF RunOneReturn, AtLoop, Quiet, Expired, Disarmed
<1>23. ASSUME NEW t \in Thread, Dispatch(t) PROVE Structure'
  <2>1. PICK c \in batch :
           /\ batch' = batch \ {c}
           /\ IF resolved[c] THEN UNCHANGED <<ready, co, resolved, tail>>
              ELSE EnqueueReady(t, c) /\ resolved' = [resolved EXCEPT ![c] = TRUE]
    BY <1>23 DEF Dispatch
  <2>2. CASE resolved[c]
    BY <1>23, <2>1, <2>2 DEF Dispatch
  <2>3. CASE ~resolved[c]
    <3>1. /\ c \in Coro /\ co[c] \in {"sleeping", "io"} /\ timer[c] = Never
          /\ c \notin ioready /\ c \notin Elems(ready)
          /\ co' = [co EXCEPT ![c] = "queued"] /\ ready' = Append(ready, c)
          /\ resolved' = [resolved EXCEPT ![c] = TRUE]
      BY <2>1, <2>3 DEF EnqueueReady
    <3>2. Elems(ready') = Elems(ready) \cup {c} /\ Distinct(ready')
      BY <3>1, AppendElems
    <3>3. BodiesSound' /\ CancelsSound' /\ IoSound' /\ TimersAreLive' /\ DriverSound' /\ JoinsTracked'
      BY <1>23, <2>3, <3>1 DEF Dispatch
    <3>4. QueueSound' /\ BatchSound'
      BY <1>23, <2>1, <3>1, <3>2 DEF Dispatch
    <3>5. QED  BY <3>3, <3>4
  <2>4. QED  BY <2>2, <2>3
<1>24. ASSUME NEW t \in Thread, DispatchDone(t) PROVE Structure'
  BY <1>24 DEF DispatchDone, Quiet
<1>25. ASSUME NEW t \in Thread, Resume(t) PROVE Structure'
  BY <1>25 DEF Resume
<1>26. ASSUME NEW t \in Thread, FinishReadyItem(t) PROVE Structure'
  BY <1>26 DEF FinishReadyItem, Quiet, ReleaseWork, Signal
<1>27. ASSUME NEW t \in Thread, EndDrive(t) PROVE Structure'
  BY <1>27 DEF EndDrive, Quiet
<1>28. ASSUME NEW t \in Thread, NEW e \in Entry, BeginDrive(t, e) PROVE Structure'
  BY <1>28 DEF BeginDrive, Quiet
<1>29. ASSUME NEW t \in Thread, Stop(t) PROVE Structure'
  BY <1>29 DEF Stop, Free, Quiet, Signal
<1>30. ASSUME NEW t \in Thread, NEW b \in {"none", "user"}, SetCompletionBackend(t, b) PROVE Structure'
  BY <1>30 DEF SetCompletionBackend, Free, Quiet
<1>31. ASSUME NEW t \in Thread, NEW c \in Coro, Post(t, c) PROVE Structure'
  BY <1>31, AppendElems, SMTT(30) DEF Post, Free, Quiet, EnqueueReady, Signal
<1>32. ASSUME NEW t \in Thread, NEW c \in Coro, SpawnTask(t, c) PROVE Structure'
  BY <1>32, AppendElems DEF SpawnTask, Free, Quiet, EnqueueReady, Signal
<1>33. ASSUME NEW t \in Thread, NEW c \in Coro, Host(t, c) PROVE Structure'
  BY <1>33 DEF Host, Quiet
<1>34. ASSUME NEW t \in Thread, NEW c \in Coro, CancelSleep(t, c) PROVE Structure'
  BY <1>34 DEF CancelSleep, Free, Quiet
<1>35. ASSUME NEW t \in Thread, NEW c \in Coro, Complete(t, c) PROVE Structure'
  BY <1>35, AppendElems DEF Complete, Free, Quiet, EnqueueReady, Signal
<1>36. ASSUME NEW t \in Thread, SpuriousWake(t) PROVE Structure'
  BY <1>36 DEF SpuriousWake
<1>37. ASSUME NEW c \in Coro, IoEvent(c) PROVE Structure'
  BY <1>37 DEF IoEvent
<1>38. ASSUME Tick PROVE Structure'
  BY <1>38 DEF Tick
<1> HIDE DEF TypeOK, Structure, queue, control, frame, threads, coros, io
<1>39. QED
  BY <1>1, <1>2, <1>3, <1>4, <1>5, <1>6, <1>7, <1>8, <1>9, <1>10, <1>11, <1>12, <1>13,
     <1>14, <1>15, <1>16, <1>17, <1>18, <1>19, <1>20, <1>21, <1>22, <1>23, <1>24, <1>25,
     <1>26, <1>27, <1>28, <1>29, <1>30, <1>31, <1>32, <1>33, <1>34, <1>35, <1>36, <1>37,
     <1>38 DEF Next, Continue, Call

-----------------------------------------------------------------------------
(* Accounting of pending work.                                             *)

\* How the number of counted coroutines changes when one coroutine moves.
LEMMA CountMove ==
  ASSUME TypeOK, NEW c \in Coro, NEW s \in CoroState, co' = [co EXCEPT ![c] = s]
  PROVE  /\ Cardinality(Counted) \in Nat
         /\ co[c] \in Tracked /\ s \in Tracked => Cardinality(Counted)' = Cardinality(Counted)
         /\ co[c] \in Tracked /\ s \notin Tracked => Cardinality(Counted)' = Cardinality(Counted) - 1
         /\ co[c] \notin Tracked /\ s \in Tracked => Cardinality(Counted)' = Cardinality(Counted) + 1
         /\ co[c] \notin Tracked /\ s \notin Tracked => Cardinality(Counted)' = Cardinality(Counted)
         /\ co[c] \in Tracked => Cardinality(Counted) > 0
<1>1. IsFiniteSet(Counted)
  BY RuntimeAssumption, FS_Subset DEF Counted
<1>2. Cardinality(Counted) \in Nat /\ (Cardinality(Counted) = 0 <=> Counted = {})
  BY <1>1, FS_CardinalityType, FS_EmptySet
<1>3. Counted' = IF s \in Tracked THEN Counted \cup {c} ELSE Counted \ {c}
  BY DEF Counted, TypeOK
<1>4. c \in Counted <=> co[c] \in Tracked
  BY DEF Counted
<1>5. Cardinality(Counted \cup {c}) = IF c \in Counted THEN Cardinality(Counted) ELSE Cardinality(Counted) + 1
  BY <1>1, FS_AddElement
<1>6. Cardinality(Counted \ {c}) = IF c \in Counted THEN Cardinality(Counted) - 1 ELSE Cardinality(Counted)
  BY <1>1, FS_RemoveElement
<1>7. CASE s \in Tracked
  BY <1>2, <1>3, <1>4, <1>5, <1>7
<1>8. CASE s \notin Tracked
  BY <1>2, <1>3, <1>4, <1>6, <1>8
<1>9. QED  BY <1>7, <1>8

\* Steps that neither move a coroutine nor touch pending_work_.
LEMMA AccountStays ==
  ASSUME WorkAccounted, co' = co, pending' = pending, Executing' = Executing
  PROVE  WorkAccounted'
BY DEF WorkAccounted, Counted

LEMMA WorkAccountedInit == Init => WorkAccounted
<1> SUFFICES ASSUME Init PROVE WorkAccounted
  OBVIOUS
<1>1. Counted = {} /\ ~Executing /\ pending = 0
  BY DEF Init, Counted, Tracked, Executing
<1>2. QED  BY <1>1, FS_EmptySet DEF WorkAccounted

LEMMA WorkAccountedStep ==
  ASSUME TypeOK, Structure, "join" \notin Await, WorkAccounted, [Next]_vars
  PROVE  WorkAccounted'
<1> USE DEF queue, control, frame, threads, coros, io
<1> SUFFICES ASSUME Next PROVE WorkAccounted'
  BY DEF vars, WorkAccounted, Counted, Executing
<1>1. ASSUME NEW t \in Thread, Notify(t) PROVE WorkAccounted'
  <2>1. co' = co /\ pending' = pending
    BY <1>1 DEF Notify
  <2>2. Executing' = Executing
    BY <1>1, RuntimeAssumption DEF Notify, Executing, DrivePc, TypeOK, Structure,
       DriverSound
  <2>3. QED  BY <2>1, <2>2, AccountStays
<1>2. ASSUME NEW t \in Thread, Wake(t) PROVE WorkAccounted'
  <2>1. co' = co /\ pending' = pending
    BY <1>2 DEF Wake
  <2>2. Executing' = Executing
    BY <1>2, RuntimeAssumption DEF Wake, Executing, DrivePc, TypeOK, Structure,
       DriverSound
  <2>3. QED  BY <2>1, <2>2, AccountStays
<1>3. ASSUME NEW t \in Thread, CancelTimer(t) PROVE WorkAccounted'
  <2>1. co' = co /\ pending' = pending
    BY <1>3 DEF CancelTimer, Signal
  <2>2. Executing' = Executing
    BY <1>3, RuntimeAssumption DEF CancelTimer, Executing
  <2>3. QED  BY <2>1, <2>2, AccountStays
<1>4. ASSUME NEW t \in Thread, CancelComplete(t) PROVE WorkAccounted'
  <2>1. /\ cancelling[t] \in Coro /\ co[cancelling[t]] = "sleeping"
        /\ co' = [co EXCEPT ![cancelling[t]] = "queued"]
    BY <1>4 DEF CancelComplete, EnqueueReady, TypeOK, Structure, CancelsSound
  <2>2. pending' = pending
    BY <1>4 DEF CancelComplete, Signal, EnqueueReady
  <2>3. Executing' = Executing
    BY <1>4, RuntimeAssumption, LeaveEffect DEF CancelComplete, Executing
  <2>4. /\ Cardinality(Counted) \in Nat
        /\ Cardinality(Counted)' = Cardinality(Counted)
        /\ Cardinality(Counted) > 0
    <3>1. "sleeping" \in Tracked /\ "queued" \in Tracked
          /\ "queued" \in CoroState
      BY DEF Tracked, CoroState
    <3>2. QED  BY <2>1, <3>1, CountMove
  <2>5. QED  BY <2>2, <2>3, <2>4 DEF WorkAccounted
<1>5. ASSUME NEW t \in Thread, RetainWork(t) PROVE WorkAccounted'
  <2>1. /\ cur[t] \in Coro /\ co[cur[t]] = "running"
        /\ co' = [co EXCEPT ![cur[t]] = "retained"]
    BY <1>5 DEF RetainWork, InBody, TypeOK, Structure, BodiesSound
  <2>2. pending' = pending + 1
    BY <1>5 DEF RetainWork, InBody, Quiet
  <2>3. Executing' = Executing
    BY <1>5, RuntimeAssumption, LeaveEffect DEF RetainWork, InBody, Executing
  <2>4. /\ Cardinality(Counted) \in Nat
        /\ Cardinality(Counted)' = Cardinality(Counted) + 1
    <3>1. "running" \notin Tracked /\ "retained" \in Tracked
          /\ "retained" \in CoroState
      BY DEF Tracked, CoroState
    <3>2. QED  BY <2>1, <3>1, CountMove
  <2>5. QED  BY <2>2, <2>3, <2>4 DEF WorkAccounted
<1>6. ASSUME NEW t \in Thread, SubmitSleep(t) PROVE WorkAccounted'
  <2>1. /\ cur[t] \in Coro /\ co[cur[t]] = "retained"
        /\ co' = [co EXCEPT ![cur[t]] = "sleeping"]
    BY <1>6 DEF SubmitSleep, InSubmit, TypeOK, Structure, BodiesSound
  <2>2. pending' = pending
    BY <1>6 DEF SubmitSleep, InSubmit, Quiet, Signal, Leave
  <2>3. Executing' = Executing
    BY <1>6, RuntimeAssumption, LeaveEffect DEF SubmitSleep, InSubmit, Executing, TypeOK
  <2>4. /\ Cardinality(Counted) \in Nat
        /\ Cardinality(Counted)' = Cardinality(Counted)
        /\ Cardinality(Counted) > 0
    <3>1. "retained" \in Tracked /\ "sleeping" \in Tracked
          /\ "sleeping" \in CoroState
      BY DEF Tracked, CoroState
    <3>2. QED  BY <2>1, <3>1, CountMove
  <2>5. QED  BY <2>2, <2>3, <2>4 DEF WorkAccounted
<1>7. ASSUME NEW t \in Thread, SubmitElapsedSleep(t) PROVE WorkAccounted'
  <2>1. /\ cur[t] \in Coro /\ co[cur[t]] = "retained"
        /\ co' = [co EXCEPT ![cur[t]] = "queued"]
    BY <1>7 DEF SubmitElapsedSleep, InSubmit, EnqueueReady, TypeOK, Structure, BodiesSound
  <2>2. pending' = pending
    BY <1>7 DEF SubmitElapsedSleep, InSubmit, Quiet, EnqueueReady, Signal, Leave
  <2>3. Executing' = Executing
    BY <1>7, RuntimeAssumption, LeaveEffect DEF SubmitElapsedSleep, InSubmit, Executing,
       TypeOK
  <2>4. /\ Cardinality(Counted) \in Nat
        /\ Cardinality(Counted)' = Cardinality(Counted)
        /\ Cardinality(Counted) > 0
    <3>1. "retained" \in Tracked /\ "queued" \in Tracked
          /\ "queued" \in CoroState
      BY DEF Tracked, CoroState
    <3>2. QED  BY <2>1, <3>1, CountMove
  <2>5. QED  BY <2>2, <2>3, <2>4 DEF WorkAccounted
<1>8. ASSUME NEW t \in Thread, SubmitOp(t) PROVE WorkAccounted'
  <2>1. PICK s \in {"io", "waiting"} : co' = [co EXCEPT ![cur[t]] = s]
    BY <1>8 DEF SubmitOp
  <2>2. cur[t] \in Coro /\ co[cur[t]] = "retained"
    BY <1>8 DEF SubmitOp, InSubmit, TypeOK, Structure, BodiesSound
  <2>3. pending' = pending /\ Executing' = Executing
    BY <1>8, RuntimeAssumption DEF SubmitOp, InSubmit, Leave, Executing, TypeOK
  <2>4. /\ Cardinality(Counted) \in Nat
        /\ Cardinality(Counted)' = Cardinality(Counted)
    <3>1. {"retained", "io", "waiting"} \subseteq Tracked \cap CoroState
      BY DEF Tracked, CoroState
    <3>2. QED  BY <2>1, <2>2, <3>1, CountMove
  <2>5. QED  BY <2>3, <2>4 DEF WorkAccounted
<1>9. ASSUME NEW t \in Thread, SubmitFails(t) PROVE WorkAccounted'
  <2>1. /\ cur[t] \in Coro /\ co[cur[t]] = "retained"
        /\ co' = [co EXCEPT ![cur[t]] = "running"]
    BY <1>9 DEF SubmitFails, InSubmit, TypeOK, Structure, BodiesSound
  <2>2. pending' = (IF pending > 0 THEN pending - 1 ELSE 0)
    BY <1>9 DEF SubmitFails, InSubmit, Quiet, ReleaseWork, Signal
  <2>3. Executing' = Executing
    BY <1>9, RuntimeAssumption, LeaveEffect DEF SubmitFails, InSubmit, Executing
  <2>4. /\ Cardinality(Counted) \in Nat
        /\ Cardinality(Counted)' = Cardinality(Counted) - 1
        /\ Cardinality(Counted) > 0
    <3>1. "retained" \in Tracked /\ "running" \notin Tracked
          /\ "running" \in CoroState
      BY DEF Tracked, CoroState
    <3>2. QED  BY <2>1, <3>1, CountMove
  <2>5. QED  BY <2>2, <2>3, <2>4 DEF WorkAccounted
<1>10. ASSUME NEW t \in Thread, JoinUntracked(t) PROVE WorkAccounted'
  BY <1>10 DEF JoinUntracked
<1>11. ASSUME NEW t \in Thread, Park(t) PROVE WorkAccounted'
  <2>1. /\ cur[t] \in Coro /\ co[cur[t]] = "running"
        /\ co' = [co EXCEPT ![cur[t]] = "parked"]
    BY <1>11 DEF Park, InBody, TypeOK, Structure, BodiesSound
  <2>2. pending' = pending
    BY <1>11 DEF Park, InBody, Quiet, Leave
  <2>3. Executing' = Executing
    BY <1>11, RuntimeAssumption, LeaveEffect DEF Park, InBody, Executing, TypeOK
  <2>4. /\ Cardinality(Counted) \in Nat
        /\ Cardinality(Counted)' = Cardinality(Counted)
    <3>1. "running" \notin Tracked /\ "parked" \notin Tracked
          /\ "parked" \in CoroState
      BY DEF Tracked, CoroState
    <3>2. QED  BY <2>1, <3>1, CountMove
  <2>5. QED  BY <2>2, <2>3, <2>4 DEF WorkAccounted
<1>12. ASSUME NEW t \in Thread, Return(t) PROVE WorkAccounted'
  <2>1. /\ cur[t] \in Coro /\ co[cur[t]] = "running"
        /\ co' = [co EXCEPT ![cur[t]] = "done"]
    BY <1>12 DEF Return, InBody, TypeOK, Structure, BodiesSound
  <2>2. pending' = pending
    BY <1>12 DEF Return, InBody, Quiet, Leave
  <2>3. Executing' = Executing
    BY <1>12, RuntimeAssumption, LeaveEffect DEF Return, InBody, Executing, TypeOK
  <2>4. /\ Cardinality(Counted) \in Nat
        /\ Cardinality(Counted)' = Cardinality(Counted)
    <3>1. "running" \notin Tracked /\ "done" \notin Tracked
          /\ "done" \in CoroState
      BY DEF Tracked, CoroState
    <3>2. QED  BY <2>1, <3>1, CountMove
  <2>5. QED  BY <2>2, <2>3, <2>4 DEF WorkAccounted
<1>13. ASSUME NEW t \in Thread, RunCollect(t) PROVE WorkAccounted'
  <2>1. co' = co /\ pending' = pending
    BY <1>13 DEF RunCollect, AtLoop, Quiet, Expired, Disarmed
  <2>2. Executing' = Executing
    BY <1>13, RuntimeAssumption DEF RunCollect, AtLoop, Executing
  <2>3. QED  BY <2>1, <2>2, AccountStays
<1>14. ASSUME NEW t \in Thread, RunPop(t) PROVE WorkAccounted'
  <2>1. co' = co /\ pending' = pending
    BY <1>14 DEF RunPop, AtLoop, Quiet, PopReady
  <2>2. Executing' = Executing
    BY <1>14, RuntimeAssumption DEF RunPop, AtLoop, Executing
  <2>3. QED  BY <2>1, <2>2, AccountStays
<1>15. ASSUME NEW t \in Thread, RunReturn(t) PROVE WorkAccounted'
  <2>1. co' = co /\ pending' = pending
    BY <1>15 DEF RunReturn, AtLoop, Quiet
  <2>2. Executing' = Executing
    BY <1>15, RuntimeAssumption DEF RunReturn, AtLoop, Executing
  <2>3. QED  BY <2>1, <2>2, AccountStays
<1>16. ASSUME NEW t \in Thread, RunBlock(t) PROVE WorkAccounted'
  <2>1. co' = co /\ pending' = pending
    BY <1>16 DEF RunBlock, AtLoop, Quiet
  <2>2. Executing' = Executing
    BY <1>16, RuntimeAssumption DEF RunBlock, AtLoop, Executing
  <2>3. QED  BY <2>1, <2>2, AccountStays
<1>17. ASSUME NEW t \in Thread, CvRecheck(t) PROVE WorkAccounted'
  <2>1. co' = co /\ pending' = pending
    BY <1>17 DEF CvRecheck, WaitOver
  <2>2. Executing' = Executing
    BY <1>17, RuntimeAssumption DEF CvRecheck, Executing
  <2>3. QED  BY <2>1, <2>2, AccountStays
<1>18. ASSUME NEW t \in Thread, CvTimeout(t) PROVE WorkAccounted'
  <2>1. co' = co /\ pending' = pending
    BY <1>18 DEF CvTimeout
  <2>2. Executing' = Executing
    BY <1>18, RuntimeAssumption DEF CvTimeout, Executing, DrivePc, TypeOK, Structure,
       DriverSound
  <2>3. QED  BY <2>1, <2>2, AccountStays
<1>19. ASSUME NEW t \in Thread, Poll(t) PROVE WorkAccounted'
  <2>1. co' = co /\ pending' = pending
    BY <1>19 DEF Poll
  <2>2. Executing' = Executing
    BY <1>19, RuntimeAssumption DEF Poll, Executing, DrivePc, TypeOK, Structure,
       DriverSound
  <2>3. QED  BY <2>1, <2>2, AccountStays
<1>20. ASSUME NEW t \in Thread, RunOnePop(t) PROVE WorkAccounted'
  <2>1. co' = co /\ pending' = pending
    BY <1>20 DEF RunOnePop, AtLoop, Quiet, PopReady, Expired, Disarmed
  <2>2. Executing' = Executing
    BY <1>20, RuntimeAssumption DEF RunOnePop, AtLoop, Executing
  <2>3. QED  BY <2>1, <2>2, AccountStays
<1>21. ASSUME NEW t \in Thread, RunOnePoll(t) PROVE WorkAccounted'
  <2>1. co' = co /\ pending' = pending
    BY <1>21 DEF RunOnePoll, AtLoop, Quiet, Expired, Disarmed
  <2>2. Executing' = Executing
    BY <1>21, RuntimeAssumption DEF RunOnePoll, AtLoop, Executing
  <2>3. QED  BY <2>1, <2>2, AccountStays
<1>22. ASSUME NEW t \in Thread, RunOneReturn(t) PROVE WorkAccounted'
  <2>1. co' = co /\ pending' = pending
    BY <1>22 DEF RunOneReturn, AtLoop, Quiet, Expired, Disarmed
  <2>2. Executing' = Executing
    BY <1>22, RuntimeAssumption DEF RunOneReturn, AtLoop, Executing
  <2>3. QED  BY <2>1, <2>2, AccountStays
<1>23. ASSUME NEW t \in Thread, Dispatch(t) PROVE WorkAccounted'
  <2>1. PICK c \in batch :
           IF resolved[c] THEN co' = co ELSE co' = [co EXCEPT ![c] = "queued"]
    BY <1>23 DEF Dispatch, EnqueueReady
  <2>2. pending' = pending /\ Executing' = Executing
    BY <1>23 DEF Dispatch, Executing
  <2>3. CASE resolved[c]
    BY <2>1, <2>2, <2>3, AccountStays
  <2>4. CASE ~resolved[c]
    <3>1. c \in Coro /\ co[c] \in {"sleeping", "io"}
      BY <2>4 DEF TypeOK, Structure, BatchSound
    <3>2. {"sleeping", "io", "queued"} \subseteq Tracked \cap CoroState
      BY DEF Tracked, CoroState
    <3>3. Cardinality(Counted)' = Cardinality(Counted)
      BY <2>1, <2>4, <3>1, <3>2, CountMove
    <3>4. QED  BY <2>2, <3>3 DEF WorkAccounted
  <2>5. QED  BY <2>3, <2>4
<1>24. ASSUME NEW t \in Thread, DispatchDone(t) PROVE WorkAccounted'
  <2>1. co' = co /\ pending' = pending
    BY <1>24 DEF DispatchDone, Quiet
  <2>2. Executing' = Executing
    BY <1>24, RuntimeAssumption DEF DispatchDone, Executing
  <2>3. QED  BY <2>1, <2>2, AccountStays
<1>25. ASSUME NEW t \in Thread, Resume(t) PROVE WorkAccounted'
  <2>1. /\ cur[t] \in Coro /\ co[cur[t]] = "queued"
        /\ co' = [co EXCEPT ![cur[t]] = "running"]
    BY <1>25 DEF Resume, TypeOK, Structure, BodiesSound, CancelsSound, QueueSound
  <2>2. pending' = pending
    BY <1>25 DEF Resume
  <2>3. ~Executing /\ Executing'
    BY <1>25, RuntimeAssumption, LeaveEffect DEF Resume, Executing, TypeOK, Structure,
       BodiesSound, DriverSound
  <2>4. /\ Cardinality(Counted) \in Nat
        /\ Cardinality(Counted)' = Cardinality(Counted) - 1
        /\ Cardinality(Counted) > 0
    <3>1. "queued" \in Tracked /\ "running" \notin Tracked
          /\ "running" \in CoroState
      BY DEF Tracked, CoroState
    <3>2. QED  BY <2>1, <3>1, CountMove
  <2>5. QED  BY <2>2, <2>3, <2>4 DEF WorkAccounted
<1>26. ASSUME NEW t \in Thread, FinishReadyItem(t) PROVE WorkAccounted'
  <2>1. Executing /\ ~Executing'
    BY <1>26, RuntimeAssumption DEF FinishReadyItem, Executing, DrivePc, TypeOK
  <2>2. Counted' = Counted /\ Cardinality(Counted) \in Nat
    BY <1>26, RuntimeAssumption, FS_Subset, FS_CardinalityType DEF FinishReadyItem,
       Counted
  <2>3. pending > 0
    BY <2>1, <2>2 DEF WorkAccounted
  <2>4. pending' = pending - 1
    BY <1>26, <2>3 DEF FinishReadyItem, ReleaseWork
  <2>5. QED  BY <2>1, <2>2, <2>4 DEF WorkAccounted
<1>27. ASSUME NEW t \in Thread, EndDrive(t) PROVE WorkAccounted'
  <2>1. co' = co /\ pending' = pending
    BY <1>27 DEF EndDrive, Quiet
  <2>2. Executing' = Executing
    BY <1>27, RuntimeAssumption DEF EndDrive, Executing, TypeOK
  <2>3. QED  BY <2>1, <2>2, AccountStays
<1>28. ASSUME NEW t \in Thread, NEW e \in Entry, BeginDrive(t, e) PROVE WorkAccounted'
  <2>1. co' = co /\ pending' = pending
    BY <1>28 DEF BeginDrive, Quiet
  <2>2. Executing' = Executing
    BY <1>28, RuntimeAssumption DEF BeginDrive, Executing
  <2>3. QED  BY <2>1, <2>2, AccountStays
<1>29. ASSUME NEW t \in Thread, Stop(t) PROVE WorkAccounted'
  <2>1. co' = co /\ pending' = pending
    BY <1>29 DEF Stop, Free, Quiet, Signal
  <2>2. Executing' = Executing
    BY <1>29, RuntimeAssumption DEF Stop, Executing
  <2>3. QED  BY <2>1, <2>2, AccountStays
<1>30. ASSUME NEW t \in Thread, NEW b \in {"none", "user"}, SetCompletionBackend(t, b) PROVE WorkAccounted'
  <2>1. co' = co /\ pending' = pending
    BY <1>30 DEF SetCompletionBackend, Free, Quiet
  <2>2. Executing' = Executing
    BY <1>30, RuntimeAssumption DEF SetCompletionBackend, Executing
  <2>3. QED  BY <2>1, <2>2, AccountStays
<1>31. ASSUME NEW t \in Thread, NEW c \in Coro, Post(t, c) PROVE WorkAccounted'
  <2>1. /\ c \in Coro
        /\ \/ co[c] = "new" /\ co' = [co EXCEPT ![c] = "queued"]
           \/ co[c] = "parked" /\ co' = [co EXCEPT ![c] = "queued"]
    BY <1>31 DEF Post, EnqueueReady
  <2>2. pending' = pending + 1
    BY <1>31 DEF Post, Free, Quiet, EnqueueReady, Signal
  <2>3. Executing' = Executing
    BY <1>31, RuntimeAssumption, LeaveEffect DEF Post, Executing
  <2>4. /\ Cardinality(Counted) \in Nat
        /\ Cardinality(Counted)' = Cardinality(Counted) + 1
    <3>1. /\ {"queued"} \subseteq Tracked
          /\ \A s \in {"new", "parked"} : s \notin Tracked
          /\ {"queued", "queued"} \subseteq CoroState
      BY DEF Tracked, CoroState
    <3>2. QED  BY <2>1, <3>1, CountMove
  <2>5. QED  BY <2>2, <2>3, <2>4 DEF WorkAccounted
<1>32. ASSUME NEW t \in Thread, NEW c \in Coro, SpawnTask(t, c) PROVE WorkAccounted'
  <2>1. /\ c \in Coro /\ co[c] = "new"
        /\ co' = [co EXCEPT ![c] = "queued"]
    BY <1>32 DEF SpawnTask, EnqueueReady
  <2>2. pending' = pending + 1
    BY <1>32 DEF SpawnTask, Free, Quiet, EnqueueReady, Signal
  <2>3. Executing' = Executing
    BY <1>32, RuntimeAssumption, LeaveEffect DEF SpawnTask, Executing
  <2>4. /\ Cardinality(Counted) \in Nat
        /\ Cardinality(Counted)' = Cardinality(Counted) + 1
    <3>1. "new" \notin Tracked /\ "queued" \in Tracked
          /\ "queued" \in CoroState
      BY DEF Tracked, CoroState
    <3>2. QED  BY <2>1, <3>1, CountMove
  <2>5. QED  BY <2>2, <2>3, <2>4 DEF WorkAccounted
<1>33. ASSUME NEW t \in Thread, NEW c \in Coro, Host(t, c) PROVE WorkAccounted'
  <2>1. /\ c \in Coro /\ co[c] = "new"
        /\ co' = [co EXCEPT ![c] = "running"]
    BY <1>33 DEF Host
  <2>2. pending' = pending
    BY <1>33 DEF Host, Quiet
  <2>3. Executing' = Executing
    BY <1>33, RuntimeAssumption, LeaveEffect DEF Host, Executing, Structure, DriverSound
  <2>4. /\ Cardinality(Counted) \in Nat
        /\ Cardinality(Counted)' = Cardinality(Counted)
    <3>1. "new" \notin Tracked /\ "running" \notin Tracked
          /\ "running" \in CoroState
      BY DEF Tracked, CoroState
    <3>2. QED  BY <2>1, <3>1, CountMove
  <2>5. QED  BY <2>2, <2>3, <2>4 DEF WorkAccounted
<1>34. ASSUME NEW t \in Thread, NEW c \in Coro, CancelSleep(t, c) PROVE WorkAccounted'
  <2>1. co' = co /\ pending' = pending
    BY <1>34 DEF CancelSleep, Free, Quiet
  <2>2. Executing' = Executing
    BY <1>34, RuntimeAssumption DEF CancelSleep, Executing
  <2>3. QED  BY <2>1, <2>2, AccountStays
<1>35. ASSUME NEW t \in Thread, NEW c \in Coro, Complete(t, c) PROVE WorkAccounted'
  <2>1. c \in Coro /\ co[c] = "waiting" /\ co' = [co EXCEPT ![c] = "queued"]
    BY <1>35 DEF Complete, EnqueueReady, Structure, JoinsTracked
  <2>2. pending' = pending /\ Executing' = Executing
    BY <1>35 DEF Complete, Executing
  <2>3. Cardinality(Counted)' = Cardinality(Counted)
    <3>1. {"waiting", "queued"} \subseteq Tracked \cap CoroState
      BY DEF Tracked, CoroState
    <3>2. QED  BY <2>1, <3>1, CountMove
  <2>4. QED  BY <2>2, <2>3 DEF WorkAccounted
<1>36. ASSUME NEW t \in Thread, SpuriousWake(t) PROVE WorkAccounted'
  <2>1. co' = co /\ pending' = pending
    BY <1>36 DEF SpuriousWake
  <2>2. Executing' = Executing
    BY <1>36, RuntimeAssumption DEF SpuriousWake, Executing, DrivePc, TypeOK, Structure,
       DriverSound
  <2>3. QED  BY <2>1, <2>2, AccountStays
<1>37. ASSUME NEW c \in Coro, IoEvent(c) PROVE WorkAccounted'
  <2>1. co' = co /\ pending' = pending
    BY <1>37 DEF IoEvent
  <2>2. Executing' = Executing
    BY <1>37, RuntimeAssumption DEF IoEvent, Executing, DrivePc, TypeOK, Structure,
       DriverSound
  <2>3. QED  BY <2>1, <2>2, AccountStays
<1>38. ASSUME Tick PROVE WorkAccounted'
  <2>1. co' = co /\ pending' = pending
    BY <1>38 DEF Tick
  <2>2. Executing' = Executing
    BY <1>38, RuntimeAssumption DEF Tick, Executing, DrivePc, TypeOK, Structure,
       DriverSound
  <2>3. QED  BY <2>1, <2>2, AccountStays
<1> HIDE DEF TypeOK, Structure, queue, control, frame, threads, coros, io
<1>39. QED
  BY <1>1, <1>2, <1>3, <1>4, <1>5, <1>6, <1>7, <1>8, <1>9, <1>10, <1>11, <1>12, <1>13,
     <1>14, <1>15, <1>16, <1>17, <1>18, <1>19, <1>20, <1>21, <1>22, <1>23, <1>24, <1>25,
     <1>26, <1>27, <1>28, <1>29, <1>30, <1>31, <1>32, <1>33, <1>34, <1>35, <1>36, <1>37,
     <1>38, Zenon DEF Next, Continue, Call

-----------------------------------------------------------------------------
(* The theorems.                                                           *)

\* The inductive invariant holds of every reachable state.
THEOREM InvariantHolds == Spec => []IInv
<1>1. Init => IInv
  BY TypeOKInit, StructureInit, WorkAccountedInit DEF IInv
<1>2. IInv /\ [Next]_vars => IInv'
  <2> SUFFICES ASSUME IInv, [Next]_vars PROVE IInv'
    OBVIOUS
  <2>1. TypeOK' /\ Structure'
    BY TypeOKStep, StructureStep DEF IInv
  <2>2. "join" \notin Await => WorkAccounted'
    BY WorkAccountedStep DEF IInv
  <2>3. QED  BY <2>1, <2>2 DEF IInv
<1>3. QED  BY <1>1, <1>2, PTL DEF Spec

\* pending_work_ is exactly the number of queued continuations, of suspensions
\* that retained work and of items being executed, as long as no coroutine awaits a
\* JoinHandle of Runtime::spawn() outside a scheduler (join_handle.h:86-110).
THEOREM PendingWorkIsExact ==
  ASSUME "join" \notin Await
  PROVE  Spec => []WorkAccounted
<1>1. IInv => WorkAccounted
  BY DEF IInv
<1>2. QED  BY <1>1, InvariantHolds, PTL

\* A timer in the tables always belongs to a suspended sleep.
THEOREM ArmedTimersAreLive == Spec => []TimersAreLive
<1>1. IInv => TimersAreLive
  BY DEF IInv, Structure
<1>2. QED  BY <1>1, InvariantHolds, PTL

\* The only step that takes the driver of run() from the top of the loop to its
\* end is the return that checks stopped_ and pending_work_.
LEMMA OnlyRunReturnEnds ==
  ASSUME TypeOK, Next, NEW t \in Thread,
         pc[t] = "loop", mode = "run", pc'[t] = "end"
  PROVE  RunReturn(t)
<1> USE DEF TypeOK, DrivePc, frame, threads
<1>1. ASSUME NEW u \in Thread,
             \/ Wake(u) \/ CancelTimer(u) \/ CancelComplete(u) \/ Dispatch(u)
             \/ Stop(u)
             \/ \E b \in {"none", "user"} : SetCompletionBackend(u, b)
             \/ \E c \in Coro : \/ Post(u, c) \/ SpawnTask(u, c)
                                \/ CancelSleep(u, c) \/ Complete(u, c)
      PROVE  FALSE
  <2>1. pc' = pc
    BY <1>1 DEF Wake, CancelTimer, CancelComplete, Dispatch, Stop, SetCompletionBackend,
       Post, SpawnTask, CancelSleep, Complete
  <2>2. QED  BY <2>1
<1>2. ASSUME NEW u \in Thread, Notify(u) PROVE FALSE
  BY <1>2 DEF Notify
<1>3. ASSUME NEW u \in Thread,
             \/ RetainWork(u) \/ SubmitFails(u) \/ Resume(u) \/ SpuriousWake(u)
             \/ CvRecheck(u) \/ CvTimeout(u) \/ Poll(u) \/ DispatchDone(u)
             \/ FinishReadyItem(u) \/ EndDrive(u)
             \/ \E c \in Coro : Host(u, c)
             \/ \E e \in Entry : BeginDrive(u, e)
      PROVE  FALSE
  <2>1. PICK q : pc' = [pc EXCEPT ![u] = q]
    BY <1>3 DEF RetainWork, SubmitFails, Resume, SpuriousWake, CvRecheck, CvTimeout,
       Poll, DispatchDone, FinishReadyItem, EndDrive, Host, BeginDrive
  <2>2. pc[u] # "loop"
    BY <1>3 DEF RetainWork, SubmitFails, Resume, SpuriousWake, CvRecheck, CvTimeout,
       Poll, DispatchDone, FinishReadyItem, EndDrive, Host, BeginDrive
  <2>3. QED  BY <2>1, <2>2
<1>4. ASSUME NEW u \in Thread,
             \/ SubmitSleep(u) \/ SubmitElapsedSleep(u) \/ SubmitOp(u)
             \/ JoinUntracked(u) \/ Park(u) \/ Return(u)
      PROVE  FALSE
  <2>1. Leave(u) /\ pc[u] \in {"body", "submit"}
    BY <1>4 DEF SubmitSleep, SubmitElapsedSleep, SubmitOp, JoinUntracked, Park, Return,
       InBody, InSubmit
  <2>2. QED  BY <2>1, LeaveEffect
<1>5. ASSUME NEW u \in Thread, RunCollect(u) \/ RunPop(u) \/ RunBlock(u)
      PROVE  FALSE
  <2>1. PICK q \in {"dispatch", "resume", "poll", "cv"} : pc' = [pc EXCEPT ![u] = q]
    BY <1>5 DEF RunCollect, RunPop, RunBlock
  <2>2. QED  BY <2>1
<1>6. ASSUME NEW u \in Thread, RunOnePop(u) \/ RunOnePoll(u) \/ RunOneReturn(u)
      PROVE  FALSE
  BY <1>6 DEF RunOnePop, RunOnePoll, RunOneReturn, AtLoop
<1>7. ASSUME NEW u \in Thread, RunReturn(u) PROVE RunReturn(t)
  <2>1. CASE u = t
    BY <1>7, <2>1
  <2>2. CASE u # t
    BY <1>7, <2>2 DEF RunReturn
  <2>3. QED  BY <2>1, <2>2
<1>8. ASSUME Tick \/ \E c \in Coro : IoEvent(c) PROVE FALSE
  BY <1>8 DEF Tick, IoEvent
<1> HIDE DEF TypeOK, DrivePc, frame, threads
<1>9. QED
  BY <1>1, <1>2, <1>3, <1>4, <1>5, <1>6, <1>7, <1>8 DEF Next, Continue, Call

\* run() returns only after stop(), and leaves nothing behind that retained work.
THEOREM RunReturnsDrained ==
  ASSUME "join" \notin Await
  PROVE  Spec => ReturnsDrained
<1> DEFINE
      Drained == \A t \in Thread : pc[t] = "loop" /\ mode = "run" /\ pc'[t] = "end" =>
                   /\ stopped /\ ready = <<>> /\ Counted = {}
                   /\ \A c \in Coro : timer[c] = Never
<1>1. IInv /\ [Next]_vars => [Drained]_vars
  <2> SUFFICES ASSUME IInv, Next, NEW t \in Thread,
                      pc[t] = "loop", mode = "run", pc'[t] = "end"
               PROVE  /\ stopped /\ ready = <<>> /\ Counted = {}
                      /\ \A c \in Coro : timer[c] = Never
    OBVIOUS
  <2>1. stopped /\ ready = <<>> /\ pending = 0
    BY OnlyRunReturnEnds DEF IInv, RunReturn
  <2>2. Counted = {}
    <3>1. IsFiniteSet(Counted)
      BY RuntimeAssumption, FS_Subset DEF Counted
    <3>2. Cardinality(Counted) \in Nat /\ (Cardinality(Counted) = 0 <=> Counted = {})
      BY <3>1, FS_CardinalityType, FS_EmptySet
    <3>3. pending = Cardinality(Counted) + (IF Executing THEN 1 ELSE 0)
      BY DEF IInv, WorkAccounted
    <3>4. QED  BY <2>1, <3>2, <3>3
  <2>3. \A c \in Coro : timer[c] = Never
    <3>1. \A c \in Coro : co[c] # "sleeping"
      BY <2>2 DEF Counted, Tracked
    <3>2. QED  BY <3>1 DEF IInv, Structure, TimersAreLive
  <2>4. QED  BY <2>1, <2>2, <2>3
<1>2. QED  BY <1>1, InvariantHolds, PTL DEF Spec, ReturnsDrained
-----------------------------------------------------------------------------
(* The queue, the sleepers and the wake-ups: how a step moves a coroutine,  *)
(* then each part of RunInv and WakeInv, then the steps of the Executor.    *)

\* What the end of a turn does: the thread leaves its coroutine, which is suspended,
\* ready again or done; a sleep gets a timer, and a notification if it is the earliest.
EndsTurn(t) ==
  /\ pc[t] \in {"body", "submit"} /\ cur[t] \in Coro /\ tail[t] = {}
  /\ co[cur[t]] \in {"running", "retained"}
  /\ \A u \in Thread \ {t} : pc'[u] = pc[u] /\ cur'[u] = cur[u] /\ tail'[u] = tail[u]
  /\ \/ t = driver /\ pc'[t] = "finish" /\ cur'[t] = cur[t]
     \/ t # driver /\ pc'[t] = "idle" /\ cur'[t] = NoCoro
  /\ \A c \in Coro \ {cur[t]} :
       co'[c] = co[c] /\ timer'[c] = timer[c] /\ resolved'[c] = resolved[c]
  /\ co'[cur[t]] \notin {"new", "running", "retained"}
  /\ co'[cur[t]] = "sleeping" => timer'[cur[t]] # Never /\ ~resolved'[cur[t]]
  /\ \/ co'[cur[t]] # "queued" /\ ready' = ready
     \/ /\ co'[cur[t]] = "queued" /\ ready' = Append(ready, cur[t])
        /\ Elems(ready') = Elems(ready) \cup {cur[t]}
        /\ ready' # <<>> /\ tail'[t] = Signal
  /\ UNCHANGED <<pending, owned, control, frame, cancelling, io, now>>

\* The timer of a turn that ends in a sleep.
ArmsTimer(t) ==
  \/ timer'[cur[t]] = timer[cur[t]]
  \/ tail'[t] = Signal
  \/ \E c \in Coro : timer[c] <= timer'[cur[t]]

LEMMA Queued ==
  ASSUME TypeOK, NEW c \in Coro
  PROVE  Elems(Append(ready, c)) = Elems(ready) \cup {c} /\ Append(ready, c) # <<>>
  <1>1. ready \in Seq(Coro)
    BY DEF TypeOK
  <1>2. Len(ready) \in Nat /\ Len(Append(ready, c)) = Len(ready) + 1
    BY <1>1
  <1>3. Append(ready, c) # <<>>
    <2>1. SUFFICES ASSUME Append(ready, c) = <<>> PROVE FALSE
      OBVIOUS
    <2>2. Len(Append(ready, c)) = 0
      BY <2>1
    <2> QED
      BY <1>2, <2>2
  <1> QED
    BY <1>1, <1>3, AppendElems

LEMMA EndOfTurn ==
  ASSUME TypeOK, Structure, NEW t \in Thread,
         \/ SubmitSleep(t) \/ SubmitElapsedSleep(t) \/ SubmitOp(t)
         \/ JoinUntracked(t) \/ Park(t) \/ Return(t)
  PROVE  EndsTurn(t) /\ ArmsTimer(t)
  <1> DEFINE c == cur[t]
  <1>1. Leave(t) /\ Quiet(t) /\ pc[t] \in {"body", "submit"}
    BY DEF SubmitSleep, SubmitElapsedSleep, SubmitOp, JoinUntracked, Park, Return,
       InBody, InSubmit
  <1>2. /\ c \in Coro /\ co[c] \in {"running", "retained"} /\ tail[t] = {}
        /\ co \in [Coro -> CoroState] /\ timer \in [Coro -> 0 .. Never]
        /\ resolved \in [Coro -> BOOLEAN]
        /\ tail \in [Thread -> SUBSET ({"cv"} \cup Backend)]
    BY <1>1 DEF TypeOK, Structure, BodiesSound, Quiet
  <1>3. UNCHANGED <<pending, owned, control, frame, cancelling, io, now>>
    BY DEF SubmitSleep, SubmitElapsedSleep, SubmitOp, JoinUntracked, Park, Return, queue
  <1>4. CASE SubmitSleep(t)
    <2>1. PICK d \in now + 1 .. MaxTime :
            /\ timer' = [timer EXCEPT ![c] = d]
            /\ tail' = [tail EXCEPT ![t] = IF Earlier(d) THEN Signal ELSE {"cv"}]
      BY <1>4 DEF SubmitSleep
    <2>2. /\ co' = [co EXCEPT ![c] = "sleeping"] /\ ready' = ready
          /\ resolved' = [resolved EXCEPT ![c] = FALSE]
      BY <1>4 DEF SubmitSleep, queue
    <2>3. now \in Nat /\ d \in Nat /\ d # Never /\ d <= MaxTime
      BY <2>1, RuntimeAssumption DEF TypeOK, Never
    <2>4. ArmsTimer(t)
      <3>1. CASE Earlier(d)
        BY <1>2, <2>1, <3>1 DEF ArmsTimer
      <3>2. CASE ~Earlier(d)
        <4>1. PICK e \in Coro : ~(d < timer[e])
          BY <3>2 DEF Earlier
        <4>2. timer[e] \in Nat /\ timer'[c] = d
          BY <1>2, <2>1, RuntimeAssumption DEF Never
        <4> QED
          BY <2>3, <4>1, <4>2 DEF ArmsTimer
      <3> QED
        BY <3>1, <3>2
    <2>5. /\ \A e \in Coro \ {c} : co'[e] = co[e] /\ timer'[e] = timer[e] /\ resolved'[e] = resolved[e]
          /\ co'[c] = "sleeping" /\ timer'[c] # Never /\ ~resolved'[c] /\ ready' = ready
          /\ \A u \in Thread \ {t} : tail'[u] = tail[u]
      BY <1>2, <2>1, <2>2, <2>3
    <2> QED
      BY <1>1, <1>2, <1>3, <2>4, <2>5, LeaveEffect DEF EndsTurn
  <1>5. CASE SubmitElapsedSleep(t)
    <2>1. /\ ready' = Append(ready, c) /\ co' = [co EXCEPT ![c] = "queued"]
          /\ tail' = [tail EXCEPT ![t] = Signal] /\ UNCHANGED <<timer, resolved>>
      BY <1>5 DEF SubmitElapsedSleep, EnqueueReady
    <2>2. Elems(ready') = Elems(ready) \cup {c} /\ ready' # <<>>
      BY <1>2, <2>1, Queued
    <2>3. /\ \A e \in Coro \ {c} : co'[e] = co[e] /\ timer'[e] = timer[e] /\ resolved'[e] = resolved[e]
          /\ co'[c] = "queued" /\ tail'[t] = Signal
          /\ \A u \in Thread \ {t} : tail'[u] = tail[u]
      BY <1>2, <2>1
    <2> QED
      BY <1>1, <1>2, <1>3, <2>1, <2>2, <2>3, LeaveEffect DEF EndsTurn, ArmsTimer
  <1>6. CASE SubmitOp(t) \/ JoinUntracked(t) \/ Park(t) \/ Return(t)
    <2>1. PICK s \in {"io", "waiting", "untracked", "parked", "done"} :
            co' = [co EXCEPT ![c] = s]
      BY <1>6 DEF SubmitOp, JoinUntracked, Park, Return
    <2>2. /\ UNCHANGED <<ready, timer, tail>>
          /\ resolved' = resolved \/ resolved' = [resolved EXCEPT ![c] = FALSE]
      BY <1>6 DEF SubmitOp, JoinUntracked, Park, Return, queue, coros
    <2>3. /\ \A e \in Coro \ {c} : co'[e] = co[e] /\ timer'[e] = timer[e] /\ resolved'[e] = resolved[e]
          /\ co'[c] \in {"io", "waiting", "untracked", "parked", "done"}
          /\ timer'[c] = timer[c] /\ \A u \in Thread \ {t} : tail'[u] = tail[u]
      BY <1>2, <2>1, <2>2
    <2> QED
      BY <1>1, <1>2, <1>3, <2>2, <2>3, LeaveEffect DEF EndsTurn, ArmsTimer
  <1> QED
    BY <1>4, <1>5, <1>6

\* The driver at the top of the loop, or in a poll, has nothing left to dispatch.
LEMMA BatchIsEmpty ==
  ASSUME TypeOK, Structure, NEW t \in Thread, pc[t] \in DrivePc \ {"dispatch"}
  PROVE  batch = {}
  BY DEF TypeOK, Structure, BatchSound, DrivePc

\* One element of the batch is skipped, or queued.
Dispatched(t, c) ==
  /\ c \in Coro /\ batch' = batch \ {c}
  /\ \/ resolved[c] /\ UNCHANGED <<ready, co, resolved, tail>>
     \/ /\ ~resolved[c] /\ ready' = Append(ready, c)
        /\ Elems(ready') = Elems(ready) \cup {c} /\ ready' # <<>>
        /\ co'[c] = "queued" /\ \A d \in Coro \ {c} : co'[d] = co[d]
        /\ \A d \in Coro \ {c} : resolved'[d] = resolved[d]
        /\ tail'[t] = Signal /\ tail[t] = {}
        /\ \A u \in Thread \ {t} : tail'[u] = tail[u]

LEMMA DispatchEffect ==
  ASSUME TypeOK, Structure, NEW t \in Thread, Dispatch(t)
  PROVE  \E c \in batch : Dispatched(t, c)
  <1>1. PICK c \in batch :
          /\ batch' = batch \ {c}
          /\ IF resolved[c]
             THEN UNCHANGED <<ready, co, resolved, tail>>
             ELSE EnqueueReady(t, c) /\ resolved' = [resolved EXCEPT ![c] = TRUE]
    BY DEF Dispatch
  <1>2. c \in Coro /\ ready \in Seq(Coro) /\ tail[t] = {}
    BY DEF TypeOK, Dispatch, Quiet
  <1>3. CASE resolved[c]
    BY <1>1, <1>2, <1>3 DEF Dispatched
  <1>4. CASE ~resolved[c]
    <2>1. Elems(ready') = Elems(ready) \cup {c} /\ ready' # <<>>
      BY <1>1, <1>2, <1>4, Queued DEF EnqueueReady
    <2>2. /\ co'[c] = "queued" /\ \A d \in Coro \ {c} : co'[d] = co[d]
          /\ \A d \in Coro \ {c} : resolved'[d] = resolved[d]
      BY <1>1, <1>2, <1>4 DEF EnqueueReady, TypeOK
    <2>3. tail'[t] = Signal /\ \A u \in Thread \ {t} : tail'[u] = tail[u]
      BY <1>1, <1>4 DEF EnqueueReady, TypeOK
    <2> QED
      BY <1>1, <1>2, <1>4, <2>1, <2>2, <2>3 DEF Dispatched, EnqueueReady
  <1> QED
    BY <1>3, <1>4

\* A turn that ends leaves no driver asleep that should not be.
LEMMA EndOfTurnWakes ==
  ASSUME TypeOK, TypeOK', WakeInv, NEW t \in Thread, EndsTurn(t), ArmsTimer(t)
  PROVE  WakeInv'
  <1>1. /\ UNCHANGED <<pending, stopped, driver, backend, limit, latch>>
        /\ \A u \in Thread \ {t} : pc'[u] = pc[u] /\ tail'[u] = tail[u]
        /\ tail[t] = {} /\ pc'[t] \in {"finish", "idle"}
        /\ ready' = ready \/ tail'[t] = Signal
    BY DEF EndsTurn, control, frame, io
  <1>2. ASSUME NEW u \in Thread, pc'[u] = "cv", WaitOver'
        PROVE  \E v \in Thread : "cv" \in tail'[v]
    <2>1. CASE tail'[t] = Signal
      BY <2>1 DEF Signal
    <2>2. CASE ready' = ready
      <3>1. WaitOver /\ pc[u] = "cv"
        BY <1>1, <1>2, <2>2 DEF WaitOver
      <3>2. PICK v \in Thread : "cv" \in tail[v]
        BY <3>1 DEF WakeInv, NoLostWakeup
      <3> QED
        BY <1>1, <3>2
    <2> QED
      BY <1>1, <2>1, <2>2
  <1>3. ASSUME NEW u \in Thread, pc'[u] = "poll"
        PROVE  pc[u] = "poll" /\ backend' = backend /\ backend # "none"
    BY <1>1, <1>3 DEF WakeInv
  <1>4. ASSUME NEW u \in Thread, pc'[u] = "poll", WaitOver' \/ \E c \in Coro : timer'[c] < limit'
        PROVE  backend' \in latch' \/ \E v \in Thread : backend' \in tail'[v]
    <2>1. CASE tail'[t] = Signal
      BY <1>1, <1>3, <1>4, <2>1 DEF Signal
    <2>2. CASE ready' = ready /\ tail'[t] # Signal
      <3>1. WaitOver \/ \E c \in Coro : timer[c] < limit
        <4>1. CASE WaitOver'
          BY <1>1, <2>2, <4>1 DEF WaitOver
        <4>2. ASSUME NEW c \in Coro, timer'[c] < limit'
              PROVE  \E d \in Coro : timer[d] < limit
          <5>1. CASE timer'[c] = timer[c]
            BY <1>1, <4>2, <5>1
          <5>2. CASE timer'[c] # timer[c]
            <6>1. c = cur[t] /\ \E d \in Coro : timer[d] <= timer'[cur[t]]
              BY <2>2, <5>2 DEF EndsTurn, ArmsTimer
            <6>2. PICK d \in Coro : timer[d] <= timer'[c]
              BY <6>1
            <6>3. timer[d] \in Int /\ timer'[c] \in Int /\ limit \in Int
              BY RuntimeAssumption DEF TypeOK, Never
            <6> QED
              BY <1>1, <4>2, <6>2, <6>3
          <5> QED
            BY <5>1, <5>2
        <4> QED
          BY <1>4, <4>1, <4>2
      <3>2. backend \in latch \/ \E v \in Thread : backend \in tail[v]
        BY <1>3, <1>4, <3>1 DEF WakeInv, NoLostWakeup
      <3> QED
        BY <1>1, <3>2
    <2> QED
      BY <1>1, <2>1, <2>2
  <1> QED
    BY <1>2, <1>3, <1>4 DEF WakeInv, NoLostWakeup

LEMMA EndOfTurnFinishes ==
  ASSUME TypeOK, FinishSound, NEW t \in Thread, EndsTurn(t)
  PROVE  FinishSound'
  <1>1. ASSUME NEW u \in Thread, pc'[u] = "finish"
        PROVE  co'[cur'[u]] \notin {"new", "running", "retained"}
    <2>1. CASE u = t
      <3>1. cur'[u] = cur[t]
        BY <1>1, <2>1 DEF EndsTurn
      <3> QED
        BY <3>1 DEF EndsTurn
    <2>2. CASE u # t
      <3>1. pc[u] = "finish" /\ cur'[u] = cur[u]
        BY <1>1, <2>2 DEF EndsTurn
      <3>2. cur[u] \in Coro /\ co[cur[u]] \notin {"new", "running", "retained"}
        BY <3>1 DEF TypeOK, FinishSound
      <3>3. co'[cur[u]] = co[cur[u]]
        BY <3>2 DEF EndsTurn
      <3> QED
        BY <3>1, <3>2, <3>3
    <2> QED
      BY <2>1, <2>2
  <1> QED
    BY <1>1 DEF FinishSound

LEMMA OnlyRunStep ==
  ASSUME TypeOK, Structure, RunInv, "one" \notin Entry, [Next]_vars
  PROVE  OnlyRun'
  <1> DEFINE G == OnlyRun'
  <1> USE RuntimeAssumption, AppendElems, TailElems DEF TypeOK, Structure, BodiesSound,
               CancelsSound,
        BatchSound, IoSound, QueueSound, TimersAreLive, DriverSound, JoinsTracked, InHand,
        queue, control, frame, threads, coros, io, Never, DrivePc, CoroState, Quiet, Free,
        InBody, InSubmit, EnqueueReady, ReleaseWork, PopReady, AtLoop, Expired,
        Disarmed, OnlyRun, RunInv
  <1>1. ASSUME NEW t \in Thread, Notify(t) PROVE G
    BY <1>1 DEF Notify
  <1>2. ASSUME NEW t \in Thread, Wake(t) PROVE G
    BY <1>2 DEF Wake
  <1>3. ASSUME NEW t \in Thread, CancelTimer(t) PROVE G
    BY <1>3 DEF CancelTimer
  <1>4. ASSUME NEW t \in Thread, CancelComplete(t) PROVE G
    BY <1>4 DEF CancelComplete
  <1>5. ASSUME NEW t \in Thread, RetainWork(t) PROVE G
    BY <1>5 DEF RetainWork
  <1>6. ASSUME NEW t \in Thread, SubmitSleep(t) PROVE G
    <2>1. EndsTurn(t) /\ ArmsTimer(t)
      BY <1>6, EndOfTurn
    <2> QED
      BY ONLY <2>1, OnlyRun DEF EndsTurn, ArmsTimer, OnlyRun, frame, control
  <1>7. ASSUME NEW t \in Thread, SubmitElapsedSleep(t) PROVE G
    <2>1. EndsTurn(t) /\ ArmsTimer(t)
      BY <1>7, EndOfTurn
    <2> QED
      BY ONLY <2>1, OnlyRun DEF EndsTurn, ArmsTimer, OnlyRun, frame, control
  <1>8. ASSUME NEW t \in Thread, SubmitOp(t) PROVE G
    <2>1. EndsTurn(t) /\ ArmsTimer(t)
      BY <1>8, EndOfTurn
    <2> QED
      BY ONLY <2>1, OnlyRun DEF EndsTurn, ArmsTimer, OnlyRun, frame, control
  <1>9. ASSUME NEW t \in Thread, SubmitFails(t) PROVE G
    BY <1>9 DEF SubmitFails
  <1>10. ASSUME NEW t \in Thread, JoinUntracked(t) PROVE G
    <2>1. EndsTurn(t) /\ ArmsTimer(t)
      BY <1>10, EndOfTurn
    <2> QED
      BY ONLY <2>1, OnlyRun DEF EndsTurn, ArmsTimer, OnlyRun, frame, control
  <1>11. ASSUME NEW t \in Thread, Park(t) PROVE G
    <2>1. EndsTurn(t) /\ ArmsTimer(t)
      BY <1>11, EndOfTurn
    <2> QED
      BY ONLY <2>1, OnlyRun DEF EndsTurn, ArmsTimer, OnlyRun, frame, control
  <1>12. ASSUME NEW t \in Thread, Return(t) PROVE G
    <2>1. EndsTurn(t) /\ ArmsTimer(t)
      BY <1>12, EndOfTurn
    <2> QED
      BY ONLY <2>1, OnlyRun DEF EndsTurn, ArmsTimer, OnlyRun, frame, control
  <1>13. ASSUME NEW t \in Thread, RunCollect(t) PROVE G
    <2>1. batch = {}
      BY <1>13, BatchIsEmpty DEF RunCollect
    <2> QED
      BY <1>13, <2>1 DEF RunCollect
  <1>14. ASSUME NEW t \in Thread, RunPop(t) PROVE G
    BY <1>14 DEF RunPop
  <1>15. ASSUME NEW t \in Thread, RunReturn(t) PROVE G
    BY <1>15 DEF RunReturn
  <1>16. ASSUME NEW t \in Thread, RunBlock(t) PROVE G
    BY <1>16 DEF RunBlock
  <1>17. ASSUME NEW t \in Thread, CvRecheck(t) PROVE G
    BY <1>17 DEF CvRecheck
  <1>18. ASSUME NEW t \in Thread, CvTimeout(t) PROVE G
    BY <1>18 DEF CvTimeout
  <1>19. ASSUME NEW t \in Thread, Poll(t) PROVE G
    <2>1. batch = {}
      BY <1>19, BatchIsEmpty DEF Poll
    <2> QED
      BY <1>19, <2>1 DEF Poll
  <1>20. ASSUME NEW t \in Thread, RunOnePop(t) PROVE G
    BY <1>20 DEF RunOnePop
  <1>21. ASSUME NEW t \in Thread, RunOnePoll(t) PROVE G
    BY <1>21 DEF RunOnePoll
  <1>22. ASSUME NEW t \in Thread, RunOneReturn(t) PROVE G
    BY <1>22 DEF RunOneReturn
  <1>23. ASSUME NEW t \in Thread, Dispatch(t) PROVE G
    <2>1. /\ pc[t] = "dispatch"
          /\ UNCHANGED <<owned, pending, timer, control, mode, limit, threads, awaits, io, now>>
      BY <1>23 DEF Dispatch
    <2>2. PICK c \in batch : Dispatched(t, c)
      BY <1>23, DispatchEffect
    <2>3. CASE resolved[c]
      BY <2>1, <2>2, <2>3 DEF Dispatched
    <2>4. CASE ~resolved[c]
      BY ONLY <2>1, <2>2, <2>4, OnlyRun DEF OnlyRun, frame, control, threads, Dispatched
    <2> QED
      BY <2>3, <2>4
  <1>24. ASSUME NEW t \in Thread, DispatchDone(t) PROVE G
    BY <1>24 DEF DispatchDone
  <1>25. ASSUME NEW t \in Thread, Resume(t) PROVE G
    BY <1>25 DEF Resume
  <1>26. ASSUME NEW t \in Thread, FinishReadyItem(t) PROVE G
    BY <1>26 DEF FinishReadyItem
  <1>27. ASSUME NEW t \in Thread, EndDrive(t) PROVE G
    BY <1>27 DEF EndDrive
  <1>28. ASSUME NEW t \in Thread, NEW e \in Entry, BeginDrive(t, e) PROVE G
    BY <1>28 DEF BeginDrive
  <1>29. ASSUME NEW t \in Thread, Stop(t) PROVE G
    BY <1>29 DEF Stop
  <1>30. ASSUME NEW t \in Thread, NEW b \in {"none", "user"}, SetCompletionBackend(t, b) PROVE G
    BY <1>30 DEF SetCompletionBackend
  <1>31. ASSUME NEW t \in Thread, NEW c \in Coro, Post(t, c) PROVE G
    BY <1>31 DEF Post
  <1>32. ASSUME NEW t \in Thread, NEW c \in Coro, SpawnTask(t, c) PROVE G
    BY <1>32 DEF SpawnTask
  <1>33. ASSUME NEW t \in Thread, NEW c \in Coro, Host(t, c) PROVE G
    BY <1>33 DEF Host
  <1>34. ASSUME NEW t \in Thread, NEW c \in Coro, CancelSleep(t, c) PROVE G
    BY <1>34 DEF CancelSleep
  <1>35. ASSUME NEW t \in Thread, NEW c \in Coro, Complete(t, c) PROVE G
    BY <1>35 DEF Complete
  <1>36. ASSUME NEW t \in Thread, SpuriousWake(t) PROVE G
    BY <1>36 DEF SpuriousWake
  <1>37. ASSUME NEW c \in Coro, IoEvent(c) PROVE G
    BY <1>37 DEF IoEvent
  <1>38. ASSUME Tick PROVE G
    BY <1>38 DEF Tick
  <1>39. ASSUME UNCHANGED vars PROVE G
    BY <1>39 DEF vars
  <1> HIDE DEF TypeOK, Structure, BodiesSound, CancelsSound,
        BatchSound, IoSound, QueueSound, TimersAreLive, DriverSound, JoinsTracked, InHand,
        queue, control, frame, threads, coros, io, Never, DrivePc, CoroState, Quiet, Free,
        InBody, InSubmit, EnqueueReady, ReleaseWork, PopReady, AtLoop, Expired,
        Disarmed, OnlyRun, RunInv
  <1> QED
    BY <1>1, <1>2, <1>3, <1>4, <1>5, <1>6, <1>7, <1>8, <1>9, <1>10, <1>11, <1>12, <1>13,
       <1>14, <1>15, <1>16, <1>17, <1>18, <1>19, <1>20, <1>21, <1>22, <1>23, <1>24,
       <1>25, <1>26, <1>27, <1>28, <1>29, <1>30, <1>31, <1>32, <1>33, <1>34, <1>35,
       <1>36, <1>37, <1>38, <1>39, Zenon DEF Next, Continue, Call

LEMMA QueuedThereStep ==
  ASSUME TypeOK, Structure, RunInv, "one" \notin Entry, [Next]_vars
  PROVE  QueuedThere'
  <1> DEFINE G == QueuedThere'
  <1> USE RuntimeAssumption, AppendElems, TailElems DEF TypeOK, Structure, BodiesSound,
               CancelsSound,
        BatchSound, IoSound, QueueSound, TimersAreLive, DriverSound, JoinsTracked, InHand,
        queue, control, frame, threads, coros, io, Never, DrivePc, CoroState, Quiet, Free,
        InBody, InSubmit, EnqueueReady, ReleaseWork, PopReady, AtLoop, Expired,
        Disarmed, OnlyRun, RunInv, QueuedThere
  <1>1. ASSUME NEW t \in Thread, Notify(t) PROVE G
    BY <1>1 DEF Notify
  <1>2. ASSUME NEW t \in Thread, Wake(t) PROVE G
    BY <1>2 DEF Wake
  <1>3. ASSUME NEW t \in Thread, CancelTimer(t) PROVE G
    BY <1>3 DEF CancelTimer
  <1>4. ASSUME NEW t \in Thread, CancelComplete(t) PROVE G
    BY <1>4 DEF CancelComplete
  <1>5. ASSUME NEW t \in Thread, RetainWork(t) PROVE G
    BY <1>5 DEF RetainWork
  <1>6. ASSUME NEW t \in Thread, SubmitSleep(t) PROVE G
    <2>1. EndsTurn(t) /\ ArmsTimer(t)
      BY <1>6, EndOfTurn
    <2> QED
      BY ONLY <2>1, QueuedThere DEF EndsTurn, ArmsTimer, QueuedThere, InHand
  <1>7. ASSUME NEW t \in Thread, SubmitElapsedSleep(t) PROVE G
    <2>1. EndsTurn(t) /\ ArmsTimer(t)
      BY <1>7, EndOfTurn
    <2> QED
      BY ONLY <2>1, QueuedThere DEF EndsTurn, ArmsTimer, QueuedThere, InHand
  <1>8. ASSUME NEW t \in Thread, SubmitOp(t) PROVE G
    <2>1. EndsTurn(t) /\ ArmsTimer(t)
      BY <1>8, EndOfTurn
    <2> QED
      BY ONLY <2>1, QueuedThere DEF EndsTurn, ArmsTimer, QueuedThere, InHand
  <1>9. ASSUME NEW t \in Thread, SubmitFails(t) PROVE G
    BY <1>9 DEF SubmitFails
  <1>10. ASSUME NEW t \in Thread, JoinUntracked(t) PROVE G
    <2>1. EndsTurn(t) /\ ArmsTimer(t)
      BY <1>10, EndOfTurn
    <2> QED
      BY ONLY <2>1, QueuedThere DEF EndsTurn, ArmsTimer, QueuedThere, InHand
  <1>11. ASSUME NEW t \in Thread, Park(t) PROVE G
    <2>1. EndsTurn(t) /\ ArmsTimer(t)
      BY <1>11, EndOfTurn
    <2> QED
      BY ONLY <2>1, QueuedThere DEF EndsTurn, ArmsTimer, QueuedThere, InHand
  <1>12. ASSUME NEW t \in Thread, Return(t) PROVE G
    <2>1. EndsTurn(t) /\ ArmsTimer(t)
      BY <1>12, EndOfTurn
    <2> QED
      BY ONLY <2>1, QueuedThere DEF EndsTurn, ArmsTimer, QueuedThere, InHand
  <1>13. ASSUME NEW t \in Thread, RunCollect(t) PROVE G
    <2>1. batch = {}
      BY <1>13, BatchIsEmpty DEF RunCollect
    <2> QED
      BY <1>13, <2>1 DEF RunCollect
  <1>14. ASSUME NEW t \in Thread, RunPop(t) PROVE G
    BY <1>14, SMTT(30) DEF RunPop
  <1>15. ASSUME NEW t \in Thread, RunReturn(t) PROVE G
    BY <1>15 DEF RunReturn
  <1>16. ASSUME NEW t \in Thread, RunBlock(t) PROVE G
    BY <1>16 DEF RunBlock
  <1>17. ASSUME NEW t \in Thread, CvRecheck(t) PROVE G
    BY <1>17 DEF CvRecheck
  <1>18. ASSUME NEW t \in Thread, CvTimeout(t) PROVE G
    BY <1>18 DEF CvTimeout
  <1>19. ASSUME NEW t \in Thread, Poll(t) PROVE G
    <2>1. batch = {}
      BY <1>19, BatchIsEmpty DEF Poll
    <2> QED
      BY <1>19, <2>1 DEF Poll
  <1>20. ASSUME NEW t \in Thread, RunOnePop(t) PROVE G
    BY <1>20 DEF RunOnePop
  <1>21. ASSUME NEW t \in Thread, RunOnePoll(t) PROVE G
    BY <1>21 DEF RunOnePoll
  <1>22. ASSUME NEW t \in Thread, RunOneReturn(t) PROVE G
    BY <1>22 DEF RunOneReturn
  <1>23. ASSUME NEW t \in Thread, Dispatch(t) PROVE G
    <2>1. /\ pc[t] = "dispatch"
          /\ UNCHANGED <<owned, pending, timer, control, mode, limit, threads, awaits, io, now>>
      BY <1>23 DEF Dispatch
    <2>2. PICK c \in batch : Dispatched(t, c)
      BY <1>23, DispatchEffect
    <2>3. CASE resolved[c]
      BY <2>1, <2>2, <2>3 DEF Dispatched
    <2>4. CASE ~resolved[c]
      BY ONLY <2>1, <2>2, <2>4, QueuedThere DEF QueuedThere, InHand, threads, Dispatched
    <2> QED
      BY <2>3, <2>4
  <1>24. ASSUME NEW t \in Thread, DispatchDone(t) PROVE G
    BY <1>24 DEF DispatchDone
  <1>25. ASSUME NEW t \in Thread, Resume(t) PROVE G
    BY <1>25 DEF Resume
  <1>26. ASSUME NEW t \in Thread, FinishReadyItem(t) PROVE G
    BY <1>26 DEF FinishReadyItem
  <1>27. ASSUME NEW t \in Thread, EndDrive(t) PROVE G
    BY <1>27 DEF EndDrive
  <1>28. ASSUME NEW t \in Thread, NEW e \in Entry, BeginDrive(t, e) PROVE G
    BY <1>28 DEF BeginDrive
  <1>29. ASSUME NEW t \in Thread, Stop(t) PROVE G
    BY <1>29 DEF Stop
  <1>30. ASSUME NEW t \in Thread, NEW b \in {"none", "user"}, SetCompletionBackend(t, b) PROVE G
    BY <1>30 DEF SetCompletionBackend
  <1>31. ASSUME NEW t \in Thread, NEW c \in Coro, Post(t, c) PROVE G
    BY <1>31 DEF Post
  <1>32. ASSUME NEW t \in Thread, NEW c \in Coro, SpawnTask(t, c) PROVE G
    BY <1>32 DEF SpawnTask
  <1>33. ASSUME NEW t \in Thread, NEW c \in Coro, Host(t, c) PROVE G
    BY <1>33 DEF Host
  <1>34. ASSUME NEW t \in Thread, NEW c \in Coro, CancelSleep(t, c) PROVE G
    BY <1>34 DEF CancelSleep
  <1>35. ASSUME NEW t \in Thread, NEW c \in Coro, Complete(t, c) PROVE G
    BY <1>35 DEF Complete
  <1>36. ASSUME NEW t \in Thread, SpuriousWake(t) PROVE G
    BY <1>36 DEF SpuriousWake
  <1>37. ASSUME NEW c \in Coro, IoEvent(c) PROVE G
    BY <1>37 DEF IoEvent
  <1>38. ASSUME Tick PROVE G
    BY <1>38 DEF Tick
  <1>39. ASSUME UNCHANGED vars PROVE G
    BY <1>39 DEF vars
  <1> HIDE DEF TypeOK, Structure, BodiesSound, CancelsSound,
        BatchSound, IoSound, QueueSound, TimersAreLive, DriverSound, JoinsTracked, InHand,
        queue, control, frame, threads, coros, io, Never, DrivePc, CoroState, Quiet, Free,
        InBody, InSubmit, EnqueueReady, ReleaseWork, PopReady, AtLoop, Expired,
        Disarmed, OnlyRun, RunInv, QueuedThere
  <1> QED
    BY <1>1, <1>2, <1>3, <1>4, <1>5, <1>6, <1>7, <1>8, <1>9, <1>10, <1>11, <1>12, <1>13,
       <1>14, <1>15, <1>16, <1>17, <1>18, <1>19, <1>20, <1>21, <1>22, <1>23, <1>24,
       <1>25, <1>26, <1>27, <1>28, <1>29, <1>30, <1>31, <1>32, <1>33, <1>34, <1>35,
       <1>36, <1>37, <1>38, <1>39, Zenon DEF Next, Continue, Call

LEMMA SleepersStep ==
  ASSUME TypeOK, Structure, RunInv, "one" \notin Entry, [Next]_vars
  PROVE  SleepersCanWake'
  <1> DEFINE G == SleepersCanWake'
  <1> USE RuntimeAssumption, AppendElems, TailElems DEF TypeOK, Structure, BodiesSound,
               CancelsSound,
        BatchSound, IoSound, QueueSound, TimersAreLive, DriverSound, JoinsTracked, InHand,
        queue, control, frame, threads, coros, io, Never, DrivePc, CoroState, Quiet, Free,
        InBody, InSubmit, EnqueueReady, ReleaseWork, PopReady, AtLoop, Expired,
        Disarmed, OnlyRun, RunInv, SleepersCanWake, ResolvedIsCancelled
  <1>1. ASSUME NEW t \in Thread, Notify(t) PROVE G
    BY <1>1 DEF Notify
  <1>2. ASSUME NEW t \in Thread, Wake(t) PROVE G
    BY <1>2 DEF Wake
  <1>3. ASSUME NEW t \in Thread, CancelTimer(t) PROVE G
    BY <1>3 DEF CancelTimer
  <1>4. ASSUME NEW t \in Thread, CancelComplete(t) PROVE G
    BY <1>4 DEF CancelComplete
  <1>5. ASSUME NEW t \in Thread, RetainWork(t) PROVE G
    BY <1>5 DEF RetainWork
  <1>6. ASSUME NEW t \in Thread, SubmitSleep(t) PROVE G
    <2>1. EndsTurn(t) /\ ArmsTimer(t)
      BY <1>6, EndOfTurn
    <2> QED
      BY ONLY <2>1, SleepersCanWake DEF EndsTurn, ArmsTimer, SleepersCanWake, frame
  <1>7. ASSUME NEW t \in Thread, SubmitElapsedSleep(t) PROVE G
    <2>1. EndsTurn(t) /\ ArmsTimer(t)
      BY <1>7, EndOfTurn
    <2> QED
      BY ONLY <2>1, SleepersCanWake DEF EndsTurn, ArmsTimer, SleepersCanWake, frame
  <1>8. ASSUME NEW t \in Thread, SubmitOp(t) PROVE G
    <2>1. EndsTurn(t) /\ ArmsTimer(t)
      BY <1>8, EndOfTurn
    <2> QED
      BY ONLY <2>1, SleepersCanWake DEF EndsTurn, ArmsTimer, SleepersCanWake, frame
  <1>9. ASSUME NEW t \in Thread, SubmitFails(t) PROVE G
    BY <1>9 DEF SubmitFails
  <1>10. ASSUME NEW t \in Thread, JoinUntracked(t) PROVE G
    <2>1. EndsTurn(t) /\ ArmsTimer(t)
      BY <1>10, EndOfTurn
    <2> QED
      BY ONLY <2>1, SleepersCanWake DEF EndsTurn, ArmsTimer, SleepersCanWake, frame
  <1>11. ASSUME NEW t \in Thread, Park(t) PROVE G
    <2>1. EndsTurn(t) /\ ArmsTimer(t)
      BY <1>11, EndOfTurn
    <2> QED
      BY ONLY <2>1, SleepersCanWake DEF EndsTurn, ArmsTimer, SleepersCanWake, frame
  <1>12. ASSUME NEW t \in Thread, Return(t) PROVE G
    <2>1. EndsTurn(t) /\ ArmsTimer(t)
      BY <1>12, EndOfTurn
    <2> QED
      BY ONLY <2>1, SleepersCanWake DEF EndsTurn, ArmsTimer, SleepersCanWake, frame
  <1>13. ASSUME NEW t \in Thread, RunCollect(t) PROVE G
    <2>1. batch = {}
      BY <1>13, BatchIsEmpty DEF RunCollect
    <2> QED
      BY <1>13, <2>1 DEF RunCollect
  <1>14. ASSUME NEW t \in Thread, RunPop(t) PROVE G
    BY <1>14 DEF RunPop
  <1>15. ASSUME NEW t \in Thread, RunReturn(t) PROVE G
    BY <1>15 DEF RunReturn
  <1>16. ASSUME NEW t \in Thread, RunBlock(t) PROVE G
    BY <1>16 DEF RunBlock
  <1>17. ASSUME NEW t \in Thread, CvRecheck(t) PROVE G
    BY <1>17 DEF CvRecheck
  <1>18. ASSUME NEW t \in Thread, CvTimeout(t) PROVE G
    BY <1>18 DEF CvTimeout
  <1>19. ASSUME NEW t \in Thread, Poll(t) PROVE G
    <2>1. batch = {}
      BY <1>19, BatchIsEmpty DEF Poll
    <2> QED
      BY <1>19, <2>1 DEF Poll
  <1>20. ASSUME NEW t \in Thread, RunOnePop(t) PROVE G
    BY <1>20 DEF RunOnePop
  <1>21. ASSUME NEW t \in Thread, RunOnePoll(t) PROVE G
    BY <1>21 DEF RunOnePoll
  <1>22. ASSUME NEW t \in Thread, RunOneReturn(t) PROVE G
    BY <1>22 DEF RunOneReturn
  <1>23. ASSUME NEW t \in Thread, Dispatch(t) PROVE G
    <2>1. /\ pc[t] = "dispatch"
          /\ UNCHANGED <<owned, pending, timer, control, mode, limit, threads, awaits, io, now>>
      BY <1>23 DEF Dispatch
    <2>2. PICK c \in batch : Dispatched(t, c)
      BY <1>23, DispatchEffect
    <2>3. CASE resolved[c]
      BY <2>1, <2>2, <2>3 DEF Dispatched
    <2>4. CASE ~resolved[c]
      BY ONLY <2>1, <2>2, <2>4, SleepersCanWake DEF SleepersCanWake, frame, threads,
         Dispatched
    <2> QED
      BY <2>3, <2>4
  <1>24. ASSUME NEW t \in Thread, DispatchDone(t) PROVE G
    BY <1>24 DEF DispatchDone
  <1>25. ASSUME NEW t \in Thread, Resume(t) PROVE G
    BY <1>25 DEF Resume
  <1>26. ASSUME NEW t \in Thread, FinishReadyItem(t) PROVE G
    BY <1>26 DEF FinishReadyItem
  <1>27. ASSUME NEW t \in Thread, EndDrive(t) PROVE G
    BY <1>27 DEF EndDrive
  <1>28. ASSUME NEW t \in Thread, NEW e \in Entry, BeginDrive(t, e) PROVE G
    BY <1>28 DEF BeginDrive
  <1>29. ASSUME NEW t \in Thread, Stop(t) PROVE G
    BY <1>29 DEF Stop
  <1>30. ASSUME NEW t \in Thread, NEW b \in {"none", "user"}, SetCompletionBackend(t, b) PROVE G
    BY <1>30 DEF SetCompletionBackend
  <1>31. ASSUME NEW t \in Thread, NEW c \in Coro, Post(t, c) PROVE G
    BY <1>31 DEF Post
  <1>32. ASSUME NEW t \in Thread, NEW c \in Coro, SpawnTask(t, c) PROVE G
    BY <1>32 DEF SpawnTask
  <1>33. ASSUME NEW t \in Thread, NEW c \in Coro, Host(t, c) PROVE G
    BY <1>33 DEF Host
  <1>34. ASSUME NEW t \in Thread, NEW c \in Coro, CancelSleep(t, c) PROVE G
    BY <1>34 DEF CancelSleep
  <1>35. ASSUME NEW t \in Thread, NEW c \in Coro, Complete(t, c) PROVE G
    BY <1>35 DEF Complete
  <1>36. ASSUME NEW t \in Thread, SpuriousWake(t) PROVE G
    BY <1>36 DEF SpuriousWake
  <1>37. ASSUME NEW c \in Coro, IoEvent(c) PROVE G
    BY <1>37 DEF IoEvent
  <1>38. ASSUME Tick PROVE G
    BY <1>38 DEF Tick
  <1>39. ASSUME UNCHANGED vars PROVE G
    BY <1>39 DEF vars
  <1> HIDE DEF TypeOK, Structure, BodiesSound, CancelsSound,
        BatchSound, IoSound, QueueSound, TimersAreLive, DriverSound, JoinsTracked, InHand,
        queue, control, frame, threads, coros, io, Never, DrivePc, CoroState, Quiet, Free,
        InBody, InSubmit, EnqueueReady, ReleaseWork, PopReady, AtLoop, Expired,
        Disarmed, OnlyRun, RunInv, SleepersCanWake, ResolvedIsCancelled
  <1> QED
    BY <1>1, <1>2, <1>3, <1>4, <1>5, <1>6, <1>7, <1>8, <1>9, <1>10, <1>11, <1>12, <1>13,
       <1>14, <1>15, <1>16, <1>17, <1>18, <1>19, <1>20, <1>21, <1>22, <1>23, <1>24,
       <1>25, <1>26, <1>27, <1>28, <1>29, <1>30, <1>31, <1>32, <1>33, <1>34, <1>35,
       <1>36, <1>37, <1>38, <1>39, Zenon DEF Next, Continue, Call

LEMMA ResolvedStep ==
  ASSUME TypeOK, Structure, RunInv, "one" \notin Entry, [Next]_vars
  PROVE  ResolvedIsCancelled'
  <1> DEFINE G == ResolvedIsCancelled'
  <1> USE RuntimeAssumption, AppendElems, TailElems DEF TypeOK, Structure, BodiesSound,
               CancelsSound,
        BatchSound, IoSound, QueueSound, TimersAreLive, DriverSound, JoinsTracked, InHand,
        queue, control, frame, threads, coros, io, Never, DrivePc, CoroState, Quiet, Free,
        InBody, InSubmit, EnqueueReady, ReleaseWork, PopReady, AtLoop, Expired,
        Disarmed, OnlyRun, RunInv, ResolvedIsCancelled
  <1>1. ASSUME NEW t \in Thread, Notify(t) PROVE G
    BY <1>1 DEF Notify
  <1>2. ASSUME NEW t \in Thread, Wake(t) PROVE G
    BY <1>2 DEF Wake
  <1>3. ASSUME NEW t \in Thread, CancelTimer(t) PROVE G
    BY <1>3 DEF CancelTimer
  <1>4. ASSUME NEW t \in Thread, CancelComplete(t) PROVE G
    BY <1>4 DEF CancelComplete
  <1>5. ASSUME NEW t \in Thread, RetainWork(t) PROVE G
    BY <1>5 DEF RetainWork
  <1>6. ASSUME NEW t \in Thread, SubmitSleep(t) PROVE G
    <2>1. EndsTurn(t) /\ ArmsTimer(t)
      BY <1>6, EndOfTurn
    <2> QED
      BY ONLY <2>1, ResolvedIsCancelled DEF EndsTurn, ArmsTimer, ResolvedIsCancelled
  <1>7. ASSUME NEW t \in Thread, SubmitElapsedSleep(t) PROVE G
    <2>1. EndsTurn(t) /\ ArmsTimer(t)
      BY <1>7, EndOfTurn
    <2> QED
      BY ONLY <2>1, ResolvedIsCancelled DEF EndsTurn, ArmsTimer, ResolvedIsCancelled
  <1>8. ASSUME NEW t \in Thread, SubmitOp(t) PROVE G
    <2>1. EndsTurn(t) /\ ArmsTimer(t)
      BY <1>8, EndOfTurn
    <2> QED
      BY ONLY <2>1, ResolvedIsCancelled DEF EndsTurn, ArmsTimer, ResolvedIsCancelled
  <1>9. ASSUME NEW t \in Thread, SubmitFails(t) PROVE G
    BY <1>9 DEF SubmitFails
  <1>10. ASSUME NEW t \in Thread, JoinUntracked(t) PROVE G
    <2>1. EndsTurn(t) /\ ArmsTimer(t)
      BY <1>10, EndOfTurn
    <2> QED
      BY ONLY <2>1, ResolvedIsCancelled DEF EndsTurn, ArmsTimer, ResolvedIsCancelled
  <1>11. ASSUME NEW t \in Thread, Park(t) PROVE G
    <2>1. EndsTurn(t) /\ ArmsTimer(t)
      BY <1>11, EndOfTurn
    <2> QED
      BY ONLY <2>1, ResolvedIsCancelled DEF EndsTurn, ArmsTimer, ResolvedIsCancelled
  <1>12. ASSUME NEW t \in Thread, Return(t) PROVE G
    <2>1. EndsTurn(t) /\ ArmsTimer(t)
      BY <1>12, EndOfTurn
    <2> QED
      BY ONLY <2>1, ResolvedIsCancelled DEF EndsTurn, ArmsTimer, ResolvedIsCancelled
  <1>13. ASSUME NEW t \in Thread, RunCollect(t) PROVE G
    <2>1. batch = {}
      BY <1>13, BatchIsEmpty DEF RunCollect
    <2> QED
      BY <1>13, <2>1 DEF RunCollect
  <1>14. ASSUME NEW t \in Thread, RunPop(t) PROVE G
    BY <1>14 DEF RunPop
  <1>15. ASSUME NEW t \in Thread, RunReturn(t) PROVE G
    BY <1>15 DEF RunReturn
  <1>16. ASSUME NEW t \in Thread, RunBlock(t) PROVE G
    BY <1>16 DEF RunBlock
  <1>17. ASSUME NEW t \in Thread, CvRecheck(t) PROVE G
    BY <1>17 DEF CvRecheck
  <1>18. ASSUME NEW t \in Thread, CvTimeout(t) PROVE G
    BY <1>18 DEF CvTimeout
  <1>19. ASSUME NEW t \in Thread, Poll(t) PROVE G
    <2>1. batch = {}
      BY <1>19, BatchIsEmpty DEF Poll
    <2> QED
      BY <1>19, <2>1 DEF Poll
  <1>20. ASSUME NEW t \in Thread, RunOnePop(t) PROVE G
    BY <1>20 DEF RunOnePop
  <1>21. ASSUME NEW t \in Thread, RunOnePoll(t) PROVE G
    BY <1>21 DEF RunOnePoll
  <1>22. ASSUME NEW t \in Thread, RunOneReturn(t) PROVE G
    BY <1>22 DEF RunOneReturn
  <1>23. ASSUME NEW t \in Thread, Dispatch(t) PROVE G
    <2>1. /\ pc[t] = "dispatch"
          /\ UNCHANGED <<owned, pending, timer, control, mode, limit, threads, awaits, io, now>>
      BY <1>23 DEF Dispatch
    <2>2. PICK c \in batch : Dispatched(t, c)
      BY <1>23, DispatchEffect
    <2>3. CASE resolved[c]
      BY <2>1, <2>2, <2>3 DEF Dispatched
    <2>4. CASE ~resolved[c]
      BY ONLY <2>1, <2>2, <2>4, ResolvedIsCancelled DEF ResolvedIsCancelled, threads,
         Dispatched
    <2> QED
      BY <2>3, <2>4
  <1>24. ASSUME NEW t \in Thread, DispatchDone(t) PROVE G
    BY <1>24 DEF DispatchDone
  <1>25. ASSUME NEW t \in Thread, Resume(t) PROVE G
    BY <1>25 DEF Resume
  <1>26. ASSUME NEW t \in Thread, FinishReadyItem(t) PROVE G
    BY <1>26 DEF FinishReadyItem
  <1>27. ASSUME NEW t \in Thread, EndDrive(t) PROVE G
    BY <1>27 DEF EndDrive
  <1>28. ASSUME NEW t \in Thread, NEW e \in Entry, BeginDrive(t, e) PROVE G
    BY <1>28 DEF BeginDrive
  <1>29. ASSUME NEW t \in Thread, Stop(t) PROVE G
    BY <1>29 DEF Stop
  <1>30. ASSUME NEW t \in Thread, NEW b \in {"none", "user"}, SetCompletionBackend(t, b) PROVE G
    BY <1>30 DEF SetCompletionBackend
  <1>31. ASSUME NEW t \in Thread, NEW c \in Coro, Post(t, c) PROVE G
    BY <1>31 DEF Post
  <1>32. ASSUME NEW t \in Thread, NEW c \in Coro, SpawnTask(t, c) PROVE G
    BY <1>32 DEF SpawnTask
  <1>33. ASSUME NEW t \in Thread, NEW c \in Coro, Host(t, c) PROVE G
    BY <1>33 DEF Host
  <1>34. ASSUME NEW t \in Thread, NEW c \in Coro, CancelSleep(t, c) PROVE G
    BY <1>34 DEF CancelSleep
  <1>35. ASSUME NEW t \in Thread, NEW c \in Coro, Complete(t, c) PROVE G
    BY <1>35 DEF Complete
  <1>36. ASSUME NEW t \in Thread, SpuriousWake(t) PROVE G
    BY <1>36 DEF SpuriousWake
  <1>37. ASSUME NEW c \in Coro, IoEvent(c) PROVE G
    BY <1>37 DEF IoEvent
  <1>38. ASSUME Tick PROVE G
    BY <1>38 DEF Tick
  <1>39. ASSUME UNCHANGED vars PROVE G
    BY <1>39 DEF vars
  <1> HIDE DEF TypeOK, Structure, BodiesSound, CancelsSound,
        BatchSound, IoSound, QueueSound, TimersAreLive, DriverSound, JoinsTracked, InHand,
        queue, control, frame, threads, coros, io, Never, DrivePc, CoroState, Quiet, Free,
        InBody, InSubmit, EnqueueReady, ReleaseWork, PopReady, AtLoop, Expired,
        Disarmed, OnlyRun, RunInv, ResolvedIsCancelled
  <1> QED
    BY <1>1, <1>2, <1>3, <1>4, <1>5, <1>6, <1>7, <1>8, <1>9, <1>10, <1>11, <1>12, <1>13,
       <1>14, <1>15, <1>16, <1>17, <1>18, <1>19, <1>20, <1>21, <1>22, <1>23, <1>24,
       <1>25, <1>26, <1>27, <1>28, <1>29, <1>30, <1>31, <1>32, <1>33, <1>34, <1>35,
       <1>36, <1>37, <1>38, <1>39, Zenon DEF Next, Continue, Call

LEMMA FinishStep ==
  ASSUME TypeOK, Structure, RunInv, "one" \notin Entry, [Next]_vars
  PROVE  FinishSound'
  <1> DEFINE G == FinishSound'
  <1> USE RuntimeAssumption, AppendElems, TailElems DEF TypeOK, Structure, BodiesSound,
               CancelsSound,
        BatchSound, IoSound, QueueSound, TimersAreLive, DriverSound, JoinsTracked, InHand,
        queue, control, frame, threads, coros, io, Never, DrivePc, CoroState, Quiet, Free,
        InBody, InSubmit, EnqueueReady, ReleaseWork, PopReady, AtLoop, Expired,
        Disarmed, OnlyRun, RunInv, FinishSound
  <1>1. ASSUME NEW t \in Thread, Notify(t) PROVE G
    BY <1>1 DEF Notify
  <1>2. ASSUME NEW t \in Thread, Wake(t) PROVE G
    BY <1>2 DEF Wake
  <1>3. ASSUME NEW t \in Thread, CancelTimer(t) PROVE G
    BY <1>3 DEF CancelTimer
  <1>4. ASSUME NEW t \in Thread, CancelComplete(t) PROVE G
    BY <1>4 DEF CancelComplete
  <1>5. ASSUME NEW t \in Thread, RetainWork(t) PROVE G
    BY <1>5 DEF RetainWork
  <1>6. ASSUME NEW t \in Thread, SubmitSleep(t) PROVE G
    <2>1. EndsTurn(t)
      BY <1>6, EndOfTurn
    <2> QED
      BY <2>1, EndOfTurnFinishes
  <1>7. ASSUME NEW t \in Thread, SubmitElapsedSleep(t) PROVE G
    <2>1. EndsTurn(t)
      BY <1>7, EndOfTurn
    <2> QED
      BY <2>1, EndOfTurnFinishes
  <1>8. ASSUME NEW t \in Thread, SubmitOp(t) PROVE G
    <2>1. EndsTurn(t)
      BY <1>8, EndOfTurn
    <2> QED
      BY <2>1, EndOfTurnFinishes
  <1>9. ASSUME NEW t \in Thread, SubmitFails(t) PROVE G
    BY <1>9 DEF SubmitFails
  <1>10. ASSUME NEW t \in Thread, JoinUntracked(t) PROVE G
    <2>1. EndsTurn(t)
      BY <1>10, EndOfTurn
    <2> QED
      BY <2>1, EndOfTurnFinishes
  <1>11. ASSUME NEW t \in Thread, Park(t) PROVE G
    <2>1. EndsTurn(t)
      BY <1>11, EndOfTurn
    <2> QED
      BY <2>1, EndOfTurnFinishes
  <1>12. ASSUME NEW t \in Thread, Return(t) PROVE G
    <2>1. EndsTurn(t)
      BY <1>12, EndOfTurn
    <2> QED
      BY <2>1, EndOfTurnFinishes
  <1>13. ASSUME NEW t \in Thread, RunCollect(t) PROVE G
    <2>1. batch = {}
      BY <1>13, BatchIsEmpty DEF RunCollect
    <2> QED
      BY <1>13, <2>1 DEF RunCollect
  <1>14. ASSUME NEW t \in Thread, RunPop(t) PROVE G
    BY <1>14 DEF RunPop
  <1>15. ASSUME NEW t \in Thread, RunReturn(t) PROVE G
    BY <1>15 DEF RunReturn
  <1>16. ASSUME NEW t \in Thread, RunBlock(t) PROVE G
    BY <1>16 DEF RunBlock
  <1>17. ASSUME NEW t \in Thread, CvRecheck(t) PROVE G
    BY <1>17 DEF CvRecheck
  <1>18. ASSUME NEW t \in Thread, CvTimeout(t) PROVE G
    BY <1>18 DEF CvTimeout
  <1>19. ASSUME NEW t \in Thread, Poll(t) PROVE G
    <2>1. batch = {}
      BY <1>19, BatchIsEmpty DEF Poll
    <2> QED
      BY <1>19, <2>1 DEF Poll
  <1>20. ASSUME NEW t \in Thread, RunOnePop(t) PROVE G
    BY <1>20 DEF RunOnePop
  <1>21. ASSUME NEW t \in Thread, RunOnePoll(t) PROVE G
    BY <1>21 DEF RunOnePoll
  <1>22. ASSUME NEW t \in Thread, RunOneReturn(t) PROVE G
    BY <1>22 DEF RunOneReturn
  <1>23. ASSUME NEW t \in Thread, Dispatch(t) PROVE G
    <2>1. /\ pc[t] = "dispatch"
          /\ UNCHANGED <<owned, pending, timer, control, mode, limit, threads, awaits, io, now>>
      BY <1>23 DEF Dispatch
    <2>2. PICK c \in batch : Dispatched(t, c)
      BY <1>23, DispatchEffect
    <2>3. CASE resolved[c]
      BY <2>1, <2>2, <2>3 DEF Dispatched
    <2>4. CASE ~resolved[c]
      BY ONLY <2>1, <2>2, <2>4, FinishSound, TypeOK, RuntimeAssumption DEF FinishSound,
         frame, control, TypeOK, threads, Dispatched
    <2> QED
      BY <2>3, <2>4
  <1>24. ASSUME NEW t \in Thread, DispatchDone(t) PROVE G
    BY <1>24 DEF DispatchDone
  <1>25. ASSUME NEW t \in Thread, Resume(t) PROVE G
    BY <1>25 DEF Resume
  <1>26. ASSUME NEW t \in Thread, FinishReadyItem(t) PROVE G
    BY <1>26 DEF FinishReadyItem
  <1>27. ASSUME NEW t \in Thread, EndDrive(t) PROVE G
    BY <1>27 DEF EndDrive
  <1>28. ASSUME NEW t \in Thread, NEW e \in Entry, BeginDrive(t, e) PROVE G
    BY <1>28 DEF BeginDrive
  <1>29. ASSUME NEW t \in Thread, Stop(t) PROVE G
    BY <1>29 DEF Stop
  <1>30. ASSUME NEW t \in Thread, NEW b \in {"none", "user"}, SetCompletionBackend(t, b) PROVE G
    BY <1>30 DEF SetCompletionBackend
  <1>31. ASSUME NEW t \in Thread, NEW c \in Coro, Post(t, c) PROVE G
    BY <1>31 DEF Post
  <1>32. ASSUME NEW t \in Thread, NEW c \in Coro, SpawnTask(t, c) PROVE G
    BY <1>32 DEF SpawnTask
  <1>33. ASSUME NEW t \in Thread, NEW c \in Coro, Host(t, c) PROVE G
    BY <1>33 DEF Host
  <1>34. ASSUME NEW t \in Thread, NEW c \in Coro, CancelSleep(t, c) PROVE G
    BY <1>34 DEF CancelSleep
  <1>35. ASSUME NEW t \in Thread, NEW c \in Coro, Complete(t, c) PROVE G
    BY <1>35 DEF Complete
  <1>36. ASSUME NEW t \in Thread, SpuriousWake(t) PROVE G
    BY <1>36 DEF SpuriousWake
  <1>37. ASSUME NEW c \in Coro, IoEvent(c) PROVE G
    BY <1>37 DEF IoEvent
  <1>38. ASSUME Tick PROVE G
    BY <1>38 DEF Tick
  <1>39. ASSUME UNCHANGED vars PROVE G
    BY <1>39 DEF vars
  <1> HIDE DEF TypeOK, Structure, BodiesSound, CancelsSound,
        BatchSound, IoSound, QueueSound, TimersAreLive, DriverSound, JoinsTracked, InHand,
        queue, control, frame, threads, coros, io, Never, DrivePc, CoroState, Quiet, Free,
        InBody, InSubmit, EnqueueReady, ReleaseWork, PopReady, AtLoop, Expired,
        Disarmed, OnlyRun, RunInv, FinishSound
  <1> QED
    BY <1>1, <1>2, <1>3, <1>4, <1>5, <1>6, <1>7, <1>8, <1>9, <1>10, <1>11, <1>12, <1>13,
       <1>14, <1>15, <1>16, <1>17, <1>18, <1>19, <1>20, <1>21, <1>22, <1>23, <1>24,
       <1>25, <1>26, <1>27, <1>28, <1>29, <1>30, <1>31, <1>32, <1>33, <1>34, <1>35,
       <1>36, <1>37, <1>38, <1>39, Zenon DEF Next, Continue, Call

LEMMA WakeStep ==
  ASSUME TypeOK, TypeOK', Structure, WakeInv, [Next]_vars
  PROVE  WakeInv'
  <1> DEFINE G == WakeInv'
  <1>0. MaxTime \in Nat
    BY RuntimeAssumption
  <1> USE RuntimeAssumption, AppendElems, TailElems DEF TypeOK, Structure, BodiesSound,
               CancelsSound,
        BatchSound, IoSound, QueueSound, TimersAreLive, DriverSound, JoinsTracked, InHand,
        queue, control, frame, threads, coros, io, Never, DrivePc, CoroState, Quiet, Free,
        InBody, InSubmit, EnqueueReady, ReleaseWork, PopReady, AtLoop, Expired,
        Disarmed, Backend, WakeInv, NoLostWakeup, WaitOver, Signal, Earlier,
        IsNextDeadline
  <1>1. ASSUME NEW t \in Thread, Notify(t) PROVE G
    BY <1>1 DEF Notify
  <1>2. ASSUME NEW t \in Thread, Wake(t) PROVE G
    <2>1. PICK b \in tail[t] : tail' = [tail EXCEPT ![t] = @ \ {b}] /\ latch' = latch \cup {b}
      BY <1>2 DEF Wake
    <2>2. /\ UNCHANGED <<queue, timer, control, frame, threads>> /\ "cv" \notin tail[t]
      BY <1>2 DEF Wake
    <2>3. tail'[t] = tail[t] \ {b} /\ \A u \in Thread \ {t} : tail'[u] = tail[u]
      BY <2>1
    <2>4. WaitOver' = WaitOver
      BY <2>2
    <2> HIDE DEF WaitOver
    <2>5. ASSUME NEW u \in Thread, NEW x \in tail[u]
          PROVE  x \in tail'[u] \/ (x = b /\ x # "cv")
      <3>1. CASE u = t
        BY ONLY <2>1, <2>2, <2>3, <2>5, <3>1
      <3>2. CASE u # t
        BY ONLY <2>3, <2>5, <3>2
      <3> QED
        BY <3>1, <3>2
    <2> QED
      BY ONLY <2>1, <2>2, <2>4, <2>5, WakeInv
  <1>3. ASSUME NEW t \in Thread, CancelTimer(t) PROVE G
    BY <1>3 DEF CancelTimer
  <1>4. ASSUME NEW t \in Thread, CancelComplete(t) PROVE G
    BY <1>4 DEF CancelComplete
  <1>5. ASSUME NEW t \in Thread, RetainWork(t) PROVE G
    <2>1. /\ UNCHANGED <<timer, tail, control, frame, latch>>
          /\ \A u \in Thread : pc'[u] \in {"cv", "poll"} => pc[u] = pc'[u]
      BY <1>5 DEF RetainWork
    <2>2. WaitOver' => WaitOver
      BY <1>5 DEF RetainWork
    <2> HIDE DEF WaitOver
    <2> QED
      BY ONLY <2>1, <2>2, WakeInv
  <1>6. ASSUME NEW t \in Thread, SubmitSleep(t) PROVE G
    <2>1. EndsTurn(t) /\ ArmsTimer(t)
      BY <1>6, EndOfTurn
    <2> QED
      BY <2>1, EndOfTurnWakes
  <1>7. ASSUME NEW t \in Thread, SubmitElapsedSleep(t) PROVE G
    <2>1. EndsTurn(t) /\ ArmsTimer(t)
      BY <1>7, EndOfTurn
    <2> QED
      BY <2>1, EndOfTurnWakes
  <1>8. ASSUME NEW t \in Thread, SubmitOp(t) PROVE G
    <2>1. EndsTurn(t) /\ ArmsTimer(t)
      BY <1>8, EndOfTurn
    <2> QED
      BY <2>1, EndOfTurnWakes
  <1>9. ASSUME NEW t \in Thread, SubmitFails(t) PROVE G
    BY <1>9 DEF SubmitFails
  <1>10. ASSUME NEW t \in Thread, JoinUntracked(t) PROVE G
    <2>1. EndsTurn(t) /\ ArmsTimer(t)
      BY <1>10, EndOfTurn
    <2> QED
      BY <2>1, EndOfTurnWakes
  <1>11. ASSUME NEW t \in Thread, Park(t) PROVE G
    <2>1. EndsTurn(t) /\ ArmsTimer(t)
      BY <1>11, EndOfTurn
    <2> QED
      BY <2>1, EndOfTurnWakes
  <1>12. ASSUME NEW t \in Thread, Return(t) PROVE G
    <2>1. EndsTurn(t) /\ ArmsTimer(t)
      BY <1>12, EndOfTurn
    <2> QED
      BY <2>1, EndOfTurnWakes
  <1>13. ASSUME NEW t \in Thread, RunCollect(t) PROVE G
    <2>1. batch = {}
      BY <1>13, BatchIsEmpty DEF RunCollect
    <2> QED
      BY <1>13, <2>1 DEF RunCollect
  <1>14. ASSUME NEW t \in Thread, RunPop(t) PROVE G
    BY <1>14 DEF RunPop
  <1>15. ASSUME NEW t \in Thread, RunReturn(t) PROVE G
    BY <1>15 DEF RunReturn
  <1>16. ASSUME NEW t \in Thread, RunBlock(t) PROVE G
    BY <1>16 DEF RunBlock
  <1>17. ASSUME NEW t \in Thread, CvRecheck(t) PROVE G
    BY <1>17 DEF CvRecheck
  <1>18. ASSUME NEW t \in Thread, CvTimeout(t) PROVE G
    BY <1>18 DEF CvTimeout
  <1>19. ASSUME NEW t \in Thread, Poll(t) PROVE G
    <2>1. batch = {}
      BY <1>19, BatchIsEmpty DEF Poll
    <2> QED
      BY <1>19, <2>1 DEF Poll
  <1>20. ASSUME NEW t \in Thread, RunOnePop(t) PROVE G
    BY <1>20, SMTT(30) DEF RunOnePop
  <1>21. ASSUME NEW t \in Thread, RunOnePoll(t) PROVE G
    BY <1>21 DEF RunOnePoll
  <1>22. ASSUME NEW t \in Thread, RunOneReturn(t) PROVE G
    BY <1>22 DEF RunOneReturn
  <1>23. ASSUME NEW t \in Thread, Dispatch(t) PROVE G
    <2>1. /\ pc[t] = "dispatch"
          /\ UNCHANGED <<owned, pending, timer, control, mode, limit, threads, awaits, io, now>>
      BY <1>23 DEF Dispatch
    <2>2. PICK c \in batch : Dispatched(t, c)
      BY <1>23, DispatchEffect
    <2>3. CASE resolved[c]
      BY <2>1, <2>2, <2>3 DEF Dispatched
    <2>4. CASE ~resolved[c]
      BY ONLY <2>1, <2>2, <2>4, WakeInv, TypeOK, <1>0
    <2> QED
      BY <2>3, <2>4
  <1>24. ASSUME NEW t \in Thread, DispatchDone(t) PROVE G
    BY <1>24 DEF DispatchDone
  <1>25. ASSUME NEW t \in Thread, Resume(t) PROVE G
    BY <1>25 DEF Resume
  <1>26. ASSUME NEW t \in Thread, FinishReadyItem(t) PROVE G
    BY <1>26 DEF FinishReadyItem
  <1>27. ASSUME NEW t \in Thread, EndDrive(t) PROVE G
    BY <1>27 DEF EndDrive
  <1>28. ASSUME NEW t \in Thread, NEW e \in Entry, BeginDrive(t, e) PROVE G
    BY <1>28 DEF BeginDrive
  <1>29. ASSUME NEW t \in Thread, Stop(t) PROVE G
    BY <1>29 DEF Stop
  <1>30. ASSUME NEW t \in Thread, NEW b \in {"none", "user"}, SetCompletionBackend(t, b) PROVE G
    BY <1>30 DEF SetCompletionBackend
  <1>31. ASSUME NEW t \in Thread, NEW c \in Coro, Post(t, c) PROVE G
    BY <1>31 DEF Post
  <1>32. ASSUME NEW t \in Thread, NEW c \in Coro, SpawnTask(t, c) PROVE G
    BY <1>32 DEF SpawnTask
  <1>33. ASSUME NEW t \in Thread, NEW c \in Coro, Host(t, c) PROVE G
    <2>1. /\ UNCHANGED <<timer, tail, control, frame, latch>>
          /\ \A u \in Thread : pc'[u] \in {"cv", "poll"} => pc[u] = pc'[u]
      BY <1>33 DEF Host
    <2>2. WaitOver' => WaitOver
      BY <1>33 DEF Host
    <2> HIDE DEF WaitOver
    <2> QED
      BY ONLY <2>1, <2>2, WakeInv
  <1>34. ASSUME NEW t \in Thread, NEW c \in Coro, CancelSleep(t, c) PROVE G
    BY <1>34 DEF CancelSleep
  <1>35. ASSUME NEW t \in Thread, NEW c \in Coro, Complete(t, c) PROVE G
    BY <1>35 DEF Complete
  <1>36. ASSUME NEW t \in Thread, SpuriousWake(t) PROVE G
    BY <1>36 DEF SpuriousWake
  <1>37. ASSUME NEW c \in Coro, IoEvent(c) PROVE G
    BY <1>37 DEF IoEvent
  <1>38. ASSUME Tick PROVE G
    BY <1>38 DEF Tick
  <1>39. ASSUME UNCHANGED vars PROVE G
    BY <1>39 DEF vars
  <1> HIDE DEF TypeOK, Structure, BodiesSound, CancelsSound,
        BatchSound, IoSound, QueueSound, TimersAreLive, DriverSound, JoinsTracked, InHand,
        queue, control, frame, threads, coros, io, Never, DrivePc, CoroState, Quiet, Free,
        InBody, InSubmit, EnqueueReady, ReleaseWork, PopReady, AtLoop, Expired,
        Disarmed, Backend, WakeInv, NoLostWakeup, WaitOver, Signal, Earlier,
        IsNextDeadline
  <1> QED
    BY <1>1, <1>2, <1>3, <1>4, <1>5, <1>6, <1>7, <1>8, <1>9, <1>10, <1>11, <1>12, <1>13,
       <1>14, <1>15, <1>16, <1>17, <1>18, <1>19, <1>20, <1>21, <1>22, <1>23, <1>24,
       <1>25, <1>26, <1>27, <1>28, <1>29, <1>30, <1>31, <1>32, <1>33, <1>34, <1>35,
       <1>36, <1>37, <1>38, <1>39, Zenon DEF Next, Continue, Call


LEMMA RunInvInit == Init => RunInv
  BY DEF Init, RunInv, OnlyRun, QueuedThere, SleepersCanWake, ResolvedIsCancelled,
     FinishSound

LEMMA RunInvHolds ==
  ASSUME "one" \notin Entry
  PROVE  Spec => []RunInv
  <1>1. Init => RunInv
    BY RunInvInit
  <1>2. IInv /\ RunInv /\ [Next]_vars => RunInv'
    <2> SUFFICES ASSUME TypeOK, Structure, RunInv, [Next]_vars
                 PROVE  RunInv'
      BY DEF IInv
    <2> QED
      BY OnlyRunStep, QueuedThereStep, SleepersStep, ResolvedStep, FinishStep DEF RunInv
  <1>3. QED
    BY <1>1, <1>2, InvariantHolds, PTL DEF Spec

-----------------------------------------------------------------------------
(* The event loop implements Executor.                                     *)

\* What the refinement rests on: nobody drives with run_one(), and joins are tracked.
RunsOnly == "one" \notin Entry /\ "join" \notin Await

Seen == <<AbstractState, ready, AbstractExecuting, ~stopped, AbstractDriven>>

\* c, and c alone, goes from one state of the Executor to another.
Moves(c, from, to) ==
  /\ c \in Coro /\ StateOf(c) = from /\ StateOf(c)' = to
  /\ \A d \in Coro \ {c} : StateOf(d)' = StateOf(d)

DriverStays == UNCHANGED <<AbstractExecuting, AbstractDriven, stopped>>

LEMMA StateCases ==
  ASSUME NEW c, co[c] \in CoroState
  PROVE  /\ StateOf(c) = "suspended" => co[c] \in {"sleeping", "io", "waiting"}
         /\ StateOf(c) = "running" =>
              co[c] \in {"running", "retained"} \/ (co[c] = "queued" /\ c \notin Elems(ready))
  <1>1. CASE co[c] = "new"
    BY <1>1 DEF StateOf
  <1>5. CASE co[c] \in {"running", "retained", "sleeping", "io", "waiting"}
    BY <1>5 DEF StateOf
  <1>2. CASE co[c] = "queued"
    BY <1>2 DEF StateOf
  <1>3. CASE co[c] \in {"parked", "untracked"}
    BY <1>3 DEF StateOf
  <1>4. CASE co[c] = "done"
    BY <1>4 DEF StateOf
  <1> QED
    BY <1>1, <1>2, <1>3, <1>4, <1>5 DEF CoroState

LEMMA MoveEffect ==
  ASSUME NEW c, NEW from, NEW to, Moves(c, from, to)
  PROVE  /\ AbstractState[c] = from /\ c \in Coro
         /\ AbstractState' = [AbstractState EXCEPT ![c] = to]
  BY DEF Moves, AbstractState

LEMMA NothingMoves ==
  ASSUME \A d \in Coro : StateOf(d)' = StateOf(d), ready' = ready, DriverStays
  PROVE  UNCHANGED Abstract!vars
  BY DEF Abstract!vars, AbstractState, DriverStays

LEMMA EnqueueMoves ==
  ASSUME TypeOK, NEW t \in Thread, NEW c \in Coro, NEW from, StateOf(c) = from,
         ready' = Append(ready, c), co'[c] = "queued",
         \A d \in Coro \ {c} : co'[d] = co[d]
  PROVE  Moves(c, from, "ready")
  <1>1. Elems(ready') = Elems(ready) \cup {c}
    BY Queued
  <1> QED
    BY <1>1 DEF Moves, StateOf

LEMMA WakeSteps ==
  ASSUME NEW c, NEW from \in {"suspended", "running"}, Moves(c, from, "ready"),
         ready' = Append(ready, c), DriverStays
  PROVE  Abstract!Next
  <1>1. Abstract!Wake(c) /\ c \in Coro
    BY MoveEffect DEF Abstract!Wake, Abstract!Enqueue, Abstract!Become, DriverStays
  <1> QED
    BY <1>1 DEF Abstract!Next

LEMMA AcceptSteps ==
  ASSUME NEW c, NEW from \in {"fresh", "detached"}, Moves(c, from, "ready"),
         ready' = Append(ready, c), ~stopped, DriverStays
  PROVE  Abstract!Next
  <1>1. Abstract!Accept(c) /\ c \in Coro
    BY MoveEffect DEF Abstract!Accept, Abstract!Enqueue, Abstract!Become, DriverStays
  <1> QED
    BY <1>1 DEF Abstract!Next

\* The end of a turn is a Stop, or a Wake when the coroutine is ready again at once.
LEMMA EndOfTurnSteps ==
  ASSUME TypeOK, TypeOK', Structure, NEW t \in Thread, EndsTurn(t)
  PROVE  Abstract!Next
  <1>0. PICK c \in Coro : c = cur[t]
    BY DEF EndsTurn
  <1>1. StateOf(c) = "running" /\ \A d \in Coro \ {c} : co'[d] = co[d]
    BY <1>0 DEF EndsTurn, StateOf
  <1>2. DriverStays
    <2>1. driver' = driver /\ stopped' = stopped
      BY DEF EndsTurn, control
    <2>2. CASE driver = t
      BY <2>1, <2>2 DEF EndsTurn, DriverStays, AbstractExecuting, AbstractDriven
    <2>3. CASE driver # t
      <3>1. driver # NoThread => driver \in Thread \ {t}
        BY <2>3 DEF TypeOK
      <3>2. driver # NoThread => pc'[driver] = pc[driver] /\ cur'[driver] = cur[driver]
        BY <3>1 DEF EndsTurn
      <3> QED
        BY <2>1, <3>2 DEF DriverStays, AbstractExecuting, AbstractDriven
    <2> QED
      BY <2>2, <2>3
  <1>3. CASE ready' = ready /\ co'[c] # "queued"
    <2>1. co'[c] \in CoroState \ {"new", "running", "retained", "queued"}
      BY <1>0, <1>1, <1>3 DEF EndsTurn, TypeOK
    <2>2. PICK s \in {"suspended", "detached", "done"} : StateOf(c)' = s
      <3>1. CASE co'[c] \in {"sleeping", "io", "waiting"}
        BY <3>1 DEF StateOf
      <3>2. CASE co'[c] \in {"parked", "untracked"}
        BY <3>2 DEF StateOf
      <3>3. CASE co'[c] = "done"
        BY <3>3 DEF StateOf
      <3> QED
        BY <2>1, <3>1, <3>2, <3>3 DEF CoroState
    <2>3. Moves(c, "running", s)
      BY <1>1, <1>3, <2>2 DEF Moves, StateOf
    <2>4. Abstract!Stop(c)
      BY <1>2, <1>3, <2>2, <2>3, MoveEffect DEF Abstract!Stop, Abstract!Become,
         DriverStays
    <2> QED
      BY <1>1, <2>4 DEF Abstract!Next
  <1>4. CASE ready' = Append(ready, c) /\ co'[c] = "queued"
    <2>1. Moves(c, "running", "ready")
      BY <1>1, <1>4, EnqueueMoves
    <2> QED
      BY <1>2, <1>4, <2>1, WakeSteps
  <1> QED
    BY <1>0, <1>3, <1>4 DEF EndsTurn

LEMMA NothingCounted ==
  ASSUME TypeOK, WorkAccounted, pending = 0
  PROVE  Counted = {}
  <1>1. IsFiniteSet(Counted)
    BY RuntimeAssumption, FS_Subset DEF Counted
  <1>2. Cardinality(Counted) \in Nat /\ (Cardinality(Counted) = 0 <=> Counted = {})
    BY <1>1, FS_CardinalityType, FS_EmptySet
  <1> QED
    BY <1>2 DEF WorkAccounted

LEMMA ExecutorStep ==
  ASSUME RunsOnly, TypeOK, TypeOK', Structure, WorkAccounted, RunInv, [Next]_vars
  PROVE  [Abstract!Next]_(Abstract!vars)
  <1> DEFINE G == [Abstract!Next]_(Abstract!vars)
  <1>0. OnlyRun /\ QueuedThere /\ FinishSound /\ "join" \notin Await
    BY DEF RunInv, RunsOnly
  <1> USE <1>0
  <1>1. ASSUME NEW t \in Thread, Notify(t) PROVE G
    <2>1. (\A d \in Coro : StateOf(d)' = StateOf(d)) /\ ready' = ready
      BY <1>1 DEF Notify, StateOf, queue, coros
    <2>2. DriverStays
      BY <1>1, RuntimeAssumption DEF Notify, DriverStays, AbstractExecuting,
         AbstractDriven, TypeOK, control
    <2> QED
      BY <2>1, <2>2, NothingMoves
  <1>2. ASSUME NEW t \in Thread, Wake(t) PROVE G
    <2>1. (\A d \in Coro : StateOf(d)' = StateOf(d)) /\ ready' = ready
      BY <1>2 DEF Wake, StateOf, queue, coros
    <2>2. DriverStays
      BY <1>2, RuntimeAssumption DEF Wake, DriverStays, AbstractExecuting,
         AbstractDriven, control, threads
    <2> QED
      BY <2>1, <2>2, NothingMoves
  <1>3. ASSUME NEW t \in Thread, CancelTimer(t) PROVE G
    <2>1. (\A d \in Coro : StateOf(d)' = StateOf(d)) /\ ready' = ready
      BY <1>3 DEF CancelTimer, StateOf, queue, coros
    <2>2. DriverStays
      BY <1>3, RuntimeAssumption DEF CancelTimer, DriverStays, AbstractExecuting,
         AbstractDriven, control, threads
    <2> QED
      BY <2>1, <2>2, NothingMoves
  <1>4. ASSUME NEW t \in Thread, CancelComplete(t) PROVE G
    <2>0. PICK c : c = cancelling[t]
      OBVIOUS
    <2>1. /\ c \in Coro /\ StateOf(c) = "suspended"
          /\ EnqueueReady(t, c)
      BY <1>4, <2>0 DEF CancelComplete, StateOf, TypeOK, Structure, CancelsSound
    <2>2. /\ ready' = Append(ready, c) /\ co'[c] = "queued"
          /\ \A d \in Coro \ {c} : co'[d] = co[d]
      BY <2>1 DEF EnqueueReady, TypeOK
    <2>3. DriverStays
      BY <1>4 DEF CancelComplete, DriverStays, AbstractExecuting, AbstractDriven,
         control, threads
    <2>4. Moves(c, StateOf(c), "ready")
      BY <2>1, <2>2, EnqueueMoves
    <2> QED
      BY <2>1, <2>2, <2>3, <2>4, WakeSteps
  <1>5. ASSUME NEW t \in Thread, RetainWork(t) PROVE G
    <2>0. PICK c : c = cur[t]
      OBVIOUS
    <2>1. /\ c \in Coro /\ co[c] = "running" /\ ready' = ready
          /\ co' = [co EXCEPT ![c] = "retained"]
      BY <1>5, <2>0 DEF RetainWork, TypeOK, Structure, BodiesSound, InBody
    <2>2. \A d \in Coro : StateOf(d)' = StateOf(d)
      <3>1. co'[c] = "retained" /\ \A d \in Coro \ {c} : co'[d] = co[d]
        BY <2>1 DEF TypeOK
      <3>2. StateOf(c)' = StateOf(c)
        BY <2>1, <3>1 DEF StateOf
      <3> QED
        BY <2>1, <3>1, <3>2 DEF StateOf
    <2>3. DriverStays
      BY <1>5, RuntimeAssumption DEF RetainWork, DriverStays, AbstractExecuting,
         AbstractDriven, control, InBody
    <2> QED
      BY <2>1, <2>2, <2>3, NothingMoves
  <1>6. ASSUME NEW t \in Thread, SubmitSleep(t) PROVE G
    BY <1>6, EndOfTurn, EndOfTurnSteps
  <1>7. ASSUME NEW t \in Thread, SubmitElapsedSleep(t) PROVE G
    BY <1>7, EndOfTurn, EndOfTurnSteps
  <1>8. ASSUME NEW t \in Thread, SubmitOp(t) PROVE G
    BY <1>8, EndOfTurn, EndOfTurnSteps
  <1>9. ASSUME NEW t \in Thread, SubmitFails(t) PROVE G
    <2>0. PICK c : c = cur[t]
      OBVIOUS
    <2>1. /\ c \in Coro /\ co[c] = "retained" /\ ready' = ready
          /\ co' = [co EXCEPT ![c] = "running"]
      BY <1>9, <2>0 DEF SubmitFails, TypeOK, Structure, BodiesSound, InSubmit
    <2>2. \A d \in Coro : StateOf(d)' = StateOf(d)
      <3>1. co'[c] = "running" /\ \A d \in Coro \ {c} : co'[d] = co[d]
        BY <2>1 DEF TypeOK
      <3>2. StateOf(c)' = StateOf(c)
        BY <2>1, <3>1 DEF StateOf
      <3> QED
        BY <2>1, <3>1, <3>2 DEF StateOf
    <2>3. DriverStays
      BY <1>9, RuntimeAssumption DEF SubmitFails, DriverStays, AbstractExecuting,
         AbstractDriven, control, InSubmit
    <2> QED
      BY <2>1, <2>2, <2>3, NothingMoves
  <1>10. ASSUME NEW t \in Thread, JoinUntracked(t) PROVE G
    BY <1>10, EndOfTurn, EndOfTurnSteps
  <1>11. ASSUME NEW t \in Thread, Park(t) PROVE G
    BY <1>11, EndOfTurn, EndOfTurnSteps
  <1>12. ASSUME NEW t \in Thread, Return(t) PROVE G
    BY <1>12, EndOfTurn, EndOfTurnSteps
  <1>13. ASSUME NEW t \in Thread, RunCollect(t) PROVE G
    <2>1. (\A d \in Coro : StateOf(d)' = StateOf(d)) /\ ready' = ready
      BY <1>13 DEF RunCollect, StateOf, queue, coros
    <2>2. DriverStays
      BY <1>13, RuntimeAssumption DEF RunCollect, DriverStays, AbstractExecuting,
         AbstractDriven, control, AtLoop
    <2> QED
      BY <2>1, <2>2, NothingMoves
  <1>14. ASSUME NEW t \in Thread, RunPop(t) PROVE G
    <2>0. PICK c : c = Head(ready)
      OBVIOUS
    <2>1. /\ t = driver /\ driver # NoThread /\ pc[t] = "loop" /\ cur[t] = NoCoro
          /\ ready \in Seq(Coro) /\ ready # <<>> /\ Distinct(ready)
          /\ cur' = [cur EXCEPT ![t] = c] /\ ready' = Tail(ready)
          /\ pc' = [pc EXCEPT ![t] = "resume"]
          /\ UNCHANGED <<co, driver, stopped>>
      BY <1>14, <2>0, RuntimeAssumption DEF RunPop, PopReady, TypeOK, Structure,
         QueueSound, DriverSound, control, coros, AtLoop
    <2>2. c \in Elems(ready) /\ Elems(ready') = Elems(ready) \ {c} /\ c \in Coro
      BY <2>0, <2>1, TailElems, ElemsInSet
    <2>3. co[c] = "queued"
      BY <2>2 DEF Structure, QueueSound
    <2>4. Moves(c, "ready", "running")
      <3>1. StateOf(c) = "ready" /\ StateOf(c)' = "running"
        BY <2>1, <2>2, <2>3 DEF StateOf
      <3>2. ASSUME NEW d \in Coro \ {c} PROVE StateOf(d)' = StateOf(d)
        <4>1. d \in Elems(ready') <=> d \in Elems(ready)
          BY <2>2, <3>2
        <4> QED
          BY <2>1, <4>1 DEF StateOf
      <3> QED
        BY <2>2, <3>1, <3>2 DEF Moves
    <2>5. /\ AbstractDriven /\ AbstractDriven' /\ AbstractExecuting = NoCoro
          /\ AbstractExecuting' = c
      BY <2>1 DEF AbstractDriven, AbstractExecuting, TypeOK
    <2>6. Abstract!Take
      BY <2>0, <2>1, <2>2, <2>4, <2>5, MoveEffect DEF Abstract!Take, Abstract!Become
    <2> QED
      BY <2>6 DEF Abstract!Next
  <1>15. ASSUME NEW t \in Thread, RunReturn(t) PROVE G
    <2>1. /\ t = driver /\ driver # NoThread /\ pc[t] = "loop" /\ cur[t] = NoCoro
          /\ ready = <<>> /\ stopped /\ pending = 0
          /\ pc' = [pc EXCEPT ![t] = "end"]
          /\ UNCHANGED <<co, ready, cur, driver, stopped>>
      BY <1>15, RuntimeAssumption DEF RunReturn, TypeOK, Structure, DriverSound, queue,
         control, coros, AtLoop
    <2>2. \A c \in Coro : StateOf(c) # "suspended"
      <3>1. \A c \in Coro : co[c] \notin {"sleeping", "io", "waiting"}
        BY <2>1, NothingCounted DEF Counted, Tracked
      <3> QED
        BY <3>1, StateCases DEF TypeOK
    <2>3. AbstractState' = AbstractState /\ \A c \in Coro : AbstractState[c] # "suspended"
      <3>1. \A d \in Coro : StateOf(d)' = StateOf(d)
        BY <2>1 DEF StateOf
      <3> QED
        BY <2>2, <3>1 DEF AbstractState
    <2>4. /\ AbstractDriven /\ ~AbstractDriven' /\ AbstractExecuting = NoCoro
          /\ AbstractExecuting' = NoCoro
      BY <2>1 DEF AbstractDriven, AbstractExecuting, TypeOK
    <2>5. Abstract!Leave
      BY <2>1, <2>3, <2>4 DEF Abstract!Leave
    <2> QED
      BY <2>5 DEF Abstract!Next
  <1>16. ASSUME NEW t \in Thread, RunBlock(t) PROVE G
    <2>1. (\A d \in Coro : StateOf(d)' = StateOf(d)) /\ ready' = ready
      BY <1>16 DEF RunBlock, StateOf, queue, coros
    <2>2. DriverStays
      BY <1>16, RuntimeAssumption DEF RunBlock, DriverStays, AbstractExecuting,
         AbstractDriven, control, AtLoop
    <2> QED
      BY <2>1, <2>2, NothingMoves
  <1>17. ASSUME NEW t \in Thread, CvRecheck(t) PROVE G
    <2>1. (\A d \in Coro : StateOf(d)' = StateOf(d)) /\ ready' = ready
      BY <1>17 DEF CvRecheck, StateOf, queue, coros
    <2>2. DriverStays
      BY <1>17, RuntimeAssumption DEF CvRecheck, DriverStays, AbstractExecuting,
         AbstractDriven, control
    <2> QED
      BY <2>1, <2>2, NothingMoves
  <1>18. ASSUME NEW t \in Thread, CvTimeout(t) PROVE G
    <2>1. (\A d \in Coro : StateOf(d)' = StateOf(d)) /\ ready' = ready
      BY <1>18 DEF CvTimeout, StateOf, queue, coros
    <2>2. DriverStays
      BY <1>18, RuntimeAssumption DEF CvTimeout, DriverStays, AbstractExecuting,
         AbstractDriven, control
    <2> QED
      BY <2>1, <2>2, NothingMoves
  <1>19. ASSUME NEW t \in Thread, Poll(t) PROVE G
    <2>1. (\A d \in Coro : StateOf(d)' = StateOf(d)) /\ ready' = ready
      BY <1>19 DEF Poll, StateOf, queue, coros
    <2>2. DriverStays
      BY <1>19, RuntimeAssumption DEF Poll, DriverStays, AbstractExecuting,
         AbstractDriven, control
    <2> QED
      BY <2>1, <2>2, NothingMoves
  <1>20. ASSUME NEW t \in Thread, RunOnePop(t) PROVE G
    BY <1>20 DEF RunOnePop, AtLoop, OnlyRun
  <1>21. ASSUME NEW t \in Thread, RunOnePoll(t) PROVE G
    BY <1>21 DEF RunOnePoll, AtLoop, OnlyRun
  <1>22. ASSUME NEW t \in Thread, RunOneReturn(t) PROVE G
    BY <1>22 DEF RunOneReturn, AtLoop, OnlyRun
  <1>23. ASSUME NEW t \in Thread, Dispatch(t) PROVE G
    <2>1. PICK c \in batch : Dispatched(t, c)
      BY <1>23, DispatchEffect
    <2>2. DriverStays
      BY <1>23 DEF Dispatch, DriverStays, AbstractExecuting, AbstractDriven, control,
         threads
    <2>3. CASE UNCHANGED <<ready, co>>
      <3>1. \A d \in Coro : StateOf(d)' = StateOf(d)
        BY <2>3 DEF StateOf
      <3> QED
        BY <2>2, <2>3, <3>1, NothingMoves
    <2>4. CASE ~resolved[c]
      <3>1. c \in Coro /\ co[c] \in {"sleeping", "io"}
        BY <2>1, <2>4 DEF Dispatched, Structure, BatchSound
      <3>2. /\ ready' = Append(ready, c) /\ co'[c] = "queued"
            /\ \A d \in Coro \ {c} : co'[d] = co[d]
        BY <2>1, <2>4 DEF Dispatched
      <3>3. Moves(c, "suspended", "ready")
        <4>1. StateOf(c) = "suspended"
          BY <3>1 DEF StateOf
        <4> QED
          BY <3>1, <3>2, <4>1, EnqueueMoves
      <3> QED
        BY <2>2, <3>2, <3>3, WakeSteps
    <2> QED
      BY <2>1, <2>3, <2>4 DEF Dispatched
  <1>24. ASSUME NEW t \in Thread, DispatchDone(t) PROVE G
    <2>1. (\A d \in Coro : StateOf(d)' = StateOf(d)) /\ ready' = ready
      BY <1>24 DEF DispatchDone, StateOf, queue, coros
    <2>2. DriverStays
      BY <1>24, RuntimeAssumption DEF DispatchDone, DriverStays, AbstractExecuting,
         AbstractDriven, OnlyRun, control
    <2> QED
      BY <2>1, <2>2, NothingMoves
  <1>25. ASSUME NEW t \in Thread, Resume(t) PROVE G
    <2>0. PICK c : c = cur[t]
      OBVIOUS
    <2>1. /\ c \in Coro /\ co[c] = "queued" /\ ready' = ready /\ c \notin Elems(ready)
          /\ co' = [co EXCEPT ![c] = "running"]
      BY <1>25, <2>0 DEF Resume, TypeOK, Structure, QueueSound, queue
    <2>2. \A d \in Coro : StateOf(d)' = StateOf(d)
      <3>1. co'[c] = "running" /\ \A d \in Coro \ {c} : co'[d] = co[d]
        BY <2>1 DEF TypeOK
      <3>2. StateOf(c)' = StateOf(c)
        BY <2>1, <3>1 DEF StateOf
      <3> QED
        BY <2>1, <3>1, <3>2 DEF StateOf
    <2>3. DriverStays
      BY <1>25, RuntimeAssumption DEF Resume, DriverStays, AbstractExecuting,
         AbstractDriven, control
    <2> QED
      BY <2>1, <2>2, <2>3, NothingMoves
  <1>26. ASSUME NEW t \in Thread, FinishReadyItem(t) PROVE G
    <2>1. /\ t = driver /\ driver # NoThread /\ pc[t] = "finish" /\ cur[t] \in Coro
          /\ UNCHANGED <<co, ready, driver, stopped>>
          /\ pc' = [pc EXCEPT ![t] = "loop"] /\ cur' = [cur EXCEPT ![t] = NoCoro]
      BY <1>26, RuntimeAssumption DEF FinishReadyItem, TypeOK, OnlyRun, control, coros
    <2>2. StateOf(cur[t]) # "running"
      <3>1. ~InHand(cur[t])
        BY <2>1 DEF InHand, TypeOK, DrivePc
      <3>2. co[cur[t]] \in CoroState \ {"running", "retained"}
        BY <2>1 DEF FinishSound, TypeOK
      <3>3. co[cur[t]] = "queued" => cur[t] \in Elems(ready)
        BY <2>1, <3>1 DEF QueuedThere
      <3> QED
        BY <3>2, <3>3, StateCases
    <2>3. AbstractState' = AbstractState /\ AbstractState[cur[t]] # "running"
      <3>1. \A d \in Coro : StateOf(d)' = StateOf(d)
        BY <2>1 DEF StateOf
      <3> QED
        BY <2>1, <2>2, <3>1 DEF AbstractState
    <2>4. /\ AbstractDriven' = AbstractDriven /\ AbstractExecuting = cur[t]
          /\ AbstractExecuting' = NoCoro
      BY <2>1 DEF AbstractDriven, AbstractExecuting, TypeOK
    <2>5. Abstract!TurnOver
      BY <2>1, <2>3, <2>4, RuntimeAssumption DEF Abstract!TurnOver
    <2> QED
      BY <2>5 DEF Abstract!Next
  <1>27. ASSUME NEW t \in Thread, EndDrive(t) PROVE G
    <2>1. (\A d \in Coro : StateOf(d)' = StateOf(d)) /\ ready' = ready
      BY <1>27 DEF EndDrive, StateOf, queue, coros
    <2>2. DriverStays
      BY <1>27, RuntimeAssumption DEF EndDrive, DriverStays, AbstractExecuting,
         AbstractDriven, TypeOK, Structure, DriverSound
    <2> QED
      BY <2>1, <2>2, NothingMoves
  <1>28. ASSUME NEW t \in Thread, NEW e \in Entry, BeginDrive(t, e) PROVE G
    <2>1. /\ driver = NoThread /\ driver' = t /\ cur[t] = NoCoro
          /\ UNCHANGED <<co, ready, cur, stopped>> /\ pc' = [pc EXCEPT ![t] = "loop"]
      BY <1>28 DEF BeginDrive, Structure, DriverSound, queue, coros
    <2>2. AbstractState' = AbstractState
      BY <2>1 DEF AbstractState, StateOf
    <2>3. /\ ~AbstractDriven /\ AbstractDriven' /\ AbstractExecuting = NoCoro
          /\ AbstractExecuting' = NoCoro
      BY <2>1, RuntimeAssumption DEF AbstractDriven, AbstractExecuting, TypeOK
    <2>4. Abstract!Drive
      BY <2>1, <2>2, <2>3 DEF Abstract!Drive
    <2> QED
      BY <2>4 DEF Abstract!Next
  <1>29. ASSUME NEW t \in Thread, Stop(t) PROVE G
    <2>1. UNCHANGED <<co, ready, driver, pc, cur>> /\ ~stopped /\ stopped'
      BY <1>29 DEF Stop, queue, threads, coros
    <2>2. Abstract!Close
      BY <2>1 DEF Abstract!Close, AbstractState, StateOf, AbstractDriven,
         AbstractExecuting
    <2> QED
      BY <2>2 DEF Abstract!Next
  <1>30. ASSUME NEW t \in Thread, NEW b \in {"none", "user"}, SetCompletionBackend(t, b) PROVE G
    <2>1. (\A d \in Coro : StateOf(d)' = StateOf(d)) /\ ready' = ready
      BY <1>30 DEF SetCompletionBackend, StateOf, queue, coros
    <2>2. DriverStays
      BY <1>30, RuntimeAssumption DEF SetCompletionBackend, DriverStays,
         AbstractExecuting, AbstractDriven
    <2> QED
      BY <2>1, <2>2, NothingMoves
  <1>31. ASSUME NEW t \in Thread, NEW c \in Coro, Post(t, c) PROVE G
    <2>1. /\ c \in Coro /\ StateOf(c) \in {"fresh", "detached"}
          /\ EnqueueReady(t, c)
      BY <1>31 DEF Post, StateOf
    <2>2. /\ ready' = Append(ready, c) /\ co'[c] = "queued"
          /\ \A d \in Coro \ {c} : co'[d] = co[d]
      BY <2>1 DEF EnqueueReady, TypeOK
    <2>3. DriverStays /\ ~stopped
      BY <1>31 DEF Post, DriverStays, AbstractExecuting, AbstractDriven, control, threads
    <2>4. Moves(c, StateOf(c), "ready")
      BY <2>1, <2>2, EnqueueMoves
    <2> QED
      BY <2>1, <2>2, <2>3, <2>4, AcceptSteps
  <1>32. ASSUME NEW t \in Thread, NEW c \in Coro, SpawnTask(t, c) PROVE G
    <2>1. /\ c \in Coro /\ StateOf(c) = "fresh"
          /\ EnqueueReady(t, c)
      BY <1>32 DEF SpawnTask, StateOf
    <2>2. /\ ready' = Append(ready, c) /\ co'[c] = "queued"
          /\ \A d \in Coro \ {c} : co'[d] = co[d]
      BY <2>1 DEF EnqueueReady, TypeOK
    <2>3. DriverStays /\ ~stopped
      BY <1>32 DEF SpawnTask, DriverStays, AbstractExecuting, AbstractDriven, control,
         threads
    <2>4. Moves(c, StateOf(c), "ready")
      BY <2>1, <2>2, EnqueueMoves
    <2> QED
      BY <2>1, <2>2, <2>3, <2>4, AcceptSteps
  <1>33. ASSUME NEW t \in Thread, NEW c \in Coro, Host(t, c) PROVE G
    <2>1. /\ co[c] = "new" /\ co' = [co EXCEPT ![c] = "running"] /\ t # driver
          /\ pc' = [pc EXCEPT ![t] = "body"] /\ cur' = [cur EXCEPT ![t] = c]
          /\ UNCHANGED <<ready, driver, stopped>>
      BY <1>33, RuntimeAssumption DEF Host, Quiet, queue, control, Structure, DriverSound
    <2>2. Moves(c, "fresh", "running")
      BY <2>1 DEF Moves, StateOf, TypeOK
    <2>3. DriverStays
      BY <2>1 DEF DriverStays, AbstractExecuting, AbstractDriven, TypeOK
    <2>4. Abstract!Adopt(c)
      BY <2>1, <2>2, <2>3, MoveEffect DEF Abstract!Adopt, Abstract!Become, DriverStays
    <2> QED
      BY <2>4 DEF Abstract!Next
  <1>34. ASSUME NEW t \in Thread, NEW c \in Coro, CancelSleep(t, c) PROVE G
    <2>1. (\A d \in Coro : StateOf(d)' = StateOf(d)) /\ ready' = ready
      BY <1>34 DEF CancelSleep, StateOf, queue
    <2>2. DriverStays
      BY <1>34, RuntimeAssumption DEF CancelSleep, DriverStays, AbstractExecuting,
         AbstractDriven, control
    <2> QED
      BY <2>1, <2>2, NothingMoves
  <1>35. ASSUME NEW t \in Thread, NEW c \in Coro, Complete(t, c) PROVE G
    <2>1. /\ c \in Coro /\ StateOf(c) = "suspended"
          /\ EnqueueReady(t, c)
      BY <1>35 DEF Complete, StateOf, Structure, JoinsTracked
    <2>2. /\ ready' = Append(ready, c) /\ co'[c] = "queued"
          /\ \A d \in Coro \ {c} : co'[d] = co[d]
      BY <2>1 DEF EnqueueReady, TypeOK
    <2>3. DriverStays
      BY <1>35 DEF Complete, DriverStays, AbstractExecuting, AbstractDriven, control,
         threads
    <2>4. Moves(c, StateOf(c), "ready")
      BY <2>1, <2>2, EnqueueMoves
    <2> QED
      BY <2>1, <2>2, <2>3, <2>4, WakeSteps
  <1>36. ASSUME NEW t \in Thread, SpuriousWake(t) PROVE G
    <2>1. (\A d \in Coro : StateOf(d)' = StateOf(d)) /\ ready' = ready
      BY <1>36 DEF SpuriousWake, StateOf, queue, coros
    <2>2. DriverStays
      BY <1>36, RuntimeAssumption DEF SpuriousWake, DriverStays, AbstractExecuting,
         AbstractDriven, control
    <2> QED
      BY <2>1, <2>2, NothingMoves
  <1>37. ASSUME NEW c \in Coro, IoEvent(c) PROVE G
    <2>1. (\A d \in Coro : StateOf(d)' = StateOf(d)) /\ ready' = ready
      BY <1>37 DEF IoEvent, StateOf, queue, coros
    <2>2. DriverStays
      BY <1>37, RuntimeAssumption DEF IoEvent, DriverStays, AbstractExecuting,
         AbstractDriven, control, threads
    <2> QED
      BY <2>1, <2>2, NothingMoves
  <1>38. ASSUME Tick PROVE G
    <2>1. (\A d \in Coro : StateOf(d)' = StateOf(d)) /\ ready' = ready
      BY <1>38 DEF Tick, StateOf, queue, coros
    <2>2. DriverStays
      BY <1>38, RuntimeAssumption DEF Tick, DriverStays, AbstractExecuting,
         AbstractDriven, control, threads
    <2> QED
      BY <2>1, <2>2, NothingMoves
  <1>39. ASSUME UNCHANGED vars PROVE G
    <2>1. UNCHANGED <<co, ready, driver, pc, cur, stopped>>
      BY <1>39 DEF vars, queue, control, threads, coros
    <2> QED
      BY <2>1 DEF Abstract!vars, AbstractState, StateOf, AbstractExecuting, AbstractDriven
  <1> QED
    BY <1>1, <1>2, <1>3, <1>4, <1>5, <1>6, <1>7, <1>8, <1>9, <1>10, <1>11, <1>12, <1>13,
       <1>14, <1>15, <1>16, <1>17, <1>18, <1>19, <1>20, <1>21, <1>22, <1>23, <1>24,
       <1>25, <1>26, <1>27, <1>28, <1>29, <1>30, <1>31, <1>32, <1>33, <1>34, <1>35,
       <1>36, <1>37, <1>38, <1>39, Zenon DEF Next, Continue, Call

LEMMA ExecutorInit == Init => Abstract!Init
  <1> SUFFICES ASSUME Init
               PROVE  Abstract!Init
    OBVIOUS
  <1>1. \A c \in Coro : StateOf(c) = "fresh"
    BY DEF Init, StateOf
  <1>2. ready = <<>> /\ ~stopped /\ driver = NoThread
    BY DEF Init
  <1> QED
    BY <1>1, <1>2 DEF Abstract!Init, AbstractState, AbstractExecuting, AbstractDriven

\* A continuation that becomes ready is in the queue or in the driver's hand until it
\* is resumed, and only once, as long as nobody drives with run_one() (whose
\* `continue` after a dispatch drops the item it has popped, runtime.h:372-382).
THEOREM QueuedContinuationsStay ==
  ASSUME "one" \notin Entry
  PROVE  Spec => []QueuedOnce
  <1>1. IInv /\ RunInv => QueuedOnce
    <2> SUFFICES ASSUME TypeOK, QueueSound, OnlyRun, QueuedThere
                 PROVE  QueuedOnce
      BY DEF IInv, Structure, RunInv
    <2>1. \A t \in Thread : pc[t] \in {"resume", "dispatch"} /\ cur[t] # NoCoro =>
            co[cur[t]] = "queued" /\ cur[t] \notin Elems(ready)
      BY DEF QueueSound
    <2>2. \A c \in Coro : InHand(c) => co[c] = "queued" /\ c \notin Elems(ready)
      BY <2>1, RuntimeAssumption DEF InHand
    <2> QED
      BY <2>2 DEF QueuedOnce, QueueSound, QueuedThere
  <1>2. QED
    BY <1>1, InvariantHolds, RunInvHolds, PTL

\* Every suspended sleep has somebody who will wake it, as long as nobody drives with
\* run_one() (which lets collected timers go out of scope, runtime.h:372-386).
THEOREM SleepersAreNotForgotten ==
  ASSUME "one" \notin Entry
  PROVE  Spec => []SleepersCanWake
  <1>1. RunInv => SleepersCanWake
    BY DEF RunInv
  <1>2. QED
    BY <1>1, RunInvHolds, PTL

\* No wake-up is lost between the tests that run() and run_one() make under mutex_
\* and their waits, on ready_cv_ or in the backend, whoever changes what they wait
\* for: work, stop(), an earlier deadline (runtime.h:305-346, :645-695).
THEOREM WakeUpsAreNotLost == Spec => []NoLostWakeup
  <1>1. Init => WakeInv
    BY DEF Init, WakeInv, NoLostWakeup
  <1>2. IInv /\ IInv' /\ WakeInv /\ [Next]_vars => WakeInv'
    BY WakeStep DEF IInv
  <1>3. WakeInv => NoLostWakeup
    BY DEF WakeInv
  <1>4. QED
    BY <1>1, <1>2, <1>3, InvariantHolds, PTL DEF Spec

\* run(), with all that happens around it, implements the Executor: one continuation
\* at a time, in the order they became ready, once each, and no return before the
\* runtime is stopped and drained.
THEOREM RunImplementsExecutor ==
  ASSUME RunsOnly
  PROVE  Spec => ImplementsExecutor
  <1>1. Init => Abstract!Init
    BY ExecutorInit
  <1>2. IInv /\ IInv' /\ RunInv /\ [Next]_vars => [Abstract!Next]_(Abstract!vars)
    BY ExecutorStep DEF IInv, RunsOnly
  <1>3. Spec => []RunInv
    BY RunInvHolds DEF RunsOnly
  <1>4. QED
    BY <1>1, <1>2, <1>3, InvariantHolds, PTL DEF Spec, ImplementsExecutor, Abstract!Spec

=============================================================================
