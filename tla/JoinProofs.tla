------------------------------ MODULE JoinProofs ------------------------------
(***************************************************************************)
(* Proofs about Join: for any number of awaiters, waiting threads and      *)
(* suspensions, a joined task's frames outlive their use, its result is    *)
(* there for whoever goes on, and pending_work_ counts what comes back.    *)
(***************************************************************************)
EXTENDS Join, FiniteSetTheorems, SequenceTheorems, TLAPS

-----------------------------------------------------------------------------
(* The inductive invariant.                                                *)

Points == {"new"} \cup BridgePoints \cup TaskPoints \cup AwaiterPoints

Typed == at \in [Coro -> Points] /\ TypeOK

\* What is queued is queued once, at a point from which it may be resumed.
Distinct == \A i, j \in DOMAIN queue : queue[i] = queue[j] => i = j

QueueSound ==
  /\ Distinct
  /\ Bridge \in Queued => at[Bridge] \in {"start", "result"}
  /\ Task \in Queued => at[Task] = "body"
  /\ \A a \in Awaiter : a \in Queued => at[a] \in {"body", "resume"}

\* The task and its bridge hand over to each other, and a coroutine that waits for
\* something else is on no thread.
StagesSound ==
  /\ origin = "none" <=> at[Bridge] = "new"
  /\ at[Task] = "new" <=> at[Bridge] \in {"new", "start"}
  /\ at[Task] \in {"body", "op", "parked"} <=> at[Bridge] = "suspended"
  /\ at[Task] = "gone" <=> at[Bridge] = "gone"
  /\ ready <=> at[Bridge] \in {"notify", "resume", "end", "final", "gone"}
  /\ at[Bridge] \in {"new", "suspended", "final", "gone"} => on[Bridge] = None
  /\ at[Task] # "body" => on[Task] = None
  /\ \A a \in Awaiter :
       at[a] \in {"new", "suspended", "detached", "done"} => on[a] = None

\* The awaiter that the JoinState remembers waits, with a unit of work exactly if the
\* state has a tracker; a state with a tracker has a schedule function, too.
JoinSound ==
  /\ tracked => home
  /\ origin = "none" => continuation = None /\ ~home /\ ~tracked
  /\ origin = "free" => (home <=> tracked)
  /\ continuation # None /\ at[Bridge] \notin {"end", "final", "gone"} =>
       at[continuation] = IF tracked THEN "suspended" ELSE "detached"
  /\ ~Untracked /\ origin = "runtime" =>
       /\ \A a \in Awaiter : at[a] = "suspend" => on[a] = Driver
       /\ continuation # None => tracked
  /\ \A a \in Awaiter : at[a] = "suspend" => origin # "none"

IInv ==
  /\ Typed /\ QueueSound /\ StagesSound /\ JoinSound /\ ResultIsThere

-----------------------------------------------------------------------------
(* The queue.                                                              *)

LEMMA EnqueueElems ==
  ASSUME Typed, NEW c \in Coro, queue' = Append(queue, c)
  PROVE  /\ queue' \in Seq(Coro) /\ Len(queue') = Len(queue) + 1
         /\ Queued' = Queued \cup {c}
         /\ Distinct /\ c \notin Queued => Distinct'
  <1>1. /\ queue \in Seq(Coro) /\ Len(queue) \in Nat /\ DOMAIN queue = 1 .. Len(queue)
        /\ queue' \in Seq(Coro) /\ Len(queue') = Len(queue) + 1
        /\ DOMAIN queue' = 1 .. Len(queue) + 1
        /\ queue'[Len(queue) + 1] = c /\ \A i \in 1 .. Len(queue) : queue'[i] = queue[i]
    BY DEF Typed, TypeOK
  <1>2. \A i \in DOMAIN queue' : i \in DOMAIN queue \/ i = Len(queue) + 1
    BY <1>1
  <1>3. Len(queue) + 1 \in DOMAIN queue' /\ \A i \in DOMAIN queue : i \in DOMAIN queue'
    BY <1>1
  <1>4. Queued' = Queued \cup {c}
    BY <1>1, <1>2, <1>3 DEF Queued
  <1>5. Distinct /\ c \notin Queued => Distinct'
    BY <1>1, <1>2 DEF Distinct, Queued
  <1> QED
    BY <1>1, <1>4, <1>5

LEMMA DequeueElems ==
  ASSUME Typed, Distinct, queue # <<>>, queue' = Tail(queue)
  PROVE  /\ queue' \in Seq(Coro) /\ Len(queue) \in Nat \ {0} /\ Len(queue') = Len(queue) - 1
         /\ Head(queue) \in Queued /\ Head(queue) \in Coro
         /\ Queued' = Queued \ {Head(queue)}
         /\ Distinct'
  <1>1. /\ queue \in Seq(Coro) /\ Len(queue) \in Nat \ {0} /\ DOMAIN queue = 1 .. Len(queue)
        /\ queue' \in Seq(Coro) /\ Len(queue') = Len(queue) - 1
        /\ DOMAIN queue' = 1 .. Len(queue) - 1 /\ Head(queue) = queue[1]
        /\ \A i \in 1 .. Len(queue) - 1 : queue'[i] = queue[i + 1]
    BY DEF Typed, TypeOK
  <1>2. \A i \in DOMAIN queue' : i + 1 \in DOMAIN queue /\ i + 1 # 1
    BY <1>1
  <1>3. \A i \in DOMAIN queue : i # 1 => i - 1 \in DOMAIN queue' /\ queue'[i - 1] = queue[i]
    BY <1>1
  <1>4. 1 \in DOMAIN queue /\ queue[1] \in Coro
    BY <1>1
  <1>5. Queued' \subseteq Queued \ {Head(queue)}
    BY <1>1, <1>2, <1>4 DEF Queued, Distinct
  <1>6. Queued \ {Head(queue)} \subseteq Queued'
    BY <1>1, <1>3 DEF Queued
  <1>7. Distinct'
    BY <1>1, <1>2 DEF Distinct
  <1> QED
    BY <1>1, <1>4, <1>5, <1>6, <1>7 DEF Queued

-----------------------------------------------------------------------------
(* Step by step.                                                           *)

LEMMA TypeStep ==
  ASSUME Typed, QueueSound, StagesSound, JoinSound, ResultIsThere, [Next]_vars
  PROVE  Typed'
  <1> USE JoinAssumption DEF Coro, Thread, Run, Suspend, InCoro, Idle, Caller, Handle,
               InAwaiter,
               InScope, Retain, Destroyed, Back, coros, runtime, call, child, join,
               TypeOK, Typed, QueueSound, StagesSound, JoinSound, BridgePoints,
               TaskPoints, AwaiterPoints, Points
  <1>1. ASSUME NEW t \in Thread, RuntimeSpawn(t) PROVE Typed'
    <2>1. Bridge \in Coro /\ queue' = Append(queue, Bridge)
      BY <1>1 DEF RuntimeSpawn
    <2>2. queue' \in Seq(Coro) /\ Queued' = Queued \cup {Bridge}
      BY <2>1, EnqueueElems
    <2> QED
      BY <1>1, <2>2 DEF RuntimeSpawn
  <1>2. ASSUME NEW t \in Thread, FreeSpawn(t) PROVE Typed'
    BY <1>2 DEF FreeSpawn, Queued
  <1>3. ASSUME NEW t \in Thread, ParkEnds(t) PROVE Typed'
    BY <1>3 DEF ParkEnds, Queued
  <1>4. ASSUME NEW t \in Thread, NEW a \in Awaiter, Post(t, a) PROVE Typed'
    <2>1. a \in Coro /\ queue' = Append(queue, a)
      BY <1>4 DEF Post
    <2>2. queue' \in Seq(Coro) /\ Queued' = Queued \cup {a}
      BY <2>1, EnqueueElems
    <2> QED
      BY <1>4, <2>2 DEF Post
  <1>5. ASSUME NEW t \in Thread, NEW a \in Awaiter, Start(t, a) PROVE Typed'
    BY <1>5 DEF Start, Queued
  <1>6. ASSUME SpawnReturns PROVE Typed'
    BY <1>6 DEF SpawnReturns, Queued
  <1>7. ASSUME Dispatch PROVE Typed'
    <2>1. queue # <<>> /\ queue' = Tail(queue)
      BY <1>7 DEF Dispatch
    <2>2. /\ queue' \in Seq(Coro) /\ Head(queue) \in Queued /\ Head(queue) \in Coro
          /\ Queued' = Queued \ {Head(queue)} /\ Distinct'
      BY <2>1, DequeueElems
    <2> QED
      BY <1>7, <2>2 DEF Dispatch
  <1>8. ASSUME FinishItem PROVE Typed'
    BY <1>8 DEF FinishItem, Queued
  <1>9. ASSUME AwaitTask PROVE Typed'
    BY <1>9 DEF AwaitTask, Queued
  <1>10. ASSUME SetValue PROVE Typed'
    BY <1>10 DEF SetValue, Queued
  <1>11. ASSUME NotifyAll PROVE Typed'
    BY <1>11 DEF NotifyAll, Queued
  <1>12. ASSUME ResumeAwaiter PROVE Typed'
    <2>1. at[Bridge] = "resume"
      BY <1>12 DEF ResumeAwaiter
    <2>2. CASE continuation = None
      BY <1>12, <2>2 DEF ResumeAwaiter, Queued
    <2>3. CASE continuation # None
      <3>1. /\ continuation \in Awaiter /\ at[continuation] \in {"suspended", "detached"}
            /\ on[continuation] = None
        BY <2>1, <2>3
      <3>2. at' = [at EXCEPT ![Bridge] = "end", ![continuation] = "resume"]
        BY <1>12, <2>3 DEF ResumeAwaiter
      <3>3. /\ at' \in [Coro -> Points] /\ at'[Bridge] = "end" /\ at'[Task] = at[Task]
            /\ \A a \in Awaiter : at'[a] \in {at[a], "resume"}
        BY <3>1, <3>2
      <3>4. on' = IF home THEN on ELSE [on EXCEPT ![continuation] = on[Bridge]]
        BY <1>12, <2>3 DEF ResumeAwaiter
      <3>5. /\ on' \in [Coro -> Thread \cup {None}] /\ (home => on' = on)
            /\ \A c \in Coro \ {continuation} : on'[c] = on[c]
        BY <3>1, <3>4
      <3>6. /\ queue' \in Seq(Coro)
            /\ Queued' = IF home THEN Queued \cup {continuation} ELSE Queued
        <4>1. CASE home
          <5>1. continuation \in Coro /\ queue' = Append(queue, continuation)
            BY <1>12, <2>3, <3>1, <4>1 DEF ResumeAwaiter
          <5> QED
            BY <4>1, <5>1, EnqueueElems
        <4>2. CASE ~home
          BY <1>12, <2>3, <4>2 DEF ResumeAwaiter, Queued
        <4> QED
          BY <4>1, <4>2
      <3>7. \A c \in Queued' : c \in Coro /\ on'[c] = None
        <4>1. Queued \subseteq Coro /\ continuation \notin Queued
          BY <3>1 DEF Queued
        <4> QED
          BY <3>1, <3>5, <3>6, <4>1
      <3>8. UNCHANGED <<pending, item, call, child, join, wait>>
        BY <1>12 DEF ResumeAwaiter
      <3> QED
        BY <3>3, <3>5, <3>6, <3>7, <3>8
    <2> QED
      BY <2>2, <2>3
  <1>13. ASSUME BridgeReturns PROVE Typed'
    BY <1>13 DEF BridgeReturns, Queued
  <1>14. ASSUME TaskSuspend PROVE Typed'
    BY <1>14 DEF TaskSuspend, Queued
  <1>15. ASSUME OpCompletes PROVE Typed'
    <2>1. Task \in Coro /\ queue' = Append(queue, Task)
      BY <1>15 DEF OpCompletes
    <2>2. queue' \in Seq(Coro) /\ Queued' = Queued \cup {Task}
      BY <2>1, EnqueueElems
    <2> QED
      BY <1>15, <2>2 DEF OpCompletes
  <1>16. ASSUME TaskReturn PROVE Typed'
    <2>1. at[Task] = "body" /\ on[Task] # None /\ at[Bridge] = "suspended" /\ on[Bridge] = None
      BY <1>16 DEF TaskReturn
    <2>2. /\ at' \in [Coro -> Points] /\ at'[Bridge] = "result" /\ at'[Task] = "final"
          /\ \A a \in Awaiter : at'[a] = at[a]
      BY <1>16 DEF TaskReturn
    <2>3. /\ on' \in [Coro -> Thread \cup {None}] /\ \A c \in Coro \ {Task, Bridge} : on'[c] = on[c]
          /\ on'[Task] = None /\ (childHome => on'[Bridge] = None)
      BY <1>16 DEF TaskReturn
    <2>4. queue' \in Seq(Coro) /\ Queued' = IF childHome THEN Queued \cup {Bridge} ELSE Queued
      <3>1. CASE childHome
        <4>1. Bridge \in Coro /\ queue' = Append(queue, Bridge)
          BY <1>16, <3>1 DEF TaskReturn
        <4> QED
          BY <3>1, <4>1, EnqueueElems
      <3>2. CASE ~childHome
        BY <1>16, <3>2 DEF TaskReturn, Queued
      <3> QED
        BY <3>1, <3>2
    <2>5. \A c \in Queued' : c \in Coro /\ on'[c] = None
      <3>1. Queued \subseteq Coro /\ Bridge \notin Queued /\ Task \notin Queued
        BY <2>1 DEF Queued
      <3> QED
        BY <2>3, <2>4, <3>1
    <2>6. UNCHANGED <<pending, item, call, child, join, wait>>
      BY <1>16 DEF TaskReturn
    <2> QED
      BY <2>2, <2>3, <2>4, <2>5, <2>6
  <1>17. ASSUME NEW a \in Awaiter, AwaitReady(a) PROVE Typed'
    BY <1>17 DEF AwaitReady, Queued
  <1>18. ASSUME NEW a \in Awaiter, AwaitSuspend(a) PROVE Typed'
    <2>1. UNCHANGED <<queue, item, call, child, ready, wait>>
      BY <1>18 DEF AwaitSuspend
    <2>2. CASE ready
      BY <1>18, <2>1, <2>2 DEF AwaitSuspend, Queued, Distinct
    <2>3. CASE ~ready
      <3>1. /\ continuation' = a /\ home' = (home \/ on[a] = Driver)
            /\ tracked' = (tracked \/ on[a] = Driver) /\ on' = [on EXCEPT ![a] = None]
        BY <1>18, <2>3 DEF AwaitSuspend
      <3>2. home' \in BOOLEAN /\ tracked' \in BOOLEAN
        BY <3>1
      <3>3. pending' = IF tracked' THEN pending + 1 ELSE pending
        BY <1>18, <2>3 DEF AwaitSuspend
      <3>4. PICK p \in {"suspended", "detached"} :
              at' = [at EXCEPT ![a] = p] /\ p = IF tracked' THEN "suspended" ELSE "detached"
        BY <1>18, <2>3 DEF AwaitSuspend
      <3>5. at[a] = "suspend" /\ on[a] # None
        BY <1>18 DEF AwaitSuspend
      <3> QED
        BY <2>1, <2>3, <3>1, <3>2, <3>3, <3>4, <3>5 DEF Queued, Distinct
    <2> QED
      BY <2>2, <2>3
  <1>19. ASSUME NEW a \in Awaiter, AwaitResume(a) PROVE Typed'
    BY <1>19 DEF AwaitResume, Queued
  <1>20. ASSUME NEW w \in Waiter, Wait(w) PROVE Typed'
    BY <1>20 DEF Wait, Queued
  <1>21. ASSUME NEW w \in Waiter, Recheck(w) PROVE Typed'
    BY <1>21 DEF Recheck, Queued
  <1>22. ASSUME NEW w \in Waiter, SpuriousWake(w) PROVE Typed'
    BY <1>22 DEF SpuriousWake, Queued
  <1>23. ASSUME UNCHANGED vars PROVE Typed'
    BY <1>23 DEF vars, Queued
  <1> QED
    BY <1>1, <1>2, <1>3, <1>4, <1>5, <1>6, <1>7, <1>8, <1>9, <1>10, <1>11, <1>12, <1>13,
       <1>14, <1>15, <1>16, <1>17, <1>18, <1>19, <1>20, <1>21, <1>22, <1>23 DEF Next,
       Drive, InBridge, Await

LEMMA QueueStep ==
  ASSUME Typed, QueueSound, StagesSound, JoinSound, ResultIsThere, [Next]_vars
  PROVE  QueueSound'
  <1> USE JoinAssumption DEF Coro, Thread, Run, Suspend, InCoro, Idle, Caller, Handle,
               InAwaiter,
               InScope, Retain, Destroyed, Back, coros, runtime, call, child, join,
               TypeOK, Typed, QueueSound, StagesSound, JoinSound, BridgePoints,
               TaskPoints, AwaiterPoints, Points
  <1>1. ASSUME NEW t \in Thread, RuntimeSpawn(t) PROVE QueueSound'
    <2>1. Bridge \in Coro /\ Bridge \notin Queued /\ queue' = Append(queue, Bridge)
      BY <1>1 DEF RuntimeSpawn
    <2>2. Distinct' /\ Queued' = Queued \cup {Bridge}
      BY <2>1, EnqueueElems
    <2> QED
      BY <1>1, <2>2 DEF RuntimeSpawn
  <1>2. ASSUME NEW t \in Thread, FreeSpawn(t) PROVE QueueSound'
    BY <1>2 DEF FreeSpawn, Queued, Distinct
  <1>3. ASSUME NEW t \in Thread, ParkEnds(t) PROVE QueueSound'
    BY <1>3 DEF ParkEnds, Queued, Distinct
  <1>4. ASSUME NEW t \in Thread, NEW a \in Awaiter, Post(t, a) PROVE QueueSound'
    <2>1. a \in Coro /\ a \notin Queued /\ queue' = Append(queue, a)
      BY <1>4 DEF Post
    <2>2. Distinct' /\ Queued' = Queued \cup {a}
      BY <2>1, EnqueueElems
    <2> QED
      BY <1>4, <2>2 DEF Post
  <1>5. ASSUME NEW t \in Thread, NEW a \in Awaiter, Start(t, a) PROVE QueueSound'
    BY <1>5 DEF Start, Queued, Distinct
  <1>6. ASSUME SpawnReturns PROVE QueueSound'
    BY <1>6 DEF SpawnReturns, Queued, Distinct
  <1>7. ASSUME Dispatch PROVE QueueSound'
    <2>1. queue # <<>> /\ queue' = Tail(queue)
      BY <1>7 DEF Dispatch
    <2>2. /\ queue' \in Seq(Coro) /\ Head(queue) \in Queued /\ Head(queue) \in Coro
          /\ Queued' = Queued \ {Head(queue)} /\ Distinct'
      BY <2>1, DequeueElems
    <2> QED
      BY <1>7, <2>2 DEF Dispatch
  <1>8. ASSUME FinishItem PROVE QueueSound'
    BY <1>8 DEF FinishItem, Queued, Distinct
  <1>9. ASSUME AwaitTask PROVE QueueSound'
    BY <1>9 DEF AwaitTask, Queued, Distinct
  <1>10. ASSUME SetValue PROVE QueueSound'
    BY <1>10 DEF SetValue, Queued, Distinct
  <1>11. ASSUME NotifyAll PROVE QueueSound'
    BY <1>11 DEF NotifyAll, Queued, Distinct
  <1>12. ASSUME ResumeAwaiter PROVE QueueSound'
    <2>1. CASE continuation # None /\ home
      <3>1. continuation \in Coro /\ continuation \notin Queued /\ queue' = Append(queue, continuation)
        BY <1>12, <2>1 DEF ResumeAwaiter
      <3>2. Distinct' /\ Queued' = Queued \cup {continuation}
        BY <3>1, EnqueueElems
      <3> QED
        BY <1>12, <2>1, <3>2 DEF ResumeAwaiter
    <2>2. CASE ~(continuation # None /\ home)
      <3>1. queue' = queue
        BY <1>12, <2>2 DEF ResumeAwaiter
      <3>2. Queued' = Queued /\ Distinct' = Distinct
        BY <3>1 DEF Queued, Distinct
      <3> QED
        BY <1>12, <2>2, <3>1, <3>2 DEF ResumeAwaiter
    <2> QED
      BY <2>1, <2>2
  <1>13. ASSUME BridgeReturns PROVE QueueSound'
    BY <1>13 DEF BridgeReturns, Queued, Distinct
  <1>14. ASSUME TaskSuspend PROVE QueueSound'
    BY <1>14 DEF TaskSuspend, Queued, Distinct
  <1>15. ASSUME OpCompletes PROVE QueueSound'
    <2>1. Task \in Coro /\ Task \notin Queued /\ queue' = Append(queue, Task)
      BY <1>15 DEF OpCompletes
    <2>2. Distinct' /\ Queued' = Queued \cup {Task}
      BY <2>1, EnqueueElems
    <2> QED
      BY <1>15, <2>2 DEF OpCompletes
  <1>16. ASSUME TaskReturn PROVE QueueSound'
    <2>1. CASE childHome
      <3>1. Bridge \in Coro /\ Bridge \notin Queued /\ queue' = Append(queue, Bridge)
        BY <1>16, <2>1 DEF TaskReturn
      <3>2. Distinct' /\ Queued' = Queued \cup {Bridge}
        BY <3>1, EnqueueElems
      <3>3. /\ at' = [at EXCEPT ![Task] = "final", ![Bridge] = "result"]
            /\ on' = [on EXCEPT ![Task] = None, ![Bridge] = None]
            /\ InCoro(Task, "body") /\ UNCHANGED <<pending, item, call, child, join, wait>>
        BY <1>16, <2>1 DEF TaskReturn
      <3> QED
        BY <1>16, <3>2, <3>3
    <2>2. CASE ~childHome
      <3>1. queue' = queue
        BY <1>16, <2>2 DEF TaskReturn
      <3>2. Queued' = Queued /\ Distinct' = Distinct
        BY <3>1 DEF Queued, Distinct
      <3> QED
        BY <1>16, <2>2, <3>1, <3>2 DEF TaskReturn
    <2> QED
      BY <2>1, <2>2
  <1>17. ASSUME NEW a \in Awaiter, AwaitReady(a) PROVE QueueSound'
    BY <1>17 DEF AwaitReady, Queued, Distinct
  <1>18. ASSUME NEW a \in Awaiter, AwaitSuspend(a) PROVE QueueSound'
    <2>1. UNCHANGED <<queue, item, call, child, ready, wait>>
      BY <1>18 DEF AwaitSuspend
    <2>2. CASE ready
      BY <1>18, <2>1, <2>2 DEF AwaitSuspend, Queued, Distinct
    <2>3. CASE ~ready
      <3>1. /\ continuation' = a /\ home' = (home \/ on[a] = Driver)
            /\ tracked' = (tracked \/ on[a] = Driver) /\ on' = [on EXCEPT ![a] = None]
        BY <1>18, <2>3 DEF AwaitSuspend
      <3>2. home' \in BOOLEAN /\ tracked' \in BOOLEAN
        BY <3>1
      <3>3. pending' = IF tracked' THEN pending + 1 ELSE pending
        BY <1>18, <2>3 DEF AwaitSuspend
      <3>4. PICK p \in {"suspended", "detached"} :
              at' = [at EXCEPT ![a] = p] /\ p = IF tracked' THEN "suspended" ELSE "detached"
        BY <1>18, <2>3 DEF AwaitSuspend
      <3>5. at[a] = "suspend" /\ on[a] # None
        BY <1>18 DEF AwaitSuspend
      <3> QED
        BY <2>1, <2>3, <3>1, <3>2, <3>3, <3>4, <3>5 DEF Queued, Distinct
    <2> QED
      BY <2>2, <2>3
  <1>19. ASSUME NEW a \in Awaiter, AwaitResume(a) PROVE QueueSound'
    BY <1>19 DEF AwaitResume, Queued, Distinct
  <1>20. ASSUME NEW w \in Waiter, Wait(w) PROVE QueueSound'
    BY <1>20 DEF Wait, Queued, Distinct
  <1>21. ASSUME NEW w \in Waiter, Recheck(w) PROVE QueueSound'
    BY <1>21 DEF Recheck, Queued, Distinct
  <1>22. ASSUME NEW w \in Waiter, SpuriousWake(w) PROVE QueueSound'
    BY <1>22 DEF SpuriousWake, Queued, Distinct
  <1>23. ASSUME UNCHANGED vars PROVE QueueSound'
    BY <1>23 DEF vars, Queued, Distinct
  <1> QED
    BY <1>1, <1>2, <1>3, <1>4, <1>5, <1>6, <1>7, <1>8, <1>9, <1>10, <1>11, <1>12, <1>13,
       <1>14, <1>15, <1>16, <1>17, <1>18, <1>19, <1>20, <1>21, <1>22, <1>23 DEF Next,
       Drive, InBridge, Await

LEMMA StagesStep ==
  ASSUME Typed, QueueSound, StagesSound, JoinSound, ResultIsThere, [Next]_vars
  PROVE  StagesSound'
  <1> USE JoinAssumption DEF Coro, Thread, Run, Suspend, InCoro, Idle, Caller, Handle,
               InAwaiter,
               InScope, Retain, Destroyed, Back, coros, runtime, call, child, join,
               TypeOK, Typed, QueueSound, StagesSound, JoinSound, BridgePoints,
               TaskPoints, AwaiterPoints, Points
  <1>1. ASSUME NEW t \in Thread, RuntimeSpawn(t) PROVE StagesSound'
    BY <1>1 DEF RuntimeSpawn
  <1>2. ASSUME NEW t \in Thread, FreeSpawn(t) PROVE StagesSound'
    BY <1>2 DEF FreeSpawn
  <1>3. ASSUME NEW t \in Thread, ParkEnds(t) PROVE StagesSound'
    BY <1>3 DEF ParkEnds
  <1>4. ASSUME NEW t \in Thread, NEW a \in Awaiter, Post(t, a) PROVE StagesSound'
    BY <1>4 DEF Post
  <1>5. ASSUME NEW t \in Thread, NEW a \in Awaiter, Start(t, a) PROVE StagesSound'
    BY <1>5 DEF Start
  <1>6. ASSUME SpawnReturns PROVE StagesSound'
    BY <1>6 DEF SpawnReturns
  <1>7. ASSUME Dispatch PROVE StagesSound'
    <2>1. queue # <<>> /\ queue' = Tail(queue)
      BY <1>7 DEF Dispatch
    <2>2. /\ queue' \in Seq(Coro) /\ Head(queue) \in Queued /\ Head(queue) \in Coro
          /\ Queued' = Queued \ {Head(queue)} /\ Distinct'
      BY <2>1, DequeueElems
    <2> QED
      BY <1>7, <2>2 DEF Dispatch
  <1>8. ASSUME FinishItem PROVE StagesSound'
    BY <1>8 DEF FinishItem
  <1>9. ASSUME AwaitTask PROVE StagesSound'
    BY <1>9 DEF AwaitTask
  <1>10. ASSUME SetValue PROVE StagesSound'
    BY <1>10 DEF SetValue
  <1>11. ASSUME NotifyAll PROVE StagesSound'
    BY <1>11 DEF NotifyAll
  <1>12. ASSUME ResumeAwaiter PROVE StagesSound'
    BY <1>12 DEF ResumeAwaiter
  <1>13. ASSUME BridgeReturns PROVE StagesSound'
    BY <1>13 DEF BridgeReturns
  <1>14. ASSUME TaskSuspend PROVE StagesSound'
    BY <1>14 DEF TaskSuspend
  <1>15. ASSUME OpCompletes PROVE StagesSound'
    BY <1>15 DEF OpCompletes
  <1>16. ASSUME TaskReturn PROVE StagesSound'
    BY <1>16 DEF TaskReturn
  <1>17. ASSUME NEW a \in Awaiter, AwaitReady(a) PROVE StagesSound'
    BY <1>17 DEF AwaitReady
  <1>18. ASSUME NEW a \in Awaiter, AwaitSuspend(a) PROVE StagesSound'
    <2>1. UNCHANGED <<queue, item, call, child, ready, wait>>
      BY <1>18 DEF AwaitSuspend
    <2>2. CASE ready
      BY <1>18, <2>1, <2>2 DEF AwaitSuspend, Queued, Distinct
    <2>3. CASE ~ready
      <3>1. /\ continuation' = a /\ home' = (home \/ on[a] = Driver)
            /\ tracked' = (tracked \/ on[a] = Driver) /\ on' = [on EXCEPT ![a] = None]
        BY <1>18, <2>3 DEF AwaitSuspend
      <3>2. home' \in BOOLEAN /\ tracked' \in BOOLEAN
        BY <3>1
      <3>3. pending' = IF tracked' THEN pending + 1 ELSE pending
        BY <1>18, <2>3 DEF AwaitSuspend
      <3>4. PICK p \in {"suspended", "detached"} :
              at' = [at EXCEPT ![a] = p] /\ p = IF tracked' THEN "suspended" ELSE "detached"
        BY <1>18, <2>3 DEF AwaitSuspend
      <3>5. at[a] = "suspend" /\ on[a] # None
        BY <1>18 DEF AwaitSuspend
      <3> QED
        BY <2>1, <2>3, <3>1, <3>2, <3>3, <3>4, <3>5 DEF Queued, Distinct
    <2> QED
      BY <2>2, <2>3
  <1>19. ASSUME NEW a \in Awaiter, AwaitResume(a) PROVE StagesSound'
    BY <1>19 DEF AwaitResume
  <1>20. ASSUME NEW w \in Waiter, Wait(w) PROVE StagesSound'
    BY <1>20 DEF Wait
  <1>21. ASSUME NEW w \in Waiter, Recheck(w) PROVE StagesSound'
    BY <1>21 DEF Recheck
  <1>22. ASSUME NEW w \in Waiter, SpuriousWake(w) PROVE StagesSound'
    BY <1>22 DEF SpuriousWake
  <1>23. ASSUME UNCHANGED vars PROVE StagesSound'
    BY <1>23 DEF vars
  <1> QED
    BY <1>1, <1>2, <1>3, <1>4, <1>5, <1>6, <1>7, <1>8, <1>9, <1>10, <1>11, <1>12, <1>13,
       <1>14, <1>15, <1>16, <1>17, <1>18, <1>19, <1>20, <1>21, <1>22, <1>23 DEF Next,
       Drive, InBridge, Await

LEMMA JoinStep ==
  ASSUME Typed, QueueSound, StagesSound, JoinSound, ResultIsThere, [Next]_vars
  PROVE  JoinSound'
  <1> USE JoinAssumption DEF Coro, Thread, Run, Suspend, InCoro, Idle, Caller, Handle,
               InAwaiter,
               InScope, Retain, Destroyed, Back, coros, runtime, call, child, join,
               TypeOK, Typed, QueueSound, StagesSound, JoinSound, BridgePoints,
               TaskPoints, AwaiterPoints, Points
  <1>1. ASSUME NEW t \in Thread, RuntimeSpawn(t) PROVE JoinSound'
    BY <1>1 DEF RuntimeSpawn
  <1>2. ASSUME NEW t \in Thread, FreeSpawn(t) PROVE JoinSound'
    BY <1>2 DEF FreeSpawn
  <1>3. ASSUME NEW t \in Thread, ParkEnds(t) PROVE JoinSound'
    BY <1>3 DEF ParkEnds
  <1>4. ASSUME NEW t \in Thread, NEW a \in Awaiter, Post(t, a) PROVE JoinSound'
    BY <1>4 DEF Post
  <1>5. ASSUME NEW t \in Thread, NEW a \in Awaiter, Start(t, a) PROVE JoinSound'
    BY <1>5 DEF Start
  <1>6. ASSUME SpawnReturns PROVE JoinSound'
    BY <1>6 DEF SpawnReturns
  <1>7. ASSUME Dispatch PROVE JoinSound'
    <2>1. queue # <<>> /\ queue' = Tail(queue)
      BY <1>7 DEF Dispatch
    <2>2. /\ queue' \in Seq(Coro) /\ Head(queue) \in Queued /\ Head(queue) \in Coro
          /\ Queued' = Queued \ {Head(queue)} /\ Distinct'
      BY <2>1, DequeueElems
    <2> QED
      BY <1>7, <2>2 DEF Dispatch
  <1>8. ASSUME FinishItem PROVE JoinSound'
    BY <1>8 DEF FinishItem
  <1>9. ASSUME AwaitTask PROVE JoinSound'
    BY <1>9 DEF AwaitTask
  <1>10. ASSUME SetValue PROVE JoinSound'
    BY <1>10 DEF SetValue
  <1>11. ASSUME NotifyAll PROVE JoinSound'
    BY <1>11 DEF NotifyAll
  <1>12. ASSUME ResumeAwaiter PROVE JoinSound'
    BY <1>12 DEF ResumeAwaiter
  <1>13. ASSUME BridgeReturns PROVE JoinSound'
    BY <1>13 DEF BridgeReturns
  <1>14. ASSUME TaskSuspend PROVE JoinSound'
    BY <1>14 DEF TaskSuspend
  <1>15. ASSUME OpCompletes PROVE JoinSound'
    BY <1>15 DEF OpCompletes
  <1>16. ASSUME TaskReturn PROVE JoinSound'
    BY <1>16 DEF TaskReturn
  <1>17. ASSUME NEW a \in Awaiter, AwaitReady(a) PROVE JoinSound'
    BY <1>17 DEF AwaitReady
  <1>18. ASSUME NEW a \in Awaiter, AwaitSuspend(a) PROVE JoinSound'
    <2>1. UNCHANGED <<queue, item, call, child, ready, wait>>
      BY <1>18 DEF AwaitSuspend
    <2>2. CASE ready
      BY <1>18, <2>1, <2>2 DEF AwaitSuspend, Queued, Distinct
    <2>3. CASE ~ready
      <3>1. /\ continuation' = a /\ home' = (home \/ on[a] = Driver)
            /\ tracked' = (tracked \/ on[a] = Driver) /\ on' = [on EXCEPT ![a] = None]
        BY <1>18, <2>3 DEF AwaitSuspend
      <3>2. home' \in BOOLEAN /\ tracked' \in BOOLEAN
        BY <3>1
      <3>3. pending' = IF tracked' THEN pending + 1 ELSE pending
        BY <1>18, <2>3 DEF AwaitSuspend
      <3>4. PICK p \in {"suspended", "detached"} :
              at' = [at EXCEPT ![a] = p] /\ p = IF tracked' THEN "suspended" ELSE "detached"
        BY <1>18, <2>3 DEF AwaitSuspend
      <3>5. at[a] = "suspend" /\ on[a] # None
        BY <1>18 DEF AwaitSuspend
      <3> QED
        BY <2>1, <2>3, <3>1, <3>2, <3>3, <3>4, <3>5 DEF Queued, Distinct
    <2> QED
      BY <2>2, <2>3
  <1>19. ASSUME NEW a \in Awaiter, AwaitResume(a) PROVE JoinSound'
    BY <1>19 DEF AwaitResume
  <1>20. ASSUME NEW w \in Waiter, Wait(w) PROVE JoinSound'
    BY <1>20 DEF Wait
  <1>21. ASSUME NEW w \in Waiter, Recheck(w) PROVE JoinSound'
    BY <1>21 DEF Recheck
  <1>22. ASSUME NEW w \in Waiter, SpuriousWake(w) PROVE JoinSound'
    BY <1>22 DEF SpuriousWake
  <1>23. ASSUME UNCHANGED vars PROVE JoinSound'
    BY <1>23 DEF vars
  <1> QED
    BY <1>1, <1>2, <1>3, <1>4, <1>5, <1>6, <1>7, <1>8, <1>9, <1>10, <1>11, <1>12, <1>13,
       <1>14, <1>15, <1>16, <1>17, <1>18, <1>19, <1>20, <1>21, <1>22, <1>23 DEF Next,
       Drive, InBridge, Await

LEMMA ResultStep ==
  ASSUME Typed, QueueSound, StagesSound, JoinSound, ResultIsThere, [Next]_vars
  PROVE  ResultIsThere'
  <1> USE JoinAssumption DEF Coro, Thread, Run, Suspend, InCoro, Idle, Caller, Handle,
               InAwaiter,
               InScope, Retain, Destroyed, Back, coros, runtime, call, child, join,
               TypeOK, Typed, QueueSound, StagesSound, JoinSound, BridgePoints,
               TaskPoints, AwaiterPoints, Points, ResultIsThere
  <1>1. ASSUME NEW t \in Thread, RuntimeSpawn(t) PROVE ResultIsThere'
    BY <1>1 DEF RuntimeSpawn
  <1>2. ASSUME NEW t \in Thread, FreeSpawn(t) PROVE ResultIsThere'
    BY <1>2 DEF FreeSpawn
  <1>3. ASSUME NEW t \in Thread, ParkEnds(t) PROVE ResultIsThere'
    BY <1>3 DEF ParkEnds
  <1>4. ASSUME NEW t \in Thread, NEW a \in Awaiter, Post(t, a) PROVE ResultIsThere'
    BY <1>4 DEF Post
  <1>5. ASSUME NEW t \in Thread, NEW a \in Awaiter, Start(t, a) PROVE ResultIsThere'
    BY <1>5 DEF Start
  <1>6. ASSUME SpawnReturns PROVE ResultIsThere'
    BY <1>6 DEF SpawnReturns
  <1>7. ASSUME Dispatch PROVE ResultIsThere'
    <2>1. queue # <<>> /\ queue' = Tail(queue)
      BY <1>7 DEF Dispatch
    <2>2. /\ queue' \in Seq(Coro) /\ Head(queue) \in Queued /\ Head(queue) \in Coro
          /\ Queued' = Queued \ {Head(queue)} /\ Distinct'
      BY <2>1, DequeueElems
    <2> QED
      BY <1>7, <2>2 DEF Dispatch
  <1>8. ASSUME FinishItem PROVE ResultIsThere'
    BY <1>8 DEF FinishItem
  <1>9. ASSUME AwaitTask PROVE ResultIsThere'
    BY <1>9 DEF AwaitTask
  <1>10. ASSUME SetValue PROVE ResultIsThere'
    BY <1>10 DEF SetValue
  <1>11. ASSUME NotifyAll PROVE ResultIsThere'
    BY <1>11 DEF NotifyAll
  <1>12. ASSUME ResumeAwaiter PROVE ResultIsThere'
    BY <1>12 DEF ResumeAwaiter
  <1>13. ASSUME BridgeReturns PROVE ResultIsThere'
    BY <1>13 DEF BridgeReturns
  <1>14. ASSUME TaskSuspend PROVE ResultIsThere'
    BY <1>14 DEF TaskSuspend
  <1>15. ASSUME OpCompletes PROVE ResultIsThere'
    BY <1>15 DEF OpCompletes
  <1>16. ASSUME TaskReturn PROVE ResultIsThere'
    BY <1>16 DEF TaskReturn
  <1>17. ASSUME NEW a \in Awaiter, AwaitReady(a) PROVE ResultIsThere'
    BY <1>17 DEF AwaitReady
  <1>18. ASSUME NEW a \in Awaiter, AwaitSuspend(a) PROVE ResultIsThere'
    <2>1. UNCHANGED <<queue, item, call, child, ready, wait>>
      BY <1>18 DEF AwaitSuspend
    <2>2. CASE ready
      BY <1>18, <2>1, <2>2 DEF AwaitSuspend, Queued, Distinct
    <2>3. CASE ~ready
      <3>1. /\ continuation' = a /\ home' = (home \/ on[a] = Driver)
            /\ tracked' = (tracked \/ on[a] = Driver) /\ on' = [on EXCEPT ![a] = None]
        BY <1>18, <2>3 DEF AwaitSuspend
      <3>2. home' \in BOOLEAN /\ tracked' \in BOOLEAN
        BY <3>1
      <3>3. pending' = IF tracked' THEN pending + 1 ELSE pending
        BY <1>18, <2>3 DEF AwaitSuspend
      <3>4. PICK p \in {"suspended", "detached"} :
              at' = [at EXCEPT ![a] = p] /\ p = IF tracked' THEN "suspended" ELSE "detached"
        BY <1>18, <2>3 DEF AwaitSuspend
      <3>5. at[a] = "suspend" /\ on[a] # None
        BY <1>18 DEF AwaitSuspend
      <3> QED
        BY <2>1, <2>3, <3>1, <3>2, <3>3, <3>4, <3>5 DEF Queued, Distinct
    <2> QED
      BY <2>2, <2>3
  <1>19. ASSUME NEW a \in Awaiter, AwaitResume(a) PROVE ResultIsThere'
    BY <1>19 DEF AwaitResume
  <1>20. ASSUME NEW w \in Waiter, Wait(w) PROVE ResultIsThere'
    BY <1>20 DEF Wait
  <1>21. ASSUME NEW w \in Waiter, Recheck(w) PROVE ResultIsThere'
    BY <1>21 DEF Recheck
  <1>22. ASSUME NEW w \in Waiter, SpuriousWake(w) PROVE ResultIsThere'
    BY <1>22 DEF SpuriousWake
  <1>23. ASSUME UNCHANGED vars PROVE ResultIsThere'
    BY <1>23 DEF vars
  <1> QED
    BY <1>1, <1>2, <1>3, <1>4, <1>5, <1>6, <1>7, <1>8, <1>9, <1>10, <1>11, <1>12, <1>13,
       <1>14, <1>15, <1>16, <1>17, <1>18, <1>19, <1>20, <1>21, <1>22, <1>23 DEF Next,
       Drive, InBridge, Await


-----------------------------------------------------------------------------
(* The work.                                                               *)

\* The awaiters that wait with a unit of work.
Backs == {a \in Awaiter : at[a] = "suspended"}

\* The other terms of WorkAccounted.
Executing == IF item # None THEN 1 ELSE 0
Operating == IF at[Task] = "op" THEN 1 ELSE 0
Bridging == IF at[Bridge] = "suspended" /\ childHome THEN 1 ELSE 0

LEMMA BacksCount ==
  /\ IsFiniteSet(Backs) /\ Cardinality(Backs) \in Nat
  /\ \A a \in Awaiter : a \notin Backs => Cardinality(Backs \cup {a}) = Cardinality(Backs) + 1
  /\ \A a \in Backs : Cardinality(Backs \ {a}) = Cardinality(Backs) - 1
  <1>1. IsFiniteSet(Backs)
    BY JoinAssumption, FS_Subset DEF Backs
  <1> QED
    BY <1>1, FS_CardinalityType, FS_AddElement, FS_RemoveElement

LEMMA WorkStep ==
  ASSUME Typed, QueueSound, StagesSound, JoinSound, WorkAccounted, ~Untracked, [Next]_vars
  PROVE  WorkAccounted'
  <1> USE JoinAssumption DEF Coro, Thread, Run, Suspend, InCoro, Idle, Caller, Handle,
               InAwaiter,
               InScope, Retain, Destroyed, Back, coros, runtime, call, child, join,
               TypeOK, Typed, QueueSound, StagesSound, JoinSound, BridgePoints,
               TaskPoints, AwaiterPoints, Points
  <1>before. /\ Cardinality(Backs) \in Nat /\ Len(queue) \in Nat /\ pending \in Nat
        /\ Executing \in 0 .. 1 /\ Operating \in 0 .. 1 /\ Bridging \in 0 .. 1
        /\ pending = Len(queue) + Executing + Operating + Bridging + Cardinality(Backs)
    <2>1. Cardinality(Backs) \in Nat
      BY BacksCount
    <2>2. Len(queue) \in Nat /\ pending \in Nat
      OBVIOUS
    <2>3. pending = Len(queue) + Executing + Operating + Bridging + Cardinality(Backs)
      BY ONLY WorkAccounted DEF WorkAccounted, Backs, Executing, Operating, Bridging
    <2>4. Executing \in 0 .. 1 /\ Operating \in 0 .. 1 /\ Bridging \in 0 .. 1
      BY ONLY DEF Executing, Operating, Bridging
    <2> QED
      BY ONLY <2>1, <2>2, <2>3, <2>4
  <1>after. pending' = Len(queue') + Executing' + Operating' + Bridging' + Cardinality(Backs')
        => WorkAccounted'
    BY ONLY DEF WorkAccounted, Backs, Executing, Operating, Bridging
  <1>1. ASSUME NEW t \in Thread, RuntimeSpawn(t) PROVE WorkAccounted'
    <2>1. Cardinality(Backs') = Cardinality(Backs)
      <3>1. Backs' = Backs
        BY <1>1 DEF RuntimeSpawn, Backs
      <3> QED
        BY <3>1, Zenon
    <2>2. Len(queue') = Len(queue) + 1
      <3>1. Bridge \in Coro /\ queue' = Append(queue, Bridge)
        BY <1>1 DEF RuntimeSpawn
      <3> QED
        BY <3>1, EnqueueElems
    <2>3. /\ pending' = pending + 1 /\ item' = item /\ at'[Task] = at[Task] /\ childHome' = childHome
          /\ at[Bridge] = "new" /\ at'[Bridge] = "start"
      BY <1>1 DEF RuntimeSpawn
    <2> QED
      <3>1. Executing' = Executing /\ Operating' = Operating /\ Bridging' = Bridging
        BY ONLY <2>1, <2>2, <2>3 DEF Executing, Operating, Bridging
      <3> QED
        BY ONLY <2>1, <2>2, <2>3, <3>1, <1>before, <1>after
  <1>2. ASSUME NEW t \in Thread, FreeSpawn(t) PROVE WorkAccounted'
    <2>1. Cardinality(Backs') = Cardinality(Backs)
      <3>1. Backs' = Backs
        BY <1>2 DEF FreeSpawn, Backs
      <3> QED
        BY <3>1, Zenon
    <2> QED
      BY <1>2, <2>1, <1>before, <1>after DEF FreeSpawn, Executing, Operating, Bridging
  <1>3. ASSUME NEW t \in Thread, ParkEnds(t) PROVE WorkAccounted'
    <2>1. Cardinality(Backs') = Cardinality(Backs)
      <3>1. Backs' = Backs
        BY <1>3 DEF ParkEnds, Backs
      <3> QED
        BY <3>1, Zenon
    <2> QED
      BY <1>3, <2>1, <1>before, <1>after DEF ParkEnds, Executing, Operating, Bridging
  <1>4. ASSUME NEW t \in Thread, NEW a \in Awaiter, Post(t, a) PROVE WorkAccounted'
    <2>1. Cardinality(Backs') = Cardinality(Backs)
      <3>1. Backs' = Backs
        BY <1>4 DEF Post, Backs
      <3> QED
        BY <3>1, Zenon
    <2>2. Len(queue') = Len(queue) + 1
      <3>1. a \in Coro /\ queue' = Append(queue, a)
        BY <1>4 DEF Post
      <3> QED
        BY <3>1, EnqueueElems
    <2>3. /\ pending' = pending + 1 /\ item' = item /\ childHome' = childHome
          /\ at'[Task] = at[Task] /\ at'[Bridge] = at[Bridge]
      BY <1>4 DEF Post
    <2> QED
      <3>1. Executing' = Executing /\ Operating' = Operating /\ Bridging' = Bridging
        BY ONLY <2>1, <2>2, <2>3 DEF Executing, Operating, Bridging
      <3> QED
        BY ONLY <2>1, <2>2, <2>3, <3>1, <1>before, <1>after
  <1>5. ASSUME NEW t \in Thread, NEW a \in Awaiter, Start(t, a) PROVE WorkAccounted'
    <2>1. Cardinality(Backs') = Cardinality(Backs)
      <3>1. Backs' = Backs
        BY <1>5 DEF Start, Backs
      <3> QED
        BY <3>1, Zenon
    <2> QED
      BY <1>5, <2>1, <1>before, <1>after DEF Start, Executing, Operating, Bridging
  <1>6. ASSUME SpawnReturns PROVE WorkAccounted'
    <2>1. Cardinality(Backs') = Cardinality(Backs)
      <3>1. Backs' = Backs
        BY <1>6 DEF SpawnReturns, Backs
      <3> QED
        BY <3>1, Zenon
    <2> QED
      BY <1>6, <2>1, <1>before, <1>after DEF SpawnReturns, Executing, Operating, Bridging
  <1>7. ASSUME Dispatch PROVE WorkAccounted'
    <2>1. Cardinality(Backs') = Cardinality(Backs)
      <3>1. Backs' = Backs
        BY <1>7 DEF Dispatch, Backs
      <3> QED
        BY <3>1, Zenon
    <2>2. Len(queue') = Len(queue) - 1 /\ Head(queue) \in Coro
      <3>1. queue # <<>> /\ queue' = Tail(queue)
        BY <1>7 DEF Dispatch
      <3> QED
        BY <3>1, DequeueElems
    <2>3. /\ pending' = pending /\ item = None /\ item' # None /\ childHome' = childHome
          /\ at' = at
      BY <1>7, <2>2 DEF Dispatch
    <2> QED
      <3>1. /\ Executing = 0 /\ Executing' = 1
            /\ Operating' = Operating
            /\ Bridging' = Bridging
        BY ONLY <2>1, <2>2, <2>3 DEF Executing, Operating, Bridging
      <3> QED
        BY ONLY <2>1, <2>2, <2>3, <3>1, <1>before, <1>after
  <1>8. ASSUME FinishItem PROVE WorkAccounted'
    <2>1. Cardinality(Backs') = Cardinality(Backs)
      <3>1. Backs' = Backs
        BY <1>8 DEF FinishItem, Backs
      <3> QED
        BY <3>1, Zenon
    <2>2. /\ item # None /\ item' = None /\ queue' = queue /\ childHome' = childHome
          /\ pending' = IF pending > 0 THEN pending - 1 ELSE 0
          /\ at'[Task] = "op" <=> at[Task] = "op"
          /\ at'[Bridge] = "suspended" <=> at[Bridge] = "suspended"
      BY <1>8 DEF FinishItem
    <2> QED
      <3>1. /\ Executing = 1 /\ Executing' = 0
            /\ Operating' = Operating
            /\ Bridging' = Bridging
        BY ONLY <2>1, <2>2 DEF Executing, Operating, Bridging
      <3> QED
        BY ONLY <2>1, <2>2, <3>1, <1>before, <1>after
  <1>9. ASSUME AwaitTask PROVE WorkAccounted'
    <2>1. Cardinality(Backs') = Cardinality(Backs)
      <3>1. Backs' = Backs
        BY <1>9 DEF AwaitTask, Backs
      <3> QED
        BY <3>1, Zenon
    <2>2. /\ at[Bridge] = "start" /\ at'[Bridge] = "suspended" /\ at[Task] = "new"
          /\ at'[Task] = "body" /\ UNCHANGED <<queue, item>>
          /\ childHome' = (on[Bridge] = Driver)
          /\ pending' = IF on[Bridge] = Driver THEN pending + 1 ELSE pending
      BY <1>9 DEF AwaitTask
    <2> QED
      <3>1. /\ Executing' = Executing
            /\ Operating' = Operating
            /\ Bridging = 0 /\ Bridging' = IF on[Bridge] = Driver THEN 1 ELSE 0
        BY ONLY <2>1, <2>2 DEF Executing, Operating, Bridging
      <3> QED
        BY ONLY <2>1, <2>2, <3>1, <1>before, <1>after
  <1>10. ASSUME SetValue PROVE WorkAccounted'
    <2>1. Cardinality(Backs') = Cardinality(Backs)
      <3>1. Backs' = Backs
        BY <1>10 DEF SetValue, Backs
      <3> QED
        BY <3>1, Zenon
    <2> QED
      BY <1>10, <2>1, <1>before, <1>after DEF SetValue, Executing, Operating, Bridging
  <1>11. ASSUME NotifyAll PROVE WorkAccounted'
    <2>1. Cardinality(Backs') = Cardinality(Backs)
      <3>1. Backs' = Backs
        BY <1>11 DEF NotifyAll, Backs
      <3> QED
        BY <3>1, Zenon
    <2> QED
      BY <1>11, <2>1, <1>before, <1>after DEF NotifyAll, Executing, Operating, Bridging
  <1>12. ASSUME ResumeAwaiter PROVE WorkAccounted'
    <2>1. /\ at[Bridge] = "resume" /\ at'[Bridge] = "end" /\ at'[Task] = at[Task]
          /\ UNCHANGED <<pending, item, childHome>>
      BY <1>12 DEF ResumeAwaiter
    <2>2. CASE continuation = None
      <3>1. Backs' = Backs /\ queue' = queue
        BY <1>12, <2>2 DEF ResumeAwaiter, Backs
      <3>2. Cardinality(Backs') = Cardinality(Backs)
        BY <3>1, Zenon
      <3> QED
        <4>1. /\ Executing' = Executing
              /\ Operating' = Operating
              /\ Bridging' = Bridging
          BY ONLY <2>1, <3>1, <3>2 DEF Executing, Operating, Bridging
        <4> QED
          BY ONLY <2>1, <3>1, <3>2, <4>1, <1>before, <1>after
    <2>3. CASE continuation # None
      <3>1. /\ continuation \in Awaiter /\ at[continuation] = IF tracked THEN "suspended" ELSE "detached"
            /\ home <=> tracked
        BY <2>1, <2>3
      <3>2. at' = [at EXCEPT ![Bridge] = "end", ![continuation] = "resume"]
        BY <1>12, <2>3 DEF ResumeAwaiter
      <3>3. CASE home
        <4>1. continuation \in Backs /\ Backs' = Backs \ {continuation}
          BY <3>1, <3>2, <3>3 DEF Backs
        <4>2. Cardinality(Backs') = Cardinality(Backs) - 1
          BY <4>1, BacksCount
        <4>3. continuation \in Coro /\ queue' = Append(queue, continuation)
          BY <1>12, <2>3, <3>1, <3>3 DEF ResumeAwaiter
        <4>4. Len(queue') = Len(queue) + 1
          BY <4>3, EnqueueElems
        <4> QED
          <5>1. /\ Executing' = Executing
                /\ Operating' = Operating
                /\ Bridging' = Bridging
            BY ONLY <2>1, <4>2, <4>4 DEF Executing, Operating, Bridging
          <5> QED
            BY ONLY <2>1, <4>2, <4>4, <5>1, <1>before, <1>after
      <3>4. CASE ~home
        <4>1. Backs' = Backs
          BY <3>1, <3>2, <3>4 DEF Backs
        <4>2. Cardinality(Backs') = Cardinality(Backs)
          BY <4>1, Zenon
        <4>3. queue' = queue
          BY <1>12, <2>3, <3>4 DEF ResumeAwaiter
        <4> QED
          <5>1. /\ Executing' = Executing
                /\ Operating' = Operating
                /\ Bridging' = Bridging
            BY ONLY <2>1, <4>2, <4>3 DEF Executing, Operating, Bridging
          <5> QED
            BY ONLY <2>1, <4>2, <4>3, <5>1, <1>before, <1>after
      <3> QED
        BY <3>3, <3>4
    <2> QED
      BY <2>2, <2>3
  <1>13. ASSUME BridgeReturns PROVE WorkAccounted'
    <2>1. Cardinality(Backs') = Cardinality(Backs)
      <3>1. Backs' = Backs
        BY <1>13 DEF BridgeReturns, Backs
      <3> QED
        BY <3>1, Zenon
    <2> QED
      BY <1>13, <2>1, <1>before, <1>after DEF BridgeReturns, Executing, Operating,
         Bridging
  <1>14. ASSUME TaskSuspend PROVE WorkAccounted'
    <2>1. Cardinality(Backs') = Cardinality(Backs)
      <3>1. Backs' = Backs
        BY <1>14 DEF TaskSuspend, Backs
      <3> QED
        BY <3>1, Zenon
    <2>2. PICK p \in {"op", "parked"} :
            /\ at'[Task] = p /\ at'[Bridge] = at[Bridge]
            /\ pending' = IF p = "op" THEN pending + 1 ELSE pending
      BY <1>14 DEF TaskSuspend
    <2>3. at[Task] = "body" /\ UNCHANGED <<queue, item, childHome>>
      BY <1>14 DEF TaskSuspend
    <2> QED
      <3>1. /\ Executing' = Executing
            /\ Operating = 0 /\ Operating' = IF p = "op" THEN 1 ELSE 0
            /\ Bridging' = Bridging
        BY ONLY <2>1, <2>2, <2>3 DEF Executing, Operating, Bridging
      <3> QED
        BY ONLY <2>1, <2>2, <2>3, <3>1, <1>before, <1>after
  <1>15. ASSUME OpCompletes PROVE WorkAccounted'
    <2>1. Cardinality(Backs') = Cardinality(Backs)
      <3>1. Backs' = Backs
        BY <1>15 DEF OpCompletes, Backs
      <3> QED
        BY <3>1, Zenon
    <2>2. Len(queue') = Len(queue) + 1
      <3>1. Task \in Coro /\ queue' = Append(queue, Task)
        BY <1>15 DEF OpCompletes
      <3> QED
        BY <3>1, EnqueueElems
    <2>3. /\ pending' = pending /\ item' = item /\ childHome' = childHome
          /\ at[Task] = "op" /\ at'[Task] = "body" /\ at'[Bridge] = at[Bridge]
      BY <1>15 DEF OpCompletes
    <2> QED
      <3>1. Executing' = Executing /\ Operating = 1 /\ Operating' = 0 /\ Bridging' = Bridging
        BY ONLY <2>1, <2>2, <2>3 DEF Executing, Operating, Bridging
      <3> QED
        BY ONLY <2>1, <2>2, <2>3, <3>1, <1>before, <1>after
  <1>16. ASSUME TaskReturn PROVE WorkAccounted'
    <2>1. Cardinality(Backs') = Cardinality(Backs)
      <3>1. Backs' = Backs
        BY <1>16 DEF TaskReturn, Backs
      <3> QED
        BY <3>1, Zenon
    <2>2. /\ at[Task] = "body" /\ at'[Task] = "final" /\ at[Bridge] = "suspended"
          /\ at'[Bridge] = "result" /\ item' = item /\ pending' = pending
      BY <1>16 DEF TaskReturn
    <2>3. CASE childHome
      <3>1. Bridge \in Coro /\ queue' = Append(queue, Bridge)
        BY <1>16, <2>3 DEF TaskReturn
      <3>2. Len(queue') = Len(queue) + 1
        BY <3>1, EnqueueElems
      <3> QED
        <4>1. /\ Executing' = Executing
              /\ Operating' = Operating
              /\ Bridging = 1 /\ Bridging' = 0
          BY ONLY <2>1, <2>2, <2>3, <3>2 DEF Executing, Operating, Bridging
        <4> QED
          BY ONLY <2>1, <2>2, <2>3, <3>2, <4>1, <1>before, <1>after
    <2>4. CASE ~childHome
      <3>1. queue' = queue /\ childHome' = childHome
        BY <1>16, <2>4 DEF TaskReturn
      <3> QED
        <4>1. /\ Executing' = Executing
              /\ Operating' = Operating
              /\ Bridging' = Bridging
          BY ONLY <2>1, <2>2, <2>4, <3>1 DEF Executing, Operating, Bridging
        <4> QED
          BY ONLY <2>1, <2>2, <2>4, <3>1, <4>1, <1>before, <1>after
    <2> QED
      BY <2>3, <2>4
  <1>17. ASSUME NEW a \in Awaiter, AwaitReady(a) PROVE WorkAccounted'
    <2>1. Cardinality(Backs') = Cardinality(Backs)
      <3>1. Backs' = Backs
        BY <1>17 DEF AwaitReady, Backs
      <3> QED
        BY <3>1, Zenon
    <2> QED
      BY <1>17, <2>1, <1>before, <1>after DEF AwaitReady, Executing, Operating, Bridging
  <1>18. ASSUME NEW a \in Awaiter, AwaitSuspend(a) PROVE WorkAccounted'
    <2>1. /\ at[a] = "suspend" /\ UNCHANGED <<queue, item, childHome>>
          /\ at'[Task] = at[Task] /\ at'[Bridge] = at[Bridge]
      BY <1>18 DEF AwaitSuspend
    <2>2. CASE ~ready /\ tracked'
      <3>1. at' = [at EXCEPT ![a] = "suspended"] /\ pending' = pending + 1
        BY <1>18, <2>2 DEF AwaitSuspend
      <3>2. a \notin Backs /\ Backs' = Backs \cup {a}
        BY <2>1, <3>1 DEF Backs
      <3>3. Cardinality(Backs') = Cardinality(Backs) + 1
        BY <3>2, BacksCount
      <3> QED
        <4>1. /\ Executing' = Executing
              /\ Operating' = Operating
              /\ Bridging' = Bridging
          BY ONLY <2>1, <3>1, <3>3 DEF Executing, Operating, Bridging
        <4> QED
          BY ONLY <2>1, <3>1, <3>3, <4>1, <1>before, <1>after
    <2>3. CASE ready \/ ~tracked'
      <3>1. PICK p \in {"resume", "detached"} : at' = [at EXCEPT ![a] = p]
        BY <1>18, <2>3 DEF AwaitSuspend
      <3>2. Backs' = Backs
        BY <2>1, <3>1 DEF Backs
      <3>3. Cardinality(Backs') = Cardinality(Backs)
        BY <3>2, Zenon
      <3>4. pending' = pending
        BY <1>18, <2>3 DEF AwaitSuspend
      <3> QED
        <4>1. /\ Executing' = Executing
              /\ Operating' = Operating
              /\ Bridging' = Bridging
          BY ONLY <2>1, <3>3, <3>4 DEF Executing, Operating, Bridging
        <4> QED
          BY ONLY <2>1, <3>3, <3>4, <4>1, <1>before, <1>after
    <2> QED
      BY <2>2, <2>3
  <1>19. ASSUME NEW a \in Awaiter, AwaitResume(a) PROVE WorkAccounted'
    <2>1. Cardinality(Backs') = Cardinality(Backs)
      <3>1. Backs' = Backs
        BY <1>19 DEF AwaitResume, Backs
      <3> QED
        BY <3>1, Zenon
    <2> QED
      BY <1>19, <2>1, <1>before, <1>after DEF AwaitResume, Executing, Operating, Bridging
  <1>20. ASSUME NEW w \in Waiter, Wait(w) PROVE WorkAccounted'
    <2>1. Cardinality(Backs') = Cardinality(Backs)
      <3>1. Backs' = Backs
        BY <1>20 DEF Wait, Backs
      <3> QED
        BY <3>1, Zenon
    <2> QED
      BY <1>20, <2>1, <1>before, <1>after DEF Wait, Executing, Operating, Bridging
  <1>21. ASSUME NEW w \in Waiter, Recheck(w) PROVE WorkAccounted'
    <2>1. Cardinality(Backs') = Cardinality(Backs)
      <3>1. Backs' = Backs
        BY <1>21 DEF Recheck, Backs
      <3> QED
        BY <3>1, Zenon
    <2> QED
      BY <1>21, <2>1, <1>before, <1>after DEF Recheck, Executing, Operating, Bridging
  <1>22. ASSUME NEW w \in Waiter, SpuriousWake(w) PROVE WorkAccounted'
    <2>1. Cardinality(Backs') = Cardinality(Backs)
      <3>1. Backs' = Backs
        BY <1>22 DEF SpuriousWake, Backs
      <3> QED
        BY <3>1, Zenon
    <2> QED
      BY <1>22, <2>1, <1>before, <1>after DEF SpuriousWake, Executing, Operating, Bridging
  <1>23. ASSUME UNCHANGED vars PROVE WorkAccounted'
    <2>1. Cardinality(Backs') = Cardinality(Backs)
      <3>1. Backs' = Backs
        BY <1>23 DEF vars, Backs
      <3> QED
        BY <3>1, Zenon
    <2> QED
      BY <1>23, <2>1, <1>before, <1>after DEF vars, Executing, Operating, Bridging
  <1> QED
    BY <1>1, <1>2, <1>3, <1>4, <1>5, <1>6, <1>7, <1>8, <1>9, <1>10, <1>11, <1>12, <1>13,
       <1>14, <1>15, <1>16, <1>17, <1>18, <1>19, <1>20, <1>21, <1>22, <1>23 DEF Next,
       Drive, InBridge, Await

-----------------------------------------------------------------------------
(* The theorems.                                                           *)

LEMMA InitStep == Init => IInv /\ WorkAccounted
  <1> SUFFICES ASSUME Init PROVE IInv /\ WorkAccounted
    OBVIOUS
  <1> USE JoinAssumption DEF Init, Coro, Thread, BridgePoints, TaskPoints, AwaiterPoints,
               Points
  <1>1. Queued = {}
    BY DEF Queued
  <1>2. Typed
    <2>1. at \in [Coro -> Points] /\ on \in [Coro -> Thread \cup {None}]
      OBVIOUS
    <2>2. queue \in Seq(Coro) /\ pending \in Nat /\ suspends \in 0 .. MaxSuspend
      OBVIOUS
    <2> QED
      BY <1>1, <2>1, <2>2 DEF Typed, TypeOK
  <1>3. QueueSound
    BY <1>1 DEF QueueSound, Distinct
  <1>4. StagesSound /\ JoinSound /\ ResultIsThere
    BY DEF StagesSound, JoinSound, ResultIsThere
  <1>5. WorkAccounted
    <2>1. Cardinality({a \in Awaiter : at[a] = "suspended"}) = 0
      <3>1. {a \in Awaiter : at[a] = "suspended"} = {}
        OBVIOUS
      <3> QED
        BY <3>1, FS_EmptySet
    <2> QED
      BY <2>1 DEF WorkAccounted
  <1> QED
    BY <1>2, <1>3, <1>4, <1>5 DEF IInv

LEMMA NextStep == IInv /\ [Next]_vars => IInv'
  BY TypeStep, QueueStep, StagesStep, JoinStep, ResultStep DEF IInv

\* However a handle is made, awaited and waited for, and whichever threads run the
\* coroutines, the code keeps the inductive invariant.
THEOREM InvariantHolds == Spec => []IInv
  BY InitStep, NextStep, PTL DEF Spec

\* The members of JoinState and of the promises keep their types, and a coroutine in
\* ready_queue_ runs on no thread.
THEOREM TypeCorrect == Spec => []TypeOK
  <1>1. IInv => TypeOK
    BY DEF IInv, Typed
  <1> QED
    BY <1>1, InvariantHolds, PTL

\* Whoever goes on after co_await or wait() finds the result: the assertion of
\* JoinHandle::await_resume never fails.
THEOREM ResultIsAlwaysThere == Spec => []ResultIsThere
  <1>1. IInv => ResultIsThere
    BY DEF IInv
  <1> QED
    BY <1>1, InvariantHolds, PTL

\* No destroyed frame runs or is queued, and the bridge of spawn() outlives a task that
\* has not returned to it, whether the runtime or the bridge itself destroys the frame.
THEOREM FramesStayAlive == Spec => []FramesAreAlive
  <1>1. IInv => FramesAreAlive
    BY DEF IInv, QueueSound, StagesSound, FramesAreAlive
  <1> QED
    BY <1>1, InvariantHolds, PTL

\* As long as handles of Runtime::spawn are awaited inside the runtime, pending_work_ is
\* what is queued, what the driver executes and what will come back to the queue.
THEOREM WorkIsAccounted == ~Untracked => (Spec => []WorkAccounted)
  <1> SUFFICES ASSUME ~Untracked PROVE Spec => []WorkAccounted
    OBVIOUS
  <1>1. IInv /\ WorkAccounted /\ [Next]_vars => WorkAccounted'
    BY WorkStep DEF IInv
  <1> QED
    BY <1>1, InitStep, InvariantHolds, PTL DEF Spec

\* An awaiter that waits with a unit of work is resumed through ready_queue_ and never
\* inline by the thread that completes the task: JoinState takes over the schedule
\* function together with the tracker.
THEOREM AwaitersReturnHome == Spec => ReturnsHome
  <1> DEFINE Home == \A a \in Awaiter :
               at[a] = "suspended" /\ at'[a] = "resume" => on'[a] = None /\ a \in Queued'
  <1>1. ASSUME IInv, [Next]_vars PROVE Home
    <2>1. SUFFICES ASSUME NEW a \in Awaiter, at[a] = "suspended", at'[a] = "resume"
                   PROVE  on'[a] = None /\ a \in Queued'
      OBVIOUS
    <2>2. ResumeAwaiter /\ continuation = a
      BY <1>1, <2>1, JoinAssumption
      DEF IInv, Typed, TypeOK, Coro, Next, Drive, InBridge, Await, vars, coros, runtime,
      call,
          child, join, Run, Suspend, InCoro, InAwaiter, RuntimeSpawn, FreeSpawn,
          ParkEnds, Post,
          Start, SpawnReturns, Dispatch, FinishItem, Destroyed, AwaitTask, SetValue,
          NotifyAll,
          ResumeAwaiter, BridgeReturns, TaskSuspend, OpCompletes, TaskReturn, AwaitReady,
          AwaitSuspend, AwaitResume, Wait, Recheck, SpuriousWake
    <2>3. tracked /\ home /\ on[a] = None /\ continuation # None
      BY <1>1, <2>1, <2>2, JoinAssumption
      DEF IInv, StagesSound, JoinSound, ResumeAwaiter, InCoro, Coro
    <2>4. on' = on /\ queue' = Append(queue, a)
      BY <2>2, <2>3 DEF ResumeAwaiter
    <2>5. Queued' = Queued \cup {a}
      BY <1>1, <2>4, EnqueueElems DEF IInv, Coro
    <2> QED
      BY <2>3, <2>4, <2>5
  <1>2. IInv /\ [Next]_vars => [Home]_vars
    BY <1>1
  <1> QED
    BY <1>2, InvariantHolds, PTL DEF Spec, ReturnsHome

=============================================================================
