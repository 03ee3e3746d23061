---------------------------- MODULE CancelProofs ----------------------------
(***************************************************************************)
(* Proofs about Cancel: for any registrations, callbacks and threads, what *)
(* reset() leaves behind neither runs nor can run, no armed callback is    *)
(* stranded, and registrations never share one.                            *)
(***************************************************************************)
EXTENDS Cancel, SequenceTheorems, TLAPS

-----------------------------------------------------------------------------
(* The inductive invariant.                                                *)

\* Inside reset(), while the registration still has its callback.
Holding == {"remove", "disarm", "wait", "woken", "release"}
Invoking == {"invoke", "body", "notify"}

\* reset(token, ...) has made a callback state that nobody else knows yet.
Fresh(t) == goal[t] = "add" /\ pc[t] \in Holding \cup {"add"}

\* What a call found when it began is still so: its registrations are its own.
CallsSound ==
  /\ \A t \in Thread :
       /\ pc[t] \in Holding => obj[t] \in Reg /\ holds[obj[t]] # NoCb
       /\ pc[t] \in {"add", "store", "take"} => obj[t] \in Reg /\ holds[obj[t]] = NoCb
       /\ pc[t] \in {"add", "store"} => goal[t] = "add"
       /\ pc[t] = "take" => goal[t] \in Reg
       /\ pc[t] \in Holding \cup {"take"} => goal[t] # obj[t]
  /\ \A t, u \in Thread : t # u /\ pc[t] # "idle" /\ pc[u] # "idle" =>
       \A r \in Reg : ~(r \in {obj[t], goal[t]} /\ r \in {obj[u], goal[u]})

\* A fresh callback state is nowhere else; one that is in the list and waits for its
\* registration is held by none.
FreshSound ==
  /\ \A t \in Thread :
       /\ Fresh(t) \/ pc[t] = "store" =>
            cb[t] \in made /\ \A r \in Reg : holds[r] # cb[t]
       /\ Fresh(t) =>
            /\ cb[t] \notin context /\ cb[t] \notin ToSet(list)
            /\ \A u \in Thread : cb[t] \notin ToSet(todo[u])
       /\ pc[t] = "store" => cb[t] \in context
  /\ \A t, u \in Thread :
       /\ Fresh(t) \/ pc[t] = "store"
       /\ Fresh(u) \/ pc[u] = "store"
       /\ cb[t] = cb[u]
       => t = u

\* What is armed or runs is alive; what is known at all has been made, and is in the
\* list at most once.
KnownSound ==
  /\ armed \subseteq context /\ running \subseteq context /\ context \subseteq made
  /\ ToSet(list) \subseteq made /\ \A t \in Thread : ToSet(todo[t]) \subseteq made
  /\ IsInjective(list)

\* A callback that has been disarmed stays so: it is armed when it is added, and never
\* again.
DisarmedSound ==
  \A t \in Thread :
    /\ pc[t] \in {"wait", "woken", "release"} => holds[obj[t]] \notin armed
    /\ pc[t] = "release" => holds[obj[t]] \notin running
    /\ pc[t] \in {"body", "notify"} => Head(todo[t]) \notin armed

IInv ==
  /\ TypeOK /\ CallsSound /\ OwnedOnce /\ FreshSound /\ KnownSound /\ DisarmedSound
  /\ ArmedIsReachable

-----------------------------------------------------------------------------
(* Sequences, as sets.                                                     *)

LEMMA ElemsTyped ==
  ASSUME NEW S, NEW s \in Seq(S)
  PROVE  ToSet(s) \subseteq S
  BY DEF ToSet

LEMMA HeadElems ==
  ASSUME NEW S, NEW s \in Seq(S), s # <<>>
  PROVE  /\ Head(s) \in ToSet(s) /\ Head(s) \in S
         /\ Tail(s) \in Seq(S) /\ (Tail(s) = <<>> <=> Len(s) = 1)
         /\ ToSet(s) = {Head(s)} \cup ToSet(Tail(s))
  <1>1. /\ Len(s) \in Nat \ {0} /\ DOMAIN s = 1 .. Len(s) /\ Head(s) = s[1]
        /\ Tail(s) \in Seq(S) /\ Len(Tail(s)) = Len(s) - 1 /\ DOMAIN Tail(s) = 1 .. Len(s) - 1
        /\ \A i \in 1 .. Len(s) - 1 : Tail(s)[i] = s[i + 1]
        /\ \A i \in 1 .. Len(s) : s[i] \in S
    OBVIOUS
  <1>2. ToSet(Tail(s)) \subseteq ToSet(s)
    BY <1>1 DEF ToSet
  <1>3. Head(s) \in ToSet(s) /\ Head(s) \in S
    BY <1>1 DEF ToSet
  <1>4. ASSUME NEW x \in ToSet(s), x # Head(s) PROVE x \in ToSet(Tail(s))
    <2>1. PICK i \in 1 .. Len(s) : s[i] = x
      BY <1>1 DEF ToSet
    <2>2. i # 1 /\ i - 1 \in 1 .. Len(s) - 1 /\ Tail(s)[i - 1] = x
      BY <1>1, <1>4, <2>1
    <2> QED
      BY <1>1, <2>2 DEF ToSet
  <1>5. Tail(s) = <<>> <=> Len(s) = 1
    <2>1. Tail(s) = <<>> <=> Len(Tail(s)) = 0
      BY <1>1, EmptySeq
    <2> QED
      BY <1>1, <2>1
  <1> QED
    BY <1>1, <1>2, <1>3, <1>4, <1>5

LEMMA AppendElems ==
  ASSUME NEW S, NEW s \in Seq(S), NEW x \in S
  PROVE  /\ Append(s, x) \in Seq(S)
         /\ ToSet(Append(s, x)) = ToSet(s) \cup {x}
         /\ IsInjective(s) /\ x \notin ToSet(s) => IsInjective(Append(s, x))
  <1> DEFINE r == Append(s, x)
  <1>1. /\ Len(s) \in Nat /\ DOMAIN s = 1 .. Len(s)
        /\ r \in Seq(S) /\ DOMAIN r = 1 .. Len(s) + 1
        /\ r[Len(s) + 1] = x /\ \A i \in 1 .. Len(s) : r[i] = s[i]
    OBVIOUS
  <1> HIDE DEF r
  <1>2. \A i \in DOMAIN r : i \in DOMAIN s \/ i = Len(s) + 1
    BY <1>1
  <1>3. \A i \in DOMAIN s : i \in DOMAIN r
    BY <1>1
  <1>4. Len(s) + 1 \in DOMAIN r
    BY <1>1
  <1>5. ToSet(r) = ToSet(s) \cup {x}
    BY <1>1, <1>2, <1>3, <1>4 DEF ToSet
  <1>6. IsInjective(s) /\ x \notin ToSet(s) => IsInjective(r)
    BY <1>1, <1>2 DEF IsInjective, ToSet
  <1> QED
    BY <1>1, <1>5, <1>6 DEF r

LEMMA TailLength ==
  ASSUME NEW n \in Nat, NEW i \in 1 .. n
  PROVE  (IF i + 1 <= n THEN n - (i + 1) + 1 ELSE 0) = n - i
  OBVIOUS

\* What remove_callback leaves of the list.
LEMMA EraseElems ==
  ASSUME NEW S, NEW s \in Seq(S), NEW b, IsInjective(s)
  PROVE  /\ Erase(s, b) \in Seq(S)
         /\ ToSet(Erase(s, b)) = ToSet(s) \ {b}
         /\ IsInjective(Erase(s, b))
  <1>1. CASE b \notin ToSet(s)
    BY <1>1 DEF Erase
  <1>2. CASE b \in ToSet(s)
    <2> DEFINE i == CHOOSE j \in DOMAIN s : s[j] = b
               r == RemoveAt(s, i)
    <2>1. i \in DOMAIN s /\ s[i] = b
      BY <1>2 DEF ToSet
    <2>2. Erase(s, b) = r
      BY <1>2 DEF Erase
    <2>3. i \in 1 .. Len(s) /\ Len(s) \in Nat /\ DOMAIN s = 1 .. Len(s)
      BY <2>1
    <2> HIDE DEF i
    <2> DEFINE p == SubSeq(s, 1, i - 1)
               q == SubSeq(s, i + 1, Len(s))
    <2>4. \A j \in 1 .. Len(s) : s[j] \in S
      OBVIOUS
    <2>5. /\ r \in Seq(S) /\ DOMAIN r = 1 .. Len(s) - 1
          /\ \A j \in 1 .. Len(s) - 1 : r[j] = IF j < i THEN s[j] ELSE s[j + 1]
      <3>1. /\ p \in Seq(S) /\ Len(p) = i - 1
            /\ \A j \in 1 .. i - 1 : p[j] = s[j]
        <4>1. i - 1 \in Int /\ \A j \in 1 .. i - 1 : s[j] \in S
          BY <2>3, <2>4
        <4>2. /\ p \in Seq(S) /\ Len(p) = (IF 1 <= i - 1 THEN (i - 1) - 1 + 1 ELSE 0)
              /\ \A j \in 1 .. (i - 1) - 1 + 1 : p[j] = s[1 + j - 1]
          BY <4>1, SubSeqProperties
        <4> HIDE DEF p
        <4> QED
          BY <2>3, <4>2
      <3>2. /\ q \in Seq(S) /\ Len(q) = Len(s) - i
            /\ \A j \in 1 .. Len(s) - i : q[j] = s[i + j]
        <4>1. i + 1 \in Int /\ Len(s) \in Int /\ \A j \in i + 1 .. Len(s) : s[j] \in S
          BY <2>3, <2>4
        <4>2. /\ q \in Seq(S) /\ Len(q) = (IF i + 1 <= Len(s) THEN Len(s) - (i + 1) + 1 ELSE 0)
              /\ \A j \in 1 .. Len(s) - (i + 1) + 1 : q[j] = s[(i + 1) + j - 1]
          BY <4>1, SubSeqProperties
        <4> HIDE DEF q
        <4>3. Len(q) = Len(s) - i
          <5>1. Len(q) = IF i + 1 <= Len(s) THEN Len(s) - (i + 1) + 1 ELSE 0
            BY <4>2
          <5>2. (IF i + 1 <= Len(s) THEN Len(s) - (i + 1) + 1 ELSE 0) = Len(s) - i
            BY <2>3, TailLength
          <5> QED
            BY ONLY <5>1, <5>2
        <4>4. ASSUME NEW j \in 1 .. Len(s) - i PROVE q[j] = s[i + j]
          <5>1. j \in 1 .. Len(s) - (i + 1) + 1 /\ (i + 1) + j - 1 = i + j
            BY <2>3
          <5>2. q[j] = s[(i + 1) + j - 1]
            BY <4>2, <5>1
          <5> QED
            BY <5>1, <5>2
        <4> QED
          BY <4>2, <4>3, <4>4
      <3>3. r = p \o q
        BY DEF RemoveAt
      <3> HIDE DEF p, q, r
      <3>4. /\ r \in Seq(S) /\ Len(r) = (i - 1) + (Len(s) - i)
            /\ \A j \in 1 .. (i - 1) + (Len(s) - i) :
                 r[j] = IF j <= i - 1 THEN p[j] ELSE q[j - (i - 1)]
        <4>1. /\ p \o q \in Seq(S) /\ Len(p \o q) = Len(p) + Len(q)
              /\ \A j \in 1 .. Len(p) + Len(q) :
                   (p \o q)[j] = IF j <= Len(p) THEN p[j] ELSE q[j - Len(p)]
          <5>1. p \in Seq(S) /\ q \in Seq(S)
            BY <3>1, <3>2
          <5> QED
            BY ONLY <5>1, ConcatProperties
        <4> QED
          BY ONLY <3>1, <3>2, <3>3, <4>1
      <3>5. DOMAIN r = 1 .. Len(s) - 1
        <4>1. (i - 1) + (Len(s) - i) = Len(s) - 1
          BY <2>3
        <4> QED
          BY <3>4, <4>1, LenProperties
      <3>6. ASSUME NEW j \in 1 .. Len(s) - 1 PROVE r[j] = IF j < i THEN s[j] ELSE s[j + 1]
        <4>1. j \in 1 .. (i - 1) + (Len(s) - i)
          BY <2>3
        <4>2. CASE j < i
          <5>1. j <= i - 1 /\ j \in 1 .. i - 1
            BY <2>3, <4>2
          <5> QED
            BY <3>1, <3>4, <4>1, <4>2, <5>1
        <4>3. CASE ~(j < i)
          <5>1. /\ ~(j <= i - 1) /\ j - (i - 1) \in 1 .. Len(s) - i
                /\ i + (j - (i - 1)) = j + 1
            BY <2>3, <4>3
          <5>2. r[j] = q[j - (i - 1)]
            BY <3>4, <4>1, <5>1
          <5>3. q[j - (i - 1)] = s[i + (j - (i - 1))]
            BY <3>2, <5>1
          <5> QED
            BY <4>3, <5>1, <5>2, <5>3
        <4> QED
          BY <4>2, <4>3
      <3> QED
        BY <3>4, <3>5, <3>6
    <2> HIDE DEF r
    <2>6. \A j \in DOMAIN r : r[j] \in ToSet(s) \ {b}
      BY <2>1, <2>3, <2>5, SMTT(30) DEF ToSet, IsInjective
    <2>7. ASSUME NEW x \in ToSet(s) \ {b} PROVE x \in ToSet(r)
      <3>1. PICK j \in 1 .. Len(s) : s[j] = x /\ j # i
        BY <2>1, <2>3 DEF ToSet
      <3>2. CASE j < i
        <4>1. j \in DOMAIN r /\ r[j] = x
          BY <2>3, <2>5, <3>1, <3>2
        <4> QED
          BY <4>1 DEF ToSet
      <3>3. CASE j > i
        <4>1. j - 1 \in DOMAIN r /\ r[j - 1] = x
          BY <2>3, <2>5, <3>1, <3>3
        <4> QED
          BY <4>1 DEF ToSet
      <3> QED
        BY <2>3, <3>1, <3>2, <3>3
    <2>8. IsInjective(r)
      BY <2>3, <2>5 DEF IsInjective
    <2>9. ToSet(r) \subseteq ToSet(s) \ {b}
      BY <2>6 DEF ToSet
    <2> QED
      BY <2>2, <2>5, <2>7, <2>8, <2>9
  <1> QED
    BY <1>1, <1>2

-----------------------------------------------------------------------------
(* Types.                                                                  *)

LEMMA TypeStep ==
  ASSUME TypeOK, CallsSound, KnownSound, FreshSound, [Next]_vars
  PROVE  TypeOK'
  <1> USE CancelAssumption DEF TypeOK, CallPc, At, Goto, Begin, shared, state, frame
  <1>1. ASSUME NEW t \in Thread, Invoke(t) PROVE TypeOK'
    BY <1>1 DEF Invoke
  <1>2. ASSUME NEW t \in Thread, InvokeSkip(t) PROVE TypeOK'
    <2>1. todo[t] # <<>> /\ todo[t] \in Seq(Cb)
      BY <1>2 DEF InvokeSkip
    <2> QED
      BY <1>2, <2>1, HeadElems DEF InvokeSkip, Advance
  <1>3. ASSUME NEW t \in Thread, InvokeReturn(t) PROVE TypeOK'
    BY <1>3 DEF InvokeReturn
  <1>4. ASSUME NEW t \in Thread, InvokeNotify(t) PROVE TypeOK'
    <2>1. todo[t] # <<>> /\ todo[t] \in Seq(Cb)
      BY <1>4 DEF InvokeNotify
    <2> QED
      BY <1>4, <2>1, HeadElems DEF InvokeNotify, Advance
  <1>5. ASSUME NEW t \in Thread, RemoveCallback(t) PROVE TypeOK'
    <2>1. list' \in Seq(Cb)
      BY <1>5, EraseElems DEF RemoveCallback, KnownSound
    <2> QED
      BY <1>5, <2>1 DEF RemoveCallback
  <1>6. ASSUME NEW t \in Thread, Disarm(t) PROVE TypeOK'
    BY <1>6 DEF Disarm
  <1>7. ASSUME NEW t \in Thread, Recheck(t) PROVE TypeOK'
    BY <1>7 DEF Recheck
  <1>8. ASSUME NEW t \in Thread, Release(t) PROVE TypeOK'
    <2>1. PICK p \in {"idle", "add", "take"} : pc' = [pc EXCEPT ![t] = p]
      BY <1>8 DEF Release
    <2> QED
      BY <1>8, <2>1 DEF Release
  <1>9. ASSUME NEW t \in Thread, Add(t) PROVE TypeOK'
    <2>1. pc[t] = "add" /\ cb[t] \in Cb
      BY <1>9 DEF Add, FreshSound, CallsSound, Fresh, KnownSound
    <2>2. <<cb[t]>> # <<>> /\ <<cb[t]>> \in Seq(Cb)
      BY <2>1
    <2>3. CASE stop
      <3>1. /\ todo' = [todo EXCEPT ![t] = <<cb[t]>>] /\ list' = list
            /\ pc' = [pc EXCEPT ![t] = "invoke"]
        BY <1>9, <2>3 DEF Add
      <3> QED
        BY <1>9, <2>1, <2>2, <3>1 DEF Add
    <2>4. CASE ~stop
      <3>1. list' = Append(list, cb[t]) /\ todo' = todo /\ pc' = [pc EXCEPT ![t] = "store"]
        BY <1>9, <2>4 DEF Add
      <3>2. list' \in Seq(Cb)
        BY <2>1, <3>1, AppendElems
      <3> QED
        BY <1>9, <2>1, <3>1, <3>2 DEF Add
    <2> QED
      BY <2>3, <2>4
  <1>10. ASSUME NEW t \in Thread, Store(t) PROVE TypeOK'
    BY <1>10 DEF Store
  <1>11. ASSUME NEW t \in Thread, Take(t) PROVE TypeOK'
    <2>1. goal[t] \in Reg
      BY <1>11 DEF Take, CallsSound
    <2>2. holds' \in [Reg -> Cb \cup {NoCb}]
      BY <1>11, <2>1 DEF Take
    <2> QED
      BY <1>11, <2>2, ZenonT(30) DEF Take
  <1>12. ASSUME NEW t \in Thread, RequestStop(t) PROVE TypeOK'
    BY <1>12 DEF RequestStop
  <1>13. ASSUME NEW t \in Thread, SpuriousWake(t) PROVE TypeOK'
    BY <1>13 DEF SpuriousWake
  <1>14. ASSUME NEW t \in Thread, NEW r \in Reg, Reset(t, r) PROVE TypeOK'
    BY <1>14 DEF Reset
  <1>15. ASSUME NEW t \in Thread, NEW r \in Reg, Register(t, r) PROVE TypeOK'
    BY <1>15 DEF Register
  <1>16. ASSUME NEW t \in Thread, NEW r \in Reg, NEW s \in Reg, MoveFrom(t, r, s) PROVE TypeOK'
    BY <1>16 DEF MoveFrom
  <1>17. ASSUME UNCHANGED vars PROVE TypeOK'
    BY <1>17 DEF vars
  <1> QED
    BY <1>1, <1>2, <1>3, <1>4, <1>5, <1>6, <1>7, <1>8, <1>9, <1>10, <1>11, <1>12, <1>13,
       <1>14, <1>15, <1>16, <1>17 DEF Next, Continue

-----------------------------------------------------------------------------
(* Step by step.                                                           *)

LEMMA CallsStep ==
  ASSUME TypeOK, CallsSound, [Next]_vars
  PROVE  CallsSound'
  <1> USE CancelAssumption DEF TypeOK, CallPc, At, Goto, Begin, Advance, Unused,
               shared, state, frame, Holding, CallsSound
  <1>1. ASSUME NEW t \in Thread, Invoke(t) PROVE CallsSound'
    BY <1>1 DEF Invoke
  <1>2. ASSUME NEW t \in Thread, InvokeSkip(t) PROVE CallsSound'
    BY <1>2 DEF InvokeSkip
  <1>3. ASSUME NEW t \in Thread, InvokeReturn(t) PROVE CallsSound'
    BY <1>3 DEF InvokeReturn
  <1>4. ASSUME NEW t \in Thread, InvokeNotify(t) PROVE CallsSound'
    BY <1>4 DEF InvokeNotify
  <1>5. ASSUME NEW t \in Thread, RemoveCallback(t) PROVE CallsSound'
    BY <1>5 DEF RemoveCallback
  <1>6. ASSUME NEW t \in Thread, Disarm(t) PROVE CallsSound'
    BY <1>6 DEF Disarm
  <1>7. ASSUME NEW t \in Thread, Recheck(t) PROVE CallsSound'
    BY <1>7 DEF Recheck
  <1>8. ASSUME NEW t \in Thread, Release(t) PROVE CallsSound'
    BY <1>8, ZenonT(30) DEF Release
  <1>9. ASSUME NEW t \in Thread, Add(t) PROVE CallsSound'
    <2>1. PICK p \in {"invoke", "store"} : pc' = [pc EXCEPT ![t] = p]
      BY <1>9 DEF Add
    <2> QED
      BY <1>9, <2>1 DEF Add
  <1>10. ASSUME NEW t \in Thread, Store(t) PROVE CallsSound'
    BY <1>10 DEF Store
  <1>11. ASSUME NEW t \in Thread, Take(t) PROVE CallsSound'
    BY <1>11, ZenonT(30) DEF Take
  <1>12. ASSUME NEW t \in Thread, RequestStop(t) PROVE CallsSound'
    BY <1>12 DEF RequestStop
  <1>13. ASSUME NEW t \in Thread, SpuriousWake(t) PROVE CallsSound'
    BY <1>13 DEF SpuriousWake
  <1>14. ASSUME NEW t \in Thread, NEW r \in Reg, Reset(t, r) PROVE CallsSound'
    BY <1>14 DEF Reset
  <1>15. ASSUME NEW t \in Thread, NEW r \in Reg, Register(t, r) PROVE CallsSound'
    BY <1>15 DEF Register
  <1>16. ASSUME NEW t \in Thread, NEW r \in Reg, NEW s \in Reg, MoveFrom(t, r, s) PROVE CallsSound'
    BY <1>16 DEF MoveFrom
  <1>17. ASSUME UNCHANGED vars PROVE CallsSound'
    BY <1>17 DEF vars
  <1> QED
    BY <1>1, <1>2, <1>3, <1>4, <1>5, <1>6, <1>7, <1>8, <1>9, <1>10, <1>11, <1>12, <1>13,
       <1>14, <1>15, <1>16, <1>17 DEF Next, Continue

LEMMA OwnedStep ==
  ASSUME TypeOK, CallsSound, FreshSound, KnownSound, OwnedOnce, [Next]_vars
  PROVE  OwnedOnce'
  <1> USE CancelAssumption DEF TypeOK, CallPc, At, Goto, Begin, Advance, Unused,
               shared, state, frame, Holding,
               CallsSound, FreshSound, KnownSound, Fresh, OwnedOnce
  <1>1. ASSUME NEW t \in Thread, Invoke(t) PROVE OwnedOnce'
    BY <1>1 DEF Invoke
  <1>2. ASSUME NEW t \in Thread, InvokeSkip(t) PROVE OwnedOnce'
    BY <1>2 DEF InvokeSkip
  <1>3. ASSUME NEW t \in Thread, InvokeReturn(t) PROVE OwnedOnce'
    BY <1>3 DEF InvokeReturn
  <1>4. ASSUME NEW t \in Thread, InvokeNotify(t) PROVE OwnedOnce'
    BY <1>4 DEF InvokeNotify
  <1>5. ASSUME NEW t \in Thread, RemoveCallback(t) PROVE OwnedOnce'
    BY <1>5 DEF RemoveCallback
  <1>6. ASSUME NEW t \in Thread, Disarm(t) PROVE OwnedOnce'
    BY <1>6 DEF Disarm
  <1>7. ASSUME NEW t \in Thread, Recheck(t) PROVE OwnedOnce'
    BY <1>7 DEF Recheck
  <1>8. ASSUME NEW t \in Thread, Release(t) PROVE OwnedOnce'
    BY <1>8 DEF Release
  <1>9. ASSUME NEW t \in Thread, Add(t) PROVE OwnedOnce'
    BY <1>9 DEF Add
  <1>10. ASSUME NEW t \in Thread, Store(t) PROVE OwnedOnce'
    BY <1>10 DEF Store
  <1>11. ASSUME NEW t \in Thread, Take(t) PROVE OwnedOnce'
    BY <1>11 DEF Take
  <1>12. ASSUME NEW t \in Thread, RequestStop(t) PROVE OwnedOnce'
    BY <1>12 DEF RequestStop
  <1>13. ASSUME NEW t \in Thread, SpuriousWake(t) PROVE OwnedOnce'
    BY <1>13 DEF SpuriousWake
  <1>14. ASSUME NEW t \in Thread, NEW r \in Reg, Reset(t, r) PROVE OwnedOnce'
    BY <1>14 DEF Reset
  <1>15. ASSUME NEW t \in Thread, NEW r \in Reg, Register(t, r) PROVE OwnedOnce'
    BY <1>15 DEF Register
  <1>16. ASSUME NEW t \in Thread, NEW r \in Reg, NEW s \in Reg, MoveFrom(t, r, s) PROVE OwnedOnce'
    BY <1>16 DEF MoveFrom
  <1>17. ASSUME UNCHANGED vars PROVE OwnedOnce'
    BY <1>17 DEF vars
  <1> QED
    BY <1>1, <1>2, <1>3, <1>4, <1>5, <1>6, <1>7, <1>8, <1>9, <1>10, <1>11, <1>12, <1>13,
       <1>14, <1>15, <1>16, <1>17 DEF Next, Continue

\* What the actions do to the elements of the two kinds of sequences.
Advanced(t) ==
  /\ Head(todo[t]) \in ToSet(todo[t])
  /\ ToSet(todo[t]) = {Head(todo[t])} \cup ToSet(todo'[t])
  /\ \A u \in Thread \ {t} : todo'[u] = todo[u]

Removed(t) ==
  ToSet(list') = ToSet(list) \ {holds[obj[t]]} /\ IsInjective(list')

Added(t) ==
  /\ pc[t] = "add"
  /\ armed' = armed \cup {cb[t]} /\ context' = context \cup {cb[t]}
  /\ UNCHANGED <<stop, running, holds, made, frame>>

AddedNow(t) ==
  /\ list' = list /\ ToSet(todo'[t]) = {cb[t]}
  /\ \A u \in Thread \ {t} : todo'[u] = todo[u]
  /\ pc' = [pc EXCEPT ![t] = "invoke"]

AddedToList(t) ==
  /\ ToSet(list') = ToSet(list) \cup {cb[t]} /\ IsInjective(list')
  /\ todo' = todo /\ pc' = [pc EXCEPT ![t] = "store"]

LEMMA EmptyElems == ToSet(<<>>) = {} /\ IsInjective(<<>>)
  BY DEF ToSet, IsInjective

LEMMA AdvanceElems ==
  ASSUME TypeOK, NEW t \in Thread, InvokeSkip(t) \/ InvokeNotify(t)
  PROVE  Advanced(t)
  <1>1. /\ todo[t] \in Seq(Cb) /\ todo[t] # <<>>
        /\ todo' = [todo EXCEPT ![t] = Tail(todo[t])]
    BY DEF TypeOK, InvokeSkip, InvokeNotify, Advance, At
  <1> QED
    BY <1>1, HeadElems DEF Advanced, TypeOK

LEMMA RemoveElems ==
  ASSUME TypeOK, KnownSound, NEW t \in Thread, RemoveCallback(t)
  PROVE  Removed(t)
  BY EraseElems DEF RemoveCallback, TypeOK, KnownSound, Removed

LEMMA AddElems ==
  ASSUME TypeOK, CallsSound, FreshSound, KnownSound, NEW t \in Thread, Add(t)
  PROVE  Added(t) /\ ((stop /\ AddedNow(t)) \/ (~stop /\ AddedToList(t)))
  <1>1. /\ cb[t] \in Cb /\ cb[t] \notin ToSet(list)
        /\ IsInjective(list) /\ list \in Seq(Cb)
    BY DEF Add, At, TypeOK, FreshSound, CallsSound, Fresh, KnownSound
  <1>2. ASSUME stop PROVE AddedNow(t)
    <2>1. /\ todo' = [todo EXCEPT ![t] = <<cb[t]>>] /\ list' = list
          /\ pc' = [pc EXCEPT ![t] = "invoke"]
      BY <1>2 DEF Add, Goto
    <2>2. ToSet(<<cb[t]>>) = {cb[t]}
      BY DEF ToSet
    <2>3. todo'[t] = <<cb[t]>> /\ \A u \in Thread \ {t} : todo'[u] = todo[u]
      BY <2>1 DEF TypeOK
    <2> QED
      BY <2>1, <2>2, <2>3 DEF AddedNow
  <1>3. ASSUME ~stop PROVE AddedToList(t)
    <2>1. list' = Append(list, cb[t]) /\ todo' = todo /\ pc' = [pc EXCEPT ![t] = "store"]
      BY <1>3 DEF Add, Goto
    <2> QED
      BY <1>1, <1>3, <2>1, AppendElems DEF AddedToList
  <1>4. Added(t)
    BY DEF Add, At, Added
  <1> QED
    BY <1>2, <1>3, <1>4

LEMMA KnownStep ==
  ASSUME TypeOK, CallsSound, FreshSound, KnownSound, DisarmedSound, OwnedOnce, [Next]_vars
  PROVE  KnownSound'
  <1> USE CancelAssumption DEF TypeOK, CallPc, At, Goto, Begin, Advance, Unused,
               shared, state, frame, Holding,
               KnownSound, DisarmedSound, FreshSound, Fresh, CallsSound, OwnedOnce
  <1>1. ASSUME NEW t \in Thread, Invoke(t) PROVE KnownSound'
    <2>1. Head(todo[t]) \in ToSet(todo[t])
      BY <1>1, HeadElems DEF Invoke
    <2> QED
      BY <1>1, <2>1 DEF Invoke
  <1>2. ASSUME NEW t \in Thread, InvokeSkip(t) PROVE KnownSound'
    <2>1. Advanced(t)
      BY <1>2, AdvanceElems
    <2> QED
      BY <1>2, <2>1 DEF InvokeSkip, Advanced
  <1>3. ASSUME NEW t \in Thread, InvokeReturn(t) PROVE KnownSound'
    BY <1>3 DEF InvokeReturn
  <1>4. ASSUME NEW t \in Thread, InvokeNotify(t) PROVE KnownSound'
    <2>1. Advanced(t)
      BY <1>4, AdvanceElems
    <2> QED
      BY <1>4, <2>1 DEF InvokeNotify, Advanced
  <1>5. ASSUME NEW t \in Thread, RemoveCallback(t) PROVE KnownSound'
    <2>1. Removed(t)
      BY <1>5, RemoveElems
    <2> QED
      BY <1>5, <2>1 DEF RemoveCallback, Removed
  <1>6. ASSUME NEW t \in Thread, Disarm(t) PROVE KnownSound'
    BY <1>6 DEF Disarm
  <1>7. ASSUME NEW t \in Thread, Recheck(t) PROVE KnownSound'
    BY <1>7 DEF Recheck
  <1>8. ASSUME NEW t \in Thread, Release(t) PROVE KnownSound'
    BY <1>8 DEF Release
  <1>9. ASSUME NEW t \in Thread, Add(t) PROVE KnownSound'
    <2>1. Added(t) /\ ((stop /\ AddedNow(t)) \/ (~stop /\ AddedToList(t)))
      BY <1>9, AddElems
    <2>2. CASE stop /\ AddedNow(t)
      <3>1. \A u \in Thread : ToSet(todo'[u]) \subseteq ToSet(todo[u]) \cup {cb[t]}
        BY <2>2 DEF AddedNow
      <3>2. pc'[t] = "invoke" /\ (\A u \in Thread \ {t} : pc'[u] = pc[u]) /\ list' = list
        BY <2>2 DEF AddedNow
      <3> QED
        BY <2>1, <2>2, <3>1, <3>2 DEF Added
    <2>3. CASE ~stop /\ AddedToList(t)
      BY <2>1, <2>3 DEF Added, AddedToList
    <2> QED
      BY <2>1, <2>2, <2>3
  <1>10. ASSUME NEW t \in Thread, Store(t) PROVE KnownSound'
    BY <1>10 DEF Store
  <1>11. ASSUME NEW t \in Thread, Take(t) PROVE KnownSound'
    BY <1>11 DEF Take
  <1>12. ASSUME NEW t \in Thread, RequestStop(t) PROVE KnownSound'
    BY <1>12, EmptyElems DEF RequestStop
  <1>13. ASSUME NEW t \in Thread, SpuriousWake(t) PROVE KnownSound'
    BY <1>13 DEF SpuriousWake
  <1>14. ASSUME NEW t \in Thread, NEW r \in Reg, Reset(t, r) PROVE KnownSound'
    BY <1>14 DEF Reset
  <1>15. ASSUME NEW t \in Thread, NEW r \in Reg, Register(t, r) PROVE KnownSound'
    BY <1>15 DEF Register
  <1>16. ASSUME NEW t \in Thread, NEW r \in Reg, NEW s \in Reg, MoveFrom(t, r, s) PROVE KnownSound'
    BY <1>16 DEF MoveFrom
  <1>17. ASSUME UNCHANGED vars PROVE KnownSound'
    BY <1>17 DEF vars
  <1> QED
    BY <1>1, <1>2, <1>3, <1>4, <1>5, <1>6, <1>7, <1>8, <1>9, <1>10, <1>11, <1>12, <1>13,
       <1>14, <1>15, <1>16, <1>17 DEF Next, Continue

LEMMA FreshStep ==
  ASSUME TypeOK, CallsSound, FreshSound, KnownSound, OwnedOnce, [Next]_vars
  PROVE  FreshSound'
  <1> USE CancelAssumption DEF TypeOK, CallPc, At, Goto, Begin, Advance, Unused,
               shared, state, frame, Holding,
               KnownSound, FreshSound, Fresh, CallsSound, OwnedOnce
  <1>1. ASSUME NEW t \in Thread, Invoke(t) PROVE FreshSound'
    <2>1. Head(todo[t]) \in ToSet(todo[t])
      BY <1>1, HeadElems DEF Invoke
    <2> QED
      BY <1>1, <2>1 DEF Invoke
  <1>2. ASSUME NEW t \in Thread, InvokeSkip(t) PROVE FreshSound'
    <2>1. Advanced(t)
      BY <1>2, AdvanceElems
    <2> QED
      BY <1>2, <2>1 DEF InvokeSkip, Advanced
  <1>3. ASSUME NEW t \in Thread, InvokeReturn(t) PROVE FreshSound'
    BY <1>3 DEF InvokeReturn
  <1>4. ASSUME NEW t \in Thread, InvokeNotify(t) PROVE FreshSound'
    <2>1. Advanced(t)
      BY <1>4, AdvanceElems
    <2> QED
      BY <1>4, <2>1 DEF InvokeNotify, Advanced
  <1>5. ASSUME NEW t \in Thread, RemoveCallback(t) PROVE FreshSound'
    <2>1. Removed(t)
      BY <1>5, RemoveElems
    <2> QED
      BY <1>5, <2>1 DEF RemoveCallback, Removed
  <1>6. ASSUME NEW t \in Thread, Disarm(t) PROVE FreshSound'
    BY <1>6 DEF Disarm
  <1>7. ASSUME NEW t \in Thread, Recheck(t) PROVE FreshSound'
    BY <1>7 DEF Recheck
  <1>8. ASSUME NEW t \in Thread, Release(t) PROVE FreshSound'
    BY <1>8 DEF Release
  <1>9. ASSUME NEW t \in Thread, Add(t) PROVE FreshSound'
    <2>1. Added(t) /\ ((stop /\ AddedNow(t)) \/ (~stop /\ AddedToList(t)))
      BY <1>9, AddElems
    <2>2. CASE stop /\ AddedNow(t)
      <3>1. \A u \in Thread : ToSet(todo'[u]) \subseteq ToSet(todo[u]) \cup {cb[t]}
        BY <2>2 DEF AddedNow
      <3>2. pc'[t] = "invoke" /\ (\A u \in Thread \ {t} : pc'[u] = pc[u]) /\ list' = list
        BY <2>2 DEF AddedNow
      <3> QED
        BY <2>1, <2>2, <3>1, <3>2 DEF Added
    <2>3. CASE ~stop /\ AddedToList(t)
      BY <2>1, <2>3 DEF Added, AddedToList
    <2> QED
      BY <2>1, <2>2, <2>3
  <1>10. ASSUME NEW t \in Thread, Store(t) PROVE FreshSound'
    BY <1>10 DEF Store
  <1>11. ASSUME NEW t \in Thread, Take(t) PROVE FreshSound'
    BY <1>11 DEF Take
  <1>12. ASSUME NEW t \in Thread, RequestStop(t) PROVE FreshSound'
    BY <1>12, EmptyElems DEF RequestStop
  <1>13. ASSUME NEW t \in Thread, SpuriousWake(t) PROVE FreshSound'
    BY <1>13 DEF SpuriousWake
  <1>14. ASSUME NEW t \in Thread, NEW r \in Reg, Reset(t, r) PROVE FreshSound'
    BY <1>14 DEF Reset
  <1>15. ASSUME NEW t \in Thread, NEW r \in Reg, Register(t, r) PROVE FreshSound'
    BY <1>15 DEF Register
  <1>16. ASSUME NEW t \in Thread, NEW r \in Reg, NEW s \in Reg, MoveFrom(t, r, s) PROVE FreshSound'
    BY <1>16 DEF MoveFrom
  <1>17. ASSUME UNCHANGED vars PROVE FreshSound'
    BY <1>17 DEF vars
  <1> QED
    BY <1>1, <1>2, <1>3, <1>4, <1>5, <1>6, <1>7, <1>8, <1>9, <1>10, <1>11, <1>12, <1>13,
       <1>14, <1>15, <1>16, <1>17 DEF Next, Continue

LEMMA DisarmedStep ==
  ASSUME TypeOK, CallsSound, FreshSound, KnownSound, OwnedOnce, DisarmedSound, [Next]_vars
  PROVE  DisarmedSound'
  <1> USE CancelAssumption DEF TypeOK, CallPc, At, Goto, Begin, Advance, Unused,
               shared, state, frame, Holding,
               KnownSound, FreshSound, Fresh, CallsSound, OwnedOnce, DisarmedSound
  <1>1. ASSUME NEW t \in Thread, Invoke(t) PROVE DisarmedSound'
    <2>1. Head(todo[t]) \in ToSet(todo[t])
      BY <1>1, HeadElems DEF Invoke
    <2> QED
      BY <1>1, <2>1 DEF Invoke
  <1>2. ASSUME NEW t \in Thread, InvokeSkip(t) PROVE DisarmedSound'
    <2>1. Advanced(t)
      BY <1>2, AdvanceElems
    <2> QED
      BY <1>2, <2>1 DEF InvokeSkip, Advanced
  <1>3. ASSUME NEW t \in Thread, InvokeReturn(t) PROVE DisarmedSound'
    BY <1>3 DEF InvokeReturn
  <1>4. ASSUME NEW t \in Thread, InvokeNotify(t) PROVE DisarmedSound'
    <2>1. Advanced(t)
      BY <1>4, AdvanceElems
    <2> QED
      BY <1>4, <2>1 DEF InvokeNotify, Advanced
  <1>5. ASSUME NEW t \in Thread, RemoveCallback(t) PROVE DisarmedSound'
    <2>1. Removed(t)
      BY <1>5, RemoveElems
    <2> QED
      BY <1>5, <2>1 DEF RemoveCallback, Removed
  <1>6. ASSUME NEW t \in Thread, Disarm(t) PROVE DisarmedSound'
    BY <1>6 DEF Disarm
  <1>7. ASSUME NEW t \in Thread, Recheck(t) PROVE DisarmedSound'
    BY <1>7 DEF Recheck
  <1>8. ASSUME NEW t \in Thread, Release(t) PROVE DisarmedSound'
    BY <1>8 DEF Release
  <1>9. ASSUME NEW t \in Thread, Add(t) PROVE DisarmedSound'
    <2>1. Added(t) /\ ((stop /\ AddedNow(t)) \/ (~stop /\ AddedToList(t)))
      BY <1>9, AddElems
    <2>2. /\ pc'[t] \in {"invoke", "store"} /\ armed' = armed \cup {cb[t]}
          /\ \A u \in Thread \ {t} : pc'[u] = pc[u] /\ todo'[u] = todo[u]
          /\ UNCHANGED <<running, holds, obj>>
      BY <2>1 DEF Added, AddedNow, AddedToList
    <2>3. \A u \in Thread : pc[u] \in {"body", "notify"} => Head(todo[u]) # cb[t]
      <3>1. \A u \in Thread : pc[u] \in {"body", "notify"} => Head(todo[u]) \in ToSet(todo[u])
        BY HeadElems
      <3> QED
        BY <2>1, <3>1 DEF Added
    <2>4. \A u \in Thread : pc[u] \in Holding => holds[obj[u]] # cb[t]
      BY <2>1 DEF Added
    <2> QED
      BY <2>2, <2>3, <2>4
  <1>10. ASSUME NEW t \in Thread, Store(t) PROVE DisarmedSound'
    BY <1>10 DEF Store
  <1>11. ASSUME NEW t \in Thread, Take(t) PROVE DisarmedSound'
    BY <1>11 DEF Take
  <1>12. ASSUME NEW t \in Thread, RequestStop(t) PROVE DisarmedSound'
    BY <1>12, EmptyElems DEF RequestStop
  <1>13. ASSUME NEW t \in Thread, SpuriousWake(t) PROVE DisarmedSound'
    BY <1>13 DEF SpuriousWake
  <1>14. ASSUME NEW t \in Thread, NEW r \in Reg, Reset(t, r) PROVE DisarmedSound'
    BY <1>14 DEF Reset
  <1>15. ASSUME NEW t \in Thread, NEW r \in Reg, Register(t, r) PROVE DisarmedSound'
    BY <1>15 DEF Register
  <1>16. ASSUME NEW t \in Thread, NEW r \in Reg, NEW s \in Reg, MoveFrom(t, r, s) PROVE DisarmedSound'
    BY <1>16 DEF MoveFrom
  <1>17. ASSUME UNCHANGED vars PROVE DisarmedSound'
    BY <1>17 DEF vars
  <1> QED
    BY <1>1, <1>2, <1>3, <1>4, <1>5, <1>6, <1>7, <1>8, <1>9, <1>10, <1>11, <1>12, <1>13,
       <1>14, <1>15, <1>16, <1>17 DEF Next, Continue

LEMMA ReachableStep ==
  ASSUME TypeOK, CallsSound, FreshSound, KnownSound, OwnedOnce, DisarmedSound,
         ArmedIsReachable, [Next]_vars
  PROVE  ArmedIsReachable'
  <1> USE CancelAssumption DEF TypeOK, CallPc, At, Goto, Begin, Advance, Unused,
               shared, state, frame, Holding,
               KnownSound, FreshSound, Fresh, CallsSound, OwnedOnce, DisarmedSound,
               ArmedIsReachable
  <1>1. ASSUME NEW t \in Thread, Invoke(t) PROVE ArmedIsReachable'
    <2>1. Head(todo[t]) \in ToSet(todo[t])
      BY <1>1, HeadElems DEF Invoke
    <2> QED
      BY <1>1, <2>1 DEF Invoke
  <1>2. ASSUME NEW t \in Thread, InvokeSkip(t) PROVE ArmedIsReachable'
    <2>1. Advanced(t) /\ Head(todo[t]) \notin armed
      BY <1>2, AdvanceElems DEF InvokeSkip
    <2>2. UNCHANGED <<stop, list, armed, holds, obj>>
      BY <1>2 DEF InvokeSkip
    <2>3. \A u \in Thread : pc[u] = "disarm" => pc'[u] = "disarm"
      BY <1>2 DEF InvokeSkip
    <2>4. ASSUME NEW b \in armed, NEW u \in Thread, b \in ToSet(todo[u]) PROVE b \in ToSet(todo'[u])
      <3>1. CASE u = t
        BY <2>1, <2>4, <3>1 DEF Advanced
      <3>2. CASE u # t
        BY <2>1, <2>4, <3>2 DEF Advanced
      <3> QED
        BY <3>1, <3>2
    <2> QED
      BY <2>2, <2>3, <2>4
  <1>3. ASSUME NEW t \in Thread, InvokeReturn(t) PROVE ArmedIsReachable'
    BY <1>3 DEF InvokeReturn
  <1>4. ASSUME NEW t \in Thread, InvokeNotify(t) PROVE ArmedIsReachable'
    <2>1. Advanced(t) /\ Head(todo[t]) \notin armed
      BY <1>4, AdvanceElems DEF InvokeNotify
    <2>2. UNCHANGED <<stop, list, armed, holds, obj>>
      BY <1>4 DEF InvokeNotify
    <2>3. \A u \in Thread : pc[u] = "disarm" => pc'[u] = "disarm"
      BY <1>4 DEF InvokeNotify
    <2>4. ASSUME NEW b \in armed, NEW u \in Thread, b \in ToSet(todo[u]) PROVE b \in ToSet(todo'[u])
      <3>1. CASE u = t
        BY <2>1, <2>4, <3>1 DEF Advanced
      <3>2. CASE u # t
        BY <2>1, <2>4, <3>2 DEF Advanced
      <3> QED
        BY <3>1, <3>2
    <2> QED
      BY <2>2, <2>3, <2>4
  <1>5. ASSUME NEW t \in Thread, RemoveCallback(t) PROVE ArmedIsReachable'
    <2>1. Removed(t)
      BY <1>5, RemoveElems
    <2> QED
      BY <1>5, <2>1 DEF RemoveCallback, Removed
  <1>6. ASSUME NEW t \in Thread, Disarm(t) PROVE ArmedIsReachable'
    BY <1>6 DEF Disarm
  <1>7. ASSUME NEW t \in Thread, Recheck(t) PROVE ArmedIsReachable'
    BY <1>7 DEF Recheck
  <1>8. ASSUME NEW t \in Thread, Release(t) PROVE ArmedIsReachable'
    BY <1>8 DEF Release
  <1>9. ASSUME NEW t \in Thread, Add(t) PROVE ArmedIsReachable'
    <2>1. Added(t) /\ ((stop /\ AddedNow(t)) \/ (~stop /\ AddedToList(t)))
      BY <1>9, AddElems
    <2>2. \A b \in armed, u \in Thread :
            /\ b \in ToSet(todo[u]) => b \in ToSet(todo'[u])
            /\ pc[u] = "disarm" => pc'[u] = "disarm"
      <3>1. ToSet(todo[t]) = {}
        BY <2>1, EmptyElems DEF Added
      <3> QED
        BY <2>1, <3>1 DEF Added, AddedNow, AddedToList
    <2>3. UNCHANGED <<stop, holds, obj>> /\ armed' = armed \cup {cb[t]}
      BY <2>1 DEF Added
    <2>4. CASE stop /\ AddedNow(t)
      <3>1. cb[t] \in ToSet(todo'[t])
        BY <2>4 DEF AddedNow
      <3> QED
        BY <2>2, <2>3, <2>4, <3>1, SMTT(30)
    <2>5. CASE ~stop /\ AddedToList(t)
      <3>1. ToSet(list') = ToSet(list) \cup {cb[t]}
        BY <2>5 DEF AddedToList
      <3> QED
        BY <2>2, <2>3, <2>5, <3>1
    <2> QED
      BY <2>1, <2>4, <2>5
  <1>10. ASSUME NEW t \in Thread, Store(t) PROVE ArmedIsReachable'
    BY <1>10 DEF Store
  <1>11. ASSUME NEW t \in Thread, Take(t) PROVE ArmedIsReachable'
    BY <1>11, ZenonT(30) DEF Take
  <1>12. ASSUME NEW t \in Thread, RequestStop(t) PROVE ArmedIsReachable'
    <2>1. /\ todo'[t] = list /\ \A u \in Thread \ {t} : todo'[u] = todo[u]
          /\ stop' /\ ~stop /\ pc[t] = "idle" /\ UNCHANGED <<armed, holds>>
          /\ \A u \in Thread \ {t} : pc'[u] = pc[u] /\ obj'[u] = obj[u]
      BY <1>12 DEF RequestStop
    <2>2. ASSUME NEW b \in armed, b \in ToSet(list) PROVE b \in ToSet(todo'[t])
      BY <2>1, <2>2
    <2>3. ASSUME NEW b \in armed, NEW u \in Thread, pc[u] = "disarm", holds[obj[u]] = b
          PROVE  pc'[u] = "disarm" /\ holds'[obj'[u]] = b
      BY <2>1, <2>3
    <2> QED
      BY <2>1, <2>2, <2>3
  <1>13. ASSUME NEW t \in Thread, SpuriousWake(t) PROVE ArmedIsReachable'
    BY <1>13 DEF SpuriousWake
  <1>14. ASSUME NEW t \in Thread, NEW r \in Reg, Reset(t, r) PROVE ArmedIsReachable'
    BY <1>14 DEF Reset
  <1>15. ASSUME NEW t \in Thread, NEW r \in Reg, Register(t, r) PROVE ArmedIsReachable'
    BY <1>15 DEF Register
  <1>16. ASSUME NEW t \in Thread, NEW r \in Reg, NEW s \in Reg, MoveFrom(t, r, s) PROVE ArmedIsReachable'
    BY <1>16 DEF MoveFrom
  <1>17. ASSUME UNCHANGED vars PROVE ArmedIsReachable'
    BY <1>17 DEF vars
  <1> QED
    BY <1>1, <1>2, <1>3, <1>4, <1>5, <1>6, <1>7, <1>8, <1>9, <1>10, <1>11, <1>12, <1>13,
       <1>14, <1>15, <1>16, <1>17 DEF Next, Continue

-----------------------------------------------------------------------------
(* The theorems.                                                           *)

LEMMA InitStep == Init => IInv
  <1> SUFFICES ASSUME Init PROVE IInv
    OBVIOUS
  <1> USE CancelAssumption DEF Init, CallPc, Holding, Fresh, At
  <1>1. TypeOK
    <2>1. <<>> \in Seq(Cb)
      OBVIOUS
    <2>2. todo \in [Thread -> Seq(Cb)]
      BY <2>1
    <2> QED
      BY <2>1, <2>2 DEF TypeOK
  <1>2. CallsSound /\ OwnedOnce /\ DisarmedSound /\ ArmedIsReachable
    BY DEF CallsSound, OwnedOnce, DisarmedSound, ArmedIsReachable
  <1>3. FreshSound
    BY DEF FreshSound
  <1>4. KnownSound
    BY EmptyElems DEF KnownSound
  <1> QED
    BY <1>1, <1>2, <1>3, <1>4 DEF IInv

LEMMA NextStep == IInv /\ [Next]_vars => IInv'
  BY TypeStep, CallsStep, OwnedStep, KnownStep, FreshStep, DisarmedStep,
     ReachableStep DEF IInv

\* Whatever calls are made on registrations and sources, at any number of threads, the
\* sections of cancel.h keep the inductive invariant.
THEOREM InvariantHolds == Spec => []IInv
  BY InitStep, NextStep, PTL DEF Spec

\* The fields of cancel.h keep their types, and a thread is inside invoke() only while
\* it has a callback to invoke: request_stop's loop never runs off its end.
THEOREM TypeCorrect == Spec => []TypeOK
  <1>1. IInv => TypeOK
    BY DEF IInv
  <1> QED
    BY <1>1, InvariantHolds, PTL

\* Once reset() has returned and the context may be gone, its callback neither runs nor
\* is armed, however request_stop, moves and spurious wake-ups of disarm_and_wait
\* interleave with it: the context of a callback is what is armed or running.
THEOREM ResetIsABarrier == Spec => []ResetIsBarrier
  <1>1. IInv => ResetIsBarrier
    BY DEF IInv, KnownSound, ResetIsBarrier
  <1> QED
    BY <1>1, InvariantHolds, PTL

\* A callback that is still armed is one that request_stop will find, or that a thread
\* is about to invoke or to disarm: add_callback and request_stop leave none behind.
THEOREM NoCallbackIsStranded == Spec => []ArmedIsReachable
  <1>1. IInv => ArmedIsReachable
    BY DEF IInv
  <1> QED
    BY <1>1, InvariantHolds, PTL

\* Moves and re-registrations never leave two registrations with the same callback, nor
\* one with a callback whose context is gone.
THEOREM RegistrationsOwnAlone == Spec => []OwnedOnce
  <1>1. IInv => OwnedOnce
    BY DEF IInv
  <1> QED
    BY <1>1, InvariantHolds, PTL

=============================================================================
