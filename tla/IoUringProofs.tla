----------------------------- MODULE IoUringProofs -----------------------------
(***************************************************************************)
(* Proofs about IoUring: for any operations and threads, no wake-up of the *)
(* driver is lost; and as long as no operation is cancelled while it is    *)
(* submitted and the kernel refuses no prepared request, every entry has   *)
(* one completion, nobody uses a destroyed operation, and an operation is  *)
(* to its awaiter what AsyncIo promises.                                   *)
(***************************************************************************)
EXTENDS IoUring, FiniteSetTheorems, TLAPS

-----------------------------------------------------------------------------
(* The inductive invariants.                                               *)

Calls == CancelPc \ {"signal"}

Cqes == {e \in [kind : {"op", "cancel", "wake"}, op : Oper \cup {NoOp},
                res : {"data", "zero", "ECANCELED", "none"}] : e.kind = "op" => e.op \in Oper}

PollRecord == [timeout : {"zero", "finite", "max"}, ids : SUBSET Oper, found : BOOLEAN]

\* A thread works on an operation exactly while it is in the code of one.
Typed ==
  /\ TypeOK
  /\ cq \in Seq(Cqes)
  /\ poll \in PollRecord
  /\ arg \in [Thread -> Oper \cup {NoOp}]
  /\ \A t \in Thread :
       /\ pc[t] \in PollPc \cup {"idle"} => arg[t] = NoOp
       /\ pc[t] \in SubmitPc \cup Calls \cup {"destroy"} => arg[t] # NoOp

\* The poll request on wake_fd_ is with the kernel, or its completion is in the ring.
WakeInRing == \E i \in DOMAIN cq : cq[i].kind = "wake"

WakeSound ==
  /\ pollArmed => watch \/ WakeInRing
  /\ Blocked => pollArmed

\* No completion of o waits in the ring, or one does.
None(o) == Reported(o) = {}
One(o) == \E i \in DOMAIN cq : Reported(o) = {i}

Quiet(o) == o \notin kernel /\ None(o)
Waiting(o) == state[o] = "awaiting" /\ o \notin resolved /\ o \notin queue /\ Quiet(o)

\* Two threads are on the same operation only when a callback runs while the driver
\* waits for it in order to destroy the operation.
Alone ==
  \A t, u \in Thread :
    t # u /\ arg[t] = arg[u] /\ arg[t] # NoOp /\ pc[t] # "signal" /\ pc[u] # "signal" =>
      /\ reg[arg[t]] = "running"
      /\ \/ pc[t] \in Calls /\ pc[u] = "destroy"
         \/ pc[u] \in Calls /\ pc[t] = "destroy"

\* What a thread in submit() relies on; a stop that came before it runs the callback
\* there, on the driver.
SubmitSound ==
  \A t \in Thread :
    LET o == arg[t] IN
    /\ pc[t] \in SubmitPc =>
         /\ reg[o] # "running"
         /\ Waiting(o) \/ (pc[t] = "check" /\ t = Driver /\ o \in queue)
         /\ entry[o] = IF pc[t] \in {"ring", "erase"} THEN "live" ELSE "none"
         /\ o \in bound <=> pc[t] \in {"insert", "ring", "erase"}
    /\ pc[t] = "arm" => reg[o] = "none" /\ (t = Driver \/ o \notin stop)
    /\ pc[t] \in Calls /\ reg[o] # "running" =>
         /\ reg[o] = "none" /\ t = Driver /\ o \in stop /\ o \notin bound /\ entry[o] = "none"
         /\ \/ pc[t] \in {"decide", "abort"} /\ Waiting(o)
            \/ pc[t] \in {"wake", "leave"} /\ o \in queue

\* What a callback relies on, and whoever destroys an operation.
LeaveSound ==
  \A t \in Thread :
    LET o == arg[t] IN
    /\ pc[t] \in Calls /\ reg[o] = "running" => pc[t] # "abort"
    /\ pc[t] = "destroy" =>
         /\ o \notin queue /\ entry[o] = "none"
         /\ IF o \in resolved THEN t = Driver ELSE state[o] = "error" /\ reg[o] # "running"

\* An entry stands for a request that waits, which will be answered once.
EntrySound ==
  \A o \in Oper :
    /\ entry[o] = "none" => Quiet(o)
    /\ entry[o] # "none" =>
         /\ state[o] = "awaiting" /\ o \notin resolved /\ o \in bound
         /\ \/ \E t \in Thread : pc[t] \in {"ring", "erase"} /\ arg[t] = o
            \/ o \in kernel /\ None(o)
            \/ o \notin kernel /\ One(o)
    /\ entry[o] = "cancelled" => o \in stop

\* A registration is armed, and its callback runs, on an operation that is not over.
RegSound ==
  \A o \in Oper :
    /\ o \in resolved => state[o] \in {"data", "eof", "error", "cancelled"} /\ entry[o] = "none"
    /\ o \in queue => o \in resolved
    /\ reg[o] = "armed" => o \in resolved \/ entry[o] # "none" \/ Submitting(o)
    /\ reg[o] = "running" => o \in stop /\ (o \in resolved \/ entry[o] # "none")
    /\ state[o] \in {"init", "gone"} =>
         /\ o \notin resolved \cup bound /\ reg[o] = "none" /\ entry[o] = "none"
         /\ \A t \in Thread : arg[t] = o => state[o] = "gone" /\ pc[t] = "signal"

IInv ==
  /\ Typed /\ Alone /\ SubmitSound /\ LeaveSound /\ EntrySound /\ RegSound

-----------------------------------------------------------------------------
(* The completion queue.                                                   *)

In(s, o) == {i \in DOMAIN s : s[i].kind = "op" /\ s[i].op = o}

LEMMA AppendIn ==
  ASSUME NEW S, NEW s \in Seq(S), NEW e \in S, NEW o
  PROVE  /\ Append(s, e) \in Seq(S)
         /\ e.kind = "op" /\ e.op = o => In(Append(s, e), o) = In(s, o) \cup {Len(s) + 1}
         /\ ~(e.kind = "op" /\ e.op = o) => In(Append(s, e), o) = In(s, o)
         /\ \A i \in DOMAIN s : i \in DOMAIN Append(s, e) /\ Append(s, e)[i] = s[i]
  <1> DEFINE r == Append(s, e)
  <1>1. /\ Len(s) \in Nat /\ DOMAIN s = 1 .. Len(s)
        /\ r \in Seq(S) /\ Len(r) = Len(s) + 1 /\ DOMAIN r = 1 .. Len(s) + 1
        /\ \A i \in 1 .. Len(s) : r[i] = s[i]
        /\ r[Len(s) + 1] = e
    OBVIOUS
  <1> HIDE DEF r
  <1> QED
    BY <1>1 DEF In, r

Own(e, o) == e.kind = "op" /\ e.op = o
NoneIn(s, o) == In(s, o) = {}
OneIn(s, o) == \E i \in DOMAIN s : In(s, o) = {i}

LEMMA TailIn ==
  ASSUME NEW S, NEW s \in Seq(S), s # <<>>, NEW o
  PROVE  /\ Tail(s) \in Seq(S) /\ Head(s) \in S
         /\ NoneIn(s, o) => NoneIn(Tail(s), o) /\ ~Own(Head(s), o)
         /\ OneIn(s, o) => IF Own(Head(s), o) THEN NoneIn(Tail(s), o) ELSE OneIn(Tail(s), o)
         /\ Head(s).kind # "wake" /\ (\E i \in DOMAIN s : s[i].kind = "wake") =>
              \E i \in DOMAIN Tail(s) : Tail(s)[i].kind = "wake"
  <1> DEFINE r == Tail(s)
  <1>1. /\ Len(s) \in Nat \ {0} /\ DOMAIN s = 1 .. Len(s) /\ Head(s) = s[1] /\ s[1] \in S
        /\ r \in Seq(S) /\ DOMAIN r = 1 .. Len(s) - 1
        /\ \A i \in 1 .. Len(s) - 1 : r[i] = s[i + 1]
    OBVIOUS
  <1> HIDE DEF r
  <1>2. ASSUME NEW i \in DOMAIN s, i # 1 PROVE i - 1 \in DOMAIN r /\ r[i - 1] = s[i]
    BY ONLY <1>1, <1>2
  <1>3. In(s, o) = {} => In(r, o) = {} /\ ~(Head(s).kind = "op" /\ Head(s).op = o)
    BY ONLY <1>1 DEF In
  <1>4. ASSUME NEW i \in DOMAIN s, In(s, o) = {i}
        PROVE  IF Head(s).kind = "op" /\ Head(s).op = o
               THEN In(r, o) = {} ELSE \E j \in DOMAIN r : In(r, o) = {j}
    <2>1. CASE Head(s).kind = "op" /\ Head(s).op = o
      BY ONLY <1>1, <1>4, <2>1 DEF In
    <2>2. CASE ~(Head(s).kind = "op" /\ Head(s).op = o)
      <3>1. i # 1 /\ s[i].kind = "op" /\ s[i].op = o
        BY ONLY <1>1, <1>4, <2>2 DEF In
      <3>2. i - 1 \in DOMAIN r /\ r[i - 1] = s[i]
        BY <1>2, <3>1
      <3>3. ASSUME NEW j \in In(r, o) PROVE j = i - 1
        <4>1. j \in 1 .. Len(s) - 1 /\ s[j + 1].kind = "op" /\ s[j + 1].op = o
          BY ONLY <1>1, <3>3 DEF In
        <4>2. j + 1 \in In(s, o)
          BY ONLY <1>1, <4>1 DEF In
        <4> QED
          BY ONLY <1>1, <1>4, <4>1, <4>2
      <3>4. i - 1 \in In(r, o)
        BY ONLY <3>1, <3>2 DEF In
      <3>5. In(r, o) = {i - 1}
        BY ONLY <3>3, <3>4
      <3> QED
        BY <2>2, <3>2, <3>5
    <2> QED
      BY <2>1, <2>2
  <1>5. ASSUME Head(s).kind # "wake", NEW i \in DOMAIN s, s[i].kind = "wake"
        PROVE  \E j \in DOMAIN r : r[j].kind = "wake"
    <2>1. i # 1
      BY <1>1, <1>5
    <2> QED
      BY <1>2, <1>5, <2>1
  <1> QED
    BY <1>1, <1>3, <1>4, <1>5 DEF r, NoneIn, OneIn, Own

LEMMA CqSame ==
  ASSUME cq' = cq
  PROVE  /\ \A o \in Oper : (None(o)' <=> None(o)) /\ (One(o)' <=> One(o))
         /\ WakeInRing' <=> WakeInRing
  BY DEF None, One, Reported, WakeInRing

LEMMA NoneIsNotOne ==
  ASSUME NEW o \in Oper
  PROVE  ~(None(o) /\ One(o))
  BY DEF None, One

\* The kernel answers what it hands back, and nothing else.
Grown ==
  /\ cq' \in Seq(Cqes) /\ kernel' \subseteq kernel
  /\ \A o \in Oper :
       IF o \in kernel \ kernel'
       THEN None(o) => One(o)'
       ELSE (None(o) => None(o)') /\ (One(o) => One(o)')
  /\ WakeInRing => WakeInRing'

LEMMA GrowByOne ==
  ASSUME cq \in Seq(Cqes), NEW e \in Cqes, cq' = Append(cq, e), kernel' \subseteq kernel,
         e.kind = "op" => kernel' = kernel \ {e.op} /\ e.op \in kernel,
         e.kind # "op" => kernel' = kernel
  PROVE  Grown /\ (e.kind = "wake" => WakeInRing')
  <1>1. cq' \in Seq(Cqes)
    BY AppendIn
  <1>2. ASSUME NEW o \in Oper
        PROVE  IF o \in kernel \ kernel'
               THEN None(o) => One(o)'
               ELSE (None(o) => None(o)') /\ (One(o) => One(o)')
    <2>1. In(cq', o) = IF e.kind = "op" /\ e.op = o THEN In(cq, o) \cup {Len(cq) + 1} ELSE In(cq, o)
      BY AppendIn
    <2>2. /\ \A i \in DOMAIN cq : i \in DOMAIN cq'
          /\ Len(cq) + 1 \in DOMAIN cq'
      BY AppendIn
    <2>3. /\ None(o) <=> In(cq, o) = {}
          /\ None(o)' <=> In(cq', o) = {}
          /\ One(o) <=> \E i \in DOMAIN cq : In(cq, o) = {i}
          /\ One(o)' <=> \E i \in DOMAIN cq' : In(cq', o) = {i}
      BY DEF None, One, Reported, In
    <2>4. o \in kernel \ kernel' <=> e.kind = "op" /\ e.op = o
      OBVIOUS
    <2> HIDE DEF In
    <2> QED
      BY ONLY <2>1, <2>2, <2>3, <2>4
  <1>3. WakeInRing => WakeInRing'
    BY AppendIn DEF WakeInRing
  <1>4. e.kind = "wake" => WakeInRing'
    BY DEF WakeInRing
  <1> QED
    BY <1>1, <1>2, <1>3, <1>4 DEF Grown

LEMMA ArriveGrows ==
  ASSUME Typed, NEW o \in Oper, Arrive(o)
  PROVE  Grown
  <1>1. PICK res \in (Attempt(o) \ {"errno"}) \cup {"ECANCELED"} :
          cq' = Append(cq, Cqe("op", o, res))
    BY DEF Arrive
  <1>2. res \in {"data", "zero", "ECANCELED", "none"}
    BY DEF Attempt, AcceptAttempt, ConnectAttempt, ReadAttempt, WriteAttempt, Oper
  <1>3. Cqe("op", o, res) \in Cqes /\ Cqe("op", o, res).kind = "op" /\ Cqe("op", o, res).op = o
    BY <1>2 DEF Cqe, Cqes
  <1> QED
    BY <1>1, <1>3, GrowByOne DEF Arrive, Typed

LEMMA WakeEventGrows ==
  ASSUME Typed, WakeEvent
  PROVE  Grown /\ WakeInRing' /\ kernel' = kernel
  <1>1. Cqe("wake", NoOp, "none") \in Cqes /\ Cqe("wake", NoOp, "none").kind = "wake"
    BY DEF Cqe, Cqes
  <1> QED
    BY <1>1, GrowByOne DEF WakeEvent, Typed

LEMMA SubmitCancelGrows ==
  ASSUME Typed, SubmitCancel
  PROVE  /\ Grown
         /\ \E o \in Oper : kernel' = kernel \ {o} /\ poll' = [poll EXCEPT !.ids = @ \ {o}]
                            /\ Goto(Driver, "cancel", IF poll.ids = {o} THEN "drain" ELSE "cancel")
  <1>1. PICK o \in poll.ids :
          /\ Goto(Driver, "cancel", IF poll.ids = {o} THEN "drain" ELSE "cancel")
          /\ poll' = [poll EXCEPT !.ids = @ \ {o}] /\ kernel' = kernel \ {o}
          /\ cq' = cq \o (IF o \in kernel THEN <<Cqe("op", o, "ECANCELED")>> ELSE <<>>)
                      \o <<Cqe("cancel", o, "none")>>
    BY DEF SubmitCancel
  <1> DEFINE e == Cqe("op", o, "ECANCELED")
             c == Cqe("cancel", o, "none")
             s == IF o \in kernel THEN Append(cq, e) ELSE cq
  <1>2. o \in Oper /\ e \in Cqes /\ c \in Cqes /\ cq \in Seq(Cqes)
    BY DEF Typed, TypeOK, Cqe, Cqes
  <1>3. e.kind = "op" /\ e.op = o /\ c.kind = "cancel"
    BY DEF Cqe
  <1>4. cq' = Append(s, c) /\ s \in Seq(Cqes)
    <2> HIDE DEF e, c
    <2>1. CASE o \in kernel
      <3>1. cq' = (cq \o <<e>>) \o <<c>>
        BY <1>1, <2>1 DEF e, c
      <3>2. cq \o <<e>> = Append(cq, e) /\ Append(cq, e) \in Seq(Cqes)
        BY <1>2
      <3>3. Append(cq, e) \o <<c>> = Append(Append(cq, e), c)
        BY <1>2, <3>2
      <3> QED
        BY <2>1, <3>1, <3>2, <3>3
    <2>2. CASE o \notin kernel
      <3>1. cq' = (cq \o <<>>) \o <<c>>
        BY <1>1, <2>2 DEF e, c
      <3> QED
        BY <1>2, <2>2, <3>1
    <2> QED
      BY <2>1, <2>2
  <1> HIDE DEF e, c, s
  <1>5. cq' \in Seq(Cqes) /\ \A p \in Oper : In(cq', p) = In(s, p)
    BY <1>2, <1>3, <1>4, AppendIn
  <1>6. ASSUME NEW p \in Oper
        PROVE  IF p \in kernel \ kernel'
               THEN None(p) => One(p)'
               ELSE (None(p) => None(p)') /\ (One(p) => One(p)')
    <2>1. In(s, p) = IF o \in kernel /\ o = p THEN In(cq, p) \cup {Len(cq) + 1} ELSE In(cq, p)
      <3>1. In(Append(cq, e), p) = IF o = p THEN In(cq, p) \cup {Len(cq) + 1} ELSE In(cq, p)
        BY <1>2, <1>3, AppendIn
      <3> QED
        BY ONLY <3>1 DEF s
    <2>2. /\ \A i \in DOMAIN s : i \in DOMAIN cq'
          /\ \A i \in DOMAIN cq : i \in DOMAIN s
      BY <1>2, <1>4, AppendIn DEF s
    <2>3. o \in kernel => Len(cq) + 1 \in DOMAIN s
      BY <1>2 DEF s
    <2>4. /\ None(p) <=> In(cq, p) = {}
          /\ None(p)' <=> In(cq', p) = {}
          /\ One(p) <=> \E i \in DOMAIN cq : In(cq, p) = {i}
          /\ One(p)' <=> \E i \in DOMAIN cq' : In(cq', p) = {i}
      BY DEF None, One, Reported, In
    <2>5. p \in kernel \ kernel' <=> o \in kernel /\ o = p
      BY <1>1, <1>2
    <2>6. In(cq', p) = In(s, p)
      BY <1>5
    <2> QED
      BY ONLY <2>1, <2>2, <2>3, <2>4, <2>5, <2>6
  <1>7. WakeInRing => WakeInRing'
    <2>1. \A i \in DOMAIN cq : i \in DOMAIN s /\ s[i] = cq[i]
      BY <1>2, AppendIn DEF s
    <2>2. \A i \in DOMAIN s : i \in DOMAIN cq' /\ cq'[i] = s[i]
      BY <1>2, <1>4, AppendIn
    <2> QED
      BY ONLY <2>1, <2>2 DEF WakeInRing
  <1> QED
    BY <1>1, <1>2, <1>5, <1>6, <1>7 DEF Grown

\* process_cqe takes the first completion: that of wake_fd_, of an operation that has an
\* entry, or one that is not looked at.
Shrunk ==
  /\ cq # <<>> /\ cq' \in Seq(Cqes) /\ UNCHANGED <<kernel, watch>>
  /\ \/ ProcessWake /\ \A o \in Oper : (None(o) => None(o)') /\ (One(o) => One(o)')
     \/ /\ \E o \in Oper : \E res :
             /\ ProcessOp(o, res) /\ entry[o] # "none" /\ ~None(o)
             /\ One(o) => None(o)'
             /\ \A p \in Oper \ {o} : (None(p) => None(p)') /\ (One(p) => One(p)')
        /\ WakeInRing => WakeInRing'
     \/ /\ UNCHANGED <<arbiter, op, backend, runtime, poll, fd>>
        /\ \A o \in Oper : /\ None(o) => None(o)'
                           /\ One(o) => One(o)' \/ entry[o] = "none"
        /\ WakeInRing => WakeInRing'

LEMMA CqeShrinks ==
  ASSUME Typed, ProcessCqe
  PROVE  Shrunk
  <1> DEFINE e == Head(cq)
  <1>1. /\ cq # <<>> /\ cq \in Seq(Cqes) /\ cq' = Tail(cq) /\ UNCHANGED <<kernel, watch>>
    BY DEF ProcessCqe, Typed
  <1>2. \/ e.kind = "wake" /\ ProcessWake
        \/ e.kind = "op" /\ entry[e.op] # "none" /\ ProcessOp(e.op, e.res)
        \/ /\ e.kind # "wake" /\ ~(e.kind = "op" /\ entry[e.op] # "none")
           /\ UNCHANGED <<arbiter, op, backend, runtime, poll, fd>>
    BY DEF ProcessCqe
  <1>3. /\ cq' \in Seq(Cqes) /\ e \in Cqes
        /\ e.kind # "wake" /\ WakeInRing => WakeInRing'
    BY <1>1, TailIn DEF WakeInRing
  <1> HIDE DEF e
  <1>4. e.kind = "op" => e.op \in Oper
    BY <1>3 DEF Cqes
  <1>5. ASSUME NEW o \in Oper
        PROVE  /\ None(o) => None(o)' /\ ~(e.kind = "op" /\ e.op = o)
               /\ One(o) => IF e.kind = "op" /\ e.op = o THEN None(o)' ELSE One(o)'
    <2>1. /\ None(o) <=> In(cq, o) = {}
          /\ None(o)' <=> In(cq', o) = {}
          /\ One(o) <=> \E i \in DOMAIN cq : In(cq, o) = {i}
          /\ One(o)' <=> \E i \in DOMAIN cq' : In(cq', o) = {i}
      BY DEF None, One, Reported, In
    <2>2. /\ In(cq, o) = {} => In(cq', o) = {} /\ ~(e.kind = "op" /\ e.op = o)
          /\ (\E i \in DOMAIN cq : In(cq, o) = {i}) =>
              IF e.kind = "op" /\ e.op = o
              THEN In(cq', o) = {} ELSE \E i \in DOMAIN cq' : In(cq', o) = {i}
      <3>1. /\ NoneIn(cq, o) => NoneIn(Tail(cq), o) /\ ~Own(Head(cq), o)
            /\ OneIn(cq, o) =>
                 IF Own(Head(cq), o) THEN NoneIn(Tail(cq), o) ELSE OneIn(Tail(cq), o)
        BY <1>1, TailIn
      <3> QED
        BY ONLY <1>1, <3>1 DEF e, NoneIn, OneIn, Own
    <2> QED
      BY ONLY <2>1, <2>2
  <1>6. CASE e.kind = "wake" /\ ProcessWake
    BY <1>1, <1>3, <1>5, <1>6 DEF Shrunk
  <1>7. CASE e.kind = "op" /\ entry[e.op] # "none" /\ ProcessOp(e.op, e.res)
    BY <1>1, <1>3, <1>4, <1>5, <1>7 DEF Shrunk
  <1>8. CASE /\ e.kind # "wake" /\ ~(e.kind = "op" /\ entry[e.op] # "none")
             /\ UNCHANGED <<arbiter, op, backend, runtime, poll, fd>>
    BY <1>1, <1>3, <1>4, <1>5, <1>8 DEF Shrunk
  <1> QED
    BY <1>2, <1>6, <1>7, <1>8

LEMMA OutcomeEnds ==
  ASSUME NEW o \in Oper, NEW res, NEW asked, NEW s \in Outcome(o, res, asked)
  PROVE  /\ s \in {"data", "eof", "error", "cancelled"}
         /\ s = "cancelled" => res = "ECANCELED" /\ (asked \/ o \in Connect)
  BY DEF Outcome, Oper, AcceptOutcome, ConnectOutcome, ReceiveOutcome, SendOutcome

LEMMA AttemptEnds ==
  ASSUME NEW o \in Oper, NEW res \in Attempt(o), NEW s \in Outcome(o, res, FALSE)
  PROVE  s \in {"data", "eof", "error"}
  <1>1. res # "ECANCELED"
    BY DEF Attempt, AcceptAttempt, ConnectAttempt, ReadAttempt, WriteAttempt, Oper
  <1> QED
    BY <1>1, OutcomeEnds

LEMMA PollRecords ==
  /\ NotPolling \in PollRecord /\ NotPolling.ids = {}
  /\ \A r \in PollRecord :
       /\ r.timeout \in {"zero", "finite", "max"} /\ r.ids \subseteq Oper /\ r.found \in BOOLEAN
       /\ [r EXCEPT !.found = TRUE] \in PollRecord /\ [r EXCEPT !.found = TRUE].ids = r.ids
       /\ \A S \in SUBSET Oper : [r EXCEPT !.ids = S] \in PollRecord /\ [r EXCEPT !.ids = S].ids = S
  <1>1. NotPolling \in PollRecord /\ NotPolling.ids = {}
    BY DEF NotPolling, PollRecord
  <1>2. ASSUME NEW r \in PollRecord
        PROVE  /\ r.timeout \in {"zero", "finite", "max"} /\ r.ids \subseteq Oper /\ r.found \in BOOLEAN
               /\ [r EXCEPT !.found = TRUE] \in PollRecord /\ [r EXCEPT !.found = TRUE].ids = r.ids
    BY DEF PollRecord
  <1>3. ASSUME NEW r \in PollRecord, NEW S \in SUBSET Oper
        PROVE  [r EXCEPT !.ids = S] \in PollRecord /\ [r EXCEPT !.ids = S].ids = S
    BY DEF PollRecord
  <1> QED
    BY <1>1, <1>2, <1>3

-----------------------------------------------------------------------------
(* Types, and the wake-ups: whatever happens to the operations.            *)

\* The steps keep the tables, the ring and the threads well-formed.
LEMMA TypeStep ==
  ASSUME Typed, [Next]_vars
  PROVE  Typed'
  <1> USE IoUringAssumption DEF Typed, TypeOK, Calls, States, SubmitPc, CancelPc, PollPc,
               Goto, Enter,
               At, Blocked, Finish, arbiter, op, backend, system,
               frame, runtime, vars
  <1>1. ASSUME NEW t \in Thread, Arm(t) PROVE Typed'
    BY <1>1 DEF Arm
  <1>2. ASSUME NEW t \in Thread, Check(t) PROVE Typed'
    BY <1>2 DEF Check
  <1>3. ASSUME NEW t \in Thread, Bind(t) PROVE Typed'
    BY <1>3 DEF Bind
  <1>4. ASSUME NEW t \in Thread, Reject(t) PROVE Typed'
    BY <1>4 DEF Reject
  <1>5. ASSUME NEW t \in Thread, Insert(t) PROVE Typed'
    BY <1>5 DEF Insert
  <1>6. ASSUME NEW t \in Thread, Submit(t) PROVE Typed'
    BY <1>6 DEF Submit
  <1>7. ASSUME NEW t \in Thread, SubmitFails(t) PROVE Typed'
    BY <1>7 DEF SubmitFails
  <1>8. ASSUME NEW t \in Thread, Erase(t) PROVE Typed'
    BY <1>8 DEF Erase
  <1>9. ASSUME NEW t \in Thread, Decide(t) PROVE Typed'
    BY <1>9 DEF Decide
  <1>10. ASSUME NEW t \in Thread, Abort(t) PROVE Typed'
    BY <1>10 DEF Abort
  <1>11. ASSUME NEW t \in Thread, Lookup(t) PROVE Typed'
    BY <1>11 DEF Lookup
  <1>12. ASSUME NEW t \in Thread, Wake(t) PROVE Typed'
    BY <1>12 DEF Wake
  <1>13. ASSUME NEW t \in Thread, Signal(t) PROVE Typed'
    BY <1>13 DEF Signal
  <1>14. ASSUME NEW t \in Thread, Leave(t) PROVE Typed'
    BY <1>14 DEF Leave
  <1>15. ASSUME NEW t \in Thread, Destroy(t) PROVE Typed'
    BY <1>15 DEF Destroy
  <1>16. ASSUME NEW t \in Thread, Post(t) PROVE Typed'
    BY <1>16 DEF Post
  <1>17. ASSUME NEW t \in Thread, NEW o \in Oper, Begin(t, o) PROVE Typed'
    BY <1>17 DEF Begin
  <1>18. ASSUME NEW t \in Thread, NEW o \in Oper, CompleteAtOnce(t, o) PROVE Typed'
    <2>1. PICK res \in Attempt(o) : \E s \in Outcome(o, res, FALSE) : state' = [state EXCEPT ![o] = s]
      BY <1>18 DEF CompleteAtOnce
    <2>2. PICK s \in Outcome(o, res, FALSE) : state' = [state EXCEPT ![o] = s]
      BY <2>1
    <2>3. s \in States
      BY AttemptEnds DEF States
    <2> QED
      BY <1>18, <2>2, <2>3 DEF CompleteAtOnce
  <1>19. ASSUME NEW t \in Thread, NEW o \in Oper, RequestCancel(t, o) PROVE Typed'
    BY <1>19 DEF RequestCancel
  <1>20. ASSUME NEW o \in Oper, Resume(o) PROVE Typed'
    BY <1>20 DEF Resume
  <1>21. ASSUME RunTask PROVE Typed'
    BY <1>21 DEF RunTask
  <1>22. ASSUME BeginPoll PROVE Typed'
    <2>1. poll' \in PollRecord /\ poll'.ids = {}
      BY <1>22 DEF BeginPoll, PollRecord
    <2> QED
      BY <1>22, <2>1 DEF BeginPoll
  <1>23. ASSUME Flush PROVE Typed'
    <2>1. poll' \in PollRecord
      BY <1>23, PollRecords DEF Flush
    <2>2. poll'.ids = {} \/ pc'[Driver] = "cancel"
      BY <1>23, PollRecords DEF Flush
    <2>3. pc' \in [Thread -> {"idle", "destroy"} \cup SubmitPc \cup CancelPc \cup PollPc]
      BY <1>23 DEF Flush
    <2> QED
      BY <1>23, <2>1, <2>2, <2>3 DEF Flush
  <1>24. ASSUME SubmitCancel PROVE Typed'
    <2>1. PICK o \in Oper :
            /\ kernel' = kernel \ {o} /\ poll' = [poll EXCEPT !.ids = @ \ {o}]
            /\ Goto(Driver, "cancel", IF poll.ids = {o} THEN "drain" ELSE "cancel")
      BY <1>24, SubmitCancelGrows
    <2>2. poll' \in PollRecord /\ poll'.ids = poll.ids \ {o}
      <3>1. poll.ids \ {o} \in SUBSET Oper /\ poll \in PollRecord
        OBVIOUS
      <3>2. poll' = [poll EXCEPT !.ids = poll.ids \ {o}]
        BY <2>1
      <3> QED
        BY ONLY <3>1, <3>2, PollRecords
    <2>3. poll'.ids = {} \/ pc'[Driver] = "cancel"
      BY <2>1, <2>2
    <2>4. cq' \in Seq(Cqes)
      BY <1>24, SubmitCancelGrows DEF Grown
    <2> QED
      BY <1>24, <2>1, <2>2, <2>3, <2>4 DEF SubmitCancel
  <1>25. ASSUME Drain PROVE Typed'
    <2>1. Shrunk
      BY <1>25, CqeShrinks DEF Drain
    <2>2. /\ pc' \in [Thread -> {"idle", "destroy"} \cup SubmitPc \cup CancelPc \cup PollPc]
          /\ arg' = arg /\ \A t \in Thread : IF t = Driver THEN pc[t] \in PollPc /\ pc'[t] \in PollPc
                                                          ELSE pc'[t] = pc[t]
          /\ pc[Driver] # "cancel"
      BY <1>25 DEF Drain
    <2>3. poll'.ids = {} /\ poll' \in PollRecord
      <3>1. poll' = poll \/ poll' = [poll EXCEPT !.found = TRUE]
        BY <2>1 DEF Shrunk, ProcessWake, ProcessOp
      <3>2. poll.ids = {} /\ poll \in PollRecord
        BY <2>2
      <3> QED
        BY ONLY <3>1, <3>2, PollRecords
    <2>4. CASE ProcessWake
      BY <2>1, <2>2, <2>3, <2>4 DEF Shrunk, ProcessWake
    <2>5. CASE \E o \in Oper : \E res : ProcessOp(o, res)
      <3>1. PICK o \in Oper : \E res : ProcessOp(o, res)
        BY <2>5
      <3>2. PICK res : ProcessOp(o, res)
        BY <3>1
      <3>3. PICK s \in Outcome(o, res, entry[o] = "cancelled") : Finish(o, s)
        BY <3>2 DEF ProcessOp
      <3>4. s \in States
        BY OutcomeEnds DEF States
      <3> QED
        BY <2>1, <2>2, <2>3, <3>2, <3>3, <3>4 DEF Shrunk, ProcessOp
    <2>6. CASE UNCHANGED <<arbiter, op, backend, runtime, poll, fd>>
      BY <2>1, <2>2, <2>3, <2>6 DEF Shrunk
    <2> QED
      BY <2>1, <2>4, <2>5, <2>6 DEF Shrunk
  <1>26. ASSUME DrainDone PROVE Typed'
    <2>1. poll' \in PollRecord
      BY <1>26, PollRecords DEF DrainDone
    <2>2. poll'.ids = {} \/ pc'[Driver] = "cancel"
      BY <1>26, PollRecords DEF DrainDone
    <2>3. pc' \in [Thread -> {"idle", "destroy"} \cup SubmitPc \cup CancelPc \cup PollPc]
      BY <1>26 DEF DrainDone
    <2> QED
      BY <1>26, <2>1, <2>2, <2>3 DEF DrainDone
  <1>27. ASSUME Wait PROVE Typed'
    BY <1>27 DEF Wait
  <1>28. ASSUME Reap PROVE Typed'
    <2>1. Shrunk
      BY <1>28, CqeShrinks DEF Reap
    <2>2. /\ pc' \in [Thread -> {"idle", "destroy"} \cup SubmitPc \cup CancelPc \cup PollPc]
          /\ arg' = arg /\ \A t \in Thread : IF t = Driver THEN pc[t] \in PollPc /\ pc'[t] \in PollPc
                                                          ELSE pc'[t] = pc[t]
          /\ pc[Driver] # "cancel"
      BY <1>28 DEF Reap
    <2>3. poll'.ids = {} /\ poll' \in PollRecord
      <3>1. poll' = poll \/ poll' = [poll EXCEPT !.found = TRUE]
        BY <2>1 DEF Shrunk, ProcessWake, ProcessOp
      <3>2. poll.ids = {} /\ poll \in PollRecord
        BY <2>2
      <3> QED
        BY ONLY <3>1, <3>2, PollRecords
    <2>4. CASE ProcessWake
      BY <2>1, <2>2, <2>3, <2>4 DEF Shrunk, ProcessWake
    <2>5. CASE \E o \in Oper : \E res : ProcessOp(o, res)
      <3>1. PICK o \in Oper : \E res : ProcessOp(o, res)
        BY <2>5
      <3>2. PICK res : ProcessOp(o, res)
        BY <3>1
      <3>3. PICK s \in Outcome(o, res, entry[o] = "cancelled") : Finish(o, s)
        BY <3>2 DEF ProcessOp
      <3>4. s \in States
        BY OutcomeEnds DEF States
      <3> QED
        BY <2>1, <2>2, <2>3, <3>2, <3>3, <3>4 DEF Shrunk, ProcessOp
    <2>6. CASE UNCHANGED <<arbiter, op, backend, runtime, poll, fd>>
      BY <2>1, <2>2, <2>3, <2>6 DEF Shrunk
    <2> QED
      BY <2>1, <2>4, <2>5, <2>6 DEF Shrunk
  <1>29. ASSUME Expire PROVE Typed'
    <2>1. poll' \in PollRecord
      BY <1>29, PollRecords DEF Expire
    <2>2. poll'.ids = {} \/ pc'[Driver] = "cancel"
      BY <1>29, PollRecords DEF Expire
    <2>3. pc' \in [Thread -> {"idle", "destroy"} \cup SubmitPc \cup CancelPc \cup PollPc]
      BY <1>29 DEF Expire
    <2> QED
      BY <1>29, <2>1, <2>2, <2>3 DEF Expire
  <1>30. ASSUME PollAgain PROVE Typed'
    <2>1. poll' \in PollRecord
      BY <1>30, PollRecords DEF PollAgain
    <2>2. poll'.ids = {} \/ pc'[Driver] = "cancel"
      BY <1>30, PollRecords DEF PollAgain
    <2>3. pc' \in [Thread -> {"idle", "destroy"} \cup SubmitPc \cup CancelPc \cup PollPc]
      BY <1>30 DEF PollAgain
    <2> QED
      BY <1>30, <2>1, <2>2, <2>3 DEF PollAgain
  <1>31. ASSUME NEW o \in Oper, Arrive(o) PROVE Typed'
    BY <1>31, ArriveGrows DEF Arrive, Grown
  <1>32. ASSUME WakeEvent PROVE Typed'
    BY <1>32, WakeEventGrows DEF WakeEvent, Grown
  <1>33. ASSUME UNCHANGED vars PROVE Typed'
    BY <1>33 DEF vars
  <1> QED
    BY <1>1, <1>2, <1>3, <1>4, <1>5, <1>6, <1>7, <1>8, <1>9, <1>10, <1>11, <1>12, <1>13,
       <1>14, <1>15, <1>16, <1>17, <1>18, <1>19, <1>20, <1>21, <1>22, <1>23, <1>24, <1>25,
       <1>26, <1>27, <1>28, <1>29, <1>30, <1>31, <1>32, <1>33 DEF Next, Continue,
       InSubmit, InCancel, Drive

\* Only a wake-up that is taken from the ring disarms the poll request, and the driver
\* arms it before it waits.
LEMMA WakeStep ==
  ASSUME Typed, WakeSound, [Next]_vars
  PROVE  WakeSound'
  <1> USE CqSame, IoUringAssumption DEF Typed, TypeOK, Calls, States, SubmitPc, CancelPc,
               PollPc, Goto, Enter,
               At, Blocked, Finish, arbiter, op, backend, system,
               frame, runtime, vars, WakeSound
  <1>1. ASSUME NEW t \in Thread, Arm(t) PROVE WakeSound'
    BY <1>1 DEF Arm
  <1>2. ASSUME NEW t \in Thread, Check(t) PROVE WakeSound'
    BY <1>2 DEF Check
  <1>3. ASSUME NEW t \in Thread, Bind(t) PROVE WakeSound'
    BY <1>3 DEF Bind
  <1>4. ASSUME NEW t \in Thread, Reject(t) PROVE WakeSound'
    BY <1>4 DEF Reject
  <1>5. ASSUME NEW t \in Thread, Insert(t) PROVE WakeSound'
    BY <1>5 DEF Insert
  <1>6. ASSUME NEW t \in Thread, Submit(t) PROVE WakeSound'
    BY <1>6 DEF Submit
  <1>7. ASSUME NEW t \in Thread, SubmitFails(t) PROVE WakeSound'
    BY <1>7 DEF SubmitFails
  <1>8. ASSUME NEW t \in Thread, Erase(t) PROVE WakeSound'
    BY <1>8 DEF Erase
  <1>9. ASSUME NEW t \in Thread, Decide(t) PROVE WakeSound'
    BY <1>9 DEF Decide
  <1>10. ASSUME NEW t \in Thread, Abort(t) PROVE WakeSound'
    BY <1>10 DEF Abort
  <1>11. ASSUME NEW t \in Thread, Lookup(t) PROVE WakeSound'
    BY <1>11 DEF Lookup
  <1>12. ASSUME NEW t \in Thread, Wake(t) PROVE WakeSound'
    BY <1>12 DEF Wake
  <1>13. ASSUME NEW t \in Thread, Signal(t) PROVE WakeSound'
    BY <1>13 DEF Signal
  <1>14. ASSUME NEW t \in Thread, Leave(t) PROVE WakeSound'
    BY <1>14 DEF Leave
  <1>15. ASSUME NEW t \in Thread, Destroy(t) PROVE WakeSound'
    BY <1>15 DEF Destroy
  <1>16. ASSUME NEW t \in Thread, Post(t) PROVE WakeSound'
    BY <1>16 DEF Post
  <1>17. ASSUME NEW t \in Thread, NEW o \in Oper, Begin(t, o) PROVE WakeSound'
    BY <1>17 DEF Begin
  <1>18. ASSUME NEW t \in Thread, NEW o \in Oper, CompleteAtOnce(t, o) PROVE WakeSound'
    BY <1>18 DEF CompleteAtOnce
  <1>19. ASSUME NEW t \in Thread, NEW o \in Oper, RequestCancel(t, o) PROVE WakeSound'
    BY <1>19 DEF RequestCancel
  <1>20. ASSUME NEW o \in Oper, Resume(o) PROVE WakeSound'
    BY <1>20 DEF Resume
  <1>21. ASSUME RunTask PROVE WakeSound'
    BY <1>21 DEF RunTask
  <1>22. ASSUME BeginPoll PROVE WakeSound'
    BY <1>22 DEF BeginPoll
  <1>23. ASSUME Flush PROVE WakeSound'
    BY <1>23 DEF Flush
  <1>24. ASSUME SubmitCancel PROVE WakeSound'
    <2>1. Grown /\ UNCHANGED <<watch, pollArmed>>
      BY <1>24, SubmitCancelGrows DEF SubmitCancel
    <2>2. pc'[Driver] # "blocked"
      BY <1>24, SubmitCancelGrows
    <2> QED
      BY <2>1, <2>2 DEF Grown
  <1>25. ASSUME Drain PROVE WakeSound'
    <2>1. Shrunk
      BY <1>25, CqeShrinks DEF Drain
    <2>2. CASE ProcessWake
      BY <1>25, <2>1, <2>2 DEF Drain, Shrunk, ProcessWake
    <2>3. CASE UNCHANGED <<watch, pollArmed>> /\ (WakeInRing => WakeInRing')
      BY <1>25, <2>1, <2>3 DEF Drain, Shrunk
    <2> QED
      BY <2>1, <2>2, <2>3 DEF Shrunk, ProcessOp
  <1>26. ASSUME DrainDone PROVE WakeSound'
    BY <1>26 DEF DrainDone
  <1>27. ASSUME Wait PROVE WakeSound'
    BY <1>27 DEF Wait
  <1>28. ASSUME Reap PROVE WakeSound'
    <2>1. Shrunk
      BY <1>28, CqeShrinks DEF Reap
    <2>2. CASE ProcessWake
      BY <1>28, <2>1, <2>2 DEF Reap, Shrunk, ProcessWake
    <2>3. CASE UNCHANGED <<watch, pollArmed>> /\ (WakeInRing => WakeInRing')
      BY <1>28, <2>1, <2>3 DEF Reap, Shrunk
    <2> QED
      BY <2>1, <2>2, <2>3 DEF Shrunk, ProcessOp
  <1>29. ASSUME Expire PROVE WakeSound'
    BY <1>29 DEF Expire
  <1>30. ASSUME PollAgain PROVE WakeSound'
    BY <1>30 DEF PollAgain
  <1>31. ASSUME NEW o \in Oper, Arrive(o) PROVE WakeSound'
    BY <1>31, ArriveGrows DEF Arrive, Grown
  <1>32. ASSUME WakeEvent PROVE WakeSound'
    BY <1>32, WakeEventGrows DEF WakeEvent, Grown
  <1>33. ASSUME UNCHANGED vars PROVE WakeSound'
    BY <1>33 DEF vars
  <1> QED
    BY <1>1, <1>2, <1>3, <1>4, <1>5, <1>6, <1>7, <1>8, <1>9, <1>10, <1>11, <1>12, <1>13,
       <1>14, <1>15, <1>16, <1>17, <1>18, <1>19, <1>20, <1>21, <1>22, <1>23, <1>24, <1>25,
       <1>26, <1>27, <1>28, <1>29, <1>30, <1>31, <1>32, <1>33 DEF Next, Continue,
       InSubmit, InCancel, Drive

-----------------------------------------------------------------------------
(* Operations, when none is cancelled while it is submitted and the kernel *)
(* refuses no request that was prepared.                                   *)

Limits == ~Early /\ "submit" \notin Failures


\* What process_cqe does to the operations.
LEMMA CqeEffect ==
  ASSUME IInv, ProcessCqe
  PROVE  /\ cq' \in Seq(Cqes) /\ UNCHANGED <<op, cancels, kernel>>
         /\ \/ /\ UNCHANGED <<arbiter, entry, queue>>
               /\ \A o \in Oper : (None(o) => None(o)') /\ (One(o) => One(o)')
            \/ \E o \in Oper :
                 /\ entry[o] # "none" /\ ~None(o) /\ entry' = [entry EXCEPT ![o] = "none"]
                 /\ \E s \in {"data", "eof", "error", "cancelled"} :
                      /\ s = "cancelled" => entry[o] = "cancelled" \/ o \in Connect
                      /\ state' = [state EXCEPT ![o] = s]
                 /\ resolved' = resolved \cup {o} /\ queue' = queue \cup {o}
                 /\ o \notin kernel /\ None(o)'
                 /\ \A p \in Oper \ {o} : (None(p) => None(p)') /\ (One(p) => One(p)')
  <1> USE DEF arbiter, op, backend, runtime
  <1>1. Shrunk
    BY CqeShrinks DEF IInv
  <1>2. CASE ProcessWake /\ \A o \in Oper : (None(o) => None(o)') /\ (One(o) => One(o)')
    BY <1>1, <1>2 DEF Shrunk, ProcessWake
  <1>3. CASE UNCHANGED <<arbiter, op, backend, runtime, poll, fd>>
                /\ \A o \in Oper : /\ None(o) => None(o)'
                                   /\ One(o) => One(o)' \/ entry[o] = "none"
    <2>1. \A o \in Oper : One(o) => One(o)'
      BY <1>3, NoneIsNotOne DEF IInv, EntrySound, Quiet
    <2> QED
      BY <1>1, <1>3, <2>1 DEF Shrunk
  <1>4. CASE \E o \in Oper : \E res :
               /\ ProcessOp(o, res) /\ entry[o] # "none" /\ ~None(o)
               /\ One(o) => None(o)'
               /\ \A p \in Oper \ {o} : (None(p) => None(p)') /\ (One(p) => One(p)')
    <2>1. PICK o \in Oper :
            \E res : /\ ProcessOp(o, res) /\ entry[o] # "none" /\ ~None(o)
                     /\ One(o) => None(o)'
                     /\ \A p \in Oper \ {o} : (None(p) => None(p)') /\ (One(p) => One(p)')
      BY <1>4
    <2>2. PICK res : ProcessOp(o, res)
      BY <2>1
    <2>3. PICK s \in Outcome(o, res, entry[o] = "cancelled") : Finish(o, s)
      BY <2>2 DEF ProcessOp
    <2>4. /\ s \in {"data", "eof", "error", "cancelled"}
          /\ s = "cancelled" => entry[o] = "cancelled" \/ o \in Connect
      BY OutcomeEnds
    <2>5. state[o] = "awaiting" /\ o \notin resolved
      BY <2>1 DEF IInv, EntrySound
    <2>6. \A t \in Thread : pc[t] \in {"ring", "erase"} => arg[t] # o
      BY <2>1 DEF IInv, SubmitSound, SubmitPc, Waiting, Quiet, RegSound
    <2>7. o \notin kernel /\ One(o)
      BY <2>1, <2>6 DEF IInv, EntrySound
    <2> QED
      BY <1>1, <2>1, <2>2, <2>3, <2>4, <2>5, <2>7 DEF Shrunk, ProcessOp, Finish
  <1> QED
    BY <1>1, <1>2, <1>3, <1>4 DEF Shrunk


\* The kernel's steps and the driver's requests to cancel leave the operations alone.
LEMMA GrownKeeps ==
  ASSUME IInv, Grown, UNCHANGED <<arbiter, op, entry, queue, arg>>,
         \A t \in Thread : pc'[t] = pc[t] \/ (pc[t] \in PollPc /\ pc'[t] \in PollPc)
  PROVE  Alone' /\ SubmitSound' /\ LeaveSound' /\ EntrySound' /\ RegSound'
  <1> USE IoUringAssumption DEF IInv, arbiter, op, PollPc, SubmitPc, CancelPc, Calls
  <1>1. \A o \in Oper : (Quiet(o) => Quiet(o)') /\ (Waiting(o) => Waiting(o)')
    BY DEF Grown, Quiet, Waiting
  <1>2. \A t \in Thread : arg[t] \in Oper \/ pc[t] \in PollPc \cup {"idle", "signal"}
    BY DEF Typed, TypeOK
  <1>3. \A o \in Oper : Submitting(o) => Submitting(o)'
    BY DEF Submitting, At
  <1>4. Alone'
    BY DEF Alone, Typed
  <1>5. SubmitSound'
    BY <1>1, <1>2 DEF SubmitSound
  <1>6. LeaveSound'
    BY <1>2 DEF LeaveSound
  <1>7. EntrySound'
    BY <1>1 DEF EntrySound, Grown, Quiet
  <1>8. RegSound'
    BY <1>3 DEF RegSound, Typed
  <1> QED
    BY <1>4, <1>5, <1>6, <1>7, <1>8

LEMMA KernelKeeps ==
  ASSUME IInv, WakeEvent \/ SubmitCancel \/ \E o \in Oper : Arrive(o)
  PROVE  Alone' /\ SubmitSound' /\ LeaveSound' /\ EntrySound' /\ RegSound'
  <1>1. Grown
    BY ArriveGrows, WakeEventGrows, SubmitCancelGrows DEF IInv
  <1>2. UNCHANGED <<arbiter, op, entry, queue>>
    BY DEF WakeEvent, SubmitCancel, Arrive, backend, runtime, arbiter, op
  <1>3. arg' = arg /\ \A t \in Thread : pc'[t] = pc[t] \/ (pc[t] \in PollPc /\ pc'[t] \in PollPc)
    <2>1. CASE UNCHANGED frame
      BY <2>1 DEF frame
    <2>2. CASE SubmitCancel
      BY <2>2, SubmitCancelGrows, IoUringAssumption DEF IInv, Typed, TypeOK, Goto, At,
         PollPc
    <2> QED
      BY <2>1, <2>2 DEF WakeEvent, Arrive
  <1> QED
    BY <1>1, <1>2, <1>3, GrownKeeps
\* A second thread comes to an operation as its callback, once submit() is over, or to
\* destroy it when it has been resumed.
LEMMA AloneStep ==
  ASSUME IInv, Limits, [Next]_vars
  PROVE  Alone'
  <1> USE CqSame, IoUringAssumption DEF Limits, IInv, Typed, TypeOK, Calls, States,
               SubmitPc, CancelPc, PollPc, Goto, Enter,
               At, Blocked, Finish,
               Waiting, Quiet, Submitting, arbiter, op, backend, system,
               frame, runtime, vars, Alone, SubmitSound, LeaveSound, EntrySound, RegSound
  <1>1. ASSUME NEW t \in Thread, Arm(t) PROVE Alone'
    BY <1>1 DEF Arm
  <1>2. ASSUME NEW t \in Thread, Check(t) PROVE Alone'
    BY <1>2 DEF Check
  <1>3. ASSUME NEW t \in Thread, Bind(t) PROVE Alone'
    BY <1>3 DEF Bind
  <1>4. ASSUME NEW t \in Thread, Reject(t) PROVE Alone'
    BY <1>4 DEF Reject
  <1>5. ASSUME NEW t \in Thread, Insert(t) PROVE Alone'
    BY <1>5 DEF Insert
  <1>6. ASSUME NEW t \in Thread, Submit(t) PROVE Alone'
    BY <1>6 DEF Submit
  <1>7. ASSUME NEW t \in Thread, SubmitFails(t) PROVE Alone'
    BY <1>7 DEF SubmitFails
  <1>8. ASSUME NEW t \in Thread, Erase(t) PROVE Alone'
    BY <1>8 DEF Erase
  <1>9. ASSUME NEW t \in Thread, Decide(t) PROVE Alone'
    BY <1>9 DEF Decide
  <1>10. ASSUME NEW t \in Thread, Abort(t) PROVE Alone'
    BY <1>10 DEF Abort
  <1>11. ASSUME NEW t \in Thread, Lookup(t) PROVE Alone'
    BY <1>11 DEF Lookup
  <1>12. ASSUME NEW t \in Thread, Wake(t) PROVE Alone'
    BY <1>12 DEF Wake
  <1>13. ASSUME NEW t \in Thread, Signal(t) PROVE Alone'
    BY <1>13 DEF Signal
  <1>14. ASSUME NEW t \in Thread, Leave(t) PROVE Alone'
    BY <1>14 DEF Leave
  <1>15. ASSUME NEW t \in Thread, Destroy(t) PROVE Alone'
    BY <1>15 DEF Destroy
  <1>16. ASSUME NEW t \in Thread, Post(t) PROVE Alone'
    BY <1>16 DEF Post
  <1>17. ASSUME NEW t \in Thread, NEW o \in Oper, Begin(t, o) PROVE Alone'
    BY <1>17 DEF Begin
  <1>18. ASSUME NEW t \in Thread, NEW o \in Oper, CompleteAtOnce(t, o) PROVE Alone'
    BY <1>18, AttemptEnds DEF CompleteAtOnce
  <1>19. ASSUME NEW t \in Thread, NEW o \in Oper, RequestCancel(t, o) PROVE Alone'
    BY <1>19 DEF RequestCancel
  <1>20. ASSUME NEW o \in Oper, Resume(o) PROVE Alone'
    BY <1>20 DEF Resume
  <1>21. ASSUME RunTask PROVE Alone'
    BY <1>21 DEF RunTask
  <1>22. ASSUME BeginPoll PROVE Alone'
    BY <1>22 DEF BeginPoll
  <1>23. ASSUME Flush PROVE Alone'
    BY <1>23 DEF Flush
  <1>24. ASSUME SubmitCancel PROVE Alone'
    BY <1>24, KernelKeeps
  <1>25. ASSUME Drain PROVE Alone'
    BY <1>25, CqeEffect DEF Drain
  <1>26. ASSUME DrainDone PROVE Alone'
    BY <1>26 DEF DrainDone
  <1>27. ASSUME Wait PROVE Alone'
    BY <1>27 DEF Wait
  <1>28. ASSUME Reap PROVE Alone'
    BY <1>28, CqeEffect DEF Reap
  <1>29. ASSUME Expire PROVE Alone'
    BY <1>29 DEF Expire
  <1>30. ASSUME PollAgain PROVE Alone'
    BY <1>30 DEF PollAgain
  <1>31. ASSUME NEW o \in Oper, Arrive(o) PROVE Alone'
    BY <1>31, KernelKeeps
  <1>32. ASSUME WakeEvent PROVE Alone'
    BY <1>32, KernelKeeps
  <1>33. ASSUME UNCHANGED vars PROVE Alone'
    BY <1>33 DEF vars
  <1> QED
    BY <1>1, <1>2, <1>3, <1>4, <1>5, <1>6, <1>7, <1>8, <1>9, <1>10, <1>11, <1>12, <1>13,
       <1>14, <1>15, <1>16, <1>17, <1>18, <1>19, <1>20, <1>21, <1>22, <1>23, <1>24, <1>25,
       <1>26, <1>27, <1>28, <1>29, <1>30, <1>31, <1>32, <1>33 DEF Next, Continue,
       InSubmit, InCancel, Drive

\* Nobody ends an operation while it is submitted but the thread that submits it.
LEMMA SubmitStep ==
  ASSUME IInv, Limits, [Next]_vars
  PROVE  SubmitSound'
  <1> USE CqSame, IoUringAssumption DEF Limits, IInv, Typed, TypeOK, Calls, States,
               SubmitPc, CancelPc, PollPc, Goto, Enter,
               At, Blocked, Finish,
               Waiting, Quiet, Submitting, arbiter, op, backend, system,
               frame, runtime, vars, Alone, SubmitSound, LeaveSound, EntrySound, RegSound
  <1>1. ASSUME NEW t \in Thread, Arm(t) PROVE SubmitSound'
    BY <1>1 DEF Arm
  <1>2. ASSUME NEW t \in Thread, Check(t) PROVE SubmitSound'
    BY <1>2 DEF Check
  <1>3. ASSUME NEW t \in Thread, Bind(t) PROVE SubmitSound'
    BY <1>3 DEF Bind
  <1>4. ASSUME NEW t \in Thread, Reject(t) PROVE SubmitSound'
    BY <1>4 DEF Reject
  <1>5. ASSUME NEW t \in Thread, Insert(t) PROVE SubmitSound'
    BY <1>5 DEF Insert
  <1>6. ASSUME NEW t \in Thread, Submit(t) PROVE SubmitSound'
    BY <1>6 DEF Submit
  <1>7. ASSUME NEW t \in Thread, SubmitFails(t) PROVE SubmitSound'
    BY <1>7 DEF SubmitFails
  <1>8. ASSUME NEW t \in Thread, Erase(t) PROVE SubmitSound'
    BY <1>8 DEF Erase
  <1>9. ASSUME NEW t \in Thread, Decide(t) PROVE SubmitSound'
    BY <1>9 DEF Decide
  <1>10. ASSUME NEW t \in Thread, Abort(t) PROVE SubmitSound'
    BY <1>10 DEF Abort
  <1>11. ASSUME NEW t \in Thread, Lookup(t) PROVE SubmitSound'
    BY <1>11 DEF Lookup
  <1>12. ASSUME NEW t \in Thread, Wake(t) PROVE SubmitSound'
    BY <1>12 DEF Wake
  <1>13. ASSUME NEW t \in Thread, Signal(t) PROVE SubmitSound'
    BY <1>13 DEF Signal
  <1>14. ASSUME NEW t \in Thread, Leave(t) PROVE SubmitSound'
    BY <1>14 DEF Leave
  <1>15. ASSUME NEW t \in Thread, Destroy(t) PROVE SubmitSound'
    BY <1>15 DEF Destroy
  <1>16. ASSUME NEW t \in Thread, Post(t) PROVE SubmitSound'
    BY <1>16 DEF Post
  <1>17. ASSUME NEW t \in Thread, NEW o \in Oper, Begin(t, o) PROVE SubmitSound'
    BY <1>17 DEF Begin
  <1>18. ASSUME NEW t \in Thread, NEW o \in Oper, CompleteAtOnce(t, o) PROVE SubmitSound'
    BY <1>18, AttemptEnds DEF CompleteAtOnce
  <1>19. ASSUME NEW t \in Thread, NEW o \in Oper, RequestCancel(t, o) PROVE SubmitSound'
    BY <1>19 DEF RequestCancel
  <1>20. ASSUME NEW o \in Oper, Resume(o) PROVE SubmitSound'
    BY <1>20 DEF Resume
  <1>21. ASSUME RunTask PROVE SubmitSound'
    BY <1>21 DEF RunTask
  <1>22. ASSUME BeginPoll PROVE SubmitSound'
    BY <1>22 DEF BeginPoll
  <1>23. ASSUME Flush PROVE SubmitSound'
    BY <1>23 DEF Flush
  <1>24. ASSUME SubmitCancel PROVE SubmitSound'
    BY <1>24, KernelKeeps
  <1>25. ASSUME Drain PROVE SubmitSound'
    BY <1>25, CqeEffect DEF Drain
  <1>26. ASSUME DrainDone PROVE SubmitSound'
    BY <1>26 DEF DrainDone
  <1>27. ASSUME Wait PROVE SubmitSound'
    BY <1>27 DEF Wait
  <1>28. ASSUME Reap PROVE SubmitSound'
    BY <1>28, CqeEffect DEF Reap
  <1>29. ASSUME Expire PROVE SubmitSound'
    BY <1>29 DEF Expire
  <1>30. ASSUME PollAgain PROVE SubmitSound'
    BY <1>30 DEF PollAgain
  <1>31. ASSUME NEW o \in Oper, Arrive(o) PROVE SubmitSound'
    BY <1>31, KernelKeeps
  <1>32. ASSUME WakeEvent PROVE SubmitSound'
    BY <1>32, KernelKeeps
  <1>33. ASSUME UNCHANGED vars PROVE SubmitSound'
    BY <1>33 DEF vars
  <1> QED
    BY <1>1, <1>2, <1>3, <1>4, <1>5, <1>6, <1>7, <1>8, <1>9, <1>10, <1>11, <1>12, <1>13,
       <1>14, <1>15, <1>16, <1>17, <1>18, <1>19, <1>20, <1>21, <1>22, <1>23, <1>24, <1>25,
       <1>26, <1>27, <1>28, <1>29, <1>30, <1>31, <1>32, <1>33, ZenonT(30) DEF Next, Continue,
       InSubmit, InCancel, Drive

\* An operation is destroyed once it has left the tables and the queue.
LEMMA LeaveStep ==
  ASSUME IInv, Limits, [Next]_vars
  PROVE  LeaveSound'
  <1> USE CqSame, IoUringAssumption DEF Limits, IInv, Typed, TypeOK, Calls, States,
               SubmitPc, CancelPc, PollPc, Goto, Enter,
               At, Blocked, Finish,
               Waiting, Quiet, Submitting, arbiter, op, backend, system,
               frame, runtime, vars, Alone, SubmitSound, LeaveSound, EntrySound, RegSound
  <1>1. ASSUME NEW t \in Thread, Arm(t) PROVE LeaveSound'
    BY <1>1 DEF Arm
  <1>2. ASSUME NEW t \in Thread, Check(t) PROVE LeaveSound'
    BY <1>2 DEF Check
  <1>3. ASSUME NEW t \in Thread, Bind(t) PROVE LeaveSound'
    BY <1>3 DEF Bind
  <1>4. ASSUME NEW t \in Thread, Reject(t) PROVE LeaveSound'
    BY <1>4 DEF Reject
  <1>5. ASSUME NEW t \in Thread, Insert(t) PROVE LeaveSound'
    BY <1>5 DEF Insert
  <1>6. ASSUME NEW t \in Thread, Submit(t) PROVE LeaveSound'
    BY <1>6 DEF Submit
  <1>7. ASSUME NEW t \in Thread, SubmitFails(t) PROVE LeaveSound'
    BY <1>7 DEF SubmitFails
  <1>8. ASSUME NEW t \in Thread, Erase(t) PROVE LeaveSound'
    BY <1>8 DEF Erase
  <1>9. ASSUME NEW t \in Thread, Decide(t) PROVE LeaveSound'
    BY <1>9 DEF Decide
  <1>10. ASSUME NEW t \in Thread, Abort(t) PROVE LeaveSound'
    BY <1>10 DEF Abort
  <1>11. ASSUME NEW t \in Thread, Lookup(t) PROVE LeaveSound'
    BY <1>11 DEF Lookup
  <1>12. ASSUME NEW t \in Thread, Wake(t) PROVE LeaveSound'
    BY <1>12 DEF Wake
  <1>13. ASSUME NEW t \in Thread, Signal(t) PROVE LeaveSound'
    BY <1>13 DEF Signal
  <1>14. ASSUME NEW t \in Thread, Leave(t) PROVE LeaveSound'
    BY <1>14 DEF Leave
  <1>15. ASSUME NEW t \in Thread, Destroy(t) PROVE LeaveSound'
    BY <1>15 DEF Destroy
  <1>16. ASSUME NEW t \in Thread, Post(t) PROVE LeaveSound'
    BY <1>16 DEF Post
  <1>17. ASSUME NEW t \in Thread, NEW o \in Oper, Begin(t, o) PROVE LeaveSound'
    BY <1>17 DEF Begin
  <1>18. ASSUME NEW t \in Thread, NEW o \in Oper, CompleteAtOnce(t, o) PROVE LeaveSound'
    BY <1>18, AttemptEnds DEF CompleteAtOnce
  <1>19. ASSUME NEW t \in Thread, NEW o \in Oper, RequestCancel(t, o) PROVE LeaveSound'
    BY <1>19 DEF RequestCancel
  <1>20. ASSUME NEW o \in Oper, Resume(o) PROVE LeaveSound'
    BY <1>20 DEF Resume
  <1>21. ASSUME RunTask PROVE LeaveSound'
    BY <1>21 DEF RunTask
  <1>22. ASSUME BeginPoll PROVE LeaveSound'
    BY <1>22 DEF BeginPoll
  <1>23. ASSUME Flush PROVE LeaveSound'
    BY <1>23 DEF Flush
  <1>24. ASSUME SubmitCancel PROVE LeaveSound'
    BY <1>24, KernelKeeps
  <1>25. ASSUME Drain PROVE LeaveSound'
    BY <1>25, CqeEffect DEF Drain
  <1>26. ASSUME DrainDone PROVE LeaveSound'
    BY <1>26 DEF DrainDone
  <1>27. ASSUME Wait PROVE LeaveSound'
    BY <1>27 DEF Wait
  <1>28. ASSUME Reap PROVE LeaveSound'
    BY <1>28, CqeEffect DEF Reap
  <1>29. ASSUME Expire PROVE LeaveSound'
    BY <1>29 DEF Expire
  <1>30. ASSUME PollAgain PROVE LeaveSound'
    BY <1>30 DEF PollAgain
  <1>31. ASSUME NEW o \in Oper, Arrive(o) PROVE LeaveSound'
    BY <1>31, KernelKeeps
  <1>32. ASSUME WakeEvent PROVE LeaveSound'
    BY <1>32, KernelKeeps
  <1>33. ASSUME UNCHANGED vars PROVE LeaveSound'
    BY <1>33 DEF vars
  <1> QED
    BY <1>1, <1>2, <1>3, <1>4, <1>5, <1>6, <1>7, <1>8, <1>9, <1>10, <1>11, <1>12, <1>13,
       <1>14, <1>15, <1>16, <1>17, <1>18, <1>19, <1>20, <1>21, <1>22, <1>23, <1>24, <1>25,
       <1>26, <1>27, <1>28, <1>29, <1>30, <1>31, <1>32, <1>33 DEF Next, Continue,
       InSubmit, InCancel, Drive

\* An entry goes with the completion of its request.
LEMMA EntryStep ==
  ASSUME IInv, Limits, [Next]_vars
  PROVE  EntrySound'
  <1> USE CqSame, IoUringAssumption DEF Limits, IInv, Typed, TypeOK, Calls, States,
               SubmitPc, CancelPc, PollPc, Goto, Enter,
               At, Blocked, Finish,
               Waiting, Quiet, Submitting, arbiter, op, backend, system,
               frame, runtime, vars, Alone, SubmitSound, LeaveSound, EntrySound, RegSound
  <1>1. ASSUME NEW t \in Thread, Arm(t) PROVE EntrySound'
    BY <1>1 DEF Arm
  <1>2. ASSUME NEW t \in Thread, Check(t) PROVE EntrySound'
    BY <1>2 DEF Check
  <1>3. ASSUME NEW t \in Thread, Bind(t) PROVE EntrySound'
    BY <1>3 DEF Bind
  <1>4. ASSUME NEW t \in Thread, Reject(t) PROVE EntrySound'
    BY <1>4 DEF Reject
  <1>5. ASSUME NEW t \in Thread, Insert(t) PROVE EntrySound'
    BY <1>5 DEF Insert
  <1>6. ASSUME NEW t \in Thread, Submit(t) PROVE EntrySound'
    BY <1>6 DEF Submit
  <1>7. ASSUME NEW t \in Thread, SubmitFails(t) PROVE EntrySound'
    BY <1>7 DEF SubmitFails
  <1>8. ASSUME NEW t \in Thread, Erase(t) PROVE EntrySound'
    BY <1>8 DEF Erase
  <1>9. ASSUME NEW t \in Thread, Decide(t) PROVE EntrySound'
    BY <1>9 DEF Decide
  <1>10. ASSUME NEW t \in Thread, Abort(t) PROVE EntrySound'
    BY <1>10 DEF Abort
  <1>11. ASSUME NEW t \in Thread, Lookup(t) PROVE EntrySound'
    BY <1>11 DEF Lookup
  <1>12. ASSUME NEW t \in Thread, Wake(t) PROVE EntrySound'
    BY <1>12 DEF Wake
  <1>13. ASSUME NEW t \in Thread, Signal(t) PROVE EntrySound'
    BY <1>13 DEF Signal
  <1>14. ASSUME NEW t \in Thread, Leave(t) PROVE EntrySound'
    BY <1>14 DEF Leave
  <1>15. ASSUME NEW t \in Thread, Destroy(t) PROVE EntrySound'
    BY <1>15 DEF Destroy
  <1>16. ASSUME NEW t \in Thread, Post(t) PROVE EntrySound'
    BY <1>16 DEF Post
  <1>17. ASSUME NEW t \in Thread, NEW o \in Oper, Begin(t, o) PROVE EntrySound'
    BY <1>17 DEF Begin
  <1>18. ASSUME NEW t \in Thread, NEW o \in Oper, CompleteAtOnce(t, o) PROVE EntrySound'
    BY <1>18, AttemptEnds DEF CompleteAtOnce
  <1>19. ASSUME NEW t \in Thread, NEW o \in Oper, RequestCancel(t, o) PROVE EntrySound'
    BY <1>19 DEF RequestCancel
  <1>20. ASSUME NEW o \in Oper, Resume(o) PROVE EntrySound'
    BY <1>20 DEF Resume
  <1>21. ASSUME RunTask PROVE EntrySound'
    BY <1>21 DEF RunTask
  <1>22. ASSUME BeginPoll PROVE EntrySound'
    BY <1>22 DEF BeginPoll
  <1>23. ASSUME Flush PROVE EntrySound'
    BY <1>23 DEF Flush
  <1>24. ASSUME SubmitCancel PROVE EntrySound'
    BY <1>24, KernelKeeps
  <1>25. ASSUME Drain PROVE EntrySound'
    BY <1>25, CqeEffect DEF Drain
  <1>26. ASSUME DrainDone PROVE EntrySound'
    BY <1>26 DEF DrainDone
  <1>27. ASSUME Wait PROVE EntrySound'
    BY <1>27 DEF Wait
  <1>28. ASSUME Reap PROVE EntrySound'
    BY <1>28, CqeEffect DEF Reap
  <1>29. ASSUME Expire PROVE EntrySound'
    BY <1>29 DEF Expire
  <1>30. ASSUME PollAgain PROVE EntrySound'
    BY <1>30 DEF PollAgain
  <1>31. ASSUME NEW o \in Oper, Arrive(o) PROVE EntrySound'
    BY <1>31, KernelKeeps
  <1>32. ASSUME WakeEvent PROVE EntrySound'
    BY <1>32, KernelKeeps
  <1>33. ASSUME UNCHANGED vars PROVE EntrySound'
    BY <1>33 DEF vars
  <1> QED
    BY <1>1, <1>2, <1>3, <1>4, <1>5, <1>6, <1>7, <1>8, <1>9, <1>10, <1>11, <1>12, <1>13,
       <1>14, <1>15, <1>16, <1>17, <1>18, <1>19, <1>20, <1>21, <1>22, <1>23, <1>24, <1>25,
       <1>26, <1>27, <1>28, <1>29, <1>30, <1>31, <1>32, <1>33 DEF Next, Continue,
       InSubmit, InCancel, Drive

\* A callback finds its operation resolved, or with an entry.
LEMMA RegStep ==
  ASSUME IInv, Limits, [Next]_vars
  PROVE  RegSound'
  <1> USE CqSame, IoUringAssumption DEF Limits, IInv, Typed, TypeOK, Calls, States,
               SubmitPc, CancelPc, PollPc, Goto, Enter,
               At, Blocked, Finish,
               Waiting, Quiet, Submitting, arbiter, op, backend, system,
               frame, runtime, vars, Alone, SubmitSound, LeaveSound, EntrySound, RegSound
  <1>1. ASSUME NEW t \in Thread, Arm(t) PROVE RegSound'
    BY <1>1 DEF Arm
  <1>2. ASSUME NEW t \in Thread, Check(t) PROVE RegSound'
    BY <1>2 DEF Check
  <1>3. ASSUME NEW t \in Thread, Bind(t) PROVE RegSound'
    BY <1>3 DEF Bind
  <1>4. ASSUME NEW t \in Thread, Reject(t) PROVE RegSound'
    BY <1>4 DEF Reject
  <1>5. ASSUME NEW t \in Thread, Insert(t) PROVE RegSound'
    BY <1>5 DEF Insert
  <1>6. ASSUME NEW t \in Thread, Submit(t) PROVE RegSound'
    BY <1>6 DEF Submit
  <1>7. ASSUME NEW t \in Thread, SubmitFails(t) PROVE RegSound'
    BY <1>7 DEF SubmitFails
  <1>8. ASSUME NEW t \in Thread, Erase(t) PROVE RegSound'
    BY <1>8 DEF Erase
  <1>9. ASSUME NEW t \in Thread, Decide(t) PROVE RegSound'
    BY <1>9 DEF Decide
  <1>10. ASSUME NEW t \in Thread, Abort(t) PROVE RegSound'
    BY <1>10 DEF Abort
  <1>11. ASSUME NEW t \in Thread, Lookup(t) PROVE RegSound'
    BY <1>11 DEF Lookup
  <1>12. ASSUME NEW t \in Thread, Wake(t) PROVE RegSound'
    BY <1>12 DEF Wake
  <1>13. ASSUME NEW t \in Thread, Signal(t) PROVE RegSound'
    BY <1>13 DEF Signal
  <1>14. ASSUME NEW t \in Thread, Leave(t) PROVE RegSound'
    BY <1>14, SMTT(30) DEF Leave
  <1>15. ASSUME NEW t \in Thread, Destroy(t) PROVE RegSound'
    BY <1>15 DEF Destroy
  <1>16. ASSUME NEW t \in Thread, Post(t) PROVE RegSound'
    BY <1>16, SMTT(30) DEF Post
  <1>17. ASSUME NEW t \in Thread, NEW o \in Oper, Begin(t, o) PROVE RegSound'
    BY <1>17 DEF Begin
  <1>18. ASSUME NEW t \in Thread, NEW o \in Oper, CompleteAtOnce(t, o) PROVE RegSound'
    <2>1. PICK res \in Attempt(o) : \E s \in Outcome(o, res, FALSE) : state' = [state EXCEPT ![o] = s]
      BY <1>18 DEF CompleteAtOnce
    <2>2. PICK s \in Outcome(o, res, FALSE) : state' = [state EXCEPT ![o] = s]
      BY <2>1
    <2>3. s \in {"data", "eof", "error"}
      BY AttemptEnds
    <2> QED
      BY <1>18, <2>2, <2>3 DEF CompleteAtOnce
  <1>19. ASSUME NEW t \in Thread, NEW o \in Oper, RequestCancel(t, o) PROVE RegSound'
    BY <1>19 DEF RequestCancel
  <1>20. ASSUME NEW o \in Oper, Resume(o) PROVE RegSound'
    BY <1>20 DEF Resume
  <1>21. ASSUME RunTask PROVE RegSound'
    BY <1>21 DEF RunTask
  <1>22. ASSUME BeginPoll PROVE RegSound'
    BY <1>22 DEF BeginPoll
  <1>23. ASSUME Flush PROVE RegSound'
    BY <1>23 DEF Flush
  <1>24. ASSUME SubmitCancel PROVE RegSound'
    BY <1>24, KernelKeeps
  <1>25. ASSUME Drain PROVE RegSound'
    BY <1>25, CqeEffect DEF Drain
  <1>26. ASSUME DrainDone PROVE RegSound'
    BY <1>26 DEF DrainDone
  <1>27. ASSUME Wait PROVE RegSound'
    BY <1>27 DEF Wait
  <1>28. ASSUME Reap PROVE RegSound'
    BY <1>28, CqeEffect DEF Reap
  <1>29. ASSUME Expire PROVE RegSound'
    BY <1>29 DEF Expire
  <1>30. ASSUME PollAgain PROVE RegSound'
    BY <1>30 DEF PollAgain
  <1>31. ASSUME NEW o \in Oper, Arrive(o) PROVE RegSound'
    BY <1>31, KernelKeeps
  <1>32. ASSUME WakeEvent PROVE RegSound'
    BY <1>32, KernelKeeps
  <1>33. ASSUME UNCHANGED vars PROVE RegSound'
    BY <1>33 DEF vars
  <1> QED
    BY <1>1, <1>2, <1>3, <1>4, <1>5, <1>6, <1>7, <1>8, <1>9, <1>10, <1>11, <1>12, <1>13,
       <1>14, <1>15, <1>16, <1>17, <1>18, <1>19, <1>20, <1>21, <1>22, <1>23, <1>24, <1>25,
       <1>26, <1>27, <1>28, <1>29, <1>30, <1>31, <1>32, <1>33 DEF Next, Continue,
       InSubmit, InCancel, Drive

-----------------------------------------------------------------------------
(* The refinement of AsyncIo.                                              *)

\* An operation ends when the kernel has handed it back, and then it is destroyed.
LEMMA AbstractStep ==
  ASSUME IInv, Limits, [Next]_vars
  PROVE  [Abstract!Next]_(Abstract!vars)
  <1> USE IoUringAssumption DEF Limits, IInv, Typed, TypeOK, Calls, States, SubmitPc,
               CancelPc, PollPc,
               Goto, Enter, At, Finish, Waiting, Quiet, SubmitSound, LeaveSound,
               EntrySound, RegSound,
               arbiter, op, backend, system,
               frame, runtime, vars,
               Abstract!Next, Abstract!vars, Abstract!Await, Abstract!Lend, Abstract!Return, Abstract!Ask,
               Abstract!End, Abstract!Destroy, Abstract!Ended
  <1>1. ASSUME NEW t \in Thread, Arm(t) PROVE [Abstract!Next]_(Abstract!vars)
    BY <1>1 DEF Arm
  <1>2. ASSUME NEW t \in Thread, Check(t) PROVE [Abstract!Next]_(Abstract!vars)
    BY <1>2 DEF Check
  <1>3. ASSUME NEW t \in Thread, Bind(t) PROVE [Abstract!Next]_(Abstract!vars)
    BY <1>3 DEF Bind
  <1>4. ASSUME NEW t \in Thread, Reject(t) PROVE [Abstract!Next]_(Abstract!vars)
    <2>1. arg[t] \in Oper /\ state[arg[t]] = "awaiting" /\ arg[t] \notin kernel
      BY <1>4 DEF Reject
    <2>2. Abstract!End(arg[t])
      BY <1>4, <2>1 DEF Reject
    <2> QED
      BY <2>1, <2>2
  <1>5. ASSUME NEW t \in Thread, Insert(t) PROVE [Abstract!Next]_(Abstract!vars)
    BY <1>5 DEF Insert
  <1>6. ASSUME NEW t \in Thread, Submit(t) PROVE [Abstract!Next]_(Abstract!vars)
    BY <1>6 DEF Submit
  <1>7. ASSUME NEW t \in Thread, SubmitFails(t) PROVE [Abstract!Next]_(Abstract!vars)
    BY <1>7 DEF SubmitFails
  <1>8. ASSUME NEW t \in Thread, Erase(t) PROVE [Abstract!Next]_(Abstract!vars)
    BY <1>8 DEF Erase
  <1>9. ASSUME NEW t \in Thread, Decide(t) PROVE [Abstract!Next]_(Abstract!vars)
    BY <1>9 DEF Decide
  <1>10. ASSUME NEW t \in Thread, Abort(t) PROVE [Abstract!Next]_(Abstract!vars)
    BY <1>10 DEF Abort
  <1>11. ASSUME NEW t \in Thread, Lookup(t) PROVE [Abstract!Next]_(Abstract!vars)
    BY <1>11 DEF Lookup
  <1>12. ASSUME NEW t \in Thread, Wake(t) PROVE [Abstract!Next]_(Abstract!vars)
    BY <1>12 DEF Wake
  <1>13. ASSUME NEW t \in Thread, Signal(t) PROVE [Abstract!Next]_(Abstract!vars)
    BY <1>13 DEF Signal
  <1>14. ASSUME NEW t \in Thread, Leave(t) PROVE [Abstract!Next]_(Abstract!vars)
    BY <1>14 DEF Leave
  <1>15. ASSUME NEW t \in Thread, Destroy(t) PROVE [Abstract!Next]_(Abstract!vars)
    <2>1. arg[t] \in Oper /\ arg[t] \notin kernel
      BY <1>15 DEF Destroy
    <2>2. state[arg[t]] \in {"data", "eof", "error", "cancelled"}
      BY <1>15, <2>1 DEF Destroy
    <2>3. Abstract!Destroy(arg[t])
      BY <1>15, <2>1, <2>2 DEF Destroy
    <2> QED
      BY <2>1, <2>3
  <1>16. ASSUME NEW t \in Thread, Post(t) PROVE [Abstract!Next]_(Abstract!vars)
    BY <1>16 DEF Post
  <1>17. ASSUME NEW t \in Thread, NEW o \in Oper, Begin(t, o) PROVE [Abstract!Next]_(Abstract!vars)
    BY <1>17 DEF Begin
  <1>18. ASSUME NEW t \in Thread, NEW o \in Oper, CompleteAtOnce(t, o) PROVE [Abstract!Next]_(Abstract!vars)
    <2>1. PICK res \in Attempt(o) : \E s \in Outcome(o, res, FALSE) : state' = [state EXCEPT ![o] = s]
      BY <1>18 DEF CompleteAtOnce
    <2>2. PICK s \in Outcome(o, res, FALSE) : state' = [state EXCEPT ![o] = s]
      BY <2>1
    <2>3. s \in {"data", "eof", "error"}
      BY AttemptEnds
    <2> QED
      BY <1>18, <2>2, <2>3 DEF CompleteAtOnce
  <1>19. ASSUME NEW t \in Thread, NEW o \in Oper, RequestCancel(t, o) PROVE [Abstract!Next]_(Abstract!vars)
    BY <1>19 DEF RequestCancel
  <1>20. ASSUME NEW o \in Oper, Resume(o) PROVE [Abstract!Next]_(Abstract!vars)
    BY <1>20 DEF Resume
  <1>21. ASSUME RunTask PROVE [Abstract!Next]_(Abstract!vars)
    BY <1>21 DEF RunTask
  <1>22. ASSUME BeginPoll PROVE [Abstract!Next]_(Abstract!vars)
    BY <1>22 DEF BeginPoll
  <1>23. ASSUME Flush PROVE [Abstract!Next]_(Abstract!vars)
    BY <1>23 DEF Flush
  <1>24. ASSUME SubmitCancel PROVE [Abstract!Next]_(Abstract!vars)
    <2>1. PICK o \in Oper : kernel' = kernel \ {o}
      BY <1>24, SubmitCancelGrows
    <2> QED
      BY <1>24, <2>1 DEF SubmitCancel
  <1>25. ASSUME Drain PROVE [Abstract!Next]_(Abstract!vars)
    <2>1. UNCHANGED <<stop, kernel>>
      BY <1>25, CqeEffect DEF Drain
    <2>2. CASE UNCHANGED state
      BY <2>1, <2>2
    <2>3. CASE \E o \in Oper, s \in {"data", "eof", "error", "cancelled"} :
                 /\ entry[o] # "none" /\ o \notin kernel /\ state' = [state EXCEPT ![o] = s]
                 /\ s = "cancelled" => entry[o] = "cancelled" \/ o \in Connect
      <3>1. PICK o \in Oper, s \in {"data", "eof", "error", "cancelled"} :
              /\ entry[o] # "none" /\ o \notin kernel /\ state' = [state EXCEPT ![o] = s]
              /\ s = "cancelled" => entry[o] = "cancelled" \/ o \in Connect
        BY <2>3
      <3>2. Abstract!End(o)
        BY <2>1, <3>1
      <3> QED
        BY <3>2
    <2> QED
      BY <1>25, <2>2, <2>3, CqeEffect DEF Drain
  <1>26. ASSUME DrainDone PROVE [Abstract!Next]_(Abstract!vars)
    BY <1>26 DEF DrainDone
  <1>27. ASSUME Wait PROVE [Abstract!Next]_(Abstract!vars)
    BY <1>27 DEF Wait
  <1>28. ASSUME Reap PROVE [Abstract!Next]_(Abstract!vars)
    <2>1. UNCHANGED <<stop, kernel>>
      BY <1>28, CqeEffect DEF Reap
    <2>2. CASE UNCHANGED state
      BY <2>1, <2>2
    <2>3. CASE \E o \in Oper, s \in {"data", "eof", "error", "cancelled"} :
                 /\ entry[o] # "none" /\ o \notin kernel /\ state' = [state EXCEPT ![o] = s]
                 /\ s = "cancelled" => entry[o] = "cancelled" \/ o \in Connect
      <3>1. PICK o \in Oper, s \in {"data", "eof", "error", "cancelled"} :
              /\ entry[o] # "none" /\ o \notin kernel /\ state' = [state EXCEPT ![o] = s]
              /\ s = "cancelled" => entry[o] = "cancelled" \/ o \in Connect
        BY <2>3
      <3>2. Abstract!End(o)
        BY <2>1, <3>1
      <3> QED
        BY <3>2
    <2> QED
      BY <1>28, <2>2, <2>3, CqeEffect DEF Reap
  <1>29. ASSUME Expire PROVE [Abstract!Next]_(Abstract!vars)
    BY <1>29 DEF Expire
  <1>30. ASSUME PollAgain PROVE [Abstract!Next]_(Abstract!vars)
    BY <1>30 DEF PollAgain
  <1>31. ASSUME NEW o \in Oper, Arrive(o) PROVE [Abstract!Next]_(Abstract!vars)
    BY <1>31 DEF Arrive
  <1>32. ASSUME WakeEvent PROVE [Abstract!Next]_(Abstract!vars)
    BY <1>32 DEF WakeEvent
  <1>33. ASSUME UNCHANGED vars PROVE [Abstract!Next]_(Abstract!vars)
    BY <1>33 DEF vars
  <1> QED
    BY <1>1, <1>2, <1>3, <1>4, <1>5, <1>6, <1>7, <1>8, <1>9, <1>10, <1>11, <1>12, <1>13,
       <1>14, <1>15, <1>16, <1>17, <1>18, <1>19, <1>20, <1>21, <1>22, <1>23, <1>24, <1>25,
       <1>26, <1>27, <1>28, <1>29, <1>30, <1>31, <1>32, <1>33 DEF Next, Continue,
       InSubmit, InCancel, Drive

-----------------------------------------------------------------------------
(* The results.                                                            *)

LEMMA InitStep == Init => IInv /\ WakeSound
  <1> SUFFICES ASSUME Init PROVE IInv /\ WakeSound
    OBVIOUS
  <1> USE IoUringAssumption DEF Init
  <1>1. Typed
    <2>1. <<>> \in Seq(Cqes) /\ poll \in PollRecord /\ poll.ids = {}
      BY PollRecords
    <2>2. TypeOK
      <3>1. state \in [Oper -> States] /\ entry \in [Oper -> {"none", "live", "cancelled"}]
        BY DEF States
      <3>2. posts \in 0 .. MaxPost
        OBVIOUS
      <3>3. \A t \in Thread : pc[t] = "idle" /\ pc[t] \notin PollPc
        BY DEF PollPc
      <3>4. pc \in [Thread -> {"idle", "destroy"} \cup SubmitPc \cup CancelPc \cup PollPc]
        OBVIOUS
      <3> QED
        BY <2>1, <3>1, <3>2, <3>3, <3>4 DEF TypeOK
    <2> QED
      BY <2>1, <2>2 DEF Typed, SubmitPc, Calls, CancelPc
  <1>2. \A o \in Oper : Quiet(o)
    BY DEF Quiet, None, Reported
  <1>3. Alone /\ SubmitSound /\ LeaveSound
    BY DEF Alone, SubmitSound, LeaveSound, SubmitPc, Calls, CancelPc
  <1>4. EntrySound /\ RegSound
    BY <1>2 DEF EntrySound, RegSound
  <1>5. WakeSound
    BY DEF WakeSound, Blocked, At
  <1> QED
    BY <1>1, <1>3, <1>4, <1>5 DEF IInv

\* What the backend, the operations and the threads keep is well-formed, and only the
\* driver is ever inside poll().
THEOREM TypeCorrect == Spec => []TypeOK
  <1>1. Init => Typed
    BY InitStep DEF IInv
  <1>2. Typed => TypeOK
    BY DEF Typed
  <1> QED
    BY <1>1, <1>2, TypeStep, PTL DEF Spec

\* No wake-up is lost: while the driver waits in the kernel, a readable wake_fd_ has its
\* poll request armed, or the completion of that already in the ring.
THEOREM WakeUpsArrive == Spec => []WakeReachesDriver
  <1>1. Init => Typed /\ WakeSound
    BY InitStep DEF IInv
  <1>2. Typed /\ WakeSound /\ [Next]_vars => Typed' /\ WakeSound'
    BY TypeStep, WakeStep
  <1>3. Typed /\ WakeSound => WakeReachesDriver
    BY DEF Typed, WakeSound, WakeInRing, WakeReachesDriver
  <1> QED
    BY <1>1, <1>2, <1>3, PTL DEF Spec

\* The inductive invariant, as long as no operation is cancelled while it is submitted
\* and io_uring_submit() refuses no request that was prepared.
THEOREM InvariantHolds == Limits => (Spec => []IInv)
  <1> SUFFICES ASSUME Limits PROVE Spec => []IInv
    OBVIOUS
  <1>1. IInv /\ [Next]_vars => IInv'
    <2> SUFFICES ASSUME IInv, [Next]_vars PROVE IInv'
      OBVIOUS
    <2>1. Typed' /\ Alone' /\ SubmitSound'
      BY TypeStep, AloneStep, SubmitStep DEF IInv
    <2>2. LeaveSound' /\ EntrySound' /\ RegSound'
      BY LeaveStep, EntryStep, RegStep
    <2> QED
      BY <2>1, <2>2 DEF IInv
  <1>2. Init => IInv
    BY InitStep
  <1> QED
    BY <1>1, <1>2, PTL DEF Spec

\* IoUringBackend::process_cqe never completes a destroyed operation nor one that is not
\* waiting, and none with an entry is forgotten.
THEOREM EntriesAreAnswered == Limits => (Spec => []EntryHasCompletion)
  <1>1. IInv => EntryHasCompletion
    <2> SUFFICES ASSUME IInv, NEW o \in Oper, entry[o] # "none"
                 PROVE  /\ state[o] = "awaiting"
                        /\ LET toSubmit == \E t \in Thread : pc[t] \in {"ring", "erase"} /\ arg[t] = o IN
                           /\ toSubmit => o \notin kernel /\ Reported(o) = {}
                           /\ o \in kernel => Reported(o) = {}
                           /\ toSubmit \/ o \in kernel \/ Cardinality(Reported(o)) = 1
      BY DEF EntryHasCompletion
    <2> DEFINE toSubmit == \E t \in Thread : pc[t] \in {"ring", "erase"} /\ arg[t] = o
    <2>1. state[o] = "awaiting" /\ (toSubmit \/ (o \in kernel /\ None(o)) \/ (o \notin kernel /\ One(o)))
      BY DEF IInv, EntrySound
    <2>2. toSubmit => o \notin kernel /\ None(o)
      BY DEF IInv, SubmitSound, SubmitPc, Waiting, Quiet
    <2>3. One(o) => Cardinality(Reported(o)) = 1
      BY FS_Singleton DEF One
    <2> QED
      BY <2>1, <2>2, <2>3 DEF None
  <1> QED
    BY <1>1, InvariantHolds, PTL

\* The destructor of an operation finds it out of the tables, of the kernel and of the
\* ready queue, and its callback over.
THEOREM DestroyedIsLeftAlone == Limits => (Spec => []DestroyedIsUnused)
  <1>1. IInv => DestroyedIsUnused
    BY DEF IInv, EntrySound, RegSound, Quiet, DestroyedIsUnused
  <1> QED
    BY <1>1, InvariantHolds, PTL

\* Entries, callbacks, the ring and the wake-ups are invisible to the awaiter: whatever
\* the backend does, an operation ends once, is not cancelled unasked, and neither ends
\* nor goes away while the kernel uses its buffer.
THEOREM AsyncIoIsImplemented == Limits => (Spec => ImplementsAsyncIo)
  <1> SUFFICES ASSUME Limits PROVE Spec => ImplementsAsyncIo
    OBVIOUS
  <1>1. Init => Abstract!Init
    BY DEF Init, Abstract!Init
  <1>2. IInv /\ [Next]_vars => [Abstract!Next]_(Abstract!vars)
    BY AbstractStep
  <1> QED
    BY <1>1, <1>2, InvariantHolds, PTL DEF Spec, ImplementsAsyncIo, Abstract!Spec

=============================================================================
