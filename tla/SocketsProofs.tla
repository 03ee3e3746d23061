----------------------------- MODULE SocketsProofs -----------------------------
(***************************************************************************)
(* Proofs about Sockets: for any streams, listeners, operations and        *)
(* descriptors, every open descriptor has one owner, requests are made for *)
(* the file their stream holds, and a connect reports its own answer.      *)
(***************************************************************************)
EXTENDS Sockets, FiniteSetTheorems, TLAPS

-----------------------------------------------------------------------------
(* The inductive invariants.                                               *)

\* An operation has a target when it is submitted; a request in the ring has a file,
\* and none of a connect is ever there.
Typed ==
  /\ TypeOK
  /\ \A i \in Operation :
       /\ op[i].phase = "made" => op[i].target \in Object
       /\ op[i].phase = "flying" => op[i].file \in File /\ op[i].kind # "connect"

\* A descriptor that somebody would close has one holder, of one kind.
HeldOnce ==
  /\ \A o, p \in Object : handle[o] # NoFd /\ handle[o] = handle[p] => o = p
  /\ \A i, j \in Operation : op[i].accepted # NoFd /\ op[i].accepted = op[j].accepted => i = j
  /\ \A o \in Object, i \in Operation : handle[o] # NoFd => handle[o] # op[i].accepted
  /\ \A o \in Object : handle[o] \notin hand /\ handle[o] \notin dropped
  /\ \A i \in Operation : op[i].accepted \notin hand /\ op[i].accepted \notin dropped
  /\ hand \cap dropped = {}

\* What is open is held, and what is held is open.
OpenIsHeld ==
  \A d \in Fd :
    table[d] # NoFile <=> \/ d \in hand \/ d \in dropped
                          \/ \E o \in Object : handle[o] = d
                          \/ \E i \in Operation : op[i].accepted = d

\* An operation carries a descriptor from the answer of its accept to the completion.
AcceptedIsAnswered ==
  \A i \in Operation : op[i].accepted # NoFd => op[i].phase = "answered" /\ op[i].kind = "accept"

OwnInv == Typed /\ HeldOnce /\ OpenIsHeld /\ AcceptedIsAnswered

\* A descriptor names a file that exists, and no file has two descriptors.
FilesSound ==
  /\ \A d \in Fd : table[d] # NoFile => state[table[d]] # "none"
  /\ \A d, e \in Fd : table[d] # NoFile /\ table[d] = table[e] => d = e

\* From its answer to its completion a connect finds its socket as the answer left it.
ConnectSound ==
  \A i \in Operation :
    op[i].kind = "connect" /\ op[i].phase = "answered" =>
      /\ op[i].socket \in Fd /\ table[op[i].socket] # NoFile
      /\ op[i].outcome = "ok" => state[table[op[i].socket]] = "connected"

FileInv == Typed /\ FilesSound /\ ConnectSound

-----------------------------------------------------------------------------
(* What the actions on files and operations leave.                         *)

\* A call on an open file leaves the files of other descriptors open, and those that
\* are connected so; d is the descriptor it makes, if any.
Left(d) ==
  /\ state' \in [File -> FileStates] /\ inbox' \in [File -> {"none", "some", "end"}]
  /\ table' \in [Fd -> File \cup {NoFile}]
  /\ d = NoFd => table' = table
  /\ d # NoFd => /\ d \in Fd /\ table[d] = NoFile
                 /\ \E g \in File : /\ state[g] = "none" /\ state'[g] # "none"
                                    /\ table' = [table EXCEPT ![d] = g]
  /\ \A e \in Fd : table[e] # NoFile =>
       /\ state[table[e]] # "none" => state'[table[e]] # "none"
       /\ state[table[e]] = "connected" => state'[table[e]] = "connected"

OpRecord ==
  [phase : {"idle", "made", "flying", "answered", "done"},
   kind : IoKinds \cup {"none"}, target : Object \cup {NoObject}, socket : Fd \cup {NoFd},
   file : File \cup {NoFile}, asked : BOOLEAN, outcome : Outcomes, accepted : Fd \cup {NoFd}]

\* Only i among the operations changes.
Replaced(i) ==
  /\ op' \in [Operation -> OpRecord]
  /\ \A j \in Operation \ {i} : op'[j] = op[j]

LEMMA ReplaceOp ==
  ASSUME TypeOK, NEW i \in Operation, NEW r \in OpRecord, op' = [op EXCEPT ![i] = r]
  PROVE  Replaced(i) /\ op'[i] = r
  <1>1. op \in [Operation -> OpRecord]
    BY DEF TypeOK, OpRecord
  <1> QED
    BY <1>1 DEF Replaced

LEMMA AnswerRecord ==
  ASSUME NEW r \in OpRecord, NEW outcome \in Outcomes, NEW d \in Fd \cup {NoFd}
  PROVE  /\ [r EXCEPT !.phase = "answered", !.outcome = outcome, !.accepted = d] \in OpRecord
         /\ [r EXCEPT !.phase = "answered", !.outcome = outcome] \in OpRecord
  BY DEF OpRecord

LEMMA AcceptLeaves ==
  ASSUME TypeOK, NEW i, NEW f \in File, NEW outcome, NEW d \in Fd \cup {NoFd},
         AcceptCall(i, f, outcome, d)
  PROVE  Left(d) /\ (outcome = "again" => d = NoFd)
  <1> USE SocketsAssumption DEF TypeOK, FileStates, FreeFds, FreeFiles
  <1>1. CASE d = NoFd
    <2>1. Same(i, f)
      BY <1>1 DEF AcceptCall
    <2> QED
      BY <1>1, <2>1 DEF Same, Effect, Left
  <1>2. CASE d # NoFd
    <2>1. /\ d \in Fd /\ table[d] = NoFile /\ outcome = "ok"
          /\ state[f] = "listening"
      BY <1>2 DEF AcceptCall
    <2>2. PICK g \in File :
            /\ state[g] = "none" /\ table' = [table EXCEPT ![d] = g]
            /\ \E s \in {"listening", "none"} :
                 /\ state' = [state EXCEPT ![g] = "connected", ![f] = s]
                 /\ (\E e \in Fd : table[e] = f) => s = "listening"
            /\ inbox' = [inbox EXCEPT ![f] = "none"]
      BY <1>2, <2>1 DEF AcceptCall
    <2>3. g # f
      BY <2>1, <2>2
    <2>4. table' \in [Fd -> File \cup {NoFile}] /\ inbox' \in [File -> {"none", "some", "end"}]
      BY <2>2
    <2>5. state' \in [File -> FileStates] /\ state'[g] = "connected"
      BY <2>2, <2>3
    <2>6. ASSUME NEW e \in Fd, table[e] # NoFile
          PROVE  /\ state[table[e]] # "none" => state'[table[e]] # "none"
                 /\ state[table[e]] = "connected" => state'[table[e]] = "connected"
      <3>1. CASE table[e] = f
        BY <2>1, <2>2, <2>3, <2>6, <3>1
      <3>2. CASE table[e] # f
        BY <2>2, <2>5, <2>6, <3>2
      <3> QED
        BY <3>1, <3>2
    <2> QED
      BY <1>2, <2>1, <2>2, <2>4, <2>5, <2>6 DEF Left
  <1> QED
    BY <1>1, <1>2

LEMMA TransferLeaves ==
  ASSUME TypeOK, NEW i, NEW f \in File, NEW outcome,
         ReceiveCall(i, f, outcome) \/ SendCall(i, f, outcome)
  PROVE  Left(NoFd)
  <1>1. PICK s \in FileStates, b \in {"none", "some", "end"} :
          /\ Effect(i, f, s, b) /\ s # "none" /\ (state[f] = "connected" => s = "connected")
    BY DEF ReceiveCall, SendCall, Same, FileStates, TypeOK
  <1>2. table' = table
    BY DEF ReceiveCall, SendCall
  <1> QED
    BY <1>1, <1>2, SocketsAssumption DEF Effect, Left, TypeOK, FileStates

LEMMA ConnectLeaves ==
  ASSUME NEW s, NEW s1, NEW outcome, ConnectCall(s, s1, outcome)
  PROVE  /\ s # "none" /\ s1 # "none" /\ s1 \in FileStates
         /\ s = "connected" => s1 = "connected"
         /\ outcome = "ok" => s1 = "connected"
  BY DEF ConnectCall, Handshake, FileStates

LEMMA DirectEffect ==
  ASSUME TypeOK, NEW o \in Object, CallDirectly(o)
  PROVE  /\ \E d \in Fd \cup {NoFd} : Left(d) /\ hand' = hand \cup ({d} \ {NoFd})
         /\ UNCHANGED <<handle, dropped, op>>
  <1> DEFINE f == FileOf(handle[o])
  <1>1. f \in File
    BY DEF CallDirectly, FileOf, TypeOK
  <1> HIDE DEF f
  <1>2. CASE \E outcome \in {"ok", "again", "error"}, d \in Fd \cup {NoFd} :
               AcceptCall(o, f, outcome, d) /\ hand' = hand \cup ({d} \ {NoFd})
    BY <1>1, <1>2, AcceptLeaves DEF CallDirectly
  <1>3. CASE /\ hand' = hand
             /\ \E outcome \in {"ok", "eof", "again", "error"} :
                  ReceiveCall(o, f, outcome) \/ SendCall(o, f, outcome)
    <2>1. Left(NoFd)
      BY <1>1, <1>3, TransferLeaves
    <2>2. hand' = hand \cup ({NoFd} \ {NoFd})
      BY <1>3
    <2> QED
      BY <2>1, <2>2 DEF CallDirectly
  <1>4. CASE /\ UNCHANGED <<hand, table, inbox>>
             /\ \E s \in FileStates, outcome \in {"ok", "again", "error"} :
                  ConnectCall(state[f], s, outcome) /\ state' = [state EXCEPT ![f] = s]
    <2>1. PICK s \in FileStates : /\ s # "none" /\ (state[f] = "connected" => s = "connected")
                                  /\ state' = [state EXCEPT ![f] = s]
      BY <1>4, ConnectLeaves
    <2>2. Left(NoFd)
      BY <1>1, <1>4, <2>1, SocketsAssumption DEF Left, TypeOK, FileStates
    <2>3. hand' = hand \cup ({NoFd} \ {NoFd})
      BY <1>4
    <2> QED
      BY <2>2, <2>3 DEF CallDirectly
  <1> QED
    BY <1>2, <1>3, <1>4 DEF CallDirectly, f

LEMMA FinishedFacts ==
  ASSUME NEW i \in Operation, NEW outcome \in Outcomes
  PROVE  /\ Finished(i, outcome) \in OpRecord
         /\ Finished(i, outcome).accepted = NoFd
         /\ Finished(i, outcome).phase \in {"idle", "done"}
         /\ Finished(i, outcome).phase = "done" =>
              op[i].kind = "connect" /\ Finished(i, outcome).outcome = outcome
  BY DEF Finished, Fresh, IoKinds, Outcomes, OpRecord

LEMMA RequestedFacts ==
  ASSUME Typed, NEW i \in Operation, op[i].phase = "made",
         NEW phase \in {"flying", "answered"}, NEW outcome \in Outcomes
  PROVE  /\ Requested(i, phase, outcome) \in OpRecord
         /\ Requested(i, phase, outcome).accepted = op[i].accepted
         /\ Requested(i, phase, outcome).phase = phase
         /\ Requested(i, phase, outcome).kind = op[i].kind
         /\ Requested(i, phase, outcome).outcome = outcome
         /\ Requested(i, phase, outcome).socket = handle[op[i].target]
         /\ Requested(i, phase, outcome).file = FileOf(handle[op[i].target])
  <1>1. /\ handle[op[i].target] \in Fd \cup {NoFd}
        /\ FileOf(handle[op[i].target]) \in File \cup {NoFile}
    BY DEF Typed, TypeOK, FileOf
  <1> QED
    BY <1>1 DEF Typed, TypeOK, Requested, RefreshBinding, OpRecord

LEMMA SubmitEffect ==
  ASSUME Typed, NEW i \in Operation, Submit(i)
  PROVE  /\ op[i].phase = "made" /\ op[i].kind # "connect"
         /\ \E d \in Fd \cup {NoFd} : Left(d) /\ hand' = hand \cup ({d} \ {NoFd})
         /\ UNCHANGED <<handle, dropped>>
         /\ Replaced(i) /\ op'[i].accepted \in {NoFd, op[i].accepted}
         /\ op'[i].phase \in {"idle", "flying"}
         /\ op'[i].phase = "flying" => /\ op'[i].file = FileOf(handle[op[i].target])
                                       /\ op'[i].file \in File /\ op'[i].kind = op[i].kind
  <1> DEFINE f == FileOf(handle[op[i].target])
  <1>1. /\ op[i].phase = "made" /\ op[i].kind # "connect" /\ f # NoFile
        /\ UNCHANGED <<handle, dropped>>
    BY DEF Submit
  <1>2. f \in File
    BY <1>1 DEF FileOf, Typed, TypeOK
  <1>3. PICK outcome \in {"ok", "eof", "error", "again"}, d \in Fd \cup {NoFd} :
          /\ \/ op[i].kind = "accept" /\ AcceptCall(i, f, outcome, d)
             \/ op[i].kind = "receive" /\ d = NoFd /\ ReceiveCall(i, f, outcome)
             \/ op[i].kind = "send" /\ d = NoFd /\ SendCall(i, f, outcome)
          /\ op' = [op EXCEPT ![i] = IF outcome = "again" THEN Requested(i, "flying", "none")
                                                          ELSE Finished(i, outcome)]
          /\ hand' = hand \cup ({d} \ {NoFd})
    BY DEF Submit
  <1>4. Left(d)
    BY <1>2, <1>3, AcceptLeaves, TransferLeaves DEF Typed
  <1>5. CASE outcome = "again"
    <2>1. op' = [op EXCEPT ![i] = Requested(i, "flying", "none")]
      BY <1>3, <1>5
    <2>2. "none" \in Outcomes
      BY DEF Outcomes
    <2>3. op'[i] = Requested(i, "flying", "none") /\ Replaced(i)
      <3>1. Requested(i, "flying", "none") \in OpRecord /\ TypeOK
        BY <1>1, <2>2, RequestedFacts DEF Typed
      <3> QED
        BY <2>1, <3>1, ReplaceOp
    <2> QED
      BY <1>1, <1>2, <1>3, <1>4, <2>2, <2>3, RequestedFacts
  <1>6. CASE outcome # "again"
    <2>1. op' = [op EXCEPT ![i] = Finished(i, outcome)]
      BY <1>3, <1>6
    <2>2. outcome \in Outcomes
      BY <1>3, <1>6 DEF Outcomes
    <2>3. op'[i] = Finished(i, outcome) /\ Replaced(i)
      BY <2>1, <2>2, FinishedFacts, ReplaceOp DEF Typed
    <2> QED
      BY <1>1, <1>2, <1>3, <1>4, <2>2, <2>3, FinishedFacts
  <1> QED
    BY <1>5, <1>6

LEMMA SubmitConnectEffect ==
  ASSUME Typed, NEW i \in Operation, SubmitConnect(i)
  PROVE  /\ op[i].phase = "made" /\ op[i].kind = "connect"
         /\ UNCHANGED <<handle, hand, dropped, table, inbox>> /\ Left(NoFd)
         /\ Replaced(i) /\ op'[i].accepted \in {NoFd, op[i].accepted}
         /\ op'[i].phase \in {"idle", "done", "answered"}
         /\ op'[i].phase = "answered" =>
              /\ op'[i].kind = "connect" /\ op'[i].file = FileOf(handle[op[i].target])
              /\ op'[i].socket \in Fd /\ table[op'[i].socket] # NoFile
              /\ op'[i].outcome = "ok" => state'[table[op'[i].socket]] = "connected"
  <1> DEFINE f == FileOf(handle[op[i].target])
  <1>1. /\ op[i].phase = "made" /\ op[i].kind = "connect" /\ f # NoFile
        /\ UNCHANGED <<handle, hand, dropped, table, inbox>>
    BY DEF SubmitConnect
  <1>2. f \in File /\ handle[op[i].target] \in Fd /\ f = table[handle[op[i].target]]
    BY <1>1 DEF FileOf, Typed, TypeOK
  <1>3. PICK s \in FileStates, outcome \in {"ok", "error", "again"} :
          /\ ConnectCall(state[f], s, outcome)
          /\ IF outcome # "again"
               THEN /\ op' = [op EXCEPT ![i] = Finished(i, outcome)]
                    /\ state' = [state EXCEPT ![f] = s]
               ELSE \E s1 \in FileStates, answer \in {"ok", "error", "again"} :
                      /\ ConnectCall(s, s1, answer)
                      /\ op' = [op EXCEPT ![i] = Requested(i, "answered",
                                  IF answer = "again" THEN "EALREADY" ELSE answer)]
                      /\ state' = [state EXCEPT ![f] = s, ![f] = s1]
    BY DEF SubmitConnect, RefreshBinding
  <1>4. CASE outcome # "again"
    <2>1. /\ op' = [op EXCEPT ![i] = Finished(i, outcome)] /\ outcome \in Outcomes
          /\ state' = [state EXCEPT ![f] = s]
      BY <1>3, <1>4 DEF Outcomes
    <2>2. op'[i] = Finished(i, outcome) /\ Replaced(i)
      BY <2>1, FinishedFacts, ReplaceOp DEF Typed
    <2>3. Left(NoFd)
      BY <1>1, <1>2, <1>3, <2>1, ConnectLeaves, SocketsAssumption, ZenonT(30) DEF Left, Typed,
         TypeOK, FileStates
    <2> QED
      BY <1>1, <2>1, <2>2, <2>3, FinishedFacts
  <1>5. CASE outcome = "again"
    <2>1. PICK s1 \in FileStates, answer \in {"ok", "error", "again"} :
            /\ ConnectCall(s, s1, answer)
            /\ op' = [op EXCEPT ![i] = Requested(i, "answered",
                        IF answer = "again" THEN "EALREADY" ELSE answer)]
            /\ state' = [state EXCEPT ![f] = s, ![f] = s1]
      BY <1>3, <1>5
    <2> DEFINE r == IF answer = "again" THEN "EALREADY" ELSE answer
    <2>2. r \in Outcomes /\ (r = "ok" => answer = "ok")
      BY DEF Outcomes
    <2> HIDE DEF r
    <2>3. op' = [op EXCEPT ![i] = Requested(i, "answered", r)]
      BY <2>1 DEF r
    <2>4. op'[i] = Requested(i, "answered", r) /\ Replaced(i)
      BY <1>1, <2>2, <2>3, RequestedFacts, ReplaceOp, ZenonT(30) DEF Typed
    <2>5. /\ s1 # "none" /\ (state[f] = "connected" => s1 = "connected")
          /\ answer = "ok" => s1 = "connected"
      BY <1>3, <2>1, ConnectLeaves
    <2>6. state' \in [File -> FileStates] /\ state'[f] = s1 /\ \A g \in File \ {f} : state'[g] = state[g]
      BY <1>2, <2>1 DEF Typed, TypeOK
    <2>7. Left(NoFd)
      BY <1>1, <1>2, <2>5, <2>6, SocketsAssumption DEF Left, Typed, TypeOK
    <2>8. op'[i].outcome = r /\ op'[i].socket = handle[op[i].target] /\ op'[i].phase = "answered"
          /\ op'[i].kind = "connect" /\ op'[i].accepted = op[i].accepted
          /\ op'[i].file = FileOf(handle[op[i].target])
      BY <1>1, <2>2, <2>4, RequestedFacts
    <2> QED
      BY <1>1, <1>2, <2>2, <2>4, <2>5, <2>6, <2>7, <2>8
  <1> QED
    BY <1>4, <1>5

LEMMA CompleteConnectEffect ==
  ASSUME Typed, NEW i \in Operation, CompleteConnect(i)
  PROVE  /\ op[i].phase = "answered" /\ op[i].kind = "connect"
         /\ UNCHANGED <<handle, hand, dropped, table, inbox>> /\ Left(NoFd)
         /\ Replaced(i) /\ op'[i].accepted = NoFd /\ op'[i].phase \in {"idle", "done"}
         /\ LET g == FileOf(op[i].socket) IN
              op'[i].phase = "done" =>
                (op'[i].outcome = "ok"
                   <=> op[i].outcome = "ok" /\ g # NoFile /\ state[g] # "refused")
  <1> DEFINE g == FileOf(op[i].socket)
  <1>1. /\ op[i].phase = "answered" /\ op[i].kind = "connect"
        /\ UNCHANGED <<handle, hand, dropped, table, inbox>>
    BY DEF CompleteConnect
  <1>2. g # NoFile => g \in File
    BY DEF FileOf, Typed, TypeOK
  <1>3. PICK outcome \in Outcomes :
          /\ op' = [op EXCEPT ![i] = Finished(i, outcome)]
          /\ outcome = "ok" <=> op[i].outcome = "ok" /\ g # NoFile /\ state[g] # "refused"
    <2>1. CASE op[i].outcome # "ok"
      <3>1. PICK x \in {"in_progress", "error"} : op' = [op EXCEPT ![i] = Finished(i, x)]
        BY <2>1 DEF CompleteConnect
      <3> QED
        BY <2>1, <3>1 DEF Outcomes
    <2>2. CASE op[i].outcome = "ok"
      <3>1. CASE g # NoFile /\ state[g] # "refused"
        BY <2>2, <3>1 DEF CompleteConnect, Outcomes
      <3>2. CASE ~(g # NoFile /\ state[g] # "refused")
        <4>1. op' = [op EXCEPT ![i] = Finished(i, "error")]
          BY <2>2, <3>2 DEF CompleteConnect
        <4> QED
          BY <3>2, <4>1 DEF Outcomes
      <3> QED
        BY <3>1, <3>2
    <2> QED
      BY <2>1, <2>2
  <1>4. state' = state \/ (g # NoFile /\ state[g] = "refused" /\ state' = [state EXCEPT ![g] = "fresh"])
    BY DEF CompleteConnect
  <1>5. Left(NoFd)
    BY <1>1, <1>2, <1>4, SocketsAssumption DEF Left, Typed, TypeOK, FileStates
  <1>6. op'[i] = Finished(i, outcome) /\ Replaced(i)
    BY <1>3, FinishedFacts, ReplaceOp DEF Typed
  <1> QED
    BY <1>1, <1>3, <1>5, <1>6, FinishedFacts

LEMMA AnswerEffect ==
  ASSUME Typed, NEW i \in Operation, Answer(i) \/ AnswerCanceled(i)
  PROVE  /\ op[i].phase = "flying" /\ op[i].kind # "connect"
         /\ UNCHANGED <<handle, hand, dropped>>
         /\ Replaced(i) /\ op'[i].phase = "answered" /\ op'[i].kind = op[i].kind
         /\ \E d \in Fd \cup {NoFd} :
              /\ Left(d) /\ (d # NoFd => op[i].kind = "accept" /\ op'[i].accepted = d)
              /\ d = NoFd => op'[i].accepted \in {NoFd, op[i].accepted}
  <1>1. /\ op[i].phase = "flying" /\ op[i].kind # "connect" /\ op[i].file \in File
        /\ UNCHANGED <<handle, hand, dropped>>
    BY DEF Answer, AnswerCanceled, Typed
  <1>2. CASE Answer(i)
    <2>1. PICK outcome \in {"ok", "eof", "error"}, d \in Fd \cup {NoFd} :
            /\ \/ op[i].kind = "accept" /\ AcceptCall(i, op[i].file, outcome, d)
               \/ op[i].kind = "receive" /\ d = NoFd /\ ReceiveCall(i, op[i].file, outcome)
               \/ op[i].kind = "send" /\ d = NoFd /\ SendCall(i, op[i].file, outcome)
            /\ op' = [op EXCEPT ![i].phase = "answered", ![i].outcome = outcome,
                                ![i].accepted = d]
      BY <1>2 DEF Answer
    <2>2. Left(d)
      BY <1>1, <2>1, AcceptLeaves, TransferLeaves DEF Typed
    <2>3. op'[i] = [op[i] EXCEPT !.phase = "answered", !.outcome = outcome, !.accepted = d]
      BY <2>1 DEF Typed, TypeOK
    <2>4. op' = [op EXCEPT ![i] = op'[i]]
      BY <2>1 DEF Typed, TypeOK
    <2>5. op'[i].phase = "answered" /\ op'[i].kind = op[i].kind /\ op'[i].accepted = d
      BY <2>3 DEF Typed, TypeOK
    <2>6. op'[i] \in OpRecord
      <3>1. op[i] \in OpRecord
        BY DEF Typed, TypeOK, OpRecord
      <3>2. outcome \in Outcomes
        BY <2>1 DEF Outcomes
      <3>3. d \in Fd \cup {NoFd}
        OBVIOUS
      <3>4. [op[i] EXCEPT !.phase = "answered", !.outcome = outcome, !.accepted = d] \in OpRecord
        BY <3>1, <3>2, <3>3, AnswerRecord, Zenon
      <3> QED
        BY ONLY <2>3, <3>4
    <2>7. Replaced(i)
      BY <2>4, <2>6, ReplaceOp DEF Typed
    <2> QED
      BY <1>1, <2>1, <2>2, <2>5, <2>7
  <1>3. CASE AnswerCanceled(i)
    <2>1. /\ Same(i, op[i].file)
          /\ op' = [op EXCEPT ![i].phase = "answered", ![i].outcome = "ECANCELED"]
      BY <1>3 DEF AnswerCanceled
    <2>2. Left(NoFd)
      BY <1>1, <2>1, SocketsAssumption DEF Same, Effect, Left, Typed, TypeOK, FileStates
    <2>3. op'[i] = [op[i] EXCEPT !.phase = "answered", !.outcome = "ECANCELED"]
      BY <2>1 DEF Typed, TypeOK
    <2>4. op' = [op EXCEPT ![i] = op'[i]]
      BY <2>1 DEF Typed, TypeOK
    <2>5. /\ op'[i].phase = "answered" /\ op'[i].kind = op[i].kind
          /\ op'[i].accepted = op[i].accepted
      BY <2>3 DEF Typed, TypeOK
    <2>6. op'[i] \in OpRecord
      <3>1. op[i] \in OpRecord /\ {"ok", "eof", "error", "ECANCELED"} \subseteq Outcomes
        BY DEF Typed, TypeOK, OpRecord, Outcomes
      <3> QED
        BY <2>1, <2>3, <3>1, AnswerRecord
    <2>7. Replaced(i)
      BY <2>4, <2>6, ReplaceOp DEF Typed
    <2> QED
      BY <1>1, <2>2, <2>5, <2>7
  <1> QED
    BY <1>2, <1>3

-----------------------------------------------------------------------------
(* Types.                                                                  *)

\* The calls keep the tables and the operations well-formed.
LEMMA TypeStep ==
  ASSUME Typed, [Next]_vars
  PROVE  Typed'
  <1> USE SocketsAssumption DEF Typed, TypeOK, Object, IoKinds, FileStates, Outcomes,
               Fresh,
               Overwrite, CloseFd, FreeFds, FreeFiles, FileOf, Finished, Requested,
               RefreshBinding,
               Handshake
  <1>1. ASSUME NEW o \in Object, Open(o) PROVE Typed'
    BY <1>1 DEF Open
  <1>2. ASSUME NEW o \in Object, Close(o) PROVE Typed'
    BY <1>2 DEF Close
  <1>3. ASSUME NEW o \in Object, ReleaseSocket(o) PROVE Typed'
    BY <1>3 DEF ReleaseSocket
  <1>4. ASSUME NEW o \in Object, Reset(o) PROVE Typed'
    BY <1>4 DEF Reset
  <1>5. ASSUME NEW o \in Object, Discard(o) PROVE Typed'
    BY <1>5 DEF Discard
  <1>6. ASSUME NEW o \in Object, Listen(o) PROVE Typed'
    BY <1>6 DEF Listen
  <1>7. ASSUME NEW o \in Object, Shutdown(o) PROVE Typed'
    BY <1>7 DEF Shutdown
  <1>8. ASSUME NEW o \in Object, CallDirectly(o) PROVE Typed'
    BY <1>8, DirectEffect DEF Left, Replaced, OpRecord
  <1>9. ASSUME NEW o \in Object, NEW p \in Object, Move(o, p) PROVE Typed'
    BY <1>9 DEF Move
  <1>10. ASSUME NEW i \in Operation, NEW o \in Object, NEW k \in Kind, Make(i, o, k) PROVE Typed'
    BY <1>10 DEF Make
  <1>11. ASSUME NEW i \in Operation, SubmitInvalid(i) PROVE Typed'
    BY <1>11 DEF SubmitInvalid
  <1>12. ASSUME NEW i \in Operation, Submit(i) PROVE Typed'
    BY <1>12, SubmitEffect, SMTT(30) DEF Left, Replaced, OpRecord
  <1>13. ASSUME NEW i \in Operation, SubmitConnect(i) PROVE Typed'
    BY <1>13, SubmitConnectEffect DEF Left, Replaced, OpRecord
  <1>14. ASSUME NEW i \in Operation, RequestCancel(i) PROVE Typed'
    <2>1. op'[i] = [op[i] EXCEPT !.asked = TRUE] /\ \A j \in Operation \ {i} : op'[j] = op[j]
      BY <1>14 DEF RequestCancel
    <2>2. op' \in [Operation -> OpRecord]
      <3>1. op' = [op EXCEPT ![i] = [op[i] EXCEPT !.asked = TRUE]]
        BY <1>14 DEF RequestCancel
      <3>2. op[i] \in OpRecord /\ op \in [Operation -> OpRecord]
        BY DEF OpRecord
      <3>3. ASSUME NEW r \in OpRecord PROVE [r EXCEPT !.asked = TRUE] \in OpRecord
        BY ONLY <3>3 DEF OpRecord
      <3>4. [op[i] EXCEPT !.asked = TRUE] \in OpRecord
        BY <3>2, <3>3, Zenon
      <3> QED
        BY ONLY <3>1, <3>2, <3>4
    <2>3. op'[i].phase = "flying" /\ op'[i].file = op[i].file /\ op'[i].kind = op[i].kind
      BY <1>14, <2>1 DEF RequestCancel
    <2> QED
      BY <1>14, <2>1, <2>2, <2>3 DEF RequestCancel, OpRecord
  <1>15. ASSUME NEW i \in Operation, CompleteAccept(i) PROVE Typed'
    BY <1>15 DEF CompleteAccept
  <1>16. ASSUME NEW i \in Operation, CompleteTransfer(i) PROVE Typed'
    BY <1>16 DEF CompleteTransfer
  <1>17. ASSUME NEW i \in Operation, CompleteConnect(i) PROVE Typed'
    BY <1>17, CompleteConnectEffect DEF Left, Replaced, OpRecord
  <1>18. ASSUME NEW i \in Operation, Answer(i) PROVE Typed'
    BY <1>18, AnswerEffect DEF Left, Replaced, OpRecord
  <1>19. ASSUME NEW i \in Operation, AnswerCanceled(i) PROVE Typed'
    BY <1>19, AnswerEffect DEF Left, Replaced, OpRecord
  <1>20. ASSUME NEW f \in File, Arrive(f) PROVE Typed'
    BY <1>20 DEF Arrive
  <1>21. ASSUME NEW f \in File, FinishHandshake(f) PROVE Typed'
    BY <1>21 DEF FinishHandshake
  <1>22. ASSUME UNCHANGED vars PROVE Typed'
    BY <1>22 DEF vars
  <1> QED
    BY <1>1, <1>2, <1>3, <1>4, <1>5, <1>6, <1>7, <1>8, <1>9, <1>10, <1>11, <1>12, <1>13,
       <1>14, <1>15, <1>16, <1>17, <1>18, <1>19, <1>20, <1>21, <1>22 DEF Next, Object

-----------------------------------------------------------------------------
(* Ownership.                                                              *)

\* An operation gets a descriptor only when its accept is answered.
LEMMA AcceptedStep ==
  ASSUME OwnInv, [Next]_vars
  PROVE  AcceptedIsAnswered'
  <1> USE SocketsAssumption DEF Typed, TypeOK, Object, IoKinds, FileStates, Outcomes,
               Fresh,
               Overwrite, CloseFd, FreeFds, FreeFiles, FileOf, Finished, Requested,
               RefreshBinding,
               Handshake, OwnInv, AcceptedIsAnswered
  <1>1. ASSUME NEW o \in Object, Open(o) PROVE AcceptedIsAnswered'
    BY <1>1 DEF Open
  <1>2. ASSUME NEW o \in Object, Close(o) PROVE AcceptedIsAnswered'
    BY <1>2 DEF Close
  <1>3. ASSUME NEW o \in Object, ReleaseSocket(o) PROVE AcceptedIsAnswered'
    BY <1>3 DEF ReleaseSocket
  <1>4. ASSUME NEW o \in Object, Reset(o) PROVE AcceptedIsAnswered'
    BY <1>4 DEF Reset
  <1>5. ASSUME NEW o \in Object, Discard(o) PROVE AcceptedIsAnswered'
    BY <1>5 DEF Discard
  <1>6. ASSUME NEW o \in Object, Listen(o) PROVE AcceptedIsAnswered'
    BY <1>6 DEF Listen
  <1>7. ASSUME NEW o \in Object, Shutdown(o) PROVE AcceptedIsAnswered'
    BY <1>7 DEF Shutdown
  <1>8. ASSUME NEW o \in Object, CallDirectly(o) PROVE AcceptedIsAnswered'
    BY <1>8, DirectEffect DEF Replaced
  <1>9. ASSUME NEW o \in Object, NEW p \in Object, Move(o, p) PROVE AcceptedIsAnswered'
    BY <1>9 DEF Move
  <1>10. ASSUME NEW i \in Operation, NEW o \in Object, NEW k \in Kind, Make(i, o, k) PROVE AcceptedIsAnswered'
    BY <1>10 DEF Make
  <1>11. ASSUME NEW i \in Operation, SubmitInvalid(i) PROVE AcceptedIsAnswered'
    BY <1>11 DEF SubmitInvalid
  <1>12. ASSUME NEW i \in Operation, Submit(i) PROVE AcceptedIsAnswered'
    BY <1>12, SubmitEffect DEF Replaced
  <1>13. ASSUME NEW i \in Operation, SubmitConnect(i) PROVE AcceptedIsAnswered'
    BY <1>13, SubmitConnectEffect DEF Replaced
  <1>14. ASSUME NEW i \in Operation, RequestCancel(i) PROVE AcceptedIsAnswered'
    BY <1>14 DEF RequestCancel
  <1>15. ASSUME NEW i \in Operation, CompleteAccept(i) PROVE AcceptedIsAnswered'
    BY <1>15 DEF CompleteAccept
  <1>16. ASSUME NEW i \in Operation, CompleteTransfer(i) PROVE AcceptedIsAnswered'
    BY <1>16 DEF CompleteTransfer
  <1>17. ASSUME NEW i \in Operation, CompleteConnect(i) PROVE AcceptedIsAnswered'
    BY <1>17, CompleteConnectEffect DEF Replaced
  <1>18. ASSUME NEW i \in Operation, Answer(i) PROVE AcceptedIsAnswered'
    BY <1>18, AnswerEffect DEF Replaced
  <1>19. ASSUME NEW i \in Operation, AnswerCanceled(i) PROVE AcceptedIsAnswered'
    BY <1>19, AnswerEffect DEF Replaced
  <1>20. ASSUME NEW f \in File, Arrive(f) PROVE AcceptedIsAnswered'
    BY <1>20 DEF Arrive
  <1>21. ASSUME NEW f \in File, FinishHandshake(f) PROVE AcceptedIsAnswered'
    BY <1>21 DEF FinishHandshake
  <1>22. ASSUME UNCHANGED vars PROVE AcceptedIsAnswered'
    BY <1>22 DEF vars
  <1> QED
    BY <1>1, <1>2, <1>3, <1>4, <1>5, <1>6, <1>7, <1>8, <1>9, <1>10, <1>11, <1>12, <1>13,
       <1>14, <1>15, <1>16, <1>17, <1>18, <1>19, <1>20, <1>21, <1>22 DEF Next, Object

\* What one holder takes, the one it takes it from loses.
LEMMA HeldStep ==
  ASSUME OwnInv, [Next]_vars
  PROVE  HeldOnce'
  <1> USE SocketsAssumption DEF Typed, TypeOK, Object, IoKinds, FileStates, Outcomes,
               Fresh,
               Overwrite, CloseFd, FreeFds, FreeFiles, FileOf, Finished, Requested,
               RefreshBinding,
               Handshake, OwnInv, AcceptedIsAnswered, HeldOnce, OpenIsHeld
  <1>1. ASSUME NEW o \in Object, Open(o) PROVE HeldOnce'
    BY <1>1 DEF Open
  <1>2. ASSUME NEW o \in Object, Close(o) PROVE HeldOnce'
    BY <1>2 DEF Close
  <1>3. ASSUME NEW o \in Object, ReleaseSocket(o) PROVE HeldOnce'
    BY <1>3 DEF ReleaseSocket
  <1>4. ASSUME NEW o \in Object, Reset(o) PROVE HeldOnce'
    BY <1>4 DEF Reset
  <1>5. ASSUME NEW o \in Object, Discard(o) PROVE HeldOnce'
    BY <1>5 DEF Discard
  <1>6. ASSUME NEW o \in Object, Listen(o) PROVE HeldOnce'
    BY <1>6 DEF Listen
  <1>7. ASSUME NEW o \in Object, Shutdown(o) PROVE HeldOnce'
    BY <1>7 DEF Shutdown
  <1>8. ASSUME NEW o \in Object, CallDirectly(o) PROVE HeldOnce'
    BY <1>8, DirectEffect DEF Left, Replaced
  <1>9. ASSUME NEW o \in Object, NEW p \in Object, Move(o, p) PROVE HeldOnce'
    BY <1>9 DEF Move
  <1>10. ASSUME NEW i \in Operation, NEW o \in Object, NEW k \in Kind, Make(i, o, k) PROVE HeldOnce'
    BY <1>10 DEF Make
  <1>11. ASSUME NEW i \in Operation, SubmitInvalid(i) PROVE HeldOnce'
    BY <1>11 DEF SubmitInvalid
  <1>12. ASSUME NEW i \in Operation, Submit(i) PROVE HeldOnce'
    BY <1>12, SubmitEffect, SMTT(30) DEF Left, Replaced
  <1>13. ASSUME NEW i \in Operation, SubmitConnect(i) PROVE HeldOnce'
    BY <1>13, SubmitConnectEffect, SMTT(30) DEF Left, Replaced
  <1>14. ASSUME NEW i \in Operation, RequestCancel(i) PROVE HeldOnce'
    BY <1>14 DEF RequestCancel
  <1>15. ASSUME NEW i \in Operation, CompleteAccept(i) PROVE HeldOnce'
    BY <1>15 DEF CompleteAccept
  <1>16. ASSUME NEW i \in Operation, CompleteTransfer(i) PROVE HeldOnce'
    BY <1>16 DEF CompleteTransfer
  <1>17. ASSUME NEW i \in Operation, CompleteConnect(i) PROVE HeldOnce'
    BY <1>17, CompleteConnectEffect DEF Left, Replaced
  <1>18. ASSUME NEW i \in Operation, Answer(i) PROVE HeldOnce'
    BY <1>18, AnswerEffect, SMTT(30) DEF Left, Replaced
  <1>19. ASSUME NEW i \in Operation, AnswerCanceled(i) PROVE HeldOnce'
    BY <1>19, AnswerEffect DEF Left, Replaced
  <1>20. ASSUME NEW f \in File, Arrive(f) PROVE HeldOnce'
    BY <1>20 DEF Arrive
  <1>21. ASSUME NEW f \in File, FinishHandshake(f) PROVE HeldOnce'
    BY <1>21 DEF FinishHandshake
  <1>22. ASSUME UNCHANGED vars PROVE HeldOnce'
    BY <1>22 DEF vars
  <1> QED
    BY <1>1, <1>2, <1>3, <1>4, <1>5, <1>6, <1>7, <1>8, <1>9, <1>10, <1>11, <1>12, <1>13,
       <1>14, <1>15, <1>16, <1>17, <1>18, <1>19, <1>20, <1>21, <1>22 DEF Next, Object

\* A number the kernel gives out gets a holder, one it takes back has none left.
LEMMA OpenStep ==
  ASSUME OwnInv, ~CloseFails, [Next]_vars
  PROVE  OpenIsHeld'
  <1> USE SocketsAssumption DEF Typed, TypeOK, Object, IoKinds, FileStates, Outcomes,
               Fresh,
               Overwrite, CloseFd, FreeFds, FreeFiles, FileOf, Finished, Requested,
               RefreshBinding,
               Handshake, OwnInv, AcceptedIsAnswered, HeldOnce, OpenIsHeld
  <1>1. ASSUME NEW o \in Object, Open(o) PROVE OpenIsHeld'
    BY <1>1 DEF Open
  <1>2. ASSUME NEW o \in Object, Close(o) PROVE OpenIsHeld'
    BY <1>2 DEF Close
  <1>3. ASSUME NEW o \in Object, ReleaseSocket(o) PROVE OpenIsHeld'
    BY <1>3 DEF ReleaseSocket
  <1>4. ASSUME NEW o \in Object, Reset(o) PROVE OpenIsHeld'
    BY <1>4 DEF Reset
  <1>5. ASSUME NEW o \in Object, Discard(o) PROVE OpenIsHeld'
    BY <1>5 DEF Discard
  <1>6. ASSUME NEW o \in Object, Listen(o) PROVE OpenIsHeld'
    BY <1>6 DEF Listen
  <1>7. ASSUME NEW o \in Object, Shutdown(o) PROVE OpenIsHeld'
    BY <1>7 DEF Shutdown
  <1>8. ASSUME NEW o \in Object, CallDirectly(o) PROVE OpenIsHeld'
    BY <1>8, DirectEffect DEF Left, Replaced
  <1>9. ASSUME NEW o \in Object, NEW p \in Object, Move(o, p) PROVE OpenIsHeld'
    BY <1>9 DEF Move
  <1>10. ASSUME NEW i \in Operation, NEW o \in Object, NEW k \in Kind, Make(i, o, k) PROVE OpenIsHeld'
    BY <1>10 DEF Make
  <1>11. ASSUME NEW i \in Operation, SubmitInvalid(i) PROVE OpenIsHeld'
    BY <1>11 DEF SubmitInvalid
  <1>12. ASSUME NEW i \in Operation, Submit(i) PROVE OpenIsHeld'
    <2>1. PICK d \in Fd \cup {NoFd} : Left(d) /\ hand' = hand \cup ({d} \ {NoFd})
      BY <1>12, SubmitEffect
    <2>2. UNCHANGED <<handle, dropped>> /\ \A j \in Operation : op'[j].accepted = op[j].accepted
      BY <1>12, SubmitEffect DEF Replaced
    <2> QED
      BY <2>1, <2>2 DEF Left
  <1>13. ASSUME NEW i \in Operation, SubmitConnect(i) PROVE OpenIsHeld'
    BY <1>13, SubmitConnectEffect DEF Left, Replaced
  <1>14. ASSUME NEW i \in Operation, RequestCancel(i) PROVE OpenIsHeld'
    BY <1>14 DEF RequestCancel
  <1>15. ASSUME NEW i \in Operation, CompleteAccept(i) PROVE OpenIsHeld'
    BY <1>15 DEF CompleteAccept
  <1>16. ASSUME NEW i \in Operation, CompleteTransfer(i) PROVE OpenIsHeld'
    BY <1>16 DEF CompleteTransfer
  <1>17. ASSUME NEW i \in Operation, CompleteConnect(i) PROVE OpenIsHeld'
    BY <1>17, CompleteConnectEffect DEF Left, Replaced
  <1>18. ASSUME NEW i \in Operation, Answer(i) PROVE OpenIsHeld'
    BY <1>18, AnswerEffect DEF Left, Replaced
  <1>19. ASSUME NEW i \in Operation, AnswerCanceled(i) PROVE OpenIsHeld'
    BY <1>19, AnswerEffect DEF Left, Replaced
  <1>20. ASSUME NEW f \in File, Arrive(f) PROVE OpenIsHeld'
    BY <1>20 DEF Arrive
  <1>21. ASSUME NEW f \in File, FinishHandshake(f) PROVE OpenIsHeld'
    BY <1>21 DEF FinishHandshake
  <1>22. ASSUME UNCHANGED vars PROVE OpenIsHeld'
    BY <1>22 DEF vars
  <1> QED
    BY <1>1, <1>2, <1>3, <1>4, <1>5, <1>6, <1>7, <1>8, <1>9, <1>10, <1>11, <1>12, <1>13,
       <1>14, <1>15, <1>16, <1>17, <1>18, <1>19, <1>20, <1>21, <1>22 DEF Next, Object

-----------------------------------------------------------------------------
(* Files.                                                                  *)

\* A file is freed only when no descriptor names it.
LEMMA FilesStep ==
  ASSUME FileInv, [Next]_vars
  PROVE  FilesSound'
  <1> USE SocketsAssumption DEF Typed, TypeOK, Object, IoKinds, FileStates, Outcomes,
               Fresh,
               Overwrite, CloseFd, FreeFds, FreeFiles, FileOf, Finished, Requested,
               RefreshBinding,
               Handshake, FileInv, FilesSound
  <1>1. ASSUME NEW o \in Object, Open(o) PROVE FilesSound'
    BY <1>1 DEF Open
  <1>2. ASSUME NEW o \in Object, Close(o) PROVE FilesSound'
    BY <1>2 DEF Close
  <1>3. ASSUME NEW o \in Object, ReleaseSocket(o) PROVE FilesSound'
    BY <1>3 DEF ReleaseSocket
  <1>4. ASSUME NEW o \in Object, Reset(o) PROVE FilesSound'
    BY <1>4 DEF Reset
  <1>5. ASSUME NEW o \in Object, Discard(o) PROVE FilesSound'
    BY <1>5 DEF Discard
  <1>6. ASSUME NEW o \in Object, Listen(o) PROVE FilesSound'
    BY <1>6 DEF Listen
  <1>7. ASSUME NEW o \in Object, Shutdown(o) PROVE FilesSound'
    BY <1>7 DEF Shutdown
  <1>8. ASSUME NEW o \in Object, CallDirectly(o) PROVE FilesSound'
    BY <1>8, DirectEffect DEF Left, Replaced
  <1>9. ASSUME NEW o \in Object, NEW p \in Object, Move(o, p) PROVE FilesSound'
    BY <1>9 DEF Move
  <1>10. ASSUME NEW i \in Operation, NEW o \in Object, NEW k \in Kind, Make(i, o, k) PROVE FilesSound'
    BY <1>10 DEF Make
  <1>11. ASSUME NEW i \in Operation, SubmitInvalid(i) PROVE FilesSound'
    BY <1>11 DEF SubmitInvalid
  <1>12. ASSUME NEW i \in Operation, Submit(i) PROVE FilesSound'
    BY <1>12, SubmitEffect, SMTT(30) DEF Left, Replaced
  <1>13. ASSUME NEW i \in Operation, SubmitConnect(i) PROVE FilesSound'
    BY <1>13, SubmitConnectEffect DEF Left, Replaced
  <1>14. ASSUME NEW i \in Operation, RequestCancel(i) PROVE FilesSound'
    BY <1>14 DEF RequestCancel
  <1>15. ASSUME NEW i \in Operation, CompleteAccept(i) PROVE FilesSound'
    BY <1>15 DEF CompleteAccept
  <1>16. ASSUME NEW i \in Operation, CompleteTransfer(i) PROVE FilesSound'
    BY <1>16 DEF CompleteTransfer
  <1>17. ASSUME NEW i \in Operation, CompleteConnect(i) PROVE FilesSound'
    BY <1>17, CompleteConnectEffect DEF Left, Replaced
  <1>18. ASSUME NEW i \in Operation, Answer(i) PROVE FilesSound'
    BY <1>18, AnswerEffect, SMTT(30) DEF Left, Replaced
  <1>19. ASSUME NEW i \in Operation, AnswerCanceled(i) PROVE FilesSound'
    BY <1>19, AnswerEffect, SMTT(30) DEF Left, Replaced
  <1>20. ASSUME NEW f \in File, Arrive(f) PROVE FilesSound'
    BY <1>20 DEF Arrive
  <1>21. ASSUME NEW f \in File, FinishHandshake(f) PROVE FilesSound'
    BY <1>21 DEF FinishHandshake
  <1>22. ASSUME UNCHANGED vars PROVE FilesSound'
    BY <1>22 DEF vars
  <1> QED
    BY <1>1, <1>2, <1>3, <1>4, <1>5, <1>6, <1>7, <1>8, <1>9, <1>10, <1>11, <1>12, <1>13,
       <1>14, <1>15, <1>16, <1>17, <1>18, <1>19, <1>20, <1>21, <1>22 DEF Next, Object

\* Nobody closes the socket of a connect that has been answered, and it stays connected.
LEMMA ConnectStep ==
  ASSUME FileInv, "connect" \notin CloseUnder, [Next]_vars
  PROVE  ConnectSound'
  <1> USE SocketsAssumption DEF Typed, TypeOK, Object, IoKinds, FileStates, Outcomes,
               Fresh,
               Overwrite, CloseFd, FreeFds, FreeFiles, FileOf, Finished, Requested,
               RefreshBinding,
               Handshake, FileInv, FilesSound, ConnectSound
  <1>1. ASSUME NEW o \in Object, Open(o) PROVE ConnectSound'
    BY <1>1 DEF Open
  <1>2. ASSUME NEW o \in Object, Close(o) PROVE ConnectSound'
    BY <1>2 DEF Close
  <1>3. ASSUME NEW o \in Object, ReleaseSocket(o) PROVE ConnectSound'
    BY <1>3 DEF ReleaseSocket
  <1>4. ASSUME NEW o \in Object, Reset(o) PROVE ConnectSound'
    BY <1>4 DEF Reset
  <1>5. ASSUME NEW o \in Object, Discard(o) PROVE ConnectSound'
    BY <1>5 DEF Discard
  <1>6. ASSUME NEW o \in Object, Listen(o) PROVE ConnectSound'
    BY <1>6 DEF Listen
  <1>7. ASSUME NEW o \in Object, Shutdown(o) PROVE ConnectSound'
    BY <1>7 DEF Shutdown
  <1>8. ASSUME NEW o \in Object, CallDirectly(o) PROVE ConnectSound'
    BY <1>8, DirectEffect DEF Left, Replaced
  <1>9. ASSUME NEW o \in Object, NEW p \in Object, Move(o, p) PROVE ConnectSound'
    BY <1>9 DEF Move
  <1>10. ASSUME NEW i \in Operation, NEW o \in Object, NEW k \in Kind, Make(i, o, k) PROVE ConnectSound'
    BY <1>10 DEF Make
  <1>11. ASSUME NEW i \in Operation, SubmitInvalid(i) PROVE ConnectSound'
    BY <1>11 DEF SubmitInvalid
  <1>12. ASSUME NEW i \in Operation, Submit(i) PROVE ConnectSound'
    BY <1>12, SubmitEffect DEF Left, Replaced
  <1>13. ASSUME NEW i \in Operation, SubmitConnect(i) PROVE ConnectSound'
    BY <1>13, SubmitConnectEffect DEF Left, Replaced
  <1>14. ASSUME NEW i \in Operation, RequestCancel(i) PROVE ConnectSound'
    BY <1>14 DEF RequestCancel
  <1>15. ASSUME NEW i \in Operation, CompleteAccept(i) PROVE ConnectSound'
    BY <1>15 DEF CompleteAccept
  <1>16. ASSUME NEW i \in Operation, CompleteTransfer(i) PROVE ConnectSound'
    BY <1>16 DEF CompleteTransfer
  <1>17. ASSUME NEW i \in Operation, CompleteConnect(i) PROVE ConnectSound'
    BY <1>17, CompleteConnectEffect DEF Left, Replaced
  <1>18. ASSUME NEW i \in Operation, Answer(i) PROVE ConnectSound'
    BY <1>18, AnswerEffect DEF Left, Replaced
  <1>19. ASSUME NEW i \in Operation, AnswerCanceled(i) PROVE ConnectSound'
    BY <1>19, AnswerEffect DEF Left, Replaced
  <1>20. ASSUME NEW f \in File, Arrive(f) PROVE ConnectSound'
    BY <1>20 DEF Arrive
  <1>21. ASSUME NEW f \in File, FinishHandshake(f) PROVE ConnectSound'
    BY <1>21 DEF FinishHandshake
  <1>22. ASSUME UNCHANGED vars PROVE ConnectSound'
    BY <1>22 DEF vars
  <1> QED
    BY <1>1, <1>2, <1>3, <1>4, <1>5, <1>6, <1>7, <1>8, <1>9, <1>10, <1>11, <1>12, <1>13,
       <1>14, <1>15, <1>16, <1>17, <1>18, <1>19, <1>20, <1>21, <1>22 DEF Next, Object

-----------------------------------------------------------------------------
(* Who acts.                                                                *)

\* An operation changes in its own steps only.
LEMMA OneActs ==
  ASSUME Typed, NEW i \in Operation, op'[i] # op[i], [Next]_vars
  PROVE  \/ \E o \in Object, k \in Kind : Make(i, o, k)
         \/ SubmitInvalid(i) \/ Submit(i) \/ SubmitConnect(i) \/ RequestCancel(i)
         \/ CompleteAccept(i) \/ CompleteTransfer(i) \/ CompleteConnect(i)
         \/ Answer(i) \/ AnswerCanceled(i)
  <1> DEFINE Acts ==
         \/ \E o \in Object, k \in Kind : Make(i, o, k)
         \/ SubmitInvalid(i) \/ Submit(i) \/ SubmitConnect(i) \/ RequestCancel(i)
         \/ CompleteAccept(i) \/ CompleteTransfer(i) \/ CompleteConnect(i)
         \/ Answer(i) \/ AnswerCanceled(i)
  <1>1. ASSUME NEW o \in Object, Open(o) PROVE Acts
    BY <1>1 DEF Open
  <1>2. ASSUME NEW o \in Object, Close(o) PROVE Acts
    BY <1>2 DEF Close
  <1>3. ASSUME NEW o \in Object, ReleaseSocket(o) PROVE Acts
    BY <1>3 DEF ReleaseSocket
  <1>4. ASSUME NEW o \in Object, Reset(o) PROVE Acts
    BY <1>4 DEF Reset
  <1>5. ASSUME NEW o \in Object, Discard(o) PROVE Acts
    BY <1>5 DEF Discard
  <1>6. ASSUME NEW o \in Object, Listen(o) PROVE Acts
    BY <1>6 DEF Listen
  <1>7. ASSUME NEW o \in Object, Shutdown(o) PROVE Acts
    BY <1>7 DEF Shutdown
  <1>8. ASSUME NEW o \in Object, CallDirectly(o) PROVE Acts
    BY <1>8 DEF CallDirectly
  <1>9. ASSUME NEW o \in Object, NEW p \in Object, Move(o, p) PROVE Acts
    BY <1>9 DEF Move
  <1>10. ASSUME NEW j \in Operation, NEW o \in Object, NEW k \in Kind, Make(j, o, k) PROVE Acts
    <2>1. op' = [op EXCEPT ![j] = op'[j]]
      BY <1>10 DEF Make, Typed, TypeOK
    <2> QED
      BY <1>10, <2>1 DEF Typed, TypeOK
  <1>11. ASSUME NEW j \in Operation, SubmitInvalid(j) PROVE Acts
    <2>1. op' = [op EXCEPT ![j] = op'[j]]
      BY <1>11 DEF SubmitInvalid, Typed, TypeOK
    <2> QED
      BY <1>11, <2>1 DEF Typed, TypeOK
  <1>12. ASSUME NEW j \in Operation, Submit(j) PROVE Acts
    BY <1>12, SubmitEffect DEF Replaced
  <1>13. ASSUME NEW j \in Operation, SubmitConnect(j) PROVE Acts
    BY <1>13, SubmitConnectEffect DEF Replaced
  <1>14. ASSUME NEW j \in Operation, RequestCancel(j) PROVE Acts
    <2>1. op' = [op EXCEPT ![j] = op'[j]]
      BY <1>14 DEF RequestCancel, Typed, TypeOK
    <2> QED
      BY <1>14, <2>1 DEF Typed, TypeOK
  <1>15. ASSUME NEW j \in Operation, CompleteAccept(j) PROVE Acts
    <2>1. op' = [op EXCEPT ![j] = op'[j]]
      BY <1>15 DEF CompleteAccept, Typed, TypeOK
    <2> QED
      BY <1>15, <2>1 DEF Typed, TypeOK
  <1>16. ASSUME NEW j \in Operation, CompleteTransfer(j) PROVE Acts
    <2>1. op' = [op EXCEPT ![j] = op'[j]]
      BY <1>16 DEF CompleteTransfer, Typed, TypeOK
    <2> QED
      BY <1>16, <2>1 DEF Typed, TypeOK
  <1>17. ASSUME NEW j \in Operation, CompleteConnect(j) PROVE Acts
    BY <1>17, CompleteConnectEffect DEF Replaced
  <1>18. ASSUME NEW j \in Operation, Answer(j) PROVE Acts
    BY <1>18, AnswerEffect DEF Replaced
  <1>19. ASSUME NEW j \in Operation, AnswerCanceled(j) PROVE Acts
    BY <1>19, AnswerEffect DEF Replaced
  <1>20. ASSUME NEW f \in File, Arrive(f) PROVE Acts
    BY <1>20 DEF Arrive
  <1>21. ASSUME NEW f \in File, FinishHandshake(f) PROVE Acts
    BY <1>21 DEF FinishHandshake
  <1>22. ASSUME UNCHANGED vars PROVE Acts
    BY <1>22 DEF vars
  <1> QED
    BY <1>1, <1>2, <1>3, <1>4, <1>5, <1>6, <1>7, <1>8, <1>9, <1>10, <1>11, <1>12, <1>13,
       <1>14, <1>15, <1>16, <1>17, <1>18, <1>19, <1>20, <1>21, <1>22 DEF Next, Object

-----------------------------------------------------------------------------
(* The results.                                                            *)

LEMMA InitStep == Init => OwnInv /\ FileInv
  <1> SUFFICES ASSUME Init PROVE OwnInv /\ FileInv
    OBVIOUS
  <1> USE SocketsAssumption DEF Init, Fresh, IoKinds, Outcomes, FileStates
  <1>1. Typed
    BY DEF Typed, TypeOK
  <1>2. HeldOnce /\ OpenIsHeld /\ AcceptedIsAnswered
    BY DEF HeldOnce, OpenIsHeld, AcceptedIsAnswered
  <1>3. FilesSound /\ ConnectSound
    BY DEF FilesSound, ConnectSound
  <1> QED
    BY <1>1, <1>2, <1>3 DEF OwnInv, FileInv

\* What TcpStream, TcpListener and the operations keep between the calls is well-formed,
\* an operation names its stream or listener until it is submitted, and only accepts,
\* receives and sends wait in the ring.
THEOREM TypeCorrect == Spec => []Typed
  <1>1. Init => Typed
    BY InitStep DEF OwnInv
  <1> QED
    BY <1>1, TypeStep, PTL DEF Spec

\* The invariant of ownership, as long as ::close() does not report an error for a number
\* it has freed.
THEOREM OwnershipHolds == ~CloseFails => (Spec => []OwnInv)
  <1> SUFFICES ASSUME ~CloseFails PROVE Spec => []OwnInv
    OBVIOUS
  <1>1. OwnInv /\ [Next]_vars => OwnInv'
    <2> SUFFICES ASSUME OwnInv, [Next]_vars PROVE OwnInv'
      OBVIOUS
    <2>1. Typed' /\ HeldOnce'
      BY TypeStep, HeldStep DEF OwnInv
    <2>2. OpenIsHeld' /\ AcceptedIsAnswered'
      BY OpenStep, AcceptedStep
    <2> QED
      BY <2>1, <2>2 DEF OwnInv
  <1>2. Init => OwnInv
    BY InitStep
  <1> QED
    BY <1>1, <1>2, PTL DEF Spec

\* The invariant of files, as long as the program does not close a socket under a connect.
THEOREM FilesHold == "connect" \notin CloseUnder => (Spec => []FileInv)
  <1> SUFFICES ASSUME "connect" \notin CloseUnder PROVE Spec => []FileInv
    OBVIOUS
  <1>1. FileInv /\ [Next]_vars => FileInv'
    <2> SUFFICES ASSUME FileInv, [Next]_vars PROVE FileInv'
      OBVIOUS
    <2>1. Typed' /\ FilesSound'
      BY TypeStep, FilesStep DEF FileInv
    <2>2. ConnectSound'
      BY ConnectStep
    <2> QED
      BY <2>1, <2>2 DEF FileInv
  <1>2. Init => FileInv
    BY InitStep
  <1> QED
    BY <1>1, <1>2, PTL DEF Spec

LEMMA OwnersAreOne ==
  ASSUME OwnInv, NEW d \in Fd
  PROVE  Cardinality(OwnersOf(d)) = IF table[d] = NoFile THEN 0 ELSE 1
  <1> USE SocketsAssumption DEF OwnInv, HeldOnce, OpenIsHeld
  <1>1. CASE table[d] = NoFile
    <2>1. OwnersOf(d) = {}
      BY <1>1 DEF OwnersOf
    <2> QED
      BY <1>1, <2>1, FS_EmptySet
  <1>2. CASE table[d] # NoFile
    <2>1. \E x : OwnersOf(d) = {x}
      <3>1. CASE \E o \in Object : handle[o] = d
        <4>1. PICK o \in Object : handle[o] = d
          BY <3>1
        <4>2. OwnersOf(d) = {o}
          BY <4>1 DEF OwnersOf
        <4> QED
          BY <4>2
      <3>2. CASE \E i \in Operation : op[i].accepted = d
        <4>1. PICK i \in Operation : op[i].accepted = d
          BY <3>2
        <4>2. OwnersOf(d) = {i}
          BY <4>1 DEF OwnersOf
        <4> QED
          BY <4>2
      <3>3. CASE d \in hand
        <4>1. OwnersOf(d) = {"hand"}
          BY <3>3 DEF OwnersOf
        <4> QED
          BY <4>1
      <3>4. CASE d \in dropped
        <4>1. OwnersOf(d) = {"dropped"}
          BY <3>4 DEF OwnersOf
        <4> QED
          BY <4>1
      <3> QED
        BY <1>2, <3>1, <3>2, <3>3, <3>4
    <2> QED
      BY <1>2, <2>1, FS_Singleton
  <1> QED
    BY <1>1, <1>2

\* An open descriptor has exactly one owner and a free one none, through moves, resets,
\* failed attempts, cancellations and completions: a connection that was accepted while
\* its accept was canceled still goes to the awaiter.
THEOREM DescriptorsHaveOneOwner == ~CloseFails => (Spec => []DescriptorsAreOwned)
  <1>1. OwnInv => DescriptorsAreOwned
    BY OwnersAreOne DEF DescriptorsAreOwned
  <1> QED
    BY <1>1, OwnershipHolds, PTL

\* refresh_binding_from_stream() and _listener(): a request is made for the file that the
\* stream or listener holds when the operation is submitted.
THEOREM RequestsFollowTheirStream == Spec => RequestsHitTheirStream
  <1> DEFINE Hits == \A i \in Operation :
               op[i].phase = "made" /\ op'[i].phase \in {"flying", "answered"} =>
                 op'[i].file = FileOf(handle[op[i].target])
  <1>1. ASSUME Typed, [Next]_vars PROVE Hits
    <2>1. SUFFICES ASSUME NEW i \in Operation, op[i].phase = "made",
                          op'[i].phase \in {"flying", "answered"}
                   PROVE  op'[i].file = FileOf(handle[op[i].target])
      OBVIOUS
    <2>2. Submit(i) \/ SubmitConnect(i)
      <3>1. op'[i] # op[i]
        BY <2>1
      <3>2. ~SubmitInvalid(i)
        <4> SUFFICES ASSUME SubmitInvalid(i) PROVE FALSE
          OBVIOUS
        <4>1. op'[i] = Fresh \/ op'[i] = Finished(i, "error")
          BY <1>1 DEF SubmitInvalid, Typed, TypeOK
        <4>2. Fresh.phase = "idle"
          BY DEF Fresh
        <4>3. Finished(i, "error").phase \in {"idle", "done"}
          BY FinishedFacts DEF Outcomes
        <4> QED
          BY <2>1, <4>1, <4>2, <4>3
      <3>3. ~(\E o \in Object, k \in Kind : Make(i, o, k))
        BY <1>1, <2>1 DEF Make, Typed, TypeOK
      <3>4. ~RequestCancel(i) /\ ~CompleteAccept(i) /\ ~CompleteTransfer(i)
        BY <2>1 DEF RequestCancel, CompleteAccept, CompleteTransfer
      <3>5. ~CompleteConnect(i) /\ ~Answer(i) /\ ~AnswerCanceled(i)
        BY <1>1, <2>1, CompleteConnectEffect, AnswerEffect
      <3> QED
        BY <1>1, <3>1, <3>2, <3>3, <3>4, <3>5, OneActs
    <2>3. CASE Submit(i)
      BY <1>1, <2>1, <2>3, SubmitEffect
    <2>4. CASE SubmitConnect(i)
      BY <1>1, <2>1, <2>4, SubmitConnectEffect
    <2> QED
      BY <2>2, <2>3, <2>4
  <1>2. Typed /\ [Next]_vars => [Hits]_vars
    BY <1>1
  <1> QED
    BY <1>2, TypeCorrect, PTL DEF Spec, RequestsHitTheirStream

\* complete_connect(): the SO_ERROR of the descriptor confirms the answer of the request
\* and never contradicts it, as long as the socket is not closed under the connect.
THEOREM ConnectReportsItsAnswer ==
    "connect" \notin CloseUnder => (Spec => ConnectTellsTheTruth)
  <1> SUFFICES ASSUME "connect" \notin CloseUnder PROVE Spec => ConnectTellsTheTruth
    OBVIOUS
  <1> DEFINE Truth == \A i \in Operation :
               op[i].kind = "connect" /\ op[i].phase = "answered" /\ op'[i].phase = "done" =>
                 (op'[i].outcome = "ok" <=> op[i].outcome = "ok")
  <1>1. ASSUME FileInv, [Next]_vars PROVE Truth
    <2>1. SUFFICES ASSUME NEW i \in Operation, op[i].kind = "connect",
                          op[i].phase = "answered", op'[i].phase = "done"
                   PROVE  op'[i].outcome = "ok" <=> op[i].outcome = "ok"
      OBVIOUS
    <2>2. CompleteConnect(i)
      <3>1. op'[i] # op[i]
        BY <2>1
      <3> QED
        BY <1>1, <2>1, <3>1, OneActs, SubmitEffect, SubmitConnectEffect, AnswerEffect
        DEF Make, SubmitInvalid, RequestCancel, CompleteAccept, CompleteTransfer, FileInv,
            Typed, TypeOK
    <2>3. /\ op[i].outcome = "ok" => /\ FileOf(op[i].socket) # NoFile
                                     /\ state[FileOf(op[i].socket)] # "refused"
      BY <1>1, <2>1, SocketsAssumption DEF FileInv, ConnectSound, FileOf
    <2> QED
      BY <1>1, <2>1, <2>2, <2>3, CompleteConnectEffect DEF FileInv
  <1>2. FileInv /\ [Next]_vars => [Truth]_vars
    BY <1>1
  <1> QED
    BY <1>2, FilesHold, PTL DEF Spec, ConnectTellsTheTruth

=============================================================================
