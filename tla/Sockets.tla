-------------------------------- MODULE Sockets --------------------------------
(* TcpStream, TcpListener and LinuxSocketApi, and the socket operations that use *)
(* them: who owns which descriptor, and which open file a request is about.      *)
(*                                                                               *)
(* The coroutines of one runtime and its completions run one at a time, so a     *)
(* call, or the submit() of an operation, is one step; the kernel takes its own. *)
(* A descriptor is a number the kernel reuses; `table` maps it to the open file  *)
(* it names, and a request in the ring holds the file, not the number.           *)
EXTENDS Naturals, FiniteSets

CONSTANTS
  Stream,      \* TcpStream objects
  Listener,    \* TcpListener objects
  Operation, Kind,   \* operation objects, and the kinds among IoKinds that they may be
  Fd, NoFd,    \* descriptors, and the invalid handle
  File, NoFile,
  NoObject,
  Distant,     \* whether a handshake may still be under way when the request is issued
  CloseFails,  \* whether close() may report an error (Linux frees the number all the same)
  CloseUnder   \* the kinds of operation under which the program may close the socket

Object == Stream \cup Listener
IoKinds == {"accept", "connect", "receive", "send"}

ASSUME SocketsAssumption ==
  /\ NoFd \notin Fd /\ NoFile \notin File /\ NoObject \notin Object
  /\ Stream \cap Listener = {}
  /\ Kind \subseteq IoKinds
  /\ Distant \in BOOLEAN /\ CloseFails \in BOOLEAN
  /\ CloseUnder \subseteq Kind

VARIABLES
  handle,    \* socket_ of each object
  hand,      \* handles the program holds outside an object: AcceptResult, release_socket()
  dropped,   \* ghost: descriptors whose handle was overwritten or destroyed
  table,     \* the process's descriptors
  state,     \* what each open file is
  inbox,     \* what has come in for it: a connection, bytes, or the end of the stream
  op         \* the operations

vars == <<handle, hand, dropped, table, state, inbox, op>>

FileStates == {"none", "fresh", "listening", "connecting", "refused", "connected"}
Outcomes == {"none", "ok", "eof", "error", "EALREADY", "ECANCELED", "in_progress"}

Fresh == [phase |-> "idle", kind |-> "none", target |-> NoObject, socket |-> NoFd, file |-> NoFile,
          asked |-> FALSE, outcome |-> "none", accepted |-> NoFd]

TypeOK ==
  /\ handle \in [Object -> Fd \cup {NoFd}]
  /\ hand \subseteq Fd /\ dropped \subseteq Fd
  /\ table \in [Fd -> File \cup {NoFile}]
  /\ state \in [File -> FileStates]
  /\ inbox \in [File -> {"none", "some", "end"}]
  /\ op \in [Operation ->
       [phase : {"idle", "made", "flying", "answered", "done"},
        kind : IoKinds \cup {"none"}, target : Object \cup {NoObject}, socket : Fd \cup {NoFd},
        file : File \cup {NoFile}, asked : BOOLEAN, outcome : Outcomes,
        accepted : Fd \cup {NoFd}]]

Init ==
  /\ handle = [o \in Object |-> NoFd]
  /\ hand = {} /\ dropped = {}
  /\ table = [d \in Fd |-> NoFile]
  /\ state = [f \in File |-> "none"]
  /\ inbox = [f \in File |-> "none"]
  /\ op = [i \in Operation |-> Fresh]

-----------------------------------------------------------------------------
(* The kernel's tables.                                                        *)

FreeFds == {d \in Fd : table[d] = NoFile}
FreeFiles == {f \in File : state[f] = "none"}

FileOf(d) == IF d = NoFd THEN NoFile ELSE table[d]

(* A request in the ring keeps its file open.                                  *)
InFlight(f) == {i \in Operation : op[i].phase = "flying" /\ op[i].file = f}

(* ::close(): the number is free at once, the file when no request holds it.   *)
CloseFd(d) ==
  LET f == table[d]
      gone == f # NoFile /\ InFlight(f) = {}
  IN /\ table' = [table EXCEPT ![d] = NoFile]
     /\ state' = IF gone THEN [state EXCEPT ![f] = "none"] ELSE state
     /\ inbox' = IF gone THEN [inbox EXCEPT ![f] = "none"] ELSE inbox

-----------------------------------------------------------------------------
(* TcpStream and TcpListener. None of the calls that overwrite socket_ closes  *)
(* the descriptor it held.                                                     *)

Overwrite(o, d) ==
  /\ handle' = [handle EXCEPT ![o] = d]
  /\ dropped' = dropped \cup ({handle[o]} \ {NoFd})

(* o = open(family): a temporary, moved into o.                                *)
Open(o) ==
  /\ \E d \in FreeFds, f \in FreeFiles :
       /\ table' = [table EXCEPT ![d] = f]
       /\ state' = [state EXCEPT ![f] = "fresh"]
       /\ Overwrite(o, d)
  /\ UNCHANGED <<hand, inbox, op>>

(* LinuxSocketApi::close().                                                    *)
Close(o) ==
  /\ handle[o] # NoFd
  /\ \A i \in Operation :
       op[i].phase \in {"flying", "answered"} /\ op[i].socket = handle[o] =>
         op[i].kind \in CloseUnder
  /\ CloseFd(handle[o])
  /\ \/ handle' = [handle EXCEPT ![o] = NoFd]
     \/ CloseFails /\ UNCHANGED handle
  /\ UNCHANGED <<hand, dropped, op>>

(* Move construction and assignment.                                           *)
Move(o, p) ==
  /\ o # p /\ (o \in Stream <=> p \in Stream)
  /\ handle' = [handle EXCEPT ![o] = handle[p], ![p] = NoFd]
  /\ dropped' = dropped \cup ({handle[o]} \ {NoFd})
  /\ UNCHANGED <<hand, table, state, inbox, op>>

(* release_socket().                                                           *)
ReleaseSocket(o) ==
  /\ handle[o] # NoFd
  /\ hand' = hand \cup {handle[o]}
  /\ handle' = [handle EXCEPT ![o] = NoFd]
  /\ UNCHANGED <<dropped, table, state, inbox, op>>

(* reset(socket), or construction from a handle the program holds.             *)
Reset(o) ==
  /\ \E d \in hand : Overwrite(o, d) /\ hand' = hand \ {d}
  /\ UNCHANGED <<table, state, inbox, op>>

(* reset(), or the destructor, which does not close.                           *)
Discard(o) ==
  /\ handle[o] # NoFd
  /\ Overwrite(o, NoFd)
  /\ UNCHANGED <<hand, table, state, inbox, op>>

(* bind() and listen(), which throw unless the socket is a new one.            *)
Listen(o) ==
  /\ o \in Listener
  /\ LET f == FileOf(handle[o]) IN
       /\ f # NoFile /\ state[f] = "fresh"
       /\ state' = [state EXCEPT ![f] = "listening"]
  /\ UNCHANGED <<handle, hand, dropped, table, inbox, op>>

(* shutdown(receive) or shutdown(both): a reader finds the end of the stream.  *)
Shutdown(o) ==
  /\ o \in Stream
  /\ LET f == FileOf(handle[o]) IN
       /\ f # NoFile /\ state[f] = "connected"
       /\ inbox' = [inbox EXCEPT ![f] = "end"]
  /\ UNCHANGED <<handle, hand, dropped, table, state, op>>

-----------------------------------------------------------------------------
(* System calls on an open file. Each says what the call does to the file and   *)
(* what it returns; "again" is EAGAIN. They are made by LinuxSocketApi for the  *)
(* program, and by the kernel for a request in the ring.                        *)

(* What the call of i, an operation or an object, leaves of file f, which the   *)
(* request of i may have been the last to hold.                                 *)
Effect(i, f, s, b) ==
  LET open == (\E d \in Fd : table[d] = f) \/ InFlight(f) \ {i} # {}
  IN /\ state' = [state EXCEPT ![f] = IF open THEN s ELSE "none"]
     /\ inbox' = [inbox EXCEPT ![f] = IF open THEN b ELSE "none"]

Same(i, f) == Effect(i, f, state[f], inbox[f]) /\ UNCHANGED table

(* accept4(): d is the descriptor it returns.                                   *)
AcceptCall(i, f, outcome, d) ==
  \/ /\ state[f] = "listening" /\ inbox[f] = "some"
     /\ outcome = "ok" /\ d \in FreeFds
     /\ \E g \in FreeFiles :
          LET open == (\E e \in Fd : table[e] = f) \/ InFlight(f) \ {i} # {}
          IN /\ table' = [table EXCEPT ![d] = g]
             /\ state' = [state EXCEPT ![g] = "connected",
                                       ![f] = IF open THEN @ ELSE "none"]
             /\ inbox' = [inbox EXCEPT ![f] = "none"]
  \/ /\ d = NoFd /\ Same(i, f)
     /\ \/ state[f] = "listening" /\ inbox[f] = "none" /\ outcome = "again"
        \/ state[f] = "listening" /\ FreeFds = {} /\ outcome = "error"
        \/ state[f] # "listening" /\ outcome = "error"

(* recv(): a pending socket error is returned, and cleared.                     *)
ReceiveCall(i, f, outcome) ==
  /\ \/ /\ state[f] = "connected" /\ inbox[f] = "some" /\ outcome = "ok"
        /\ Effect(i, f, state[f], "none")
     \/ /\ state[f] = "connected" /\ inbox[f] = "end" /\ outcome = "eof"
        /\ Same(i, f)
     \/ /\ state[f] \in {"connected", "connecting"} /\ inbox[f] = "none"
        /\ outcome = "again" /\ Same(i, f)
     \/ /\ state[f] = "refused" /\ outcome = "error"
        /\ Effect(i, f, "fresh", inbox[f])
     \/ /\ state[f] \in {"fresh", "listening"} /\ outcome = "error"
        /\ Same(i, f)
  /\ UNCHANGED table

(* send(): the buffer of the socket may be full, the peer gone.                 *)
SendCall(i, f, outcome) ==
  /\ \/ state[f] = "connected" /\ outcome \in {"ok", "again", "error"} /\ Same(i, f)
     \/ state[f] = "connecting" /\ outcome = "again" /\ Same(i, f)
     \/ /\ state[f] = "refused" /\ outcome = "error"
        /\ Effect(i, f, "fresh", inbox[f])
     \/ /\ state[f] \in {"fresh", "listening"} /\ outcome = "error"
        /\ Same(i, f)
  /\ UNCHANGED table

(* connect(): from state s to state s1. The handshake goes on while the first    *)
(* call returns EINPROGRESS; over the loopback interface it is over by then.     *)
Handshake == {"connected", "refused"} \cup (IF Distant THEN {"connecting"} ELSE {})

ConnectCall(s, s1, outcome) ==
  \/ s = "fresh" /\ \/ s1 \in Handshake /\ outcome = "again"
                    \/ s1 = "connected" /\ outcome = "ok"
                    \/ s1 = "fresh" /\ outcome = "error"
  \/ s = "connecting" /\ s1 = "connecting" /\ outcome = "again"
  \/ s = "connected" /\ s1 = "connected" /\ outcome = "ok"
  \/ s = "refused" /\ s1 = "fresh" /\ outcome = "error"
  \/ s = "listening" /\ s1 = "listening" /\ outcome = "error"

(* accept_raw(), read_some(), write_some() and connect() called by the program. *)
CallDirectly(o) ==
  /\ LET f == FileOf(handle[o]) IN
       /\ f # NoFile
       /\ \/ /\ o \in Listener
             /\ \E outcome \in {"ok", "again", "error"}, d \in Fd \cup {NoFd} :
                  AcceptCall(o, f, outcome, d) /\ hand' = hand \cup ({d} \ {NoFd})
          \/ /\ o \in Stream /\ UNCHANGED hand
             /\ \E outcome \in {"ok", "eof", "again", "error"} :
                  ReceiveCall(o, f, outcome) \/ SendCall(o, f, outcome)
          \/ /\ o \in Stream /\ UNCHANGED <<hand, table, inbox>>
             /\ \E s \in FileStates, outcome \in {"ok", "again", "error"} :
                  ConnectCall(state[f], s, outcome) /\ state' = [state EXCEPT ![f] = s]
  /\ UNCHANGED <<handle, dropped, op>>

-----------------------------------------------------------------------------
(* Operations. The constructor copies the handle of the stream or listener.     *)

Make(i, o, k) ==
  /\ op[i].phase \in {"idle", "done"}
  /\ k = "accept" <=> o \in Listener
  /\ op' = [op EXCEPT ![i] = [Fresh EXCEPT !.phase = "made", !.kind = k, !.target = o,
                                           !.socket = handle[o]]]
  /\ UNCHANGED <<handle, hand, dropped, table, state, inbox>>

(* Faulty: the operation goes on with the handle it was constructed with.       *)
KeepBinding(i) == op[i].socket

(* refresh_binding_from_stream(), refresh_binding_from_listener().              *)
RefreshBinding(i) == handle[op[i].target]

(* finish(): the awaiter gets the outcome; only that of a connect is asked for.  *)
Finished(i, outcome) ==
  IF op[i].kind = "connect"
    THEN [Fresh EXCEPT !.phase = "done", !.kind = "connect", !.outcome = outcome]
    ELSE Fresh

(* A request for the handle the operation is bound to; the kernel looks up the  *)
(* file when it takes the request, before submit() returns.                     *)
Requested(i, phase, outcome) ==
  [op[i] EXCEPT !.phase = phase, !.socket = RefreshBinding(i),
                !.file = FileOf(RefreshBinding(i)), !.outcome = outcome]

(* validate_target() throws; or the attempt returns EBADF.                      *)
SubmitInvalid(i) ==
  /\ op[i].phase = "made" /\ FileOf(handle[op[i].target]) = NoFile
  /\ op' = [op EXCEPT ![i] = IF handle[op[i].target] = NoFd THEN Fresh
                              ELSE Finished(i, "error")]
  /\ UNCHANGED <<handle, hand, dropped, table, state, inbox>>

(* submit() of an accept, receive or send: the attempt, and the request if it   *)
(* would have blocked.                                                          *)
Submit(i) ==
  /\ op[i].kind # "connect" /\ op[i].phase = "made"
  /\ LET f == FileOf(handle[op[i].target]) IN
       /\ f # NoFile
       /\ \E outcome \in {"ok", "eof", "error", "again"}, d \in Fd \cup {NoFd} :
            /\ \/ op[i].kind = "accept" /\ AcceptCall(i, f, outcome, d)
               \/ op[i].kind = "receive" /\ d = NoFd /\ ReceiveCall(i, f, outcome)
               \/ op[i].kind = "send" /\ d = NoFd /\ SendCall(i, f, outcome)
            /\ op' = [op EXCEPT ![i] = IF outcome = "again"
                                         THEN Requested(i, "flying", "none")
                                         ELSE Finished(i, outcome)]
            /\ hand' = hand \cup ({d} \ {NoFd})
  /\ UNCHANGED <<handle, dropped>>

(* submit() of a connect. The kernel takes the request by calling connect()     *)
(* again: it answers at once, and EALREADY while the handshake goes on, which   *)
(* it does not wait for.                                                        *)
SubmitConnect(i) ==
  /\ op[i].kind = "connect" /\ op[i].phase = "made"
  /\ LET f == FileOf(handle[op[i].target])
         g == FileOf(RefreshBinding(i))
     IN /\ f # NoFile /\ g # NoFile
        /\ \E s \in FileStates, outcome \in {"ok", "error", "again"} :
             /\ ConnectCall(state[f], s, outcome)
             /\ IF outcome # "again"
                  THEN /\ op' = [op EXCEPT ![i] = Finished(i, outcome)]
                       /\ state' = [state EXCEPT ![f] = s]
                  ELSE \E s1 \in FileStates, answer \in {"ok", "error", "again"} :
                         /\ ConnectCall(IF g = f THEN s ELSE state[g], s1, answer)
                         /\ op' = [op EXCEPT ![i] = Requested(i, "answered",
                                     IF answer = "again" THEN "EALREADY" ELSE answer)]
                         /\ state' = [state EXCEPT ![f] = s, ![g] = s1]
  /\ UNCHANGED <<handle, hand, dropped, table, inbox>>

(* The entry's cancel_requested; the request to cancel follows. Once the request *)
(* is answered it changes nothing.                                              *)
RequestCancel(i) ==
  /\ op[i].phase = "flying" /\ ~op[i].asked
  /\ op' = [op EXCEPT ![i].asked = TRUE]
  /\ UNCHANGED <<handle, hand, dropped, table, state, inbox>>

(* Faulty: a connection accepted after the cancellation was requested is dropped. *)
CompleteAcceptDrops(i) ==
  /\ op[i].kind = "accept" /\ op[i].phase = "answered"
  /\ hand' = IF op[i].asked THEN hand ELSE hand \cup ({op[i].accepted} \ {NoFd})
  /\ op' = [op EXCEPT ![i] = Finished(i, @.outcome)]
  /\ UNCHANGED <<handle, dropped, table, state, inbox>>

(* complete_accept(): the accepted descriptor goes to the awaiter, even when a  *)
(* cancellation was requested.                                                  *)
CompleteAccept(i) ==
  /\ op[i].kind = "accept" /\ op[i].phase = "answered"
  /\ hand' = hand \cup ({op[i].accepted} \ {NoFd})
  /\ op' = [op EXCEPT ![i] = Finished(i, @.outcome)]
  /\ UNCHANGED <<handle, dropped, table, state, inbox>>

(* complete_receive(), complete_send().                                         *)
CompleteTransfer(i) ==
  /\ op[i].kind \in {"receive", "send"} /\ op[i].phase = "answered"
  /\ op' = [op EXCEPT ![i] = Finished(i, @.outcome)]
  /\ UNCHANGED <<handle, hand, dropped, table, state, inbox>>

(* Faulty: SO_ERROR alone decides.                                              *)
CompleteConnectBySocketError(i) ==
  /\ op[i].kind = "connect" /\ op[i].phase = "answered"
  /\ LET f == FileOf(op[i].socket) IN
       op' = [op EXCEPT ![i] = Finished(i, IF f # NoFile /\ state[f] # "refused"
                                             THEN "ok" ELSE "error")]
  /\ UNCHANGED <<handle, hand, dropped, table, state, inbox>>

(* complete_connect(): success is confirmed by the SO_ERROR of the descriptor   *)
(* the operation is bound to, which reading clears.                             *)
CompleteConnect(i) ==
  /\ op[i].kind = "connect" /\ op[i].phase = "answered"
  /\ LET f == FileOf(op[i].socket) IN
       IF op[i].outcome # "ok"
         THEN /\ op' = [op EXCEPT ![i] = Finished(i, IF @.outcome = "EALREADY" THEN "in_progress"
                                                  ELSE "error")]
              /\ UNCHANGED state
         ELSE IF f # NoFile /\ state[f] # "refused"
         THEN op' = [op EXCEPT ![i] = Finished(i, "ok")] /\ UNCHANGED state
         ELSE /\ op' = [op EXCEPT ![i] = Finished(i, "error")]
              /\ state' = IF f = NoFile THEN state ELSE [state EXCEPT ![f] = "fresh"]
  /\ UNCHANGED <<handle, hand, dropped, table, inbox>>

-----------------------------------------------------------------------------
(* The kernel and the peers.                                                    *)

(* A connection for a listener; bytes, or the end of the stream.                *)
Arrive(f) ==
  /\ \/ state[f] = "listening" /\ inbox[f] = "none" /\ inbox' = [inbox EXCEPT ![f] = "some"]
     \/ /\ state[f] = "connected" /\ inbox[f] = "none"
        /\ \E b \in {"some", "end"} : inbox' = [inbox EXCEPT ![f] = b]
  /\ UNCHANGED <<handle, hand, dropped, table, state, op>>

FinishHandshake(f) ==
  /\ state[f] = "connecting"
  /\ \E s \in {"connected", "refused"} : state' = [state EXCEPT ![f] = s]
  /\ UNCHANGED <<handle, hand, dropped, table, inbox, op>>

(* A request in the ring can go on.                                             *)
Answer(i) ==
  /\ op[i].phase = "flying"
  /\ \E outcome \in {"ok", "eof", "error"}, d \in Fd \cup {NoFd} :
       /\ \/ op[i].kind = "accept" /\ AcceptCall(i, op[i].file, outcome, d)
          \/ op[i].kind = "receive" /\ d = NoFd /\ ReceiveCall(i, op[i].file, outcome)
          \/ op[i].kind = "send" /\ d = NoFd /\ SendCall(i, op[i].file, outcome)
       /\ op' = [op EXCEPT ![i].phase = "answered", ![i].outcome = outcome,
                           ![i].accepted = d]
  /\ UNCHANGED <<handle, hand, dropped>>

AnswerCanceled(i) ==
  /\ op[i].phase = "flying" /\ op[i].asked
  /\ Same(i, op[i].file)
  /\ op' = [op EXCEPT ![i].phase = "answered", ![i].outcome = "ECANCELED"]
  /\ UNCHANGED <<handle, hand, dropped>>

Next ==
  \/ \E o \in Object : \/ Open(o) \/ Close(o) \/ ReleaseSocket(o) \/ Reset(o)
                       \/ Discard(o) \/ Listen(o) \/ Shutdown(o) \/ CallDirectly(o)
                       \/ \E p \in Object : Move(o, p)
  \/ \E i \in Operation : \/ \E o \in Object, k \in Kind : Make(i, o, k)
                          \/ SubmitInvalid(i) \/ Submit(i) \/ SubmitConnect(i)
                          \/ RequestCancel(i)
                          \/ CompleteAccept(i) \/ CompleteTransfer(i) \/ CompleteConnect(i)
                          \/ Answer(i) \/ AnswerCanceled(i)
  \/ \E f \in File : Arrive(f) \/ FinishHandshake(f)

Spec == Init /\ [][Next]_vars

-----------------------------------------------------------------------------
(* What must hold.                                                              *)

(* Who would close descriptor d.                                                *)
OwnersOf(d) ==
  {o \in Object : handle[o] = d} \cup {i \in Operation : op[i].accepted = d}
    \cup {x \in {"hand"} : d \in hand} \cup {x \in {"dropped"} : d \in dropped}

(* An open descriptor has exactly one owner, a free one none: no object acts on *)
(* a number the kernel has given to somebody else, none is closed twice, and    *)
(* none is lost but by overwriting or destroying the object that holds it.      *)
(* (TcpStream, TcpListener, complete_accept.)                                   *)
DescriptorsAreOwned ==
  \A d \in Fd : Cardinality(OwnersOf(d)) = IF table[d] = NoFile THEN 0 ELSE 1

(* A request is made for the file its stream holds when it is submitted, whatever *)
(* the stream held when the operation was constructed. (refresh_binding_*.)       *)
RequestsHitTheirStream ==
  [][\A i \in Operation :
       op[i].phase = "made" /\ op'[i].phase \in {"flying", "answered"} =>
         op'[i].file = FileOf(handle[op[i].target])]_vars

(* The awaiter of a connect hears what its own request was answered, not what   *)
(* became of a socket that took over the number. (complete_connect.)            *)
ConnectTellsTheTruth ==
  [][\A i \in Operation :
       op[i].kind = "connect" /\ op[i].phase = "answered" /\ op'[i].phase = "done" =>
         (op'[i].outcome = "ok" <=> op[i].outcome = "ok")]_vars

(* An operation that has completed is over: the awaiter of a connect is not     *)
(* told that it is still in progress. (complete_connect, ConnectResult.)        *)
ConnectIsOver ==
  \A i \in Operation :
    op[i].kind = "connect" /\ op[i].phase = "done" => op[i].outcome # "in_progress"

=============================================================================
