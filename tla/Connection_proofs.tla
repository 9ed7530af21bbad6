-------------------------- MODULE Connection_proofs --------------------------
(***************************************************************************)
(* The /rpc connection, seen from its two ends, for every value of the     *)
(* bounds.                                                                 *)
(*                                                                         *)
(* RpcTransport, the renderer's end: the inductive invariant adds to the   *)
(* checked ones what ties state, socket, timer and generation together.    *)
(*                                                                         *)
(* SessionProcesses, the server's end: every terminal and script that runs *)
(* has somebody who will end it, the guard of a session's script never     *)
(* outlives its run, and a shutdown that returned left no process behind.  *)
(* The first two are inductive with the types.  The third is not: it rests *)
(* on what each phase of the shutdown has already seen the last of.  And a *)
(* removed session leaves no process, but for those opened for a candidate *)
(* while the session was woken.                                            *)
(***************************************************************************)
EXTENDS RpcTransport, SessionProcesses, TLAPS

\* A generation still to be taken is paid for: by the drop that broke the
\* current socket or armed the retry timer.
Owed == IF \/ reconnectTimer # NoTimer
           \/ generation \in Generations /\ sock[generation] = "broken"
        THEN 1 ELSE 0

Budget == generation + Owed <= userOps + drops

\* The current generation's socket is the only one the class may still hear of,
\* and it is never one the class itself closed.
SocketOwnership ==
  /\ \A g \in Generations : g > generation => sock[g] = "none"
  /\ socket # NoSocket => socket = generation /\ Usable(socket)
  /\ \A g \in Generations : g = generation => sock[g] # "closing"

\* The closedByUser tests of onclose and of the retry timer never find it set
\* (close() bumps the generation and clears the timer): they are defensive.
ClosedMeansClosed == closedByUser => state = "closed"

\* The reported state agrees with the socket, whatever callbacks interleave.
StateAgrees ==
  /\ state \in {"connecting", "connected"} <=> socket # NoSocket
  /\ socket # NoSocket =>
       /\ state = "connecting" => sock[socket] = "connecting"
       /\ state = "connected" => sock[socket] \in {"open", "broken"}

IInv ==
  /\ TypeOK
  /\ Budget
  /\ SocketOwnership
  /\ NoOrphanSocket
  /\ StateAgrees
  /\ ClosedMeansClosed
  /\ RetryOnlyWhileReconnecting
  /\ RequestsAccountedFor

USE BoundsAssumption, BackoffAssumption, NoValueAssumption
    DEF BoundsAssumption, BackoffAssumption, NoValueAssumption, Generations, Ids

\* Multiplying by the backoff factor never shortens a delay.
LEMMA BackoffGrows ==
  ASSUME NEW ms \in Nat, NEW factor \in Nat \ {0}
  PROVE  ms * factor \in Nat /\ ms <= ms * factor
  OBVIOUS

\* A new transport satisfies the invariant.
LEMMA InitIInv == Init => IInv
<1> SUFFICES ASSUME Init PROVE IInv
  OBVIOUS
<1> USE DEF Init
<1>0. closedByUser \in BOOLEAN
  OBVIOUS
<1>1. TypeOK
  BY <1>0 DEF TypeOK, ConnectionState, SocketState
<1>2. Budget /\ SocketOwnership /\ NoOrphanSocket /\ StateAgrees /\ ClosedMeansClosed
  BY DEF Budget, Owed, SocketOwnership, NoOrphanSocket, StateAgrees, Usable, ClosedMeansClosed
<1>3. RetryOnlyWhileReconnecting /\ RequestsAccountedFor
  BY DEF RetryOnlyWhileReconnecting, RequestsAccountedFor
<1>4. QED
  BY <1>1, <1>2, <1>3 DEF IInv

\* The fields an environment or stuttering step leaves alone keep everything.
LEMMA StutterIInv == ASSUME IInv, UNCHANGED vars PROVE IInv'
<1> USE DEF vars, IInv
<1>1. TypeOK'
  BY DEF TypeOK, Message, ConnectionState, SocketState
<1>2. (Budget /\ SocketOwnership /\ NoOrphanSocket /\ StateAgrees /\ ClosedMeansClosed)'
  BY DEF Budget, Owed, SocketOwnership, NoOrphanSocket, StateAgrees, Usable, ClosedMeansClosed
<1>3. (RetryOnlyWhileReconnecting /\ RequestsAccountedFor)'
  BY DEF RetryOnlyWhileReconnecting, RequestsAccountedFor
<1>4. QED
  BY <1>1, <1>2, <1>3

\* connect() clears the retry timer before it opens its socket.
LEMMA ConnectIInv == ASSUME IInv, Connect PROVE IInv'
<1> USE DEF IInv, Connect, OpenSocket, ClearReconnectTimer
<1>1. socket = NoSocket
  BY DEF StateAgrees
<1>2. generation + 1 \in Generations
  BY DEF Budget, Owed, TypeOK
<1>0. closedByUser' \in BOOLEAN
  OBVIOUS
<1>3. TypeOK'
  BY <1>0, <1>2 DEF TypeOK, ConnectionState, SocketState
<1>4. Budget'
  BY <1>2 DEF Budget, Owed, TypeOK
<1>5. SocketOwnership' /\ NoOrphanSocket' /\ StateAgrees' /\ ClosedMeansClosed'
  BY <1>1, <1>2 DEF SocketOwnership, NoOrphanSocket, StateAgrees, Usable, TypeOK, ClosedMeansClosed
<1>6. RetryOnlyWhileReconnecting' /\ RequestsAccountedFor'
  BY <1>1 DEF RetryOnlyWhileReconnecting, RequestsAccountedFor, TypeOK
<1>7. QED
  BY <1>3, <1>4, <1>5, <1>6

\* close() takes a generation, rejects what is pending and lets go of the socket.
LEMMA CloseIInv == ASSUME IInv, Close PROVE IInv'
<1> USE DEF IInv, Close, ClearReconnectTimer, RejectAllPending
<1>1. generation + 1 \in Generations
  BY DEF Budget, Owed, TypeOK
<1>0. closedByUser' \in BOOLEAN
  OBVIOUS
<1>2. TypeOK'
  BY <1>0, <1>1 DEF TypeOK, ConnectionState, SocketState
<1>3. Budget' /\ SocketOwnership' /\ NoOrphanSocket' /\ StateAgrees' /\ ClosedMeansClosed'
  BY <1>1 DEF Budget, Owed, SocketOwnership, NoOrphanSocket, StateAgrees, Usable, TypeOK, ClosedMeansClosed
<1>4. RetryOnlyWhileReconnecting'
  BY DEF RetryOnlyWhileReconnecting, TypeOK
<1>5. RequestsAccountedFor'
  BY DEF RequestsAccountedFor, TypeOK
<1>6. QED
  BY <1>2, <1>3, <1>4, <1>5

\* A request is registered only on a usable socket, under a fresh id.
LEMMA SendRequestIInv == ASSUME IInv, SendRequest PROVE IInv'
<1> USE DEF IInv, SendRequest
<1>1. socket \in Generations
  BY DEF TypeOK
<1>2. TypeOK'
  <2>1. wire' \subseteq Message
    BY <1>1 DEF TypeOK, Message
  <2>2. outcome' \in [Ids -> {"none", "ok", "error"}] /\ pending' \subseteq Ids
    BY DEF TypeOK
  <2>3. nextRequestId' \in 1 .. MaxRequests + 1
    BY DEF TypeOK
  <2>4. QED
    BY <2>1, <2>2, <2>3 DEF TypeOK
<1>3. Budget' /\ SocketOwnership' /\ NoOrphanSocket' /\ StateAgrees' /\ ClosedMeansClosed'
  BY DEF Budget, Owed, SocketOwnership, NoOrphanSocket, StateAgrees, Usable, ClosedMeansClosed
<1>4. RetryOnlyWhileReconnecting'
  BY DEF RetryOnlyWhileReconnecting
<1>5. RequestsAccountedFor'
  <2>1. nextRequestId \notin pending /\ outcome[nextRequestId] = "none"
    BY DEF RequestsAccountedFor, TypeOK
  <2>2. ASSUME NEW i \in Ids
        PROVE  /\ i < nextRequestId' <=> (i \in pending' \/ outcome'[i] # "none")
               /\ i \in pending' => outcome'[i] = "none"
    <3>1. CASE i = nextRequestId
      BY <3>1, <2>1 DEF TypeOK
    <3>2. CASE i # nextRequestId
      <4>1. i < nextRequestId' <=> i < nextRequestId
        BY <3>2 DEF TypeOK
      <4>2. (i \in pending' <=> i \in pending) /\ outcome'[i] = outcome[i]
        BY <3>2 DEF TypeOK
      <4>3. QED
        BY <4>1, <4>2 DEF RequestsAccountedFor
    <3>3. QED
      BY <3>1, <3>2
  <2>3. state' = "connected" /\ socket' # NoSocket
    OBVIOUS
  <2>4. QED
    BY <1>2, <2>2, <2>3 DEF RequestsAccountedFor, TypeOK
<1>6. QED
  BY <1>2, <1>3, <1>4, <1>5

\* onopen of the current socket only.
LEMMA OnOpenIInv == ASSUME IInv, NEW g \in Generations, OnOpen(g) PROVE IInv'
<1> USE DEF IInv, OnOpen
<1>1. socket = g /\ g = generation
  BY DEF NoOrphanSocket, Usable, SocketOwnership
<1>2. TypeOK'
  BY DEF TypeOK, ConnectionState, SocketState, Message
<1>3. Budget'
  BY <1>1 DEF Budget, Owed, TypeOK
<1>4. SocketOwnership' /\ NoOrphanSocket' /\ StateAgrees' /\ ClosedMeansClosed'
  BY <1>1 DEF SocketOwnership, NoOrphanSocket, StateAgrees, Usable, TypeOK, ClosedMeansClosed
<1>5. RetryOnlyWhileReconnecting' /\ RequestsAccountedFor'
  BY <1>1 DEF RetryOnlyWhileReconnecting, RequestsAccountedFor, TypeOK, StateAgrees
<1>6. QED
  BY <1>2, <1>3, <1>4, <1>5

\* A reply settles the entry it finds, and that entry leaves the table.
LEMMA OnReplyIInv == ASSUME IInv, NEW m \in wire, OnReply(m) PROVE IInv'
<1> USE DEF IInv, OnReply, Settle
<1>1. TypeOK'
  BY DEF TypeOK, ConnectionState, SocketState, Message
<1>2. Budget' /\ SocketOwnership' /\ NoOrphanSocket' /\ StateAgrees' /\ ClosedMeansClosed'
  BY DEF Budget, Owed, SocketOwnership, NoOrphanSocket, StateAgrees, Usable, ClosedMeansClosed
<1>3. RetryOnlyWhileReconnecting'
  BY DEF RetryOnlyWhileReconnecting
<1>4. RequestsAccountedFor'
  <2>1. m.kind \in {"ok", "error"}
    BY DEF TypeOK, Message
  <2>2. ASSUME NEW i \in Ids
        PROVE  /\ i \in pending' => i \in pending /\ outcome'[i] = outcome[i]
               /\ (i \in pending' \/ outcome'[i] # "none")
                    <=> (i \in pending \/ outcome[i] # "none")
    BY <2>1 DEF TypeOK
  <2>3. pending' # {} => pending # {}
    OBVIOUS
  <2>4. nextRequestId' = nextRequestId /\ state' = state /\ socket' = socket
    OBVIOUS
  <2>5. QED
    BY <1>1, <2>2, <2>3, <2>4 DEF RequestsAccountedFor, TypeOK
<1>5. QED
  BY <1>1, <1>2, <1>3, <1>4

\* A push changes nothing but what was dispatched.
LEMMA OnPushIInv == ASSUME IInv, NEW g \in Generations, OnPush(g) PROVE IInv'
<1> USE DEF IInv, OnPush, fields, env
<1>1. TypeOK'
  BY DEF TypeOK, Message
<1>2. Budget' /\ SocketOwnership' /\ NoOrphanSocket' /\ StateAgrees' /\ ClosedMeansClosed'
  BY DEF Budget, Owed, SocketOwnership, NoOrphanSocket, StateAgrees, Usable, ClosedMeansClosed
<1>3. RetryOnlyWhileReconnecting' /\ RequestsAccountedFor'
  BY DEF RetryOnlyWhileReconnecting, RequestsAccountedFor
<1>4. QED
  BY <1>1, <1>2, <1>3

\* onclose of the current socket rejects what is pending and arms the one timer.
LEMMA OnCloseIInv == ASSUME IInv, NEW g \in Generations, OnClose(g) PROVE IInv'
<1> USE DEF IInv, OnClose, RejectAllPending, ScheduleReconnect
<1>1. g = generation => sock[g] \in {"connecting", "open", "broken"} /\ socket = g
  BY DEF SocketOwnership, NoOrphanSocket, Usable
<1>2. g # generation => sock[g] = "closing" /\ socket # g
  BY DEF SocketOwnership, NoOrphanSocket, Usable, TypeOK
<1>3. g = generation => reconnectTimer = NoTimer
  BY <1>1 DEF StateAgrees, RetryOnlyWhileReconnecting, TypeOK
<1>4. currentBackoffMs' \in InitialMs .. MaxMs
  <2>1. currentBackoffMs \in Nat /\ InitialMs <= currentBackoffMs /\ currentBackoffMs <= MaxMs
    BY DEF TypeOK
  <2>2. currentBackoffMs * Factor \in Nat /\ currentBackoffMs <= currentBackoffMs * Factor
    BY <2>1, BackoffGrows
  <2>3. QED
    BY <2>1, <2>2
<1>5. TypeOK'
  <2>1. drops' \in 0 .. MaxDrops
    BY DEF TypeOK
  <2>2. wire' \subseteq Message
    BY DEF TypeOK
  <2>3. sock' \in [Generations -> SocketState]
    BY DEF TypeOK, SocketState
  <2>4. outcome' \in [Ids -> {"none", "ok", "error"}] /\ pending' \subseteq Ids
    BY DEF TypeOK
  <2>5. /\ state' \in ConnectionState
        /\ socket' \in Generations \cup {NoSocket}
        /\ reconnectTimer' \in Generations \cup {NoTimer}
        /\ armed' \subseteq Generations
    BY DEF TypeOK, ConnectionState
  <2>6. QED
    BY <1>4, <2>1, <2>2, <2>3, <2>4, <2>5 DEF TypeOK
<1>6. Budget'
  BY <1>1, <1>2, <1>3 DEF Budget, Owed, TypeOK, SocketOwnership
<1>7. SocketOwnership' /\ NoOrphanSocket' /\ StateAgrees' /\ ClosedMeansClosed'
  BY <1>1, <1>2 DEF SocketOwnership, NoOrphanSocket, StateAgrees, Usable, TypeOK, ClosedMeansClosed
<1>8. RetryOnlyWhileReconnecting'
  <2>1. CASE g = generation
    <3>1. armed = {} /\ ~closedByUser
      BY <2>1, <1>1, <1>3 DEF RetryOnlyWhileReconnecting, StateAgrees, ClosedMeansClosed
    <3>2. armed' = {g} /\ reconnectTimer' = g /\ state' = "reconnecting"
      BY <2>1, <3>1
    <3>3. QED
      BY <3>2 DEF RetryOnlyWhileReconnecting
  <2>2. CASE g # generation
    BY <2>2 DEF RetryOnlyWhileReconnecting
  <2>3. QED
    BY <2>1, <2>2
<1>9. RequestsAccountedFor'
  BY <1>1, <1>2 DEF RequestsAccountedFor, TypeOK
<1>10. QED
  BY <1>5, <1>6, <1>7, <1>8, <1>9

\* The retry timer takes the generation its drop paid for.
LEMMA TimerFiresIInv == ASSUME IInv, NEW t \in armed, TimerFires(t) PROVE IInv'
<1> USE DEF IInv, TimerFires, OpenSocket
<1>1. /\ armed = {reconnectTimer} /\ reconnectTimer = t /\ t # NoTimer
      /\ state = "reconnecting" /\ socket = NoSocket
  BY DEF RetryOnlyWhileReconnecting, StateAgrees, TypeOK
<1>2. generation + 1 \in Generations
  BY <1>1 DEF Budget, Owed, TypeOK
<1>3. ~closedByUser
  BY <1>1 DEF ClosedMeansClosed
<1>4. TypeOK'
  BY <1>2 DEF TypeOK, ConnectionState, SocketState, Message
<1>5. Budget'
  BY <1>1, <1>2 DEF Budget, Owed, TypeOK
<1>6. SocketOwnership' /\ NoOrphanSocket' /\ StateAgrees' /\ ClosedMeansClosed'
  BY <1>1, <1>2 DEF SocketOwnership, NoOrphanSocket, StateAgrees, Usable, TypeOK, ClosedMeansClosed
<1>7. RetryOnlyWhileReconnecting'
  <2>1. armed' = {} /\ reconnectTimer' = NoTimer /\ state' = "connecting"
    BY <1>1, <1>3
  <2>2. QED
    BY <2>1 DEF RetryOnlyWhileReconnecting
<1>8. RequestsAccountedFor'
  BY <1>1 DEF RequestsAccountedFor
<1>9. QED
  BY <1>4, <1>5, <1>6, <1>7, <1>8

\* The server answers a request once; no field changes.
LEMMA ServerReplyIInv == ASSUME IInv, NEW m \in wire, ServerReply(m) PROVE IInv'
<1> USE DEF IInv, ServerReply, fields
<1>1. wire' \subseteq Message
  BY DEF TypeOK, Message
<1>2. TypeOK'
  BY <1>1 DEF TypeOK
<1>3. Budget' /\ SocketOwnership' /\ NoOrphanSocket' /\ StateAgrees' /\ ClosedMeansClosed'
  BY DEF Budget, Owed, SocketOwnership, NoOrphanSocket, StateAgrees, Usable, ClosedMeansClosed
<1>4. RetryOnlyWhileReconnecting' /\ RequestsAccountedFor'
  BY DEF RetryOnlyWhileReconnecting, RequestsAccountedFor
<1>5. QED
  BY <1>2, <1>3, <1>4

\* A broken socket still owes its close event.
LEMMA BreakIInv == ASSUME IInv, NEW g \in Generations, Break(g) PROVE IInv'
<1> USE DEF IInv, Break, fields
<1>1. g = generation /\ socket = g /\ reconnectTimer = NoTimer
  BY DEF SocketOwnership, NoOrphanSocket, Usable, StateAgrees,
         RetryOnlyWhileReconnecting, TypeOK
<1>2. TypeOK'
  BY DEF TypeOK, SocketState
<1>3. Budget'
  BY <1>1 DEF Budget, Owed, TypeOK
<1>4. SocketOwnership' /\ NoOrphanSocket' /\ StateAgrees' /\ ClosedMeansClosed'
  BY <1>1 DEF SocketOwnership, NoOrphanSocket, StateAgrees, Usable, TypeOK, ClosedMeansClosed
<1>5. RetryOnlyWhileReconnecting' /\ RequestsAccountedFor'
  BY DEF RetryOnlyWhileReconnecting, RequestsAccountedFor
<1>6. QED
  BY <1>2, <1>3, <1>4, <1>5

\* Every step keeps the invariant.
LEMMA NextIInv == IInv /\ [Next]_vars => IInv'
<1> SUFFICES ASSUME IInv, [Next]_vars PROVE IInv'
  OBVIOUS
<1>1. CASE Connect
  BY <1>1, ConnectIInv
<1>2. CASE Close
  BY <1>2, CloseIInv
<1>3. CASE SendRequest
  BY <1>3, SendRequestIInv
<1>4. ASSUME NEW g \in Generations, OnOpen(g) \/ OnPush(g) \/ OnClose(g) \/ Break(g)
      PROVE  IInv'
  BY <1>4, OnOpenIInv, OnPushIInv, OnCloseIInv, BreakIInv
<1>5. ASSUME NEW t \in armed, TimerFires(t) PROVE IInv'
  BY <1>5, TimerFiresIInv
<1>6. ASSUME NEW m \in wire, OnReply(m) \/ ServerReply(m) PROVE IInv'
  BY <1>6, OnReplyIInv, ServerReplyIInv
<1>7. CASE UNCHANGED vars
  BY <1>7, StutterIInv
<1>8. QED
  BY <1>1, <1>2, <1>3, <1>4, <1>5, <1>6, <1>7 DEF Next

\* The state, the socket, the timer and the pending table of the class agree in
\* every reachable state.
THEOREM InductiveInvariant == Spec => []IInv
  BY InitIInv, NextIInv, PTL DEF Spec

-----------------------------------------------------------------------------
\* Every variable keeps its type, however many drops, calls and requests.
THEOREM TypeCorrect == Spec => []TypeOK
<1>1. IInv => TypeOK
  BY DEF IInv
<1>2. QED
  BY <1>1, InductiveInvariant, PTL

\* connect() during backoff, close() at any time and late callbacks of old
\* sockets never leave a second connection up that the transport forgot.
THEOREM NeverAnOrphanSocket == Spec => []NoOrphanSocket
<1>1. IInv => NoOrphanSocket
  BY DEF IInv
<1>2. QED
  BY <1>1, InductiveInvariant, PTL

\* The one armed timer is the one the transport holds, and only while it waits
\* to retry.
THEOREM OneRetryTimer == Spec => []RetryOnlyWhileReconnecting
<1>1. IInv => RetryOnlyWhileReconnecting
  BY DEF IInv
<1>2. QED
  BY <1>1, InductiveInvariant, PTL

\* No promise of a request is lost: each waits on a live connection or is settled.
THEOREM NoRequestLost == Spec => []RequestsAccountedFor
<1>1. IInv => RequestsAccountedFor
  BY DEF IInv
<1>2. QED
  BY <1>1, InductiveInvariant, PTL

\* onPush is never called while the transport is not connected.
THEOREM SilenceUnlessConnected == Spec => SilentUnlessConnected
<1>1. IInv /\ [Next]_vars => [dispatched' # dispatched => state = "connected"]_vars
  <2> SUFFICES ASSUME IInv, Next, dispatched' # dispatched
               PROVE  state = "connected"
    OBVIOUS
  <2>1. PICK g \in Generations : OnPush(g)
    BY DEF Next, Connect, Close, SendRequest, OnOpen, OnClose, Break,
           TimerFires, OnReply, Settle, ServerReply
  <2>2. sock[g] = "open" /\ socket = g
    BY <2>1 DEF OnPush, IInv, SocketOwnership, NoOrphanSocket, Usable
  <2>3. QED
    BY <2>2 DEF IInv, StateAgrees
<1>2. QED
  BY <1>1, InductiveInvariant, PTL DEF Spec, SilentUnlessConnected

\* A promise is settled once: no later reply, drop or close settles it again.
THEOREM SettledAtMostOnce == Spec => SettledOnce
<1> DEFINE Keep == \A i \in Ids : outcome[i] # "none" =>
                     outcome'[i] = outcome[i] /\ i \notin pending'
<1>1. IInv /\ [Next]_vars => [Keep]_vars
  <2> SUFFICES ASSUME IInv, Next, NEW i \in Ids, outcome[i] # "none"
               PROVE  outcome'[i] = outcome[i] /\ i \notin pending'
    OBVIOUS
  <2>1. i \notin pending /\ i < nextRequestId
    BY DEF IInv, RequestsAccountedFor
  <2>2. CASE SendRequest
    BY <2>1, <2>2 DEF SendRequest, IInv, TypeOK
  <2>3. CASE Close \/ \E g \in Generations : OnClose(g)
    BY <2>1, <2>3 DEF Close, OnClose, RejectAllPending, IInv, TypeOK
  <2>4. CASE \E m \in wire : OnReply(m)
    BY <2>1, <2>4 DEF OnReply, Settle, IInv, TypeOK
  <2>5. CASE outcome' = outcome /\ pending' = pending
    BY <2>1, <2>5
  <2>6. QED
    BY <2>2, <2>3, <2>4, <2>5
       DEF Next, Connect, OnOpen, OnPush, Break, TimerFires, ServerReply, fields
<1>2. QED
  BY <1>1, InductiveInvariant, PTL DEF Spec, SettledOnce

\* Every step of the transport is a step of the promises it makes, or none: the map of
\* waiting requests and the settled promises implement Promises.
LEMMA StepIsAPromiseStep ==
  ASSUME IInv, Next
  PROVE  Promise!Next \/ UNCHANGED <<pending, outcome>>
<1> USE DEF Promise!Next
<1>1. CASE SendRequest
  <2> DEFINE j == nextRequestId
  <2>1. j \in Ids /\ j \notin pending /\ outcome[j] = "none"
    BY <1>1 DEF SendRequest, IInv, RequestsAccountedFor, TypeOK
  <2>2. CASE pending' = pending \cup {j} /\ UNCHANGED outcome
    <3>1. Promise!Open(j)
      BY <2>1, <2>2 DEF Promise!Open, Promise!Fresh
    <3>2. QED
      BY <3>1, <2>1
  <2>3. CASE outcome' = [outcome EXCEPT ![j] = "error"] /\ UNCHANGED pending
    <3>1. outcome'[j] = "error"
      BY <2>1, <2>3 DEF IInv, TypeOK
    <3>2. outcome' = [outcome EXCEPT ![j] = outcome'[j]]
      BY <2>3, <3>1
    <3>3. Promise!Refuse(j)
      BY <2>1, <2>3, <3>1, <3>2 DEF Promise!Refuse, Promise!Fresh
    <3>4. QED
      BY <3>3, <2>1
  <2>4. QED
    BY <1>1, <2>2, <2>3 DEF SendRequest
<1>2. CASE RejectAllPending
  <2>1. pending \in SUBSET Ids
    BY DEF IInv, TypeOK
  <2>2. outcome' = [i \in Ids |-> IF i \in pending THEN outcome'[i] ELSE outcome[i]]
    BY <1>2 DEF RejectAllPending
  <2>3. \A i \in pending : outcome'[i] # "none"
    BY <1>2, <2>1 DEF RejectAllPending
  <2>4. Promise!Settle(pending)
    BY <1>2, <2>2, <2>3 DEF RejectAllPending, Promise!Settle
  <2>5. QED
    BY <2>1, <2>4
<1>3. ASSUME NEW m \in wire, m.id \in pending, m.kind # "request", Settle(m)
      PROVE  Promise!Next
  <2>1. m.id \in Ids /\ m.kind # "none" /\ {m.id} \in SUBSET Ids
    BY <1>3 DEF IInv, TypeOK, Message
  <2>2. outcome'[m.id] = m.kind /\ DOMAIN outcome = Ids
    BY <1>3, <2>1 DEF Settle, IInv, TypeOK
  <2>3. outcome' = [i \in Ids |-> IF i \in {m.id} THEN outcome'[i] ELSE outcome[i]]
    BY <1>3, <2>1, <2>2 DEF Settle, IInv, TypeOK
  <2>4. Promise!Settle({m.id})
    BY <1>3, <2>1, <2>2, <2>3 DEF Settle, Promise!Settle
  <2>5. QED
    BY <2>1, <2>4
<1>4. CASE Close
  BY <1>2, <1>4 DEF Close
<1>5. ASSUME NEW g \in Generations, OnClose(g)
      PROVE  Promise!Next \/ UNCHANGED <<pending, outcome>>
  BY <1>2, <1>5 DEF OnClose
<1>6. ASSUME NEW m \in wire, OnReply(m)
      PROVE  Promise!Next \/ UNCHANGED <<pending, outcome>>
  BY <1>3, <1>6 DEF OnReply
<1>7. QED
  BY <1>1, <1>4, <1>5, <1>6
     DEF Next, Connect, OnOpen, OnPush, Break, TimerFires, ServerReply, fields

\* The transport implements the abstract contract of an asynchronous job.
THEOREM RequestsImplementPromises == Spec => RequestsArePromises
<1>1. Init => Promise!Init
  BY DEF Init, Promise!Init
<1>2. IInv /\ [Next]_vars => [Promise!Next]_(Promise!jobVars)
  BY StepIsAPromiseStep DEF vars, Promise!jobVars
<1>3. QED
  BY <1>1, <1>2, InductiveInvariant, PTL DEF Spec, RequestsArePromises, Promise!Spec

-----------------------------------------------------------------------------
(* Terminals and scripts.                                                  *)

\* Once the handlers are drained nothing is being opened, once the sweep has begun
\* nothing is owned, and once it is over nothing is closing.
PhasesSweep ==
  /\ phase \in {"drained", "swept", "closed"} => \A p \in Procs : proc[p].at # "opening"
  /\ phase \in {"swept", "closed"} => \A p \in Procs : proc[p].at # "owned"
  /\ phase = "closed" => \A p \in Procs : proc[p].at # "closing"

ProcInv == ProcTypeOK /\ ProcessesHaveOwners /\ GuardIsHonest /\ PhasesSweep

USE DEF NoObject

LEMMA InitProcInv == ProcInit => ProcInv
<1>1. 1 \in Objects
  BY ObjectsAssumption DEF Objects
<1> QED
  BY <1>1 DEF ProcInit, ProcInv, ProcTypeOK, Process, Unopened, ProcessesHaveOwners, GuardIsHonest, PhasesSweep

\* Who is reaped by an exit: what is owned over a connection that is hooked to the object.
LEMMA ReapedAre ==
  ASSUME ProcTypeOK, NEW o \in Objects
  PROVE  /\ Reaped(o) \subseteq Procs
         /\ \A p \in Procs : p \in Reaped(o) <=> proc[p].at = "owned" /\ hook[proc[p].by] = o
BY DEF ProcTypeOK, Process, Reaped, OwnedBy

\* What an exit, a close or a sweep does to the table of processes.
LEMMA ClosingIs ==
  ASSUME ProcTypeOK, NEW ps \in SUBSET Procs, \A p \in ps : proc[p].at # "none" /\ proc[p].on # NoObject
  PROVE  /\ Closing(proc, ps) \in [Procs -> Process]
         /\ \A p \in Procs :
              /\ Closing(proc, ps)[p].kind = proc[p].kind
              /\ Closing(proc, ps)[p].by = proc[p].by
              /\ Closing(proc, ps)[p].on = proc[p].on
              /\ Closing(proc, ps)[p].at = IF p \in ps THEN "closing" ELSE proc[p].at
BY DEF ProcTypeOK, Process, Closing

\* The exit of an object, published in the phase the server is in.
LEMMA ExitKeeps ==
  ASSUME ProcInv, NEW o \in Objects, ExitOf(o),
         entry' \in Objects \cup {NoObject}, held' \in Objects \cup {NoObject},
         held' # NoObject => entry' # NoObject,
         life' \in [Objects -> {"none", "live", "parked", "ended", "adopted"}],
         phase' = phase \/ (phase = "closing" /\ phase' = "stopped")
  PROVE  ProcInv'
<1>0. ProcTypeOK
  BY DEF ProcInv
<1>1. /\ Reaped(o) \subseteq Procs
      /\ \A p \in Procs : p \in Reaped(o) <=> proc[p].at = "owned" /\ hook[proc[p].by] = o
  BY <1>0, ReapedAre
<1>2. \A p \in Reaped(o) : proc[p].at # "none" /\ proc[p].on # NoObject
  BY <1>0, <1>1 DEF ProcTypeOK
<1>3. /\ proc' \in [Procs -> Process]
      /\ \A p \in Procs :
           /\ proc'[p].kind = proc[p].kind /\ proc'[p].by = proc[p].by /\ proc'[p].on = proc[p].on
           /\ proc'[p].at = IF p \in Reaped(o) THEN "closing" ELSE proc[p].at
  BY <1>0, <1>1, <1>2, ClosingIs DEF ExitOf
<1>4. ProcTypeOK'
  BY <1>0, <1>1, <1>2, <1>3 DEF ExitOf, ProcTypeOK
<1>5. ProcessesHaveOwners'
  BY <1>0, <1>1, <1>3 DEF ProcInv, ExitOf, ProcTypeOK, ProcessesHaveOwners
<1>6. GuardIsHonest'
  BY <1>0, <1>3 DEF ProcInv, ExitOf, ProcTypeOK, GuardIsHonest
<1>7. PhasesSweep'
  BY <1>0, <1>1, <1>3 DEF ProcInv, PhasesSweep
<1> QED
  BY <1>4, <1>5, <1>6, <1>7 DEF ProcInv

\* A spawn begins while the server serves: whoever opens is the owner to be.
LEMMA OpenKeeps ==
  ASSUME ProcInv, NEW k \in Connections, NEW p \in Procs, NEW kind \in {"terminal", "script"},
         Open(k, p, kind)
  PROVE  ProcInv'
<1> DEFINE opened == [at |-> "opening", kind |-> kind, by |-> k, on |-> entry, heard |-> FALSE]
<1>1. opened \in Process /\ opened.on # NoObject
  BY DEF ProcInv, ProcTypeOK, Open, Process
<1>2. /\ proc' \in [Procs -> Process]
      /\ proc'[p] = opened /\ \A q \in Procs \ {p} : proc'[q] = proc[q]
  BY <1>1 DEF ProcInv, ProcTypeOK, Open
<1>3. p \notin alive /\ p \notin paused
  BY DEF ProcInv, ProcTypeOK, ProcessesHaveOwners, Open
<1>4. ProcTypeOK'
  BY <1>1, <1>2, <1>3 DEF ProcInv, ProcTypeOK, Open, session, flow
<1>5. ProcessesHaveOwners'
  BY <1>2 DEF ProcInv, ProcessesHaveOwners, Open, session
<1>6. GuardIsHonest'
  BY <1>2, <1>3 DEF ProcInv, ProcTypeOK, GuardIsHonest, Open
<1>7. PhasesSweep'
  BY DEF PhasesSweep, Open, session
<1> QED
  BY <1>4, <1>5, <1>6, <1>7 DEF ProcInv

\* The handler resumes: the process is reaped, closed with its session, or owned and
\* hooked.
LEMMA OpenedKeeps ==
  ASSUME ProcInv, NEW p \in Procs, Opened(p)
  PROVE  ProcInv'
<1> DEFINE k == proc[p].by
           o == proc[p].on
           heard == [proc EXCEPT ![p].heard = TRUE]
           mine == {p} \cup OwnedBy(k)
<1>1. proc[p].at = "opening" /\ k \in Connections /\ o \in Objects
  BY DEF ProcInv, ProcTypeOK, Process, Opened
<1>2. \/ guard' \in {guard, NoProc}
      \/ guard' = p /\ p \in alive /\ proc[p].kind = "script"
  BY DEF ProcInv, ProcTypeOK, Opened, Guarded
<1>3. phase' = phase /\ phase \notin {"drained", "swept", "closed"}
  BY <1>1 DEF ProcInv, PhasesSweep, Opened, session
<1>8. UNCHANGED <<entry, held, life, phase, conn, alive, buffer>>
  BY DEF Opened, session
<1>9. proc \in [Procs -> Process]
  BY DEF ProcInv, ProcTypeOK
<1> HIDE DEF mine, heard
<1>4. mine \subseteq Procs /\ p \in mine
      /\ \A q \in Procs : q \in mine <=> q = p \/ (proc[q].at = "owned" /\ proc[q].by = k)
  BY DEF ProcInv, ProcTypeOK, OwnedBy, mine
<1>5. CASE conn[k] = "closed"
  <2>0. proc' = Closing(proc, {p})
    BY <1>1, <1>5 DEF Opened
  <2>1. UNCHANGED <<hook, paused, poll>>
    BY <1>1, <1>5 DEF Opened
  <2>2. /\ proc' \in [Procs -> Process]
        /\ \A q \in Procs :
             /\ proc'[q].kind = proc[q].kind /\ proc'[q].by = proc[q].by /\ proc'[q].on = proc[q].on
             /\ proc'[q].at = IF q = p THEN "closing" ELSE proc[q].at
    BY <1>9, <2>0 DEF Closing, Process
  <2>3. ProcTypeOK'
    BY <1>1, <1>2, <1>8, <2>1, <2>2 DEF ProcInv, ProcTypeOK
  <2>4. ProcessesHaveOwners'
    BY <1>1, <1>8, <2>1, <2>2 DEF ProcInv, ProcTypeOK, ProcessesHaveOwners
  <2>5. GuardIsHonest' /\ PhasesSweep'
    BY <1>2, <1>3, <1>8, <2>2 DEF ProcInv, ProcTypeOK, GuardIsHonest, PhasesSweep
  <2> QED
    BY <2>3, <2>4, <2>5 DEF ProcInv
<1>6. CASE conn[k] # "closed" /\ hook[k] = NoObject /\ life[o] = "ended"
  <2>1. proc' = Closing(heard, mine) /\ StopPoll(k, mine) /\ UNCHANGED hook
    BY <1>1, <1>6 DEF Opened, mine, heard
  <2>2. /\ proc' \in [Procs -> Process]
        /\ \A q \in Procs :
             /\ proc'[q].kind = proc[q].kind /\ proc'[q].by = proc[q].by /\ proc'[q].on = proc[q].on
             /\ proc'[q].at = IF q \in mine THEN "closing" ELSE proc[q].at
    <3>1. /\ heard \in [Procs -> Process]
          /\ \A q \in Procs : /\ heard[q].kind = proc[q].kind /\ heard[q].by = proc[q].by
                             /\ heard[q].on = proc[q].on /\ heard[q].at = proc[q].at
      BY <1>9 DEF heard, Process
    <3> QED
      BY <1>4, <2>1, <3>1 DEF Closing, Process
  <2>3. ProcTypeOK'
    BY <1>1, <1>2, <1>4, <1>8, <2>1, <2>2 DEF ProcInv, ProcTypeOK, StopPoll
  <2>4. ProcessesHaveOwners'
    BY <1>1, <1>4, <1>8, <2>1, <2>2 DEF ProcInv, ProcTypeOK, ProcessesHaveOwners
  <2>5. GuardIsHonest' /\ PhasesSweep'
    BY <1>2, <1>3, <1>8, <2>2 DEF ProcInv, ProcTypeOK, GuardIsHonest, PhasesSweep
  <2> QED
    BY <2>3, <2>4, <2>5 DEF ProcInv
<1>7. CASE conn[k] # "closed" /\ ~(hook[k] = NoObject /\ life[o] = "ended")
  <2>1. /\ proc' = [proc EXCEPT ![p].at = "owned", ![p].heard = TRUE]
        /\ hook' = [hook EXCEPT ![k] = IF @ = NoObject THEN o ELSE @]
        /\ UNCHANGED <<paused, poll>>
    BY <1>1, <1>7 DEF Opened
  <2>2. /\ proc' \in [Procs -> Process]
        /\ \A q \in Procs :
             /\ proc'[q].kind = proc[q].kind /\ proc'[q].by = proc[q].by /\ proc'[q].on = proc[q].on
             /\ proc'[q].at = IF q = p THEN "owned" ELSE proc[q].at
    BY <1>9, <2>1 DEF Process
  <2>3. ProcTypeOK'
    BY <1>1, <1>2, <1>8, <2>1, <2>2 DEF ProcInv, ProcTypeOK
  <2>4. ProcessesHaveOwners'
    BY <1>1, <1>7, <1>8, <2>1, <2>2 DEF ProcInv, ProcTypeOK, ProcessesHaveOwners
  <2>5. GuardIsHonest' /\ PhasesSweep'
    BY <1>2, <1>3, <1>8, <2>2 DEF ProcInv, ProcTypeOK, GuardIsHonest, PhasesSweep
  <2> QED
    BY <2>3, <2>4, <2>5 DEF ProcInv
<1> QED
  BY <1>5, <1>6, <1>7

\* A process is closed on request.
LEMMA CloseProcessKeeps ==
  ASSUME ProcInv, NEW p \in Procs, CloseProcess(p)
  PROVE  ProcInv'
<1>1. proc[p].at = "owned" /\ proc[p].by \in Connections /\ proc[p].on # NoObject
  BY DEF ProcInv, ProcTypeOK, CloseProcess
<1>2. /\ proc' \in [Procs -> Process]
      /\ \A q \in Procs :
           /\ proc'[q].kind = proc[q].kind /\ proc'[q].by = proc[q].by /\ proc'[q].on = proc[q].on
           /\ proc'[q].at = IF q = p THEN "closing" ELSE proc[q].at
  BY <1>1, ClosingIs DEF ProcInv, CloseProcess
<1>3. paused' \subseteq paused /\ poll' \in [Connections -> BOOLEAN]
  BY <1>1 DEF ProcInv, ProcTypeOK, CloseProcess, StopPoll
<1>7. UNCHANGED <<entry, held, life, phase, conn, alive, guard, hook, buffer>>
  BY DEF CloseProcess, session
<1>4. ProcTypeOK'
  BY <1>1, <1>2, <1>3, <1>7 DEF ProcInv, ProcTypeOK
<1>5. ProcessesHaveOwners'
  BY <1>2, <1>7 DEF ProcInv, ProcTypeOK, ProcessesHaveOwners
<1>6. GuardIsHonest' /\ PhasesSweep'
  BY <1>1, <1>2 DEF ProcInv, ProcTypeOK, GuardIsHonest, PhasesSweep, CloseProcess, session
<1> QED
  BY <1>4, <1>5, <1>6 DEF ProcInv

\* A connection drops: what it owns closes with it.
LEMMA DropKeeps ==
  ASSUME ProcInv, NEW k \in Connections, Drop(k)
  PROVE  ProcInv'
<1> DEFINE dropped == OwnedBy(k)
<1>1. \A q \in Procs : q \in dropped <=> proc[q].at = "owned" /\ proc[q].by = k
  BY DEF OwnedBy
<1>2. /\ UNCHANGED <<entry, held, life, phase, alive, guard, buffer>>
      /\ conn' = [conn EXCEPT ![k] = "closed"] /\ hook' = [hook EXCEPT ![k] = NoObject]
      /\ paused' \subseteq paused /\ poll' = [poll EXCEPT ![k] = FALSE]
  BY DEF Drop, session
<1>3. /\ proc \in [Procs -> Process]
      /\ proc' = [q \in Procs |-> IF q \in dropped THEN [proc[q] EXCEPT !.at = "closing", !.heard = FALSE]
                                                    ELSE proc[q]]
  BY DEF ProcInv, ProcTypeOK, Drop
<1> HIDE DEF dropped
<1>4. /\ proc' \in [Procs -> Process]
      /\ \A q \in Procs :
           /\ proc'[q].kind = proc[q].kind /\ proc'[q].by = proc[q].by /\ proc'[q].on = proc[q].on
           /\ proc'[q].at = IF q \in dropped THEN "closing" ELSE proc[q].at
  BY <1>3 DEF Process
<1>5. ProcTypeOK'
  BY <1>1, <1>2, <1>4 DEF ProcInv, ProcTypeOK
<1>6. ProcessesHaveOwners'
  BY <1>1, <1>2, <1>4 DEF ProcInv, ProcTypeOK, ProcessesHaveOwners
<1>7. GuardIsHonest' /\ PhasesSweep'
  BY <1>1, <1>2, <1>4 DEF ProcInv, ProcTypeOK, GuardIsHonest, PhasesSweep
<1> QED
  BY <1>5, <1>6, <1>7 DEF ProcInv

\* A process ends, and with it the guard that names it.
LEMMA EndsKeeps ==
  ASSUME ProcInv, NEW p \in Procs, Ends(p)
  PROVE  ProcInv'
BY DEF ProcInv, ProcTypeOK, ProcessesHaveOwners, GuardIsHonest, PhasesSweep, Ends, session, flow

\* A scope closes behind a process that has ended.
LEMMA ClosedKeeps ==
  ASSUME ProcInv, NEW p \in Procs, Closed(p)
  PROVE  ProcInv'
<1>1. /\ proc' \in [Procs -> Process]
      /\ \A q \in Procs :
           /\ proc'[q].kind = proc[q].kind /\ proc'[q].by = proc[q].by
           /\ proc'[q].on = IF q = p THEN NoObject ELSE proc[q].on
           /\ proc'[q].at = IF q = p THEN "closed" ELSE proc[q].at
  BY DEF ProcInv, ProcTypeOK, Process, Closed
<1>2. /\ UNCHANGED <<entry, held, life, phase, conn, alive, guard, hook, paused, poll, buffer>>
      /\ proc[p].at = "closing" /\ p \notin alive
  BY DEF Closed, session, flow
<1>3. ProcTypeOK'
  BY <1>1, <1>2 DEF ProcInv, ProcTypeOK
<1>4. ProcessesHaveOwners'
  BY <1>1, <1>2 DEF ProcInv, ProcTypeOK, ProcessesHaveOwners
<1>5. GuardIsHonest' /\ PhasesSweep'
  BY <1>1, <1>2 DEF ProcInv, ProcTypeOK, GuardIsHonest, PhasesSweep
<1> QED
  BY <1>3, <1>4, <1>5 DEF ProcInv

\* What only output, or only the session's objects, move leaves every owner as it was.
LEMMA OwnersStand ==
  ASSUME ProcInv, ProcTypeOK', UNCHANGED <<phase, conn, proc, alive, guard, hook>>
  PROVE  ProcInv'
BY DEF ProcInv, ProcessesHaveOwners, GuardIsHonest, PhasesSweep

\* A terminal prints, and may be paused.
LEMMA OutputKeeps ==
  ASSUME ProcInv, NEW p \in Procs, Output(p)
  PROVE  ProcInv'
<1>1. UNCHANGED <<entry, held, life, phase, conn, proc, alive, guard, hook>>
  BY DEF Output, session, owners
<1>2. proc[p].kind = "terminal" /\ proc[p].by \in Connections
  BY DEF Output, ProcInv, ProcTypeOK
<1>3. buffer' \in [Connections -> {"drained", "busy", "full"}]
  BY <1>2 DEF Output, Fuller, ProcInv, ProcTypeOK
<1>4. paused' \subseteq paused \cup {p} /\ poll' \in [Connections -> BOOLEAN]
  BY <1>2 DEF Output, ProcInv, ProcTypeOK
<1>5. ProcTypeOK'
  BY <1>1, <1>2, <1>3, <1>4 DEF ProcInv, ProcTypeOK
<1> QED
  BY <1>1, <1>5, OwnersStand

\* The buffer fills, drains, and the poll resumes.
LEMMA FlowKeeps ==
  ASSUME ProcInv, NEW k \in Connections, OtherTraffic(k) \/ Drains(k) \/ PollResumes(k)
  PROVE  ProcInv'
<1>1. UNCHANGED <<entry, held, life, phase, conn, proc, alive, guard, hook>>
  BY DEF OtherTraffic, Drains, PollResumes, session, owners
<1>2. buffer' \in [Connections -> {"drained", "busy", "full"}]
  BY DEF OtherTraffic, Drains, PollResumes, Fuller, ProcInv, ProcTypeOK
<1>3. paused' \subseteq paused /\ poll' \in [Connections -> BOOLEAN]
  BY DEF OtherTraffic, Drains, PollResumes, ProcInv, ProcTypeOK
<1>4. ProcTypeOK'
  BY <1>1, <1>2, <1>3 DEF ProcInv, ProcTypeOK
<1> QED
  BY <1>1, <1>4, OwnersStand

\* The session moves from object to object without an exit.
LEMMA ObjectsMove ==
  ASSUME ProcInv, Park \/ WakeBegins \/ WakeEnds \/ ResumeEnded
  PROVE  ProcInv'
<1>1. UNCHANGED <<phase, conn, proc, alive, guard, hook, paused, poll, buffer>>
  BY DEF Park, WakeBegins, WakeEnds, ResumeEnded, owners, flow
<1>2. /\ entry' \in Objects \cup {NoObject} /\ held' \in Objects \cup {NoObject}
      /\ held' # NoObject => entry' # NoObject
  BY DEF Park, WakeBegins, WakeEnds, ResumeEnded, Fresh, Objects, ProcInv, ProcTypeOK
<1>3. life' \in [Objects -> {"none", "live", "parked", "ended", "adopted"}]
  BY DEF Park, WakeBegins, WakeEnds, ResumeEnded, Fresh, ProcInv, ProcTypeOK
<1>4. ProcTypeOK'
  BY <1>1, <1>2, <1>3 DEF ProcInv, ProcTypeOK
<1> QED
  BY <1>1, <1>4, OwnersStand

\* pi exits, or a wake fails: an object's exit is published.
LEMMA ExitsKeep ==
  ASSUME ProcInv, PiExits \/ WakeFails
  PROVE  ProcInv'
<1>1. entry \in Objects /\ ExitOf(entry) /\ phase' = phase
  BY DEF PiExits, WakeFails, ProcInv, ProcTypeOK
<1>2. /\ entry' \in Objects \cup {NoObject} /\ held' \in Objects \cup {NoObject}
      /\ held' # NoObject => entry' # NoObject
  BY DEF PiExits, WakeFails, ProcInv, ProcTypeOK
<1>3. life' \in [Objects -> {"none", "live", "parked", "ended", "adopted"}]
  BY DEF PiExits, WakeFails, ProcInv, ProcTypeOK
<1> QED
  BY <1>1, <1>2, <1>3, ExitKeeps

\* The session is destroyed, by itself or with all of them.
LEMMA DestroysKeep ==
  ASSUME ProcInv, Destroy \/ StopSessions
  PROVE  ProcInv'
<1>1. entry' = NoObject /\ held' = NoObject
  BY DEF Destroy, StopSessions
<1>2. phase' = phase \/ (phase = "closing" /\ phase' = "stopped")
  BY DEF Destroy, StopSessions
<1>3. CASE entry # NoObject /\ life[entry] # "ended"
  <2>1. entry \in Objects /\ ExitOf(entry) /\ life' = [life EXCEPT ![entry] = "ended"]
    BY <1>3 DEF Destroy, StopSessions, Stopped, ProcInv, ProcTypeOK
  <2>2. life' \in [Objects -> {"none", "live", "parked", "ended", "adopted"}]
    BY <2>1 DEF ProcInv, ProcTypeOK
  <2> QED
    BY <1>1, <1>2, <2>1, <2>2, ExitKeeps
<1>4. CASE entry = NoObject \/ life[entry] = "ended"
  <2>1. UNCHANGED <<life, conn, proc, alive, guard, hook, paused, poll, buffer>>
    BY <1>4 DEF Destroy, StopSessions, Stopped, owners, flow
  <2> QED
    BY <1>1, <1>2, <2>1 DEF ProcInv, ProcTypeOK, ProcessesHaveOwners, GuardIsHonest, PhasesSweep
<1> QED
  BY <1>3, <1>4

\* The shutdown goes on: each phase begins when there is nothing left for it to wait for.
LEMMA ShutdownKeeps ==
  ASSUME ProcInv, CloseServer \/ Drain \/ Swept
  PROVE  ProcInv'
<1>1. UNCHANGED <<entry, held, life, conn, proc, alive, guard, hook, paused, poll, buffer>>
  BY DEF CloseServer, Drain, Swept, owners, flow
<1> QED
  BY <1>1 DEF CloseServer, Drain, Swept, ProcInv, ProcTypeOK, ProcessesHaveOwners, GuardIsHonest, PhasesSweep

\* The sweep: whatever is still open is closed.
LEMMA SweepKeeps ==
  ASSUME ProcInv, Sweep
  PROVE  ProcInv'
<1> DEFINE swept == {p \in Procs : proc[p].at = "owned"}
<1>1. /\ proc \in [Procs -> Process]
      /\ proc' = Closing(proc, swept)
  BY DEF Sweep, ProcInv, ProcTypeOK
<1>2. /\ proc' \in [Procs -> Process]
      /\ \A q \in Procs :
           /\ proc'[q].kind = proc[q].kind /\ proc'[q].by = proc[q].by /\ proc'[q].on = proc[q].on
           /\ proc'[q].at = IF proc[q].at = "owned" THEN "closing" ELSE proc[q].at
  BY <1>1 DEF Closing, Process
<1>3. /\ UNCHANGED <<entry, held, life, conn, alive, guard, hook, paused, poll, buffer>>
      /\ phase = "drained" /\ phase' = "swept"
  BY DEF Sweep, flow
<1>4. ProcTypeOK'
  BY <1>2, <1>3 DEF ProcInv, ProcTypeOK
<1>5. ProcessesHaveOwners'
  BY <1>2, <1>3 DEF ProcInv, ProcTypeOK, ProcessesHaveOwners
<1>6. GuardIsHonest' /\ PhasesSweep'
  BY <1>2, <1>3 DEF ProcInv, ProcTypeOK, GuardIsHonest, PhasesSweep
<1> QED
  BY <1>4, <1>5, <1>6 DEF ProcInv

LEMMA NextProcInv ==
  ASSUME ProcInv, [ProcNext]_procVars
  PROVE  ProcInv'
<1>1. ASSUME NEW p \in Procs, NEW k \in Connections, NEW kind \in {"terminal", "script"},
             Open(k, p, kind)
      PROVE  ProcInv'
  BY <1>1, OpenKeeps
<1>2. ASSUME NEW p \in Procs,
             Opened(p) \/ CloseProcess(p) \/ Ends(p) \/ Closed(p) \/ Output(p)
      PROVE  ProcInv'
  BY <1>2, OpenedKeeps, CloseProcessKeeps, EndsKeeps, ClosedKeeps, OutputKeeps
<1>3. ASSUME NEW k \in Connections,
             Drop(k) \/ OtherTraffic(k) \/ Drains(k) \/ PollResumes(k)
      PROVE  ProcInv'
  BY <1>3, DropKeeps, FlowKeeps
<1>4. CASE \/ PiExits \/ Park \/ WakeBegins \/ WakeEnds \/ WakeFails \/ ResumeEnded \/ Destroy
           \/ CloseServer \/ StopSessions \/ Drain \/ Sweep \/ Swept
  BY <1>4, ExitsKeep, ObjectsMove, DestroysKeep, ShutdownKeeps, SweepKeeps
<1>5. CASE UNCHANGED procVars
  BY <1>5 DEF procVars, ProcInv, ProcTypeOK, ProcessesHaveOwners, GuardIsHonest, PhasesSweep
<1> QED
  BY <1>1, <1>2, <1>3, <1>4, <1>5 DEF ProcNext

\* Every reachable state is of its type, every process that runs has an owner, the guard
\* is honest, and no phase of the shutdown leaves behind what it was to see the last of.
THEOREM ProcessInvariant == ProcSpec => []ProcInv
<1> QED
  BY InitProcInv, NextProcInv, PTL DEF ProcSpec

\* Every terminal and script that runs has somebody who will end it, the guard names a
\* script that runs, and a shutdown that returned left none (rpcHandler.ts,
\* scriptRunnerGateway.ts, server.ts close): for any number of them.
THEOREM ProcessesStayAccountedFor == ProcSpec => []ProcessesAccountedFor
<1>1. ProcInv => ShutdownSweepsProcesses
  BY DEF ProcInv, ProcTypeOK, ProcessesHaveOwners, PhasesSweep, ShutdownSweepsProcesses
<1>2. ProcInv => ProcessesAccountedFor
  BY <1>1 DEF ProcInv, ProcessesAccountedFor
<1> QED
  BY <1>2, ProcessInvariant, PTL

-----------------------------------------------------------------------------
(* "A removed session can never leave orphan child processes".  It does    *)
(* when a process is opened for the candidate of a wake (the finding of    *)
(* MCProcessesOrphan), whose exit listeners nobody calls once its runtime  *)
(* is adopted.  That is the only way: a connection's exit listener follows *)
(* the object of the session that stays, the parked one while a candidate  *)
(* is in the map, for as long as no process is opened for a candidate.     *)

\* The one thing the theorem excludes.
NoneOpensOnACandidate ==
  held # NoObject => \A p \in Procs : proc[p].at = "opening" => proc[p].on # entry

\* The object the map has, and will have again when a wake is over.
Kept == IF held # NoObject THEN held ELSE entry

\* While a candidate is in the map it runs, and the parked object waits for it.
CandidateIsLive ==
  held # NoObject => entry # held /\ life[entry] = "live" /\ life[held] = "parked"

\* A connection's listener is on that object, which has not ended; a process that is being
\* opened is for it, or for one that ended meanwhile.
ListenersFollow ==
  phase = "serving" =>
    /\ CandidateIsLive
    /\ \A k \in Connections : hook[k] # NoObject => hook[k] = Kept /\ life[Kept] # "ended"
    /\ \A p \in Procs : proc[p].at = "opening" => proc[p].on = Kept \/ life[proc[p].on] = "ended"

\* A step that leaves the session's objects alone, opens nothing, and hooks nobody.
LEMMA ListenersStand ==
  ASSUME ListenersFollow, UNCHANGED <<entry, held, life, hook>>, phase' = "serving" => phase = "serving",
         \A p \in Procs : proc'[p].at = "opening" => proc[p].at = "opening" /\ proc'[p].on = proc[p].on
  PROVE  ListenersFollow'
BY DEF ListenersFollow, CandidateIsLive, Kept

\* What is opened is for the object in the map, which is no candidate.
LEMMA OpenFollows ==
  ASSUME ProcInv, ListenersFollow, NoneOpensOnACandidate',
         NEW k \in Connections, NEW p \in Procs, NEW kind \in {"terminal", "script"}, Open(k, p, kind)
  PROVE  ListenersFollow'
<1>1. /\ proc'[p].at = "opening" /\ proc'[p].on = entry
      /\ \A q \in Procs \ {p} : proc'[q] = proc[q]
      /\ UNCHANGED <<entry, held, life, phase, hook>>
  BY DEF Open, session, ProcInv, ProcTypeOK
<1>2. held = NoObject
  BY <1>1 DEF NoneOpensOnACandidate
<1> QED
  BY <1>1, <1>2 DEF ListenersFollow, CandidateIsLive, Kept

\* The handler resumes: what it hooks has not ended, and so is the object that stays.
LEMMA OpenedFollows ==
  ASSUME ProcInv, ListenersFollow, NEW p \in Procs, Opened(p)
  PROVE  ListenersFollow'
<1> DEFINE k == proc[p].by
           o == proc[p].on
<1>1. UNCHANGED <<entry, held, life, phase>> /\ proc[p].at = "opening" /\ k \in Connections
  BY DEF Opened, session, ProcInv, ProcTypeOK
<1>2. \A q \in Procs : proc'[q].at = "opening" => proc[q].at = "opening" /\ proc'[q].on = proc[q].on
  BY <1>1 DEF Opened, Closing, OwnedBy, ProcInv, ProcTypeOK, Process
<1>3. \A l \in Connections : hook'[l] = hook[l] \/ (hook'[l] = o /\ life[o] # "ended")
  BY <1>1 DEF Opened, ProcInv, ProcTypeOK
<1> QED
  BY <1>1, <1>2, <1>3 DEF ListenersFollow, CandidateIsLive, Kept

\* What a connection does with its processes, and its end.
LEMMA ConnectionsFollow ==
  ASSUME ProcInv, ListenersFollow,
         \/ \E p \in Procs : CloseProcess(p) \/ Ends(p) \/ Closed(p) \/ Output(p)
         \/ \E k \in Connections : OtherTraffic(k) \/ Drains(k) \/ PollResumes(k)
  PROVE  ListenersFollow'
<1>1. UNCHANGED <<entry, held, life, phase, hook>>
  BY DEF CloseProcess, Ends, Closed, Output, OtherTraffic, Drains, PollResumes, session, owners, flow
<1>2. ASSUME NEW p \in Procs, CloseProcess(p) \/ Closed(p)
      PROVE  \A q \in Procs : proc'[q].at = "opening" => proc[q].at = "opening" /\ proc'[q].on = proc[q].on
  <2>1. CASE CloseProcess(p)
    BY <2>1 DEF CloseProcess, Closing, ProcInv, ProcTypeOK, Process
  <2>2. CASE Closed(p)
    <3>1. /\ proc' = [proc EXCEPT ![p].at = "closed", ![p].heard = FALSE, ![p].on = NoObject]
          /\ proc \in [Procs -> Process]
      BY <2>2 DEF Closed, ProcInv, ProcTypeOK
    <3>2. proc'[p].at = "closed" /\ \A q \in Procs \ {p} : proc'[q] = proc[q]
      BY <3>1 DEF Process
    <3> QED
      BY <3>2
  <2> QED
    BY <1>2, <2>1, <2>2
<1>3. ASSUME \/ \E p \in Procs : Ends(p) \/ Output(p)
             \/ \E k \in Connections : OtherTraffic(k) \/ Drains(k) \/ PollResumes(k)
      PROVE  proc' = proc
  BY <1>3 DEF Ends, Output, OtherTraffic, Drains, PollResumes, owners
<1> QED
  BY <1>1, <1>2, <1>3, ListenersStand

LEMMA DropFollows ==
  ASSUME ProcInv, ListenersFollow, NEW k \in Connections, Drop(k)
  PROVE  ListenersFollow'
<1>1. /\ UNCHANGED <<entry, held, life, phase>>
      /\ \A l \in Connections : hook'[l] = hook[l] \/ hook'[l] = NoObject
  BY DEF Drop, session, ProcInv, ProcTypeOK
<1>2. ASSUME NEW q \in Procs, proc'[q].at = "opening"
      PROVE  proc[q].at = "opening" /\ proc'[q].on = proc[q].on
  <2>1. proc \in [Procs -> Process]
    BY DEF ProcInv, ProcTypeOK
  <2>2. CASE q \in OwnedBy(k)
    <3>1. proc'[q] = [proc[q] EXCEPT !.at = "closing", !.heard = FALSE]
      BY <2>2 DEF Drop
    <3>2. proc'[q].at = "closing"
      BY <2>1, <3>1 DEF Process
    <3> QED
      BY <1>2, <3>2
  <2>3. CASE q \notin OwnedBy(k)
    <3>1. proc'[q] = proc[q]
      BY <2>3 DEF Drop
    <3> QED
      BY <1>2, <3>1
  <2> QED
    BY <2>2, <2>3
<1>3. UNCHANGED <<Kept, CandidateIsLive>>
  BY <1>1 DEF Kept, CandidateIsLive
<1>4. \A l \in Connections : hook'[l] # NoObject => hook'[l] = hook[l]
  BY <1>1
<1> QED
  BY <1>1, <1>2, <1>3, <1>4 DEF ListenersFollow

\* The exit of an object: nobody listens to it any more, and nothing begins.
LEMMA ExitFollows ==
  ASSUME ProcInv, NEW o \in Objects, ExitOf(o)
  PROVE  /\ \A k \in Connections : hook'[k] = IF hook[k] = o THEN NoObject ELSE hook[k]
         /\ \A p \in Procs : proc'[p].at = "opening" => proc[p].at = "opening" /\ proc'[p].on = proc[p].on
         /\ \A p \in Procs : proc[p].at = "opening" => proc[p].on \in Objects
BY DEF ExitOf, Closing, Reaped, OwnedBy, ProcInv, ProcTypeOK, Process

\* The session moves from object to object: the one that stays is still the one it was,
\* or ended and lost its listeners.
LEMMA SessionFollows ==
  ASSUME ProcInv, ListenersFollow,
         PiExits \/ Park \/ WakeBegins \/ WakeEnds \/ WakeFails \/ ResumeEnded \/ Destroy
  PROVE  ListenersFollow'
<1>0. /\ entry \in Objects /\ held \in Objects \cup {NoObject} /\ NoObject \notin Objects
      /\ life \in [Objects -> {"none", "live", "parked", "ended", "adopted"}]
      /\ \A k \in Connections : hook[k] \in Objects \cup {NoObject}
      /\ \A p \in Procs : proc[p].at = "opening" => proc[p].on \in Objects
  <2>1. entry # NoObject
    <3>1. entry # NoObject \/ held # NoObject
      BY DEF PiExits, Park, WakeBegins, WakeEnds, WakeFails, ResumeEnded, Destroy
    <3> QED
      BY <3>1 DEF ProcInv, ProcTypeOK
  <2>2. NoObject \notin Objects
    BY DEF Objects
  <2>3. ProcTypeOK
    BY DEF ProcInv
  <2>4. \A p \in Procs : proc[p].at = "opening" => proc[p].on \in Objects
    BY <2>3 DEF ProcTypeOK, Process
  <2> QED
    BY <2>1, <2>2, <2>3, <2>4 DEF ProcTypeOK
<1>1. CASE Park
  BY <1>0, <1>1 DEF Park, owners, ListenersFollow, CandidateIsLive, Kept
<1>2. CASE WakeBegins
  <2>1. /\ entry' \in Objects /\ life[entry'] = "none" /\ life' = [life EXCEPT ![entry'] = "live"]
        /\ held = NoObject /\ held' = entry /\ life[entry] = "parked"
        /\ UNCHANGED <<phase, proc, hook>>
    BY <1>2 DEF WakeBegins, Fresh, owners
  <2> QED
    BY <1>0, <2>1 DEF ListenersFollow, CandidateIsLive, Kept
<1>3. CASE WakeEnds
  <2>1. /\ life' = [life EXCEPT ![held] = "live", ![entry] = "adopted"]
        /\ entry' = held /\ held' = NoObject /\ held \in Objects
        /\ UNCHANGED <<phase, proc, hook>>
    BY <1>0, <1>3 DEF WakeEnds, owners
  <2> QED
    BY <1>0, <2>1 DEF ListenersFollow, CandidateIsLive, Kept
<1>4. CASE ResumeEnded
  <2>1. /\ entry' \in Objects /\ life[entry'] = "none" /\ life' = [life EXCEPT ![entry'] = "live"]
        /\ held = NoObject /\ held' = NoObject /\ life[entry] = "ended"
        /\ UNCHANGED <<phase, proc, hook>>
    BY <1>4 DEF ResumeEnded, Fresh, owners
  <2> QED
    BY <1>0, <2>1 DEF ListenersFollow, CandidateIsLive, Kept
<1>5. CASE PiExits \/ WakeFails \/ (Destroy /\ life[entry] # "ended")
  <2>1. /\ ExitOf(entry) /\ life' = [life EXCEPT ![entry] = "ended"] /\ phase' = phase
        /\ \/ held = NoObject /\ held' = NoObject /\ entry' \in {entry, NoObject}
           \/ held # NoObject /\ held' = NoObject /\ entry' = held
    BY <1>5 DEF PiExits, WakeFails, Destroy, Stopped
  <2>2. /\ \A k \in Connections : hook'[k] = IF hook[k] = entry THEN NoObject ELSE hook[k]
        /\ \A p \in Procs : proc'[p].at = "opening" => proc[p].at = "opening" /\ proc'[p].on = proc[p].on
    BY <1>0, <2>1, ExitFollows
  <2> QED
    BY <1>0, <2>1, <2>2 DEF ListenersFollow, CandidateIsLive, Kept
<1>6. CASE Destroy /\ life[entry] = "ended"
  <2>1. /\ UNCHANGED <<life, proc, hook, phase, held>> /\ held = NoObject /\ entry' = NoObject
    BY <1>6 DEF Destroy, Stopped, owners
  <2> QED
    BY <1>0, <1>6, <2>1 DEF ListenersFollow, CandidateIsLive, Kept
<1> QED
  BY <1>1, <1>2, <1>3, <1>4, <1>5, <1>6

LEMMA FollowNext ==
  ASSUME ProcInv, ListenersFollow, NoneOpensOnACandidate', [ProcNext]_procVars
  PROVE  ListenersFollow'
<1>1. ASSUME NEW p \in Procs, NEW k \in Connections, NEW kind \in {"terminal", "script"},
             Open(k, p, kind)
      PROVE  ListenersFollow'
  BY <1>1, OpenFollows
<1>2. ASSUME NEW p \in Procs, Opened(p)
      PROVE  ListenersFollow'
  BY <1>2, OpenedFollows
<1>3. CASE \/ \E p \in Procs : CloseProcess(p) \/ Ends(p) \/ Closed(p) \/ Output(p)
           \/ \E k \in Connections : OtherTraffic(k) \/ Drains(k) \/ PollResumes(k)
  BY <1>3, ConnectionsFollow
<1>4. ASSUME NEW k \in Connections, Drop(k)
      PROVE  ListenersFollow'
  BY <1>4, DropFollows
<1>5. CASE PiExits \/ Park \/ WakeBegins \/ WakeEnds \/ WakeFails \/ ResumeEnded \/ Destroy
  BY <1>5, SessionFollows
<1>6. CASE CloseServer \/ StopSessions \/ Drain \/ Sweep \/ Swept
  <2>1. phase' # "serving"
    BY <1>6 DEF CloseServer, StopSessions, Drain, Sweep, Swept
  <2> QED
    BY <2>1 DEF ListenersFollow
<1>7. CASE UNCHANGED procVars
  BY <1>7 DEF procVars, ListenersFollow, CandidateIsLive, Kept
<1> QED
  BY <1>1, <1>2, <1>3, <1>4, <1>5, <1>6, <1>7 DEF ProcNext

\* A removed session leaves no terminal or script that nobody will end, wherever none is
\* opened for the candidate of a wake: however parks, wakes, exits and reconnections
\* follow one another (rpcHandler.ts sessionExitHooks, SessionManager.ts destroySession).
THEOREM NothingOutlivesIfNoCandidate ==
  ProcSpec /\ []NoneOpensOnACandidate => []NothingOutlivesItsSession
<1>1. ProcInit => ListenersFollow
  BY DEF ProcInit, ListenersFollow, CandidateIsLive, Unopened
<1>2. ProcInv /\ ListenersFollow /\ NoneOpensOnACandidate' /\ [ProcNext]_procVars => ListenersFollow'
  BY FollowNext
<1>3. ProcInv /\ ListenersFollow => NothingOutlivesItsSession
  BY DEF ProcInv, ProcTypeOK, ProcessesHaveOwners, ListenersFollow, CandidateIsLive, Kept, NothingOutlivesItsSession
<1> QED
  BY <1>1, <1>2, <1>3, ProcessInvariant, PTL DEF ProcSpec
=============================================================================
