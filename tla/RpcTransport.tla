---------------------------- MODULE RpcTransport ----------------------------
(***************************************************************************)
(* The client side of the /rpc WebSocket connection: class RpcTransport of *)
(* packages/client-runtime/src/transport.ts.  One instance owns at most    *)
(* one socket, correlates replies with requests by id, and reconnects with *)
(* exponential backoff unless the user closed it.                          *)
(*                                                                         *)
(* The class's private fields are variables of the same name.  The browser *)
(* (socket life cycle, armed timers) and the server at the other end are   *)
(* the environment: sock, armed and wire.  A socket is identified by the   *)
(* generation under which openSocket created it, a timer by the generation *)
(* whose onclose armed it.                                                 *)
(***************************************************************************)
EXTENDS Integers, FiniteSets

CONSTANTS
  MaxUserOps,    \* bound: calls of connect() and close() that do something
  MaxDrops,      \* bound: closes of the current socket by server or network
  MaxRequests,   \* bound: requests sent over the life of the transport
  MaxPushes,     \* bound: server pushes that reach the transport
  InitialMs, MaxMs, Factor,   \* BackoffOptions
  NoSocket, NoTimer

ASSUME BoundsAssumption ==
  /\ MaxUserOps \in Nat /\ MaxDrops \in Nat
  /\ MaxRequests \in Nat /\ MaxPushes \in Nat

\* DEFAULT_BACKOFF is 500 ms doubling up to 10 s.
ASSUME BackoffAssumption ==
  /\ InitialMs \in Nat \ {0} /\ MaxMs \in Nat /\ Factor \in Nat \ {0}
  /\ InitialMs <= MaxMs

\* Every call of openSocket or close() takes a new generation; a reconnect
\* takes one only after a drop.
Generations == 1 .. (MaxUserOps + MaxDrops)
Ids == 1 .. MaxRequests

ASSUME NoValueAssumption == NoSocket \notin Nat /\ NoTimer \notin Nat

VARIABLES
  state,            \* ConnectionState
  socket,           \* this.socket: a generation or NoSocket
  nextRequestId,
  pending,          \* keys of the pending map
  currentBackoffMs,
  reconnectTimer,   \* this.reconnectTimer: a handle or NoTimer
  generation,
  closedByUser,
  sock,             \* environment: each socket's life cycle
  armed,            \* environment: timers the event loop will fire
  wire,             \* environment: requests at the server, replies on their way
  outcome,          \* history: how each request's promise was settled
  dispatched,       \* history: pushes handed to onPush
  userOps, drops    \* bounds

fields == <<state, socket, nextRequestId, pending, currentBackoffMs,
            reconnectTimer, generation, closedByUser>>
env    == <<sock, armed, wire>>
vars   == <<state, socket, nextRequestId, pending, currentBackoffMs,
            reconnectTimer, generation, closedByUser, sock, armed, wire,
            outcome, dispatched, userOps, drops>>

ConnectionState == {"idle", "connecting", "connected", "reconnecting", "closed"}

\* A "broken" socket still looks open to the client while the peer is gone: what
\* is sent is lost, and its close event is still to come.  A "closing" one had
\* close() called and may still deliver frames.
SocketState == {"none", "connecting", "open", "broken", "closing", "closed"}
Usable(g) == sock[g] \in {"connecting", "open", "broken"}

Message == [on: Generations, id: Ids, kind: {"request", "ok", "error"}]

\* Types: the backoff stays within its cap, generations and ids within their bounds.
TypeOK ==
  /\ state \in ConnectionState
  /\ socket \in Generations \cup {NoSocket}
  /\ nextRequestId \in 1 .. MaxRequests + 1
  /\ pending \subseteq Ids
  /\ currentBackoffMs \in InitialMs .. MaxMs
  /\ reconnectTimer \in Generations \cup {NoTimer}
  /\ generation \in 0 .. MaxUserOps + MaxDrops
  /\ closedByUser \in BOOLEAN
  /\ sock \in [Generations -> SocketState]
  /\ armed \subseteq Generations
  /\ wire \subseteq Message
  /\ outcome \in [Ids -> {"none", "ok", "error"}]
  /\ dispatched \in 0 .. MaxPushes
  /\ userOps \in 0 .. MaxUserOps
  /\ drops \in 0 .. MaxDrops

Init ==
  /\ state = "idle"
  /\ socket = NoSocket
  /\ nextRequestId = 1
  /\ pending = {}
  /\ currentBackoffMs = InitialMs
  /\ reconnectTimer = NoTimer
  /\ generation = 0
  /\ closedByUser = FALSE
  /\ sock = [g \in Generations |-> "none"]
  /\ armed = {}
  /\ wire = {}
  /\ outcome = [i \in Ids |-> "none"]
  /\ dispatched = 0
  /\ userOps = 0
  /\ drops = 0

-----------------------------------------------------------------------------
(* Private helpers of the class.                                           *)

\* openSocket: a new generation, a new socket, its callbacks bound to them.
OpenSocket ==
  /\ generation' = generation + 1
  /\ state' = "connecting"
  /\ sock' = [sock EXCEPT ![generation + 1] = "connecting"]
  /\ socket' = generation + 1

\* A mutant: the delay is not capped.
ScheduleUncapped(g) ==
  /\ currentBackoffMs' = currentBackoffMs * Factor
  /\ reconnectTimer' = g
  /\ armed' = armed \cup {g}

\* A mutant: only the first failure is retried.
ScheduleOnce(g) ==
  IF currentBackoffMs = InitialMs
  THEN ScheduleUncapped(g)
  ELSE UNCHANGED <<currentBackoffMs, reconnectTimer, armed>>

\* scheduleReconnect: arm the retry and advance the delay of the one after it.
ScheduleReconnect(g) ==
  /\ currentBackoffMs' = IF currentBackoffMs * Factor < MaxMs
                         THEN currentBackoffMs * Factor ELSE MaxMs
  /\ reconnectTimer' = g
  /\ armed' = armed \cup {g}

\* A mutant: the map is left as it is.
KeepAllPending == UNCHANGED <<pending, outcome>>

RejectAllPending ==
  /\ outcome' = [i \in Ids |-> IF i \in pending THEN "error" ELSE outcome[i]]
  /\ pending' = {}

\* A mutant: the handle is dropped, the timer stays armed.
ForgetReconnectTimer == reconnectTimer' = NoTimer /\ UNCHANGED armed

\* clearTimer on the pending retry, if there is one.
ClearReconnectTimer ==
  /\ armed' = armed \ {reconnectTimer}
  /\ reconnectTimer' = NoTimer

-----------------------------------------------------------------------------
(* The public operations.                                                  *)

Connect ==
  /\ userOps < MaxUserOps
  /\ userOps' = userOps + 1
  /\ state \notin {"connecting", "connected"}
  /\ ClearReconnectTimer
  /\ closedByUser' = FALSE
  /\ OpenSocket
  /\ UNCHANGED <<nextRequestId, pending, currentBackoffMs, wire, outcome,
                 dispatched, drops>>

Close ==
  /\ userOps < MaxUserOps
  /\ userOps' = userOps + 1
  /\ closedByUser' = TRUE
  /\ generation' = generation + 1
  /\ ClearReconnectTimer
  /\ socket' = NoSocket
  /\ RejectAllPending
  /\ sock' = [g \in Generations |->
                IF g = socket /\ Usable(g) THEN "closing" ELSE sock[g]]
  /\ state' = "closed"
  /\ UNCHANGED <<nextRequestId, currentBackoffMs, wire, dispatched, drops>>

\* sendRequest while connected; offline it rejects and changes nothing.  The
\* frame is lost on a broken socket, and send() may throw on the spot.
SendRequest ==
  /\ state = "connected" /\ socket # NoSocket
  /\ nextRequestId \in Ids
  /\ nextRequestId' = nextRequestId + 1
  /\ \/ /\ pending' = pending \cup {nextRequestId}
        /\ wire' = IF sock[socket] = "open"
                   THEN wire \cup {[on |-> socket, id |-> nextRequestId,
                                    kind |-> "request"]}
                   ELSE wire
        /\ UNCHANGED outcome
     \/ /\ outcome' = [outcome EXCEPT ![nextRequestId] = "error"]
        /\ UNCHANGED <<pending, wire>>
  /\ UNCHANGED <<state, socket, currentBackoffMs, reconnectTimer, generation,
                 closedByUser, sock, armed, dispatched, userOps, drops>>

-----------------------------------------------------------------------------
(* The callbacks.  Each one first compares the generation it was created   *)
(* under with the current one; a stale socket's events change nothing but  *)
(* the socket itself.                                                      *)

OnOpen(g) ==
  /\ sock[g] = "connecting"
  /\ sock' = [sock EXCEPT ![g] = "open"]
  /\ IF g = generation
     THEN currentBackoffMs' = InitialMs /\ state' = "connected"
     ELSE UNCHANGED <<currentBackoffMs, state>>
  /\ UNCHANGED <<socket, nextRequestId, pending, reconnectTimer, generation,
                 closedByUser, armed, wire, outcome, dispatched, userOps, drops>>

\* A mutant: the settled entry stays in the map.
SettleKeepingEntry(m) ==
  outcome' = [outcome EXCEPT ![m.id] = m.kind] /\ UNCHANGED pending

Settle(m) ==
  /\ pending' = pending \ {m.id}
  /\ outcome' = [outcome EXCEPT ![m.id] = m.kind]

\* handleRaw for a reply: settle the pending entry of that id, if any.
OnReply(m) ==
  /\ m \in wire /\ m.kind # "request"
  /\ sock[m.on] \in {"open", "closing"}
  /\ wire' = wire \ {m}
  /\ IF m.on = generation /\ m.id \in pending
     THEN Settle(m)
     ELSE UNCHANGED <<pending, outcome>>
  /\ UNCHANGED <<state, socket, nextRequestId, currentBackoffMs, reconnectTimer,
                 generation, closedByUser, sock, armed, dispatched, userOps, drops>>

\* A mutant: onmessage does not compare generations.
OnPushAnySocket(g) ==
  /\ sock[g] \in {"open", "closing"}
  /\ dispatched < MaxPushes
  /\ dispatched' = dispatched + 1
  /\ UNCHANGED <<fields, env, outcome, userOps, drops>>

\* handleRaw for a push, terminal_push, diff_push or script_push.
OnPush(g) ==
  /\ sock[g] \in {"open", "closing"}
  /\ dispatched < MaxPushes
  /\ g = generation
  /\ dispatched' = dispatched + 1
  /\ UNCHANGED <<fields, env, outcome, userOps, drops>>

\* The close event: of a socket the client closed, of a broken one, or (a drop)
\* of one that was opening or open.
OnClose(g) ==
  /\ \/ sock[g] \in {"closing", "broken"} /\ UNCHANGED drops
     \/ /\ sock[g] \in {"connecting", "open"}
        /\ drops < MaxDrops
        /\ drops' = drops + 1
  /\ sock' = [sock EXCEPT ![g] = "closed"]
  /\ wire' = {m \in wire : m.on # g}
  /\ IF g # generation
     THEN UNCHANGED <<socket, pending, outcome, state, currentBackoffMs,
                      reconnectTimer, armed>>
     ELSE /\ socket' = NoSocket
          /\ RejectAllPending
          /\ IF closedByUser
             THEN /\ state' = "closed"
                  /\ UNCHANGED <<currentBackoffMs, reconnectTimer, armed>>
             ELSE state' = "reconnecting" /\ ScheduleReconnect(g)
  /\ UNCHANGED <<nextRequestId, generation, closedByUser, dispatched, userOps>>

\* The retry timer: it forgets its handle, then opens unless closed meanwhile.
TimerFires(t) ==
  /\ t \in armed
  /\ armed' = armed \ {t}
  /\ reconnectTimer' = NoTimer
  /\ IF closedByUser
     THEN UNCHANGED <<generation, state, sock, socket>>
     ELSE OpenSocket
  /\ UNCHANGED <<nextRequestId, pending, currentBackoffMs, closedByUser, wire,
                 outcome, dispatched, userOps, drops>>

-----------------------------------------------------------------------------
(* The other end.                                                          *)

\* The server answers each request once, in any order (its handlers await).
ServerReply(m) ==
  /\ m \in wire /\ m.kind = "request" /\ sock[m.on] \in {"open", "closing"}
  /\ \E verdict \in {"ok", "error"} :
       wire' = (wire \ {m}) \cup {[m EXCEPT !.kind = verdict]}
  /\ UNCHANGED <<fields, sock, armed, outcome, dispatched, userOps, drops>>

\* The peer or the network is gone before the client's close event.  It uses up
\* a drop now; the close event that follows is free.
Break(g) ==
  /\ sock[g] = "open" /\ drops < MaxDrops
  /\ drops' = drops + 1
  /\ sock' = [sock EXCEPT ![g] = "broken"]
  /\ wire' = {m \in wire : m.on # g}
  /\ UNCHANGED <<fields, armed, outcome, dispatched, userOps>>

Next ==
  \/ Connect
  \/ Close
  \/ SendRequest
  \/ \E g \in Generations : OnOpen(g) \/ OnPush(g) \/ OnClose(g) \/ Break(g)
  \/ \E t \in armed : TimerFires(t)
  \/ \E m \in wire : OnReply(m) \/ ServerReply(m)

Spec == Init /\ [][Next]_vars

\* The event loop fires armed timers, a connection attempt ends, a closing or a
\* broken socket gets its close event, the server answers what it received and
\* the socket delivers the answer.  Nothing makes the user act, or a socket drop.
Fairness ==
  /\ \A g \in Generations :
       /\ WF_vars(OnOpen(g))
       /\ WF_vars(sock[g] \in {"closing", "broken"} /\ OnClose(g))
       /\ WF_vars(TimerFires(g))
  /\ \A g \in Generations, i \in Ids :
       /\ WF_vars(ServerReply([on |-> g, id |-> i, kind |-> "request"]))
       /\ WF_vars(OnReply([on |-> g, id |-> i, kind |-> "ok"]))
       /\ WF_vars(OnReply([on |-> g, id |-> i, kind |-> "error"]))

FairSpec == Spec /\ Fairness

-----------------------------------------------------------------------------
(* Properties.                                                             *)

\* A socket the transport no longer refers to is closing or closed: no second
\* connection stays up unowned, streaming a duplicate subscription (the hazard
\* the comment in connect() names).
NoOrphanSocket == \A g \in Generations : Usable(g) => socket = g

\* A timer is armed only while the transport is between two attempts, and the
\* handle it holds is that timer: nothing else will open a socket behind the
\* user's back.
RetryOnlyWhileReconnecting ==
  /\ armed = {reconnectTimer} \ {NoTimer}
  /\ armed # {} <=> state = "reconnecting"

\* Every request issued is either waiting or settled, never both and never
\* neither, and what waits does so on a socket that can still answer or close.
RequestsAccountedFor ==
  /\ \A i \in Ids : i < nextRequestId <=> (i \in pending \/ outcome[i] # "none")
  /\ \A i \in pending : outcome[i] = "none"
  /\ pending # {} => state = "connected" /\ socket # NoSocket

\* No push reaches the application unless the transport reports itself
\* connected: after close() or during backoff the old stream is silent.
SilentUnlessConnected == [][dispatched' # dispatched => state = "connected"]_vars

\* A settled request keeps its outcome, and its id is never issued again.
SettledOnce ==
  [][\A i \in Ids : outcome[i] # "none" => outcome'[i] = outcome[i] /\ i \notin pending']_vars

\* A request is a promise: whatever sockets come and go, each one is opened
\* once, settled once, and the map of waiting requests says exactly which ones.
Promise == INSTANCE Promises WITH
  Jobs <- Ids, NoOutcome <- "none", open <- pending, outcome <- outcome
RequestsArePromises == Promise!Spec

\* A transport the user did not close ends up connected once drops stop.
EventuallyConnected == <>[](state \in {"idle", "connected", "closed"})

\* Every request is eventually settled: answered, or rejected by a drop or close.
EveryRequestSettles == \A i \in Ids : (i \in pending) ~> (i \notin pending)
=============================================================================
