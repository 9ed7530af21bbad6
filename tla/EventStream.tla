---------------------------- MODULE EventStream -----------------------------
(***************************************************************************)
(* How one renderer follows one session's event stream: the server's       *)
(* subscribe handler over the session's current runtime, the /rpc socket,  *)
(* and the renderer's transport and store.                                 *)
(*                                                                         *)
(*   server    rpcHandler.ts (hello, subscribe_session), pushBus.ts, and   *)
(*             the runtime replacements of SessionManager.ts and           *)
(*             sessionDrafts.ts that move the session to another bus       *)
(*   renderer  clientTransport.ts (connect, resubscribe), wsBridge.ts      *)
(*             (handleMessage, recoverUnknownSession, activation) and the  *)
(*             transcript fields of store.ts                               *)
(*                                                                         *)
(* Every launch of the session's pi makes a runtime with a bus of its own, *)
(* here a generation 1, 2, ...  The streamGeneration a client is told, its *)
(* tag, is a fresh id when a resume made the runtime, and absent (NoTag)   *)
(* when create did.  The i-th event of generation g is <<g, i>>.           *)
(***************************************************************************)
EXTENDS PushBus, FiniteSets, SequencesExt

CONSTANTS
  MaxGenerations,    \* bound: launches of the session
  MaxEvents,         \* bound: events per generation
  HistoryEvents,     \* how many events seeding the history emits
  MaxDrops,          \* bound: socket drops, server restarts included
  MaxFailures,       \* bound: launches that fail
  MaxActivations,    \* bound: times the user opens the session again
  StartsAsDraft      \* whether the session begins as a draft

ASSUME StreamAssumption ==
  /\ MaxGenerations \in Nat \ {0}
  /\ MaxEvents \in Nat /\ HistoryEvents \in 0 .. MaxEvents
  /\ MaxDrops \in Nat /\ MaxFailures \in Nat /\ MaxActivations \in Nat
  /\ StartsAsDraft \in BOOLEAN

Generations == 1 .. MaxGenerations
NoRuntime == 0
NoTag == 0

VARIABLES
  \* The server.
  phase,      \* what the sessions map and the index say of the session
  current,    \* the generation sessions.get returns, or NoRuntime
  held,       \* the parked placeholder out of the map while a candidate builds
  launched,   \* generations launched so far
  created,    \* the generations made by create: no streamGeneration
  bus,        \* each generation's push bus
  \* The connection.
  link,       \* "off", "connecting" or "up"
  sub,        \* the generation this connection is subscribed to
  toServer, toClient,
  \* The renderer.
  transcript, lastSeq, streamGeneration,   \* store fields
  captured,   \* lastSeq and streamGeneration as onConnected read them
  settled,    \* sessionSubscriptionSettled
  epoch,      \* resubscribeEpoch
  recovered,  \* recoveredActivationToken = activationToken
  rest,       \* the POST /sessions/:id/resume in flight
  drops, failures, activations   \* bounds

server     == <<phase, current, held, launched, created, bus>>
connection == <<link, sub, toServer, toClient>>
store      == <<transcript, lastSeq, streamGeneration>>
client     == <<captured, settled, epoch, recovered, rest>>
bounds     == <<drops, failures, activations>>
vars == <<phase, current, held, launched, created, bus,
          link, sub, toServer, toClient, transcript, lastSeq, streamGeneration,
          captured, settled, epoch, recovered, rest, drops, failures, activations>>

Phases == {"draft", "starting", "live", "parked", "ended", "absent", "building"}

\* The first n events of a generation.
EventsOf(g, n) == [i \in 1 .. n |-> <<g, i>>]

Empty == <<>>

\* The transcript a runtime would put in a snapshot now (without the cells that
\* seedSyntheticCells adds to it past the bus).
Authoritative(g) == EventsOf(g, bus[g].seq)

Tag(g) == IF g \in created THEN NoTag ELSE g

\* Types; a bus keeps its ring in order; a connection that is down holds nothing.
TypeOK ==
  /\ phase \in Phases
  /\ current \in {NoRuntime} \cup Generations
  /\ current = NoRuntime <=> phase \in {"draft", "absent"}
  /\ held \in {NoRuntime} \cup Generations
  /\ launched \in 0 .. MaxGenerations
  /\ created \subseteq Generations
  /\ \A g \in Generations : bus[g].seq \in 0 .. MaxEvents /\ RingInOrder(bus[g])
  /\ link \in {"off", "connecting", "up"}
  /\ sub \in {NoRuntime} \cup Generations
  /\ link # "up" => sub = NoRuntime /\ toServer = <<>> /\ toClient = <<>>
  /\ lastSeq \in 0 .. MaxEvents
  /\ streamGeneration \in {NoTag} \cup Generations
  /\ settled \in BOOLEAN /\ recovered \in BOOLEAN
  /\ settled => link = "up"
  /\ rest \in {"none", "recover", "activate"}

\* A session just created, or a draft, and a renderer about to connect.
Begin(draft) ==
  /\ phase = IF draft THEN "draft" ELSE "live"
  /\ current = IF draft THEN NoRuntime ELSE 1
  /\ held = NoRuntime
  /\ created = IF draft THEN {} ELSE {1}
  /\ bus = [g \in Generations |-> EmptyBus]
  /\ link = "connecting" /\ sub = NoRuntime
  /\ toServer = <<>> /\ toClient = <<>>
  /\ transcript = Empty /\ lastSeq = 0 /\ streamGeneration = NoTag
  /\ captured = [lastSeq |-> 0, tag |-> NoTag]
  /\ settled = FALSE /\ epoch = 0 /\ recovered = FALSE /\ rest = "none"
  /\ failures = 0

Init ==
  /\ Begin(StartsAsDraft) /\ launched = IF StartsAsDraft THEN 0 ELSE 1
  /\ drops = 0 /\ activations = 0

\* The connection is gone: neither end holds anything for it any more.
Disconnected ==
  /\ sub' = NoRuntime /\ toServer' = <<>> /\ toClient' = <<>>
  /\ settled' = FALSE

-----------------------------------------------------------------------------
(* What the server pushes, in order, on an open connection.                *)

EventMessage(s) == [type |-> "event", stamp |-> s.seq, event |-> s.event]
SnapshotMessage(g) == [type |-> "snapshot", state |-> Authoritative(g),
                       stamp |-> bus[g].seq, tag |-> Tag(g)]
DraftSnapshot == [type |-> "snapshot", state |-> Empty, stamp |-> 0, tag |-> NoTag]
Rebind == [type |-> "session_rebind"]

Pushed(messages) == IF link = "up" THEN toClient \o messages ELSE toClient

\* The n events that follow in generation g, and their fan-out.
NewEvents(g, n) == [i \in 1 .. n |-> <<g, bus[g].seq + i>>]
FanOut(g, n) ==
  IF sub # g THEN <<>>
  ELSE [i \in 1 .. n |-> EventMessage(Stamped(bus[g].seq + i, <<g, bus[g].seq + i>>))]

(* The session's runtime.                                                  *)

\* emit: one event of the running session.  A starting one may emit too: its
\* ingestion is forked by create, before the rebind is broadcast.
Emit ==
  /\ phase \in {"starting", "live"}
  /\ bus[current].seq < MaxEvents
  /\ bus' = [bus EXCEPT ![current] = AppendEvent(@, <<current, @.seq + 1>>)]
  /\ toClient' = Pushed(FanOut(current, 1))
  /\ UNCHANGED <<phase, current, held, launched, created, link, sub,
                 toServer, store, client, bounds>>

\* Idle parking stops pi; the session, its bus and its subscribers stay.
Park ==
  /\ phase = "live" /\ phase' = "parked"
  /\ UNCHANGED <<current, held, launched, created, bus, connection,
                 store, client, bounds>>

\* pi exits: the session stays in the map, ended.
Exit ==
  /\ phase = "live" /\ phase' = "ended"
  /\ UNCHANGED <<current, held, launched, created, bus, connection,
                 store, client, bounds>>

\* resumeClaimed on an ended session, and a history re-run on a live one,
\* destroy it and launch after that await: in between the id is unknown.
Destroy ==
  /\ phase \in {"ended", "live"}
  /\ launched < MaxGenerations
  /\ phase' = "absent" /\ current' = NoRuntime
  /\ UNCHANGED <<held, launched, created, bus, connection, store,
                 client, bounds>>

\* launch of a resume: the candidate takes the map entry at once, under a new
\* streamGeneration; a parked placeholder is set aside.
Launch ==
  /\ phase \in {"parked", "absent"}
  /\ launched < MaxGenerations
  /\ launched' = launched + 1
  /\ held' = current
  /\ current' = launched + 1
  /\ phase' = "building"
  /\ UNCHANGED <<created, bus, connection, store, client, bounds>>

\* The rest of resumeClaimed once pi returned its history: seedFromHistory emits
\* it, the candidate is adopted, and every connection is told to rebind.
FinishResume ==
  /\ phase = "building"
  /\ bus' = [bus EXCEPT ![current] = AppendAll(@, NewEvents(current, HistoryEvents))]
  /\ phase' = "live" /\ held' = NoRuntime
  /\ toClient' = Pushed(FanOut(current, HistoryEvents) \o <<Rebind>>)
  /\ UNCHANGED <<current, launched, created, link, sub, toServer, store, client,
                 bounds>>

\* The launch fails: the candidate is destroyed and the placeholder is restored,
\* when there was one.  Nothing tells a client of the candidate, but a renderer
\* whose own resume request was this one disconnects.
FailResume ==
  /\ phase = "building"
  /\ failures < MaxFailures
  /\ failures' = failures + 1
  /\ current' = held /\ held' = NoRuntime
  /\ phase' = IF held = NoRuntime THEN "absent" ELSE "parked"
  /\ \/ UNCHANGED <<connection, settled, rest>>
     \/ rest # "none" /\ rest' = "none" /\ link' = "off" /\ Disconnected
  /\ UNCHANGED <<launched, created, bus, store, captured, epoch,
                 recovered, drops, activations>>

\* sessionDrafts.start: the first prompt creates the runtime and announces it...
StartDraft ==
  /\ phase = "draft"
  /\ launched < MaxGenerations
  /\ launched' = launched + 1
  /\ current' = launched + 1
  /\ created' = created \cup {launched + 1}
  /\ phase' = "starting"
  /\ UNCHANGED <<held, bus, connection, store, client, bounds>>

\* ... and, when the preparation is released, broadcasts the rebind.  The
\* connection that sent the prompt is subscribed before the prompt runs.
FinishStart ==
  /\ phase = "starting"
  /\ phase' = "live"
  /\ \/ toClient' = Pushed(<<Rebind>>) /\ UNCHANGED sub
     \/ /\ link = "up"
        /\ sub' = current
        /\ toClient' = Pushed(<<Rebind, SnapshotMessage(current)>>)
  /\ UNCHANGED <<current, held, launched, created, bus, link,
                 toServer, store, client, bounds>>

FailStart ==
  /\ phase = "starting"
  /\ failures < MaxFailures
  /\ failures' = failures + 1
  /\ phase' = "draft" /\ current' = NoRuntime
  /\ UNCHANGED <<held, launched, created, bus, connection, store,
                 client, drops, activations>>

-----------------------------------------------------------------------------
(* The server's end of the connection.                                     *)

Hello == [type |-> "hello"]
Subscribe(from, tag, via, e) ==
  [type |-> "subscribe", from |-> from, tag |-> tag, via |-> via, epoch |-> e]
Reply(m, verdict) == [type |-> verdict, via |-> m.via, epoch |-> m.epoch]

\* A mutant: a replay is served whatever stream the client's seq belongs to.
AnswerIgnoringTag(m) ==
  LET replay == IF m.from > 0 THEN ReplayFrom(bus[current], m.from) ELSE Evicted
  IN  IF replay # Evicted
      THEN [i \in DOMAIN replay |-> EventMessage(replay[i])]
      ELSE <<SnapshotMessage(current)>>

\* subscribe: the ring's events after the client's seq when that seq belongs to
\* this stream and the ring still has them, a snapshot otherwise.
Answer(m) ==
  LET matches == Tag(current) = NoTag \/ m.tag = Tag(current)
      replay  == IF m.from > 0 /\ matches
                 THEN ReplayFrom(bus[current], m.from) ELSE Evicted
  IN  IF replay # Evicted
      THEN [i \in DOMAIN replay |-> EventMessage(replay[i])]
      ELSE <<SnapshotMessage(current)>>

OnHello ==
  /\ toServer # <<>> /\ Head(toServer) = Hello
  /\ toServer' = Tail(toServer)
  /\ toClient' = Append(toClient, [type |-> "hello_ok"])
  /\ UNCHANGED <<server, link, sub, store, client, bounds>>

\* subscribe_session: replace this connection's subscription, then answer.
OnSubscribe ==
  /\ toServer # <<>> /\ Head(toServer).type = "subscribe"
  /\ toServer' = Tail(toServer)
  /\ LET m == Head(toServer) IN
     \/ /\ phase = "draft"
        /\ sub' = NoRuntime
        /\ toClient' = toClient \o <<DraftSnapshot, Reply(m, "ok")>>
     \/ /\ phase = "absent"      \* unknown session
        /\ toClient' = Append(toClient, Reply(m, "error"))
        /\ UNCHANGED sub
     \/ /\ current # NoRuntime
        /\ sub' = current
        /\ toClient' = Append(toClient \o Answer(m), Reply(m, "ok"))
  /\ UNCHANGED <<server, link, store, client, bounds>>

-----------------------------------------------------------------------------
(* The renderer.                                                           *)

\* onConnected: remember where the store stands, then say hello.
OnConnected ==
  /\ link = "connecting"
  /\ link' = "up"
  /\ captured' = [lastSeq |-> lastSeq, tag |-> streamGeneration]
  /\ toServer' = <<Hello>>
  /\ UNCHANGED <<server, sub, toClient, store, settled, epoch, recovered, rest,
                 bounds>>

Receive(type) == toClient # <<>> /\ Head(toClient).type = type

OnHelloOk ==
  /\ Receive("hello_ok")
  /\ toClient' = Tail(toClient)
  /\ toServer' = Append(toServer,
                        Subscribe(captured.lastSeq, captured.tag, "connect", 0))
  /\ UNCHANGED <<server, link, sub, store, client, bounds>>

OnSnapshot ==
  /\ Receive("snapshot")
  /\ LET m == Head(toClient) IN
     /\ transcript' = m.state
     /\ lastSeq' = m.stamp
     /\ streamGeneration' = m.tag
  /\ toClient' = Tail(toClient)
  /\ UNCHANGED <<server, link, sub, toServer, client, bounds>>

\* An event already applied is dropped (replay overlap).
ApplyEvent(m) ==
  IF m.stamp <= lastSeq
  THEN UNCHANGED <<transcript, lastSeq>>
  ELSE /\ transcript' = Append(transcript, m.event)
       /\ lastSeq' = m.stamp

OnEvent ==
  /\ Receive("event")
  /\ ApplyEvent(Head(toClient))
  /\ toClient' = Tail(toClient)
  /\ UNCHANGED <<server, link, sub, toServer, streamGeneration, client, bounds>>

\* A mutant: resetTranscript keeps the stream generation.
ResetKeepingTag ==
  transcript' = Empty /\ lastSeq' = 0 /\ UNCHANGED streamGeneration

ResetTranscript ==
  transcript' = Empty /\ lastSeq' = 0 /\ streamGeneration' = NoTag

\* A mutant: the epoch is read before it is bumped.
ResubscribeStaleEpoch ==
  /\ epoch' = epoch + 1
  /\ toServer' = Append(toServer, Subscribe(0, NoTag, "resubscribe", epoch))

\* resubscribe: no position, only a full snapshot is meaningful.
Resubscribe ==
  /\ epoch' = epoch + 1
  /\ toServer' = Append(toServer, Subscribe(0, NoTag, "resubscribe", epoch + 1))

\* A mutant: the subscription counts as settled until the answer.
RebindStaysSettled ==
  /\ Receive("session_rebind")
  /\ ResetTranscript
  /\ Resubscribe
  /\ toClient' = Tail(toClient)
  /\ UNCHANGED <<server, link, sub, captured, settled, recovered, rest, bounds>>

\* session_rebind: start over on the same socket, unsettled until the answer.
OnRebind ==
  /\ Receive("session_rebind")
  /\ ResetTranscript
  /\ settled' = FALSE
  /\ Resubscribe
  /\ toClient' = Tail(toClient)
  /\ UNCHANGED <<server, link, sub, captured, recovered, rest, bounds>>

\* The reply of a subscribe settles it, unless a newer resubscribe superseded it.
OnSubscribed ==
  /\ Receive("ok")
  /\ LET m == Head(toClient) IN
       settled' = (settled \/ m.via = "connect" \/ m.epoch = epoch)
  /\ toClient' = Tail(toClient)
  /\ UNCHANGED <<server, link, sub, toServer, store, captured, epoch, recovered,
                 rest, bounds>>

\* "unknown session": resume the session over REST once per activation; after
\* that only the error is shown.
OnUnknownSession ==
  /\ Receive("error")
  /\ LET m == Head(toClient) IN
     IF (m.via = "resubscribe" /\ m.epoch # epoch) \/ recovered
     THEN UNCHANGED <<recovered, rest>>
     ELSE recovered' = TRUE /\ rest' = "recover"
  /\ toClient' = Tail(toClient)
  /\ UNCHANGED <<server, link, sub, toServer, store, captured, settled, epoch,
                 bounds>>

\* The resume request returns the running session, a half-built one included;
\* then wsBridge.connect replaces the connection.
RestReturns ==
  /\ rest # "none"
  /\ phase \in {"draft", "starting", "live", "building"}
  /\ rest' = "none"
  /\ link' = "connecting" /\ Disconnected
  /\ UNCHANGED <<server, store, captured, epoch, recovered, bounds>>

\* The user opens the session (again).
Activate ==
  /\ activations < MaxActivations
  /\ activations' = activations + 1
  /\ link' = "off" /\ Disconnected
  /\ ResetTranscript
  /\ recovered' = FALSE /\ rest' = "activate"
  /\ UNCHANGED <<server, captured, epoch, drops, failures>>

\* The socket drops; what was on its way is lost.  The transport reconnects.
Drop ==
  /\ link = "up" /\ drops < MaxDrops
  /\ drops' = drops + 1
  /\ link' = "connecting" /\ Disconnected
  /\ UNCHANGED <<server, store, captured, epoch, recovered, rest, failures,
                 activations>>

\* The server restarts: its sessions are gone, drafts are on disk, and a resume
\* request in flight fails.
Restart ==
  /\ drops < MaxDrops
  /\ drops' = drops + 1
  /\ phase' = IF phase = "draft" THEN "draft" ELSE "absent"
  /\ current' = NoRuntime /\ held' = NoRuntime
  /\ link' = IF link = "off" \/ rest # "none" THEN "off" ELSE "connecting"
  /\ Disconnected
  /\ rest' = "none"
  /\ UNCHANGED <<launched, created, bus, store, captured, epoch,
                 recovered, failures, activations>>

-----------------------------------------------------------------------------
RuntimeStep == \/ Emit \/ Park \/ Exit \/ Destroy \/ Launch \/ FinishResume
               \/ FailResume \/ StartDraft \/ FinishStart \/ FailStart
ServerStep == OnHello \/ OnSubscribe
ClientStep == \/ OnConnected \/ OnHelloOk \/ OnSnapshot \/ OnEvent \/ OnRebind
              \/ OnSubscribed \/ OnUnknownSession \/ RestReturns

Next == RuntimeStep \/ ServerStep \/ ClientStep \/ Activate \/ Drop \/ Restart

Spec == Init /\ [][Next]_vars

\* The socket delivers, the server and the renderer handle what they receive, the
\* transport reconnects, and a launch that began ends one way or the other.
Fairness == WF_vars(ServerStep) /\ WF_vars(ClientStep)
            /\ WF_vars(FinishResume) /\ WF_vars(FinishStart)
FairSpec == Spec /\ Fairness

-----------------------------------------------------------------------------
(* Properties.                                                             *)

Prefix(shown, n) == \E g \in Generations : shown = EventsOf(g, n)

\* What a settled renderer shows is a prefix of one generation's events: nothing
\* skipped, doubled, out of order, or left over from another runtime.
SettledShowsOneStream == settled => Prefix(transcript, lastSeq)

\* A tagged position is honest: it names exactly the events shown.  It is what
\* makes serving a replay from it safe.
ClaimIsHonest ==
  streamGeneration # NoTag => transcript = EventsOf(streamGeneration, lastSeq)

\* A settled renderer subscribed to the session's runtime, with nothing on its
\* way, shows every event of it.
NothingMissed ==
  settled /\ sub = current /\ current # NoRuntime /\ toClient = <<>> /\ toServer = <<>> =>
    transcript = EventsOf(current, bus[current].seq)

\* What a settled renderer shows only grows while it stays settled on a stream.
SettledViewGrows ==
  [][settled /\ settled' /\ streamGeneration' = streamGeneration =>
       lastSeq' >= lastSeq /\ IsPrefix(transcript, transcript')]_vars

\* A connected renderer ends up settled, or told that the session is unknown: no
\* rebind, reconnect or superseded answer leaves it waiting.
SubscriptionResolves ==
  (link = "up" /\ ~settled) ~> (settled \/ recovered \/ link # "up")
=============================================================================
