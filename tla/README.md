# Agent Deck in TLA+

Agent Deck is an Electron/React interface over a Node server that hosts `pi`
subprocesses. Each session is one `pi` process; the server keeps its transcript and
an ordered event log, and every renderer follows it over one WebSocket (`/rpc`) and
a REST API. Nothing here is multi-threaded: the hazards come from what happens
between two `await`s, from processes that die, from sockets that drop, and from
runtimes that are replaced while somebody looks at them.

This directory models that core, checks it with TLC and proves part of it with
TLAPS. `PROJECT.json` gives, for each definition, the source lines it stands for;
for each property, a mutation of the code that breaks it; and the list of hazards.

## Inventory

| Component | State | Operations and interactions | What is hard, and what makes it correct |
|---|---|---|---|
| RPC transport, `packages/client-runtime/src/transport.ts` | connection state, socket, pending requests, backoff, retry timer, generation | `connect`, `close`, `request`; callbacks of the socket and of the timer | Callbacks of sockets already replaced; drops with requests in flight. One live socket, one timer, each request settled exactly once, connected in the end |
| Push bus, `apps/server/src/services/pushBus.ts` | seq, ring of recent events, subscribers | `append`, `replayFrom`, `subscribe` | Eviction at the capacity. A replay is exact or refused |
| Subscription handler, `rpcHandler.ts`, `sessionDrafts.ts` | one bus subscription per connection and session; terminals and scripts | `hello`, `subscribe_session`, first prompt of a draft; pushes events, snapshots, `session_rebind` | A position that belongs to another runtime's log |
| Renderer session state, `clientTransport.ts`, `wsBridge.ts`, `store.ts` | transcript, `lastSeq`, `streamGeneration`, settled flag, resubscribe epoch, activation tokens | connect, resubscribe on a rebind, recover an unknown session by REST, activate | Pushes of the old and of the new runtime on one socket. A settled view is a whole prefix of one runtime's events |
| Session manager, `SessionManager.ts`, `sessionMutationClaims.ts` | sessions map, resumes in flight, claims, refreshes; per session lifecycle, parking timer and transition, runtime and scope | create, resume, park, resource refresh, destroy, fork, stopAll | Every operation awaits, and others run meanwhile. One process per session, none unowned, no command lost, nothing waits for ever |
| Session runtime, `services/sessionManager.ts` | transcript, turn and idle flags, exit handling | prompt, abort, ingestion of pi's events, history seeding, parking eligibility | Order of exit, ingestion and metadata; eligibility read before an await |
| pi host, `services/piHost.ts`, `packages/pi-host` | process, its pipe, pending RPCs by id, event queue | spawn, request with a timeout, events, stop with escalation | Exit, end of stdout, timeouts and late answers in any order; a descendant that holds the pipe. Each request settles once, the exit comes last, stop returns |
| Routes, `routes/sessions.ts` | -- | POST resume, DELETE, create, fork, merge | A delete against a resume or refresh |
| Rollback, `checkpointRollback.ts`; checkpoints | hidden git refs, session snapshots | destroy, restore files, restore conversation, reopen | Half-states |
| History actions, `historyActions.ts` | a claim, a rebound session | edit, rerun, fork at an entry | A source to restore when the action fails |
| Ask-user coordinator, supervisor | questions waiting | ask, answer, expire; steer, stop | Answers racing expiry and the end of the session (not modelled) |
| Subagent runs, `subagentRunStore.ts`, `runChildAgent`, `git.ts` | durable records, reserved and registered worktrees, claims of a parent | reserve, `git worktree add`, register, spawn, undo; cleanup by deletion or merge; recovery | A crash or a failed write between any two steps, siblings, prune. A checkout is named by a record; a cleanup that succeeds leaves nothing |
| Loop engine, `loopEngine.ts`, `domain/src/loops.ts` | runs in memory and in `loop-runs.json`, the task of the active run | start, iterate over six structures, stop, approve, recover, evict | The longest state machine; a stop or a full disk anywhere. Completion is earned, a stop decides, a record settles once |
| Loop routes, `routes/loops.ts` | checkout locks, worktree operations, parent sessions | launch, settle, review, apply, discard, acknowledge, boot | Who writes in the user's checkout, across restarts and agents that survive them |
| Composer drafts, `remoteComposerDrafts.ts`, `composerDrafts.ts`, `desktop/main.js` | unsent text, the save under way and the one behind it, failed saves; files; the shell's flush | edit, restore, save, retry, forget, quit | Answers that come late, saves that fail while a quit waits. Text is never overwritten, and on disk before the window closes |
| Terminals, scripts, `terminalGateway.ts`, `scriptRunnerGateway.ts`, `rpcHandler.ts` | child processes owned by a connection and a session; paused terminals | open, close, exit, drain, sweep | Either owner goes while the child is spawned; backpressure. Nobody unowned, nobody paused for ever |
| Persistence, checkpoints' pruning | files on disk | atomic writes, revisioned updates | Crashes (not modelled) |
| Resources, memory, MCP, files, diff, git, desktop shell, views | -- | mostly I/O | Left out, see below |

## Modules

    Promises <- RpcTransport, LoopRun, PiHost      (what each implements)
    PushBus  <- EventStream

    MCRpcConnection     RpcTransport | EventStream (from a draft) | SessionProcesses
    MCEventStream       EventStream | ComposerDrafts
    MCSessionLifecycle  SessionLifecycle
    MCServerRuns        LoopRun | LoopCheckouts | ChildWorktrees | PiHost

    <Module>_proofs     for EventStream (with PushBus), SessionLifecycle, LoopRun,
                        LoopCheckouts, ChildWorktrees
    Connection_proofs   for RpcTransport and SessionProcesses
    Renderer_proofs     for ComposerDrafts and MCEventStream
    ServerRuns_proofs   for PiHost and MCServerRuns

The composites put components that share no state into one run: `part` says whose
behaviour it is, and the others stay as they begin, so a run is the union of its
parts and not their product. They take them by EXTENDS, so that the theorems
are about the very definitions the runs check; that is why some names carry a prefix (`ChildInit`, `ProcNext`, `HostSpec`, `DraftTypeOK`).

### Promises

What every asynchronous job promises: opened at most once, settled at most once after
that, with an outcome that never changes. Requests over the socket (`RpcTransport`),
requests to pi (`PiHost`) and the durable record of a Loop run (`LoopRun`) are each
shown to implement it under a mapping of their own state: by TLC as a PROPERTY, and by
TLAPS for every value of the constants.

### RpcTransport

The class's private fields are variables of the same name. Its methods and socket
callbacks are actions: `Connect`, `Close`, `SendRequest`, `OnOpen`, `OnReply`,
`OnPush`, `OnClose`, `TimerFires`. The browser and the server are the environment:
`sock` (each socket's life), `armed` (timers the event loop will fire), `wire`
(requests and replies under way), `ServerReply`, `Break`. Histories record how each
request was settled and what was dispatched. Request kinds and payloads do not
matter here: every reply frame finds its entry by id, drops it and settles it.

### PushBus

The bus as pure operators on a record `[seq, ring]`: `AppendEvent`, `AppendAll` (several
appends in one synchronous unit, as when the history is seeded), `ReplayFrom` (which
answers `Evicted` when the ring lost the position), and `RingInOrder`.

### EventStream

One session and one renderer. Each launch of pi makes a runtime with its own bus, a
*generation*; event *i* of generation *g* is `<<g, i>>`, so what a renderer shows can
be compared with what a runtime emitted. The server side replaces runtimes (park,
exit, destroy, resume, draft start) and answers `subscribe_session`; the two
directions of the socket are FIFO queues emptied by a drop; the renderer side
follows `onConnected`, the messages, `resubscribe` and the unknown-session recovery.
The `streamGeneration` a client sends back is its tag; a runtime made by create has
none (`NoTag`), as in the code.

Events are opaque; the transcript is the list of events applied. Cells that the server
adds to a transcript without an event (`seedSyntheticCells`) are left out.

### SessionLifecycle

One session id and all who act on it: prompts, the idle deadline, POST resume, a
resource refresh, a delete, a rollback, the shutdown and the process itself. `entry`
is the sessions map, `claim` the mutation claim, `resuming` the resume in flight with
its locals (`live`, `placeholder`, `candidate`). Launches number both the
ManagedSession objects and the processes; a woken placeholder adopts the new launch's
runtime (`rt`). Each action is the code from one `await` to the next. `stops` holds
the calls of `ManagedSession.stop` that have not returned, with the runtime each
captured and whether it was the first closer of its scope, since a later closer
does not wait for it.

JavaScript settles promises before it takes the next I/O event, so when a process is
gone the calls that waited for it return (`StopReturns`, `Continues`, in any order)
before a process can be spawned or a message handled (`Urgent`). The one exception is
`stopAll`, which waits for all its sessions.

Abstractions: turns are a flag (`turn`, `idle`), the index is one row (`indexed`),
the session file holds the original or the target conversation (`file`), and what a
process read of it is `loaded`. Time is in one guard: the idle deadline is at least a
minute (`routes/settings.ts:399`) and every prompt clears it, while the request of a
prompt is over in 20 s (`rpcProtocol.ts:32`), so `IdleTimer` fires only when no prompt
is unanswered on its process. Fork, create and history actions are not in yet.

### LoopRun

One run, from `start` to its terminal status, over the six structures. `execute()` is
one task: `task` says at which `await` it is suspended, `live` which branch calls are
in flight, and an action is what it does between two awaits. `run` is the record in
memory, `disk` the one in the store; a write fails exactly while the disk is `full`.
Agents are the environment. Stop, human approval, the recovery of a boot and eviction
of other runs' records (`OtherRunSaves`) fall between any two steps.

### LoopCheckouts

The routes over those records: who writes where. `route` is where each launch's handler
is, `lock` the lock of the project's checkout with its kind (`active`, `recovery`,
`review`), `op` the review operation on a worktree, `tree` and `edit` the worktree and
which edit it is at. A reboot keeps `saved` and the worktrees; an agent may survive it
(`orphan`).

Whoever reviews, applies or discards first makes the review available where a run that
is over has none (`Ensure`, `ensureWorktreeReviewAvailable`): that is how the worktree of
an interrupted run is reviewed, which nothing ended, while its agent may still edit it.
That change is written too and may fail. A `GET` of the review waits for git between
`ReviewBegins` and `ReviewPatch`, so the worktree may change, and the record be evicted,
in between. A decision on a review that was only now made available is on no view the
user had: a discard ends there, an apply later.

### ChildWorktrees

The durable records of one parent's child agents, the launches that reserve, add and
register a worktree, and the cleanups (`clean`) after a deletion or a merge. `leaf` and
`reg` are the directory and git's registration. A commit of the store may throw before
or after its rename; the server may die between any two steps.

### SessionProcesses

The terminals and scripts of one session id and their two owners. `entry` and `held`
are what the sessions map returns and what is parked, `life` the objects' lifecycle,
`hook` the object each connection's exit listener is on, `phase` the server's close.
Backpressure is `paused`, `poll` and `buffer`.

### PiHost

One pi process behind `PiProcess` and the service's handle: the pipe as a sequence of
lines, the exit and the end of stdout as two events, the drain timer, the kill timer
and deadline of `stop`, requests with timeouts, and the event queue with its one
consumer. A descendant may hold the pipe after pi died (`heir`).

### ComposerDrafts

The unsent text of each chat in the store (`draft`), what the user left there (`typed`,
a history) and its file (`saved`). `sent` is the PUT under way, `queued` the newest
draft behind it, `failed` the chats to retry. A request is three steps: asked, served,
answered. `quit` is the shell's handshake: asked, waiting, answered, closing, closed;
`barrier` the writes `flushAllComposerDrafts` awaits. Deleting a chat on the server and
forgetting it in the renderer are one step. `Unrestored` names the chats that
`recoverUnknownSession` created, the only ones shown without having been restored.

## Runs

| Run | Checks | Shows |
|---|---|---|
| `rpc_connection` | `NoOrphanSocket`, `RequestsArePromises`, `EventuallyConnected`, `EveryRequestSettles` | the transport: three calls of connect/close, three drops, two requests, a backoff that reaches its cap |
| | `SubscriptionResolves` | a renderer that begins with a draft, a drop, a failed launch and a reopening, under fairness |
| | `ProcessesAccountedFor`, `PausedTerminalsFlow` | two processes, terminals or scripts, one connection, two session objects |
| `event_stream` | `RendererTypeOK`, `SettledShowsOneStream`, `ClaimIsHonest`, `NothingMissed`, `SettledViewGrows` | three generations of three events over a ring of one, a drop or a server restart, a failed launch |
| | `QuitLosesNothing` | two chats, two restores under way, two edits, a failed request, a quit at any moment |
| `event_stream_gap` | `NothingMissed`, violated | finding 1 |
| `drafts_unrestored` | `EditsSurvive`, violated | finding 2 |
| `lifecycle` | `TypeOK`, `OneProcess`, `NoOrphanProcess`, `NoPromptLostToIdlePark`, `WakeKeepsSession`, `DeleteLeavesNothing` | three launches, a prompt, a refresh, a delete, a rollback, a process exit and a failure, in every order |
| `lifecycle_settle` | `PromptsSettle`, `ClaimsAreReleased`, `ShutdownEnds` | one prompt, a failure of a launch or preflight, and a shutdown at any moment instead of the rollback, under fairness |
| `lifecycle_delete` | `DeletedStaysDeleted`, violated | finding 3 |
| `lifecycle_rollback` | `RollbackShowsTarget`, violated | finding 4 |
| `lifecycle_shutdown` | `NoProcessSurvivesShutdown`, violated | finding 5 |
| `server_runs` | `AllTypeOK`, and of the Loop run: `NoLiveChildUnderTerminal`, `CompletedIsEarned`, `StopWins`, `RecordIsAPromise`, `StopEnds` | every structure with two stages, three branches, two iterations, a restart, a disk that fills once |
| | `OneWriterPerCheckout`, `AppliedAsReviewed`, `ReviewMatchesTree`, `ParentIsRemembered`, `LocksAreReleased` | two Loop launches, one of them in a worktree, two restarts, an edit, a failure |
| | `CheckoutIsOwned`, `CleanupLeavesNothing`, `DirectoriesAreRetryable`, `SiblingsStandTogether` | two children, a crash, two failed writes or git commands |
| | `ExitComesLast`, `AnswersArePromises`, `PiStopsInTime` | one pi, two requests, one event |
| `loop_eviction` | `UnlockedOnlyByAcknowledgement`, violated | finding 6 |
| `processes_orphan` | `NothingOutlivesItsSession`, violated | finding 7 |

**Bounds.** Every bound is a guard, none a state constraint, so liveness is not
checked on truncated behaviours. A ring of one with two or three events already has
every relation of a position to the ring (ahead, inside, just evicted, long evicted).
Three generations let a position survive two replacements. A second launch is
enough for a wake, a third for a resume after a failed or finished one. One
prompt meets every launch, park, exit and failure of the others; no guard asks for a
second, and the proofs take any number. Two further
sockets beyond the first show any callback of an old one against a new one. In
`event_stream` a session is created and may lose its connection, or begins as a draft
of one launch less whose renderer keeps its socket: what a drop does there is
finding 1. Two Loop launches are a holder of the lock and a contender; `MaxRetained` is
two there so that no interrupted run is evicted, and one in `loop_eviction`, where it
is; launches are interchangeable, so the one that has a worktree may be the first
(`First`). Of the two restarts the first interrupts a run in its worktree, the second the
apply or discard of what it left there. Two children are one to clean and a sibling. Two iterations are a first and a last.
Two edits to two chats are an edit behind a write under way, and one that arrives while
another chat's write is awaited. The proofs lift the bounds of ten modules.

`DeletedStaysDeleted`, `RollbackShowsTarget`, `UnlockedOnlyByAcknowledgement` and
`NothingOutlivesItsSession` are checked only where they fail, and proved where nothing of their finding
happens; `OneProcess` and
`NoOrphanProcess` speak of a serving server, because `stopAll` forgets live sessions
(finding 5). `NoLiveChildUnderTerminal` is stated for runs whose writes succeeded: a
child is recorded as running before the write that may throw.

**Deadlock** is not checked: once bounds are spent and nobody acts, the system rests
(a quit window, a settled run, a renderer that follows). The liveness properties say
that it never rests with something pending.

**Fairness.** Weak only, and nothing makes a user act, a socket drop, a disk fill or a
process die. `RpcTransport`: the event loop fires timers and delivers close events, the
server answers what it received. `EventStream`: messages are delivered and handled, the
transport reconnects, a launch that began ends. `SessionLifecycle`: what the server and
pi began goes on (`Internal`); pi answers a prompt or its request times out after 20 s
(`rpcProtocol.ts`), and a process told to stop is killed in the end. `LoopRun`: once the
stop signal is up, agents and the validation command end, because the parent session is
destroyed. `LoopCheckouts`: what a handler awaits answers one way or the other, and a
run that was told to stop ends (`StopEnds`). `SessionProcesses`: the drain interval
fires while it is set. `PiHost`: the event loop delivers lines, the end of stdout and
the exit, and timers fire; pi need not answer, nor die when killed. `ComposerDrafts`
and `ChildWorktrees` have safety properties only.

## Findings

1. **A replay that skips the beginning** (`event_stream_gap`). A session first
   created has no stream generation, so `rpcHandler.ts:297` takes any position for
   its own, one reached on an emptied transcript included.
2. **Typed text is overwritten** (`drafts_unrestored`). The session that
   `recoverUnknownSession` creates (`wsBridge.ts:838`) is shown without having been
   restored: what is typed there is not saved, and the first restore, when the user
   comes back to it, puts the empty draft in its place.
3. **A refresh undoes a delete** (`lifecycle_delete`). The refresh takes no claim
   until it resumes: its row and its process come back. The trace shows the delete
   during the park; a delete during the preflight ends the same way, and so does one
   during a rollback, which reopens what was deleted.
4. **A rollback that shows the old conversation** (`lifecycle_rollback`). A resume
   between destroy and reopen is joined by the reopen.
5. **A process that outlives the server** (`lifecycle_shutdown`). `stopAll` clears
   sessions registered while it waited.
6. **A recovery lock that nobody acknowledged** (`loop_eviction`). An interrupted run
   counts as terminal and is evicted; the next boot does not know its lock.
7. **A terminal that outlives its session** (`processes_orphan`). Opened while the
   session is woken, it is hooked to the candidate, which adoption silences.

Seen while modelling, without a run: with two restores of one chat under way, a text
that was sent between their answers may be restored by the second; the flush of a quit
answers ok when a save it did not await failed meanwhile, which only `beforeunload`
makes up for, and `draftsFlushedForQuit` stays set, so later quits do not flush again;
two starts of a script that overlap both pass the one-per-session guard; `killTree` ends
with pi's own exit, so a descendant that ignores SIGTERM is not killed, although
`piHost.ts:47-50` says closing the scope can never leave one; a rollback of a Loop launch
whose own write fails keeps its lock until the next boot.

## Proofs

Each component has an inductive invariant, one lemma or step per action, and its
theorems by PTL. They hold for every value of the constants. Every invariant a passing
run checks is a theorem, some of them under a hypothesis that names the finding it
excludes.

The findings are theorems too, of what is left of the promise once the interleaving of
the finding is taken out. TLC shows that a promise is broken in one way; these show that
there is no other, for any number of actors:

| promise | holds in every behaviour where | theorem |
|---|---|---|
| `DeletedStaysDeleted` (3) | no refresh or rollback is under way while the delete is, and no resume while a rollback destroys | `DeletedStaysDeletedIfAlone` |
| `RollbackShowsTarget` (4) | no resume is in flight while the rollback destroys and restores | `RollbackShowsTargetIfAlone` |
| `NoProcessSurvivesShutdown` (5) | no resume is in flight while `stopAll` waits for its stops | `ShutdownStopsAllIfAlone` |
| `UnlockedOnlyByAcknowledgement` (6) | nothing is evicted from the store | `LockedUntilAcknowledged` |
| `NothingOutlivesItsSession` (7) | no terminal or script is opened on the candidate of a wake | `NothingOutlivesIfNoCandidate` |

Findings 1 and 2 are the hypotheses of `EventStream_proofs` and `Renderer_proofs`. Where
the hypothesis is about a state it is `[]H` beside the specification, and TLC reaches
states on both sides of it in the run of the finding.

`Connection_proofs`, the transport: `TypeOK`, `NoOrphanSocket`, `RequestsAccountedFor` and two
more, for every number of sockets, drops, requests and every backoff. None is inductive
alone. `IInv` adds `Budget`, that a generation still to be taken is paid for by a drop;
`SocketOwnership`, that no socket is newer than the current generation and the class's
own socket is the current one; `StateAgrees`, that the reported state matches the
socket; and `ClosedMeansClosed`. From it: the requests implement `Promises`, and are
settled at most once. Rests on `BoundsAssumption`, `BackoffAssumption` and
`NoValueAssumption`.

`Connection_proofs`, the processes: `ProcessesAccountedFor` for any number of
processes, connections and objects. That a finished shutdown left nothing is not
inductive: `ProcInv` rests on `PhasesSweep`, what each phase has seen the last of.
`NothingOutlivesItsSession` needs `ListenersFollow`: a connection's exit listener is on
the object the map will have when a wake is over (`Kept`), the parked one while a
candidate is there, and so is every process on its way. Rests on `ObjectsAssumption`.

`EventStream_proofs`: first the bus, for every capacity: appending keeps the ring in
order, appending all at once is appending one by one, a replay holds exactly the events
after the position, and a position whose successor was evicted is refused. Then
`TypeOK`, without further hypotheses. Then `SettledShowsOneStream`, `ClaimIsHonest`,
`NothingMissed` and `SettledViewGrows`, under `Gapless`: the session does not begin as a
draft, or no socket drops. The combination it excludes is finding 1, where
`NothingMissed` is false. None of the four speaks of the messages under way, and all
depend on them. The
invariant does by *views*: what the store shows now, and what it will show after each
message of `toClient`, is a sequence of prefixes of runtimes' logs in which every message
leads from one view to the next (`Leads`, `Makes`). From a rebind to the next snapshot
the view is *adrift*: late events of the old runtime land on an emptied transcript, which
is why the store is not settled then, and an answer `ok` is never reached adrift
(`Shown`). Each view is true of the server's logs (`IsTrue`), and the last one is all that
the subscribed bus has (`Reached`). What is left is that a replay continues the last view:
a position on its way to the server is the one the store still has and nothing on the
wire will move it (`Fresh`), or no replay will be served from it (`Harmless`), because it
is 0 or its generation can never again be the session's (`Stale`). `Runtimes` is what the
server's side must satisfy for that: which runtimes have no stream generation, and that a
position in another one cannot pass for theirs. `SettledViewGrows` is why a snapshot that leads
from a view to one under the same tag must not take back what was pushed before it
(`Grows`). That is plain for runtimes with a stream generation, which have one each; a
draft's failed starts make several runtimes without one, so the invariant also says that
past the session's beginnings the last view is of the last runtime made (`Newest`,
`Based`), and that before its first prompt a connection subscribes once, from nothing,
and is sent no rebind (`Opening`). Rests on `CapacityAssumption` and `StreamAssumption`,
the types of the constants.

`SessionLifecycle_proofs`: all six properties of the run `lifecycle`, for any number
of prompts, launches, exits, failures and refreshes, with or without a delete, a
rollback and a shutdown. That no prompt is lost to an idle park, or that no process is
orphaned, depends on every actor that may move the session under the others, so `IInv`
says of each what it holds while it awaits: a parked session has no process and one the
idle deadline parks is losing it (`ParksStop`, `IdleParkIsOpen`), a refresh parks what no
idle park has (`RefreshParksAlone`), a resume knows what it found and made
(`ResumeCourse`), its candidate is a session nobody else touches (`CandidateIsFresh`)
that is stopped when it lost the entry (`LostIsStopped`), a stop has the process its
session holds (`StopsHold`, `StopsBelong`), and where two sessions hold one process the
candidate is out of use (`AdoptedIsOut`). The two action properties need one more
invariant each: `WakeHolds`, that a wake in its preflight keeps its placeholder in the
map, and `DeleteOwns`, that a delete under way has the session in the entry or nowhere,
also while the shutdown clears the map. The three promises of the findings rest on
more: `ShutInv`, that a running process is the map's or the candidate's also at the
shutdown, and what each of its phases has drained; `RollInv`, that what the rollback
destroyed stays out of the map and the resume it joins is its own; `DelInv`, that whoever
could bring a session back (a heard exit, an idle park, a deadline, a seeding candidate)
belongs to the session in the map, and that a stop leaves it none of them (`StopsQuiet`),
so that a delete that is done leaves nobody (`DeletedIsQuiet`). Rests on `LifecycleAssumption`, the types of the
constants.

`ChildWorktrees_proofs`: `CheckoutIsOwned`, `CleanupLeavesNothing`,
`DirectoriesAreRetryable` and `SiblingsStandTogether`, for every set of children and any
number of crashes and failures. `ChildInv` says, for each place a launch can be at, what of
its worktree exists (`LaunchesAgree`, `RecordsAgree`); what a cleanup has seen, swept and
may still sweep (`CleanAgrees`, `SweptAway`, `MergeChecked`); that a launch yields to
the claim of a cleanup (`LaunchesYield`); and what a parent that is gone implies
(`ParentAgrees`).

`LoopRun_proofs`: `CompletedIsEarned`, `StopWins`, `NoLiveChildUnderTerminal` and the
refinement of `Promises`, for every number of stages, branches, iterations, restarts and
full disks. `IInv` is `RunInv` (where a task waits says what the run has behind it,
`Course`), `StoreInv` (the durable copy is behind, never ahead), `EarnedInv` and
`StopInv`; the refinement needs `CopyKept` too. `NoLiveChildUnderTerminal` needs `ChildrenInv`
beside it: who is recorded at work before the end is at work, that is the role at `task`
or a branch in `live`, and a terminal record in the store is the one in memory. `RunTyped`
says that no counter leaves its bounds, the stage of a pipeline included: it is advanced
only by an agent that came back at a stage before the last. Rests on `RunAssumption`: the
bounds are numbers, and a pipeline has a stage (`loops.ts:98`).

`LoopCheckouts_proofs`: the types, `AppliedAsReviewed` and `ReviewMatchesTree`, for any
launches, edits, reboots and failing writes, interrupted runs and evictions included; `OneWriterPerCheckout`,
`ParentIsRemembered` and `UnlockedOnlyByAcknowledgement` while nothing is evicted (`Cardinality(Runs) <= MaxRetained`),
because all three ask that a record stay: finding 6 is what an eviction does. What is true of
a launch rests on that launch and the lock alone (`Agrees`): where its handler is says
what there is of it (`LaunchAgrees`); where a review operation is says what record and
worktree are at, and that the patch is the one shown (`OperationAgrees`, `RecordAgrees`);
who may write to the checkout has its lock (`LockAgrees`). Every step on a review is a
change of it (`Reviews`) that fits the operation it leaves (`Follows`) and the lock
(`LockMoves`); `ReviewKeeps` is the one lemma behind them. So a step is looked at twice,
at its own launch and at every other one, which it leaves alone but for an eviction
(`Untouched`). An agent that survived a reboot is the only one, holds the recovery lock
and is on record (`Remembered`, `OneOrphan`): a reboot seeds the one lock from the last
interrupted run, which is right because two runs never held the checkout together. Rests on
`CheckoutAssumption`, finitely many launches and the types of the constants.

`ServerRuns_proofs`: for `PiHost`, `ExitComesLast` and the refinement of `Promises`, for
any requests and any number of lines: `HostInv` adds that whatever a request waits for,
or the queue has not got, is still in the pipe, events in order (`RepliesUnderWay`,
`EventsUnderWay`), and that the pipe is empty where the exit is published
(`PipeIsEmpty`). Then the composition: `EachComponentRuns`, a behaviour of the run
`server_runs` is one of `LoopRun`, of `LoopCheckouts`, of `ChildWorktrees` and of
`PiHost`, so that every theorem about them is one about the composed run; and
`AllTypeOK` from it. Rests on `LinesAssumption` and the components' assumptions.

`Renderer_proofs`: `EditsSurvive` and `QuitLosesNothing`, under `Unrestored = {}`
(finding 2 is what happens otherwise), for any number of chats, restores, edits and
failures. `DraftInv` adds that a chat not yet restored is blank (`BlankUntilRestored`), that a text is on disk, on its way there or known to have failed
(`OnItsWay`), and that a closed window has nothing under way. `RendererTypeOK`, the types
of the stream and the drafts together, holds without that hypothesis. Rests on
`DraftsAssumption`.

Model-checked only: all liveness, because fairness and ENABLED are out of the prover's
reach, and the two gaps of findings 1 and 2, which no theorem speaks of.

## Plan

1. `TurnState`: the runtime's turn, retry, attention and parking eligibility, of
   which `idle` and `turn` in `SessionLifecycle` are the abstraction (a refinement).
2. Questions: the ask-user coordinator and `contact_supervisor` between a child and its
   parent; a refinement of `Promises`.
3. History actions and fork as further actors of `SessionLifecycle`.
4. Checkpoint pruning, and persistence with crashes.

## Not modelled

Resource scanning, the memory store, MCP clients and OAuth, file, diff and git
access, the desktop shell (but for its quit handshake) and the React views are I/O or
presentation with little state of their own. The transcript reducer and pi's event
ingestion are sequential functions over opaque events, well covered by the repository's
tests.

Left out of what is modelled: a server crash inside a rollback; undecodable frames;
sessions whose process ignores SIGKILL (only `PiHost` has them); a boot whose own write
fails, which quarantines the Loop store and clears its locks; a write that fails as a run
ends, is stopped or is acknowledged (`LoopCheckouts`; of a run's own writes `LoopRun` is
the model), and git going on with an apply after the server died; a pipe that stays open
past the drain timer with no descendant to hold it (`PiHost`); an exception in the middle
of a deletion's cleanup; the artifacts, evidence and transcripts of runs; the capacity of
the child store; terminals' input, reattaching and scrollback; extension dialogs of pi.
Each is in `PROJECT.json` with the component or the hazard it belongs to.
