-------------------------- MODULE SessionProcesses --------------------------
(***************************************************************************)
(* The terminals and scripts of one session.  Each is a child process with *)
(* two owners: the /rpc connection that opened it (rpcHandler.ts) and the  *)
(* session it was opened for.  Either one going must take it along: the    *)
(* connection by its close(), the session by an exit listener that the     *)
(* connection hooks to it.                                                 *)
(*                                                                         *)
(* A session is one ManagedSession object after another.  A parked one is  *)
(* woken through a candidate, which holds the sessions map while its       *)
(* history is seeded; then the parked object adopts the candidate's        *)
(* runtime.  What the processes print is abstracted to the level of the    *)
(* socket's buffer, which pauses the terminals that write into it.  The    *)
(* names begin with Proc so that a module may extend this one beside       *)
(* RpcTransport.                                                           *)
(***************************************************************************)
EXTENDS Naturals, FiniteSets

CONSTANTS
  Procs,         \* the processes that may be opened
  Connections,
  MaxObjects,    \* bound: ManagedSession objects of the session
  NoProc

ASSUME ObjectsAssumption == MaxObjects \in Nat \ {0}

NoObject == 0
Objects == 1 .. MaxObjects

VARIABLES
  entry,    \* the object sessions.get returns, or NoObject
  held,     \* the parked object while its candidate is in the map
  life,     \* each object's lifecycle; a candidate that was adopted owns nothing
  phase,    \* server.ts close()
  conn,     \* each connection, "open" or "closed"
  proc,     \* each process and who opened it for which object
  alive,    \* the processes that run
  guard,    \* bySession: the script that bars another
  hook,     \* sessionExitHooks: the object a connection's exit listener is on
  paused,   \* pausedTerminals
  poll,     \* drainPoll
  buffer    \* bufferedAmount

session == <<entry, held, life, phase>>
owners == <<proc, alive, guard>>
flow == <<paused, poll, buffer>>
procVars == <<entry, held, life, phase, conn, proc, alive, guard, hook, paused, poll, buffer>>

Unopened == [at |-> "none", kind |-> "none", by |-> "none", on |-> NoObject, heard |-> FALSE]

\* Types; what was opened has an owner of either kind, what flows is a terminal's.
Process ==
  [at : {"none", "opening", "owned", "closing", "closed"}, kind : {"none", "terminal", "script"},
   by : Connections \cup {"none"}, on : Objects \cup {NoObject}, heard : BOOLEAN]

ProcTypeOK ==
  /\ entry \in Objects \cup {NoObject} /\ held \in Objects \cup {NoObject}
  /\ held # NoObject => entry # NoObject
  /\ life \in [Objects -> {"none", "live", "parked", "ended", "adopted"}]
  /\ phase \in {"serving", "closing", "stopped", "drained", "swept", "closed"}
  /\ conn \in [Connections -> {"open", "closed"}]
  /\ proc \in [Procs -> Process]
  /\ \A p \in Procs :
       /\ proc[p].at = "none" <=> proc[p].kind = "none"
       /\ proc[p].at # "none" => proc[p].by \in Connections
       /\ proc[p].at \in {"none", "closed"} <=> proc[p].on = NoObject
  /\ alive \subseteq Procs
  /\ guard \in Procs \cup {NoProc}
  /\ hook \in [Connections -> Objects \cup {NoObject}]
  /\ paused \subseteq {p \in Procs : proc[p].kind = "terminal"}
  /\ poll \in [Connections -> BOOLEAN]
  /\ buffer \in [Connections -> {"drained", "busy", "full"}]

ProcInit ==
  /\ entry = 1 /\ held = NoObject
  /\ life = [o \in Objects |-> IF o = 1 THEN "live" ELSE "none"]
  /\ phase = "serving"
  /\ conn = [k \in Connections |-> "open"]
  /\ proc = [p \in Procs |-> Unopened] /\ alive = {} /\ guard = NoProc
  /\ hook = [k \in Connections |-> NoObject]
  /\ paused = {} /\ poll = [k \in Connections |-> FALSE]
  /\ buffer = [k \in Connections |-> "drained"]

-----------------------------------------------------------------------------
(* Closing.                                                                *)

OwnedBy(k) == {p \in Procs : proc[p].at = "owned" /\ proc[p].by = k}
OpenedBy(k) == {p \in Procs : proc[p].by = k}

\* opened.close() on each of ps: the scope closes; a process dies a step later.
Closing(table, ps) ==
  [p \in Procs |-> IF p \in ps THEN [table[p] EXCEPT !.at = "closing"] ELSE table[p]]

\* A mutant: closing one terminal stops the poll for all.
StopPollAtOnce(k, ps) ==
  /\ paused' = paused \ ps
  /\ poll' = [poll EXCEPT ![k] = FALSE]

\* closeTerminal: it is no longer to be resumed; the last one stops the poll.
StopPoll(k, ps) ==
  /\ paused' = paused \ ps
  /\ poll' = [poll EXCEPT ![k] = @ /\ paused' \cap OpenedBy(k) # {}]

\* publishTerminalExit of o: every connection hooked to it closes what it owns of the
\* session; the hooks are dropped.
Reaped(o) == UNION {OwnedBy(k) : k \in {k \in Connections : hook[k] = o}}

ExitOf(o) ==
  /\ proc' = Closing(proc, Reaped(o))
  /\ hook' = [k \in Connections |-> IF hook[k] = o THEN NoObject ELSE hook[k]]
  /\ paused' = paused \ Reaped(o)
  /\ poll' = [k \in Connections |-> poll[k] /\ (paused \ Reaped(o)) \cap OpenedBy(k) # {}]
  /\ UNCHANGED <<alive, guard, conn, buffer>>

-----------------------------------------------------------------------------
(* The /rpc operations.                                                    *)

\* terminal_open and script_start, up to the await: the process is spawned, for the
\* object the map has now.
Open(k, p, kind) ==
  /\ conn[k] = "open" /\ phase = "serving" /\ proc[p].at = "none"
  /\ entry # NoObject /\ life[entry] # "ended"
  /\ kind = "script" => guard = NoProc
  /\ proc' = [proc EXCEPT ![p] = [at |-> "opening", kind |-> kind, by |-> k,
                                  on |-> entry, heard |-> FALSE]]
  /\ alive' = alive \cup {p}
  /\ UNCHANGED <<session, conn, guard, hook, flow>>

\* start(), resumed: the guard names the run while it lives.
Guarded(p) ==
  guard' = IF proc[p].kind # "script" THEN guard ELSE IF p \in alive THEN p ELSE NoProc

\* A mutant: the connection may have closed during the spawn, and is not asked.
OpenedUnasked(p) ==
  LET k == proc[p].by
      o == proc[p].on
      mine == {p} \cup OwnedBy(k)
  IN /\ proc[p].at = "opening" /\ Guarded(p)
     /\ IF hook[k] = NoObject /\ life[o] = "ended"
        THEN proc' = Closing([proc EXCEPT ![p].heard = TRUE], mine) /\ StopPoll(k, mine) /\ UNCHANGED hook
        ELSE /\ proc' = [proc EXCEPT ![p].at = "owned", ![p].heard = TRUE]
             /\ hook' = [hook EXCEPT ![k] = IF @ = NoObject THEN o ELSE @]
             /\ UNCHANGED <<paused, poll>>
     /\ UNCHANGED <<session, conn, alive, buffer>>

\* The handler resumes: on a closed connection it reaps the process; else it registers
\* it and hooks the session, which closes everything when that has already ended.
Opened(p) ==
  LET k == proc[p].by
      o == proc[p].on
      mine == {p} \cup OwnedBy(k)
  IN /\ proc[p].at = "opening" /\ Guarded(p)
     /\ IF conn[k] = "closed"
        THEN proc' = Closing(proc, {p}) /\ UNCHANGED <<hook, paused, poll>>
        ELSE IF hook[k] = NoObject /\ life[o] = "ended"
        THEN proc' = Closing([proc EXCEPT ![p].heard = TRUE], mine) /\ StopPoll(k, mine) /\ UNCHANGED hook
        ELSE /\ proc' = [proc EXCEPT ![p].at = "owned", ![p].heard = TRUE]
             /\ hook' = [hook EXCEPT ![k] = IF @ = NoObject THEN o ELSE @]
             /\ UNCHANGED <<paused, poll>>
     /\ UNCHANGED <<session, conn, alive, buffer>>

\* terminal_close, script_stop: the listener stays, for the exit push.
CloseProcess(p) ==
  /\ proc[p].at = "owned" /\ conn[proc[p].by] = "open" /\ phase = "serving"
  /\ proc' = Closing(proc, {p})
  /\ IF proc[p].kind = "terminal" THEN StopPoll(proc[p].by, {p}) ELSE UNCHANGED <<paused, poll>>
  /\ UNCHANGED <<session, conn, alive, guard, hook, buffer>>

\* The socket closed: connection.close() detaches and closes what it owns.
Drop(k) ==
  /\ conn[k] = "open"
  /\ conn' = [conn EXCEPT ![k] = "closed"]
  /\ proc' = [p \in Procs |-> IF p \in OwnedBy(k) THEN [proc[p] EXCEPT !.at = "closing", !.heard = FALSE]
                                                  ELSE proc[p]]
  /\ hook' = [hook EXCEPT ![k] = NoObject]
  /\ paused' = paused \ OpenedBy(k) /\ poll' = [poll EXCEPT ![k] = FALSE]
  /\ UNCHANGED <<session, alive, guard, buffer>>

\* A process ends, by itself or killed by its closing scope.  A script that ends lets
\* another start.
Ends(p) ==
  /\ p \in alive
  /\ alive' = alive \ {p}
  /\ guard' = IF guard = p THEN NoProc ELSE guard
  /\ UNCHANGED <<session, conn, proc, hook, flow>>

\* The scope has closed.
Closed(p) ==
  /\ proc[p].at = "closing" /\ p \notin alive
  /\ proc' = [proc EXCEPT ![p].at = "closed", ![p].heard = FALSE, ![p].on = NoObject]
  /\ UNCHANGED <<session, conn, alive, guard, hook, flow>>

-----------------------------------------------------------------------------
(* Backpressure.                                                           *)

Fuller(level) == IF level = "drained" THEN "busy" ELSE "full"

\* A terminal prints: the write that fills the buffer pauses it.
Output(p) ==
  LET k == proc[p].by IN
  /\ p \in alive /\ proc[p].kind = "terminal" /\ proc[p].heard /\ p \notin paused
  /\ buffer' = IF conn[k] = "open" THEN [buffer EXCEPT ![k] = Fuller(@)] ELSE buffer
  /\ IF buffer'[k] = "full"
     THEN paused' = paused \cup {p} /\ poll' = [poll EXCEPT ![k] = TRUE]
     ELSE UNCHANGED <<paused, poll>>
  /\ UNCHANGED <<session, conn, owners, hook>>

\* Everything else that is sent: scripts print, events are pushed.
OtherTraffic(k) ==
  /\ conn[k] = "open" /\ buffer[k] # "full"
  /\ buffer' = [buffer EXCEPT ![k] = Fuller(@)]
  /\ UNCHANGED <<session, conn, owners, hook, paused, poll>>

Drains(k) ==
  /\ conn[k] = "open" /\ buffer[k] # "drained"
  /\ buffer' = [buffer EXCEPT ![k] = IF @ = "full" THEN "busy" ELSE "drained"]
  /\ UNCHANGED <<session, conn, owners, hook, paused, poll>>

\* The poll finds the buffer drained: it resumes every terminal, and stops.
PollResumes(k) ==
  /\ poll[k] /\ buffer[k] = "drained"
  /\ paused' = paused \ OpenedBy(k) /\ poll' = [poll EXCEPT ![k] = FALSE]
  /\ UNCHANGED <<session, conn, owners, hook, buffer>>

-----------------------------------------------------------------------------
(* The session.                                                            *)

Fresh == {o \in Objects : life[o] = "none" /\ \A i \in 1 .. o - 1 : life[i] # "none"}

\* pi exits.
PiExits ==
  /\ entry # NoObject /\ held = NoObject /\ life[entry] = "live"
  /\ life' = [life EXCEPT ![entry] = "ended"]
  /\ ExitOf(entry)
  /\ UNCHANGED <<entry, held, phase>>

\* Parking ends pi but is no exit: no listener is called.
Park ==
  /\ entry # NoObject /\ held = NoObject /\ life[entry] = "live" /\ phase = "serving"
  /\ life' = [life EXCEPT ![entry] = "parked"]
  /\ UNCHANGED <<entry, held, phase, conn, owners, hook, flow>>

\* A wake: the candidate takes the map while it is seeded ...
WakeBegins ==
  /\ entry # NoObject /\ held = NoObject /\ life[entry] = "parked" /\ phase = "serving"
  /\ \E o \in Fresh : entry' = o /\ life' = [life EXCEPT ![o] = "live"]
  /\ held' = entry
  /\ UNCHANGED <<phase, conn, owners, hook, flow>>

\* ... the parked object adopts its runtime: the candidate's own listeners are not
\* called any more ...
WakeEnds ==
  /\ held # NoObject
  /\ life' = [life EXCEPT ![held] = "live", ![entry] = "adopted"]
  /\ entry' = held /\ held' = NoObject
  /\ UNCHANGED <<phase, conn, owners, hook, flow>>

\* ... or the candidate fails, is destroyed, and the parked object is put back.
WakeFails ==
  /\ held # NoObject
  /\ life' = [life EXCEPT ![entry] = "ended"]
  /\ ExitOf(entry)
  /\ entry' = held /\ held' = NoObject
  /\ UNCHANGED phase

\* An ended session is resumed: another object.
ResumeEnded ==
  /\ entry # NoObject /\ held = NoObject /\ life[entry] = "ended" /\ phase = "serving"
  /\ \E o \in Fresh : entry' = o /\ life' = [life EXCEPT ![o] = "live"]
  /\ UNCHANGED <<held, phase, conn, owners, hook, flow>>

\* destroy: stop() publishes the exit, of a parked object too; then the map entry goes.
Stopped ==
  IF life[entry] = "ended" THEN UNCHANGED <<life, conn, owners, hook, flow>>
  ELSE life' = [life EXCEPT ![entry] = "ended"] /\ ExitOf(entry)

Destroy ==
  /\ entry # NoObject /\ held = NoObject /\ phase = "serving"
  /\ Stopped
  /\ entry' = NoObject
  /\ UNCHANGED <<held, phase>>

-----------------------------------------------------------------------------
(* The shutdown: server.ts close().                                        *)

CloseServer ==
  /\ phase = "serving" /\ phase' = "closing"
  /\ UNCHANGED <<entry, held, life, conn, owners, hook, flow>>

StopSessions ==
  /\ phase = "closing" /\ phase' = "stopped"
  /\ IF entry = NoObject THEN UNCHANGED <<life, conn, owners, hook, flow>> ELSE Stopped
  /\ entry' = NoObject /\ held' = NoObject

\* A mutant: the sweep does not wait for the handlers.
DrainAtOnce ==
  /\ phase = "stopped" /\ phase' = "drained"
  /\ UNCHANGED <<entry, held, life, conn, owners, hook, flow>>

\* drainWebSocketOperations: the handlers have returned.
Drain ==
  /\ phase = "stopped" /\ \A p \in Procs : proc[p].at # "opening"
  /\ phase' = "drained"
  /\ UNCHANGED <<entry, held, life, conn, owners, hook, flow>>

\* closeAll of both gateways: whatever is still open is closed.
Sweep ==
  /\ phase = "drained" /\ phase' = "swept"
  /\ proc' = Closing(proc, {p \in Procs : proc[p].at = "owned"})
  /\ UNCHANGED <<entry, held, life, conn, alive, guard, hook, flow>>

Swept ==
  /\ phase = "swept" /\ \A p \in Procs : proc[p].at # "closing"
  /\ phase' = "closed"
  /\ UNCHANGED <<entry, held, life, conn, owners, hook, flow>>

ProcNext ==
  \/ \E p \in Procs :
       \/ \E k \in Connections, kind \in {"terminal", "script"} : Open(k, p, kind)
       \/ Opened(p) \/ CloseProcess(p) \/ Ends(p) \/ Closed(p) \/ Output(p)
  \/ \E k \in Connections : Drop(k) \/ OtherTraffic(k) \/ Drains(k) \/ PollResumes(k)
  \/ PiExits \/ Park \/ WakeBegins \/ WakeEnds \/ WakeFails \/ ResumeEnded \/ Destroy
  \/ CloseServer \/ StopSessions \/ Drain \/ Sweep \/ Swept

ProcSpec == ProcInit /\ [][ProcNext]_procVars

\* The interval fires while it is set.
ProcFairness == \A k \in Connections : WF_procVars(PollResumes(k))

-----------------------------------------------------------------------------
(* Properties.                                                             *)

\* Every process that runs has somebody who will end it: the handler that is opening
\* it, an open connection that has a hook on a session, or a scope that is closing.
ProcessesHaveOwners ==
  \A p \in alive :
    \/ proc[p].at \in {"opening", "closing"}
    \/ proc[p].at = "owned" /\ conn[proc[p].by] = "open" /\ hook[proc[p].by] # NoObject
    \/ proc[p].at = "owned" /\ phase # "serving"

\* The one-per-session guard never outlives its run: a session is not barred from
\* starting a script because of one that ended, whoever stopped it and however.
GuardIsHonest == guard # NoProc => guard \in alive /\ proc[guard].kind = "script"

\* A shutdown that returned left no process behind.
ShutdownSweepsProcesses == phase = "closed" => alive = {}

\* The three together, of a state of the right type.
ProcessesAccountedFor ==
  ProcTypeOK /\ ProcessesHaveOwners /\ GuardIsHonest /\ ShutdownSweepsProcesses

\* "A removed session can never leave orphan child processes".
NothingOutlivesItsSession ==
  phase = "serving" /\ entry = NoObject => \A p \in alive : proc[p].at # "owned"

\* A terminal is not left paused on a connection that has drained, whatever became of
\* the terminals that were paused with it.
PausedTerminalsFlow ==
  \A p \in Procs :
    []<>~(proc[p].at = "owned" /\ p \in paused /\ buffer[proc[p].by] = "drained")
=============================================================================
