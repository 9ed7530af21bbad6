------------------------------- MODULE PiHost -------------------------------
(***************************************************************************)
(* One pi process behind its handle: the correlation of requests and the   *)
(* event feed of apps/server/src/services/piHost.ts, over the subprocess   *)
(* of packages/pi-host/src/PiProcess.ts, from its start to its published   *)
(* exit and the end of stop().                                             *)
(*                                                                         *)
(* Environment: pi, which answers or not and dies when it likes; its       *)
(* descendants, which may hold its stdout open; the pipes; the clocks.     *)
(* Lines that are neither an answer nor an event change nothing.  The      *)
(* names begin with Host where LoopRun and ChildWorktrees have their like. *)
(***************************************************************************)
EXTENDS Naturals, Sequences

CONSTANTS
  Requests,
  MaxLines    \* bound: events pi writes

ASSUME LinesAssumption == MaxLines \in Nat

VARIABLES
  pi,          \* environment: "running" or "dead"
  heir,        \* environment: a descendant holds the write end of stdout
  stdin,       \* environment: requests that reached pi and are not answered
  stdout,      \* lines in the pipe and in callbacks that are queued
  stdoutAt,    \* "open", "closed" (its close event came), "done" (stdoutDone)
  exitRecord,  \* the exit of the process was observed
  drainTimer,  \* set
  exited,      \* the published exit; piHost's exitState
  stop,        \* where stop() is
  pending, answer,   \* requests that wait; how each one settled
  consumer,    \* the one run of events
  offered,     \* events put in the queue
  last,        \* how many were before the ProcessExit item
  taken,       \* events the consumer took
  written, replied,  \* histories: the events pi wrote, the requests it answered
  cut          \* history: lines were lost with a stdout forced to close

process == <<pi, heir, stdin, stdoutAt, exitRecord, drainTimer, exited, stop>>
feed == <<consumer, offered, last, taken>>
hostVars == <<pi, heir, stdin, stdout, stdoutAt, exitRecord, drainTimer, exited, stop,
              pending, answer, consumer, offered, last, taken, written, replied, cut>>

Unsettled == "none"
Line == [kind : {"reply"}, of : Requests] \cup [kind : {"event"}, of : Nat]

\* Types; an exit that is published is recorded, and stdout is done.
HostTypeOK ==
  /\ pi \in {"running", "dead"} /\ heir \in BOOLEAN
  /\ stdin \subseteq Requests /\ stdout \in Seq(Line)
  /\ stdoutAt \in {"open", "closed", "done"}
  /\ {exitRecord, drainTimer, exited, cut} \subseteq BOOLEAN
  /\ exitRecord \/ stdoutAt # "open" => pi = "dead"
  /\ exited <=> exitRecord /\ stdoutAt = "done"
  /\ stop \in {"none", "waiting", "killed", "returned"}
  /\ pending \subseteq Requests
  /\ answer \in [Requests -> {Unsettled, "reply", "timeout", "exited"}]
  /\ consumer \in {"none", "reading", "left", "ended"}
  /\ {offered, last, taken, written} \subseteq Nat
  /\ replied \subseteq Requests

HostInit ==
  /\ pi = "running" /\ heir = FALSE
  /\ stdin = {} /\ stdout = <<>> /\ stdoutAt = "open"
  /\ exitRecord = FALSE /\ drainTimer = FALSE /\ exited = FALSE /\ stop = "none"
  /\ pending = {} /\ answer = [i \in Requests |-> Unsettled]
  /\ consumer = "none" /\ offered = 0 /\ last = 0 /\ taken = 0
  /\ written = 0 /\ replied = {} /\ cut = FALSE

-----------------------------------------------------------------------------
(* Requests.                                                               *)

\* request: refused once the exit is published; else registered and written.  A write
\* to a process already dead is lost, and its error swallowed.
Ask(i) ==
  /\ answer[i] = Unsettled /\ i \notin pending
  /\ IF exited
     THEN answer' = [answer EXCEPT ![i] = "exited"] /\ UNCHANGED <<pending, stdin>>
     ELSE /\ pending' = pending \cup {i}
          /\ stdin' = IF pi = "running" THEN stdin \cup {i} ELSE stdin
          /\ UNCHANGED answer
  /\ UNCHANGED <<pi, heir, stdout, stdoutAt, exitRecord, drainTimer, exited, stop, feed,
                 written, replied, cut>>

\* A mutant: the entry stays, so a late answer finds it.
TimesOutKeepingEntry(i) ==
  /\ i \in pending
  /\ answer' = [answer EXCEPT ![i] = "timeout"]
  /\ UNCHANGED <<pending, process, stdout, feed, written, replied, cut>>

\* The timeout, or an interrupt of the waiting fiber: the entry is dropped.
TimesOut(i) ==
  /\ i \in pending
  /\ pending' = pending \ {i}
  /\ answer' = [answer EXCEPT ![i] = "timeout"]
  /\ UNCHANGED <<process, stdout, feed, written, replied, cut>>

-----------------------------------------------------------------------------
(* pi, and what it writes.                                                 *)

PiAnswers(i) ==
  /\ pi = "running" /\ i \in stdin
  /\ stdin' = stdin \ {i} /\ replied' = replied \cup {i}
  /\ stdout' = Append(stdout, [kind |-> "reply", of |-> i])
  /\ UNCHANGED <<pi, heir, stdoutAt, exitRecord, drainTimer, exited, stop, pending, answer,
                 feed, written, cut>>

PiEmits ==
  /\ pi = "running" /\ written < MaxLines
  /\ written' = written + 1
  /\ stdout' = Append(stdout, [kind |-> "event", of |-> written'])
  /\ UNCHANGED <<process, pending, answer, feed, replied, cut>>

\* pi starts a process that inherits its stdout; that process ends.
HeirStarts ==
  /\ pi = "running" /\ ~heir /\ heir' = TRUE
  /\ UNCHANGED <<pi, stdin, stdoutAt, exitRecord, drainTimer, exited, stop, stdout, pending,
                 answer, feed, written, replied, cut>>
HeirEnds ==
  /\ heir /\ heir' = FALSE
  /\ UNCHANGED <<pi, stdin, stdoutAt, exitRecord, drainTimer, exited, stop, stdout, pending,
                 answer, feed, written, replied, cut>>

\* pi exits, crashes, dies of SIGTERM, or could not be spawned.
PiDies ==
  /\ pi = "running" /\ pi' = "dead" /\ stdin' = {}
  /\ UNCHANGED <<heir, stdoutAt, exitRecord, drainTimer, exited, stop, stdout, pending, answer,
                 feed, written, replied, cut>>

\* The line callback: an answer settles the request that still waits for it, an event is
\* offered to the queue, which refuses it once its consumer has gone.
Deliver ==
  /\ stdout # <<>> /\ stdout' = Tail(stdout)
  /\ LET line == Head(stdout) IN
     IF line.kind = "reply"
     THEN /\ IF line.of \in pending
             THEN /\ pending' = pending \ {line.of}
                  /\ answer' = [answer EXCEPT ![line.of] = "reply"]
             ELSE UNCHANGED <<pending, answer>>
          /\ UNCHANGED offered
     ELSE /\ offered' = IF consumer \in {"none", "reading"} THEN offered + 1 ELSE offered
          /\ UNCHANGED <<pending, answer>>
  /\ UNCHANGED <<process, consumer, last, taken, written, replied, cut>>

-----------------------------------------------------------------------------
(* The exit.                                                               *)

\* maybePublishExit, and the exit listener: everything pending fails, the ProcessExit
\* item is offered, stop() returns.
Publish(ready) ==
  IF ready
  THEN /\ exited' = TRUE /\ drainTimer' = FALSE
       /\ answer' = [i \in Requests |-> IF i \in pending THEN "exited" ELSE answer[i]]
       /\ pending' = {}
       /\ last' = offered
       /\ stop' = IF stop = "none" THEN stop ELSE "returned"
  ELSE UNCHANGED <<exited, answer, pending, last, stop>>

\* A mutant: the backstop is not armed.
ExitObservedWithoutTimer ==
  /\ pi = "dead" /\ ~exitRecord /\ exitRecord' = TRUE
  /\ Publish(stdoutAt = "done")
  /\ stdoutAt # "done" => UNCHANGED drainTimer
  /\ UNCHANGED <<pi, heir, stdin, stdout, stdoutAt, consumer, offered, taken, written, replied,
                 cut>>

\* recordExit.
ExitObserved ==
  /\ pi = "dead" /\ ~exitRecord /\ exitRecord' = TRUE
  /\ Publish(stdoutAt = "done")
  /\ stdoutAt # "done" => drainTimer' = TRUE
  /\ UNCHANGED <<pi, heir, stdin, stdout, stdoutAt, consumer, offered, taken, written, replied,
                 cut>>

\* The close event: nobody holds the pipe any more, and at most the last chunk's callback
\* is still queued in this turn of the loop.
StdoutCloses ==
  /\ pi = "dead" /\ ~heir /\ stdoutAt = "open" /\ Len(stdout) <= 1
  /\ stdoutAt' = "closed"
  /\ UNCHANGED <<pi, heir, stdin, exitRecord, drainTimer, exited, stop, stdout, pending, answer,
                 feed, written, replied, cut>>

\* The backstop: a descendant still holds the pipe, so stdout is destroyed.
DrainTimerFires ==
  /\ drainTimer /\ heir /\ stdoutAt = "open"
  /\ stdoutAt' = "closed" /\ stdout' = <<>> /\ cut' = (stdout # <<>>)
  /\ UNCHANGED <<pi, heir, stdin, exitRecord, drainTimer, exited, stop, pending, answer, feed,
                 written, replied>>

\* A mutant: no barrier between the close event and the exit.
DrainedAtOnce ==
  /\ stdoutAt = "closed" /\ stdoutAt' = "done"
  /\ Publish(exitRecord)
  /\ ~exitRecord => UNCHANGED drainTimer
  /\ UNCHANGED <<pi, heir, stdin, stdout, exitRecord, consumer, offered, taken, written, replied,
                 cut>>

\* setImmediate: what was queued before it has been delivered.
Drained ==
  /\ stdoutAt = "closed" /\ stdout = <<>> /\ stdoutAt' = "done"
  /\ Publish(exitRecord)
  /\ ~exitRecord => UNCHANGED drainTimer
  /\ UNCHANGED <<pi, heir, stdin, stdout, exitRecord, consumer, offered, taken, written, replied,
                 cut>>

-----------------------------------------------------------------------------
(* stop().                                                                 *)

\* SIGTERM to the group; what it does is PiDies and HeirEnds.
StopCalled ==
  /\ stop = "none"
  /\ stop' = IF exited THEN "returned" ELSE "waiting"
  /\ UNCHANGED <<pi, heir, stdin, stdoutAt, exitRecord, drainTimer, exited, stdout, pending,
                 answer, feed, written, replied, cut>>

\* After the grace period SIGKILL to the group, unless the exit was observed.  A process
\* in an uninterruptible call survives it for now, a descendant in a group of its own does.
KillTimerFires ==
  /\ stop = "waiting" /\ stop' = "killed"
  /\ IF exitRecord THEN UNCHANGED <<pi, heir, stdin>>
     ELSE /\ heir' \in {heir, FALSE}
          /\ \/ pi' = "dead" /\ stdin' = {}
             \/ UNCHANGED <<pi, stdin>>
  /\ UNCHANGED <<stdoutAt, exitRecord, drainTimer, exited, stdout, pending, answer, feed,
                 written, replied, cut>>

\* The deadline: stop() gives up waiting.
DeadlinePasses ==
  /\ stop = "killed" /\ stop' = "returned"
  /\ UNCHANGED <<pi, heir, stdin, stdoutAt, exitRecord, drainTimer, exited, stdout, pending,
                 answer, feed, written, replied, cut>>

-----------------------------------------------------------------------------
(* The feed.                                                               *)

\* The first run of events claims them; a second one fails.
Claim ==
  /\ consumer = "none" /\ consumer' = "reading"
  /\ UNCHANGED <<process, stdout, pending, answer, offered, last, taken, written, replied, cut>>

Take ==
  /\ consumer = "reading" /\ taken < IF exited THEN last ELSE offered
  /\ taken' = taken + 1
  /\ UNCHANGED <<process, stdout, pending, answer, consumer, offered, last, written, replied,
                 cut>>

\* It takes the ProcessExit item, which ends the stream.
TakeExit ==
  /\ consumer = "reading" /\ exited /\ taken = last
  /\ consumer' = "ended"
  /\ UNCHANGED <<process, stdout, pending, answer, offered, last, taken, written, replied, cut>>

\* It leaves early: the queue is shut down.
Leave ==
  /\ consumer = "reading" /\ consumer' = "left"
  /\ UNCHANGED <<process, stdout, pending, answer, offered, last, taken, written, replied, cut>>

HostNext ==
  \/ \E i \in Requests : Ask(i) \/ TimesOut(i) \/ PiAnswers(i)
  \/ PiEmits \/ HeirStarts \/ HeirEnds \/ PiDies \/ Deliver
  \/ ExitObserved \/ StdoutCloses \/ DrainTimerFires \/ Drained
  \/ StopCalled \/ KillTimerFires \/ DeadlinePasses
  \/ Claim \/ Take \/ TakeExit \/ Leave

HostSpec == HostInit /\ [][HostNext]_hostVars

\* The event loop delivers what is in the pipe, its close and the exit; timers fire.
\* Nothing makes pi answer or die.
HostFairness ==
  /\ WF_hostVars(Deliver) /\ WF_hostVars(ExitObserved) /\ WF_hostVars(StdoutCloses)
  /\ WF_hostVars(DrainTimerFires) /\ WF_hostVars(Drained)
  /\ WF_hostVars(KillTimerFires) /\ WF_hostVars(DeadlinePasses)

-----------------------------------------------------------------------------
(* Properties.                                                             *)

\* "Exit is drain-gated": what pi wrote before it died comes before its exit.  No request
\* that pi answered fails for the exit, no request waits on a dead pi, and a consumer that
\* saw the exit saw every event: but for lines lost in a pipe that had to be forced.
ExitComesLast ==
  /\ exited => stdout = <<>> /\ pending = {}
  /\ ~cut => \A i \in replied : answer[i] # "exited"
  /\ consumer = "ended" /\ ~cut => taken = written

\* Each request settles once: a reply, a timeout and the exit that race leave one outcome,
\* and a late one finds nothing to settle.
HostPromise == INSTANCE Promises WITH
  Jobs <- Requests, NoOutcome <- Unsettled, open <- pending, outcome <- answer
AnswersArePromises == HostPromise!Spec

\* Neither the exit of a dead pi nor stop() waits for ever, whatever holds the pipe and
\* even when nothing can kill pi.
PiStopsInTime == (exitRecord ~> exited) /\ (stop = "waiting" ~> stop = "returned")
=============================================================================
