------------------------------ MODULE LoopRun -------------------------------
(***************************************************************************)
(* One run of a Loop, from LoopEngine.start to its terminal status:        *)
(* apps/server/src/loopEngine.ts.  execute() is one asynchronous task; an  *)
(* action below is what it does synchronously between two awaits, so that  *)
(* a stop, a write failure or a restart of the server can fall between.    *)
(*                                                                         *)
(* The agents are the environment: a role call returns a report or throws. *)
(* Reports, prompts and timelines are abstracted; what stays is each       *)
(* child's recorded status, the verdicts execute() branches on, and the    *)
(* copy of the run in loop-runs.json (disk).  A write fails exactly while  *)
(* the disk is full.                                                       *)
(***************************************************************************)
EXTENDS Integers, FiniteSets

CONSTANTS
  Stages,        \* number of pipeline stages
  Branches,      \* number of parallel branches
  MaxIterations, \* bound: iterations of a run
  MaxRestarts,   \* bound: restarts of the server
  MaxFills       \* bound: times the disk fills up

\* A pipeline has a stage: a Loop without one is not launched.
ASSUME RunAssumption ==
  /\ Stages \in Nat \ {0}
  /\ MaxIterations \in Nat \ {0} /\ MaxRestarts \in Nat /\ MaxFills \in Nat

Structures == {"singleAgent", "makerChecker", "agentPipeline", "parallelAgents",
               "discoveryTriage", "humanApproval"}
Terminal == {"completed", "failed", "stopped", "notAchieved", "interrupted"}

At(phase) == <<phase, 0>>
Idle == At("none")
Slots == {At("maker"), At("checker"), At("triage"), At("evaluator")}
           \cup ({"stage"} \X (1 .. Stages)) \cup ({"branch"} \X (1 .. Branches))
BranchSlots == {"branch"} \X (1 .. Branches)
Unused == [s \in Slots |-> "none"]

VARIABLES
  definition,    \* the launched definition: structure, maxIterations, validates
  run,       \* this.runs.get(id), or NoRun
  task,      \* where execute() is suspended; Idle when no task runs
  live,      \* branch calls in flight
  aborted,   \* active.controller.signal.aborted
  disk,      \* the run in loop-runs.json, or NoRun
  full,      \* environment: every write throws
  restarts, fills,   \* bounds
  writeFailed,       \* history: some write of the run threw
  stopTaken          \* history: stop() was accepted while the run was running

vars == <<definition, run, task, live, aborted, disk, full, restarts, fills,
          writeFailed, stopTaken>>

\* LoopRun: status and reason; the current iteration's children and verdicts;
\* the statuses children of earlier iterations were left with.
NoRun == [status |-> "none", reason |-> "none", index |-> 0, child |-> Unused,
          earlier |-> {}, checker |-> "none", validation |-> "none", goal |-> "none"]

Definition == [structure : Structures, maxIterations : 0 .. MaxIterations, validates : BOOLEAN]

Tasks == {Idle, At("yield"), At("branches"), At("validation")} \cup (Slots \ BranchSlots)

\* Types of the launched definition, the record, its durable copy and the task.
TypeOK ==
  /\ definition \in Definition
  /\ \A r \in {run, disk} :
       /\ r.status \in Terminal \cup {"none", "running", "stopping"}
       /\ r.index \in 0 .. MaxIterations + 1
       /\ r.child \in [Slots -> {"none", "queued", "running", "completed", "failed", "stopped"}]
       /\ r.validation \in {"none", "unconfigured", "passed", "failed", "timeout", "spawnError"}
       /\ r.checker \in {"none", "APPROVE", "CONTINUE", "ASK_HUMAN"}
       /\ r.goal \in {"none", "SUCCESS", "CONTINUE", "FAIL"}
  /\ task \in Tasks
  /\ live \subseteq BranchSlots
  /\ {aborted, full, writeFailed, stopTaken} \subseteq BOOLEAN
  /\ restarts \in 0 .. MaxRestarts /\ fills \in 0 .. MaxFills

Init ==
  /\ definition \in Definition
  /\ run = NoRun /\ disk = NoRun
  /\ task = Idle /\ live = {} /\ aborted = FALSE
  /\ full = FALSE /\ restarts = 0 /\ fills = 0
  /\ writeFailed = FALSE /\ stopTaken = FALSE

-----------------------------------------------------------------------------
(* Persisting and settling.                                                *)

\* persist: the whole record, atomically, or nothing.
Save(r) ==
  /\ disk' = IF full THEN disk ELSE r
  /\ writeFailed' = (writeFailed \/ full)

\* finalize, and execute() returning: the status is set before the write that
\* may throw, so memory is terminal either way.
Settle(r, status, reason) ==
  /\ run' = [r EXCEPT !.status = status, !.reason = reason]
  /\ task' = Idle /\ live' = {}
  /\ Save(run')

\* execute() suspends at t with r as the run; what it changed is written.
Suspend(r, t) == run' = r /\ task' = t /\ live' = {} /\ Save(r)

Set(r, slot, status) == [r EXCEPT !.child[slot] = status]
StatusesOf(r) == {r.child[s] : s \in Slots} \ {"none"}

\* A mutant: a stop counts only through the signal.
StopAskedBySignal(r) == aborted

\* stopped(): the test after every await.
StopAsked(r) == aborted \/ r.status = "stopping"

-----------------------------------------------------------------------------
(* The course of an iteration.                                             *)

\* role() up to its await: the child is recorded before the write that may
\* throw, and it is outside role's try.  The error ends the run.
Call(r, slot) ==
  LET started == Set(r, slot, "running") IN
  IF full THEN Settle(started, "failed", "agentFailed")
          ELSE Suspend(started, slot)

\* Every branch is recorded as queued, then two workers take one each.
CallBranches(r) ==
  LET first == {s \in BranchSlots : s[2] <= 2} IN
  /\ run' = [r EXCEPT !.child = [s \in Slots |-> IF s \in first THEN "running"
                                 ELSE IF s \in BranchSlots THEN "queued" ELSE "none"]]
  /\ task' = At("branches") /\ live' = first
  /\ Save(run')

FreshIteration(r) ==
  [r EXCEPT !.index = r.index + 1, !.earlier = @ \cup StatusesOf(r), !.child = Unused,
            !.checker = "none", !.validation = "none", !.goal = "none"]

\* The top of the loop: the iteration is pushed and written before the try, then
\* the structure's first role is called.
BeginIteration(r) ==
  LET fresh == FreshIteration(r) IN
  IF full THEN Settle(fresh, "failed", "agentFailed")
  ELSE CASE definition.structure \in {"singleAgent", "makerChecker"} -> Call(fresh, At("maker"))
         [] definition.structure = "discoveryTriage" -> Call(fresh, At("triage"))
         [] definition.structure = "agentPipeline" -> Call(fresh, <<"stage", 1>>)
         [] definition.structure = "parallelAgents" -> CallBranches(fresh)

\* The structure's work is done: the configured validation command, then the
\* evaluator.
Validate(r) ==
  IF definition.validates THEN Suspend(r, At("validation"))
  ELSE Call([r EXCEPT !.validation = "unconfigured"], At("evaluator"))

\* A mutant: a failed validation does not hold a SUCCESS back.
ConcludeIgnoringValidation(r) ==
  CASE r.goal = "FAIL" -> Settle(r, "failed", "agentFailed")
    [] r.goal = "SUCCESS" -> Settle(r, "completed", "success")
    [] OTHER -> Settle(r, "notAchieved", "maxIterationsReached")

\* What follows the evaluator: the outcome, or another iteration.
Conclude(r) ==
  IF \E s \in BranchSlots : r.child[s] \notin {"none", "completed"}
  THEN Settle(r, "failed", "agentFailed")
  ELSE CASE r.goal = "FAIL" -> Settle(r, "failed", "agentFailed")
         [] r.goal # "FAIL" /\ r.validation \in {"spawnError", "timeout"}
              -> Settle(r, "failed", "toolFailed")
         [] r.goal = "SUCCESS" /\ r.validation \in {"passed", "unconfigured"}
              -> Settle(r, "completed", "success")
         [] OTHER ->
              IF r.checker = "ASK_HUMAN" THEN Settle(r, "stopped", "humanInputRequired")
              ELSE IF definition.maxIterations = 0 THEN Suspend(r, At("yield"))
              ELSE IF r.index < definition.maxIterations THEN BeginIteration(r)
              ELSE Settle(r, "notAchieved",
                          IF r.validation = "failed" THEN "validationFailedAfterFinalIteration"
                                                     ELSE "maxIterationsReached")

\* A completed role's report is saved, and the next step of the structure runs.
Proceed(r) ==
  LET phase == task[1] IN
  CASE phase = "maker" -> IF definition.structure = "singleAgent" THEN Validate(r)
                          ELSE Call(r, At("checker"))
    [] phase = "triage" -> Validate(r)
    [] phase = "stage" -> IF task[2] < Stages THEN Call(r, <<"stage", task[2] + 1>>) ELSE Validate(r)
    [] phase = "checker" ->
         \/ Settle(r, "failed", "agentFailed")    \* FAIL, or no decision line
         \/ \E d \in {"APPROVE", "CONTINUE", "ASK_HUMAN"} : Validate([r EXCEPT !.checker = d])
    [] phase = "evaluator" ->
         \E d \in {"SUCCESS", "CONTINUE", "FAIL"} : Conclude([r EXCEPT !.goal = d])

-----------------------------------------------------------------------------
(* Actions.                                                                *)

\* start(): a run the store cannot record is removed again, so nothing starts on
\* a full disk.  A Human Approval run settles at once; any other is recorded, and
\* execute() runs up to its first role.
Start ==
  /\ run.status = "none" /\ ~full
  /\ IF definition.structure = "humanApproval"
     THEN Settle([NoRun EXCEPT !.index = 1], "stopped", "humanInputRequired")
     ELSE BeginIteration([NoRun EXCEPT !.status = "running"])
  /\ UNCHANGED <<definition, aborted, full, restarts, fills, stopTaken>>

\* The top of the loop after the yield of a run without a limit.
YieldEnds ==
  /\ task = At("yield")
  /\ IF StopAsked(run) THEN Settle(run, "stopped", "userStopped")
     ELSE run.index < MaxIterations /\ BeginIteration(run)
  /\ UNCHANGED <<definition, aborted, full, restarts, fills, stopTaken>>

\* role() resumes with a report.
RoleReturns ==
  /\ task \in Slots
  /\ IF StopAsked(run)
     THEN Settle(Set(run, task, IF aborted \/ ~full THEN "stopped" ELSE "failed"),
                 "stopped", "userStopped")
     ELSE IF full THEN Settle(Set(run, task, "failed"), "failed", "agentFailed")
     ELSE \/ Proceed(Set(run, task, "completed"))
          \/ Settle(Set(run, task, "completed"), "failed", "toolFailed")   \* the report's file
  /\ UNCHANGED <<definition, aborted, full, restarts, fills, stopTaken>>

\* role() resumes with an error.
RoleThrows ==
  /\ task \in Slots
  /\ LET ended == Set(run, task, IF aborted THEN "stopped" ELSE "failed") IN
     IF StopAsked(run) THEN Settle(ended, "stopped", "userStopped")
                       ELSE Settle(ended, "failed", "agentFailed")
  /\ UNCHANGED <<definition, aborted, full, restarts, fills, stopTaken>>

\* The validation command ends; it has a timeout and is killed by an abort.  A
\* write that fails in validation() is recorded as a spawn error of the command.
ValidationReturns ==
  /\ task = At("validation")
  /\ IF StopAsked(run) THEN Settle(run, "stopped", "userStopped")
     ELSE \/ \E v \in IF full THEN {"spawnError"} ELSE {"passed", "failed", "timeout", "spawnError"} :
               Call([run EXCEPT !.validation = v], At("evaluator"))
          \/ Settle(run, "failed", "toolFailed")    \* its output files
  /\ UNCHANGED <<definition, aborted, full, restarts, fills, stopTaken>>

NextQueued(r) ==
  LET queued == {s \in BranchSlots : r.child[s] = "queued"} IN
  {s \in queued : \A q \in queued : s[2] <= q[2]}

\* A branch call ends, and its worker takes the next queued one.  When that
\* branch's first write throws, its status stays "running" and the worker goes on
\* to the next, all in the same step.
BranchReturns(s, ok) ==
  /\ s \in live
  /\ LET ended == Set(run, s, IF aborted THEN "stopped"
                              ELSE IF ok /\ ~full THEN "completed" ELSE "failed")
         taken == IF aborted THEN {}
                  ELSE IF full THEN {q \in BranchSlots : run.child[q] = "queued"}
                  ELSE NextQueued(run)
     IN /\ run' = [ended EXCEPT !.child = [q \in Slots |->
                      IF q \in taken THEN "running" ELSE ended.child[q]]]
        /\ live' = (live \ {s}) \cup (IF full THEN {} ELSE taken)
  /\ IF aborted THEN UNCHANGED <<disk, writeFailed>> ELSE Save(run')
  /\ UNCHANGED <<definition, task, aborted, full, restarts, fills, stopTaken>>

\* A mutant: the join waits for the whole queue although the workers no longer take
\* from it.
BranchesJoinWholeQueue ==
  /\ task = At("branches") /\ live = {} /\ NextQueued(run) = {}
  /\ IF StopAsked(run) THEN Settle(run, "stopped", "userStopped") ELSE Validate(run)
  /\ UNCHANGED <<definition, aborted, full, restarts, fills, stopTaken>>

\* Promise.all over the workers.
BranchesJoin ==
  /\ task = At("branches") /\ live = {}
  /\ aborted \/ NextQueued(run) = {}
  /\ IF StopAsked(run)
     THEN Settle([run EXCEPT !.child = [q \in Slots |->
                    IF run.child[q] = "queued" THEN "stopped" ELSE run.child[q]]],
                 "stopped", "userStopped")
     ELSE IF full THEN Settle(run, "failed", "agentFailed")
     ELSE Validate(run) \/ Settle(run, "failed", "toolFailed")
  /\ UNCHANGED <<definition, aborted, full, restarts, fills, stopTaken>>

\* stop(): the status is written before the signal, so on a full disk the first
\* call only marks the run; a second call finds it "stopping" and aborts.
Stop ==
  /\ run.status \in {"running", "stopping"} /\ task # Idle /\ ~aborted
  /\ IF run.status = "running"
     THEN /\ run' = [run EXCEPT !.status = "stopping"]
          /\ Save(run')
          /\ aborted' = ~full
          /\ stopTaken' = TRUE
     ELSE aborted' = TRUE /\ UNCHANGED <<run, disk, writeFailed, stopTaken>>
  /\ UNCHANGED <<definition, task, live, full, restarts, fills>>

\* resolveHumanApproval: the first decision stands.
Resolve(reason) ==
  /\ definition.structure = "humanApproval"
  /\ run.status = "stopped" /\ run.reason = "humanInputRequired"
  /\ run' = [run EXCEPT !.reason = reason, !.index = @ + 1]
  /\ Save(run')
  /\ UNCHANGED <<definition, task, live, aborted, full, restarts, fills, stopTaken>>

\* persist() writes every run: another run's write carries this one.
OtherRunSaves ==
  /\ ~full /\ disk # run
  /\ disk' = run
  /\ UNCHANGED <<definition, run, task, live, aborted, full, restarts, fills, writeFailed, stopTaken>>

\* Mutants: a recovery that leaves the children as they are, or that takes every
\* run for one the restart interrupted.
RecoveredStatusOnly(r) ==
  IF r.status \in {"running", "stopping"}
  THEN [r EXCEPT !.status = "interrupted", !.reason = "appInterrupted"] ELSE r
RecoveredAll(r) == [r EXCEPT !.status = "interrupted", !.reason = "appInterrupted"]

\* loadAndRecover on one record.
Recovered(r) ==
  IF r.status \in {"running", "stopping"}
  THEN [r EXCEPT !.status = "interrupted", !.reason = "appInterrupted",
                 !.earlier = {IF s \in {"queued", "running"} THEN "stopped" ELSE s : s \in @},
                 !.child = [q \in Slots |-> IF r.child[q] \in {"queued", "running"}
                                            THEN "stopped" ELSE r.child[q]]]
  ELSE r

\* The server dies and comes back.  (A boot whose own write fails puts the store
\* aside: module LoopCheckouts.)
Restart ==
  /\ restarts < MaxRestarts /\ ~full /\ run.status # "none"
  /\ restarts' = restarts + 1
  /\ run' = Recovered(disk) /\ disk' = run'
  /\ task' = Idle /\ live' = {} /\ aborted' = FALSE
  /\ UNCHANGED <<definition, full, fills, writeFailed, stopTaken>>

DiskFills ==
  /\ ~full /\ fills < MaxFills
  /\ full' = TRUE /\ fills' = fills + 1
  /\ UNCHANGED <<definition, run, task, live, aborted, disk, restarts, writeFailed, stopTaken>>

DiskClears ==
  /\ full
  /\ full' = FALSE
  /\ UNCHANGED <<definition, run, task, live, aborted, disk, restarts, fills, writeFailed, stopTaken>>

Next ==
  \/ Start \/ YieldEnds \/ RoleReturns \/ RoleThrows \/ ValidationReturns
  \/ \E s \in BranchSlots, ok \in BOOLEAN : BranchReturns(s, ok)
  \/ BranchesJoin
  \/ Stop
  \/ \E r \in {"humanApproved", "humanRejected"} : Resolve(r)
  \/ OtherRunSaves \/ Restart \/ DiskFills \/ DiskClears

Spec == Init /\ [][Next]_vars

\* Once the signal is up the parent session is destroyed, so every agent call
\* and the validation command end; the event loop resumes what waits on them.
Fairness ==
  /\ WF_vars(aborted /\ (RoleReturns \/ RoleThrows))
  /\ WF_vars(aborted /\ (ValidationReturns \/ YieldEnds))
  /\ \A s \in BranchSlots : WF_vars(aborted /\ \E ok \in BOOLEAN : BranchReturns(s, ok))
  /\ WF_vars(BranchesJoin)

FairSpec == Spec /\ Fairness

-----------------------------------------------------------------------------
(* Properties.                                                             *)

ChildrenSettled(r) ==
  r.status \in Terminal => (StatusesOf(r) \cup r.earlier) \cap {"queued", "running"} = {}

\* A run that ended shows no agent as queued or at work, in memory or in the
\* store, over stops, restarts and branches that fail: unless a write of the run
\* failed (the child is recorded as running before the write that may throw).
NoLiveChildUnderTerminal == ~writeFailed => ChildrenSettled(run) /\ ChildrenSettled(disk)

\* "completed" means this iteration's evaluator said so, its validation passed and
\* every agent of it delivered, whatever the structure.
CompletedIsEarned ==
  run.status = "completed" =>
    /\ run.goal = "SUCCESS"
    /\ run.validation = IF definition.validates THEN "passed" ELSE "unconfigured"
    /\ \A s \in Slots : run.child[s] \in {"none", "completed"}
    /\ definition.structure = "makerChecker" => run.checker # "none"

\* A stop taken while the run was running decides its outcome: no verdict that was
\* on its way completes or fails the run, even when the stop could not be written.
StopWins ==
  stopTaken => \/ run.status \in {"stopping", "interrupted"}
               \/ run.status = "stopped" /\ run.reason = "userStopped"

\* The record in the store is a promise kept: opened once, settled once.
Durable == INSTANCE Promises WITH
  Jobs <- {"run"}, NoOutcome <- "none",
  open <- IF disk.status \in {"running", "stopping"} THEN {"run"} ELSE {},
  outcome <- [j \in {"run"} |-> IF disk.status \in Terminal THEN disk.status ELSE "none"]
RecordIsAPromise == Durable!Spec

\* A stop ends the run: whatever the agents do, execute() comes to its end.
StopEnds == aborted ~> (task = Idle)
=============================================================================
