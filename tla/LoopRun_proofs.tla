--------------------------- MODULE LoopRun_proofs ---------------------------
(***************************************************************************)
(* Proofs about LoopRun, for every number of stages, branches, iterations, *)
(* restarts and full disks.                                                *)
(***************************************************************************)
EXTENDS LoopRun, WellFoundedInduction, TLAPS

\* The values of a record's fields.
Words ==
  Terminal \cup
  {"none", "queued", "running", "stopping", "unconfigured", "passed", "timeout", "spawnError",
   "APPROVE", "CONTINUE", "ASK_HUMAN", "SUCCESS", "FAIL", "agentFailed", "toolFailed", "success",
   "userStopped", "humanInputRequired", "humanApproved", "humanRejected", "appInterrupted",
   "maxIterationsReached", "validationFailedAfterFinalIteration"}

RunRecord == [status : Words, reason : Words, index : Int, child : [Slots -> Words],
              earlier : SUBSET Words, checker : Words, validation : Words, goal : Words]

Running == {"running", "stopping"}

\* What a run that is under way has behind it when it waits at t.
Course(r, t) ==
  /\ t[1] \in {"maker", "checker", "triage", "evaluator", "stage", "yield", "branches",
               "validation"}
  /\ definition.structure # "humanApproval"
  /\ t[1] = "triage" => definition.structure = "discoveryTriage"
  /\ t[1] = "stage" => definition.structure = "agentPipeline"
  /\ t[1] = "branches" => definition.structure = "parallelAgents"
  /\ t[1] = "validation" => definition.validates
  /\ t[1] \in {"validation", "evaluator"} /\ definition.structure = "makerChecker" => r.checker # "none"
  /\ \A s \in Slots \ BranchSlots : s # t => r.child[s] \in {"none", "completed"}
  /\ r.validation = "unconfigured" => ~definition.validates
  /\ ~definition.validates => r.validation \in {"none", "unconfigured"}

\* CompletedIsEarned of any record.
Earned(r) ==
  r.status = "completed" =>
    /\ r.goal = "SUCCESS"
    /\ r.validation = IF definition.validates THEN "passed" ELSE "unconfigured"
    /\ \A s \in Slots : r.child[s] \in {"none", "completed"}
    /\ definition.structure = "makerChecker" => r.checker # "none"

UserStopped(r) == r.status = "stopped" /\ r.reason = "userStopped"

\* What is true of a run between two steps of its task.
RunInv ==
  /\ definition \in Definition
  /\ run \in RunRecord /\ disk \in RunRecord
  /\ run.status \in Terminal \cup Running \cup {"none"}
  /\ task # Idle => run.status \in Running /\ Course(run, task)
  /\ live \subseteq BranchSlots /\ (live # {} => task = At("branches"))

\* The copy in the store is behind the run, never ahead of it.
StoreInv ==
  /\ disk.status \in Terminal => run.status = disk.status
  /\ disk.status = "none" <=> run.status = "none"
  /\ disk.status \in Terminal \cup Running \cup {"none"}

EarnedInv == Earned(run) /\ Earned(disk)

StopInv ==
  stopTaken =>
    /\ run.status \in {"stopping", "interrupted"} \/ UserStopped(run)
    /\ disk.status \in {"running", "stopping", "interrupted"} \/ UserStopped(disk)

IInv == RunInv /\ StoreInv /\ EarnedInv /\ StopInv

-----------------------------------------------------------------------------
(* The steps of a task, operator by operator.                              *)

\* A task that nobody stopped has moved on: the run goes on, or it ended and, if
\* completed, earned it.
Moved ==
  /\ run' \in RunRecord
  /\ disk' \in {disk, run'} /\ (~full => disk' = run')
  /\ live' \subseteq BranchSlots /\ (live' # {} => task' = At("branches"))
  /\ \/ task' # Idle /\ run'.status = "running" /\ Course(run', task')
     \/ task' = Idle /\ run'.status \in Terminal /\ Earned(run')

\* A record under way.
UnderWay(r) == r \in RunRecord /\ r.status = "running"

LEMMA SetChild ==
  ASSUME NEW r \in RunRecord, NEW slot, NEW status \in Words
  PROVE  /\ Set(r, slot, status) \in RunRecord
         /\ Set(r, slot, status).status = r.status
         /\ Set(r, slot, status).checker = r.checker
         /\ Set(r, slot, status).validation = r.validation
         /\ Set(r, slot, status).goal = r.goal
         /\ \A s \in Slots : s # slot => Set(r, slot, status).child[s] = r.child[s]
         /\ slot \in Slots => Set(r, slot, status).child[slot] = status
BY DEF Set, RunRecord

LEMMA SettleRecord ==
  ASSUME NEW r \in RunRecord, NEW status \in Words, NEW reason \in Words,
         Settle(r, status, reason)
  PROVE  /\ run' \in RunRecord
         /\ run'.status = status /\ run'.reason = reason
         /\ run'.child = r.child /\ run'.checker = r.checker
         /\ run'.validation = r.validation /\ run'.goal = r.goal
         /\ disk' \in {disk, run'} /\ (~full => disk' = run')
         /\ task' = Idle /\ live' = {}
BY DEF Settle, Save, RunRecord

LEMMA WordsAreWords ==
  /\ Terminal \subseteq Words
  /\ {"none", "queued", "running", "stopping", "unconfigured", "passed", "timeout", "spawnError",
      "completed", "failed", "stopped"} \subseteq Words
  /\ {"APPROVE", "CONTINUE", "ASK_HUMAN", "SUCCESS", "FAIL"} \subseteq Words
  /\ {"agentFailed", "toolFailed", "success", "userStopped", "humanInputRequired",
      "humanApproved", "humanRejected", "appInterrupted", "maxIterationsReached",
      "validationFailedAfterFinalIteration"} \subseteq Words
BY DEF Words, Terminal

LEMMA SettleMoves ==
  ASSUME NEW r \in RunRecord, NEW status \in Terminal \ {"completed"}, NEW reason \in Words,
         Settle(r, status, reason)
  PROVE  Moved
<1>1. status \in Words
  BY WordsAreWords
<1>2. QED
  BY <1>1, SettleRecord DEF Moved, Earned

LEMMA SuspendMoves ==
  ASSUME NEW r, UnderWay(r), NEW t, t # Idle, Course(r, t), Suspend(r, t)
  PROVE  Moved
BY DEF Moved, Suspend, Save, UnderWay

\* A role is called.
LEMMA CallMoves ==
  ASSUME NEW r, UnderWay(r), NEW slot, slot # Idle, Course(r, slot), Call(r, slot)
  PROVE  Moved
<1> DEFINE started == Set(r, slot, "running")
<1>1. UnderWay(started) /\ Course(started, slot)
  BY SetChild, WordsAreWords DEF UnderWay, Course
<1>2. CASE full
  <2>1. Settle(started, "failed", "agentFailed")
    BY <1>2 DEF Call
  <2>2. QED
    BY <1>1, <2>1, SettleMoves, WordsAreWords DEF Terminal, UnderWay
<1>3. CASE ~full
  <2>1. Suspend(started, slot)
    BY <1>3 DEF Call
  <2>2. QED
    BY <1>1, <2>1, SuspendMoves
<1>4. QED
  BY <1>2, <1>3

LEMMA SlotPhases ==
  ASSUME NEW s \in Slots
  PROVE  /\ s[1] \in {"maker", "checker", "triage", "evaluator", "stage", "branch"}
         /\ s \in BranchSlots <=> s[1] = "branch"
<1>1. CASE s \in {At("maker"), At("checker"), At("triage"), At("evaluator")}
  BY <1>1 DEF At, BranchSlots
<1>2. CASE s \in {"stage"} \X (1 .. Stages)
  BY <1>2 DEF BranchSlots
<1>3. CASE s \in {"branch"} \X (1 .. Branches)
  BY <1>3 DEF BranchSlots
<1>4. QED
  BY <1>1, <1>2, <1>3 DEF Slots

\* A run whose iteration has work behind it, all of it done but for branches.
Between(r) ==
  /\ UnderWay(r)
  /\ definition.structure # "humanApproval"
  /\ \A s \in Slots \ BranchSlots : r.child[s] \in {"none", "completed"}
  /\ r.validation = "unconfigured" => ~definition.validates
  /\ ~definition.validates => r.validation \in {"none", "unconfigured"}
  /\ definition.structure = "makerChecker" => r.checker # "none"

\* The work of a structure is done.
LEMMA ValidateMoves ==
  ASSUME NEW r, Between(r), Validate(r)
  PROVE  Moved
<1>1. CASE definition.validates
  <2>1. Course(r, At("validation")) /\ At("validation") # Idle
    BY <1>1 DEF Between, Course, At, Idle
  <2>2. QED
    BY <1>1, <2>1, SuspendMoves DEF Validate, Between
<1>2. CASE ~definition.validates
  <2> DEFINE bare == [r EXCEPT !.validation = "unconfigured"]
  <2>1. UnderWay(bare) /\ bare.child = r.child /\ bare.checker = r.checker
        /\ bare.validation = "unconfigured"
    BY WordsAreWords DEF Between, UnderWay, RunRecord
  <2>2. Course(bare, At("evaluator")) /\ At("evaluator") # Idle
    BY <1>2, <2>1 DEF Between, Course, At, Idle
  <2>3. Call(bare, At("evaluator"))
    BY <1>2 DEF Validate
  <2>4. QED
    BY <2>1, <2>2, <2>3, CallMoves
<1>3. QED
  BY <1>1, <1>2

\* An iteration begins with nobody called yet.
LEMMA FreshRecord ==
  ASSUME NEW r, UnderWay(r)
  PROVE  /\ UnderWay(FreshIteration(r))
         /\ FreshIteration(r).child = Unused /\ FreshIteration(r).validation = "none"
         /\ FreshIteration(r).earlier = r.earlier \cup StatusesOf(r)
<1> DEFINE fresh == FreshIteration(r)
           early == r.earlier \cup StatusesOf(r)
<1>1. StatusesOf(r) \subseteq Words
  BY DEF StatusesOf, UnderWay, RunRecord
<1>2. Unused \in [Slots -> Words]
  BY WordsAreWords DEF Unused
<1>3. early \in SUBSET Words /\ r.index + 1 \in Int /\ "none" \in Words
  BY <1>1, WordsAreWords DEF UnderWay, RunRecord
<1>4. fresh = [r EXCEPT !.index = r.index + 1, !.earlier = early, !.child = Unused,
                        !.checker = "none", !.validation = "none", !.goal = "none"]
  BY DEF FreshIteration
<1> HIDE DEF early, fresh
<1>5. r \in RunRecord /\ r.status = "running"
  BY DEF UnderWay
<1>6. fresh \in RunRecord /\ fresh.status = "running" /\ fresh.child = Unused
      /\ fresh.validation = "none" /\ fresh.earlier = early
  BY <1>2, <1>3, <1>4, <1>5 DEF RunRecord
<1>7. QED
  BY <1>6 DEF UnderWay, fresh, early

\* An iteration begins.
LEMMA BeginMoves ==
  ASSUME NEW r, UnderWay(r), RunInv, definition.structure # "humanApproval", BeginIteration(r)
  PROVE  Moved
<1> DEFINE fresh == FreshIteration(r)
<1>1. UnderWay(fresh) /\ fresh.child = Unused /\ fresh.validation = "none"
  BY FreshRecord
<1>2. \A s \in Slots : fresh.child[s] = "none"
  BY <1>1 DEF Unused
<1>3. CASE full
  <2>1. Settle(fresh, "failed", "agentFailed")
    BY <1>3 DEF BeginIteration
  <2>2. QED
    BY <1>1, <2>1, SettleMoves, WordsAreWords DEF Terminal, UnderWay
<1>4. CASE ~full /\ definition.structure \in {"singleAgent", "makerChecker"}
  <2>1. Call(fresh, At("maker"))
    BY <1>4 DEF BeginIteration
  <2>2. Course(fresh, At("maker")) /\ At("maker") # Idle
    BY <1>1, <1>2, <1>4 DEF Course, At, Idle
  <2>3. QED
    BY <1>1, <2>1, <2>2, CallMoves
<1>5. CASE ~full /\ definition.structure = "discoveryTriage"
  <2>1. Call(fresh, At("triage"))
    BY <1>5 DEF BeginIteration
  <2>2. Course(fresh, At("triage")) /\ At("triage") # Idle
    BY <1>1, <1>2, <1>5 DEF Course, At, Idle
  <2>3. QED
    BY <1>1, <2>1, <2>2, CallMoves
<1>6. CASE ~full /\ definition.structure = "agentPipeline"
  <2>1. Call(fresh, <<"stage", 1>>)
    BY <1>6 DEF BeginIteration
  <2>2. Course(fresh, <<"stage", 1>>) /\ <<"stage", 1>> # Idle
    BY <1>1, <1>2, <1>6 DEF Course, At, Idle
  <2>3. QED
    BY <1>1, <2>1, <2>2, CallMoves
<1>7. CASE ~full /\ definition.structure = "parallelAgents"
  <2>1. CallBranches(fresh)
    BY <1>7 DEF BeginIteration
  <2> DEFINE first == {s \in BranchSlots : s[2] <= 2}
             kids == [s \in Slots |-> IF s \in first THEN "running"
                                      ELSE IF s \in BranchSlots THEN "queued" ELSE "none"]
  <2>2. run' = [fresh EXCEPT !.child = kids] /\ task' = At("branches") /\ live' = first
        /\ Save(run')
    BY <2>1 DEF CallBranches
  <2>3. run' \in RunRecord /\ run'.status = "running" /\ run'.child = kids
        /\ run'.validation = "none" /\ run'.checker = fresh.checker
    BY <1>1, <2>2, WordsAreWords DEF UnderWay, RunRecord
  <2>4. Course(run', At("branches")) /\ At("branches") # Idle
    BY <1>7, <2>3 DEF Course, At, Idle
  <2>5. QED
    BY <2>2, <2>3, <2>4 DEF Moved, Save
<1>8. QED
  BY <1>3, <1>4, <1>5, <1>6, <1>7 DEF RunInv, Definition, Structures

\* The evaluator has spoken.
LEMMA ConcludeMoves ==
  ASSUME NEW r, Between(r), RunInv, Conclude(r)
  PROVE  Moved
<1>1. r \in RunRecord
  BY DEF Between, UnderWay
<1>2. ASSUME NEW status \in Terminal \ {"completed"}, NEW reason \in Words,
             Settle(r, status, reason)
      PROVE  Moved
  BY <1>1, <1>2, SettleMoves
<1> DEFINE undelivered == \E s \in BranchSlots : r.child[s] \notin {"none", "completed"}
           earned == r.goal = "SUCCESS" /\ r.validation \in {"passed", "unconfigured"}
<1>3. CASE undelivered
  BY <1>2, <1>3, WordsAreWords DEF Conclude, Terminal
<1>4. CASE ~undelivered /\ earned
  <2>1. Settle(r, "completed", "success")
    BY <1>4 DEF Conclude
  <2>2. /\ run' \in RunRecord /\ run'.status = "completed"
        /\ run'.child = r.child /\ run'.checker = r.checker
        /\ run'.validation = r.validation /\ run'.goal = r.goal
        /\ disk' \in {disk, run'} /\ (~full => disk' = run')
        /\ task' = Idle /\ live' = {}
    BY <1>1, <2>1, SettleRecord, WordsAreWords DEF Terminal
  <2>3. \A s \in Slots : r.child[s] \in {"none", "completed"}
    BY <1>4 DEF Between
  <2>4. r.validation = IF definition.validates THEN "passed" ELSE "unconfigured"
    BY <1>4 DEF Between
  <2>5. Earned(run')
    BY <1>4, <2>2, <2>3, <2>4 DEF Earned, Between
  <2>6. QED
    BY <2>2, <2>5 DEF Moved, Terminal
<1>5. CASE ~undelivered /\ ~earned
  <2>1. \/ \E status \in Terminal \ {"completed"}, reason \in Words : Settle(r, status, reason)
        \/ Suspend(r, At("yield"))
        \/ BeginIteration(r)
    BY <1>5, WordsAreWords DEF Conclude, Terminal
  <2>2. ASSUME Suspend(r, At("yield")) PROVE Moved
    <3>1. Course(r, At("yield")) /\ At("yield") # Idle
      BY DEF Between, Course, At, Idle
    <3>2. QED
      BY <2>2, <3>1, SuspendMoves DEF Between
  <2>3. ASSUME BeginIteration(r) PROVE Moved
    BY <2>3, BeginMoves DEF Between
  <2>4. QED
    BY <1>2, <2>1, <2>2, <2>3
<1>6. QED
  BY <1>3, <1>4, <1>5

\* A report was saved.
LEMMA ProceedMoves ==
  ASSUME RunInv, task \in Slots, UnderWay(run), Course(run, task),
         Proceed(Set(run, task, "completed"))
  PROVE  Moved
<1> DEFINE r == Set(run, task, "completed")
<1>1. UnderWay(r) /\ r.checker = run.checker /\ r.validation = run.validation
  BY SetChild, WordsAreWords DEF UnderWay
<1>2. \A s \in Slots \ BranchSlots : r.child[s] \in {"none", "completed"}
  BY SetChild, WordsAreWords DEF UnderWay, Course
<1>3. task[1] \in {"maker", "checker", "triage", "evaluator", "stage"}
  BY SlotPhases DEF Course
<1>4. ASSUME definition.structure = "makerChecker" => r.checker # "none"
      PROVE  Between(r)
  BY <1>1, <1>2, <1>4 DEF Between, Course
<1>5. ASSUME NEW slot, slot # Idle, slot[1] \in {"checker", "stage"},
             slot[1] = "stage" => definition.structure = "agentPipeline", Call(r, slot)
      PROVE  Moved
  <2>1. Course(r, slot)
    BY <1>1, <1>2, <1>5 DEF Course
  <2>2. QED
    BY <1>1, <1>5, <2>1, CallMoves
<1>6. CASE task[1] = "maker"
  <2>1. CASE definition.structure = "singleAgent"
    BY <1>4, <1>6, <2>1, ValidateMoves DEF Proceed
  <2>2. CASE definition.structure # "singleAgent"
    <3>1. Call(r, At("checker")) /\ At("checker")[1] = "checker" /\ At("checker") # Idle
      BY <1>6, <2>2 DEF Proceed, At, Idle
    <3>2. QED
      BY <1>5, <3>1
  <2>3. QED
    BY <2>1, <2>2
<1>7. CASE task[1] = "triage"
  <2>1. Validate(r) /\ definition.structure = "discoveryTriage"
    BY <1>7 DEF Proceed, Course
  <2>2. QED
    BY <1>4, <2>1, ValidateMoves
<1>8. CASE task[1] = "stage"
  <2>1. definition.structure = "agentPipeline"
    BY <1>8 DEF Course
  <2>2. CASE task[2] < Stages
    <3> DEFINE next == <<"stage", task[2] + 1>>
    <3>1. Call(r, next)
      BY <1>8, <2>2 DEF Proceed
    <3>2. next[1] = "stage" /\ next # Idle
      BY DEF Idle, At
    <3>3. QED
      BY <1>5, <2>1, <3>1, <3>2
  <2>3. CASE ~(task[2] < Stages)
    <3>1. Validate(r)
      BY <1>8, <2>3 DEF Proceed
    <3>2. QED
      BY <1>4, <2>1, <3>1, ValidateMoves
  <2>4. QED
    BY <2>2, <2>3
<1>9. CASE task[1] = "checker"
  <2>1. CASE Settle(r, "failed", "agentFailed")
    BY <1>1, <2>1, SettleMoves, WordsAreWords DEF Terminal, UnderWay
  <2>2. ASSUME NEW d \in {"APPROVE", "CONTINUE", "ASK_HUMAN"},
               Validate([r EXCEPT !.checker = d])
        PROVE  Moved
    <3> DEFINE judged == [r EXCEPT !.checker = d]
    <3>1. UnderWay(judged) /\ judged.child = r.child /\ judged.validation = r.validation
          /\ judged.checker # "none"
      BY <1>1, WordsAreWords DEF UnderWay, RunRecord
    <3>2. Between(judged)
      BY <1>1, <1>2, <3>1 DEF Between, Course
    <3>3. QED
      BY <2>2, <3>2, ValidateMoves
  <2>3. QED
    BY <1>9, <2>1, <2>2 DEF Proceed
<1>10. CASE task[1] = "evaluator"
  <2>1. PICK d \in {"SUCCESS", "CONTINUE", "FAIL"} : Conclude([r EXCEPT !.goal = d])
    BY <1>10 DEF Proceed
  <2> DEFINE judged == [r EXCEPT !.goal = d]
  <2>2. UnderWay(judged) /\ judged.child = r.child /\ judged.validation = r.validation
        /\ judged.checker = r.checker
    BY <1>1, WordsAreWords DEF UnderWay, RunRecord
  <2>3. Between(judged)
    BY <1>1, <1>2, <1>10, <2>2 DEF Between, Course
  <2>4. QED
    BY <2>1, <2>3, ConcludeMoves
<1>11. QED
  BY <1>3, <1>6, <1>7, <1>8, <1>9, <1>10

-----------------------------------------------------------------------------
(* Every step keeps the invariant.                                         *)

\* What a step may do to the durable copy: it takes over the run or stays, and it
\* never unsays that the run was opened or how it was settled.
CopyKept ==
  /\ disk' \in {disk, run'}
  /\ disk.status # "none" => run'.status # "none"
  /\ disk.status \in Terminal => run'.status = disk.status

\* A step of a task that nobody stopped.
LEMMA MovedIInv ==
  ASSUME IInv, task # Idle, run.status = "running", Moved, UNCHANGED <<definition, stopTaken>>
  PROVE  IInv' /\ CopyKept
<1>1. RunInv'
  BY DEF IInv, RunInv, Moved, Course, Running
<1>2. StoreInv'
  BY DEF IInv, StoreInv, Moved, Running, Terminal
<1>3. EarnedInv'
  BY DEF IInv, EarnedInv, Moved, Earned, Terminal
<1>4. StopInv'
  BY DEF IInv, StopInv, UserStopped
<1>5. CopyKept
  BY DEF CopyKept, Moved, IInv, StoreInv, Terminal
<1>6. QED
  BY <1>1, <1>2, <1>3, <1>4, <1>5 DEF IInv

\* A step that ends a task without completing the run.
LEMMA EndedIInv ==
  ASSUME IInv, task # Idle, NEW r \in RunRecord,
         NEW status \in {"stopped", "failed"}, NEW reason \in {"userStopped", "agentFailed", "toolFailed"},
         (status = "stopped" /\ reason = "userStopped") \/ run.status = "running",
         Settle(r, status, reason), UNCHANGED <<definition, stopTaken>>
  PROVE  IInv' /\ CopyKept
<1>1. /\ run' \in RunRecord
      /\ run'.status = status /\ run'.reason = reason
      /\ disk' \in {disk, run'}
      /\ task' = Idle /\ live' = {}
  BY SettleRecord, WordsAreWords
<1>2. RunInv'
  BY <1>1 DEF IInv, RunInv, Terminal
<1>3. StoreInv'
  BY <1>1 DEF IInv, RunInv, StoreInv, Terminal, Running
<1>4. EarnedInv'
  BY <1>1 DEF IInv, EarnedInv, Earned
<1>5. StopInv'
  BY <1>1 DEF IInv, StopInv, UserStopped
<1>6. CopyKept
  BY <1>1 DEF CopyKept, IInv, RunInv, StoreInv, Terminal, Running
<1>7. QED
  BY <1>2, <1>3, <1>4, <1>5, <1>6 DEF IInv

\* What a task that resumes finds.
LEMMA TaskResumes ==
  ASSUME IInv, task # Idle
  PROVE  /\ run \in RunRecord /\ run.status \in Running /\ Course(run, task)
         /\ ~StopAsked(run) => run.status = "running" /\ UnderWay(run)
BY DEF IInv, RunInv, StopAsked, Running, UnderWay

LEMMA SlotsAreNotIdle == Idle \notin Slots /\ \A p \in {"yield", "branches", "validation"} :
                                                 At(p) \notin Slots /\ At(p) # Idle
BY SlotPhases DEF Idle, At

\* A run starts only when there is none, on a disk that can record it.
LEMMA StartIInv == ASSUME IInv, Start PROVE IInv' /\ CopyKept
<1>1. run.status = "none" /\ disk.status = "none" /\ ~stopTaken /\ ~full
  BY DEF IInv, StoreInv, StopInv, Start, UserStopped
<1>2. NoRun \in RunRecord
  BY WordsAreWords DEF NoRun, RunRecord, Unused
<1>3. CASE definition.structure = "humanApproval"
  <2> DEFINE r == [NoRun EXCEPT !.index = 1]
  <2>1. Settle(r, "stopped", "humanInputRequired") /\ r \in RunRecord
    BY <1>2, <1>3 DEF Start, RunRecord
  <2>2. /\ run' \in RunRecord /\ run'.status = "stopped" /\ disk' = run'
        /\ task' = Idle /\ live' = {}
    BY <1>1, <2>1, SettleRecord, WordsAreWords
  <2>3. QED
    BY <1>1, <2>2 DEF Start, IInv, RunInv, StoreInv, EarnedInv, StopInv, Earned, CopyKept, Terminal,
                      Running
<1>4. CASE definition.structure # "humanApproval"
  <2> DEFINE r == [NoRun EXCEPT !.status = "running"]
  <2>1. BeginIteration(r)
    BY <1>4 DEF Start
  <2>2. UnderWay(r)
    BY <1>2, WordsAreWords DEF UnderWay, RunRecord
  <2>3. Moved
    BY <1>4, <2>1, <2>2, BeginMoves DEF IInv
  <2>4. disk' = run' /\ ~stopTaken' /\ UNCHANGED definition
    BY <1>1, <2>3 DEF Moved, Start
  <2>5. QED
    BY <1>1, <2>3, <2>4 DEF Moved, IInv, RunInv, StoreInv, EarnedInv, StopInv, Course, Earned, CopyKept,
                      Terminal, Running
<1>5. QED
  BY <1>3, <1>4

\* A stop during the yield ends the run; otherwise another iteration begins.
LEMMA YieldEndsIInv == ASSUME IInv, YieldEnds PROVE IInv' /\ CopyKept
<1>1. task # Idle /\ UNCHANGED <<definition, stopTaken>>
  BY SlotsAreNotIdle DEF YieldEnds
<1>2. CASE StopAsked(run)
  BY <1>1, <1>2, TaskResumes, EndedIInv DEF YieldEnds
<1>3. CASE ~StopAsked(run)
  <2>1. BeginIteration(run)
    BY <1>3 DEF YieldEnds
  <2>2. Moved
    BY <1>1, <1>3, <2>1, TaskResumes, BeginMoves DEF Course, IInv
  <2>3. QED
    BY <1>1, <1>3, <2>2, TaskResumes, MovedIInv
<1>4. QED
  BY <1>2, <1>3

\* A report moves the run on, or ends it.
LEMMA RoleReturnsIInv == ASSUME IInv, RoleReturns PROVE IInv' /\ CopyKept
<1>1. task # Idle /\ task \in Slots /\ UNCHANGED <<definition, stopTaken>>
  BY SlotsAreNotIdle DEF RoleReturns
<1>2. \A status \in Words : Set(run, task, status) \in RunRecord
  BY <1>1, TaskResumes, SetChild
<1>3. CASE StopAsked(run)
  <2>1. PICK status \in {"stopped", "failed"} :
          Settle(Set(run, task, status), "stopped", "userStopped")
    BY <1>3 DEF RoleReturns
  <2>2. QED
    BY <1>1, <1>2, <2>1, EndedIInv, WordsAreWords
<1>4. CASE ~StopAsked(run)
  <2>1. CASE Proceed(Set(run, task, "completed"))
    BY <1>1, <1>4, <2>1, TaskResumes, ProceedMoves, MovedIInv DEF IInv
  <2>2. CASE \E status \in {"failed", "completed"}, reason \in {"agentFailed", "toolFailed"} :
               Settle(Set(run, task, status), "failed", reason)
    BY <1>1, <1>2, <1>4, <2>2, TaskResumes, EndedIInv, WordsAreWords
  <2>3. QED
    BY <1>4, <2>1, <2>2 DEF RoleReturns
<1>5. QED
  BY <1>3, <1>4

\* An error ends the run.
LEMMA RoleThrowsIInv == ASSUME IInv, RoleThrows PROVE IInv' /\ CopyKept
<1>1. task # Idle /\ UNCHANGED <<definition, stopTaken>>
  BY SlotsAreNotIdle DEF RoleThrows
<1>2. PICK status \in {"stopped", "failed"} :
        IF StopAsked(run) THEN Settle(Set(run, task, status), "stopped", "userStopped")
                          ELSE Settle(Set(run, task, status), "failed", "agentFailed")
  BY DEF RoleThrows
<1>3. Set(run, task, status) \in RunRecord
  BY <1>1, TaskResumes, SetChild, WordsAreWords
<1>4. QED
  BY <1>1, <1>2, <1>3, TaskResumes, EndedIInv

\* The evaluator is called with the validation's result, or the run ends.
LEMMA ValidationReturnsIInv == ASSUME IInv, ValidationReturns PROVE IInv' /\ CopyKept
<1>1. task = At("validation") /\ task # Idle /\ UNCHANGED <<definition, stopTaken>>
  BY SlotsAreNotIdle DEF ValidationReturns
<1>2. CASE StopAsked(run)
  BY <1>1, <1>2, TaskResumes, EndedIInv DEF ValidationReturns
<1>3. CASE ~StopAsked(run)
  <2>1. CASE Settle(run, "failed", "toolFailed")
    BY <1>1, <1>3, <2>1, TaskResumes, EndedIInv
  <2>2. ASSUME NEW v \in {"passed", "failed", "timeout", "spawnError"},
               Call([run EXCEPT !.validation = v], At("evaluator"))
        PROVE  IInv' /\ CopyKept
    <3> DEFINE r == [run EXCEPT !.validation = v]
    <3>1. UnderWay(r) /\ r.child = run.child /\ r.checker = run.checker /\ r.validation = v
      BY <1>1, <1>3, TaskResumes, WordsAreWords DEF UnderWay, RunRecord
    <3>2. Course(r, At("evaluator")) /\ At("evaluator") # Idle
      BY <1>1, <3>1, TaskResumes, SlotsAreNotIdle DEF Course, At, Idle
    <3>3. Moved
      BY <2>2, <3>1, <3>2, CallMoves
    <3>4. QED
      BY <1>1, <1>3, <3>3, TaskResumes, MovedIInv
  <2>3. QED
    BY <1>3, <2>1, <2>2 DEF ValidationReturns
<1>4. QED
  BY <1>2, <1>3

\* A branch changes only branches.
LEMMA BranchReturnsIInv ==
  ASSUME IInv, NEW s \in BranchSlots, NEW ok \in BOOLEAN, BranchReturns(s, ok) PROVE IInv' /\ CopyKept
<1>1. task = At("branches") /\ task # Idle /\ UNCHANGED <<definition, stopTaken, task>>
  BY SlotsAreNotIdle DEF BranchReturns, IInv, RunInv
<1> DEFINE status == IF aborted THEN "stopped" ELSE IF ok /\ ~full THEN "completed" ELSE "failed"
           taken == IF aborted THEN {}
                    ELSE IF full THEN {q \in BranchSlots : run.child[q] = "queued"}
                    ELSE NextQueued(run)
<1>2. /\ run' = [Set(run, s, status) EXCEPT !.child = [q \in Slots |->
                   IF q \in taken THEN "running" ELSE Set(run, s, status).child[q]]]
      /\ live' = (live \ {s}) \cup (IF full THEN {} ELSE taken)
  BY DEF BranchReturns
<1>10. status \in Words /\ taken \subseteq BranchSlots
  BY WordsAreWords DEF NextQueued
<1> HIDE DEF status, taken
<1>3. disk' \in {disk, run'}
  BY DEF BranchReturns, Save
<1> DEFINE ended == Set(run, s, status)
<1>4. /\ ended \in RunRecord /\ ended.status = run.status /\ ended.reason = run.reason
      /\ ended.checker = run.checker /\ ended.validation = run.validation
      /\ \A q \in Slots \ BranchSlots : ended.child[q] = run.child[q]
  <2>1. run \in RunRecord
    BY <1>1, TaskResumes
  <2>2. ended.reason = run.reason
    BY <2>1 DEF Set, RunRecord
  <2>3. QED
    BY <1>10, <2>1, <2>2, SetChild
<1>5. /\ run' \in RunRecord /\ run'.status = run.status /\ run'.reason = run.reason
      /\ run'.checker = run.checker /\ run'.validation = run.validation
      /\ \A q \in Slots \ BranchSlots : run'.child[q] = run.child[q]
  <2> DEFINE kids == [q \in Slots |-> IF q \in taken THEN "running" ELSE ended.child[q]]
  <2>1. kids \in [Slots -> Words] /\ \A q \in Slots \ BranchSlots : kids[q] = run.child[q]
    BY <1>4, <1>10, WordsAreWords DEF RunRecord
  <2>2. run' = [ended EXCEPT !.child = kids]
    BY <1>2
  <2> HIDE DEF kids, ended
  <2>3. QED
    BY <1>4, <2>1, <2>2 DEF RunRecord
<1>6. run.status \in Running /\ Course(run, task)
  BY <1>1, TaskResumes
<1>7. RunInv'
  <2>1. Course(run', task)
    BY <1>5, <1>6 DEF Course
  <2>2. Course(run, task)' = Course(run', task)
    BY <1>1 DEF Course
  <2>3. QED
    BY <1>1, <1>2, <1>3, <1>5, <1>6, <1>10, <2>1, <2>2 DEF IInv, RunInv
<1>8. StoreInv' /\ EarnedInv' /\ StopInv' /\ CopyKept
  BY <1>1, <1>3, <1>5, <1>6 DEF IInv, RunInv, StoreInv, EarnedInv, StopInv, Earned, UserStopped,
                                CopyKept, Running, Terminal
<1>9. QED
  BY <1>7, <1>8 DEF IInv

\* The workers are done: the iteration goes on, or the run ends.
LEMMA BranchesJoinIInv == ASSUME IInv, BranchesJoin PROVE IInv' /\ CopyKept
<1>1. task = At("branches") /\ task # Idle /\ UNCHANGED <<definition, stopTaken>>
  BY SlotsAreNotIdle DEF BranchesJoin
<1>2. CASE StopAsked(run)
  <2> DEFINE kids == [q \in Slots |-> IF run.child[q] = "queued" THEN "stopped" ELSE run.child[q]]
             r == [run EXCEPT !.child = kids]
  <2>1. Settle(r, "stopped", "userStopped")
    BY <1>2 DEF BranchesJoin
  <2>2. kids \in [Slots -> Words]
    BY <1>1, TaskResumes, WordsAreWords DEF RunRecord
  <2>3. r \in RunRecord
    BY <1>1, <2>2, TaskResumes DEF RunRecord
  <2>4. QED
    BY <1>1, <2>1, <2>3, EndedIInv
<1>3. CASE ~StopAsked(run)
  <2>1. CASE Validate(run)
    <3>1. Between(run)
      BY <1>1, <1>3, TaskResumes, SlotsAreNotIdle DEF Between, Course, At
    <3>2. QED
      BY <1>1, <1>3, <2>1, <3>1, TaskResumes, ValidateMoves, MovedIInv
  <2>2. CASE \E reason \in {"agentFailed", "toolFailed"} : Settle(run, "failed", reason)
    BY <1>1, <1>3, <2>2, TaskResumes, EndedIInv
  <2>3. QED
    BY <1>3, <2>1, <2>2 DEF BranchesJoin
<1>4. QED
  BY <1>2, <1>3

\* A stop marks the run.
LEMMA StopIInv == ASSUME IInv, Stop PROVE IInv' /\ CopyKept
<1>1. CASE run.status = "running"
  <2>1. run' = [run EXCEPT !.status = "stopping"] /\ disk' \in {disk, run'}
        /\ UNCHANGED <<definition, task, live>>
    BY <1>1 DEF Stop, Save
  <2>2. /\ run' \in RunRecord /\ run'.status = "stopping"
        /\ run'.child = run.child /\ run'.checker = run.checker /\ run'.validation = run.validation
    BY <2>1, WordsAreWords DEF IInv, RunInv, RunRecord
  <2>3. RunInv'
    BY <2>1, <2>2 DEF IInv, RunInv, Course, Running
  <2>4. QED
    BY <1>1, <2>1, <2>2, <2>3 DEF IInv, StoreInv, EarnedInv, StopInv, Earned, UserStopped, CopyKept,
                                  Running, Terminal
<1>2. CASE run.status # "running"
  <2>1. UNCHANGED <<definition, run, task, live, disk, stopTaken>>
    BY <1>2 DEF Stop
  <2>2. QED
    BY <2>1 DEF IInv, RunInv, StoreInv, EarnedInv, StopInv, Course, Earned, UserStopped, CopyKept
<1>3. QED
  BY <1>1, <1>2

\* A decision touches a run that waits for one, which no user stopped.
LEMMA ResolveIInv ==
  ASSUME IInv, NEW reason \in {"humanApproved", "humanRejected"}, Resolve(reason) PROVE IInv' /\ CopyKept
<1>1. run.status = "stopped" /\ run.reason = "humanInputRequired"
      /\ disk' \in {disk, run'} /\ UNCHANGED <<definition, task, live, stopTaken>>
  BY DEF Resolve, Save
<1>2. run' \in RunRecord /\ run'.status = "stopped"
  <2>1. run \in RunRecord /\ reason \in Words
    BY WordsAreWords DEF IInv, RunInv
  <2> DEFINE index == run.index + 1
  <2>2. run' = [run EXCEPT !.reason = reason, !.index = index]
    BY DEF Resolve
  <2>3. index \in Int
    BY <2>1 DEF RunRecord
  <2> HIDE DEF index
  <2>4. QED
    BY <1>1, <2>1, <2>2, <2>3 DEF RunRecord
<1>3. task = Idle
  BY <1>1 DEF IInv, RunInv, Running
<1>4. QED
  BY <1>1, <1>2, <1>3 DEF IInv, RunInv, StoreInv, EarnedInv, StopInv, Earned, UserStopped, CopyKept,
                          Terminal, Running

\* The copy catches up.
LEMMA OtherRunSavesIInv == ASSUME IInv, OtherRunSaves PROVE IInv' /\ CopyKept
BY DEF OtherRunSaves, IInv, RunInv, StoreInv, EarnedInv, StopInv, Course, Earned, UserStopped,
       CopyKept, Running, Terminal

\* A restart interrupts a run that the store shows under way, and no other.
LEMMA RestartIInv == ASSUME IInv, Restart PROVE IInv' /\ CopyKept
<1>1. run' = Recovered(disk) /\ disk' = run' /\ task' = Idle /\ live' = {}
      /\ UNCHANGED <<definition, stopTaken>>
  BY DEF Restart
<1>2. CASE disk.status \in {"running", "stopping"}
  <2> DEFINE early == {IF s \in {"queued", "running"} THEN "stopped" ELSE s : s \in disk.earlier}
             kids == [q \in Slots |-> IF disk.child[q] \in {"queued", "running"}
                                      THEN "stopped" ELSE disk.child[q]]
  <2>1. early \in SUBSET Words /\ kids \in [Slots -> Words]
    BY WordsAreWords DEF IInv, RunInv, RunRecord
  <2>2. run' = [disk EXCEPT !.status = "interrupted", !.reason = "appInterrupted",
                            !.earlier = early, !.child = kids]
    BY <1>1, <1>2 DEF Recovered
  <2> HIDE DEF early, kids
  <2>3. run' \in RunRecord /\ run'.status = "interrupted"
    <3>1. disk \in RunRecord /\ "interrupted" \in Words /\ "appInterrupted" \in Words
      BY WordsAreWords DEF IInv, RunInv, Terminal
    <3>2. QED
      BY <2>1, <2>2, <3>1 DEF RunRecord
  <2>4. QED
    BY <1>1, <1>2, <2>3 DEF IInv, RunInv, StoreInv, EarnedInv, StopInv, Earned, UserStopped,
                           CopyKept, Terminal, Running
<1>3. CASE disk.status \notin {"running", "stopping"}
  <2>1. run' = disk
    BY <1>1, <1>3 DEF Recovered
  <2>2. QED
    BY <1>1, <1>3, <2>1 DEF IInv, RunInv, StoreInv, EarnedInv, StopInv, Earned, UserStopped, CopyKept,
                            Terminal, Running
<1>4. QED
  BY <1>2, <1>3

\* A disk that fills or clears touches no run.
LEMMA UntouchedIInv ==
  ASSUME IInv, UNCHANGED <<definition, run, task, live, disk, stopTaken>> PROVE IInv' /\ CopyKept
BY DEF IInv, RunInv, StoreInv, EarnedInv, StopInv, Course, Earned, UserStopped, CopyKept

\* The invariant holds initially ...
LEMMA InitIInv == ASSUME Init PROVE IInv
<1>1. NoRun \in RunRecord
  BY WordsAreWords DEF NoRun, RunRecord, Unused
<1>2. QED
  BY <1>1 DEF Init, IInv, RunInv, StoreInv, EarnedInv, StopInv, Earned, Terminal, NoRun

\* ... and is kept by every step.
LEMMA NextIInv == ASSUME IInv, [Next]_vars PROVE IInv' /\ CopyKept
<1>1. CASE Start \/ YieldEnds
  BY <1>1, StartIInv, YieldEndsIInv
<1>2. CASE RoleReturns \/ RoleThrows \/ ValidationReturns
  BY <1>2, RoleReturnsIInv, RoleThrowsIInv, ValidationReturnsIInv
<1>3. CASE \E s \in BranchSlots, ok \in BOOLEAN : BranchReturns(s, ok)
  BY <1>3, BranchReturnsIInv
<1>4. CASE BranchesJoin \/ Stop
  BY <1>4, BranchesJoinIInv, StopIInv
<1>5. CASE \E r \in {"humanApproved", "humanRejected"} : Resolve(r)
  BY <1>5, ResolveIInv
<1>6. CASE OtherRunSaves \/ Restart
  BY <1>6, OtherRunSavesIInv, RestartIInv
<1>7. CASE DiskFills \/ DiskClears
  BY <1>7, UntouchedIInv DEF DiskFills, DiskClears
<1>8. CASE UNCHANGED vars
  BY <1>8, UntouchedIInv DEF vars
<1>9. QED
  BY <1>1, <1>2, <1>3, <1>4, <1>5, <1>6, <1>7, <1>8 DEF Next

\* The inductive invariant.
THEOREM RunInvariant == Spec => []IInv
<1>1. Init => IInv
  BY InitIInv
<1>2. IInv /\ [Next]_vars => IInv'
  BY NextIInv
<1>3. QED
  BY <1>1, <1>2, PTL DEF Spec

\* "completed" is earned: the evaluator of the run's last iteration said SUCCESS, its
\* validation passed and all its agents delivered (loopEngine.ts, execute).
THEOREM CompletionIsEarned == Spec => []CompletedIsEarned
<1>1. IInv => CompletedIsEarned
  BY DEF IInv, EarnedInv, Earned, CompletedIsEarned
<1>2. QED
  BY <1>1, RunInvariant, PTL

\* A stop that was taken decides the outcome, whether it could be written or not
\* (loopEngine.ts, stop and stopped).
THEOREM StopDecides == Spec => []StopWins
<1>1. IInv => StopWins
  BY DEF IInv, StopInv, UserStopped, StopWins
<1>2. QED
  BY <1>1, RunInvariant, PTL

-----------------------------------------------------------------------------
(* The copy in the store keeps the promise of module Promises.             *)

\* A step of the run opens the promise, settles it, or leaves it as it is.
LEMMA StepIsAPromiseStep ==
  ASSUME IInv, CopyKept, RunInv'
  PROVE  [Durable!Next]_(Durable!jobVars)
<1> DEFINE Open == IF disk.status \in {"running", "stopping"} THEN {"run"} ELSE {}
           Outcome == [j \in {"run"} |-> IF disk.status \in Terminal THEN disk.status ELSE "none"]
<1>1. run'.status \in Terminal \cup Running \cup {"none"} /\ "none" \notin Terminal
      /\ Terminal \cap Running = {}
  BY DEF RunInv, Terminal, Running
<1>2. CASE disk'.status = disk.status
  BY <1>2 DEF Durable!jobVars
<1>3. CASE disk'.status # disk.status /\ disk.status = "none" /\ disk'.status \in Running
  <2>1. Open = {} /\ Open' = {"run"} /\ Outcome' = Outcome /\ Outcome["run"] = "none"
    BY <1>1, <1>3 DEF Running
  <2>2. Durable!Open("run")
    BY <2>1 DEF Durable!Open, Durable!Fresh
  <2>3. QED
    BY <2>2 DEF Durable!Next
<1>4. CASE disk'.status # disk.status /\ disk.status = "none" /\ disk'.status \in Terminal
  <2>1. Open = {} /\ Open' = {} /\ Outcome["run"] = "none" /\ Outcome'["run"] # "none"
    BY <1>1, <1>4 DEF Running
  <2>2. Outcome' = [Outcome EXCEPT !["run"] = Outcome'["run"]]
    OBVIOUS
  <2>3. Durable!Refuse("run")
    BY <2>1, <2>2 DEF Durable!Refuse, Durable!Fresh
  <2>4. QED
    BY <2>3 DEF Durable!Next
<1>5. CASE disk'.status # disk.status /\ disk.status \in Running /\ disk'.status \in Running
  <2>1. Open' = Open /\ Outcome' = Outcome
    BY <1>1, <1>5 DEF Running
  <2>2. QED
    BY <2>1 DEF Durable!jobVars
<1>6. CASE disk'.status # disk.status /\ disk.status \in Running /\ disk'.status \in Terminal
  <2>1. Open = {"run"} /\ Open' = {} /\ Outcome'["run"] # "none"
    BY <1>1, <1>6 DEF Running
  <2>2. Outcome' = [j \in {"run"} |-> IF j \in {"run"} THEN Outcome'[j] ELSE Outcome[j]]
    OBVIOUS
  <2>3. Durable!Settle({"run"})
    BY <2>1, <2>2 DEF Durable!Settle
  <2>4. {"run"} \in SUBSET {"run"}
    OBVIOUS
  <2>5. QED
    BY <2>3, <2>4 DEF Durable!Next
<1>7. \/ disk'.status = disk.status
      \/ disk.status = "none" /\ disk'.status \in Running \cup Terminal
      \/ disk.status \in Running /\ disk'.status \in Running \cup Terminal
  BY <1>1 DEF CopyKept, IInv, StoreInv
<1>8. QED
  BY <1>2, <1>3, <1>4, <1>5, <1>6, <1>7

\* The record of a run in loop-runs.json is opened once and settled once, whatever
\* stops, full disks and restarts do (loopEngine.ts, persist and loadAndRecover).
THEOREM RecordsArePromises == Spec => RecordIsAPromise
<1>1. Init => Durable!Init
  BY DEF Init, Durable!Init, NoRun, Terminal
<1>2. IInv /\ [Next]_vars => [Durable!Next]_(Durable!jobVars)
  BY NextIInv, StepIsAPromiseStep DEF IInv
<1>3. QED
  BY <1>1, <1>2, RunInvariant, PTL DEF Spec, RecordIsAPromise, Durable!Spec
-----------------------------------------------------------------------------
(* Nobody is left queued or at work under a terminal status.               *)

AtWork == {"queued", "running"}

\* Unless a write failed, nobody is queued or at work in r but the role at t.
QuietBut(r, t) ==
  ~writeFailed =>
    /\ r.earlier \cap AtWork = {}
    /\ \A s \in Slots : s # t => r.child[s] \notin AtWork
Quiet(r) == QuietBut(r, Idle)

\* A branch at work is in flight, and only workers leave branches queued.
BranchesAgree ==
  /\ run.earlier \cap AtWork = {}
  /\ \A s \in BranchSlots : /\ run.child[s] = "running" => s \in live
                            /\ run.child[s] = "queued" => task = At("branches")

\* As long as the run's writes succeed, a terminal record is the run's, and shows nobody
\* at work; before that, whoever is shown at work is.
ChildrenInv ==
  ~writeFailed =>
    /\ run.status \in Terminal => Quiet(run)
    /\ disk.status \in Terminal => disk = run
    /\ task # Idle => BranchesAgree

LEMMA SettleSettles ==
  ASSUME NEW r \in RunRecord, Quiet(r), NEW status \in Words, NEW reason \in Words,
         Settle(r, status, reason)
  PROVE  ChildrenInv'
<1>1. run' \in RunRecord /\ run'.child = r.child /\ run'.earlier = r.earlier
  BY DEF Settle, RunRecord
<1>2. ~writeFailed' => ~writeFailed /\ disk' = run' /\ task' = Idle
  BY DEF Settle, Save
<1>3. ~writeFailed' => Quiet(run)'
  BY <1>1, <1>2 DEF Quiet, QuietBut
<1> QED BY <1>2, <1>3 DEF ChildrenInv

LEMMA SuspendSettles ==
  ASSUME NEW r, UnderWay(r), NEW t, t \notin BranchSlots, QuietBut(r, t), Suspend(r, t)
  PROVE  ChildrenInv'
<1>1. run' = r /\ run'.status \notin Terminal /\ task' = t /\ live' = {}
  BY DEF Suspend, UnderWay, Terminal
<1>2. ~writeFailed => BranchesAgree'
  BY <1>1 DEF BranchesAgree, QuietBut, AtWork, Slots, BranchSlots
<1>3. ~full => disk' = run'
  BY DEF Suspend, Save
<1>4. writeFailed' = (writeFailed \/ full)
  BY DEF Suspend, Save
<1> QED BY <1>1, <1>2, <1>3, <1>4 DEF ChildrenInv

LEMMA CallSettles ==
  ASSUME NEW r, UnderWay(r), NEW slot, slot \notin BranchSlots, Quiet(r), Call(r, slot)
  PROVE  ChildrenInv'
<1> DEFINE started == Set(r, slot, "running")
<1>1. CASE full
  BY <1>1 DEF Call, Settle, Save, ChildrenInv
<1>2. CASE ~full
  <2>1. UnderWay(started) /\ \A s \in Slots : s # slot => started.child[s] = r.child[s]
    BY SetChild, WordsAreWords DEF UnderWay
  <2>2. started.earlier = r.earlier
    BY DEF UnderWay, Set, RunRecord
  <2>3. QuietBut(started, slot)
    BY <2>1, <2>2, SlotsAreNotIdle DEF Quiet, QuietBut
  <2>4. Suspend(started, slot)
    BY <1>2 DEF Call
  <2> QED BY <2>1, <2>3, <2>4, SuspendSettles
<1> QED BY <1>1, <1>2

LEMMA RolesAreNoBranches ==
  /\ \A p : At(p) \notin BranchSlots
  /\ \A n : <<"stage", n>> \notin BranchSlots
BY DEF At, BranchSlots

LEMMA BeginSettles ==
  ASSUME NEW r, UnderWay(r), RunInv, definition.structure # "humanApproval", Quiet(r),
         BeginIteration(r)
  PROVE  ChildrenInv'
<1> DEFINE fresh == FreshIteration(r)
<1>1. /\ UnderWay(fresh) /\ fresh.child = Unused
      /\ fresh.earlier = r.earlier \cup StatusesOf(r)
  BY FreshRecord
<1>2. ~writeFailed => StatusesOf(r) \cap AtWork = {}
  BY SlotsAreNotIdle DEF StatusesOf, Quiet, QuietBut
<1>3. Quiet(fresh)
  BY <1>1, <1>2 DEF Quiet, QuietBut, Unused, AtWork
<1>4. CASE full
  BY <1>4 DEF BeginIteration, Settle, Save, ChildrenInv
<1>5. CASE ~full /\ \E slot : slot \notin BranchSlots /\ Call(fresh, slot)
  BY <1>1, <1>3, <1>5, CallSettles
<1>6. CASE ~full /\ CallBranches(fresh)
  <2> DEFINE first == {s \in BranchSlots : s[2] <= 2}
             kids == [s \in Slots |-> IF s \in first THEN "running"
                                      ELSE IF s \in BranchSlots THEN "queued" ELSE "none"]
  <2>1. run' = [fresh EXCEPT !.child = kids] /\ task' = At("branches") /\ live' = first
        /\ Save(run')
    BY <1>6 DEF CallBranches
  <2>2. run'.status \notin Terminal /\ run'.child = kids /\ run'.earlier = fresh.earlier
    BY <1>1, <2>1 DEF UnderWay, RunRecord, Terminal
  <2>3. BranchSlots \subseteq Slots
    BY DEF BranchSlots, Slots
  <2>4. ~writeFailed => BranchesAgree'
    BY <1>3, <2>1, <2>2, <2>3 DEF BranchesAgree, Quiet, QuietBut
  <2> QED BY <1>6, <2>1, <2>2, <2>4 DEF ChildrenInv, Save
<1>7. full \/ CallBranches(fresh) \/ \E slot : slot \notin BranchSlots /\ Call(fresh, slot)
  BY RolesAreNoBranches DEF BeginIteration, RunInv, Definition, Structures
<1> QED BY <1>4, <1>5, <1>6, <1>7

LEMMA ValidateSettles ==
  ASSUME NEW r, UnderWay(r), Quiet(r), Validate(r)
  PROVE  ChildrenInv'
<1>1. CASE definition.validates
  <2>1. QuietBut(r, At("validation"))
    BY SlotsAreNotIdle DEF Quiet, QuietBut
  <2> QED BY <1>1, <2>1, SuspendSettles, RolesAreNoBranches DEF Validate
<1>2. CASE ~definition.validates
  <2> DEFINE bare == [r EXCEPT !.validation = "unconfigured"]
  <2>1. UnderWay(bare) /\ bare.child = r.child /\ bare.earlier = r.earlier
    BY WordsAreWords DEF UnderWay, RunRecord
  <2>2. Quiet(bare)
    BY <2>1 DEF Quiet, QuietBut
  <2> QED BY <1>2, <2>1, <2>2, CallSettles, RolesAreNoBranches DEF Validate
<1> QED BY <1>1, <1>2

LEMMA ConcludeSettles ==
  ASSUME NEW r, UnderWay(r), RunInv, definition.structure # "humanApproval", Quiet(r),
         Conclude(r)
  PROVE  ChildrenInv'
<1>1. \/ \E status \in Words, reason \in Words : Settle(r, status, reason)
      \/ Suspend(r, At("yield"))
      \/ BeginIteration(r)
  BY WordsAreWords DEF Conclude, Terminal
<1>2. ASSUME Suspend(r, At("yield")) PROVE ChildrenInv'
  <2>1. QuietBut(r, At("yield"))
    BY SlotsAreNotIdle DEF Quiet, QuietBut
  <2> QED BY <1>2, <2>1, SuspendSettles, RolesAreNoBranches
<1> QED BY <1>1, <1>2, SettleSettles, BeginSettles DEF UnderWay

LEMMA ProceedSettles ==
  ASSUME RunInv, task \in Slots, UnderWay(run), Course(run, task), QuietBut(run, task),
         Proceed(Set(run, task, "completed"))
  PROVE  ChildrenInv'
<1> DEFINE r == Set(run, task, "completed")
<1>1. UnderWay(r) /\ definition.structure # "humanApproval" /\ Quiet(r)
  <2>1. /\ UnderWay(r) /\ r.child[task] = "completed"
        /\ \A s \in Slots : s # task => r.child[s] = run.child[s]
    BY SetChild, WordsAreWords DEF UnderWay
  <2>2. r.earlier = run.earlier
    BY DEF UnderWay, Set, RunRecord
  <2> QED BY <2>1, <2>2 DEF Quiet, QuietBut, Course, AtWork
<1>2. ASSUME NEW judged, UnderWay(judged), judged.child = r.child, judged.earlier = r.earlier
      PROVE  Quiet(judged)
  BY <1>1, <1>2 DEF Quiet, QuietBut
<1>3. CASE task[1] \in {"maker", "triage", "stage"}
  <2>1. Validate(r) \/ \E slot : slot \notin BranchSlots /\ Call(r, slot)
    BY <1>3, RolesAreNoBranches DEF Proceed
  <2> QED BY <1>1, <2>1, ValidateSettles, CallSettles
<1>4. CASE task[1] = "checker"
  <2>1. CASE Settle(r, "failed", "agentFailed")
    BY <1>1, <2>1, SettleSettles, WordsAreWords DEF UnderWay
  <2>2. ASSUME NEW d \in {"APPROVE", "CONTINUE", "ASK_HUMAN"},
               Validate([r EXCEPT !.checker = d])
        PROVE  ChildrenInv'
    <3> DEFINE judged == [r EXCEPT !.checker = d]
    <3>1. UnderWay(judged) /\ judged.child = r.child /\ judged.earlier = r.earlier
      BY <1>1, WordsAreWords DEF UnderWay, RunRecord
    <3> QED BY <1>2, <2>2, <3>1, ValidateSettles
  <2> QED BY <1>4, <2>1, <2>2 DEF Proceed
<1>5. CASE task[1] = "evaluator"
  <2>1. PICK d \in {"SUCCESS", "CONTINUE", "FAIL"} : Conclude([r EXCEPT !.goal = d])
    BY <1>5 DEF Proceed
  <2> DEFINE judged == [r EXCEPT !.goal = d]
  <2>2. UnderWay(judged) /\ judged.child = r.child /\ judged.earlier = r.earlier
    BY <1>1, WordsAreWords DEF UnderWay, RunRecord
  <2> QED BY <1>1, <1>2, <2>1, <2>2, ConcludeSettles
<1> QED BY <1>3, <1>4, <1>5, SlotPhases DEF Course

\* Where a task waits for a role or a command, nobody else is at work.
LEMMA QuietWhereItWaits ==
  ASSUME IInv, ChildrenInv, task # Idle, task # At("branches")
  PROVE  QuietBut(run, task)
<1>1. live = {} /\ Course(run, task)
  BY DEF IInv, RunInv
<1> QED BY <1>1 DEF ChildrenInv, BranchesAgree, QuietBut, Course, RunInv, AtWork, IInv

\* A role or a command that resumes is no longer at work.
LEMMA EndedIsQuiet ==
  ASSUME IInv, QuietBut(run, task), task \in Slots, task # Idle,
         NEW status \in {"completed", "failed", "stopped"}
  PROVE  Quiet(Set(run, task, status)) /\ Set(run, task, status) \in RunRecord
<1> DEFINE r == Set(run, task, status)
<1>1. /\ r \in RunRecord /\ r.child[task] = status
      /\ \A s \in Slots : s # task => r.child[s] = run.child[s]
  BY TaskResumes, SetChild, WordsAreWords
<1>2. r.earlier = run.earlier
  BY TaskResumes DEF Set, RunRecord
<1> QED BY <1>1, <1>2 DEF Quiet, QuietBut, AtWork

LEMMA StartSettles == ASSUME IInv, Start PROVE ChildrenInv'
<1>1. NoRun \in RunRecord
  BY WordsAreWords DEF NoRun, RunRecord, Unused
<1>2. CASE definition.structure = "humanApproval"
  <2> DEFINE r == [NoRun EXCEPT !.index = 1]
  <2>1. r \in RunRecord /\ r.child = Unused /\ r.earlier = {}
    BY <1>1 DEF RunRecord, NoRun
  <2>2. Quiet(r)
    BY <2>1 DEF Quiet, QuietBut, Unused, AtWork
  <2>3. Settle(r, "stopped", "humanInputRequired")
    BY <1>2 DEF Start
  <2> QED BY <2>1, <2>2, <2>3, SettleSettles, WordsAreWords
<1>3. CASE definition.structure # "humanApproval"
  <2> DEFINE r == [NoRun EXCEPT !.status = "running"]
  <2>1. UnderWay(r) /\ r.child = Unused /\ r.earlier = {}
    BY <1>1, WordsAreWords DEF UnderWay, RunRecord, NoRun
  <2>2. Quiet(r)
    BY <2>1 DEF Quiet, QuietBut, Unused, AtWork
  <2>3. BeginIteration(r)
    BY <1>3 DEF Start
  <2> QED BY <1>3, <2>1, <2>2, <2>3, BeginSettles DEF IInv
<1> QED BY <1>2, <1>3

LEMMA YieldEndsSettles == ASSUME IInv, ChildrenInv, YieldEnds PROVE ChildrenInv'
<1>1. task = At("yield") /\ task # Idle /\ task # At("branches") /\ task \notin Slots
  BY SlotsAreNotIdle DEF YieldEnds, At
<1>2. Quiet(run)
  BY <1>1, QuietWhereItWaits DEF Quiet, QuietBut
<1>3. CASE StopAsked(run)
  BY <1>1, <1>2, <1>3, TaskResumes, SettleSettles, WordsAreWords DEF YieldEnds
<1>4. CASE ~StopAsked(run)
  BY <1>1, <1>2, <1>4, TaskResumes, BeginSettles DEF YieldEnds, Course, IInv
<1> QED BY <1>3, <1>4

LEMMA RoleSettles == ASSUME IInv, ChildrenInv, RoleReturns \/ RoleThrows PROVE ChildrenInv'
<1>1. task \in Slots /\ task # Idle /\ task # At("branches")
  BY SlotsAreNotIdle DEF RoleReturns, RoleThrows
<1>2. QuietBut(run, task)
  BY <1>1, QuietWhereItWaits
<1>3. \/ \E status \in {"completed", "failed", "stopped"}, verdict \in Words, reason \in Words :
           Settle(Set(run, task, status), verdict, reason)
      \/ ~StopAsked(run) /\ Proceed(Set(run, task, "completed"))
  BY WordsAreWords DEF RoleReturns, RoleThrows
<1>4. CASE ~StopAsked(run) /\ Proceed(Set(run, task, "completed"))
  BY <1>1, <1>2, <1>4, TaskResumes, ProceedSettles DEF IInv
<1> QED BY <1>1, <1>2, <1>3, <1>4, EndedIsQuiet, SettleSettles

LEMMA ValidationSettles == ASSUME IInv, ChildrenInv, ValidationReturns PROVE ChildrenInv'
<1>1. task = At("validation") /\ task # Idle /\ task # At("branches") /\ task \notin Slots
  BY SlotsAreNotIdle DEF ValidationReturns, At
<1>2. Quiet(run)
  BY <1>1, QuietWhereItWaits DEF Quiet, QuietBut
<1>3. CASE \E verdict \in Words, reason \in Words : Settle(run, verdict, reason)
  BY <1>1, <1>2, <1>3, TaskResumes, SettleSettles
<1>4. ASSUME ~StopAsked(run), NEW v \in {"passed", "failed", "timeout", "spawnError"},
             Call([run EXCEPT !.validation = v], At("evaluator"))
      PROVE  ChildrenInv'
  <2> DEFINE r == [run EXCEPT !.validation = v]
  <2>1. UnderWay(r) /\ r.child = run.child /\ r.earlier = run.earlier
    BY <1>1, <1>4, TaskResumes, WordsAreWords DEF UnderWay, RunRecord
  <2>2. Quiet(r)
    BY <1>2, <2>1 DEF Quiet, QuietBut
  <2> QED BY <1>4, <2>1, <2>2, CallSettles, RolesAreNoBranches
<1> QED BY <1>3, <1>4, WordsAreWords DEF ValidationReturns

\* Some branch is the first of those that are queued.
LEMMA FirstQueued ==
  ASSUME NEW r, NextQueued(r) = {}, NEW s \in BranchSlots
  PROVE  r.child[s] # "queued"
<1> DEFINE queued == {q \in BranchSlots : r.child[q] = "queued"}
           places == {n \in 1 .. Branches : <<"branch", n>> \in queued}
<1>1. \A q \in BranchSlots : q[2] \in Nat /\ q[2] \in 1 .. Branches /\ q = <<"branch", q[2]>>
  BY DEF BranchSlots
<1>2. SUFFICES ASSUME places # {} PROVE FALSE
  BY <1>1
<1>3. places \subseteq Nat
  OBVIOUS
<1>4. PICK n \in places : \A m \in places : <<m, n>> \notin OpToRel(<, Nat)
  BY <1>2, <1>3, NatLessThanWellFounded, WFMin
<1>5. \A m \in places : n <= m
  <2> TAKE m \in places
  <2>1. m \in Nat /\ n \in Nat
    BY <1>3
  <2>2. <<m, n>> \notin OpToRel(<, Nat)
    BY <1>4
  <2>3. ~(m < n)
    <3> HIDE DEF places
    <3> QED BY <2>1, <2>2 DEF OpToRel
  <2> QED BY <2>1, <2>3
<1>6. <<"branch", n>> \in NextQueued(r)
  BY <1>1, <1>5 DEF NextQueued
<1> QED BY <1>6

LEMMA BranchSettles ==
  ASSUME IInv, ChildrenInv, NEW s \in BranchSlots, NEW ok \in BOOLEAN, BranchReturns(s, ok)
  PROVE  ChildrenInv'
<1> DEFINE status == IF aborted THEN "stopped" ELSE IF ok /\ ~full THEN "completed" ELSE "failed"
           taken == IF aborted THEN {}
                    ELSE IF full THEN {q \in BranchSlots : run.child[q] = "queued"}
                    ELSE NextQueued(run)
           ended == Set(run, s, status)
           kids == [q \in Slots |-> IF q \in taken THEN "running" ELSE ended.child[q]]
<1>1. /\ run' = [ended EXCEPT !.child = kids]
      /\ live' = (live \ {s}) \cup (IF full THEN {} ELSE taken)
      /\ IF aborted THEN UNCHANGED <<disk, writeFailed>> ELSE Save(run')
      /\ UNCHANGED task
  BY DEF BranchReturns
<1>2. task = At("branches") /\ task # Idle /\ s \in Slots
  BY SlotsAreNotIdle DEF BranchReturns, IInv, RunInv, Slots, BranchSlots
<1>3. run \in RunRecord /\ run.status \in Running
  BY <1>2, TaskResumes
<1>4. /\ ended \in RunRecord /\ ended.status = run.status /\ ended.child[s] = status
      /\ \A q \in Slots : q # s => ended.child[q] = run.child[q]
  BY <1>2, <1>3, SetChild, WordsAreWords
<1>5. ended.earlier = run.earlier
  BY <1>3 DEF Set, RunRecord
<1> HIDE DEF ended
<1>6. run'.status = run.status /\ run'.earlier = run.earlier /\ run'.child = kids
  BY <1>1, <1>4, <1>5 DEF RunRecord
<1>7. ~writeFailed' => ~writeFailed /\ (aborted \/ (~full /\ disk' = run'))
  BY <1>1 DEF Save
<1>8. ~writeFailed' => BranchesAgree'
  <2> SUFFICES ASSUME ~writeFailed' PROVE BranchesAgree'
    OBVIOUS
  <2>1. BranchesAgree /\ (aborted \/ ~full)
    BY <1>2, <1>7 DEF ChildrenInv
  <2>2. ASSUME NEW q \in BranchSlots
        PROVE  /\ kids[q] = "running" => q \in live'
               /\ kids[q] = "queued" => task = At("branches")
    <3>1. q \in Slots
      BY DEF Slots, BranchSlots
    <3>2. CASE q \in taken
      BY <1>1, <2>1, <3>1, <3>2
    <3>3. CASE q \notin taken
      BY <1>1, <1>2, <1>4, <2>1, <3>1, <3>3 DEF BranchesAgree
    <3> QED BY <3>2, <3>3
  <2> QED BY <1>1, <1>6, <2>1, <2>2 DEF BranchesAgree
<1>9. run'.status \notin Terminal /\ disk.status \notin Terminal
  BY <1>3, <1>6 DEF IInv, StoreInv, Running, Terminal
<1>10. aborted => disk' = disk
  BY <1>1
<1> QED BY <1>7, <1>8, <1>9, <1>10 DEF ChildrenInv

LEMMA JoinSettles == ASSUME IInv, ChildrenInv, BranchesJoin PROVE ChildrenInv'
<1>1. task = At("branches") /\ task # Idle /\ task \notin Slots /\ live = {}
  BY SlotsAreNotIdle DEF BranchesJoin
<1>2. /\ run \in RunRecord /\ Course(run, task)
      /\ ~StopAsked(run) => UnderWay(run) /\ definition.structure # "humanApproval"
  BY <1>1, TaskResumes DEF Course
<1>3. ~writeFailed => /\ run.earlier \cap AtWork = {}
                      /\ \A s \in BranchSlots : run.child[s] # "running"
                      /\ \A s \in Slots \ BranchSlots : run.child[s] \notin AtWork
  BY <1>1, <1>2 DEF ChildrenInv, BranchesAgree, Course, AtWork
<1>4. CASE StopAsked(run)
  <2> DEFINE kids == [q \in Slots |-> IF run.child[q] = "queued" THEN "stopped" ELSE run.child[q]]
             r == [run EXCEPT !.child = kids]
  <2>1. Settle(r, "stopped", "userStopped")
    BY <1>4 DEF BranchesJoin
  <2>2. kids \in [Slots -> Words]
    BY <1>2, WordsAreWords DEF RunRecord
  <2>3. r \in RunRecord /\ r.child = kids /\ r.earlier = run.earlier
    BY <1>2, <2>2 DEF RunRecord
  <2>4. Quiet(r)
    BY <1>3, <2>3 DEF Quiet, QuietBut, AtWork
  <2> QED BY <2>1, <2>3, <2>4, SettleSettles, WordsAreWords
<1>5. CASE ~StopAsked(run)
  <2>1. \A s \in BranchSlots : run.child[s] # "queued"
    BY <1>5, FirstQueued DEF BranchesJoin, StopAsked
  <2>2. Quiet(run)
    BY <1>3, <2>1 DEF Quiet, QuietBut, AtWork
  <2>3. Validate(run) \/ \E reason \in Words : Settle(run, "failed", reason)
    BY <1>5, WordsAreWords DEF BranchesJoin
  <2> QED BY <1>2, <1>5, <2>2, <2>3, ValidateSettles, SettleSettles, WordsAreWords
<1> QED BY <1>4, <1>5

\* A stop or a decision changes nobody's status but the run's.
LEMMA WordSettles ==
  ASSUME IInv, ChildrenInv,
         Stop \/ \E reason \in {"humanApproved", "humanRejected"} : Resolve(reason)
  PROVE  ChildrenInv'
<1>1. CASE UNCHANGED <<run, disk, writeFailed>>
  BY <1>1 DEF ChildrenInv, BranchesAgree, Quiet, QuietBut, Stop, Resolve
<1>2. CASE Save(run') /\ run'.child = run.child /\ run'.earlier = run.earlier
           /\ (run'.status \in Terminal => run.status \in Terminal)
  BY <1>2 DEF ChildrenInv, BranchesAgree, Quiet, QuietBut, Stop, Resolve, Save
<1>3. ASSUME Stop PROVE ChildrenInv'
  BY <1>1, <1>2, <1>3 DEF Stop, IInv, RunInv, RunRecord, Terminal
<1>4. ASSUME NEW reason \in {"humanApproved", "humanRejected"}, Resolve(reason) PROVE ChildrenInv'
  <2> DEFINE index == run.index + 1
  <2>1. run' = [run EXCEPT !.reason = reason, !.index = index] /\ run \in RunRecord
    BY <1>4 DEF Resolve, IInv, RunInv
  <2> HIDE DEF index
  <2>2. run'.child = run.child /\ run'.earlier = run.earlier /\ run'.status = run.status
    BY <2>1 DEF RunRecord
  <2> QED BY <1>2, <1>4, <2>2 DEF Resolve
<1> QED BY <1>3, <1>4

\* A restart stops whoever the record it found shows at work.
LEMMA RestartSettles == ASSUME IInv, ChildrenInv, Restart PROVE ChildrenInv'
<1>1. run' = Recovered(disk) /\ disk' = run' /\ task' = Idle /\ UNCHANGED writeFailed
  BY DEF Restart
<1>2. disk \in RunRecord /\ disk.status \in Terminal \cup Running
  BY DEF Restart, IInv, RunInv, StoreInv
<1>3. CASE disk.status \in Running
  <2> DEFINE early == {IF s \in {"queued", "running"} THEN "stopped" ELSE s : s \in disk.earlier}
             kids == [q \in Slots |-> IF disk.child[q] \in {"queued", "running"}
                                      THEN "stopped" ELSE disk.child[q]]
  <2>1. run' = [disk EXCEPT !.status = "interrupted", !.reason = "appInterrupted",
                            !.earlier = early, !.child = kids]
    BY <1>1, <1>3 DEF Recovered, Running
  <2>2. early \cap AtWork = {} /\ \A q \in Slots : kids[q] \notin AtWork
    BY DEF AtWork
  <2> HIDE DEF early, kids
  <2>3. run'.earlier = early /\ run'.child = kids
    BY <1>2, <2>1 DEF RunRecord
  <2>4. Quiet(run)'
    BY <2>2, <2>3 DEF Quiet, QuietBut
  <2> QED BY <1>1, <2>4 DEF ChildrenInv
<1>4. CASE disk.status \in Terminal
  <2>1. run' = disk
    BY <1>1, <1>4 DEF Recovered, Terminal
  <2> QED BY <1>1, <1>4, <2>1 DEF ChildrenInv, Quiet, QuietBut
<1> QED BY <1>2, <1>3, <1>4

LEMMA StepSettles == ASSUME IInv, ChildrenInv, [Next]_vars PROVE ChildrenInv'
<1>1. CASE Start \/ YieldEnds
  BY <1>1, StartSettles, YieldEndsSettles
<1>2. CASE RoleReturns \/ RoleThrows \/ ValidationReturns
  BY <1>2, RoleSettles, ValidationSettles
<1>3. CASE \E s \in BranchSlots, ok \in BOOLEAN : BranchReturns(s, ok)
  BY <1>3, BranchSettles
<1>4. CASE BranchesJoin \/ Restart
  BY <1>4, JoinSettles, RestartSettles
<1>5. CASE Stop \/ \E reason \in {"humanApproved", "humanRejected"} : Resolve(reason)
  BY <1>5, WordSettles
<1>6. CASE OtherRunSaves
  BY <1>6 DEF OtherRunSaves, ChildrenInv, BranchesAgree, Quiet, QuietBut
<1>7. CASE DiskFills \/ DiskClears \/ UNCHANGED vars
  BY <1>7 DEF DiskFills, DiskClears, vars, ChildrenInv, BranchesAgree, Quiet, QuietBut
<1> QED BY <1>1, <1>2, <1>3, <1>4, <1>5, <1>6, <1>7 DEF Next

\* A run that ended shows nobody as queued or at work, in memory or in loop-runs.json,
\* unless a write of it failed (loopEngine.ts, role, runBranches and loadAndRecover).
THEOREM ChildrenAreSettled == Spec => []NoLiveChildUnderTerminal
<1>1. Init => ChildrenInv
  BY SlotsAreNotIdle DEF Init, ChildrenInv, Terminal, NoRun
<1>2. IInv /\ ChildrenInv => NoLiveChildUnderTerminal
  BY SlotsAreNotIdle DEF ChildrenInv, NoLiveChildUnderTerminal, ChildrenSettled, Quiet, QuietBut,
                         StatusesOf, AtWork
<1> QED BY <1>1, <1>2, StepSettles, RunInvariant, PTL DEF Spec

-----------------------------------------------------------------------------
(* Types.  Not every field of the record is free to take every word, and   *)
(* the iterations are counted within their bound: an approval adds one to  *)
(* a run that was never executed.                                          *)

ChildOutcomes == {"none", "queued", "running", "completed", "failed", "stopped"}

LoopRecord ==
  [status : Terminal \cup Running \cup {"none"}, reason : Words, index : 0 .. MaxIterations + 1,
   child : [Slots -> ChildOutcomes], earlier : SUBSET Words,
   checker : {"none", "APPROVE", "CONTINUE", "ASK_HUMAN"},
   validation : {"none", "unconfigured", "passed", "failed", "timeout", "spawnError"},
   goal : {"none", "SUCCESS", "CONTINUE", "FAIL"}]

\* A record of a run that execute() has, or had, in hand.
Typed(r) == r \in LoopRecord /\ r.index <= MaxIterations

\* A record of either kind of run.
Recorded(r) ==
  /\ r \in LoopRecord
  /\ IF definition.structure = "humanApproval"
     THEN r.reason = "humanInputRequired" => r.index <= 1
     ELSE r.index <= MaxIterations

LoopTypes ==
  /\ definition \in Definition
  /\ Recorded(run) /\ Recorded(disk)
  /\ task \in Tasks /\ live \subseteq BranchSlots
  /\ aborted \in BOOLEAN /\ full \in BOOLEAN
  /\ writeFailed \in BOOLEAN /\ stopTaken \in BOOLEAN
  /\ restarts \in 0 .. MaxRestarts /\ fills \in 0 .. MaxFills

\* Where a step of execute() leaves the run.
Lands ==
  /\ Typed(run') /\ disk' \in {disk, run'}
  /\ task' \in Tasks /\ live' \subseteq BranchSlots /\ writeFailed' \in BOOLEAN

LEMMA TasksAre ==
  /\ Idle \in Tasks /\ At("yield") \in Tasks /\ At("branches") \in Tasks /\ At("validation") \in Tasks
  /\ \A s \in Slots \ BranchSlots : s \in Tasks
  /\ \A p \in {"maker", "checker", "triage", "evaluator"} : At(p) \in Slots \ BranchSlots
  /\ \A n \in 1 .. Stages : <<"stage", n>> \in Slots \ BranchSlots
  /\ \A t \in Tasks : t \in Slots => t \notin BranchSlots
<1>1. \A p \in {"maker", "checker", "triage", "evaluator"} : At(p) \in Slots \ BranchSlots
  BY DEF At, Slots, BranchSlots
<1>2. \A n \in 1 .. Stages : <<"stage", n>> \in Slots \ BranchSlots
  BY DEF Slots, BranchSlots
<1>3. \A t \in Tasks : t \in Slots => t \notin BranchSlots
  BY SlotsAreNotIdle DEF Tasks
<1> QED
  BY <1>1, <1>2, <1>3 DEF Tasks

LEMMA StageIs ==
  ASSUME NEW s \in Slots, s[1] = "stage"
  PROVE  s[2] \in 1 .. Stages
<1>1. s \notin BranchSlots /\ s \notin {At("maker"), At("checker"), At("triage"), At("evaluator")}
  BY DEF At, BranchSlots
<1>2. s \in {"stage"} \X (1 .. Stages)
  BY <1>1 DEF Slots, BranchSlots
<1> QED
  BY <1>2

LEMMA SettleTypes ==
  ASSUME LoopTypes, NEW r, Typed(r), NEW status \in Terminal, NEW reason \in Words,
         Settle(r, status, reason)
  PROVE  Lands
<1>1. Typed(run')
  BY DEF Settle, Typed, LoopRecord
<1> QED
  BY <1>1, TasksAre DEF Lands, Settle, Save, LoopTypes

LEMMA SuspendTypes ==
  ASSUME LoopTypes, NEW r, Typed(r), NEW t \in Tasks, Suspend(r, t)
  PROVE  Lands
BY DEF Lands, Suspend, Save, LoopTypes

LEMMA SetTypes ==
  ASSUME NEW r, Typed(r), NEW slot \in Slots, NEW status \in ChildOutcomes
  PROVE  Typed(Set(r, slot, status)) /\ Set(r, slot, status).index = r.index
<1> DEFINE kids == [r.child EXCEPT ![slot] = status]
<1>1. kids \in [Slots -> ChildOutcomes]
  BY DEF Typed, LoopRecord
<1>2. Set(r, slot, status) = [r EXCEPT !.child = kids]
  BY DEF Set, Typed, LoopRecord
<1> HIDE DEF kids
<1> QED
  BY <1>1, <1>2 DEF Typed, LoopRecord

LEMMA CallTypes ==
  ASSUME LoopTypes, NEW r, Typed(r), NEW slot \in Slots \ BranchSlots, Call(r, slot)
  PROVE  Lands
<1> DEFINE started == Set(r, slot, "running")
<1>1. Typed(started)
  BY SetTypes DEF ChildOutcomes
<1>2. \/ Settle(started, "failed", "agentFailed")
      \/ Suspend(started, slot)
  BY DEF Call
<1> HIDE DEF started
<1> QED
  BY <1>1, <1>2, SettleTypes, SuspendTypes, TasksAre, WordsAreWords DEF Terminal

LEMMA ValidateTypes ==
  ASSUME LoopTypes, NEW r, Typed(r), Validate(r)
  PROVE  Lands
<1> DEFINE bare == [r EXCEPT !.validation = "unconfigured"]
<1>1. Typed(bare)
  BY DEF Typed, LoopRecord
<1>2. Suspend(r, At("validation")) \/ Call(bare, At("evaluator"))
  BY DEF Validate
<1> HIDE DEF bare
<1> QED
  BY <1>1, <1>2, SuspendTypes, CallTypes, TasksAre

\* The iterations begin with a fresh record, one more than there were.
LEMMA BeginTypes ==
  ASSUME LoopTypes, NEW r, Typed(r), r.index < MaxIterations,
         definition.structure # "humanApproval", BeginIteration(r)
  PROVE  Lands
<1> DEFINE fresh == FreshIteration(r)
           early == r.earlier \cup StatusesOf(r)
<1>1. StatusesOf(r) \subseteq Words
  BY WordsAreWords DEF StatusesOf, Typed, LoopRecord, ChildOutcomes
<1>2. Unused \in [Slots -> ChildOutcomes]
  BY DEF Unused, ChildOutcomes
<1>3. early \in SUBSET Words /\ r.index + 1 \in 0 .. MaxIterations + 1 /\ r.index + 1 <= MaxIterations
  BY <1>1, RunAssumption DEF Typed, LoopRecord
<1>4. fresh = [r EXCEPT !.index = r.index + 1, !.earlier = early, !.child = Unused,
                        !.checker = "none", !.validation = "none", !.goal = "none"]
  BY DEF FreshIteration
<1> HIDE DEF early, fresh
<1>5. Typed(fresh)
  BY <1>2, <1>3, <1>4 DEF Typed, LoopRecord
<1>6. CASE full
  BY <1>5, <1>6, SettleTypes, WordsAreWords DEF BeginIteration, Terminal, fresh
<1>7. CASE ~full /\ definition.structure \in {"singleAgent", "makerChecker"}
  BY <1>5, <1>7, CallTypes, TasksAre DEF BeginIteration, fresh
<1>8. CASE ~full /\ definition.structure = "discoveryTriage"
  BY <1>5, <1>8, CallTypes, TasksAre DEF BeginIteration, fresh
<1>9. CASE ~full /\ definition.structure = "agentPipeline"
  <2>1. <<"stage", 1>> \in Slots \ BranchSlots
    BY RunAssumption, TasksAre
  <2> QED
    BY <1>5, <1>9, <2>1, CallTypes DEF BeginIteration, fresh
<1>10. CASE ~full /\ definition.structure = "parallelAgents"
  <2> DEFINE first == {s \in BranchSlots : s[2] <= 2}
             kids == [s \in Slots |-> IF s \in first THEN "running"
                                      ELSE IF s \in BranchSlots THEN "queued" ELSE "none"]
  <2>1. run' = [fresh EXCEPT !.child = kids] /\ task' = At("branches") /\ live' = first
        /\ Save(run')
    BY <1>10 DEF BeginIteration, CallBranches, fresh
  <2>2. kids \in [Slots -> ChildOutcomes] /\ first \subseteq BranchSlots
    BY DEF ChildOutcomes
  <2> HIDE DEF kids, first
  <2>3. Typed(run')
    BY <1>5, <2>1, <2>2 DEF Typed, LoopRecord
  <2> QED
    BY <2>1, <2>2, <2>3, TasksAre DEF Lands, Save, LoopTypes
<1> QED
  BY <1>6, <1>7, <1>8, <1>9, <1>10 DEF LoopTypes, Definition, Structures

LEMMA ConcludeTypes ==
  ASSUME LoopTypes, NEW r, Typed(r), definition.structure # "humanApproval", Conclude(r)
  PROVE  Lands
<1>1. \/ \E status \in Terminal, reason \in Words : Settle(r, status, reason)
      \/ Suspend(r, At("yield"))
      \/ r.index < definition.maxIterations /\ BeginIteration(r)
  BY WordsAreWords DEF Conclude, Terminal
<1>2. r.index < definition.maxIterations => r.index < MaxIterations
  BY RunAssumption DEF LoopTypes, Definition, Typed, LoopRecord
<1> QED
  BY <1>1, <1>2, SettleTypes, SuspendTypes, BeginTypes, TasksAre

\* A report was saved.
LEMMA ProceedTypes ==
  ASSUME LoopTypes, task \in Slots, NEW r, Typed(r), definition.structure # "humanApproval",
         Proceed(r)
  PROVE  Lands
<1>1. task[1] \in {"maker", "checker", "triage", "evaluator", "stage"}
  BY SlotPhases, TasksAre DEF LoopTypes
<1>2. CASE task[1] \in {"maker", "triage"}
  BY <1>2, ValidateTypes, CallTypes, TasksAre DEF Proceed
<1>3. CASE task[1] = "stage"
  <2>1. task[2] \in 1 .. Stages /\ (task[2] < Stages => task[2] + 1 \in 1 .. Stages)
    BY <1>3, StageIs, RunAssumption
  <2>2. \/ task[2] < Stages /\ Call(r, <<"stage", task[2] + 1>>)
        \/ Validate(r)
    BY <1>3 DEF Proceed
  <2> QED
    BY <2>1, <2>2, ValidateTypes, CallTypes, TasksAre
<1>4. CASE task[1] = "checker"
  <2>1. ASSUME NEW d \in {"APPROVE", "CONTINUE", "ASK_HUMAN"}, Validate([r EXCEPT !.checker = d])
        PROVE  Lands
    <3>1. Typed([r EXCEPT !.checker = d])
      BY DEF Typed, LoopRecord
    <3> QED
      BY <2>1, <3>1, ValidateTypes
  <2> QED
    BY <1>4, <2>1, SettleTypes, WordsAreWords DEF Proceed, Terminal
<1>5. CASE task[1] = "evaluator"
  <2>1. PICK d \in {"SUCCESS", "CONTINUE", "FAIL"} : Conclude([r EXCEPT !.goal = d])
    BY <1>5 DEF Proceed
  <2>2. Typed([r EXCEPT !.goal = d])
    BY DEF Typed, LoopRecord
  <2> QED
    BY <2>1, <2>2, ConcludeTypes
<1> QED
  BY <1>1, <1>2, <1>3, <1>4, <1>5

\* A step of execute() is typed where it lands.
LEMMA LandsTyped ==
  ASSUME LoopTypes, Lands, definition.structure # "humanApproval",
         UNCHANGED <<definition, aborted, full, restarts, fills, stopTaken>>
  PROVE  LoopTypes'
BY DEF LoopTypes, Lands, Recorded, Typed

\* What a task that resumes has in hand.
LEMMA TaskIsTyped ==
  ASSUME IInv, LoopTypes, task # Idle
  PROVE  definition.structure # "humanApproval" /\ Typed(run)
BY TaskResumes DEF Course, LoopTypes, Recorded, Typed

LEMMA StartTypes == ASSUME IInv, LoopTypes, Start PROVE LoopTypes'
<1>1. UNCHANGED <<definition, aborted, full, restarts, fills, stopTaken>> /\ ~full
  BY DEF Start
<1>2. NoRun \in LoopRecord
  BY WordsAreWords, RunAssumption DEF NoRun, LoopRecord, Unused, ChildOutcomes
<1>3. CASE definition.structure = "humanApproval"
  <2>1. /\ run' = [NoRun EXCEPT !.index = 1, !.status = "stopped", !.reason = "humanInputRequired"]
        /\ disk' = run' /\ task' = Idle /\ live' = {} /\ writeFailed' \in BOOLEAN
    BY <1>1, <1>3 DEF Start, Settle, Save, NoRun, LoopTypes
  <2>2. run' \in LoopRecord /\ run'.index = 1
    <3>1. 1 \in 0 .. MaxIterations + 1
      BY RunAssumption
    <3>2. "stopped" \in Terminal /\ "humanInputRequired" \in Words
      BY WordsAreWords DEF Terminal
    <3> QED
      BY <1>2, <2>1, <3>1, <3>2 DEF LoopRecord
  <2> QED
    BY <1>1, <1>3, <2>1, <2>2, TasksAre DEF LoopTypes, Recorded
<1>4. CASE definition.structure # "humanApproval"
  <2> DEFINE r == [NoRun EXCEPT !.status = "running"]
  <2>1. Typed(r) /\ r.index = 0
    BY <1>2, RunAssumption DEF Typed, LoopRecord, NoRun, Running
  <2>2. BeginIteration(r)
    BY <1>4 DEF Start
  <2> HIDE DEF r
  <2>3. Lands
    BY <1>4, <2>1, <2>2, BeginTypes, RunAssumption
  <2> QED
    BY <1>1, <1>4, <2>3, LandsTyped
<1> QED
  BY <1>3, <1>4

LEMMA TaskTypes ==
  ASSUME IInv, LoopTypes, YieldEnds \/ RoleReturns \/ RoleThrows \/ ValidationReturns
  PROVE  LoopTypes'
<1>1. UNCHANGED <<definition, aborted, full, restarts, fills, stopTaken>> /\ task # Idle
  BY SlotsAreNotIdle DEF YieldEnds, RoleReturns, RoleThrows, ValidationReturns
<1>2. definition.structure # "humanApproval" /\ Typed(run)
  BY <1>1, TaskIsTyped
<1> SUFFICES Lands
  BY <1>1, <1>2, LandsTyped
<1>3. /\ {"stopped", "failed"} \subseteq Terminal
      /\ {"userStopped", "agentFailed", "toolFailed"} \subseteq Words
  BY WordsAreWords DEF Terminal
<1>4. CASE YieldEnds
  <2>1. \/ Settle(run, "stopped", "userStopped")
        \/ run.index < MaxIterations /\ BeginIteration(run)
    BY <1>4 DEF YieldEnds
  <2> QED
    BY <1>2, <1>3, <2>1, SettleTypes, BeginTypes
<1>5. CASE RoleReturns \/ RoleThrows
  <2>1. task \in Slots
    BY <1>5 DEF RoleReturns, RoleThrows
  <2>2. \A o \in ChildOutcomes : Typed(Set(run, task, o))
    BY <1>2, <2>1, SetTypes
  <2>3. \/ Proceed(Set(run, task, "completed"))
        \/ \E o \in ChildOutcomes, status \in {"stopped", "failed"},
              reason \in {"userStopped", "agentFailed", "toolFailed"} :
             Settle(Set(run, task, o), status, reason)
    BY <1>5 DEF RoleReturns, RoleThrows, ChildOutcomes
  <2>4. ASSUME NEW o \in ChildOutcomes, NEW status \in {"stopped", "failed"},
               NEW reason \in {"userStopped", "agentFailed", "toolFailed"},
               Settle(Set(run, task, o), status, reason)
        PROVE  Lands
    BY <1>3, <2>2, <2>4, SettleTypes
  <2>5. CASE Proceed(Set(run, task, "completed"))
    BY <1>2, <2>1, <2>2, <2>5, ProceedTypes DEF ChildOutcomes
  <2> QED
    BY <2>3, <2>4, <2>5
<1>6. CASE ValidationReturns
  <2>1. ASSUME NEW v \in {"passed", "failed", "timeout", "spawnError"},
               Call([run EXCEPT !.validation = v], At("evaluator"))
        PROVE  Lands
    <3>1. Typed([run EXCEPT !.validation = v])
      BY <1>2 DEF Typed, LoopRecord
    <3> QED
      BY <2>1, <3>1, CallTypes, TasksAre
  <2>2. \/ \E status \in {"stopped", "failed"}, reason \in {"userStopped", "toolFailed"} :
             Settle(run, status, reason)
        \/ \E v \in {"passed", "failed", "timeout", "spawnError"} :
             Call([run EXCEPT !.validation = v], At("evaluator"))
    BY <1>6 DEF ValidationReturns
  <2> QED
    BY <1>2, <1>3, <2>1, <2>2, SettleTypes
<1> QED
  BY <1>4, <1>5, <1>6

LEMMA BranchTypes ==
  ASSUME IInv, LoopTypes, NEW s \in BranchSlots, NEW ok \in BOOLEAN, BranchReturns(s, ok)
  PROVE  LoopTypes'
<1> DEFINE status == IF aborted THEN "stopped" ELSE IF ok /\ ~full THEN "completed" ELSE "failed"
           taken == IF aborted THEN {}
                    ELSE IF full THEN {q \in BranchSlots : run.child[q] = "queued"}
                    ELSE NextQueued(run)
           ended == Set(run, s, status)
           kids == [q \in Slots |-> IF q \in taken THEN "running" ELSE ended.child[q]]
<1>1. /\ run' = [ended EXCEPT !.child = kids]
      /\ live' = (live \ {s}) \cup (IF full THEN {} ELSE taken)
      /\ disk' \in {disk, run'} /\ writeFailed' \in BOOLEAN
      /\ UNCHANGED <<definition, task, aborted, full, restarts, fills, stopTaken>>
  BY DEF BranchReturns, Save, LoopTypes
<1>2. task # Idle /\ s \in Slots
  BY SlotsAreNotIdle DEF BranchReturns, IInv, RunInv, Slots, BranchSlots
<1>3. definition.structure # "humanApproval" /\ Typed(run)
  BY <1>2, TaskIsTyped
<1>4. status \in ChildOutcomes /\ taken \subseteq BranchSlots
  BY DEF ChildOutcomes, NextQueued
<1>5. Typed(ended)
  BY <1>2, <1>3, <1>4, SetTypes
<1> HIDE DEF status, taken, ended
<1>6. kids \in [Slots -> ChildOutcomes]
  BY <1>5 DEF Typed, LoopRecord, ChildOutcomes
<1> HIDE DEF kids
<1>7. Typed(run')
  BY <1>1, <1>5, <1>6 DEF Typed, LoopRecord
<1>8. Lands
  BY <1>1, <1>4, <1>7 DEF Lands, LoopTypes
<1> QED
  BY <1>1, <1>3, <1>8, LandsTyped

LEMMA JoinTypes == ASSUME IInv, LoopTypes, BranchesJoin PROVE LoopTypes'
<1>1. UNCHANGED <<definition, aborted, full, restarts, fills, stopTaken>> /\ task # Idle
  BY SlotsAreNotIdle DEF BranchesJoin
<1>2. definition.structure # "humanApproval" /\ Typed(run)
  BY <1>1, TaskIsTyped
<1> DEFINE kids == [q \in Slots |-> IF run.child[q] = "queued" THEN "stopped" ELSE run.child[q]]
           r == [run EXCEPT !.child = kids]
<1>3. kids \in [Slots -> ChildOutcomes]
  BY <1>2 DEF Typed, LoopRecord, ChildOutcomes
<1>4. \/ Settle(r, "stopped", "userStopped") \/ Validate(run)
      \/ \E reason \in {"agentFailed", "toolFailed"} : Settle(run, "failed", reason)
  BY DEF BranchesJoin
<1> HIDE DEF kids
<1>5. Typed(r)
  BY <1>2, <1>3 DEF Typed, LoopRecord
<1> HIDE DEF r
<1>6. Lands
  BY <1>2, <1>4, <1>5, SettleTypes, ValidateTypes, WordsAreWords DEF Terminal
<1> QED
  BY <1>1, <1>2, <1>6, LandsTyped

\* What users and the store do to a run.
LEMMA WordTypes ==
  ASSUME IInv, LoopTypes,
         Stop \/ OtherRunSaves \/ DiskFills \/ DiskClears
           \/ \E reason \in {"humanApproved", "humanRejected"} : Resolve(reason)
  PROVE  LoopTypes'
<1>1. CASE Stop
  <2>1. /\ run' \in {run, [run EXCEPT !.status = "stopping"]} /\ disk' \in {disk, run'}
        /\ aborted' \in BOOLEAN /\ stopTaken' \in BOOLEAN /\ writeFailed' \in BOOLEAN
        /\ UNCHANGED <<definition, task, live, full, restarts, fills>>
    BY <1>1 DEF Stop, Save, LoopTypes
  <2>2. Recorded(run)'
    BY <2>1 DEF LoopTypes, Recorded, LoopRecord, Running
  <2> QED
    BY <2>1, <2>2 DEF LoopTypes, Recorded
<1>2. ASSUME NEW reason \in {"humanApproved", "humanRejected"}, Resolve(reason)
      PROVE  LoopTypes'
  <2> DEFINE index == run.index + 1
  <2>1. /\ run' = [run EXCEPT !.reason = reason, !.index = index]
        /\ disk' \in {disk, run'} /\ writeFailed' \in BOOLEAN
        /\ UNCHANGED <<definition, task, live, aborted, full, restarts, fills, stopTaken>>
        /\ definition.structure = "humanApproval" /\ run.reason = "humanInputRequired"
    BY <1>2 DEF Resolve, Save, LoopTypes
  <2>2. index \in 0 .. MaxIterations + 1 /\ reason \in Words
    BY <2>1, RunAssumption, WordsAreWords DEF LoopTypes, Recorded, LoopRecord
  <2> HIDE DEF index
  <2>3. run' \in LoopRecord /\ run'.reason = reason
    BY <2>1, <2>2 DEF LoopTypes, Recorded, LoopRecord
  <2> QED
    BY <2>1, <2>3 DEF LoopTypes, Recorded
<1>3. CASE OtherRunSaves
  BY <1>3 DEF OtherRunSaves, LoopTypes, Recorded
<1>4. CASE DiskFills \/ DiskClears
  <2>1. /\ full' \in BOOLEAN /\ fills' \in 0 .. MaxFills
        /\ UNCHANGED <<definition, run, task, live, aborted, disk, restarts, writeFailed, stopTaken>>
    <3>1. CASE DiskFills
      BY <1>4, <3>1, RunAssumption DEF DiskFills, LoopTypes
    <3>2. CASE DiskClears
      BY <3>2 DEF DiskClears, LoopTypes
    <3> QED
      BY <1>4, <3>1, <3>2
  <2> QED
    BY <2>1 DEF LoopTypes, Recorded
<1> QED
  BY <1>1, <1>2, <1>3, <1>4

LEMMA RestartTypes == ASSUME IInv, LoopTypes, Restart PROVE LoopTypes'
<1>1. /\ run' = Recovered(disk) /\ disk' = run' /\ task' = Idle /\ live' = {} /\ aborted' = FALSE
      /\ restarts' \in 0 .. MaxRestarts
      /\ UNCHANGED <<definition, full, fills, writeFailed, stopTaken>>
  BY RunAssumption DEF Restart, LoopTypes
<1>2. Recorded(run')
  <2>1. CASE disk.status \in {"running", "stopping"}
    <3> DEFINE early == {IF s \in {"queued", "running"} THEN "stopped" ELSE s : s \in disk.earlier}
               kids == [q \in Slots |-> IF disk.child[q] \in {"queued", "running"}
                                        THEN "stopped" ELSE disk.child[q]]
    <3>1. early \in SUBSET Words /\ kids \in [Slots -> ChildOutcomes]
      BY WordsAreWords DEF LoopTypes, Recorded, LoopRecord, ChildOutcomes
    <3>2. run' = [disk EXCEPT !.status = "interrupted", !.reason = "appInterrupted",
                              !.earlier = early, !.child = kids]
      BY <1>1, <2>1 DEF Recovered
    <3> HIDE DEF early, kids
    <3>3. /\ run' \in LoopRecord /\ run'.index = disk.index
          /\ run'.reason = "appInterrupted"
      BY <3>1, <3>2, WordsAreWords DEF LoopTypes, Recorded, LoopRecord, Terminal
    <3> QED
      BY <3>3 DEF LoopTypes, Recorded
  <2>2. CASE disk.status \notin {"running", "stopping"}
    BY <1>1, <2>2 DEF Recovered, LoopTypes
  <2> QED
    BY <2>1, <2>2
<1> QED
  BY <1>1, <1>2, TasksAre DEF LoopTypes, Recorded

LEMMA StepTypes == ASSUME IInv, LoopTypes, [Next]_vars PROVE LoopTypes'
<1>1. CASE UNCHANGED vars
  BY <1>1 DEF vars, LoopTypes, Recorded
<1> QED
  BY <1>1, StartTypes, TaskTypes, BranchTypes, JoinTypes, WordTypes, RestartTypes DEF Next

\* Every reachable state is of its type: the record's fields, the iterations within their
\* bound, and the task suspended where execute() awaits something (loopEngine.ts).
THEOREM RunTyped == Spec => []TypeOK
<1>1. Init => LoopTypes
  <2> SUFFICES ASSUME Init PROVE LoopTypes
    OBVIOUS
  <2>1. NoRun \in LoopRecord /\ NoRun.index = 0
    BY WordsAreWords, RunAssumption DEF NoRun, LoopRecord, Unused, ChildOutcomes
  <2>2. Recorded(NoRun)
    BY <2>1, RunAssumption DEF Recorded
  <2>3. 0 \in 0 .. MaxRestarts /\ 0 \in 0 .. MaxFills
    BY RunAssumption
  <2> QED
    BY <2>2, <2>3, TasksAre DEF Init, LoopTypes
<1>2. IInv /\ LoopTypes /\ [Next]_vars => LoopTypes'
  BY StepTypes
<1>3. LoopTypes => TypeOK
  BY DEF LoopTypes, TypeOK, Recorded, LoopRecord, Running, ChildOutcomes
<1> QED
  BY <1>1, <1>2, <1>3, RunInvariant, PTL DEF Spec
=============================================================================
