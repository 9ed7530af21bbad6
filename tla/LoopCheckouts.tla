--------------------------- MODULE LoopCheckouts ----------------------------
(***************************************************************************)
(* What Loop runs do to checkouts: the routes of                           *)
(* apps/server/src/routes/loops.ts over the durable records of             *)
(* apps/server/src/loopEngine.ts.  A run writes either in the project's    *)
(* checkout, under a lock, or in a worktree of its own whose changes a     *)
(* user then reviews, applies to the checkout or discards.                 *)
(*                                                                         *)
(* One project checkout; a route handler is cut at its awaits.  What       *)
(* happens inside a run is module LoopRun; here it only runs and ends.     *)
(* Environment: agents, git, users, and the worktrees' contents, of which  *)
(* only "which edit is it at" matters.  The server may die at any moment,  *)
(* and an agent may outlive it.                                            *)
(***************************************************************************)
EXTENDS Integers, FiniteSets

CONSTANTS
  Runs,          \* launches of Loops
  MaxRetained,   \* MAX_RETAINED_RUNS
  MaxWorktrees, MaxReboots, MaxEdits, MaxFails,   \* bounds
  NoLock, Absent

VARIABLES
  target,    \* each launch's writeTarget
  runs,      \* LoopEngine.runs: the records, with their insertion order
  saved,     \* loop-runs.json
  lock,      \* checkoutLocks of the project's checkout
  route,     \* where each launch's POST handler (and its settled callback) is
  agent,     \* environment: "busy" while a role works, "orphan" once it survived the server
  session,   \* the parent session: in memory, announced (durable), or gone
  tree,      \* environment: the run's worktree
  edit,      \* environment: which edit its contents are at
  op,        \* worktreeOperationLocks, and the review operation under way
  applies,   \* history: how often git apply wrote the run's patch
  reboots, fails   \* bounds

checkoutVars == <<target, runs, saved, lock, route, agent, session, tree, edit, op,
          applies, reboots, fails>>

Over == {"ended", "failed", "interrupted"}
NoHash == -1
NoReview == [status |-> "none", hash |-> NoHash]
NoOp == [kind |-> "none", current |-> FALSE, shown |-> NoHash, patch |-> NoHash]
Empty == [rec |-> [r \in Runs |-> Absent], older |-> {}]

ReviewStatus == {"none", "available", "applying", "applied", "applyUncertain",
                 "discarding", "discarded", "discardUncertain"}
Record == [status : Over \cup {"running", "stopping"}, acked : BOOLEAN,
           reconciled : BOOLEAN,
           review : [status : ReviewStatus, hash : {NoHash} \cup (0 .. MaxEdits)]]

Lock == [owner : Runs, kind : {"active", "recovery", "review"}]

ASSUME CheckoutAssumption ==
  /\ IsFiniteSet(Runs)
  /\ {MaxRetained, MaxWorktrees, MaxReboots, MaxEdits, MaxFails} \subseteq Nat
  /\ Absent \notin Record /\ NoLock \notin Lock

Has(m, r) == m.rec[r] # Absent
Kept(m) == {r \in Runs : Has(m, r)}

\* The insertion order of a map's records: <<r, s>> when r was inserted first.
Ordered(m) ==
  /\ m.older \subseteq Kept(m) \X Kept(m)
  /\ \A r, s \in Kept(m) : r # s => (<<r, s>> \in m.older <=> <<s, r>> \notin m.older)

\* Types: ordered records, and a lock owned by a launch.
CheckoutTypeOK ==
  /\ target \in [Runs -> {"currentCheckout", "newWorktree"}]
  /\ \A m \in {runs, saved} :
       /\ m.rec \in [Runs -> Record \cup {Absent}]
       /\ Ordered(m)
  /\ lock \in Lock \cup {NoLock}
  /\ route \in [Runs -> {"none", "worktree", "session", "live", "rollback", "failing",
                       "stranded", "done"}]
  /\ agent \in [Runs -> {"none", "busy", "orphan"}]
  /\ session \in [Runs -> {"none", "made", "announced", "gone"}]
  /\ tree \in [Runs -> {"none", "there", "archived"}]
  /\ edit \in [Runs -> 0 .. MaxEdits]
  /\ op \in [Runs -> [kind : {"none", "reviewing", "locked", "checking", "written",
                              "decided", "archived"},
                      current : BOOLEAN, shown : {NoHash} \cup (0 .. MaxEdits),
                      patch : {NoHash} \cup (0 .. MaxEdits)]]
  /\ applies \in [Runs -> Nat]

CheckoutInit ==
  /\ target \in [Runs -> {"currentCheckout", "newWorktree"}]
  /\ Cardinality({r \in Runs : target[r] = "newWorktree"}) <= MaxWorktrees   \* bound
  /\ runs = Empty /\ saved = Empty
  /\ lock = NoLock
  /\ route = [r \in Runs |-> "none"]
  /\ agent = [r \in Runs |-> "none"]
  /\ session = [r \in Runs |-> "none"]
  /\ tree = [r \in Runs |-> "none"]
  /\ edit = [r \in Runs |-> 0]
  /\ op = [r \in Runs |-> NoOp]
  /\ applies = [r \in Runs |-> 0]
  /\ reboots = 0 /\ fails = 0

-----------------------------------------------------------------------------
(* The engine's records.                                                   *)

IsTerminal(m, r) == Has(m, r) /\ m.rec[r].status \in Over

\* A mutant: a record is dropped, but not its place in the order.
WithoutKeepingOrder(m, S) ==
  [m EXCEPT !.rec = [r \in Runs |-> IF r \in S THEN Absent ELSE m.rec[r]]]

\* runs.delete.
Without(m, S) ==
  [rec |-> [r \in Runs |-> IF r \in S THEN Absent ELSE m.rec[r]],
   older |-> {p \in m.older : p[1] \notin S /\ p[2] \notin S}]

\* runs.set of a new id.
With(m, r, record) ==
  [rec |-> [m.rec EXCEPT ![r] = record], older |-> m.older \cup (Kept(m) \X {r})]

\* evictOldRuns: the oldest terminal runs make room for one more.
Evicted(m) ==
  LET ended == {r \in Runs : IsTerminal(m, r)}
      excess == Cardinality(Kept(m)) - MaxRetained + 1
      upTo(r) == {s \in ended : s = r \/ <<s, r>> \in m.older}
  IN Without(m, {r \in ended : Cardinality(upTo(r)) <= excess})

\* A change of the map and the write of the whole map.
SaveAll(m) == runs' = m /\ saved' = m

\* A registered worktree of a run that ended is offered for review.
NewReview(r) == IF tree[r] = "there" THEN [NoReview EXCEPT !.status = "available"]
                ELSE NoReview

\* releaseCheckoutLock and the finally of an apply, each of its own lock.
Released(r, kind) == IF lock = [owner |-> r, kind |-> kind] THEN NoLock ELSE lock

-----------------------------------------------------------------------------
(* POST /loops/:id/run.                                                    *)

\* Up to the first await: the lock is tested and taken, then a worktree is asked
\* for, or the parent session is made.  A held lock of any kind refuses.
Launch(r) ==
  /\ route[r] = "none"
  /\ IF target[r] = "newWorktree"
     THEN /\ route' = [route EXCEPT ![r] = "worktree"]
          /\ UNCHANGED <<lock, session>>
     ELSE /\ lock = NoLock
          /\ lock' = [owner |-> r, kind |-> "active"]
          /\ route' = [route EXCEPT ![r] = "session"]
          /\ session' = [session EXCEPT ![r] = "made"]
  /\ UNCHANGED <<target, runs, saved, agent, tree, edit, op, applies, reboots, fails>>

\* recordFailedStart.  Its record has an id of its own; it takes r's place here, no
\* record of r being left.
RecordFailure(r, m) ==
  SaveAll(With(Evicted(m), r, [status |-> "failed", acked |-> FALSE, reconciled |-> TRUE,
                            review |-> NewReview(r)]))

\* createLoopWorktree answers.
WorktreeMade(r) ==
  /\ route[r] = "worktree"
  /\ tree' = [tree EXCEPT ![r] = "there"]
  /\ route' = [route EXCEPT ![r] = "session"]
  /\ session' = [session EXCEPT ![r] = "made"]
  /\ UNCHANGED <<target, runs, saved, lock, agent, edit, op, applies, reboots, fails>>

WorktreeFails(r) ==
  /\ route[r] = "worktree"
  /\ RecordFailure(r, runs)
  /\ route' = [route EXCEPT ![r] = "done"]
  /\ lock' = Released(r, "active")
  /\ UNCHANGED <<target, agent, session, tree, edit, op, applies, reboots, fails>>

\* The evaluator model is there (or none is asked for): loopEngine.start, then
\* the announcement.  When that throws, the rollback stops the run.
StartRun(r, announced) ==
  /\ route[r] = "session"
  /\ SaveAll(With(Evicted(runs), r, [status |-> IF announced THEN "running" ELSE "stopping",
                                     acked |-> FALSE, reconciled |-> FALSE,
                                     review |-> NoReview]))
  /\ agent' = [agent EXCEPT ![r] = "busy"]
  /\ route' = [route EXCEPT ![r] = IF announced THEN "live" ELSE "rollback"]
  /\ session' = IF announced THEN [session EXCEPT ![r] = "announced"] ELSE session
  /\ UNCHANGED <<target, lock, tree, edit, op, applies, reboots, fails>>

\* The model is unavailable, or start() throws.
SessionFails(r) ==
  /\ route[r] = "session"
  /\ route' = [route EXCEPT ![r] = "failing"]
  /\ UNCHANGED <<target, runs, saved, lock, agent, session, tree, edit, op, applies,
                 reboots, fails>>

\* finalize: the run ends by itself or because it was stopped; a registered
\* worktree becomes reviewable.
RunEnds(r) ==
  /\ agent[r] = "busy"
  /\ agent' = [agent EXCEPT ![r] = "none"]
  /\ SaveAll([runs EXCEPT !.rec[r].status = "ended", !.rec[r].review = NewReview(r)])
  /\ UNCHANGED <<target, lock, route, session, tree, edit, op, applies, reboots, fails>>

\* POST /loops/runs/:id/stop marks the run; RunEnds follows.
StopRun(r) ==
  /\ Has(runs, r) /\ runs.rec[r].status = "running"
  /\ SaveAll([runs EXCEPT !.rec[r].status = "stopping"])
  /\ UNCHANGED <<target, lock, route, agent, session, tree, edit, op, applies,
                 reboots, fails>>

\* The rollback waited for the run to settle; its record is removed.
Rollback(r) ==
  /\ route[r] = "rollback" /\ agent[r] = "none"
  /\ SaveAll(Without(runs, {r}))
  /\ route' = [route EXCEPT ![r] = "failing"]
  /\ UNCHANGED <<target, lock, agent, session, tree, edit, op, applies, reboots, fails>>

\* The write of the removal throws out of the handler's own catch: nothing after it
\* runs, the lock and the parent session stay until the next boot.
RollbackFails(r) ==
  /\ route[r] = "rollback" /\ agent[r] = "none"
  /\ fails < MaxFails /\ fails' = fails + 1
  /\ runs' = Without(runs, {r}) /\ UNCHANGED saved
  /\ route' = [route EXCEPT ![r] = "stranded"]
  /\ UNCHANGED <<target, lock, agent, session, tree, edit, op, applies, reboots>>

\* The failed launch destroyed its parent session: unlock, and keep an account.
LaunchFails(r) ==
  /\ route[r] = "failing"
  /\ session' = [session EXCEPT ![r] = "gone"]
  /\ lock' = Released(r, "active")
  /\ RecordFailure(r, runs)
  /\ route' = [route EXCEPT ![r] = "done"]
  /\ UNCHANGED <<target, agent, tree, edit, op, applies, reboots, fails>>

Reconciled(m, S) ==
  [m EXCEPT !.rec = [r \in Runs |-> IF r \in S /\ Has(m, r)
                                    THEN [m.rec[r] EXCEPT !.reconciled = TRUE] ELSE m.rec[r]]]

\* A mutant: the run is marked reconciled although the destroy failed.
CloseMarking(r, ok) ==
  /\ route[r] = "live" /\ agent[r] = "none"
  /\ session' = IF ok THEN [session EXCEPT ![r] = "gone"] ELSE session
  /\ SaveAll(Reconciled(runs, {r}))
  /\ route' = [route EXCEPT ![r] = "done"] /\ lock' = Released(r, "active")
  /\ UNCHANGED <<target, agent, tree, edit, op, applies, reboots, fails>>

\* A mutant: the lock is kept when the destroy failed.
CloseKeepingLock(r, ok) ==
  /\ route[r] = "live" /\ agent[r] = "none"
  /\ IF ok THEN /\ session' = [session EXCEPT ![r] = "gone"]
                /\ SaveAll(Reconciled(runs, {r})) /\ lock' = Released(r, "active")
           ELSE UNCHANGED <<session, runs, saved, lock>>
  /\ route' = [route EXCEPT ![r] = "done"]
  /\ UNCHANGED <<target, agent, tree, edit, op, applies, reboots, fails>>

\* settled(...).finally: the parent is destroyed and the run marked reconciled;
\* the lock is released even when destroying failed.
Close(r, ok) ==
  /\ route[r] = "live" /\ agent[r] = "none"
  /\ IF ok THEN /\ session' = [session EXCEPT ![r] = "gone"]
                /\ SaveAll(Reconciled(runs, {r}))
           ELSE UNCHANGED <<session, runs, saved>>
  /\ lock' = Released(r, "active")
  /\ route' = [route EXCEPT ![r] = "done"]
  /\ UNCHANGED <<target, agent, tree, edit, op, applies, reboots, fails>>

-----------------------------------------------------------------------------
(* Reviewing, applying and discarding a worktree.                          *)

\* A review changes in memory, then comes the write, which may throw.  Written, the
\* handler goes on as next says; else it ends.
SaveReview(r, review, next) ==
  LET m == [runs EXCEPT !.rec[r].review = review] IN
  /\ runs' = m
  /\ \/ saved' = m /\ op' = [op EXCEPT ![r] = next] /\ UNCHANGED fails
     \/ /\ fails < MaxFails /\ fails' = fails + 1
        /\ op' = [op EXCEPT ![r] = NoOp] /\ UNCHANGED saved

\* The same of an apply or a discard: where it ends, an apply gives back the lock.
Change(r, review, next) ==
  /\ SaveReview(r, review, next)
  /\ lock' = IF op'[r] = NoOp THEN Released(r, "review") ELSE lock

\* ensureWorktreeReviewAvailable, with which every handler goes on as next says: a run
\* that was interrupted had no end to offer its worktree, so it is offered now.
Ensure(r, next) ==
  IF runs.rec[r].review.status = "none"
  THEN SaveReview(r, [NoReview EXCEPT !.status = "available"], next)
  ELSE op' = [op EXCEPT ![r] = next] /\ UNCHANGED <<runs, saved, fails>>

\* The operation still holds the review's version (expectedUpdatedAt): the view the
\* user decided on, or the operation's own last change, is the review's last.
IsCurrent(r) == Has(runs, r) /\ op[r].current

\* transitionWorktreeReview, after that test.
Transition(r, status, next) ==
  Change(r, [runs.rec[r].review EXCEPT !.status = status], next)

\* The operation lock is free and validateOwnedWorktree has run: the record is
\* terminal, interrupted included, its tree in place; and its review is available, or
\* will be.  (A rollback follows its run's end at once: no handler gets between them.)
MayOperate(r) ==
  /\ op[r] = NoOp /\ route[r] # "rollback"
  /\ IsTerminal(runs, r) /\ runs.rec[r].review.status \in {"none", "available"}
  /\ tree[r] = "there"

\* GET review, up to the patch it waits for.
ReviewBegins(r) ==
  /\ MayOperate(r)
  /\ Ensure(r, [NoOp EXCEPT !.kind = "reviewing"])
  /\ UNCHANGED <<target, lock, route, agent, session, tree, edit, applies, reboots>>

\* saveWorktreePatch: the patch is generated, hashed and saved as the reviewed one.
ReviewPatch(r) ==
  /\ op[r].kind = "reviewing"
  /\ Has(runs, r) /\ runs.rec[r].review.status \in {"available", "applying"}
  /\ SaveReview(r, [runs.rec[r].review EXCEPT !.hash = edit[r]], NoOp)
  /\ UNCHANGED <<target, lock, route, agent, session, tree, edit, applies, reboots>>

\* The user decides on a view of the run: the current one, or an older one, which
\* may have shown any patch up to now.  A review that is only now made available is
\* in no view.
Confirms(r, current, shown) ==
  IF current
  THEN runs.rec[r].review.status = "available" /\ shown = runs.rec[r].review.hash
  ELSE shown <= edit[r]

\* POST apply: validated, it takes the project's lock or answers that it is busy, and
\* goes on to the preflight.
ApplyLocks(r, current, shown) ==
  /\ lock = NoLock
  /\ MayOperate(r) /\ Confirms(r, current, shown)
  /\ Ensure(r, [kind |-> "locked", current |-> current, shown |-> shown, patch |-> NoHash])
  /\ lock' = IF op'[r] = NoOp THEN lock ELSE [owner |-> r, kind |-> "review"]
  /\ UNCHANGED <<target, route, agent, session, tree, edit, applies, reboots>>

\* The patch is not generated, a preflight or a test fails, or the record was evicted
\* under the handler: it answers and its finally gives back what it holds.
OperationRefused(r) ==
  /\ op[r].kind \in {"reviewing", "locked"} \/ (op[r] # NoOp /\ ~IsCurrent(r))
  /\ op' = [op EXCEPT ![r] = NoOp]
  /\ lock' = Released(r, "review")
  /\ UNCHANGED <<target, runs, saved, route, agent, session, tree, edit, applies,
                 reboots, fails>>

\* A mutant: the confirmed version is not compared.
ApplyDecidesOnHash(r) ==
  /\ op[r].kind = "locked" /\ Has(runs, r) /\ runs.rec[r].review.hash = edit[r]
  /\ Transition(r, "applying", [op[r] EXCEPT !.kind = "checking", !.patch = edit[r]])
  /\ UNCHANGED <<target, route, agent, session, tree, edit, applies, reboots>>

\* The preflight passed; the patch generated now must be the reviewed one, and the
\* confirmed version the current one.
ApplyDecides(r) ==
  /\ op[r].kind = "locked" /\ IsCurrent(r) /\ runs.rec[r].review.hash = edit[r]
  /\ Transition(r, "applying", [op[r] EXCEPT !.kind = "checking", !.patch = edit[r]])
  /\ UNCHANGED <<target, route, agent, session, tree, edit, applies, reboots>>

\* git apply --check refuses: back to available.
ApplyCheckFails(r) ==
  /\ op[r].kind = "checking" /\ IsCurrent(r)
  /\ Transition(r, "available", NoOp)
  /\ UNCHANGED <<target, route, agent, session, tree, edit, applies, reboots>>

\* git writes the reviewed bytes into the checkout, whole or in part.
GitApplies(r) ==
  /\ op[r].kind = "checking"
  /\ applies' = [applies EXCEPT ![r] = @ + 1]
  /\ op' = [op EXCEPT ![r].kind = "written"]
  /\ UNCHANGED <<target, runs, saved, lock, route, agent, session, tree, edit, reboots,
                 fails>>

\* git apply answers: applied, or an error that leaves the outcome uncertain.
ApplyEnds(r) ==
  /\ op[r].kind = "written" /\ IsCurrent(r)
  /\ \E status \in {"applied", "applyUncertain"} : Transition(r, status, NoOp)
  /\ UNCHANGED <<target, route, agent, session, tree, edit, applies, reboots>>

\* A mutant: the rename comes before the decision is written.
DiscardRenames(r) ==
  /\ MayOperate(r) /\ runs.rec[r].review.status = "available"
  /\ Transition(r, "discarding", [NoOp EXCEPT !.kind = "decided", !.current = TRUE])
  /\ tree' = [tree EXCEPT ![r] = "archived"]
  /\ UNCHANGED <<target, route, agent, session, edit, applies, reboots>>

\* POST discard: the user confirmed the current view; the decision is written.  He
\* cannot have seen a review that is only now made available: that is a conflict.
DiscardDecides(r) ==
  /\ MayOperate(r)
  /\ IF runs.rec[r].review.status = "none"
     THEN Ensure(r, NoOp) /\ UNCHANGED lock
     ELSE Transition(r, "discarding", [NoOp EXCEPT !.kind = "decided", !.current = TRUE])
  /\ UNCHANGED <<target, route, agent, session, tree, edit, applies, reboots>>

\* Validated once more, the tree is renamed.
Rename(r) ==
  /\ op[r].kind = "decided" /\ IsCurrent(r)
  /\ tree' = [tree EXCEPT ![r] = "archived"]
  /\ op' = [op EXCEPT ![r].kind = "archived"]
  /\ UNCHANGED <<target, runs, saved, lock, route, agent, session, edit, applies,
                 reboots, fails>>

\* The rename failed: available again when the tree still proves ownership.
RenameFails(r) ==
  /\ op[r].kind = "decided" /\ IsCurrent(r)
  /\ \E status \in {"available", "discardUncertain"} : Transition(r, status, NoOp)
  /\ UNCHANGED <<target, route, agent, session, tree, edit, applies, reboots>>

\* The archived entry is validated and the registration pruned.
DiscardEnds(r) ==
  /\ op[r].kind = "archived" /\ IsCurrent(r)
  /\ \E status \in {"discarded", "discardUncertain"} : Transition(r, status, NoOp)
  /\ UNCHANGED <<target, route, agent, session, tree, edit, applies, reboots>>

\* Someone changes the worktree: the run's agents, one that survived, or the user.
Edit(r) ==
  /\ tree[r] = "there" /\ edit[r] < MaxEdits
  /\ edit' = [edit EXCEPT ![r] = @ + 1]
  /\ UNCHANGED <<target, runs, saved, lock, route, agent, session, tree, op, applies,
                 reboots, fails>>

-----------------------------------------------------------------------------
(* Restart and recovery.                                                   *)

\* A review operation that was interrupted has an uncertain outcome.
RecoveredReview(review) ==
  CASE review.status = "applying" -> [review EXCEPT !.status = "applyUncertain"]
    [] review.status = "discarding" -> [review EXCEPT !.status = "discardUncertain"]
    [] OTHER -> review

\* loadAndRecover.
RecoveredRecords(m) ==
  [m EXCEPT !.rec = [r \in Runs |->
     IF ~Has(m, r) THEN Absent
     ELSE [m.rec[r] EXCEPT
             !.status = IF @ \in {"running", "stopping"} THEN "interrupted" ELSE @,
             !.review = RecoveredReview(@)]]]

Interrupted(m) ==
  {r \in Runs : /\ Has(m, r) /\ m.rec[r].status = "interrupted" /\ ~m.rec[r].acked
                /\ target[r] = "currentCheckout"}

\* A mutant: no lock is seeded.
NothingSeeded(m) == lock' = NoLock

\* recoveryCheckoutLocks: the last interrupted run in the map names the lock.
SeedLock(m) ==
  \/ Interrupted(m) = {} /\ lock' = NoLock
  \/ \E r \in Interrupted(m) :
       /\ \A s \in Interrupted(m) : s = r \/ <<s, r>> \in m.older
       /\ lock' = [owner |-> r, kind |-> "recovery"]

\* The server dies and boots: records recovered and written, locks seeded, and the
\* parent sessions of unreconciled runs destroyed (onReady), each or not.  A busy
\* agent dies with the server or outlives it.
RebootServer ==
  /\ reboots < MaxReboots
  /\ reboots' = reboots + 1
  /\ \E survivors \in SUBSET {r \in Runs : agent[r] # "none"} :
       agent' = [r \in Runs |-> IF r \in survivors THEN "orphan" ELSE "none"]
  /\ LET m == RecoveredRecords(saved) IN
     /\ SeedLock(m)
     /\ \E closed \in SUBSET {r \in Runs : Has(m, r) /\ ~m.rec[r].reconciled} :
          /\ SaveAll(Reconciled(m, closed))
          /\ session' = [r \in Runs |-> IF r \in closed \/ session[r] = "made" THEN "gone"
                                       ELSE session[r]]
  /\ route' = [r \in Runs |-> IF route[r] = "none" THEN "none" ELSE "done"]
  /\ op' = [r \in Runs |-> NoOp]
  /\ UNCHANGED <<target, tree, edit, applies, fails>>

OrphanDies(r) ==
  /\ agent[r] = "orphan"
  /\ agent' = [agent EXCEPT ![r] = "none"]
  /\ UNCHANGED <<target, runs, saved, lock, route, session, tree, edit, op, applies,
                 reboots, fails>>

\* POST acknowledge, by a user who ensured that no old agent remains, as the
\* refusal of a launch asks.
Acknowledge(r) ==
  /\ Has(runs, r) /\ runs.rec[r].status = "interrupted" /\ target[r] = "currentCheckout"
  /\ ~runs.rec[r].acked
  /\ \A s \in Runs : target[s] = "currentCheckout" => agent[s] # "orphan"
  /\ SaveAll([runs EXCEPT !.rec[r].acked = TRUE])
  /\ lock' = IF lock = [owner |-> r, kind |-> "recovery"] THEN NoLock ELSE lock
  /\ UNCHANGED <<target, route, agent, session, tree, edit, op, applies, reboots, fails>>

CheckoutNext ==
  \/ \E r \in Runs :
       \/ Launch(r) \/ WorktreeMade(r) \/ WorktreeFails(r)
       \/ \E announced \in BOOLEAN : StartRun(r, announced)
       \/ SessionFails(r) \/ RunEnds(r) \/ StopRun(r) \/ Rollback(r) \/ RollbackFails(r)
       \/ LaunchFails(r)
       \/ \E ok \in BOOLEAN : Close(r, ok)
       \/ ReviewBegins(r) \/ ReviewPatch(r) \/ OperationRefused(r)
       \/ \E current \in BOOLEAN, shown \in NoHash .. MaxEdits : ApplyLocks(r, current, shown)
       \/ ApplyDecides(r) \/ ApplyCheckFails(r)
       \/ GitApplies(r) \/ ApplyEnds(r)
       \/ DiscardDecides(r) \/ Rename(r) \/ RenameFails(r) \/ DiscardEnds(r)
       \/ Edit(r) \/ OrphanDies(r) \/ Acknowledge(r)
  \/ RebootServer

CheckoutSpec == CheckoutInit /\ [][CheckoutNext]_checkoutVars

RouteStep(r) ==
  \/ WorktreeMade(r) \/ WorktreeFails(r) \/ SessionFails(r) \/ Rollback(r)
  \/ RollbackFails(r) \/ LaunchFails(r)
  \/ \E announced \in BOOLEAN : StartRun(r, announced)
  \/ \E ok \in BOOLEAN : Close(r, ok)
OperationStep(r) ==
  \/ ReviewPatch(r) \/ OperationRefused(r) \/ ApplyDecides(r) \/ ApplyCheckFails(r)
  \/ GitApplies(r) \/ ApplyEnds(r) \/ Rename(r) \/ RenameFails(r) \/ DiscardEnds(r)

\* What a handler awaits (git, pi, the file system) answers, one way or the other;
\* a run that was told to stop ends (LoopRun!StopEnds).
CheckoutFairness ==
  \A r \in Runs :
    /\ WF_checkoutVars(RouteStep(r)) /\ WF_checkoutVars(OperationStep(r))
    /\ WF_checkoutVars(Has(runs, r) /\ runs.rec[r].status = "stopping" /\ RunEnds(r))

CheckoutFairSpec == CheckoutSpec /\ CheckoutFairness

-----------------------------------------------------------------------------
(* Properties.                                                             *)

CheckoutWriters ==
  {r \in Runs : target[r] = "currentCheckout" /\ agent[r] # "none"}
    \cup {r \in Runs : op[r].kind \in {"checking", "written"}}

\* The trust-boundary lock: a destructive run, an agent of one that survived a
\* restart, and a git apply never write to the project's checkout together.
OneWriterPerCheckout == Cardinality(CheckoutWriters) <= 1

\* What is written to the checkout is the patch the confirming user was shown,
\* though the worktree, the review and the record may have changed since; and it is
\* written once, an apply cut short by a restart included.
AppliedAsReviewed ==
  \A r \in Runs : /\ op[r].kind = "written" => op[r].patch = op[r].shown
                  /\ applies[r] <= 1

TreeFits(r, status) ==
  /\ status \in {"available", "applying", "applied", "applyUncertain"} => tree[r] = "there"
  /\ status = "discarded" => tree[r] = "archived"

\* What a record says of its worktree is true on disk, also of the record a
\* restart would find now.
ReviewMatchesTree ==
  \A r \in Runs : \A m \in {runs, saved} : Has(m, r) => TreeFits(r, m.rec[r].review.status)

\* A parent session that was made known is destroyed in the end: until it is, its
\* handler is at work or a durable record asks the next boot to do it.
ParentIsRemembered ==
  \A r \in Runs : session[r] = "announced" =>
    route[r] = "live" \/ (Has(saved, r) /\ ~saved.rec[r].reconciled)

\* "Interrupted destructive checkouts stay locked until explicit acknowledgement."
\* (recoveryCheckoutLocks.)  It fails once the interrupted run is evicted.
UnlockedOnlyByAcknowledgement ==
  [][\A r \in Runs :
       lock = [owner |-> r, kind |-> "recovery"] /\ lock' # lock =>
         Has(runs', r) /\ runs'.rec[r].acked]_checkoutVars

Holds(r) ==
  /\ lock # NoLock /\ lock.owner = r /\ lock.kind # "recovery"
  /\ route[r] # "stranded"
  /\ agent[r] = "busy" => runs.rec[r].status = "stopping"

\* A lock is not leaked: again and again it is free or its run is still at work, for
\* the handler that took it gives it back, whichever way each step of it goes, but for
\* a rollback whose own write fails.
LocksAreReleased == []<>(\A r \in Runs : ~Holds(r))
=============================================================================
