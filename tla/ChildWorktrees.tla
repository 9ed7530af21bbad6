--------------------------- MODULE ChildWorktrees ---------------------------
(***************************************************************************)
(* Child agents with checkouts of their own: the durable run records of    *)
(* apps/server/src/subagentRunStore.ts, the launches of                    *)
(* services/sessionManager.ts (runChildAgent) that reserve, add and        *)
(* register a detached worktree, and the cleanups of a parent session's    *)
(* children, for its deletion or after its branch was merged.              *)
(*                                                                         *)
(* One parent session.  A commit of the store replaces the whole file; it  *)
(* may throw before the rename ("lost") or after it ("kept").  Environment:*)
(* git, whose prune drops every registration without a directory, and the  *)
(* children, which may leave work.  The server may die between any two     *)
(* steps.                                                                  *)
(***************************************************************************)
EXTENDS Naturals, FiniteSets

CONSTANTS Children, MaxCrashes, MaxFaults   \* the last two bound the environment

VARIABLES
  rec,      \* SubagentRunStore.state: the run records
  leaf,     \* environment: the directory under session-worktrees
  reg,      \* environment: git knows a detached worktree at that path
  dirty,    \* environment: it holds commits or files of the child's
  launch,   \* where each runChildAgent is
  parent,   \* the parent session
  claim,    \* deletedParents of the parent
  clean,    \* cleanupParentRecords under way
  crashes, faults   \* bounds

childVars == <<rec, leaf, reg, dirty, launch, parent, claim, clean, crashes, faults>>

\* No record: "none"; a record: is it starting or running, and its worktree fields.
NoRecord == [known |-> FALSE, active |-> FALSE, wt |-> "none", removed |-> FALSE]

CleanStages == {"waiting", "promoting", "checking", "sweeping", "deleted", "marked", "ending",
           "forgotten"}
NoClean == [stage |-> "idle", mode |-> "delete", await |-> {}, todo |-> {},
         at |-> {}, unsafe |-> FALSE]

\* prepareWorktree has not answered: the launch is in inFlightWorktrees.
Allocating == {"source", "adding", "gitAdd", "added", "undoing", "pruning"}

\* Types.
ChildTypeOK ==
  /\ rec \in [Children -> [known : BOOLEAN, active : BOOLEAN, removed : BOOLEAN,
                           wt : {"none", "reserved", "registered"}]]
  /\ leaf \in [Children -> {"none", "empty", "checkout"}]
  /\ reg \in [Children -> BOOLEAN] /\ dirty \in [Children -> BOOLEAN]
  /\ launch \in [Children -> {"none", "asked", "allocated", "child", "failed", "ended"}
                              \cup Allocating]
  /\ parent \in {"live", "stopped", "merged", "deleted"}
  /\ claim \in {"none", "cleaning", "deleted"}
  /\ clean \in [stage : CleanStages \cup {"idle"}, mode : {"delete", "merge"},
                await : SUBSET Children, todo : SUBSET Children, at : SUBSET Children,
                unsafe : BOOLEAN]

ChildInit ==
  /\ rec = [c \in Children |-> NoRecord]
  /\ leaf = [c \in Children |-> "none"]
  /\ reg = [c \in Children |-> FALSE] /\ dirty = [c \in Children |-> FALSE]
  /\ launch = [c \in Children |-> "none"]
  /\ parent = "live" /\ claim = "none" /\ clean = NoClean
  /\ crashes = 0 /\ faults = 0

-----------------------------------------------------------------------------
(* The store.                                                              *)

\* commit: written, thrown before the rename, or thrown after it.
Commit(new, outcome) ==
  /\ rec' = IF outcome = "lost" THEN rec ELSE new
  /\ outcome # "ok" => faults < MaxFaults
  /\ faults' = IF outcome = "ok" THEN faults ELSE faults + 1

\* update of one record, which throws when there is none.
Update(c, new, outcome) ==
  IF rec[c].known THEN Commit([rec EXCEPT ![c] = new], outcome)
  ELSE outcome = "lost" /\ UNCHANGED <<rec, faults>>

Outcomes == {"ok", "lost", "kept"}

\* A git or file operation that fails.
Fault == faults < MaxFaults /\ faults' = faults + 1

GoTo(c, stage) == launch' = [launch EXCEPT ![c] = stage]

\* gitWorktreePrune: registrations without a directory go.
Pruned == [c \in Children |-> reg[c] /\ leaf[c] # "none"]

WithoutWorktree(r) == [r EXCEPT !.wt = "none", !.removed = FALSE]

-----------------------------------------------------------------------------
(* A launch.                                                               *)

\* create: refused while the parent is claimed.
Create(c, outcome) ==
  /\ launch[c] = "none" /\ parent = "live" /\ claim = "none"
  /\ Commit([rec EXCEPT ![c] = [NoRecord EXCEPT !.known = TRUE, !.active = TRUE]], outcome)
  /\ GoTo(c, IF outcome = "ok" THEN "asked" ELSE "failed")
  /\ UNCHANGED <<leaf, reg, dirty, parent, claim, clean, crashes>>

\* prepareWorktree begins, in inFlightWorktrees from here on.
Allocate(c) ==
  /\ launch[c] = "asked"
  /\ GoTo(c, IF claim = "none" THEN "source" ELSE "failed")
  /\ UNCHANGED <<rec, leaf, reg, dirty, parent, claim, clean, crashes, faults>>

\* The source is proven: the leaf is reserved, then its ownership is committed; the
\* rollback of a failed commit removes the leaf.
Reserve(c, outcome) ==
  /\ launch[c] = "source"
  /\ leaf' = [leaf EXCEPT ![c] = "empty"]
  /\ Update(c, [rec[c] EXCEPT !.wt = "reserved"], outcome)
  /\ GoTo(c, IF outcome = "ok" THEN "adding" ELSE "undoing")
  /\ UNCHANGED <<reg, dirty, parent, claim, clean, crashes>>

\* The source is no repository.
SourceFails(c) ==
  /\ launch[c] = "source" /\ Fault /\ GoTo(c, "failed")
  /\ UNCHANGED <<rec, leaf, reg, dirty, parent, claim, clean, crashes>>

\* The source proven once more, the claim tested: git worktree add starts.
StartAdd(c) ==
  /\ launch[c] = "adding"
  /\ GoTo(c, IF claim = "none" THEN "gitAdd" ELSE "undoing")
  /\ UNCHANGED <<rec, leaf, reg, dirty, parent, claim, clean, crashes, faults>>

\* git worktree add ends, and its result is verified.
GitAdds(c) ==
  /\ launch[c] = "gitAdd"
  /\ \/ /\ leaf' = [leaf EXCEPT ![c] = "checkout"] /\ reg' = [reg EXCEPT ![c] = TRUE]
        /\ GoTo(c, "added") /\ UNCHANGED faults
     \/ Fault /\ GoTo(c, "undoing") /\ UNCHANGED <<leaf, reg>>
  /\ UNCHANGED <<rec, dirty, parent, claim, clean, crashes>>

\* The claim is tested again, and the registered state committed.
Register(c, outcome) ==
  /\ launch[c] = "added"
  /\ IF claim = "none"
     THEN /\ Update(c, [rec[c] EXCEPT !.wt = "registered"], outcome)
          /\ GoTo(c, IF outcome = "ok" THEN "allocated" ELSE "undoing")
     ELSE outcome = "ok" /\ GoTo(c, "undoing") /\ UNCHANGED <<rec, faults>>
  /\ UNCHANGED <<leaf, reg, dirty, parent, claim, clean, crashes>>

\* The allocation failed: the leaf goes, then the removal is committed.
UndoRemoves(c, outcome) ==
  /\ launch[c] = "undoing"
  /\ leaf' = [leaf EXCEPT ![c] = "none"]
  /\ IF rec[c].known /\ rec[c].wt = "none"
     THEN outcome = "ok" /\ GoTo(c, "failed") /\ UNCHANGED <<rec, faults>>
     ELSE /\ Update(c, [rec[c] EXCEPT !.removed = TRUE], outcome)
          /\ GoTo(c, IF outcome = "ok" THEN "pruning" ELSE "failed")
  /\ UNCHANGED <<reg, dirty, parent, claim, clean, crashes>>

\* A mutant: the record is cleared though the undo did not remove the leaf.
UndoForgets(c) ==
  /\ launch[c] = "undoing" /\ Fault /\ GoTo(c, "failed")
  /\ rec' = [rec EXCEPT ![c] = WithoutWorktree(@)]
  /\ UNCHANGED <<leaf, reg, dirty, parent, claim, clean, crashes>>

\* A mutant: the removal is recorded before it is done.
UndoMarks(c) ==
  /\ launch[c] = "undoing" /\ Fault /\ GoTo(c, "failed")
  /\ rec' = [rec EXCEPT ![c].removed = rec[c].wt # "none"]
  /\ UNCHANGED <<leaf, reg, dirty, parent, claim, clean, crashes>>

\* The undo fails before it removes: the record keeps what it says.
UndoFails(c) ==
  /\ launch[c] = "undoing" /\ Fault /\ GoTo(c, "failed")
  /\ UNCHANGED <<rec, leaf, reg, dirty, parent, claim, clean, crashes>>

\* git prunes, and the record's fields are cleared; either may fail.
UndoPrunes(c, outcome) ==
  /\ launch[c] = "pruning"
  /\ \/ reg' = Pruned /\ Update(c, WithoutWorktree(rec[c]), outcome)
     \/ outcome = "lost" /\ Fault /\ UNCHANGED <<rec, reg>>
  /\ GoTo(c, "failed")
  /\ UNCHANGED <<leaf, dirty, parent, claim, clean, crashes>>

\* validateWorktreeForSpawn, then pi starts in the checkout.  A launch of a stopped
\* parent is interrupted instead.
Spawn(c) ==
  /\ launch[c] = "allocated" /\ parent = "live"
  /\ rec[c].wt = "registered" /\ ~rec[c].removed /\ leaf[c] = "checkout" /\ reg[c]
  /\ GoTo(c, "child")
  /\ UNCHANGED <<rec, leaf, reg, dirty, parent, claim, clean, crashes, faults>>

\* The child changes files or commits.
Work(c) ==
  /\ launch[c] = "child"
  /\ dirty' = [dirty EXCEPT ![c] = TRUE]
  /\ UNCHANGED <<rec, leaf, reg, launch, parent, claim, clean, crashes, faults>>

\* The child's process ended, or the launch failed or was interrupted: the terminal
\* status is committed.  A lost one is corrected by the next boot.
EndLaunch(c, outcome) ==
  /\ launch[c] \in {"child", "allocated", "failed"}
  /\ Update(c, [rec[c] EXCEPT !.active = FALSE], outcome)
  /\ GoTo(c, "ended")
  /\ UNCHANGED <<leaf, reg, dirty, parent, claim, clean, crashes>>

-----------------------------------------------------------------------------
(* Cleanup.                                                                *)

\* destroy: the session's process and the scopes of its children end first.
StopParent ==
  /\ parent = "live" /\ parent' = "stopped"
  /\ UNCHANGED <<rec, leaf, reg, dirty, launch, claim, clean, crashes, faults>>

\* A session whose deletion failed is resumed.
ResumeParent ==
  /\ parent = "stopped" /\ claim = "none" /\ parent' = "live"
  /\ UNCHANGED <<rec, leaf, reg, dirty, launch, claim, clean, crashes, faults>>

Unsafe(c) == dirty[c] \/ rec[c].active

\* "Caller must first stop the parent and settle all child scopes"; but a deletion
\* defends itself against allocations that are still under way.
MayClean(mode) ==
  /\ parent \in {"stopped", "merged"}
  /\ \A c \in Children : launch[c] \notin {"child", "allocated"}
  /\ mode = "merge" => parent = "stopped" /\ \A c \in Children : launch[c] \in {"none", "ended"}

\* A mutant: allocations under way are not waited for.
BeginCleanAtOnce(mode) ==
  /\ clean.stage = "idle" /\ claim = "none"
  /\ MayClean(mode)
  /\ claim' = "cleaning"
  /\ clean' = [NoClean EXCEPT !.stage = "waiting", !.mode = mode]
  /\ UNCHANGED <<rec, leaf, reg, dirty, launch, parent, crashes, faults>>

\* cleanupParent: the claim comes first, then the wait.
BeginClean(mode) ==
  /\ clean.stage = "idle" /\ claim = "none"
  /\ MayClean(mode)
  /\ claim' = "cleaning"
  /\ clean' = [NoClean EXCEPT !.stage = "waiting", !.mode = mode,
                           !.await = {c \in Children : launch[c] \in Allocating}]
  /\ UNCHANGED <<rec, leaf, reg, dirty, launch, parent, crashes, faults>>

WithWorktree == {c \in Children : rec[c].known /\ rec[c].wt # "none"}

\* The allocations have settled: the children to clean are those with a worktree.
\* (unsafe is a history: had one of them something to lose.)
AllocationsSettle ==
  /\ clean.stage = "waiting"
  /\ \A c \in clean.await : launch[c] \notin Allocating
  /\ clean' = [clean EXCEPT !.stage = "promoting", !.await = {}, !.todo = WithWorktree,
                            !.at = WithWorktree, !.unsafe = \E c \in WithWorktree : Unsafe(c)]
  /\ UNCHANGED <<rec, leaf, reg, dirty, launch, parent, claim, crashes, faults>>

\* Reserved, and git has it: git worktree add won a crash.
NeedsPromotion(c) == rec[c].wt = "reserved" /\ ~rec[c].removed /\ reg[c]

Promote(c) ==
  /\ clean.stage = "promoting" /\ c \in clean.todo
  /\ NeedsPromotion(c) => leaf[c] = "checkout"
  /\ rec' = IF NeedsPromotion(c) THEN [rec EXCEPT ![c].wt = "registered"] ELSE rec
  /\ clean' = [clean EXCEPT !.todo = @ \ {c}]
  /\ UNCHANGED <<leaf, reg, dirty, launch, parent, claim, crashes, faults>>

StartChecks ==
  /\ clean.stage = "promoting" /\ clean.todo = {}
  /\ clean' = [clean EXCEPT !.stage = "checking", !.todo = clean.at]
  /\ UNCHANGED <<rec, leaf, reg, dirty, launch, parent, claim, crashes, faults>>

\* assertDiscardable: a merge discards no active child and no unmerged work.
Discardable(c) ==
  clean.mode = "merge" => ~rec[c].active /\ (rec[c].removed \/ ~reg[c] \/ (leaf[c] = "checkout" /\ ~dirty[c]))

ReservationOnly(c) == rec[c].wt = "reserved"

\* The proofs of the first phase, of one record.
Proven(c) ==
  /\ ReservationOnly(c) => ~reg[c]
  /\ rec[c].removed => leaf[c] = "none"
  /\ ~ReservationOnly(c) /\ ~rec[c].removed => reg[c]

\* A mutant: what cannot be discarded is not looked for among the siblings.
CheckProofOnly(c) ==
  /\ clean.stage = "checking" /\ c \in clean.todo /\ Proven(c)
  /\ clean' = [clean EXCEPT !.todo = @ \ {c}]
  /\ UNCHANGED <<rec, leaf, reg, dirty, launch, parent, claim, crashes, faults>>

\* The first phase, read-only: every child passes before one is touched.
Check(c) ==
  /\ clean.stage = "checking" /\ c \in clean.todo
  /\ Discardable(c) /\ Proven(c)
  /\ clean' = [clean EXCEPT !.todo = @ \ {c}]
  /\ UNCHANGED <<rec, leaf, reg, dirty, launch, parent, claim, crashes, faults>>

StartSweep ==
  /\ clean.stage = "checking" /\ clean.todo = {}
  /\ clean' = [clean EXCEPT !.stage = "sweeping", !.todo = clean.at, !.at = {}]
  /\ UNCHANGED <<rec, leaf, reg, dirty, launch, parent, claim, crashes, faults>>

\* The second phase, one child at a time: proven again, its directory goes.
SweepDeletes(c) ==
  /\ clean.stage = "sweeping" /\ c \in clean.todo
  /\ Discardable(c) /\ Proven(c)
  /\ leaf' = [leaf EXCEPT ![c] = "none"]
  /\ clean' = [clean EXCEPT !.stage = IF rec[c].removed THEN "marked" ELSE "deleted",
                            !.at = {c}, !.todo = @ \ {c}]
  /\ dirty' = [dirty EXCEPT ![c] = FALSE]
  /\ UNCHANGED <<rec, reg, launch, parent, claim, crashes, faults>>

\* The removal is committed.
SweepMarks(c) ==
  /\ clean.stage = "deleted" /\ c \in clean.at
  /\ rec' = [rec EXCEPT ![c].removed = TRUE]
  /\ clean' = [clean EXCEPT !.stage = "marked"]
  /\ UNCHANGED <<leaf, reg, dirty, launch, parent, claim, crashes, faults>>

\* git prunes; the next child, or the end.
SweepPrunes ==
  /\ clean.stage = "marked" \/ (clean.stage = "sweeping" /\ clean.todo = {})
  /\ reg' = IF clean.stage = "marked" THEN Pruned ELSE reg
  /\ clean' = [clean EXCEPT !.stage = IF clean.todo = {} THEN "ending" ELSE "sweeping",
                            !.at = {}]
  /\ UNCHANGED <<rec, leaf, dirty, launch, parent, claim, crashes, faults>>

\* A merge forgets the worktrees in one commit ...
ForgetWorktrees ==
  /\ clean.stage = "ending" /\ clean.mode = "merge"
  /\ rec' = [c \in Children |-> IF rec[c].removed THEN WithoutWorktree(rec[c]) ELSE rec[c]]
  /\ clean' = [clean EXCEPT !.stage = "forgotten"]
  /\ UNCHANGED <<leaf, reg, dirty, launch, parent, claim, crashes, faults>>

\* ... before its caller removes the parent's own checkout, which proves them.
EndMerge ==
  /\ clean.stage = "forgotten"
  /\ claim' = "none" /\ clean' = NoClean
  /\ parent' = "merged"
  /\ UNCHANGED <<rec, leaf, reg, dirty, launch, crashes, faults>>

\* A deletion removes the records, one commit each, and the session's own row; then
\* its owner keeps the claim for good.
EndDeletion ==
  /\ clean.stage = "ending" /\ clean.mode = "delete"
  /\ IF \E c \in Children : rec[c].known
     THEN /\ \E c \in Children : rec[c].known /\ rec' = [rec EXCEPT ![c] = NoRecord]
          /\ UNCHANGED <<claim, clean, parent>>
     ELSE claim' = "deleted" /\ parent' = "deleted" /\ clean' = NoClean /\ UNCHANGED rec
  /\ UNCHANGED <<leaf, reg, dirty, launch, crashes, faults>>

\* The proofs of a child the cleanup is at fail.
ProofFails ==
  \/ /\ clean.stage = "promoting"
     /\ \E c \in clean.todo : NeedsPromotion(c) /\ leaf[c] # "checkout"
  \/ /\ clean.stage \in {"checking", "sweeping"}
     /\ \E c \in clean.todo : ~(Discardable(c) /\ Proven(c))

\* A proof, a git operation or a commit fails: the cleanup throws, its claim is
\* released, and what the records prove stays for a retry.
AbortClean ==
  /\ clean.stage # "idle"
  /\ (ProofFails /\ UNCHANGED faults) \/ Fault
  /\ claim' = "none" /\ clean' = NoClean
  /\ UNCHANGED <<rec, leaf, reg, dirty, launch, parent, crashes>>

-----------------------------------------------------------------------------
(* The rest of the world.                                                  *)

\* Another session of the repository prunes.
PruneElsewhere ==
  /\ reg # Pruned /\ reg' = Pruned
  /\ UNCHANGED <<rec, leaf, dirty, launch, parent, claim, clean, crashes, faults>>

\* The server dies and boots: claims are forgotten, interruptActiveRuns.
Reboot ==
  /\ crashes < MaxCrashes /\ crashes' = crashes + 1
  /\ rec' = [c \in Children |-> [rec[c] EXCEPT !.active = FALSE]]
  /\ launch' = [c \in Children |-> IF launch[c] = "none" THEN "none" ELSE "ended"]
  /\ parent' = IF parent = "live" THEN "stopped" ELSE parent
  /\ claim' = "none" /\ clean' = NoClean
  /\ UNCHANGED <<leaf, reg, dirty, faults>>

LaunchStep(c) ==
  \/ Allocate(c) \/ SourceFails(c) \/ StartAdd(c) \/ GitAdds(c) \/ UndoFails(c) \/ Spawn(c)
  \/ \E outcome \in Outcomes :
       \/ Reserve(c, outcome) \/ Register(c, outcome) \/ UndoRemoves(c, outcome)
       \/ UndoPrunes(c, outcome) \/ EndLaunch(c, outcome)

CleanStep ==
  \/ AllocationsSettle \/ StartChecks \/ StartSweep \/ SweepPrunes \/ ForgetWorktrees \/ EndMerge
  \/ EndDeletion \/ AbortClean
  \/ \E c \in Children :
       Promote(c) \/ Check(c) \/ SweepDeletes(c) \/ SweepMarks(c)

ChildNext ==
  \/ \E c \in Children :
       (\E outcome \in Outcomes : Create(c, outcome)) \/ LaunchStep(c) \/ Work(c)
  \/ StopParent \/ ResumeParent
  \/ \E mode \in {"merge", "delete"} : BeginClean(mode)
  \/ CleanStep \/ PruneElsewhere \/ Reboot

ChildSpec == ChildInit /\ [][ChildNext]_childVars

-----------------------------------------------------------------------------
(* Properties.                                                             *)

\* "Ownership is persisted before Git writes into the reserved leaf": whatever
\* fails, dies or is cleaned up, a checkout and its registration are named by a
\* durable record of their child.
CheckoutIsOwned ==
  \A c \in Children : leaf[c] = "checkout" \/ reg[c] => rec[c].known /\ rec[c].wt # "none"

\* A cleanup that succeeded left nothing behind: no checkout of a session that is
\* deleted, or whose own checkout (the proof anchor) was removed after a merge, and
\* no allocation that would bring one back.
CleanupLeavesNothing ==
  parent \in {"merged", "deleted"} =>
    \A c \in Children : ~reg[c] /\ leaf[c] # "checkout" /\ launch[c] \notin {"gitAdd", "allocated"}

\* "A later unsafe child cannot remove an earlier sibling's worktree": a merge removes
\* no directory when any child had unmerged work, or was active, as it looked.
SiblingsStandTogether ==
  [][clean.stage = "sweeping" /\ clean.mode = "merge" /\ leaf' # leaf => ~clean.unsafe]_childVars

\* What an ended launch or a failed cleanup retained passes the proofs of a deletion,
\* so that no directory stays for good.  (A record without one may get stuck: reserved,
\* marked removed and not pruned; or registered, unmarked and pruned by another.)
DirectoriesAreRetryable ==
  clean.stage = "idle" =>
    \A c \in WithWorktree : launch[c] = "ended" /\ leaf[c] # "none" =>
      IF NeedsPromotion(c) THEN leaf[c] = "checkout" ELSE Proven(c)
=============================================================================
