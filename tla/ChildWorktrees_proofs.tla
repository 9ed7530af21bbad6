----------------------- MODULE ChildWorktrees_proofs ------------------------
(***************************************************************************)
(* Proofs about ChildWorktrees, for every set of children and any number   *)
(* of crashes and failures.                                               *)
(***************************************************************************)
EXTENDS ChildWorktrees, TLAPS

\* Where a launch is says what of its worktree exists.
LaunchesAgree ==
  \A c \in Children :
    /\ launch[c] \in {"none", "asked", "source"} =>
         leaf[c] = "none" /\ ~reg[c] /\ rec[c].wt = "none" /\ ~dirty[c]
    /\ launch[c] \in {"adding", "gitAdd"} =>
         leaf[c] = "empty" /\ ~reg[c] /\ rec[c].wt = "reserved" /\ ~rec[c].removed
    /\ launch[c] = "added" =>
         leaf[c] = "checkout" /\ reg[c] /\ rec[c].wt = "reserved" /\ ~rec[c].removed
    /\ launch[c] = "pruning" => leaf[c] = "none"
    /\ launch[c] = "child" => leaf[c] = "checkout" /\ rec[c].wt = "registered"
    /\ dirty[c] => launch[c] \in {"child", "ended"}

\* A record says the truth of its directory, and owns it.
RecordsAgree ==
  \A c \in Children :
    /\ rec[c].wt # "none" => rec[c].known
    /\ rec[c].removed => rec[c].wt # "none" /\ leaf[c] = "none"
    /\ leaf[c] = "empty" => ~reg[c] /\ rec[c].wt # "registered"
    /\ leaf[c] = "checkout" => reg[c]
    /\ reg[c] => rec[c].wt # "none"
    /\ dirty[c] => leaf[c] = "checkout" /\ rec[c].wt = "registered"

Sweeping == {"sweeping", "deleted", "marked", "ending", "forgotten"}
Settled == {"promoting", "checking"} \cup Sweeping

\* The claim is the cleanup's, and its sets are the worktrees there are.
CleanAgrees ==
  /\ clean.stage # "idle" <=> claim = "cleaning"
  /\ clean.stage # "idle" => parent \in {"stopped", "merged"}
  /\ clean.stage \in {"promoting", "checking"} => clean.at = WithWorktree /\ clean.todo \subseteq clean.at
  /\ clean.stage \in Sweeping =>
       clean.todo \subseteq WithWorktree /\ clean.at \subseteq WithWorktree
  /\ clean.stage \in {"sweeping", "ending", "forgotten"} => clean.at = {}
  /\ clean.stage \in {"ending", "forgotten"} => clean.todo = {}
  /\ clean.stage = "forgotten" => clean.mode = "merge"

\* No launch is under way where a cleanup, or a claim kept for good, is at work.
LaunchesYield ==
  \A c \in Children :
    /\ claim # "none" => launch[c] \notin {"child", "allocated"}
    /\ clean.stage = "waiting" => (launch[c] \in Allocating => c \in clean.await)
    /\ clean.stage \in Settled \/ claim = "deleted" => launch[c] \notin Allocating
    /\ clean.stage # "idle" /\ clean.mode = "merge" => launch[c] \in {"none", "ended"}
    /\ parent = "merged" \/ (parent = "deleted" /\ claim # "deleted") =>
         launch[c] \in {"none", "ended"}

\* What the second phase has passed is gone, and so is what a finished cleanup passed.
SweptAway ==
  \A c \in Children :
    /\ clean.stage \in Sweeping /\ rec[c].wt # "none" /\ c \notin clean.todo \cup clean.at =>
         leaf[c] = "none" /\ ~reg[c]
    /\ clean.stage \in {"deleted", "marked"} /\ c \in clean.at => leaf[c] = "none"
    /\ parent \in {"merged", "deleted"} => leaf[c] # "checkout" /\ ~reg[c]

\* A merge goes on to its second phase only when no child had something to lose.
MergeChecked ==
  clean.mode = "merge" /\ clean.unsafe =>
    /\ clean.stage \notin Sweeping
    /\ clean.stage = "promoting" => \E c \in clean.at : Unsafe(c)
    /\ clean.stage = "checking" => \E c \in clean.todo : Unsafe(c)

ParentAgrees == claim = "deleted" => parent = "deleted"

ChildInv ==
  /\ ChildTypeOK
  /\ LaunchesAgree
  /\ RecordsAgree
  /\ CleanAgrees
  /\ LaunchesYield
  /\ SweptAway
  /\ MergeChecked
  /\ ParentAgrees

ChildRecord == [known : BOOLEAN, active : BOOLEAN, removed : BOOLEAN,
              wt : {"none", "reserved", "registered"}]

\* What the fields of a record are.
LEMMA ChildRecordFields ==
  ASSUME NEW r \in ChildRecord
  PROVE  /\ r.known \in BOOLEAN /\ r.active \in BOOLEAN /\ r.removed \in BOOLEAN
         /\ r.wt \in {"none", "reserved", "registered"}
  BY DEF ChildRecord

\* Changing one field of a record leaves a record.
LEMMA FieldChanges ==
  ASSUME NEW r \in ChildRecord, NEW wt \in {"none", "reserved", "registered"},
         NEW b \in BOOLEAN
  PROVE  /\ [r EXCEPT !.wt = wt] \in ChildRecord
         /\ [r EXCEPT !.removed = b] \in ChildRecord
         /\ [r EXCEPT !.active = b] \in ChildRecord
         /\ WithoutWorktree(r) \in ChildRecord
         /\ NoRecord \in ChildRecord
         /\ [NoRecord EXCEPT !.known = TRUE, !.active = TRUE] \in ChildRecord
  BY DEF ChildRecord, WithoutWorktree, NoRecord

\* A commit of the store leaves records, whichever way it goes.
LEMMA UpdateKeepsRecords ==
  ASSUME rec \in [Children -> ChildRecord], NEW c \in Children, NEW new \in ChildRecord,
         NEW outcome, Update(c, new, outcome)
  PROVE  rec' \in [Children -> ChildRecord]
  BY DEF Update, Commit

\* A launch makes its record.
LEMMA CreateChildInv ==
  ASSUME ChildInv, NEW c \in Children, NEW outcome \in Outcomes, Create(c, outcome)
  PROVE  ChildInv'
<1> USE DEF ChildInv, Create, Commit, GoTo, NoRecord
<1>1. ParentAgrees'
  BY DEF ParentAgrees
<1>2. ChildTypeOK'
  <2>1. rec \in [Children -> ChildRecord]
    BY DEF ChildTypeOK, ChildRecord
  <2>2. rec' \in [Children -> ChildRecord]
    BY <2>1, FieldChanges
  <2>3. QED
    BY <2>2 DEF ChildTypeOK, ChildRecord, CleanStages, Allocating
<1>3. LaunchesAgree'
  BY DEF LaunchesAgree
<1>4. RecordsAgree'
  BY DEF RecordsAgree, ChildTypeOK, LaunchesAgree
<1>5. CleanAgrees'
  BY DEF CleanAgrees, WithWorktree, Sweeping
<1>6. LaunchesYield'
  BY DEF LaunchesYield, Settled, Sweeping, Allocating, ChildTypeOK, CleanAgrees,
         WithWorktree
<1>7. SweptAway'
  BY DEF SweptAway, Sweeping
<1>8. MergeChecked'
  BY DEF MergeChecked, Sweeping, Unsafe
<1>9. QED
  BY <1>1, <1>2, <1>3, <1>4, <1>5, <1>6, <1>7, <1>8

\* An allocation begins only while nobody claims the parent.
LEMMA AllocateChildInv == ASSUME ChildInv, NEW c \in Children, Allocate(c) PROVE ChildInv'
<1> USE DEF ChildInv, Allocate, GoTo
<1>1. RecordsAgree' /\ CleanAgrees' /\ SweptAway' /\ MergeChecked' /\ ParentAgrees'
  BY DEF RecordsAgree, CleanAgrees, SweptAway, MergeChecked, ParentAgrees,
         WithWorktree, Sweeping, Unsafe
<1>2. ChildTypeOK'
  BY DEF ChildTypeOK, CleanStages, Allocating
<1>3. LaunchesAgree'
  BY DEF LaunchesAgree
<1>4. LaunchesYield'
  BY DEF LaunchesYield, Settled, Sweeping, Allocating, ChildTypeOK, CleanAgrees,
         WithWorktree
<1>5. QED
  BY <1>1, <1>2, <1>3, <1>4

\* The leaf is reserved, and owned unless the commit is lost.
LEMMA ReserveChildInv ==
  ASSUME ChildInv, NEW c \in Children, NEW outcome \in Outcomes, Reserve(c, outcome)
  PROVE  ChildInv'
<1> USE DEF ChildInv, Reserve, Update, GoTo, Commit
<1>1. ParentAgrees'
  BY DEF ParentAgrees
<1>2. ChildTypeOK'
  BY DEF ChildTypeOK, CleanStages, Allocating
<1>3. LaunchesAgree'
  BY DEF LaunchesAgree, ChildTypeOK, RecordsAgree
<1>4. RecordsAgree'
  <2> SUFFICES ASSUME NEW d \in Children PROVE RecordsAgree!(d)'
    BY DEF RecordsAgree
  <2>1. CASE d = c
    <3>1. leaf'[c] = "empty" /\ ~reg'[c] /\ ~dirty'[c] /\ ~rec[c].removed /\ rec[c].wt = "none"
      BY DEF ChildTypeOK, LaunchesAgree, RecordsAgree
    <3>2. rec'[c] = rec[c] \/ (rec[c].known /\ rec'[c] = [rec[c] EXCEPT !.wt = "reserved"])
      BY DEF ChildTypeOK, Update, Commit
    <3>3. QED
      BY <2>1, <3>1, <3>2 DEF ChildTypeOK
  <2>2. CASE d # c
    <3>1. rec'[d] = rec[d] /\ leaf'[d] = leaf[d]
      BY <2>2 DEF ChildTypeOK, Update, Commit
    <3>2. QED
      BY <3>1 DEF RecordsAgree
  <2>3. QED
    BY <2>1, <2>2
<1>5. CleanAgrees'
  BY DEF CleanAgrees, WithWorktree, Sweeping, ChildTypeOK, LaunchesAgree,
         RecordsAgree, LaunchesYield, Settled, Allocating
<1>6. LaunchesYield'
  BY DEF LaunchesYield, Settled, Sweeping, Allocating
<1>7. SweptAway'
  BY DEF SweptAway, Sweeping, ChildTypeOK, LaunchesAgree, RecordsAgree,
         LaunchesYield, Settled, Allocating
<1>8. MergeChecked'
  BY DEF MergeChecked, Sweeping, Unsafe, ChildTypeOK, LaunchesAgree, RecordsAgree
<1>9. QED
  BY <1>1, <1>2, <1>3, <1>4, <1>5, <1>6, <1>7, <1>8

\* Nothing was reserved.
LEMMA SourceFailsChildInv == ASSUME ChildInv, NEW c \in Children, SourceFails(c) PROVE ChildInv'
<1> USE DEF ChildInv, SourceFails, Fault, GoTo
<1>1. RecordsAgree' /\ CleanAgrees' /\ SweptAway' /\ MergeChecked' /\ ParentAgrees'
  BY DEF RecordsAgree, CleanAgrees, SweptAway, MergeChecked, ParentAgrees,
         WithWorktree, Sweeping, Unsafe
<1>2. ChildTypeOK'
  BY DEF ChildTypeOK, CleanStages, Allocating
<1>3. LaunchesAgree'
  BY DEF LaunchesAgree
<1>4. LaunchesYield'
  BY DEF LaunchesYield, Settled, Sweeping, Allocating
<1>5. QED
  BY <1>1, <1>2, <1>3, <1>4

\* git is asked only for a worktree that is owned.
LEMMA StartAddChildInv == ASSUME ChildInv, NEW c \in Children, StartAdd(c) PROVE ChildInv'
<1> USE DEF ChildInv, StartAdd, GoTo
<1>1. RecordsAgree' /\ CleanAgrees' /\ SweptAway' /\ MergeChecked' /\ ParentAgrees'
  BY DEF RecordsAgree, CleanAgrees, SweptAway, MergeChecked, ParentAgrees,
         WithWorktree, Sweeping, Unsafe
<1>2. ChildTypeOK'
  BY DEF ChildTypeOK, CleanStages, Allocating
<1>3. LaunchesAgree'
  BY DEF LaunchesAgree
<1>4. LaunchesYield'
  BY DEF LaunchesYield, Settled, Sweeping, Allocating
<1>5. QED
  BY <1>1, <1>2, <1>3, <1>4

\* git fills a leaf that a durable record owns.
LEMMA GitAddsChildInv == ASSUME ChildInv, NEW c \in Children, GitAdds(c) PROVE ChildInv'
<1> USE DEF ChildInv, GitAdds, Fault, GoTo
<1>1. CleanAgrees' /\ MergeChecked' /\ ParentAgrees'
  BY DEF CleanAgrees, MergeChecked, ParentAgrees, WithWorktree, Sweeping, Unsafe
<1>2. ChildTypeOK'
  <2>1. reg' \in [Children -> BOOLEAN]
    BY DEF ChildTypeOK
  <2>2. QED
    BY <2>1 DEF ChildTypeOK, ChildRecord, CleanStages, Allocating
<1>3. LaunchesAgree'
  BY DEF LaunchesAgree, ChildTypeOK
<1>4. RecordsAgree'
  BY DEF RecordsAgree, ChildTypeOK, LaunchesAgree
<1>5. LaunchesYield'
  BY DEF LaunchesYield, Settled, Sweeping, Allocating, ChildTypeOK
<1>6. SweptAway'
  BY DEF SweptAway, Sweeping, ChildTypeOK, LaunchesAgree, RecordsAgree,
         LaunchesYield, Settled, Allocating
<1>7. QED
  BY <1>1, <1>2, <1>3, <1>4, <1>5, <1>6

\* The registered state is committed, or the allocation is undone.
LEMMA RegisterChildInv ==
  ASSUME ChildInv, NEW c \in Children, NEW outcome \in Outcomes, Register(c, outcome)
  PROVE  ChildInv'
<1> USE DEF ChildInv, Register, Update, GoTo, Commit
<1>1. ParentAgrees'
  BY DEF ParentAgrees
<1>2. ChildTypeOK'
  <2>1. rec \in [Children -> ChildRecord]
    BY DEF ChildTypeOK, ChildRecord
  <2>2. rec' \in [Children -> ChildRecord]
    BY <2>1, FieldChanges, UpdateKeepsRecords
  <2>3. QED
    BY <2>2 DEF ChildTypeOK, ChildRecord, CleanStages, Allocating
<1>3. LaunchesAgree'
  BY DEF LaunchesAgree, ChildTypeOK
<1>4. RecordsAgree'
  BY DEF RecordsAgree, ChildTypeOK, LaunchesAgree
<1>5. CleanAgrees'
  BY DEF CleanAgrees, WithWorktree, Sweeping
<1>6. LaunchesYield'
  BY DEF LaunchesYield, Settled, Sweeping, Allocating, ChildTypeOK
<1>7. SweptAway'
  BY DEF SweptAway, Sweeping, ChildTypeOK, LaunchesAgree, RecordsAgree
<1>8. MergeChecked'
  BY DEF MergeChecked, Sweeping, Unsafe, ChildTypeOK, LaunchesAgree, RecordsAgree
<1>9. QED
  BY <1>1, <1>2, <1>3, <1>4, <1>5, <1>6, <1>7, <1>8

\* The directory goes before the record says so.
LEMMA UndoRemovesChildInv ==
  ASSUME ChildInv, NEW c \in Children, NEW outcome \in Outcomes, UndoRemoves(c, outcome)
  PROVE  ChildInv'
<1> USE DEF ChildInv, UndoRemoves, Update, GoTo, Commit
<1>1. ParentAgrees'
  BY DEF ParentAgrees
<1>2. ChildTypeOK'
  <2>1. rec \in [Children -> ChildRecord]
    BY DEF ChildTypeOK, ChildRecord
  <2>2. rec' \in [Children -> ChildRecord]
    BY <2>1, FieldChanges, UpdateKeepsRecords
  <2>3. QED
    BY <2>2 DEF ChildTypeOK, ChildRecord, CleanStages, Allocating
<1>3. LaunchesAgree'
  BY DEF LaunchesAgree, ChildTypeOK
<1>4. RecordsAgree'
  BY DEF RecordsAgree, ChildTypeOK, LaunchesAgree
<1>5. CleanAgrees'
  BY DEF CleanAgrees, WithWorktree, Sweeping, ChildTypeOK, LaunchesAgree,
         RecordsAgree, LaunchesYield, Settled, Allocating
<1>6. LaunchesYield'
  BY DEF LaunchesYield, Settled, Sweeping, Allocating, ChildTypeOK
<1>7. SweptAway'
  BY DEF SweptAway, Sweeping, ChildTypeOK
<1>8. MergeChecked'
  BY DEF MergeChecked, Sweeping, Unsafe, ChildTypeOK, LaunchesAgree, RecordsAgree
<1>9. QED
  BY <1>1, <1>2, <1>3, <1>4, <1>5, <1>6, <1>7, <1>8

\* A failed undo leaves the record as it is.
LEMMA UndoFailsChildInv == ASSUME ChildInv, NEW c \in Children, UndoFails(c) PROVE ChildInv'
<1> USE DEF ChildInv, UndoFails, Fault, GoTo
<1>1. RecordsAgree' /\ CleanAgrees' /\ SweptAway' /\ MergeChecked' /\ ParentAgrees'
  BY DEF RecordsAgree, CleanAgrees, SweptAway, MergeChecked, ParentAgrees,
         WithWorktree, Sweeping, Unsafe
<1>2. ChildTypeOK'
  BY DEF ChildTypeOK, CleanStages, Allocating
<1>3. LaunchesAgree'
  BY DEF LaunchesAgree
<1>4. LaunchesYield'
  BY DEF LaunchesYield, Settled, Sweeping, Allocating
<1>5. QED
  BY <1>1, <1>2, <1>3, <1>4

\* The record is cleared only when git has forgotten the directory too.
LEMMA UndoPrunesChildInv ==
  ASSUME ChildInv, NEW c \in Children, NEW outcome \in Outcomes, UndoPrunes(c, outcome)
  PROVE  ChildInv'
<1> USE DEF ChildInv, UndoPrunes, Update, Fault, GoTo, Pruned, WithoutWorktree, Commit
<1>1. ParentAgrees'
  BY DEF ParentAgrees
<1>2. ChildTypeOK'
  <2>1. rec \in [Children -> ChildRecord]
    BY DEF ChildTypeOK, ChildRecord
  <2>2. rec' \in [Children -> ChildRecord]
    BY <2>1, FieldChanges, UpdateKeepsRecords
  <2>3. reg' \in [Children -> BOOLEAN]
    BY DEF ChildTypeOK
  <2>4. QED
    BY <2>2, <2>3 DEF ChildTypeOK, ChildRecord, CleanStages, Allocating
<1>3. LaunchesAgree'
  BY DEF LaunchesAgree, ChildTypeOK
<1>4. RecordsAgree'
  <2> SUFFICES ASSUME NEW d \in Children PROVE RecordsAgree!(d)'
    BY DEF RecordsAgree
  <2>1. reg' = reg \/ reg' = Pruned
    OBVIOUS
  <2>2. (reg'[d] => reg[d]) /\ (leaf[d] # "none" /\ reg[d] => reg'[d])
    BY <2>1 DEF Pruned
  <2>3. CASE rec'[d] = rec[d]
    BY <2>1, <2>2, <2>3 DEF RecordsAgree
  <2>4. CASE d = c /\ rec[c].known /\ rec'[c] = WithoutWorktree(rec[c]) /\ reg' = Pruned
    <3>1. leaf[c] = "none" /\ ~reg'[c] /\ ~dirty[c]
      BY <2>4 DEF ChildTypeOK, LaunchesAgree, RecordsAgree, Pruned
    <3>2. rec'[c].wt = "none" /\ ~rec'[c].removed
      BY <2>4 DEF ChildTypeOK, WithoutWorktree
    <3>3. QED
      BY <2>4, <3>1, <3>2
  <2>5. QED
    BY <2>3, <2>4 DEF ChildTypeOK, Update, Commit
<1>5. CleanAgrees'
  BY DEF CleanAgrees, WithWorktree, Sweeping, ChildTypeOK, LaunchesAgree,
         RecordsAgree, LaunchesYield, Settled, Allocating
<1>6. LaunchesYield'
  BY DEF LaunchesYield, Settled, Sweeping, Allocating
<1>7. SweptAway'
  BY DEF SweptAway, Sweeping, ChildTypeOK, LaunchesAgree, RecordsAgree
<1>8. MergeChecked'
  BY DEF MergeChecked, Sweeping, Unsafe, ChildTypeOK, LaunchesAgree, RecordsAgree,
         LaunchesYield, Settled, Allocating
<1>9. QED
  BY <1>1, <1>2, <1>3, <1>4, <1>5, <1>6, <1>7, <1>8

\* Only a registered checkout is entered, and no cleanup is under way.
LEMMA SpawnChildInv == ASSUME ChildInv, NEW c \in Children, Spawn(c) PROVE ChildInv'
<1> USE DEF ChildInv, Spawn, GoTo
<1>1. RecordsAgree' /\ CleanAgrees' /\ SweptAway' /\ MergeChecked' /\ ParentAgrees'
  BY DEF RecordsAgree, CleanAgrees, SweptAway, MergeChecked, ParentAgrees,
         WithWorktree, Sweeping, Unsafe
<1>2. ChildTypeOK'
  BY DEF ChildTypeOK, CleanStages, Allocating
<1>3. LaunchesAgree'
  BY DEF LaunchesAgree
<1>4. LaunchesYield'
  BY DEF LaunchesYield, Settled, Sweeping, Allocating
<1>5. QED
  BY <1>1, <1>2, <1>3, <1>4

\* A child works in its registered checkout.
LEMMA WorkChildInv == ASSUME ChildInv, NEW c \in Children, Work(c) PROVE ChildInv'
<1> USE DEF ChildInv, Work
<1>1. CleanAgrees' /\ LaunchesYield' /\ SweptAway' /\ ParentAgrees'
  BY DEF CleanAgrees, LaunchesYield, SweptAway, ParentAgrees, WithWorktree,
         Sweeping, Settled, Allocating
<1>2. ChildTypeOK'
  BY DEF ChildTypeOK, CleanStages, Allocating
<1>3. LaunchesAgree'
  BY DEF LaunchesAgree
<1>4. RecordsAgree'
  BY DEF RecordsAgree, ChildTypeOK, LaunchesAgree
<1>5. MergeChecked'
  BY DEF MergeChecked, Sweeping, Unsafe
<1>6. QED
  BY <1>1, <1>2, <1>3, <1>4, <1>5

\* A terminal status does not touch the worktree's fields.
LEMMA EndLaunchChildInv ==
  ASSUME ChildInv, NEW c \in Children, NEW outcome \in Outcomes, EndLaunch(c, outcome)
  PROVE  ChildInv'
<1> USE DEF ChildInv, EndLaunch, Update, GoTo, Commit
<1>1. ParentAgrees'
  BY DEF ParentAgrees
<1>2. ChildTypeOK'
  <2>1. rec \in [Children -> ChildRecord]
    BY DEF ChildTypeOK, ChildRecord
  <2>2. rec' \in [Children -> ChildRecord]
    BY <2>1, FieldChanges, UpdateKeepsRecords
  <2>3. QED
    BY <2>2 DEF ChildTypeOK, ChildRecord, CleanStages, Allocating
<1>3. LaunchesAgree'
  BY DEF LaunchesAgree, ChildTypeOK
<1>4. RecordsAgree'
  BY DEF RecordsAgree, ChildTypeOK, LaunchesAgree
<1>5. CleanAgrees'
  <2>1. \A d \in Children : rec'[d].known = rec[d].known /\ rec'[d].wt = rec[d].wt
    BY DEF ChildTypeOK, Update, Commit
  <2>2. WithWorktree' = WithWorktree
    BY <2>1 DEF WithWorktree
  <2>3. QED
    BY <2>2 DEF CleanAgrees
<1>6. LaunchesYield'
  BY DEF LaunchesYield, Settled, Sweeping, Allocating
<1>7. SweptAway'
  BY DEF SweptAway, Sweeping, ChildTypeOK
<1>8. MergeChecked'
  BY DEF MergeChecked, Sweeping, Unsafe, ChildTypeOK, LaunchesAgree, RecordsAgree,
         LaunchesYield, Settled, Allocating
<1>9. QED
  BY <1>1, <1>2, <1>3, <1>4, <1>5, <1>6, <1>7, <1>8

\* A stop touches no worktree.
LEMMA StopParentChildInv == ASSUME ChildInv, StopParent PROVE ChildInv'
<1> USE DEF ChildInv, StopParent
<1>1. LaunchesAgree' /\ RecordsAgree' /\ MergeChecked'
  BY DEF LaunchesAgree, RecordsAgree, MergeChecked, Sweeping, Unsafe
<1>2. ChildTypeOK'
  BY DEF ChildTypeOK, CleanStages, Allocating
<1>3. CleanAgrees'
  BY DEF CleanAgrees, WithWorktree, Sweeping
<1>4. LaunchesYield'
  BY DEF LaunchesYield, Settled, Sweeping, Allocating
<1>5. SweptAway'
  BY DEF SweptAway, Sweeping
<1>6. ParentAgrees'
  BY DEF ParentAgrees
<1>7. QED
  BY <1>1, <1>2, <1>3, <1>4, <1>5, <1>6

\* A parent resumes only when no cleanup holds it.
LEMMA ResumeParentChildInv == ASSUME ChildInv, ResumeParent PROVE ChildInv'
<1> USE DEF ChildInv, ResumeParent
<1>1. LaunchesAgree' /\ RecordsAgree' /\ MergeChecked'
  BY DEF LaunchesAgree, RecordsAgree, MergeChecked, Sweeping, Unsafe
<1>2. ChildTypeOK'
  BY DEF ChildTypeOK, CleanStages, Allocating
<1>3. CleanAgrees'
  BY DEF CleanAgrees, WithWorktree, Sweeping
<1>4. LaunchesYield'
  BY DEF LaunchesYield, Settled, Sweeping, Allocating
<1>5. SweptAway'
  BY DEF SweptAway, Sweeping
<1>6. ParentAgrees'
  BY DEF ParentAgrees
<1>7. QED
  BY <1>1, <1>2, <1>3, <1>4, <1>5, <1>6

\* A cleanup begins with the claim, awaiting every allocation.
LEMMA BeginCleanChildInv ==
  ASSUME ChildInv, NEW mode \in {"merge", "delete"}, BeginClean(mode)
  PROVE  ChildInv'
<1> USE DEF ChildInv, BeginClean, NoClean
<1>1. LaunchesAgree' /\ RecordsAgree'
  BY DEF LaunchesAgree, RecordsAgree
<1>2. ChildTypeOK'
  BY DEF ChildTypeOK, CleanStages, Allocating
<1>3. CleanAgrees'
  BY DEF CleanAgrees, WithWorktree, Sweeping, MayClean, Allocating
<1>4. LaunchesYield'
  BY DEF LaunchesYield, Settled, Sweeping, Allocating, MayClean
<1>5. SweptAway'
  BY DEF SweptAway, Sweeping, MayClean, Allocating
<1>6. MergeChecked'
  BY DEF MergeChecked, Sweeping, Unsafe, MayClean, Allocating
<1>7. ParentAgrees'
  BY DEF ParentAgrees
<1>8. QED
  BY <1>1, <1>2, <1>3, <1>4, <1>5, <1>6, <1>7

\* Allocations have settled: the sets are what the records say.
LEMMA AllocationsSettleChildInv == ASSUME ChildInv, AllocationsSettle PROVE ChildInv'
<1> USE DEF ChildInv, AllocationsSettle
<1>1. LaunchesAgree' /\ RecordsAgree' /\ ParentAgrees'
  BY DEF LaunchesAgree, RecordsAgree, ParentAgrees
<1>2. ChildTypeOK'
  BY DEF ChildTypeOK, CleanStages, Allocating, Unsafe, WithWorktree
<1>3. CleanAgrees'
  BY DEF CleanAgrees, WithWorktree, Sweeping, Unsafe, Allocating
<1>4. LaunchesYield'
  BY DEF LaunchesYield, Settled, Sweeping, Allocating, Unsafe, WithWorktree
<1>5. SweptAway'
  BY DEF SweptAway, Sweeping, Unsafe, WithWorktree, Allocating
<1>6. MergeChecked'
  BY DEF MergeChecked, Sweeping, Unsafe, WithWorktree, Allocating
<1>7. QED
  BY <1>1, <1>2, <1>3, <1>4, <1>5, <1>6

\* A reservation that git completed is registered.
LEMMA PromoteChildInv == ASSUME ChildInv, NEW c \in Children, Promote(c) PROVE ChildInv'
<1> USE DEF ChildInv, Promote
<1>1. ParentAgrees'
  BY DEF ParentAgrees
<1>2. ChildTypeOK'
  BY DEF ChildTypeOK, CleanStages, Allocating
<1>3. LaunchesAgree'
  BY DEF LaunchesAgree, ChildTypeOK, RecordsAgree, LaunchesYield, Settled, Sweeping,
         Allocating, NeedsPromotion
<1>4. RecordsAgree'
  BY DEF RecordsAgree
<1>5. CleanAgrees'
  BY DEF CleanAgrees, WithWorktree, Sweeping, NeedsPromotion
<1>6. LaunchesYield'
  BY DEF LaunchesYield, Settled, Sweeping, Allocating, NeedsPromotion
<1>7. SweptAway'
  BY DEF SweptAway, Sweeping, NeedsPromotion
<1>8. MergeChecked'
  BY DEF MergeChecked, Sweeping, Unsafe, NeedsPromotion
<1>9. QED
  BY <1>1, <1>2, <1>3, <1>4, <1>5, <1>6, <1>7, <1>8

\* The first phase looks at every child.
LEMMA StartChecksChildInv == ASSUME ChildInv, StartChecks PROVE ChildInv'
<1> USE DEF ChildInv, StartChecks
<1>1. LaunchesAgree' /\ RecordsAgree' /\ ParentAgrees'
  BY DEF LaunchesAgree, RecordsAgree, ParentAgrees
<1>2. ChildTypeOK'
  BY DEF ChildTypeOK, CleanStages, Allocating
<1>3. CleanAgrees'
  BY DEF CleanAgrees, WithWorktree, Sweeping
<1>4. LaunchesYield'
  BY DEF LaunchesYield, Settled, Sweeping, Allocating
<1>5. SweptAway'
  BY DEF SweptAway, Sweeping
<1>6. MergeChecked'
  BY DEF MergeChecked, Sweeping, Unsafe
<1>7. QED
  BY <1>1, <1>2, <1>3, <1>4, <1>5, <1>6

\* A child that passes has nothing to lose to a merge.
LEMMA CheckChildInv == ASSUME ChildInv, NEW c \in Children, Check(c) PROVE ChildInv'
<1> USE DEF ChildInv, Check
<1>1. LaunchesAgree' /\ RecordsAgree' /\ ParentAgrees'
  BY DEF LaunchesAgree, RecordsAgree, ParentAgrees
<1>2. ChildTypeOK'
  BY DEF ChildTypeOK, CleanStages, Allocating
<1>3. CleanAgrees'
  BY DEF CleanAgrees, WithWorktree, Sweeping, Discardable, Proven, ReservationOnly
<1>4. LaunchesYield'
  BY DEF LaunchesYield, Settled, Sweeping, Allocating, Discardable, Proven,
         ReservationOnly
<1>5. SweptAway'
  BY DEF SweptAway, Sweeping, Discardable, Proven, ReservationOnly
<1>6. MergeChecked'
  BY DEF MergeChecked, Sweeping, Unsafe, ChildTypeOK, LaunchesAgree, RecordsAgree,
         Discardable, Proven, ReservationOnly
<1>7. QED
  BY <1>1, <1>2, <1>3, <1>4, <1>5, <1>6

\* The second phase begins when every child has passed.
LEMMA StartSweepChildInv == ASSUME ChildInv, StartSweep PROVE ChildInv'
<1> USE DEF ChildInv, StartSweep
<1>1. LaunchesAgree' /\ RecordsAgree' /\ ParentAgrees'
  BY DEF LaunchesAgree, RecordsAgree, ParentAgrees
<1>2. ChildTypeOK'
  BY DEF ChildTypeOK, CleanStages, Allocating
<1>3. CleanAgrees'
  BY DEF CleanAgrees, WithWorktree, Sweeping
<1>4. LaunchesYield'
  BY DEF LaunchesYield, Settled, Sweeping, Allocating
<1>5. SweptAway'
  BY DEF SweptAway, Sweeping, ChildTypeOK, CleanAgrees, RecordsAgree, WithWorktree
<1>6. MergeChecked'
  BY DEF MergeChecked, Sweeping, Unsafe
<1>7. QED
  BY <1>1, <1>2, <1>3, <1>4, <1>5, <1>6

\* The directory goes, the record still owns it.
LEMMA SweepDeletesChildInv == ASSUME ChildInv, NEW c \in Children, SweepDeletes(c) PROVE ChildInv'
<1> USE DEF ChildInv, SweepDeletes
<1>1. ParentAgrees'
  BY DEF ParentAgrees
<1>2. ChildTypeOK'
  <2>1. dirty' \in [Children -> BOOLEAN]
    BY DEF ChildTypeOK
  <2>2. QED
    BY <2>1 DEF ChildTypeOK, ChildRecord, CleanStages, Allocating
<1>3. LaunchesAgree'
  BY DEF LaunchesAgree, ChildTypeOK, LaunchesYield, CleanAgrees, Settled, Sweeping,
         Allocating, WithWorktree, Discardable, Proven, ReservationOnly
<1>4. RecordsAgree'
  BY DEF RecordsAgree, ChildTypeOK, Discardable, Proven, ReservationOnly
<1>5. CleanAgrees'
  BY DEF CleanAgrees, WithWorktree, Sweeping, Discardable, Proven, ReservationOnly
<1>6. LaunchesYield'
  BY DEF LaunchesYield, Settled, Sweeping, Allocating, Discardable, Proven,
         ReservationOnly
<1>7. SweptAway'
  BY DEF SweptAway, Sweeping, ChildTypeOK, CleanAgrees, WithWorktree, Discardable,
         Proven, ReservationOnly
<1>8. MergeChecked'
  BY DEF MergeChecked, Sweeping, Unsafe, Discardable, Proven, ReservationOnly
<1>9. QED
  BY <1>1, <1>2, <1>3, <1>4, <1>5, <1>6, <1>7, <1>8

\* The removal is recorded after it was done.
LEMMA SweepMarksChildInv == ASSUME ChildInv, NEW c \in Children, SweepMarks(c) PROVE ChildInv'
<1> USE DEF ChildInv, SweepMarks
<1>1. ParentAgrees'
  BY DEF ParentAgrees
<1>2. ChildTypeOK'
  <2>1. rec \in [Children -> ChildRecord]
    BY DEF ChildTypeOK, ChildRecord
  <2>2. rec' \in [Children -> ChildRecord]
    BY <2>1, FieldChanges
  <2>3. QED
    BY <2>2 DEF ChildTypeOK, ChildRecord, CleanStages, Allocating
<1>3. LaunchesAgree'
  BY DEF LaunchesAgree, ChildTypeOK, RecordsAgree, LaunchesYield, Settled, Sweeping,
         Allocating
<1>4. RecordsAgree'
  BY DEF RecordsAgree, ChildTypeOK, CleanAgrees, SweptAway, WithWorktree, Sweeping
<1>5. CleanAgrees'
  BY DEF CleanAgrees, WithWorktree, Sweeping
<1>6. LaunchesYield'
  BY DEF LaunchesYield, Settled, Sweeping, Allocating
<1>7. SweptAway'
  BY DEF SweptAway, Sweeping
<1>8. MergeChecked'
  BY DEF MergeChecked, Sweeping, Unsafe
<1>9. QED
  BY <1>1, <1>2, <1>3, <1>4, <1>5, <1>6, <1>7, <1>8

\* git forgets what has no directory.
LEMMA SweepPrunesChildInv == ASSUME ChildInv, SweepPrunes PROVE ChildInv'
<1> USE DEF ChildInv, SweepPrunes, Pruned
<1>1. ParentAgrees'
  BY DEF ParentAgrees
<1>2. ChildTypeOK'
  BY DEF ChildTypeOK, CleanStages, Allocating
<1>3. LaunchesAgree'
  BY DEF LaunchesAgree
<1>4. RecordsAgree'
  BY DEF RecordsAgree
<1>5. CleanAgrees'
  BY DEF CleanAgrees, WithWorktree, Sweeping
<1>6. LaunchesYield'
  BY DEF LaunchesYield, Settled, Sweeping, Allocating
<1>7. SweptAway'
  BY DEF SweptAway, Sweeping, ChildTypeOK, CleanAgrees, WithWorktree
<1>8. MergeChecked'
  BY DEF MergeChecked, Sweeping, Unsafe
<1>9. QED
  BY <1>1, <1>2, <1>3, <1>4, <1>5, <1>6, <1>7, <1>8

\* A merge forgets what is gone.
LEMMA ForgetWorktreesChildInv == ASSUME ChildInv, ForgetWorktrees PROVE ChildInv'
<1> USE DEF ChildInv, ForgetWorktrees, WithoutWorktree
<1>1. ParentAgrees'
  BY DEF ParentAgrees
<1>2. ChildTypeOK'
  <2>1. rec \in [Children -> ChildRecord]
    BY DEF ChildTypeOK, ChildRecord
  <2>2. rec' \in [Children -> ChildRecord]
    BY <2>1, FieldChanges
  <2>3. QED
    BY <2>2 DEF ChildTypeOK, ChildRecord, CleanStages, Allocating
<1>3. LaunchesAgree'
  BY DEF LaunchesAgree, ChildTypeOK, RecordsAgree
<1>4. RecordsAgree'
  <2> SUFFICES ASSUME NEW d \in Children PROVE RecordsAgree!(d)'
    BY DEF RecordsAgree
  <2>1. CASE rec[d].removed
    <3>1. rec'[d].wt = "none" /\ ~rec'[d].removed
      BY <2>1 DEF ChildTypeOK, WithoutWorktree
    <3>2. leaf[d] = "none" /\ ~reg[d]
      BY <2>1 DEF RecordsAgree, CleanAgrees, SweptAway, Sweeping
    <3>3. QED
      BY <3>1, <3>2 DEF RecordsAgree
  <2>2. CASE ~rec[d].removed
    BY <2>2 DEF RecordsAgree
  <2>3. QED
    BY <2>1, <2>2
<1>5. CleanAgrees'
  BY DEF CleanAgrees, WithWorktree, Sweeping, ChildTypeOK
<1>6. LaunchesYield'
  BY DEF LaunchesYield, Settled, Sweeping, Allocating
<1>7. SweptAway'
  BY DEF SweptAway, Sweeping, ChildTypeOK
<1>8. MergeChecked'
  BY DEF MergeChecked, Sweeping, Unsafe, ChildTypeOK
<1>9. QED
  BY <1>1, <1>2, <1>3, <1>4, <1>5, <1>6, <1>7, <1>8

\* The parent's checkout goes when no child's is left.
LEMMA EndMergeChildInv == ASSUME ChildInv, EndMerge PROVE ChildInv'
<1> USE DEF ChildInv, EndMerge, NoClean
<1>1. LaunchesAgree' /\ RecordsAgree'
  BY DEF LaunchesAgree, RecordsAgree
<1>2. ChildTypeOK'
  BY DEF ChildTypeOK, CleanStages, Allocating
<1>3. CleanAgrees'
  BY DEF CleanAgrees, WithWorktree, Sweeping
<1>4. LaunchesYield'
  BY DEF LaunchesYield, Settled, Sweeping, Allocating, ChildTypeOK, CleanAgrees,
         WithWorktree
<1>5. SweptAway'
  BY DEF SweptAway, Sweeping, ChildTypeOK, CleanAgrees, RecordsAgree, WithWorktree
<1>6. MergeChecked'
  BY DEF MergeChecked, Sweeping, Unsafe
<1>7. ParentAgrees'
  BY DEF ParentAgrees
<1>8. QED
  BY <1>1, <1>2, <1>3, <1>4, <1>5, <1>6, <1>7

\* A record is removed when its worktree is gone.
LEMMA EndDeletionChildInv == ASSUME ChildInv, EndDeletion PROVE ChildInv'
<1> USE DEF ChildInv, EndDeletion, NoClean, NoRecord
<1>1. ChildTypeOK'
  <2>1. rec \in [Children -> ChildRecord]
    BY DEF ChildTypeOK, ChildRecord
  <2>2. rec' \in [Children -> ChildRecord]
    BY <2>1, FieldChanges
  <2>3. clean' \in [stage : CleanStages \cup {"idle"}, mode : {"delete", "merge"},
                    await : SUBSET Children, todo : SUBSET Children,
                    at : SUBSET Children, unsafe : BOOLEAN]
    <3>1. clean' = clean \/ clean' = NoClean
      OBVIOUS
    <3>2. NoClean \in [stage : CleanStages \cup {"idle"}, mode : {"delete", "merge"},
                    await : SUBSET Children, todo : SUBSET Children,
                    at : SUBSET Children, unsafe : BOOLEAN]
      BY DEF NoClean
    <3>3. QED
      BY <3>1, <3>2 DEF ChildTypeOK
  <2>4. claim' \in {"none", "cleaning", "deleted"} /\ parent' \in {"live", "stopped", "merged", "deleted"}
    BY DEF ChildTypeOK
  <2>5. UNCHANGED <<leaf, reg, dirty, launch>>
    OBVIOUS
  <2>6. QED
    BY <2>2, <2>3, <2>4, <2>5 DEF ChildTypeOK, ChildRecord
<1>2. LaunchesAgree'
  <2>1. \A d \in Children : launch[d] \notin Allocating \cup {"child"}
    BY DEF LaunchesYield, CleanAgrees, Settled, Sweeping
  <2>2. \A d \in Children : rec'[d].wt \in {rec[d].wt, "none"}
    BY DEF ChildTypeOK
  <2>3. UNCHANGED <<leaf, reg, dirty, launch>>
    OBVIOUS
  <2>4. QED
    BY <2>1, <2>2, <2>3 DEF LaunchesAgree, Allocating
<1>3. RecordsAgree'
  BY DEF RecordsAgree, ChildTypeOK, CleanAgrees, SweptAway, WithWorktree, Sweeping
<1>4. CleanAgrees'
  BY DEF CleanAgrees, WithWorktree, Sweeping
<1>5. LaunchesYield'
  BY DEF LaunchesYield, Settled, Sweeping, Allocating, ChildTypeOK, CleanAgrees,
         WithWorktree
<1>6. SweptAway'
  BY DEF SweptAway, Sweeping, ChildTypeOK, LaunchesAgree, RecordsAgree
<1>7. MergeChecked'
  BY DEF MergeChecked, Sweeping, Unsafe
<1>8. ParentAgrees'
  BY DEF ParentAgrees
<1>9. QED
  BY <1>1, <1>2, <1>3, <1>4, <1>5, <1>6, <1>7, <1>8

\* A failed cleanup keeps the records.
LEMMA AbortCleanChildInv == ASSUME ChildInv, AbortClean PROVE ChildInv'
<1> USE DEF ChildInv, AbortClean, Fault, NoClean
<1>1. LaunchesAgree' /\ RecordsAgree'
  BY DEF LaunchesAgree, RecordsAgree
<1>2. ChildTypeOK'
  BY DEF ChildTypeOK, CleanStages, Allocating
<1>3. CleanAgrees'
  BY DEF CleanAgrees, WithWorktree, Sweeping, ProofFails, NeedsPromotion,
         Discardable, Proven, ReservationOnly
<1>4. LaunchesYield'
  BY DEF LaunchesYield, Settled, Sweeping, Allocating, ChildTypeOK, CleanAgrees,
         WithWorktree, ProofFails, NeedsPromotion, Discardable, Proven,
         ReservationOnly
<1>5. SweptAway'
  BY DEF SweptAway, Sweeping, ProofFails, NeedsPromotion, Discardable, Proven,
         ReservationOnly
<1>6. MergeChecked'
  BY DEF MergeChecked, Sweeping, Unsafe, ProofFails, NeedsPromotion, Discardable,
         Proven, ReservationOnly
<1>7. ParentAgrees'
  BY DEF ParentAgrees
<1>8. QED
  BY <1>1, <1>2, <1>3, <1>4, <1>5, <1>6, <1>7

\* git forgets only what has no directory.
LEMMA PruneElsewhereChildInv == ASSUME ChildInv, PruneElsewhere PROVE ChildInv'
<1> USE DEF ChildInv, PruneElsewhere, Pruned
<1>1. CleanAgrees' /\ LaunchesYield' /\ MergeChecked' /\ ParentAgrees'
  BY DEF CleanAgrees, LaunchesYield, MergeChecked, ParentAgrees, WithWorktree,
         Sweeping, Settled, Allocating, Unsafe
<1>2. ChildTypeOK'
  BY DEF ChildTypeOK, CleanStages, Allocating
<1>3. LaunchesAgree'
  BY DEF LaunchesAgree
<1>4. RecordsAgree'
  BY DEF RecordsAgree
<1>5. SweptAway'
  BY DEF SweptAway, Sweeping
<1>6. QED
  BY <1>1, <1>2, <1>3, <1>4, <1>5

\* A restart forgets claims and launches, no record.
LEMMA RebootChildInv == ASSUME ChildInv, Reboot PROVE ChildInv'
<1> USE DEF ChildInv, Reboot, NoClean
<1>1. ChildTypeOK'
  <2>1. rec \in [Children -> ChildRecord]
    BY DEF ChildTypeOK, ChildRecord
  <2>2. rec' \in [Children -> ChildRecord]
    BY <2>1, FieldChanges
  <2>3. QED
    BY <2>2 DEF ChildTypeOK, ChildRecord, CleanStages, Allocating
<1>2. LaunchesAgree'
  BY DEF LaunchesAgree, ChildTypeOK
<1>3. RecordsAgree'
  BY DEF RecordsAgree, ChildTypeOK
<1>4. CleanAgrees'
  BY DEF CleanAgrees, WithWorktree, Sweeping
<1>5. LaunchesYield'
  BY DEF LaunchesYield, Settled, Sweeping, Allocating
<1>6. SweptAway'
  BY DEF SweptAway, Sweeping
<1>7. MergeChecked'
  BY DEF MergeChecked, Sweeping, Unsafe
<1>8. ParentAgrees'
  BY DEF ParentAgrees
<1>9. QED
  BY <1>1, <1>2, <1>3, <1>4, <1>5, <1>6, <1>7, <1>8

\* At the start there are no records, directories or launches.
LEMMA InitChildInv == ChildInit => ChildInv
<1> SUFFICES ASSUME ChildInit PROVE ChildInv
  OBVIOUS
<1>1. ChildTypeOK
  BY DEF ChildInit, ChildTypeOK, NoRecord, NoClean, Allocating, CleanStages
<1>2. LaunchesAgree /\ RecordsAgree
  BY DEF ChildInit, LaunchesAgree, RecordsAgree, NoRecord
<1>3. CleanAgrees /\ MergeChecked
  BY DEF ChildInit, CleanAgrees, MergeChecked, Sweeping, NoClean
<1>4. LaunchesYield /\ SweptAway /\ ParentAgrees
  BY DEF ChildInit, LaunchesYield, SweptAway, ParentAgrees, Settled, Sweeping, Allocating, NoClean
<1>5. QED
  BY <1>1, <1>2, <1>3, <1>4 DEF ChildInv

\* The invariant looks at these variables only.
LEMMA StutterChildInv == ASSUME ChildInv, UNCHANGED childVars PROVE ChildInv'
<1> USE DEF ChildInv, childVars
<1>1. ChildTypeOK' /\ LaunchesAgree' /\ RecordsAgree'
  BY DEF ChildTypeOK, LaunchesAgree, RecordsAgree
<1>2. CleanAgrees' /\ MergeChecked' /\ ParentAgrees'
  BY DEF CleanAgrees, MergeChecked, ParentAgrees, Sweeping, WithWorktree, Unsafe
<1>3. LaunchesYield' /\ SweptAway'
  BY DEF LaunchesYield, SweptAway, Settled, Sweeping
<1>4. QED
  BY <1>1, <1>2, <1>3

\* A step of a launch.
LEMMA LaunchStepChildInv == ASSUME ChildInv, NEW c \in Children, LaunchStep(c) PROVE ChildInv'
<1>1. CASE Allocate(c)  BY <1>1, AllocateChildInv
<1>2. CASE SourceFails(c)  BY <1>2, SourceFailsChildInv
<1>3. CASE StartAdd(c)  BY <1>3, StartAddChildInv
<1>4. CASE GitAdds(c)  BY <1>4, GitAddsChildInv
<1>5. CASE UndoFails(c)  BY <1>5, UndoFailsChildInv
<1>6. CASE Spawn(c)  BY <1>6, SpawnChildInv
<1>7. CASE \E outcome \in Outcomes : Reserve(c, outcome)  BY <1>7, ReserveChildInv
<1>8. CASE \E outcome \in Outcomes : Register(c, outcome)  BY <1>8, RegisterChildInv
<1>9. CASE \E outcome \in Outcomes : UndoRemoves(c, outcome)  BY <1>9, UndoRemovesChildInv
<1>10. CASE \E outcome \in Outcomes : UndoPrunes(c, outcome)  BY <1>10, UndoPrunesChildInv
<1>11. CASE \E outcome \in Outcomes : EndLaunch(c, outcome)  BY <1>11, EndLaunchChildInv
<1>12. QED
  BY <1>1, <1>2, <1>3, <1>4, <1>5, <1>6, <1>7, <1>8, <1>9, <1>10, <1>11 DEF LaunchStep

\* A step of a cleanup after its claim.
LEMMA CleanStepChildInv == ASSUME ChildInv, CleanStep PROVE ChildInv'
<1>1. CASE AllocationsSettle \/ StartChecks \/ StartSweep \/ SweepPrunes
  BY <1>1, AllocationsSettleChildInv, StartChecksChildInv, StartSweepChildInv, SweepPrunesChildInv
<1>2. CASE ForgetWorktrees \/ EndMerge \/ EndDeletion \/ AbortClean
  BY <1>2, ForgetWorktreesChildInv, EndMergeChildInv, EndDeletionChildInv, AbortCleanChildInv
<1>3. CASE \E c \in Children : Promote(c) \/ Check(c)
  BY <1>3, PromoteChildInv, CheckChildInv
<1>4. CASE \E c \in Children : SweepDeletes(c) \/ SweepMarks(c)
  BY <1>4, SweepDeletesChildInv, SweepMarksChildInv
<1>5. QED
  BY <1>1, <1>2, <1>3, <1>4 DEF CleanStep

LEMMA NextChildInv == ASSUME ChildInv, [ChildNext]_childVars PROVE ChildInv'
<1>1. CASE \E c \in Children : \E outcome \in Outcomes : Create(c, outcome)
  BY <1>1, CreateChildInv
<1>2. CASE \E c \in Children : LaunchStep(c)
  BY <1>2, LaunchStepChildInv
<1>3. CASE \E c \in Children : Work(c)
  BY <1>3, WorkChildInv
<1>4. CASE StopParent \/ ResumeParent \/ PruneElsewhere \/ Reboot
  BY <1>4, StopParentChildInv, ResumeParentChildInv, PruneElsewhereChildInv, RebootChildInv
<1>5. CASE \E mode \in {"merge", "delete"} : BeginClean(mode)
  BY <1>5, BeginCleanChildInv
<1>6. CASE CleanStep
  BY <1>6, CleanStepChildInv
<1>7. CASE UNCHANGED childVars
  BY <1>7, StutterChildInv
<1>8. QED
  BY <1>1, <1>2, <1>3, <1>4, <1>5, <1>6, <1>7 DEF ChildNext

\* The inductive invariant: launches, records, directories and cleanups agree in every
\* reachable state, for any number of children, crashes and failures.
THEOREM InductiveInvariant == ChildSpec => []ChildInv
<1>1. ChildInit => ChildInv
  BY InitChildInv
<1>2. ChildInv /\ [ChildNext]_childVars => ChildInv'
  BY NextChildInv
<1>3. QED
  BY <1>1, <1>2, PTL DEF ChildSpec

-----------------------------------------------------------------------------

\* "Ownership is persisted before Git writes into the reserved leaf": no failed commit,
\* no failed undo, no crash and no cleanup leaves a checkout or a registration that no
\* record of subagentRunStore.ts names.
THEOREM OwnershipIsDurable == ChildSpec => []CheckoutIsOwned
<1>1. ChildInv => CheckoutIsOwned
  <2> SUFFICES ASSUME ChildInv, NEW c \in Children, leaf[c] = "checkout" \/ reg[c]
               PROVE  rec[c].known /\ rec[c].wt # "none"
    BY DEF CheckoutIsOwned
  <2>1. reg[c]
    BY DEF ChildInv, RecordsAgree
  <2>2. rec[c].wt # "none"
    BY <2>1 DEF ChildInv, RecordsAgree
  <2>3. QED
    BY <2>2 DEF ChildInv, RecordsAgree
<1>2. QED
  BY <1>1, InductiveInvariant, PTL

\* A cleanup of cleanupParentRecords that succeeded, for a deletion or after a merge,
\* left no checkout, no registration and no allocation that would bring one back.
THEOREM CleanupIsComplete == ChildSpec => []CleanupLeavesNothing
<1>1. ChildInv => CleanupLeavesNothing
  <2> SUFFICES ASSUME ChildInv, parent \in {"merged", "deleted"}, NEW c \in Children
               PROVE  ~reg[c] /\ leaf[c] # "checkout" /\ launch[c] \notin {"gitAdd", "allocated"}
    BY DEF CleanupLeavesNothing
  <2>1. ~reg[c] /\ leaf[c] # "checkout"
    BY DEF ChildInv, SweptAway
  <2>2. launch[c] \notin {"gitAdd", "allocated"}
    <3>1. CASE claim = "deleted"
      BY <3>1 DEF ChildInv, LaunchesYield, Allocating
    <3>2. CASE claim # "deleted"
      BY <3>2 DEF ChildInv, LaunchesYield
    <3>3. QED
      BY <3>1, <3>2
  <2>3. QED
    BY <2>1, <2>2
<1>2. QED
  BY <1>1, InductiveInvariant, PTL

\* Whatever directory an ended launch or a failed cleanup left, the proofs of the next
\* deletion (the two phases of cleanupParentRecords) accept it.
THEOREM DirectoriesStayRetryable == ChildSpec => []DirectoriesAreRetryable
<1>1. ChildInv => DirectoriesAreRetryable
  <2> SUFFICES ASSUME ChildInv, NEW c \in WithWorktree, launch[c] = "ended", leaf[c] # "none"
               PROVE  IF NeedsPromotion(c) THEN leaf[c] = "checkout" ELSE Proven(c)
    BY DEF DirectoriesAreRetryable
  <2>1. c \in Children /\ rec[c].wt # "none"
    BY DEF WithWorktree
  <2>2. leaf[c] \in {"empty", "checkout"} /\ rec[c].wt \in {"reserved", "registered"}
    BY <2>1 DEF ChildInv, ChildTypeOK
  <2>3. ~rec[c].removed
    BY <2>1 DEF ChildInv, RecordsAgree
  <2>4. reg[c] => leaf[c] = "checkout"
    BY <2>1, <2>2 DEF ChildInv, RecordsAgree
  <2>5. rec[c].wt = "registered" => reg[c]
    BY <2>1, <2>2 DEF ChildInv, RecordsAgree
  <2>6. QED
    BY <2>2, <2>3, <2>4, <2>5 DEF NeedsPromotion, Proven, ReservationOnly
<1>2. QED
  BY <1>1, InductiveInvariant, PTL

\* A step changes a directory while a merge sweeps only after the first phase has
\* passed every child, none of which had unmerged work: "A later unsafe child cannot
\* remove an earlier sibling's worktree".
THEOREM MergeIsAllOrNothing == ChildSpec => SiblingsStandTogether
<1>1. ChildInv /\ [ChildNext]_childVars =>
        [clean.stage = "sweeping" /\ clean.mode = "merge" /\ leaf' # leaf => ~clean.unsafe]_childVars
  BY DEF ChildInv, MergeChecked, Sweeping
<1>2. QED
  BY <1>1, InductiveInvariant, PTL DEF ChildSpec, SiblingsStandTogether
=============================================================================
