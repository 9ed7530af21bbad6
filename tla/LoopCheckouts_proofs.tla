------------------------ MODULE LoopCheckouts_proofs ------------------------
(***************************************************************************)
(* Proofs about LoopCheckouts, for any launches, edits, reboots and        *)
(* failing writes.                                                         *)
(*                                                                         *)
(* What is true of a launch rests on what is known of that launch alone    *)
(* and of the lock (Agrees).  So a step is looked at twice: what it makes  *)
(* of the launch it is about, and that it leaves every other one untouched *)
(* but for an eviction, and the locks of others with their owners.  What   *)
(* must not be forgotten (Remembered) holds as long as nothing is evicted. *)
(***************************************************************************)
EXTENDS LoopCheckouts, FiniteSetTheorems, TLAPS

USE CheckoutAssumption DEF CheckoutAssumption

\* No run is ever evicted: MAX_RETAINED_RUNS has room for all of them.
NoEviction == Cardinality(Runs) <= MaxRetained

Maps == [rec : [Runs -> Record \cup {Absent}], older : SUBSET (Runs \X Runs)]
Stored == {runs, saved}

StoresOK == \A m \in Stored : m \in Maps /\ Ordered(m)

Operation == [kind : {"none", "reviewing", "locked", "checking", "written", "decided",
                      "archived"},
              current : BOOLEAN, shown : {NoHash} \cup (0 .. MaxEdits),
              patch : {NoHash} \cup (0 .. MaxEdits)]

StateOK ==
  /\ target \in [Runs -> {"currentCheckout", "newWorktree"}]
  /\ lock \in Lock \cup {NoLock}
  /\ route \in [Runs -> {"none", "worktree", "session", "live", "rollback", "failing",
                       "stranded", "done"}]
  /\ agent \in [Runs -> {"none", "busy", "orphan"}]
  /\ session \in [Runs -> {"none", "made", "announced", "gone"}]
  /\ tree \in [Runs -> {"none", "there", "archived"}]
  /\ edit \in [Runs -> 0 .. MaxEdits]
  /\ op \in [Runs -> Operation]
  /\ applies \in [Runs -> Nat]

Types == StoresOK /\ StateOK

\* Where a launch's handler is says what there is of it.
LaunchAgrees(r) ==
  /\ route[r] \in {"none", "worktree", "session", "failing", "stranded"} => ~Has(runs, r)
  /\ route[r] \in {"none", "worktree", "session", "failing"} => ~Has(saved, r)
  /\ route[r] \in {"none", "worktree"} => tree[r] = "none"
  /\ route[r] \notin {"live", "done"} => session[r] # "announced"
  /\ agent[r] = "busy" =>
       /\ route[r] \in {"live", "rollback"}
       /\ \A m \in Stored : /\ Has(m, r) /\ ~m.rec[r].acked
                            /\ m.rec[r].status \in {"running", "stopping"}

\* Where a review operation is says what the records, the tree and the checkout are at.
OperationAgrees(r) ==
  /\ op[r].kind = "none" => op[r] = NoOp
  /\ op[r].kind # "none" \/ applies[r] > 0 =>
       route[r] \in {"live", "done"} /\ agent[r] # "busy"
  /\ op[r].kind \in {"locked", "checking", "written", "decided"} => tree[r] = "there"
  /\ op[r].kind = "archived" => tree[r] = "archived"
  /\ op[r].kind = "reviewing" /\ Has(runs, r) => runs.rec[r].review.status = "available"
  /\ op[r].kind = "locked" /\ op[r].current /\ Has(runs, r) =>
       op[r].shown = runs.rec[r].review.hash
  /\ op[r].kind \in {"checking", "written"} => op[r].patch = op[r].shown
  /\ applies[r] > 0 => applies[r] = 1 /\ op[r].kind \in {"none", "written"}

\* ... and a record that is left tells of it.
RecordAgrees(m, r) ==
  Has(m, r) =>
    /\ TreeFits(r, m.rec[r].review.status)
    /\ op[r].kind \in {"checking", "written"} => m.rec[r].review.status = "applying"
    /\ op[r].kind \in {"decided", "archived"} => m.rec[r].review.status = "discarding"
    /\ applies[r] > 0 => m.rec[r].review.status \in {"applying", "applied", "applyUncertain"}

\* Whoever may write to the checkout has its lock.
LockAgrees(r) ==
  /\ /\ target[r] = "currentCheckout"
     /\ route[r] \in {"session", "live", "rollback", "failing", "stranded"}
     => lock = [owner |-> r, kind |-> "active"]
  /\ target[r] = "currentCheckout" => route[r] # "worktree"
  /\ op[r].kind \in {"locked", "checking", "written"} =>
       lock = [owner |-> r, kind |-> "review"]

Orphaned(r) == target[r] = "currentCheckout" /\ agent[r] = "orphan"

\* What must not be forgotten is on record: an agent that survived, and a parent session.
Remembered(r) ==
  /\ Orphaned(r) =>
       /\ lock # NoLock /\ lock.kind = "recovery"
       /\ \A m \in Stored : Has(m, r) /\ m.rec[r].status = "interrupted" /\ ~m.rec[r].acked
  /\ route[r] = "live" \/ session[r] = "announced" =>
       \A m \in Stored : Has(m, r) /\ ~m.rec[r].reconciled

\* A run in the checkout that is neither over by itself nor acknowledged.
NotSettled(m, r) ==
  /\ target[r] = "currentCheckout" /\ Has(m, r)
  /\ m.rec[r].status \notin {"ended", "failed"} /\ ~m.rec[r].acked

Recovering(r) == lock = [owner |-> r, kind |-> "recovery"]

\* The recovery lock names the one run it is held for, and no other waits for it.
LockNamed(r) ==
  /\ \A m \in Stored : NotSettled(m, r) => agent[r] = "busy" \/ Recovering(r)
  /\ Recovering(r) => \A m \in Stored : NotSettled(m, r) /\ m.rec[r].status = "interrupted"

OneOrphan == \A r, s \in Runs : Orphaned(r) /\ Orphaned(s) => r = s

Agrees(r) ==
  /\ LaunchAgrees(r) /\ OperationAgrees(r) /\ LockAgrees(r)
  /\ \A m \in Stored : RecordAgrees(m, r)
  /\ NoEviction => Remembered(r) /\ LockNamed(r)

CheckoutInv == Types /\ (\A r \in Runs : Agrees(r)) /\ (NoEviction => OneOrphan)

-----------------------------------------------------------------------------
(* The engine's records.                                                   *)

\* A map of which r's record becomes x.
Put(m, r, x) == [m EXCEPT !.rec[r] = x]

\* Changing a record keeps the order and every other record.
LEMMA PutKeeps ==
  ASSUME NEW m \in Maps, Ordered(m), NEW r \in Runs, Has(m, r), NEW x \in Record
  PROVE  /\ Put(m, r, x) \in Maps /\ Ordered(Put(m, r, x))
         /\ Put(m, r, x).rec[r] = x
         /\ \A s \in Runs : s # r => Put(m, r, x).rec[s] = m.rec[s]
<1> DEFINE n == Put(m, r, x)
<1>1. n \in Maps /\ n.rec[r] = x /\ (\A s \in Runs : s # r => n.rec[s] = m.rec[s])
  BY DEF Put, Maps
<1>2. Kept(n) = Kept(m) /\ n.older = m.older
  BY <1>1 DEF Put, Maps, Kept, Has
<1> QED BY <1>1, <1>2 DEF Ordered

\* runs.delete keeps the order of what is left.
LEMMA WithoutKeeps ==
  ASSUME NEW m \in Maps, Ordered(m), NEW S
  PROVE  /\ Without(m, S) \in Maps /\ Ordered(Without(m, S))
         /\ \A s \in Runs : Without(m, S).rec[s] = IF s \in S THEN Absent ELSE m.rec[s]
<1> DEFINE n == Without(m, S)
<1>1. n \in Maps /\ (\A s \in Runs : n.rec[s] = IF s \in S THEN Absent ELSE m.rec[s])
  BY DEF Without, Maps
<1>2. \A s \in Runs : s \in Kept(n) <=> s \in Kept(m) /\ s \notin S
  BY <1>1 DEF Kept, Has
<1>3. n.older = {p \in m.older : p[1] \notin S /\ p[2] \notin S}
  BY DEF Without
<1>4. m.older \subseteq Kept(m) \X Kept(m)
  BY DEF Ordered
<1>5. n.older \subseteq Kept(n) \X Kept(n)
  BY <1>2, <1>3, <1>4 DEF Kept
<1>6. \A s, t \in Kept(n) : s # t => (<<s, t>> \in n.older <=> <<t, s>> \notin n.older)
  BY <1>2, <1>3 DEF Ordered, Kept
<1> QED BY <1>1, <1>5, <1>6 DEF Ordered

\* A new record comes last.
LEMMA WithKeeps ==
  ASSUME NEW m \in Maps, Ordered(m), NEW r \in Runs, ~Has(m, r), NEW x \in Record
  PROVE  /\ With(m, r, x) \in Maps /\ Ordered(With(m, r, x))
         /\ With(m, r, x).rec[r] = x
         /\ \A s \in Runs : s # r => With(m, r, x).rec[s] = m.rec[s]
<1> DEFINE n == With(m, r, x)
<1>1. n.rec[r] = x /\ (\A s \in Runs : s # r => n.rec[s] = m.rec[s])
      /\ n.rec \in [Runs -> Record \cup {Absent}]
  BY DEF With, Maps
<1>2. \A s \in Runs : s \in Kept(n) <=> s \in Kept(m) \/ s = r
  BY <1>1 DEF Kept, Has
<1>3. n.older = m.older \cup (Kept(m) \X {r})
  BY DEF With
<1>4. m.older \subseteq Kept(m) \X Kept(m) /\ r \notin Kept(m) /\ Kept(m) \subseteq Runs
  BY DEF Ordered, Kept
<1>5. n.older \subseteq Kept(n) \X Kept(n)
  BY <1>2, <1>3, <1>4
<1>6. n \in Maps
  BY <1>1, <1>3, <1>4 DEF With, Maps
<1>7. ASSUME NEW s \in Kept(n), NEW t \in Kept(n), s # t
      PROVE  <<s, t>> \in n.older <=> <<t, s>> \notin n.older
  <2>1. CASE t = r
    BY <2>1, <1>2, <1>3, <1>4, <1>7 DEF Kept
  <2>2. CASE s = r
    BY <2>2, <1>2, <1>3, <1>4, <1>7 DEF Kept
  <2>3. CASE s # r /\ t # r
    BY <2>3, <1>2, <1>3, <1>4, <1>7 DEF Ordered, Kept
  <2> QED BY <2>1, <2>2, <2>3
<1> QED BY <1>1, <1>5, <1>6, <1>7 DEF Ordered

\* An eviction takes terminal records only ...
LEMMA EvictedKeeps ==
  ASSUME NEW m \in Maps, Ordered(m)
  PROVE  /\ Evicted(m) \in Maps /\ Ordered(Evicted(m))
         /\ \A s \in Runs : \/ Evicted(m).rec[s] = m.rec[s]
                            \/ Evicted(m).rec[s] = Absent /\ IsTerminal(m, s)
<1> DEFINE ended == {r \in Runs : IsTerminal(m, r)}
           excess == Cardinality(Kept(m)) - MaxRetained + 1
           upTo(r) == {s \in ended : s = r \/ <<s, r>> \in m.older}
           gone == {r \in ended : Cardinality(upTo(r)) <= excess}
<1>1. Evicted(m) = Without(m, gone)
  BY DEF Evicted
<1>2. gone \subseteq ended
  OBVIOUS
<1> HIDE DEF gone
<1> QED BY <1>1, <1>2, WithoutKeeps

\* ... and none where there is room for one more run.
LEMMA NothingEvicted ==
  ASSUME NoEviction, NEW m \in Maps, Ordered(m), NEW r \in Runs, ~Has(m, r)
  PROVE  \A s \in Runs : Evicted(m).rec[s] = m.rec[s]
<1> DEFINE ended == {t \in Runs : IsTerminal(m, t)}
           excess == Cardinality(Kept(m)) - MaxRetained + 1
           upTo(t) == {s \in ended : s = t \/ <<s, t>> \in m.older}
           gone == {t \in ended : Cardinality(upTo(t)) <= excess}
<1>1. Evicted(m) = Without(m, gone)
  BY DEF Evicted
<1>2. Kept(m) \subseteq Runs \ {r}
  BY DEF Kept
<1>3. IsFiniteSet(Runs \ {r}) /\ Cardinality(Runs \ {r}) = Cardinality(Runs) - 1
  BY FS_RemoveElement
<1>4. Cardinality(Kept(m)) <= Cardinality(Runs) - 1 /\ Cardinality(Kept(m)) \in Nat
      /\ Cardinality(Runs) \in Nat
  BY <1>2, <1>3, FS_Subset, FS_CardinalityType
<1>5. excess <= 0 /\ excess \in Int
  BY <1>4 DEF NoEviction
<1>6. ASSUME NEW t \in ended PROVE Cardinality(upTo(t)) \in Nat /\ Cardinality(upTo(t)) > 0
  <2>1. t \in upTo(t) /\ IsFiniteSet(upTo(t))
    <3>1. upTo(t) \subseteq Runs
      OBVIOUS
    <3> QED BY <1>6, <3>1, FS_Subset
  <2> HIDE DEF upTo
  <2>2. Cardinality(upTo(t)) \in Nat /\ upTo(t) # {}
    BY <2>1, FS_CardinalityType
  <2>3. Cardinality(upTo(t)) # 0
    BY <2>1, <2>2, FS_EmptySet
  <2> QED BY <2>2, <2>3
<1> HIDE DEF excess, upTo
<1>7. gone = {}
  BY <1>5, <1>6
<1> QED BY <1>1, <1>7, WithoutKeeps

-----------------------------------------------------------------------------
(* The other launches.                                                     *)

\* A step leaves s as it was, but that its terminal record may be evicted, and a
\* change in memory written.
Untouched(s) ==
  /\ route'[s] = route[s] /\ agent'[s] = agent[s] /\ session'[s] = session[s]
  /\ tree'[s] = tree[s] /\ op'[s] = op[s] /\ applies'[s] = applies[s]
  /\ \/ runs'.rec[s] = runs.rec[s]
     \/ ~NoEviction /\ IsTerminal(runs, s) /\ runs'.rec[s] = Absent
  /\ saved'.rec[s] \in {saved.rec[s], runs'.rec[s]}

\* The lock changes only where it is free, or held by another and for nobody's agent;
\* no step but a boot makes it a recovery's.
LockKept(s) ==
  \/ lock' = lock
  \/ /\ lock' = NoLock \/ lock'.kind # "recovery"
     /\ lock = NoLock \/ (lock.owner # s /\ (lock.kind # "recovery" \/ ~Orphaned(s)))

\* To the lock, a record is its status and whether the user acknowledged it.
SameRun(x, y) ==
  x = y \/ (x # Absent /\ y # Absent /\ x.status = y.status /\ x.acked = y.acked)

LEMMA LockNamedKept ==
  ASSUME Types, NEW s \in Runs, LockNamed(s), target' = target,
         SameRun(runs'.rec[s], runs.rec[s]),
         SameRun(saved'.rec[s], saved.rec[s]) \/ SameRun(saved'.rec[s], runs.rec[s]),
         agent[s] = "busy" => agent'[s] = "busy", Recovering(s)' <=> Recovering(s)
  PROVE  LockNamed(s)'
<1>1. ASSUME NEW n \in Stored'
      PROVE  \E m \in Stored : SameRun(n.rec[s], m.rec[s])
  BY <1>1 DEF Stored
<1>2. ASSUME NEW n, NEW m \in Stored, SameRun(n.rec[s], m.rec[s])
      PROVE  /\ target'[s] = target[s]
             /\ Has(n, s) <=> Has(m, s)
             /\ Has(n, s) => n.rec[s].status = m.rec[s].status /\ n.rec[s].acked = m.rec[s].acked
  BY <1>2 DEF SameRun, Has
<1> QED BY <1>1, <1>2 DEF LockNamed, NotSettled, Recovering, Has

LEMMA UntouchedAgrees ==
  ASSUME Types, Types', NEW s \in Runs, Agrees(s), target' = target, Untouched(s),
         LockKept(s)
  PROVE  Agrees(s)' /\ (Orphaned(s)' => Orphaned(s))
<1> USE DEF Untouched
<1>1. lock = NoLock \/ (lock \in Lock /\ lock.kind \in {"active", "recovery", "review"})
  BY DEF Types, StateOK, Lock
<1>2. Has(runs', s) => Has(runs, s) /\ runs'.rec[s] = runs.rec[s]
  BY DEF Has
<1>3. Has(saved', s) =>
        \/ Has(saved, s) /\ saved'.rec[s] = saved.rec[s]
        \/ Has(runs, s) /\ saved'.rec[s] = runs.rec[s]
  BY <1>2 DEF Has
<1>4. LaunchAgrees(s)'
  <2>1. /\ LaunchAgrees(s)
        /\ agent[s] = "busy" => ~IsTerminal(runs, s)
    BY DEF Agrees, LaunchAgrees, IsTerminal, Stored, Over
  <2>2. agent[s] = "busy" =>
          runs'.rec[s] = runs.rec[s] /\ saved'.rec[s] \in {saved.rec[s], runs.rec[s]}
    BY <2>1
  <2> QED BY <1>2, <1>3, <2>1, <2>2 DEF LaunchAgrees, Stored, Has
<1>5. OperationAgrees(s)'
  BY <1>2 DEF Agrees, OperationAgrees
<1>6. \A m \in Stored' : RecordAgrees(m, s)'
  <2>1. ASSUME NEW m \in Stored, RecordAgrees(m, s), NEW n \in Stored',
               Has(n, s) => Has(m, s) /\ n.rec[s] = m.rec[s]
        PROVE  RecordAgrees(n, s)'
    BY <2>1 DEF RecordAgrees, TreeFits, Has
  <2> QED BY <1>2, <1>3, <2>1 DEF Agrees, Stored
<1>7. LockAgrees(s)'
  <2>1. LockAgrees(s)
    BY DEF Agrees
  <2> QED BY <1>1, <2>1 DEF LockAgrees, LockKept, Lock
<1>8. ASSUME NoEviction PROVE Remembered(s)'
  <2>1. Remembered(s)
    BY <1>8 DEF Agrees
  <2>2. runs'.rec[s] = runs.rec[s] /\ saved'.rec[s] \in {saved.rec[s], runs.rec[s]}
    BY <1>8
  <2>3. Orphaned(s) => lock' = lock
    BY <1>1, <2>1 DEF LockKept, Remembered, Orphaned, LockAgrees, Agrees
  <2> QED BY <2>1, <2>2, <2>3 DEF Remembered, Orphaned, Stored, Has
<1>9. ASSUME NoEviction PROVE LockNamed(s)'
  <2>1. LockNamed(s)
    BY <1>9 DEF Agrees
  <2>2. runs'.rec[s] = runs.rec[s] /\ saved'.rec[s] \in {saved.rec[s], runs.rec[s]}
    BY <1>9
  <2>3. Recovering(s)' <=> Recovering(s)
    BY <1>1 DEF LockKept, Recovering, Lock
  <2> QED BY <2>1, <2>2, <2>3, LockNamedKept DEF SameRun
<1> QED BY <1>4, <1>5, <1>6, <1>7, <1>8, <1>9 DEF Agrees, Orphaned, NoEviction

\* So a step is right when it is right about the launch it is about.
LEMMA StepOf ==
  ASSUME CheckoutInv, Types', NEW r \in Runs, target' = target,
         \A s \in Runs : s # r => Untouched(s) /\ LockKept(s),
         Agrees(r)', Orphaned(r)' => Orphaned(r)
  PROVE  CheckoutInv'
<1>1. \A s \in Runs : Agrees(s)' /\ (Orphaned(s)' => Orphaned(s))
  BY UntouchedAgrees DEF CheckoutInv
<1>2. NoEviction => OneOrphan'
  BY <1>1 DEF CheckoutInv, OneOrphan
<1> QED BY <1>1, <1>2 DEF CheckoutInv, NoEviction

-----------------------------------------------------------------------------
(* Steps that change no record.                                            *)

\* r's launch, the records apart, is as the invariant asks.
LEMMA LaunchKeeps ==
  ASSUME CheckoutInv, NEW r \in Runs, Launch(r)
  PROVE  CheckoutInv'
<1>1. Types /\ Agrees(r)
  BY DEF CheckoutInv
<1>2. Types'
  BY <1>1 DEF Launch, Types, StateOK, StoresOK, Stored, Lock
<1>3. \A s \in Runs : s # r => Untouched(s) /\ LockKept(s)
  BY <1>1 DEF Launch, Untouched, LockKept, Types, StateOK
<1>4. LaunchAgrees(r)' /\ OperationAgrees(r)'
  BY <1>1 DEF Launch, Agrees, LaunchAgrees, OperationAgrees, Types, StateOK, Stored, Has
<1>5. \A m \in Stored' : RecordAgrees(m, r)'
  BY <1>1 DEF Launch, Agrees, LaunchAgrees, RecordAgrees, Stored, Has
<1>6. LockAgrees(r)'
  BY <1>1 DEF Launch, Agrees, LaunchAgrees, LockAgrees, OperationAgrees, Types, StateOK
<1>7. (NoEviction => Remembered(r)') /\ (Orphaned(r)' => Orphaned(r))
  BY <1>1 DEF Launch, Agrees, LaunchAgrees, Remembered, Orphaned, Types, StateOK, Stored, Has
<1>8. NoEviction => LockNamed(r)'
  BY <1>1, LockNamedKept DEF Launch, SameRun, Recovering, Agrees, LockAgrees, Types, StateOK, Lock
<1> QED BY <1>2, <1>3, <1>4, <1>5, <1>6, <1>7, <1>8, StepOf DEF Launch, Agrees, NoEviction

LEMMA WorktreeMadeKeeps ==
  ASSUME CheckoutInv, NEW r \in Runs, WorktreeMade(r)
  PROVE  CheckoutInv'
<1>1. Types /\ Agrees(r)
  BY DEF CheckoutInv
<1>2. Types'
  BY <1>1 DEF WorktreeMade, Types, StateOK, StoresOK, Stored, Lock, Operation
<1>3. \A s \in Runs : s # r => Untouched(s) /\ LockKept(s)
  BY <1>1 DEF WorktreeMade, Untouched, LockKept, Types, StateOK
<1>4. LaunchAgrees(r)' /\ OperationAgrees(r)'
  BY <1>1 DEF WorktreeMade, Agrees, LaunchAgrees, OperationAgrees, Types, StateOK,
              Operation, Stored, Has
<1>5. \A m \in Stored' : RecordAgrees(m, r)'
  BY <1>1 DEF WorktreeMade, Agrees, LaunchAgrees, OperationAgrees, RecordAgrees,
              TreeFits, Types, StateOK, Operation, Stored, Has
<1>6. LockAgrees(r)'
  BY <1>1 DEF WorktreeMade, Agrees, LaunchAgrees, LockAgrees, OperationAgrees, Types,
              StateOK, Operation, Lock
<1>7. (NoEviction => Remembered(r)') /\ (Orphaned(r)' => Orphaned(r))
  BY <1>1 DEF WorktreeMade, Agrees, LaunchAgrees, LockAgrees, OperationAgrees,
              Remembered, Orphaned, Types, StateOK, Lock, Stored, Has
<1>8. NoEviction => LockNamed(r)'
  BY <1>1, LockNamedKept DEF WorktreeMade, SameRun, Recovering, Agrees, LockAgrees, Types, StateOK, Lock
<1> QED BY <1>2, <1>3, <1>4, <1>5, <1>6, <1>7, <1>8, StepOf DEF WorktreeMade, Agrees, NoEviction

LEMMA SessionFailsKeeps ==
  ASSUME CheckoutInv, NEW r \in Runs, SessionFails(r)
  PROVE  CheckoutInv'
<1>1. Types /\ Agrees(r)
  BY DEF CheckoutInv
<1>2. Types'
  BY <1>1 DEF SessionFails, Types, StateOK, StoresOK, Stored, Lock, Operation
<1>3. \A s \in Runs : s # r => Untouched(s) /\ LockKept(s)
  BY <1>1 DEF SessionFails, Untouched, LockKept, Types, StateOK
<1>4. LaunchAgrees(r)' /\ OperationAgrees(r)'
  BY <1>1 DEF SessionFails, Agrees, LaunchAgrees, OperationAgrees, Types, StateOK,
              Operation, Stored, Has
<1>5. \A m \in Stored' : RecordAgrees(m, r)'
  BY <1>1 DEF SessionFails, Agrees, LaunchAgrees, OperationAgrees, RecordAgrees,
              TreeFits, Types, StateOK, Operation, Stored, Has
<1>6. LockAgrees(r)'
  BY <1>1 DEF SessionFails, Agrees, LaunchAgrees, LockAgrees, OperationAgrees, Types,
              StateOK, Operation, Lock
<1>7. (NoEviction => Remembered(r)') /\ (Orphaned(r)' => Orphaned(r))
  BY <1>1 DEF SessionFails, Agrees, LaunchAgrees, LockAgrees, OperationAgrees,
              Remembered, Orphaned, Types, StateOK, Lock, Stored, Has
<1>8. NoEviction => LockNamed(r)'
  BY <1>1, LockNamedKept DEF SessionFails, SameRun, Recovering, Agrees, LockAgrees, Types, StateOK, Lock
<1> QED BY <1>2, <1>3, <1>4, <1>5, <1>6, <1>7, <1>8, StepOf DEF SessionFails, Agrees, NoEviction

LEMMA GitAppliesKeeps ==
  ASSUME CheckoutInv, NEW r \in Runs, GitApplies(r)
  PROVE  CheckoutInv'
<1>1. Types /\ Agrees(r)
  BY DEF CheckoutInv
<1>2. Types'
  <2>1. op[r] \in Operation
    BY <1>1 DEF Types, StateOK
  <2>2. [op[r] EXCEPT !.kind = "written"] \in Operation
    BY <2>1 DEF Operation
  <2>3. op' \in [Runs -> Operation]
    BY <1>1, <2>2 DEF GitApplies, Types, StateOK
  <2> QED BY <1>1, <2>3 DEF GitApplies, Types, StateOK, StoresOK, Stored, Lock
<1>3. \A s \in Runs : s # r => Untouched(s) /\ LockKept(s)
  BY <1>1 DEF GitApplies, IsCurrent, Untouched, LockKept, Types, StateOK
<1>4. LaunchAgrees(r)' /\ OperationAgrees(r)'
  BY <1>1 DEF GitApplies, IsCurrent, Agrees, LaunchAgrees, OperationAgrees, Types, StateOK,
              Operation, Stored, Has
<1>5. \A m \in Stored' : RecordAgrees(m, r)'
  BY <1>1 DEF GitApplies, IsCurrent, Agrees, LaunchAgrees, OperationAgrees, RecordAgrees,
              TreeFits, Types, StateOK, Operation, Stored, Has
<1>6. LockAgrees(r)'
  BY <1>1 DEF GitApplies, IsCurrent, Agrees, LaunchAgrees, LockAgrees, OperationAgrees, Types,
              StateOK, Operation, Lock
<1>7. (NoEviction => Remembered(r)') /\ (Orphaned(r)' => Orphaned(r))
  BY <1>1 DEF GitApplies, IsCurrent, Agrees, LaunchAgrees, LockAgrees, OperationAgrees,
              Remembered, Orphaned, Types, StateOK, Lock, Stored, Has
<1>8. NoEviction => LockNamed(r)'
  BY <1>1, LockNamedKept DEF GitApplies, SameRun, Recovering, Agrees, LockAgrees, Types, StateOK, Lock
<1> QED BY <1>2, <1>3, <1>4, <1>5, <1>6, <1>7, <1>8, StepOf DEF GitApplies, IsCurrent, Agrees, NoEviction

LEMMA RenameKeeps ==
  ASSUME CheckoutInv, NEW r \in Runs, Rename(r)
  PROVE  CheckoutInv'
<1>1. Types /\ Agrees(r)
  BY DEF CheckoutInv
<1>2. Types'
  <2>1. op[r] \in Operation
    BY <1>1 DEF Types, StateOK
  <2>2. [op[r] EXCEPT !.kind = "archived"] \in Operation
    BY <2>1 DEF Operation
  <2>3. op' \in [Runs -> Operation]
    BY <1>1, <2>2 DEF Rename, Types, StateOK
  <2> QED BY <1>1, <2>3 DEF Rename, Types, StateOK, StoresOK, Stored, Lock
<1>3. \A s \in Runs : s # r => Untouched(s) /\ LockKept(s)
  BY <1>1 DEF Rename, IsCurrent, Untouched, LockKept, Types, StateOK
<1>4. LaunchAgrees(r)' /\ OperationAgrees(r)'
  BY <1>1 DEF Rename, IsCurrent, Agrees, LaunchAgrees, OperationAgrees, Types, StateOK,
              Operation, Stored, Has
<1>5. \A m \in Stored' : RecordAgrees(m, r)'
  BY <1>1 DEF Rename, IsCurrent, Agrees, LaunchAgrees, OperationAgrees, RecordAgrees,
              TreeFits, Types, StateOK, Operation, Stored, Has
<1>6. LockAgrees(r)'
  BY <1>1 DEF Rename, IsCurrent, Agrees, LaunchAgrees, LockAgrees, OperationAgrees, Types,
              StateOK, Operation, Lock
<1>7. (NoEviction => Remembered(r)') /\ (Orphaned(r)' => Orphaned(r))
  BY <1>1 DEF Rename, IsCurrent, Agrees, LaunchAgrees, LockAgrees, OperationAgrees,
              Remembered, Orphaned, Types, StateOK, Lock, Stored, Has
<1>8. NoEviction => LockNamed(r)'
  BY <1>1, LockNamedKept DEF Rename, SameRun, Recovering, Agrees, LockAgrees, Types, StateOK, Lock
<1> QED BY <1>2, <1>3, <1>4, <1>5, <1>6, <1>7, <1>8, StepOf DEF Rename, IsCurrent, Agrees, NoEviction

LEMMA OperationRefusedKeeps ==
  ASSUME CheckoutInv, NEW r \in Runs, OperationRefused(r)
  PROVE  CheckoutInv'
<1>1. Types /\ Agrees(r)
  BY DEF CheckoutInv
<1>2. Types'
  BY <1>1 DEF OperationRefused, Released, NoOp, NoHash, IsCurrent, Types, StateOK, StoresOK, Stored, Lock, Operation
<1>3. \A s \in Runs : s # r => Untouched(s) /\ LockKept(s)
  BY <1>1 DEF OperationRefused, Released, NoOp, NoHash, IsCurrent, Untouched, LockKept, Types, StateOK
<1>4. LaunchAgrees(r)' /\ OperationAgrees(r)'
  BY <1>1 DEF OperationRefused, Released, NoOp, NoHash, IsCurrent, Agrees, LaunchAgrees, OperationAgrees, Types, StateOK,
              Operation, Stored, Has
<1>5. \A m \in Stored' : RecordAgrees(m, r)'
  BY <1>1 DEF OperationRefused, Released, NoOp, NoHash, IsCurrent, Agrees, LaunchAgrees, OperationAgrees, RecordAgrees,
              TreeFits, Types, StateOK, Operation, Stored, Has
<1>6. LockAgrees(r)'
  BY <1>1 DEF OperationRefused, Released, NoOp, NoHash, IsCurrent, Agrees, LaunchAgrees, LockAgrees, OperationAgrees, Types,
              StateOK, Operation, Lock
<1>7. (NoEviction => Remembered(r)') /\ (Orphaned(r)' => Orphaned(r))
  BY <1>1 DEF OperationRefused, Released, NoOp, NoHash, IsCurrent, Agrees, LaunchAgrees, LockAgrees, OperationAgrees,
              Remembered, Orphaned, Types, StateOK, Lock, Stored, Has
<1>8. NoEviction => LockNamed(r)'
  <2>1. Recovering(r)' <=> Recovering(r)
    BY <1>1 DEF OperationRefused, Released, Recovering, Types, StateOK, Lock
  <2> QED BY <1>1, <2>1, LockNamedKept DEF OperationRefused, SameRun, Agrees
<1> QED BY <1>2, <1>3, <1>4, <1>5, <1>6, <1>7, <1>8, StepOf DEF OperationRefused, Released, NoOp, NoHash, IsCurrent, Agrees, NoEviction

LEMMA EditKeeps ==
  ASSUME CheckoutInv, NEW r \in Runs, Edit(r)
  PROVE  CheckoutInv'
<1>1. Types /\ Agrees(r)
  BY DEF CheckoutInv
<1>2. Types'
  BY <1>1 DEF Edit, Types, StateOK, StoresOK, Stored, Lock, Operation
<1>3. \A s \in Runs : s # r => Untouched(s) /\ LockKept(s)
  BY <1>1 DEF Edit, Untouched, LockKept, Types, StateOK
<1>4. LaunchAgrees(r)' /\ OperationAgrees(r)'
  BY <1>1 DEF Edit, Agrees, LaunchAgrees, OperationAgrees, Types, StateOK,
              Operation, Stored, Has
<1>5. \A m \in Stored' : RecordAgrees(m, r)'
  BY <1>1 DEF Edit, Agrees, LaunchAgrees, OperationAgrees, RecordAgrees,
              TreeFits, Types, StateOK, Operation, Stored, Has
<1>6. LockAgrees(r)'
  BY <1>1 DEF Edit, Agrees, LaunchAgrees, LockAgrees, OperationAgrees, Types,
              StateOK, Operation, Lock
<1>7. (NoEviction => Remembered(r)') /\ (Orphaned(r)' => Orphaned(r))
  BY <1>1 DEF Edit, Agrees, LaunchAgrees, LockAgrees, OperationAgrees,
              Remembered, Orphaned, Types, StateOK, Lock, Stored, Has
<1>8. NoEviction => LockNamed(r)'
  BY <1>1, LockNamedKept DEF Edit, SameRun, Recovering, Agrees, LockAgrees, Types, StateOK, Lock
<1> QED BY <1>2, <1>3, <1>4, <1>5, <1>6, <1>7, <1>8, StepOf DEF Edit, Agrees, NoEviction

LEMMA OrphanDiesKeeps ==
  ASSUME CheckoutInv, NEW r \in Runs, OrphanDies(r)
  PROVE  CheckoutInv'
<1>1. Types /\ Agrees(r)
  BY DEF CheckoutInv
<1>2. Types'
  BY <1>1 DEF OrphanDies, Types, StateOK, StoresOK, Stored, Lock, Operation
<1>3. \A s \in Runs : s # r => Untouched(s) /\ LockKept(s)
  BY <1>1 DEF OrphanDies, Untouched, LockKept, Types, StateOK
<1>4. LaunchAgrees(r)' /\ OperationAgrees(r)'
  BY <1>1 DEF OrphanDies, Agrees, LaunchAgrees, OperationAgrees, Types, StateOK,
              Operation, Stored, Has
<1>5. \A m \in Stored' : RecordAgrees(m, r)'
  BY <1>1 DEF OrphanDies, Agrees, LaunchAgrees, OperationAgrees, RecordAgrees,
              TreeFits, Types, StateOK, Operation, Stored, Has
<1>6. LockAgrees(r)'
  BY <1>1 DEF OrphanDies, Agrees, LaunchAgrees, LockAgrees, OperationAgrees, Types,
              StateOK, Operation, Lock
<1>7. (NoEviction => Remembered(r)') /\ (Orphaned(r)' => Orphaned(r))
  BY <1>1 DEF OrphanDies, Agrees, LaunchAgrees, LockAgrees, OperationAgrees,
              Remembered, Orphaned, Types, StateOK, Lock, Stored, Has
<1>8. NoEviction => LockNamed(r)'
  BY <1>1, LockNamedKept DEF OrphanDies, SameRun, Recovering, Agrees, LockAgrees, Types, StateOK, Lock
<1> QED BY <1>2, <1>3, <1>4, <1>5, <1>6, <1>7, <1>8, StepOf DEF OrphanDies, Agrees, NoEviction

-----------------------------------------------------------------------------
(* Steps that change the record.                                           *)

LEMMA RunEndsKeeps ==
  ASSUME CheckoutInv, NEW r \in Runs, RunEnds(r)
  PROVE  CheckoutInv'
<1> DEFINE x == [runs.rec[r] EXCEPT !.status = "ended", !.review = NewReview(r)]
<1>1. Types /\ Agrees(r)
  BY DEF CheckoutInv
<1>2. Has(runs, r) /\ runs.rec[r] \in Record
  BY <1>1 DEF RunEnds, Agrees, LaunchAgrees, Types, StoresOK, Stored, Maps, Has
<1>3. x \in Record
  BY <1>1, <1>2 DEF Record, NewReview, NoReview, NoHash, ReviewStatus, Over
<1>4. runs' = Put(runs, r, x) /\ saved' = runs'
  BY <1>1 DEF RunEnds, SaveAll, Put, Types, StoresOK, Stored, Maps
<1>5. /\ runs' \in Maps /\ Ordered(runs') /\ runs'.rec[r] = x /\ Has(runs', r)
      /\ \A s \in Runs : s # r => runs'.rec[s] = runs.rec[s]
  BY <1>1, <1>2, <1>3, <1>4, PutKeeps DEF Types, StoresOK, Stored, Has
<1>6. Types'
  BY <1>1, <1>4, <1>5 DEF RunEnds, Types, StateOK, StoresOK, Stored, Lock
<1>7. \A s \in Runs : s # r => Untouched(s) /\ LockKept(s)
  BY <1>1, <1>4, <1>5 DEF RunEnds, Untouched, LockKept, Types, StateOK, Orphaned
<1>8. LaunchAgrees(r)' /\ OperationAgrees(r)'
  BY <1>1, <1>2, <1>4, <1>5 DEF RunEnds, Agrees, LaunchAgrees, OperationAgrees, Types, StateOK,
              Record, Stored, Has
<1>9. \A m \in Stored' : RecordAgrees(m, r)'
  <2>1. op[r].kind = "none" /\ applies[r] = 0
    BY <1>1 DEF RunEnds, Agrees, OperationAgrees, Types, StateOK
  <2>2. TreeFits(r, x.review.status)
    BY DEF TreeFits, NewReview, NoReview
  <2>3. UNCHANGED <<op, applies, tree>>
    BY DEF RunEnds
  <2> HIDE DEF x
  <2> QED BY <1>4, <1>5, <2>1, <2>2, <2>3 DEF RecordAgrees, TreeFits, Stored
<1>10. LockAgrees(r)'
  BY <1>1 DEF RunEnds, Agrees, LockAgrees, Types, StateOK
<1>11. (NoEviction => Remembered(r)') /\ (Orphaned(r)' => Orphaned(r))
  BY <1>1, <1>2, <1>4, <1>5 DEF RunEnds, Agrees, LaunchAgrees, Remembered, Orphaned, Types,
              StateOK, Record, Stored, Has
<1>12. NoEviction => LockNamed(r)'
  <2>1. runs'.rec[r].status = "ended" /\ saved' = runs'
    BY <1>2, <1>4, <1>5 DEF Record
  <2>2. NoEviction => ~Recovering(r)
    BY <1>1 DEF RunEnds, Agrees, LaunchAgrees, LockNamed, Stored
  <2> QED BY <2>1, <2>2 DEF RunEnds, LockNamed, NotSettled, Recovering, Stored
<1> QED BY <1>6, <1>7, <1>8, <1>9, <1>10, <1>11, <1>12, StepOf DEF RunEnds, Agrees, NoEviction

LEMMA StopRunKeeps ==
  ASSUME CheckoutInv, NEW r \in Runs, StopRun(r)
  PROVE  CheckoutInv'
<1> DEFINE x == [runs.rec[r] EXCEPT !.status = "stopping"]
<1>1. Types /\ Agrees(r)
  BY DEF CheckoutInv
<1>2. Has(runs, r) /\ runs.rec[r] \in Record
  BY <1>1 DEF StopRun, Agrees, LaunchAgrees, Types, StoresOK, Stored, Maps, Has
<1>3. x \in Record
  BY <1>1, <1>2 DEF Record, NewReview, NoReview, NoHash, ReviewStatus, Over
<1>4. runs' = Put(runs, r, x) /\ saved' = runs'
  BY <1>1 DEF StopRun, SaveAll, Put, Types, StoresOK, Stored, Maps
<1>5. /\ runs' \in Maps /\ Ordered(runs') /\ runs'.rec[r] = x /\ Has(runs', r)
      /\ \A s \in Runs : s # r => runs'.rec[s] = runs.rec[s]
  BY <1>1, <1>2, <1>3, <1>4, PutKeeps DEF Types, StoresOK, Stored, Has
<1>6. Types'
  BY <1>1, <1>4, <1>5 DEF StopRun, Types, StateOK, StoresOK, Stored, Lock
<1>7. \A s \in Runs : s # r => Untouched(s) /\ LockKept(s)
  BY <1>1, <1>4, <1>5 DEF StopRun, Untouched, LockKept, Types, StateOK, Orphaned
<1>8. LaunchAgrees(r)' /\ OperationAgrees(r)'
  BY <1>1, <1>2, <1>4, <1>5 DEF StopRun, Agrees, LaunchAgrees, OperationAgrees, Types, StateOK,
              Record, Stored, Has
<1>9. \A m \in Stored' : RecordAgrees(m, r)'
  BY <1>1, <1>2, <1>4, <1>5 DEF StopRun, Agrees, LaunchAgrees, OperationAgrees, RecordAgrees,
              TreeFits, NewReview, NoReview, Types, StateOK, Record, Stored
<1>10. LockAgrees(r)'
  BY <1>1 DEF StopRun, Agrees, LockAgrees, Types, StateOK
<1>11. (NoEviction => Remembered(r)') /\ (Orphaned(r)' => Orphaned(r))
  BY <1>1, <1>2, <1>4, <1>5 DEF StopRun, Agrees, LaunchAgrees, Remembered, Orphaned, Types,
              StateOK, Record, Stored, Has
<1>12. NoEviction => LockNamed(r)'
  <2>1. /\ runs'.rec[r].status = "stopping" /\ runs'.rec[r].acked = runs.rec[r].acked
        /\ saved' = runs' /\ runs.rec[r].status = "running"
    BY <1>2, <1>4, <1>5 DEF StopRun, Record
  <2>2. NoEviction => ~Recovering(r) /\ (NotSettled(runs, r) => agent[r] = "busy")
    BY <1>1, <2>1 DEF Agrees, LockNamed, Stored
  <2> QED BY <1>2, <2>1, <2>2 DEF StopRun, LockNamed, NotSettled, Recovering, Stored
<1> QED BY <1>6, <1>7, <1>8, <1>9, <1>10, <1>11, <1>12, StepOf DEF StopRun, Agrees, NoEviction

LEMMA AcknowledgeKeeps ==
  ASSUME CheckoutInv, NEW r \in Runs, Acknowledge(r)
  PROVE  CheckoutInv'
<1> DEFINE x == [runs.rec[r] EXCEPT !.acked = TRUE]
<1>1. Types /\ Agrees(r)
  BY DEF CheckoutInv
<1>2. Has(runs, r) /\ runs.rec[r] \in Record
  BY <1>1 DEF Acknowledge, Agrees, LaunchAgrees, Types, StoresOK, Stored, Maps, Has
<1>3. x \in Record
  BY <1>1, <1>2 DEF Record, NewReview, NoReview, NoHash, ReviewStatus, Over
<1>4. runs' = Put(runs, r, x) /\ saved' = runs'
  BY <1>1 DEF Acknowledge, SaveAll, Put, Types, StoresOK, Stored, Maps
<1>5. /\ runs' \in Maps /\ Ordered(runs') /\ runs'.rec[r] = x /\ Has(runs', r)
      /\ \A s \in Runs : s # r => runs'.rec[s] = runs.rec[s]
  <2> HIDE DEF x
  <2>1. runs \in Maps /\ Ordered(runs)
    BY <1>1 DEF Types, StoresOK, Stored
  <2>2. /\ runs' \in Maps /\ Ordered(runs') /\ runs'.rec[r] = x
        /\ \A s \in Runs : s # r => runs'.rec[s] = runs.rec[s]
    BY <1>2, <1>3, <1>4, <2>1, PutKeeps
  <2> QED BY <1>3, <2>2 DEF Has
<1>6. Types'
  BY <1>1, <1>4, <1>5 DEF Acknowledge, Types, StateOK, StoresOK, Stored, Lock
<1>7. \A s \in Runs : s # r => Untouched(s) /\ LockKept(s)
  <2>1. ASSUME NEW s \in Runs, s # r PROVE Untouched(s)
    BY <1>1, <1>4, <1>5, <2>1 DEF Acknowledge, Untouched, Types, StateOK
  <2>2. ASSUME NEW s \in Runs, s # r PROVE LockKept(s)
    <3>1. ~Orphaned(s)
      BY DEF Acknowledge, Orphaned
    <3> QED BY <1>1, <2>2, <3>1 DEF Acknowledge, LockKept, Types, StateOK, Lock
  <2> QED BY <2>1, <2>2
<1>8. LaunchAgrees(r)' /\ OperationAgrees(r)'
  BY <1>1, <1>2, <1>4, <1>5 DEF Acknowledge, Agrees, LaunchAgrees, OperationAgrees, Types, StateOK,
              Record, Stored, Has
<1>9. \A m \in Stored' : RecordAgrees(m, r)'
  BY <1>1, <1>2, <1>4, <1>5 DEF Acknowledge, Agrees, LaunchAgrees, OperationAgrees, RecordAgrees,
              TreeFits, NewReview, NoReview, Types, StateOK, Record, Stored
<1>10. LockAgrees(r)'
  BY <1>1 DEF Acknowledge, Agrees, LockAgrees, Types, StateOK
<1>11. (NoEviction => Remembered(r)') /\ (Orphaned(r)' => Orphaned(r))
  BY <1>1, <1>2, <1>4, <1>5 DEF Acknowledge, Agrees, LaunchAgrees, Remembered, Orphaned, Types,
              StateOK, Record, Stored, Has
<1>12. NoEviction => LockNamed(r)'
  <2>1. runs'.rec[r].acked /\ saved' = runs'
    BY <1>2, <1>4, <1>5 DEF Record
  <2>2. ~Recovering(r)'
    BY <1>1 DEF Acknowledge, Recovering, Lock
  <2> QED BY <2>1, <2>2 DEF LockNamed, NotSettled, Stored
<1> QED BY <1>6, <1>7, <1>8, <1>9, <1>10, <1>11, <1>12, StepOf DEF Acknowledge, Agrees, NoEviction

\* Marking a record reconciled changes nothing else.
LEMMA ReconciledKeeps ==
  ASSUME NEW m \in Maps, Ordered(m), NEW S
  PROVE  /\ Reconciled(m, S) \in Maps /\ Ordered(Reconciled(m, S))
         /\ \A s \in Runs : Reconciled(m, S).rec[s] =
              IF s \in S /\ Has(m, s) THEN [m.rec[s] EXCEPT !.reconciled = TRUE] ELSE m.rec[s]
         /\ \A s \in Runs : Has(Reconciled(m, S), s) <=> Has(m, s)
<1> DEFINE n == Reconciled(m, S)
<1>1. ASSUME NEW s \in Runs, Has(m, s) PROVE [m.rec[s] EXCEPT !.reconciled = TRUE] \in Record
  BY <1>1 DEF Maps, Has, Record
<1> DEFINE rec == [s \in Runs |-> IF s \in S /\ Has(m, s)
                                  THEN [m.rec[s] EXCEPT !.reconciled = TRUE] ELSE m.rec[s]]
<1>2. n = [m EXCEPT !.rec = rec]
  BY DEF Reconciled
<1>3. rec \in [Runs -> Record \cup {Absent}]
  BY <1>1 DEF Maps
<1>4. \A s \in Runs : rec[s] =
              IF s \in S /\ Has(m, s) THEN [m.rec[s] EXCEPT !.reconciled = TRUE] ELSE m.rec[s]
  OBVIOUS
<1> HIDE DEF n, rec
<1>6. n \in Maps /\ n.older = m.older /\ n.rec = rec
  BY <1>2, <1>3 DEF Maps
<1>7. \A s \in Runs : Has(n, s) <=> Has(m, s)
  BY <1>1, <1>4, <1>6 DEF Has
<1>8. Ordered(n)
  BY <1>6, <1>7 DEF Ordered, Kept
<1> QED BY <1>4, <1>6, <1>7, <1>8 DEF n

LEMMA CloseKeeps ==
  ASSUME CheckoutInv, NEW r \in Runs, NEW ok \in BOOLEAN, Close(r, ok)
  PROVE  CheckoutInv'
<1>1. Types /\ Agrees(r) /\ agent[r] = "none" /\ route[r] = "live"
  BY DEF CheckoutInv, Close
<1>2. /\ runs' \in Maps /\ Ordered(runs') /\ saved' \in Maps /\ Ordered(saved')
      /\ \A s \in Runs : s # r => runs'.rec[s] = runs.rec[s]
      /\ \A s \in Runs : s # r => saved'.rec[s] \in {saved.rec[s], runs'.rec[s]}
      /\ ~ok => UNCHANGED <<runs, saved>>
      /\ ok => saved' = runs'
      /\ ok => (Has(runs', r) <=> Has(runs, r))
      /\ ok /\ Has(runs', r) => /\ Has(runs, r)
                                /\ runs'.rec[r] = [runs.rec[r] EXCEPT !.reconciled = TRUE]
  <2>1. runs \in Maps /\ Ordered(runs) /\ saved \in Maps /\ Ordered(saved)
    BY <1>1 DEF Types, StoresOK, Stored
  <2>2. CASE ok
    <3> DEFINE n == Reconciled(runs, {r})
    <3>1. runs' = n /\ saved' = n
      BY <2>2 DEF Close, SaveAll
    <3>2. /\ n \in Maps /\ Ordered(n)
          /\ \A s \in Runs : n.rec[s] =
               IF s \in {r} /\ Has(runs, s)
               THEN [runs.rec[s] EXCEPT !.reconciled = TRUE] ELSE runs.rec[s]
          /\ \A s \in Runs : Has(n, s) <=> Has(runs, s)
      BY <2>1, ReconciledKeeps
    <3> HIDE DEF n
    <3> QED BY <2>2, <3>1, <3>2
  <2>3. CASE ~ok
    BY <2>1, <2>3 DEF Close
  <2> QED BY <2>2, <2>3
<1>3. Types'
  BY <1>1, <1>2 DEF Close, Released, Types, StateOK, StoresOK, Stored, Lock
<1>4. \A s \in Runs : s # r => Untouched(s) /\ LockKept(s)
  BY <1>1, <1>2 DEF Close, Released, Untouched, LockKept, Types, StateOK, Lock
<1>5. LaunchAgrees(r)'
  BY <1>1, <1>2 DEF Close, Agrees, LaunchAgrees, Types, StateOK, Has
<1>6. \A m \in Stored' : Has(m, r) =>
        \E n \in Stored : Has(n, r) /\ m.rec[r].review = n.rec[r].review
  <2>1. Has(runs, r) => [runs.rec[r] EXCEPT !.reconciled = TRUE].review = runs.rec[r].review
    BY <1>1 DEF Types, StoresOK, Stored, Maps, Has, Record
  <2> QED BY <1>2, <2>1 DEF Stored
<1>7. OperationAgrees(r)'
  BY <1>1, <1>2, <1>6 DEF Close, Agrees, OperationAgrees, Types, StoresOK, StateOK, Stored, Has,
              Record, Maps
<1>8. \A m \in Stored' : RecordAgrees(m, r)'
  BY <1>1, <1>6 DEF Close, Agrees, RecordAgrees, TreeFits, Has
<1>9. LockAgrees(r)'
  BY <1>1 DEF Close, Released, Agrees, LockAgrees, OperationAgrees, Types, StateOK
<1>10. NoEviction => Remembered(r)'
  BY <1>1, <1>2 DEF Close, Released, Agrees, LockAgrees, Remembered, Orphaned, Types, StateOK, Stored, Has
<1>11. NoEviction => LockNamed(r)'
  <2>1. SameRun(runs'.rec[r], runs.rec[r])
    <3>1. Has(runs, r) => [runs.rec[r] EXCEPT !.reconciled = TRUE].status = runs.rec[r].status
                       /\ [runs.rec[r] EXCEPT !.reconciled = TRUE].acked = runs.rec[r].acked
      BY <1>1 DEF Types, StoresOK, Stored, Maps, Has, Record
    <3>2. ok => (Has(runs', r) <=> Has(runs, r))
      BY <1>2
    <3> QED BY <1>2, <3>1, <3>2 DEF SameRun, Has
  <2>2. SameRun(saved'.rec[r], saved.rec[r]) \/ SameRun(saved'.rec[r], runs.rec[r])
    BY <1>2, <2>1 DEF SameRun
  <2>3. Recovering(r)' <=> Recovering(r)
    BY <1>1 DEF Close, Released, Recovering, Types, StateOK, Lock
  <2> QED BY <1>1, <2>1, <2>2, <2>3, LockNamedKept DEF Close, Agrees
<1> QED BY <1>3, <1>4, <1>5, <1>7, <1>8, <1>9, <1>10, <1>11, StepOf DEF Close, Agrees, NoEviction,
           Orphaned

\* evictOldRuns, then runs.set.
LEMMA InsertKeeps ==
  ASSUME Types, NEW r \in Runs, ~Has(runs, r), NEW x \in Record
  PROVE  /\ With(Evicted(runs), r, x) \in Maps /\ Ordered(With(Evicted(runs), r, x))
         /\ With(Evicted(runs), r, x).rec[r] = x
         /\ \A s \in Runs : s # r =>
              \/ With(Evicted(runs), r, x).rec[s] = runs.rec[s]
              \/ /\ ~NoEviction /\ IsTerminal(runs, s)
                 /\ With(Evicted(runs), r, x).rec[s] = Absent
<1> DEFINE n == Evicted(runs)
<1>1. runs \in Maps /\ Ordered(runs)
  BY DEF Types, StoresOK, Stored
<1>2. /\ n \in Maps /\ Ordered(n)
      /\ \A s \in Runs : n.rec[s] = runs.rec[s] \/ (n.rec[s] = Absent /\ IsTerminal(runs, s))
  BY <1>1, EvictedKeeps
<1>3. NoEviction => \A s \in Runs : n.rec[s] = runs.rec[s]
  BY <1>1, NothingEvicted
<1> HIDE DEF n
<1>4. ~Has(n, r)
  BY <1>2 DEF Has
<1>5. /\ With(n, r, x) \in Maps /\ Ordered(With(n, r, x))
      /\ With(n, r, x).rec[r] = x
      /\ \A s \in Runs : s # r => With(n, r, x).rec[s] = n.rec[s]
  BY <1>2, <1>4, WithKeeps
<1>6. ASSUME NEW s \in Runs, s # r
      PROVE  \/ With(n, r, x).rec[s] = runs.rec[s]
             \/ ~NoEviction /\ IsTerminal(runs, s) /\ With(n, r, x).rec[s] = Absent
  BY <1>2, <1>3, <1>5, <1>6
<1> QED BY <1>5, <1>6 DEF n

LEMMA StartRunKeeps ==
  ASSUME CheckoutInv, NEW r \in Runs, NEW announced \in BOOLEAN, StartRun(r, announced)
  PROVE  CheckoutInv'
<1> DEFINE x == [status |-> IF announced THEN "running" ELSE "stopping", acked |-> FALSE,
               reconciled |-> FALSE, review |-> NoReview]
<1>1. Types /\ Agrees(r)
  BY DEF CheckoutInv
<1>2. ~Has(runs, r)
  BY <1>1 DEF StartRun, Agrees, LaunchAgrees
<1>3. x \in Record
  BY DEF Record, NewReview, NoReview, NoHash, ReviewStatus, Over
<1>4. runs' = With(Evicted(runs), r, x) /\ saved' = runs'
  BY DEF StartRun, SaveAll
<1>5. /\ runs' \in Maps /\ Ordered(runs') /\ runs'.rec[r] = x
      /\ \A s \in Runs : s # r =>
           \/ runs'.rec[s] = runs.rec[s]
           \/ ~NoEviction /\ IsTerminal(runs, s) /\ runs'.rec[s] = Absent
  <2> HIDE DEF x
  <2> QED BY <1>1, <1>2, <1>3, <1>4, InsertKeeps
<1>6. Types'
  BY <1>1, <1>4, <1>5 DEF StartRun, Types, StateOK, StoresOK, Stored, Lock
<1>7. \A s \in Runs : s # r => Untouched(s) /\ LockKept(s)
  BY <1>1, <1>4, <1>5 DEF StartRun, Untouched, LockKept, Types, StateOK, Lock
<1>8. LaunchAgrees(r)' /\ OperationAgrees(r)' /\ op[r].kind = "none" /\ applies[r] = 0
  BY <1>1, <1>3, <1>4, <1>5 DEF StartRun, Agrees, LaunchAgrees, OperationAgrees, Types,
              StateOK, Stored, Has
<1>9. \A m \in Stored' : RecordAgrees(m, r)'
  <2>1. TreeFits(r, x.review.status)
    BY DEF TreeFits, NewReview, NoReview
  <2> HIDE DEF x
  <2> QED BY <1>4, <1>5, <1>8, <2>1 DEF StartRun, RecordAgrees, TreeFits, Stored
<1>10. LockAgrees(r)'
  BY <1>1, <1>8 DEF StartRun, Agrees, LockAgrees, Types, StateOK
<1>11. (NoEviction => Remembered(r)') /\ (Orphaned(r)' => Orphaned(r))
  <2>1. ~Orphaned(r)'
    BY <1>1 DEF StartRun, Orphaned, Types, StateOK
  <2>2. x.reconciled = FALSE
    OBVIOUS
  <2> HIDE DEF x
  <2>3. runs'.rec[r] = x /\ x # Absent
    BY <1>3, <1>5
  <2>4. Has(runs', r) /\ ~runs'.rec[r].reconciled
    BY <2>2, <2>3 DEF Has
  <2> QED BY <1>4, <2>1, <2>4 DEF Remembered, Stored
<1>12. NoEviction => LockNamed(r)'
  <2>1. NoEviction => ~Recovering(r)
    BY <1>1, <1>2 DEF Agrees, LockNamed, NotSettled, Stored
  <2>2. ~Recovering(r)' \/ Recovering(r)
    BY DEF StartRun, Recovering
  <2>3. agent'[r] = "busy"
    BY <1>1 DEF StartRun, Types, StateOK
  <2> QED BY <2>1, <2>2, <2>3 DEF LockNamed
<1> QED BY <1>6, <1>7, <1>8, <1>9, <1>10, <1>11, <1>12, StepOf DEF StartRun, Agrees, NoEviction

LEMMA WorktreeFailsKeeps ==
  ASSUME CheckoutInv, NEW r \in Runs, WorktreeFails(r)
  PROVE  CheckoutInv'
<1> DEFINE x == [status |-> "failed", acked |-> FALSE, reconciled |-> TRUE, review |-> NewReview(r)]
<1>1. Types /\ Agrees(r)
  BY DEF CheckoutInv
<1>2. ~Has(runs, r)
  BY <1>1 DEF WorktreeFails, Agrees, LaunchAgrees
<1>3. x \in Record
  BY DEF Record, NewReview, NoReview, NoHash, ReviewStatus, Over
<1>4. runs' = With(Evicted(runs), r, x) /\ saved' = runs'
  BY DEF WorktreeFails, RecordFailure, Released, SaveAll
<1>5. /\ runs' \in Maps /\ Ordered(runs') /\ runs'.rec[r] = x
      /\ \A s \in Runs : s # r =>
           \/ runs'.rec[s] = runs.rec[s]
           \/ ~NoEviction /\ IsTerminal(runs, s) /\ runs'.rec[s] = Absent
  <2> HIDE DEF x
  <2> QED BY <1>1, <1>2, <1>3, <1>4, InsertKeeps
<1>6. Types'
  BY <1>1, <1>4, <1>5 DEF WorktreeFails, RecordFailure, Released, Types, StateOK, StoresOK, Stored, Lock
<1>7. \A s \in Runs : s # r => Untouched(s) /\ LockKept(s)
  <2>1. \A s \in Runs : s # r => LockKept(s)
    BY <1>1 DEF WorktreeFails, Released, LockKept, Types, StateOK, Lock
  <2>2. ASSUME NEW s \in Runs, s # r PROVE Untouched(s)
    BY <1>1, <1>4, <1>5, <2>2 DEF WorktreeFails, Untouched, Types, StateOK
  <2> QED BY <2>1, <2>2
<1>8. LaunchAgrees(r)' /\ OperationAgrees(r)' /\ op[r].kind = "none" /\ applies[r] = 0
  BY <1>1, <1>3, <1>4, <1>5 DEF WorktreeFails, RecordFailure, Released, Agrees, LaunchAgrees, OperationAgrees, Types,
              StateOK, Stored, Has
<1>9. \A m \in Stored' : RecordAgrees(m, r)'
  <2>1. TreeFits(r, x.review.status)
    BY DEF TreeFits, NewReview, NoReview
  <2> HIDE DEF x
  <2> QED BY <1>4, <1>5, <1>8, <2>1 DEF WorktreeFails, RecordAgrees, TreeFits, Stored
<1>10. LockAgrees(r)'
  BY <1>1, <1>8 DEF WorktreeFails, RecordFailure, Released, Agrees, LockAgrees, Types, StateOK
<1>11. (NoEviction => Remembered(r)') /\ (Orphaned(r)' => Orphaned(r))
  BY <1>1, <1>3, <1>4, <1>5 DEF WorktreeFails, RecordFailure, Released, Agrees, LaunchAgrees, Remembered, Orphaned, Types,
              StateOK, Stored, Has
<1>12. NoEviction => LockNamed(r)'
  <2>1. NoEviction => ~Recovering(r)
    BY <1>1, <1>2 DEF Agrees, LockNamed, NotSettled, Stored
  <2>2. ~Recovering(r)' \/ Recovering(r)
    BY <1>1 DEF WorktreeFails, Released, Recovering, Types, StateOK, Lock
  <2>3. runs'.rec[r].status = "failed"
    BY <1>5
  <2> QED BY <1>4, <2>1, <2>2, <2>3 DEF LockNamed, NotSettled, Stored
<1> QED BY <1>6, <1>7, <1>8, <1>9, <1>10, <1>11, <1>12, StepOf DEF WorktreeFails, Agrees, NoEviction

LEMMA LaunchFailsKeeps ==
  ASSUME CheckoutInv, NEW r \in Runs, LaunchFails(r)
  PROVE  CheckoutInv'
<1> DEFINE x == [status |-> "failed", acked |-> FALSE, reconciled |-> TRUE, review |-> NewReview(r)]
<1>1. Types /\ Agrees(r)
  BY DEF CheckoutInv
<1>2. ~Has(runs, r)
  BY <1>1 DEF LaunchFails, Agrees, LaunchAgrees
<1>3. x \in Record
  BY DEF Record, NewReview, NoReview, NoHash, ReviewStatus, Over
<1>4. runs' = With(Evicted(runs), r, x) /\ saved' = runs'
  BY DEF LaunchFails, RecordFailure, Released, SaveAll
<1>5. /\ runs' \in Maps /\ Ordered(runs') /\ runs'.rec[r] = x
      /\ \A s \in Runs : s # r =>
           \/ runs'.rec[s] = runs.rec[s]
           \/ ~NoEviction /\ IsTerminal(runs, s) /\ runs'.rec[s] = Absent
  <2> HIDE DEF x
  <2> QED BY <1>1, <1>2, <1>3, <1>4, InsertKeeps
<1>6. Types'
  BY <1>1, <1>4, <1>5 DEF LaunchFails, RecordFailure, Released, Types, StateOK, StoresOK, Stored, Lock
<1>7. \A s \in Runs : s # r => Untouched(s) /\ LockKept(s)
  <2>1. \A s \in Runs : s # r => LockKept(s)
    BY <1>1 DEF LaunchFails, Released, LockKept, Types, StateOK, Lock
  <2>2. ASSUME NEW s \in Runs, s # r PROVE Untouched(s)
    BY <1>1, <1>4, <1>5, <2>2 DEF LaunchFails, Untouched, Types, StateOK
  <2> QED BY <2>1, <2>2
<1>8. LaunchAgrees(r)' /\ OperationAgrees(r)' /\ op[r].kind = "none" /\ applies[r] = 0
  BY <1>1, <1>3, <1>4, <1>5 DEF LaunchFails, RecordFailure, Released, Agrees, LaunchAgrees, OperationAgrees, Types,
              StateOK, Stored, Has
<1>9. \A m \in Stored' : RecordAgrees(m, r)'
  <2>1. TreeFits(r, x.review.status)
    BY DEF TreeFits, NewReview, NoReview
  <2> HIDE DEF x
  <2> QED BY <1>4, <1>5, <1>8, <2>1 DEF LaunchFails, RecordAgrees, TreeFits, Stored
<1>10. LockAgrees(r)'
  BY <1>1, <1>8 DEF LaunchFails, RecordFailure, Released, Agrees, LockAgrees, Types, StateOK
<1>11. (NoEviction => Remembered(r)') /\ (Orphaned(r)' => Orphaned(r))
  BY <1>1, <1>3, <1>4, <1>5 DEF LaunchFails, RecordFailure, Released, Agrees, LaunchAgrees, Remembered, Orphaned, Types,
              StateOK, Stored, Has
<1>12. NoEviction => LockNamed(r)'
  <2>1. NoEviction => ~Recovering(r)
    BY <1>1, <1>2 DEF Agrees, LockNamed, NotSettled, Stored
  <2>2. ~Recovering(r)' \/ Recovering(r)
    BY <1>1 DEF LaunchFails, Released, Recovering, Types, StateOK, Lock
  <2>3. runs'.rec[r].status = "failed"
    BY <1>5
  <2> QED BY <1>4, <2>1, <2>2, <2>3 DEF LockNamed, NotSettled, Stored
<1> QED BY <1>6, <1>7, <1>8, <1>9, <1>10, <1>11, <1>12, StepOf DEF LaunchFails, Agrees, NoEviction

LEMMA RollbackKeeps ==
  ASSUME CheckoutInv, NEW r \in Runs, Rollback(r) \/ RollbackFails(r)
  PROVE  CheckoutInv'
<1>1. Types /\ Agrees(r)
  BY DEF CheckoutInv
<1>2. /\ runs' = Without(runs, {r}) /\ saved' \in {saved, runs'}
      /\ agent[r] = "none" /\ route[r] = "rollback" /\ route'[r] \in {"failing", "stranded"}
      /\ route'[r] = "failing" => saved' = runs'
  BY <1>1 DEF Rollback, RollbackFails, SaveAll, Types, StateOK
<1>3. /\ runs' \in Maps /\ Ordered(runs') /\ ~Has(runs', r)
      /\ \A s \in Runs : s # r => runs'.rec[s] = runs.rec[s]
  BY <1>1, <1>2, WithoutKeeps DEF Types, StoresOK, Stored, Has
<1>4. Types'
  BY <1>1, <1>2, <1>3 DEF Rollback, RollbackFails, Types, StateOK, StoresOK, Stored, Lock
<1>5. \A s \in Runs : s # r => Untouched(s) /\ LockKept(s)
  BY <1>1, <1>2, <1>3 DEF Rollback, RollbackFails, Untouched, LockKept, Types, StateOK
<1>6. LaunchAgrees(r)' /\ OperationAgrees(r)'
  BY <1>1, <1>2, <1>3 DEF Rollback, RollbackFails, Agrees, LaunchAgrees, OperationAgrees,
              Types, StateOK
<1>7. \A m \in Stored' : RecordAgrees(m, r)'
  BY <1>1, <1>2, <1>3 DEF Rollback, RollbackFails, Agrees, RecordAgrees, TreeFits, Stored, Has
<1>8. LockAgrees(r)'
  BY <1>1 DEF Rollback, RollbackFails, Agrees, LockAgrees, Types, StateOK
<1>9. (NoEviction => Remembered(r)') /\ (Orphaned(r)' => Orphaned(r))
  BY <1>1, <1>2 DEF Rollback, RollbackFails, Agrees, LaunchAgrees, Remembered, Orphaned
<1>10. NoEviction => LockNamed(r)'
  <2>1. NoEviction => ~Recovering(r)
    BY <1>1, <1>2 DEF Agrees, LockAgrees, LockNamed, NotSettled, Recovering, Stored
  <2>2. NoEviction => ~NotSettled(saved, r)
    BY <1>1, <1>2, <2>1 DEF Agrees, LockNamed, Stored
  <2>3. NoEviction => ~NotSettled(runs, r)'
    BY <1>3 DEF NotSettled
  <2> QED BY <1>2, <2>1, <2>2, <2>3
          DEF Rollback, RollbackFails, LockNamed, NotSettled, Recovering, Stored, Has
<1> QED BY <1>4, <1>5, <1>6, <1>7, <1>8, <1>9, <1>10, StepOf DEF Rollback, RollbackFails, Agrees,
           NoEviction

-----------------------------------------------------------------------------
(* Steps of a review operation that change the review.                     *)

Review == [status : ReviewStatus, hash : {NoHash} \cup (0 .. MaxEdits)]

\* What a review may be followed by.
Follows(r, review, next) ==
  /\ TreeFits(r, review.status)
  /\ \/ next = NoOp
     \/ next.kind = "reviewing" /\ review.status = "available"
     \/ /\ next.kind = "locked" /\ tree[r] = "there"
        /\ next.current => next.shown = review.hash
     \/ /\ next.kind = "checking" /\ review.status = "applying"
        /\ tree[r] = "there" /\ next.patch = next.shown
     \/ next.kind = "decided" /\ review.status = "discarding" /\ tree[r] = "there"
  /\ applies[r] > 0 =>
       next = NoOp /\ review.status \in {"applying", "applied", "applyUncertain"}

\* The lock moves with the operation only: an apply takes it free and gives it back.
LockMoves(r) ==
  /\ \/ lock' = lock
     \/ op'[r] = NoOp /\ lock' = Released(r, "review")
     \/ lock = NoLock /\ lock' = [owner |-> r, kind |-> "review"]
  /\ op'[r].kind \in {"locked", "checking"} => lock' = [owner |-> r, kind |-> "review"]

\* A step changes r's review and operation in memory, and then on disk or not.
Reviews(r, review, next) ==
  /\ StoresOK' /\ Has(runs', r)
  /\ runs'.rec[r] = [runs.rec[r] EXCEPT !.review = review]
  /\ runs'.rec[r].review = review
  /\ \A s \in Runs : s # r => runs'.rec[s] = runs.rec[s]
  /\ op' \in [Runs -> Operation]
  /\ \A s \in Runs : s # r => op'[s] = op[s]
  /\ op'[r] \in {next, NoOp}
  /\ \/ saved' = runs'
     \/ saved' = saved /\ op'[r].kind \in {"none", "reviewing", "locked"}

LEMMA NoOpIsOne == NoOp \in Operation /\ NoOp.kind = "none"
BY DEF NoOp, NoHash, Operation

LEMMA SaveReviews ==
  ASSUME Types, NEW r \in Runs, Has(runs, r), NEW review \in Review, NEW next \in Operation,
         SaveReview(r, review, next)
  PROVE  Reviews(r, review, next)
<1> DEFINE x == [runs.rec[r] EXCEPT !.review = review]
<1>1. runs \in Maps /\ Ordered(runs) /\ saved \in Maps /\ Ordered(saved)
  BY DEF Types, StoresOK, Stored
<1>2. runs.rec[r] \in Record
  BY <1>1 DEF Maps, Has
<1>3. x \in Record /\ x.review = review
  BY <1>2 DEF Record, Review
<1>4. runs' = Put(runs, r, x)
  BY <1>1 DEF SaveReview, Put, Maps
<1>5. \/ saved' = runs' /\ op' = [op EXCEPT ![r] = next]
      \/ saved' = saved /\ op' = [op EXCEPT ![r] = NoOp]
  BY DEF SaveReview
<1>6. x = [runs.rec[r] EXCEPT !.review = review]
  OBVIOUS
<1> HIDE DEF x
<1>7. /\ runs' \in Maps /\ Ordered(runs') /\ runs'.rec[r] = x
      /\ \A s \in Runs : s # r => runs'.rec[s] = runs.rec[s]
  BY <1>1, <1>3, <1>4, PutKeeps
<1>8. Has(runs', r)
  BY <1>3, <1>7 DEF Has
<1>9. StoresOK'
  BY <1>1, <1>5, <1>7 DEF StoresOK, Stored
<1>10. /\ op' \in [Runs -> Operation] /\ op'[r] \in {next, NoOp}
       /\ \A s \in Runs : s # r => op'[s] = op[s]
       /\ saved' = runs' \/ (saved' = saved /\ op'[r] = NoOp)
  <2>1. op \in [Runs -> Operation]
    BY DEF Types, StateOK
  <2> QED BY <1>5, <2>1, NoOpIsOne
<1> QED BY <1>3, <1>6, <1>7, <1>8, <1>9, <1>10, NoOpIsOne DEF Reviews

\* A review that is there is left as it is, and one that is not made available.
LEMMA EnsureReviews ==
  ASSUME Types, NEW r \in Runs, Has(runs, r), runs.rec[r].review \in Review,
         NEW next \in Operation, next.kind \in {"none", "reviewing", "locked"}, Ensure(r, next)
  PROVE  IF runs.rec[r].review.status = "none"
         THEN Reviews(r, [NoReview EXCEPT !.status = "available"], next)
         ELSE Reviews(r, runs.rec[r].review, next)
<1>1. CASE runs.rec[r].review.status = "none"
  <2>1. [NoReview EXCEPT !.status = "available"] \in Review
    BY DEF NoReview, NoHash, Review, ReviewStatus
  <2> QED BY <1>1, <2>1, SaveReviews DEF Ensure
<1>2. CASE runs.rec[r].review.status # "none"
  <2>1. /\ op' = [op EXCEPT ![r] = next] /\ runs' = runs /\ saved' = saved
        /\ op \in [Runs -> Operation] /\ StoresOK
    BY <1>2 DEF Ensure, Types, StateOK
  <2>2. runs.rec[r] = [runs.rec[r] EXCEPT !.review = runs.rec[r].review]
    BY <2>1 DEF StoresOK, Stored, Maps, Has, Record
  <2>3. StoresOK'
    BY <2>1 DEF StoresOK, Stored
  <2>4. /\ op' \in [Runs -> Operation] /\ op'[r] = next
        /\ \A s \in Runs : s # r => op'[s] = op[s]
    BY <2>1
  <2> QED BY <1>2, <2>1, <2>2, <2>3, <2>4 DEF Reviews, Has
<1> QED BY <1>1, <1>2

LEMMA ReviewKeeps ==
  ASSUME CheckoutInv, NEW r \in Runs, Has(runs, r), NEW review \in Review, NEW next \in Operation,
         Reviews(r, review, next), Follows(r, review, next), LockMoves(r),
         agent[r] # "busy", route[r] \in {"live", "done"},
         UNCHANGED <<target, route, agent, session, tree, edit, applies>>
  PROVE  CheckoutInv'
<1>1. Types /\ Agrees(r)
  BY DEF CheckoutInv
<1>2. /\ StoresOK' /\ Has(runs', r)
      /\ runs'.rec[r] = [runs.rec[r] EXCEPT !.review = review]
      /\ runs'.rec[r].review = review
      /\ \A s \in Runs : s # r => runs'.rec[s] = runs.rec[s]
      /\ saved' \in {saved, runs'}
  BY DEF Reviews
<1>3. NoOp \in Operation /\ NoOp.kind = "none"
  BY NoOpIsOne
<1>4. /\ op' \in [Runs -> Operation]
      /\ \A s \in Runs : s # r => op'[s] = op[s]
      /\ \/ saved' = runs'
         \/ saved' = saved /\ op'[r].kind \in {"none", "reviewing", "locked"}
      /\ Follows(r, review, op'[r])
  BY DEF Reviews, Follows
<1>5. /\ lock \in Lock \cup {NoLock} /\ lock' \in Lock \cup {NoLock}
      /\ \/ lock' = lock
         \/ lock = [owner |-> r, kind |-> "review"] /\ lock' = NoLock
         \/ lock = NoLock /\ lock' = [owner |-> r, kind |-> "review"]
      /\ op'[r].kind \in {"locked", "checking"} => lock' = [owner |-> r, kind |-> "review"]
  BY <1>1 DEF LockMoves, Released, Types, StateOK, Lock
<1>6. Types'
  BY <1>1, <1>2, <1>4, <1>5 DEF Types, StateOK
<1>7. ASSUME NEW s \in Runs, s # r PROVE Untouched(s) /\ LockKept(s)
  <2>1. LockKept(s)
    BY <1>5, <1>7 DEF LockKept, Lock
  <2>2. Untouched(s)
    BY <1>1, <1>2, <1>4, <1>7 DEF Untouched
  <2> QED BY <2>1, <2>2
<1>8. LaunchAgrees(r)'
  BY <1>1, <1>2 DEF Agrees, LaunchAgrees
<1>9. OperationAgrees(r)'
  BY <1>1, <1>2, <1>3, <1>4 DEF Agrees, OperationAgrees, Follows, Types, StateOK
<1>10. \A m \in Stored' : RecordAgrees(m, r)'
  <2>1. RecordAgrees(runs, r)'
    BY <1>2, <1>3, <1>4 DEF RecordAgrees, Follows, TreeFits
  <2>2. ASSUME saved' = saved, op'[r].kind \in {"none", "reviewing", "locked"}
        PROVE  RecordAgrees(saved, r)'
    BY <1>1, <2>2 DEF Agrees, Stored, RecordAgrees, TreeFits, Has
  <2> QED BY <1>4, <2>1, <2>2 DEF Stored
<1>11. LockAgrees(r)'
  BY <1>1, <1>3, <1>4, <1>5 DEF Agrees, LockAgrees, Follows, Lock
<1>12. (NoEviction => Remembered(r)') /\ (Orphaned(r)' => Orphaned(r))
  <2>1. Orphaned(r)' => Orphaned(r)
    BY DEF Orphaned
  <2>2. ASSUME NoEviction PROVE Remembered(r)'
    <3>1. Remembered(r)
      BY <1>1, <2>2 DEF Agrees
    <3>2. /\ runs'.rec[r].status = runs.rec[r].status
          /\ runs'.rec[r].acked = runs.rec[r].acked
          /\ runs'.rec[r].reconciled = runs.rec[r].reconciled
      <4>1. runs.rec[r] \in Record
        BY <1>1 DEF Types, StoresOK, Stored, Maps, Has
      <4> QED BY <1>2, <4>1 DEF Record
    <3>3. Orphaned(r) => lock' = lock
      BY <1>5, <3>1 DEF Remembered
    <3> QED BY <1>2, <1>4, <2>1, <3>1, <3>2, <3>3 DEF Remembered, Stored, Has
  <2> QED BY <2>1, <2>2
<1>13. NoEviction => LockNamed(r)'
  <2>1. SameRun(runs'.rec[r], runs.rec[r])
    <3>1. runs.rec[r] \in Record
      BY <1>1 DEF Types, StoresOK, Stored, Maps, Has
    <3>2. /\ runs'.rec[r].status = runs.rec[r].status
          /\ runs'.rec[r].acked = runs.rec[r].acked
      BY <1>2, <3>1 DEF Record
    <3> QED BY <1>2, <3>2 DEF SameRun, Has
  <2>2. SameRun(saved'.rec[r], saved.rec[r]) \/ SameRun(saved'.rec[r], runs.rec[r])
    BY <1>2, <2>1 DEF SameRun
  <2>3. Recovering(r)' <=> Recovering(r)
    BY <1>5 DEF Recovering, Lock
  <2> QED BY <1>1, <2>1, <2>2, <2>3, LockNamedKept DEF Agrees
<1> QED BY <1>6, <1>7, <1>8, <1>9, <1>10, <1>11, <1>12, <1>13, StepOf DEF Agrees, NoEviction

\* The same of a change by an apply or a discard.
LEMMA ChangeKeeps ==
  ASSUME CheckoutInv, NEW r \in Runs, Has(runs, r), NEW review \in Review, NEW next \in Operation,
         Change(r, review, next), Follows(r, review, next),
         next.kind = "checking" => lock = [owner |-> r, kind |-> "review"],
         next.kind \in {"none", "checking", "decided"},
         agent[r] # "busy", route[r] \in {"live", "done"},
         UNCHANGED <<target, route, agent, session, tree, edit, applies>>
  PROVE  CheckoutInv'
<1>1. Reviews(r, review, next)
  BY SaveReviews DEF Change, CheckoutInv
<1>2. LockMoves(r)
  BY <1>1, NoOpIsOne DEF Change, LockMoves, Reviews
<1> QED BY <1>1, <1>2, ReviewKeeps

\* A run that a review operation may begin on is over, by itself or interrupted, and its
\* patch was never applied.
LEMMA MayOperateMeans ==
  ASSUME CheckoutInv, NEW r \in Runs, MayOperate(r)
  PROVE  /\ Has(runs, r) /\ tree[r] = "there" /\ applies[r] = 0
         /\ runs.rec[r].review \in Review
         /\ runs.rec[r].review.status \in {"none", "available"}
         /\ agent[r] # "busy" /\ route[r] \in {"live", "done"}
<1>1. Types /\ Agrees(r)
  BY DEF CheckoutInv
<1>2. /\ Has(runs, r) /\ tree[r] = "there"
      /\ runs.rec[r].review.status \in {"none", "available"}
      /\ runs.rec[r].status \in Over /\ route[r] # "rollback"
  BY DEF MayOperate, IsTerminal
<1>3. runs.rec[r].review \in Review
  BY <1>1, <1>2 DEF Types, StoresOK, Stored, Maps, Has, Record, Review
<1>4. applies[r] = 0
  BY <1>1, <1>2 DEF Agrees, RecordAgrees, Stored, Types, StateOK
<1>5. agent[r] # "busy" /\ route[r] \in {"live", "done"}
  BY <1>1, <1>2 DEF Agrees, LaunchAgrees, Stored, Over, Types, StateOK
<1> QED BY <1>2, <1>3, <1>4, <1>5

\* So the review may be made available, and a handler go on with it.
LEMMA EnsureKeeps ==
  ASSUME CheckoutInv, NEW r \in Runs, MayOperate(r), NEW next \in Operation, Ensure(r, next),
         \/ next = NoOp
         \/ next.kind = "reviewing"
         \/ /\ next.kind = "locked"
            /\ next.current => /\ runs.rec[r].review.status = "available"
                               /\ next.shown = runs.rec[r].review.hash,
         LockMoves(r), UNCHANGED <<target, route, agent, session, tree, edit, applies>>
  PROVE  CheckoutInv'
<1>1. /\ Has(runs, r) /\ tree[r] = "there" /\ applies[r] = 0
      /\ runs.rec[r].review \in Review
      /\ runs.rec[r].review.status \in {"none", "available"}
      /\ agent[r] # "busy" /\ route[r] \in {"live", "done"}
  BY MayOperateMeans
<1>2. Types
  BY DEF CheckoutInv
<1>3. CASE runs.rec[r].review.status = "none"
  <2> DEFINE review == [NoReview EXCEPT !.status = "available"]
  <2>1. review \in Review /\ review.status = "available"
    BY DEF NoReview, NoHash, Review, ReviewStatus
  <2>2. Reviews(r, review, next)
    BY <1>1, <1>2, <1>3, EnsureReviews, NoOpIsOne
  <2> HIDE DEF review
  <2>3. Follows(r, review, next)
    BY <1>1, <1>3, <2>1 DEF Follows, TreeFits
  <2> QED BY <1>1, <2>1, <2>2, <2>3, ReviewKeeps
<1>4. CASE runs.rec[r].review.status = "available"
  <2>1. Reviews(r, runs.rec[r].review, next)
    BY <1>1, <1>2, <1>4, EnsureReviews, NoOpIsOne
  <2>2. Follows(r, runs.rec[r].review, next)
    BY <1>1, <1>4 DEF Follows, TreeFits
  <2> QED BY <1>1, <2>1, <2>2, ReviewKeeps
<1> QED BY <1>1, <1>3, <1>4

\* A review operation under way is a finished run's.
LEMMA OperationMeans ==
  ASSUME CheckoutInv, NEW r \in Runs, op[r].kind # "none", IsCurrent(r)
  PROVE  /\ Has(runs, r) /\ op[r] \in Operation /\ runs.rec[r].review \in Review
         /\ agent[r] # "busy" /\ route[r] \in {"live", "done"}
         /\ applies[r] > 0 => applies[r] = 1 /\ op[r].kind = "written"
         /\ LockAgrees(r) /\ OperationAgrees(r) /\ RecordAgrees(runs, r)
<1>1. Types /\ Agrees(r)
  BY DEF CheckoutInv
<1>2. Has(runs, r)
  BY DEF IsCurrent
<1>3. runs.rec[r].review \in Review /\ op[r] \in Operation
  BY <1>1, <1>2 DEF Types, StoresOK, StateOK, Stored, Maps, Has, Record, Review
<1>4. OperationAgrees(r) /\ LockAgrees(r) /\ RecordAgrees(runs, r)
  BY <1>1 DEF Agrees, Stored
<1> QED BY <1>2, <1>3, <1>4 DEF OperationAgrees

LEMMA ReviewBeginsKeeps ==
  ASSUME CheckoutInv, NEW r \in Runs, ReviewBegins(r)
  PROVE  CheckoutInv'
<1> DEFINE next == [NoOp EXCEPT !.kind = "reviewing"]
<1>1. /\ MayOperate(r) /\ Ensure(r, next)
      /\ UNCHANGED <<target, lock, route, agent, session, tree, edit, applies>>
  BY DEF ReviewBegins
<1>2. next \in Operation /\ next.kind = "reviewing"
  BY DEF Operation, NoOp, NoHash
<1> HIDE DEF next
<1>3. op'[r] \in {next, NoOp}
  BY <1>1, <1>2, MayOperateMeans, EnsureReviews DEF Reviews, CheckoutInv
<1>4. LockMoves(r)
  BY <1>1, <1>2, <1>3, NoOpIsOne DEF LockMoves
<1> QED BY <1>1, <1>2, <1>4, EnsureKeeps

LEMMA ReviewPatchKeeps ==
  ASSUME CheckoutInv, NEW r \in Runs, ReviewPatch(r)
  PROVE  CheckoutInv'
<1> DEFINE review == [runs.rec[r].review EXCEPT !.hash = edit[r]]
<1>1. /\ op[r].kind = "reviewing" /\ Has(runs, r) /\ SaveReview(r, review, NoOp)
      /\ UNCHANGED <<target, lock, route, agent, session, tree, edit, applies>>
  BY DEF ReviewPatch
<1>2. Types /\ OperationAgrees(r) /\ RecordAgrees(runs, r)
  BY DEF CheckoutInv, Agrees, Stored
<1>3. /\ runs.rec[r].review \in Review /\ runs.rec[r].review.status = "available"
      /\ agent[r] # "busy" /\ route[r] \in {"live", "done"}
      /\ TreeFits(r, "available") /\ applies[r] = 0
      /\ edit[r] \in 0 .. MaxEdits
  BY <1>1, <1>2 DEF OperationAgrees, RecordAgrees, Types, StoresOK, StateOK, Stored, Maps,
     Has, Record, Review
<1>4. review \in Review /\ review.status = "available"
  BY <1>3 DEF Review
<1> HIDE DEF review
<1>5. Reviews(r, review, NoOp)
  BY <1>1, <1>2, <1>4, SaveReviews, NoOpIsOne
<1>6. Follows(r, review, NoOp) /\ LockMoves(r)
  BY <1>1, <1>3, <1>4, <1>5, NoOpIsOne DEF Follows, LockMoves, Reviews
<1> QED BY <1>1, <1>3, <1>4, <1>5, <1>6, ReviewKeeps, NoOpIsOne

LEMMA ApplyLocksKeeps ==
  ASSUME CheckoutInv, NEW r \in Runs, NEW current \in BOOLEAN, NEW shown \in NoHash .. MaxEdits,
         ApplyLocks(r, current, shown)
  PROVE  CheckoutInv'
<1> DEFINE next == [kind |-> "locked", current |-> current, shown |-> shown, patch |-> NoHash]
<1>1. /\ lock = NoLock /\ MayOperate(r) /\ Confirms(r, current, shown) /\ Ensure(r, next)
      /\ lock' = IF op'[r] = NoOp THEN lock ELSE [owner |-> r, kind |-> "review"]
      /\ UNCHANGED <<target, route, agent, session, tree, edit, applies>>
  BY DEF ApplyLocks
<1>2. /\ next \in Operation /\ next.kind = "locked"
      /\ next.current = current /\ next.shown = shown
  BY DEF Operation, NoHash
<1> HIDE DEF next
<1>3. op'[r] \in {next, NoOp}
  BY <1>1, <1>2, MayOperateMeans, EnsureReviews DEF Reviews, CheckoutInv
<1>4. LockMoves(r)
  BY <1>1, <1>2, <1>3, NoOpIsOne DEF LockMoves
<1>5. next.current => /\ runs.rec[r].review.status = "available"
                      /\ next.shown = runs.rec[r].review.hash
  BY <1>1, <1>2 DEF Confirms
<1> QED BY <1>1, <1>2, <1>4, <1>5, EnsureKeeps

LEMMA ApplyDecidesKeeps ==
  ASSUME CheckoutInv, NEW r \in Runs, ApplyDecides(r)
  PROVE  CheckoutInv'
<1> DEFINE review == [runs.rec[r].review EXCEPT !.status = "applying"]
           next == [op[r] EXCEPT !.kind = "checking", !.patch = edit[r]]
<1>1. /\ op[r].kind = "locked" /\ IsCurrent(r) /\ runs.rec[r].review.hash = edit[r]
      /\ Change(r, review, next)
      /\ UNCHANGED <<target, route, agent, session, tree, edit, applies>>
  BY DEF ApplyDecides, Transition
<1>2. /\ Has(runs, r) /\ op[r] \in Operation /\ runs.rec[r].review \in Review
      /\ agent[r] # "busy" /\ route[r] \in {"live", "done"}
      /\ applies[r] > 0 => applies[r] = 1 /\ op[r].kind = "written"
      /\ LockAgrees(r) /\ OperationAgrees(r) /\ RecordAgrees(runs, r)
  BY <1>1, OperationMeans
<1>3. edit[r] \in 0 .. MaxEdits
  BY DEF CheckoutInv, Types, StateOK
<1>4. review \in Review /\ review.status = "applying"
  BY <1>2 DEF Review, ReviewStatus
<1>5. next \in Operation /\ next.kind = "checking" /\ next.patch = edit[r]
      /\ next.shown = op[r].shown
  BY <1>2, <1>3 DEF Operation
<1>6. op[r].shown = edit[r]
  BY <1>1, <1>2 DEF OperationAgrees, IsCurrent
<1> HIDE DEF review, next
<1>7. Follows(r, review, next) /\ lock = [owner |-> r, kind |-> "review"]
  BY <1>1, <1>2, <1>4, <1>5, <1>6 DEF Follows, TreeFits, OperationAgrees, LockAgrees
<1> QED BY <1>1, <1>2, <1>4, <1>5, <1>7, ChangeKeeps

LEMMA DiscardDecidesKeeps ==
  ASSUME CheckoutInv, NEW r \in Runs, DiscardDecides(r)
  PROVE  CheckoutInv'
<1> DEFINE review == [runs.rec[r].review EXCEPT !.status = "discarding"]
           next == [NoOp EXCEPT !.kind = "decided", !.current = TRUE]
<1>1. /\ MayOperate(r)
      /\ UNCHANGED <<target, route, agent, session, tree, edit, applies>>
  BY DEF DiscardDecides
<1>2. /\ Has(runs, r) /\ tree[r] = "there" /\ applies[r] = 0
      /\ runs.rec[r].review \in Review
      /\ agent[r] # "busy" /\ route[r] \in {"live", "done"}
  BY <1>1, MayOperateMeans
<1>3. CASE runs.rec[r].review.status = "none"
  <2>1. Ensure(r, NoOp) /\ lock' = lock
    BY <1>3 DEF DiscardDecides
  <2>2. op'[r] = NoOp
    BY <1>2, <2>1, EnsureReviews, NoOpIsOne DEF Reviews, CheckoutInv
  <2>3. LockMoves(r)
    BY <2>1, <2>2, NoOpIsOne DEF LockMoves
  <2> QED BY <1>1, <2>1, <2>3, EnsureKeeps, NoOpIsOne
<1>4. CASE runs.rec[r].review.status # "none"
  <2>1. Change(r, review, next)
    BY <1>4 DEF DiscardDecides, Transition
  <2>2. review \in Review /\ review.status = "discarding"
    BY <1>2 DEF Review, ReviewStatus
  <2>3. next \in Operation /\ next.kind = "decided"
    BY DEF Operation, NoOp, NoHash
  <2> HIDE DEF review, next
  <2>4. Follows(r, review, next)
    BY <1>2, <2>2, <2>3 DEF Follows, TreeFits
  <2> QED BY <1>1, <1>2, <2>1, <2>2, <2>3, <2>4, ChangeKeeps
<1> QED BY <1>3, <1>4

\* The steps after which the operation is over.
LEMMA OutcomeKeeps ==
  ASSUME CheckoutInv, NEW r \in Runs,
         ApplyCheckFails(r) \/ ApplyEnds(r) \/ RenameFails(r) \/ DiscardEnds(r)
  PROVE  CheckoutInv'
<1>1. PICK status \in ReviewStatus :
        /\ Transition(r, status, NoOp) /\ IsCurrent(r) /\ op[r].kind # "none"
        /\ \/ op[r].kind = "checking" /\ status = "available"
           \/ op[r].kind = "written" /\ status \in {"applied", "applyUncertain"}
           \/ op[r].kind = "decided" /\ status \in {"available", "discardUncertain"}
           \/ op[r].kind = "archived" /\ status \in {"discarded", "discardUncertain"}
  BY DEF ApplyCheckFails, ApplyEnds, RenameFails, DiscardEnds, ReviewStatus
<1> DEFINE review == [runs.rec[r].review EXCEPT !.status = status]
<1>2. Change(r, review, NoOp)
  BY <1>1 DEF Transition
<1>3. UNCHANGED <<target, route, agent, session, tree, edit, applies>>
  BY DEF ApplyCheckFails, ApplyEnds, RenameFails, DiscardEnds
<1>4. /\ Has(runs, r) /\ op[r] \in Operation /\ runs.rec[r].review \in Review
      /\ agent[r] # "busy" /\ route[r] \in {"live", "done"}
      /\ applies[r] > 0 => applies[r] = 1 /\ op[r].kind = "written"
      /\ LockAgrees(r) /\ OperationAgrees(r) /\ RecordAgrees(runs, r)
  BY <1>1, OperationMeans
<1>5. review \in Review /\ review.status = status
  BY <1>4 DEF Review
<1> HIDE DEF review
<1>6. Follows(r, review, NoOp)
  BY <1>1, <1>4, <1>5 DEF Follows, TreeFits, OperationAgrees
<1> QED BY <1>2, <1>3, <1>4, <1>5, <1>6, ChangeKeeps, NoOpIsOne

-----------------------------------------------------------------------------
(* A reboot.                                                               *)

\* What a boot makes of a record.
Woken(x) == [x EXCEPT !.status = IF @ \in {"running", "stopping"} THEN "interrupted" ELSE @,
                      !.review = RecoveredReview(@)]

LEMMA WokenMeans ==
  ASSUME NEW x \in Record
  PROVE  /\ Woken(x) \in Record
         /\ Woken(x).status = IF x.status \in {"running", "stopping"} THEN "interrupted"
                              ELSE x.status
         /\ Woken(x).review = RecoveredReview(x.review)
         /\ Woken(x).acked = x.acked /\ Woken(x).reconciled = x.reconciled
<1>1. RecoveredReview(x.review) \in
        [status : ReviewStatus, hash : {NoHash} \cup (0 .. MaxEdits)]
  BY DEF Record, RecoveredReview, ReviewStatus
<1> QED BY <1>1 DEF Woken, Record, Over

LEMMA RecoveredKeeps ==
  ASSUME NEW m \in Maps, Ordered(m)
  PROVE  /\ RecoveredRecords(m) \in Maps /\ Ordered(RecoveredRecords(m))
         /\ RecoveredRecords(m).older = m.older
         /\ \A s \in Runs : Has(m, s) => RecoveredRecords(m).rec[s] = Woken(m.rec[s])
         /\ \A s \in Runs : Has(RecoveredRecords(m), s) <=> Has(m, s)
<1> DEFINE n == RecoveredRecords(m)
           rec == [s \in Runs |-> IF ~Has(m, s) THEN Absent ELSE Woken(m.rec[s])]
<1>1. n = [m EXCEPT !.rec = rec]
  BY DEF RecoveredRecords, Woken
<1>2. \A s \in Runs : Has(m, s) => Woken(m.rec[s]) \in Record
  BY WokenMeans DEF Maps, Has
<1>3. rec \in [Runs -> Record \cup {Absent}]
  BY <1>2
<1>4. \A s \in Runs : rec[s] = IF ~Has(m, s) THEN Absent ELSE Woken(m.rec[s])
  OBVIOUS
<1> HIDE DEF n, rec
<1>5. n \in Maps /\ n.rec = rec /\ n.older = m.older
  BY <1>1, <1>3 DEF Maps
<1>6. \A s \in Runs : Has(n, s) <=> Has(m, s)
  BY <1>2, <1>4, <1>5 DEF Has
<1>7. Ordered(n)
  BY <1>5, <1>6 DEF Ordered, Kept
<1> QED BY <1>4, <1>5, <1>6, <1>7 DEF n

\* What the records say after a boot.
Booted(s) ==
  Has(saved, s) =>
    /\ runs'.rec[s] \in Record
    /\ runs'.rec[s].status = IF saved.rec[s].status \in {"running", "stopping"}
                             THEN "interrupted" ELSE saved.rec[s].status
    /\ runs'.rec[s].review = RecoveredReview(saved.rec[s].review)
    /\ runs'.rec[s].acked = saved.rec[s].acked

\* The boot finds interrupted what is unsettled on disk ...
LEMMA InterruptedAre ==
  ASSUME saved \in Maps, Ordered(saved), NEW s \in Runs
  PROVE  s \in Interrupted(RecoveredRecords(saved)) <=> NotSettled(saved, s)
<1> DEFINE m == RecoveredRecords(saved)
<1>1. /\ Has(m, s) <=> Has(saved, s)
      /\ Has(saved, s) => m.rec[s] = Woken(saved.rec[s]) /\ saved.rec[s] \in Record
  BY RecoveredKeeps DEF Maps, Has
<1> HIDE DEF m
<1>2. Has(saved, s) =>
        /\ m.rec[s].acked = saved.rec[s].acked
        /\ m.rec[s].status = "interrupted" <=> saved.rec[s].status \notin {"ended", "failed"}
  BY <1>1, WokenMeans DEF Record, Over
<1>3. s \in Interrupted(m) <=> NotSettled(saved, s)
  BY <1>1, <1>2 DEF Interrupted, NotSettled
<1> QED BY <1>3 DEF m

\* ... which is one run at most: each would hold the lock.
LEMMA OneUnsettled ==
  ASSUME CheckoutInv, NoEviction, NEW r \in Runs, NEW s \in Runs,
         NotSettled(saved, r), NotSettled(saved, s)
  PROVE  r = s
<1>1. ASSUME NEW t \in Runs, NotSettled(saved, t)
      PROVE  lock = [owner |-> t, kind |-> "active"] \/ Recovering(t)
  <2>1. agent[t] = "busy" \/ Recovering(t)
    BY <1>1 DEF CheckoutInv, Agrees, LockNamed, Stored
  <2>2. agent[t] = "busy" => lock = [owner |-> t, kind |-> "active"]
    BY <1>1 DEF CheckoutInv, Agrees, LaunchAgrees, LockAgrees, NotSettled
  <2> QED BY <2>1, <2>2
<1>2. lock.owner = r /\ lock.owner = s
  BY <1>1 DEF Recovering
<1> QED BY <1>2

\* So the lock it seeds is that run's.
LEMMA RebootNames ==
  ASSUME CheckoutInv, NoEviction, RebootServer, NEW s \in Runs
  PROVE  Recovering(s)' <=> NotSettled(saved, s)
<1> DEFINE I == Interrupted(RecoveredRecords(saved))
<1>1. \A t \in Runs : t \in I <=> NotSettled(saved, t)
  BY InterruptedAre DEF CheckoutInv, Types, StoresOK, Stored
<1>2. I \subseteq Runs /\ SeedLock(RecoveredRecords(saved))
  BY DEF Interrupted, RebootServer
<1>3. \/ I = {} /\ lock' = NoLock
      \/ \E t \in I : lock' = [owner |-> t, kind |-> "recovery"]
  BY <1>2 DEF SeedLock
<1> HIDE DEF I
<1>4. CASE NotSettled(saved, s)
  <2>1. I = {s}
    BY <1>1, <1>2, <1>4, OneUnsettled
  <2> QED BY <1>3, <1>4, <2>1 DEF Recovering
<1>5. CASE ~NotSettled(saved, s)
  BY <1>1, <1>3, <1>5 DEF Recovering, Lock
<1> QED BY <1>4, <1>5

LEMMA RebootKeeps ==
  ASSUME CheckoutInv, RebootServer
  PROVE  CheckoutInv'
<1> DEFINE m == RecoveredRecords(saved)
<1>1. PICK closed \in SUBSET {r \in Runs : Has(m, r) /\ ~m.rec[r].reconciled} :
        /\ SaveAll(Reconciled(m, closed))
        /\ session' = [r \in Runs |-> IF r \in closed \/ session[r] = "made" THEN "gone"
                                      ELSE session[r]]
  BY DEF RebootServer
<1>2. PICK survivors \in SUBSET {r \in Runs : agent[r] # "none"} :
        agent' = [r \in Runs |-> IF r \in survivors THEN "orphan" ELSE "none"]
  BY DEF RebootServer
<1>3. Types /\ \A s \in Runs : Agrees(s)
  BY DEF CheckoutInv
<1>4. saved \in Maps /\ Ordered(saved)
  BY <1>3 DEF Types, StoresOK, Stored
<1>5. /\ m \in Maps /\ Ordered(m)
      /\ \A s \in Runs : Has(saved, s) => m.rec[s] = Woken(saved.rec[s])
      /\ \A s \in Runs : Has(m, s) <=> Has(saved, s)
  BY <1>4, RecoveredKeeps
<1>6. /\ SeedLock(m)
      /\ route' = [r \in Runs |-> IF route[r] = "none" THEN "none" ELSE "done"]
      /\ op' = [r \in Runs |-> NoOp]
      /\ UNCHANGED <<target, tree, edit, applies>>
  BY DEF RebootServer
<1> HIDE DEF m
<1> DEFINE n == Reconciled(m, closed)
<1>7. runs' = n /\ saved' = n
  BY <1>1 DEF SaveAll
<1>8. /\ n \in Maps /\ Ordered(n)
      /\ \A s \in Runs : n.rec[s] =
           IF s \in closed /\ Has(m, s) THEN [m.rec[s] EXCEPT !.reconciled = TRUE] ELSE m.rec[s]
      /\ \A s \in Runs : Has(n, s) <=> Has(m, s)
  BY <1>5, ReconciledKeeps
<1> HIDE DEF n
<1>9. \A s \in Runs : Has(runs', s) <=> Has(saved, s)
  BY <1>5, <1>7, <1>8
<1>10. ASSUME NEW s \in Runs PROVE Booted(s)
  <2>1. CASE ~Has(saved, s)
    BY <2>1 DEF Booted
  <2>2. CASE Has(saved, s)
    <3>1. saved.rec[s] \in Record
      BY <1>4, <2>2 DEF Maps, Has
    <3>2. m.rec[s] = Woken(saved.rec[s]) /\ Has(m, s)
      BY <1>5, <2>2
    <3>3. /\ m.rec[s] \in Record
          /\ m.rec[s].status = IF saved.rec[s].status \in {"running", "stopping"}
                               THEN "interrupted" ELSE saved.rec[s].status
          /\ m.rec[s].review = RecoveredReview(saved.rec[s].review)
          /\ m.rec[s].acked = saved.rec[s].acked
      BY <3>1, <3>2, WokenMeans
    <3>4. runs'.rec[s] \in {m.rec[s], [m.rec[s] EXCEPT !.reconciled = TRUE]}
      BY <1>7, <1>8
    <3>5. [m.rec[s] EXCEPT !.reconciled = TRUE] \in Record
      BY <3>3 DEF Record
    <3> QED BY <3>3, <3>4, <3>5 DEF Booted, Record
  <2> QED BY <2>1, <2>2
<1>11. ASSUME NEW s \in Runs, Has(saved, s), ~saved.rec[s].reconciled
       PROVE  s \in closed \/ ~runs'.rec[s].reconciled
  <2>1. saved.rec[s] \in Record
    BY <1>4, <1>11 DEF Maps, Has
  <2>2. m.rec[s].reconciled = saved.rec[s].reconciled
    BY <1>5, <1>11, <2>1, WokenMeans
  <2> QED BY <1>7, <1>8, <1>11, <2>2
<1>12. lock' \in Lock \cup {NoLock}
  BY <1>6 DEF SeedLock, Interrupted, Lock
<1>13. Types'
  <2>1. StoresOK'
    BY <1>7, <1>8 DEF StoresOK, Stored
  <2> QED BY <1>1, <1>2, <1>3, <1>6, <1>12, <2>1, NoOpIsOne DEF Types, StateOK
<1>14. ASSUME NEW s \in Runs PROVE LaunchAgrees(s)' /\ OperationAgrees(s)' /\ LockAgrees(s)'
  BY <1>1, <1>2, <1>3, <1>6, <1>7, <1>9, NoOpIsOne
  DEF Agrees, LaunchAgrees, OperationAgrees, LockAgrees, Types, StateOK
<1>15. ASSUME NEW s \in Runs PROVE \A k \in Stored' : RecordAgrees(k, s)'
  <2>1. RecordAgrees(saved, s)
    BY <1>3 DEF Agrees, Stored
  <2>2. op'[s].kind = "none"
    BY <1>6, NoOpIsOne
  <2>3. Has(runs', s) => Has(saved, s) /\ Booted(s)
    BY <1>9, <1>10
  <2>4. ASSUME Has(runs', s)
        PROVE  runs'.rec[s].review.status =
                 IF saved.rec[s].review.status = "applying" THEN "applyUncertain"
                 ELSE IF saved.rec[s].review.status = "discarding" THEN "discardUncertain"
                 ELSE saved.rec[s].review.status
    <3>1. saved.rec[s].review \in
            [status : ReviewStatus, hash : {NoHash} \cup (0 .. MaxEdits)]
      BY <1>4, <2>3, <2>4 DEF Maps, Has, Record
    <3> QED BY <2>3, <2>4, <3>1 DEF Booted, RecoveredReview
  <2>5. applies'[s] > 0 => applies[s] > 0
    BY <1>6
  <2>6. RecordAgrees(runs, s)'
    BY <1>6, <2>1, <2>2, <2>3, <2>4, <2>5 DEF RecordAgrees, TreeFits
  <2> QED BY <1>7, <2>6 DEF Stored
<1>16. ASSUME NoEviction, NEW s \in Runs PROVE Remembered(s)'
  <2>1. Remembered(s) /\ LaunchAgrees(s)
    BY <1>3, <1>16 DEF Agrees
  <2>2. ASSUME Orphaned(s)'
        PROVE  /\ lock' # NoLock /\ lock'.kind = "recovery"
               /\ Has(runs', s) /\ runs'.rec[s].status = "interrupted" /\ ~runs'.rec[s].acked
    <3>1. target[s] = "currentCheckout" /\ agent[s] \in {"busy", "orphan"}
      BY <1>2, <1>3, <1>6, <2>2 DEF Orphaned, Types, StateOK
    <3>2. /\ Has(saved, s) /\ ~saved.rec[s].acked
          /\ saved.rec[s].status \in {"running", "stopping", "interrupted"}
      BY <2>1, <3>1 DEF Remembered, Orphaned, LaunchAgrees, Stored
    <3>3. Has(runs', s) /\ runs'.rec[s].status = "interrupted" /\ ~runs'.rec[s].acked
      BY <1>9, <1>10, <3>2 DEF Booted
    <3>4. s \in Interrupted(m)
      <4>1. saved.rec[s] \in Record
        BY <1>4, <3>2 DEF Maps, Has
      <4> QED BY <1>5, <3>1, <3>2, <4>1, WokenMeans DEF Interrupted
    <3>5. lock' \in Lock /\ lock'.kind = "recovery"
      BY <1>6, <3>4 DEF SeedLock, Interrupted, Lock
    <3> QED BY <3>3, <3>5
  <2>3. ASSUME route'[s] = "live" \/ session'[s] = "announced"
        PROVE  Has(runs', s) /\ ~runs'.rec[s].reconciled
    <3>1. session[s] = "announced" /\ s \notin closed
      BY <1>1, <1>6, <2>3
    <3>2. Has(saved, s) /\ ~saved.rec[s].reconciled
      BY <2>1, <3>1 DEF Remembered, Stored
    <3> QED BY <1>9, <1>11, <3>1, <3>2
  <2> QED BY <1>7, <2>2, <2>3 DEF Remembered, Stored
<1>17. ASSUME NoEviction PROVE OneOrphan'
  <2>1. ASSUME NEW s \in Runs, Orphaned(s)'
        PROVE  target[s] = "currentCheckout" /\ agent[s] \in {"busy", "orphan"}
    BY <1>2, <1>3, <1>6, <2>1 DEF Orphaned, Types, StateOK
  <2>2. ASSUME NEW s \in Runs, target[s] = "currentCheckout", agent[s] = "busy"
        PROVE  lock = [owner |-> s, kind |-> "active"]
    BY <1>3, <2>2 DEF Agrees, LaunchAgrees, LockAgrees
  <2>3. ASSUME NEW s \in Runs, Orphaned(s)
        PROVE  lock.kind = "recovery"
    BY <1>3, <1>17, <2>3 DEF Agrees, Remembered
  <2>4. ASSUME NEW r \in Runs, NEW s \in Runs, Orphaned(r)', Orphaned(s)' PROVE r = s
    <3>1. CASE agent[r] = "orphan" /\ agent[s] = "orphan"
      BY <1>17, <2>1, <2>4, <3>1 DEF CheckoutInv, OneOrphan, Orphaned
    <3>2. CASE agent[r] = "busy" /\ agent[s] = "busy"
      <4>1. lock.owner = r /\ lock.owner = s
        BY <2>1, <2>2, <2>4, <3>2
      <4> QED BY <4>1
    <3>3. CASE agent[r] # agent[s]
      <4>1. lock.kind = "active" /\ lock.kind = "recovery"
        BY <2>1, <2>2, <2>3, <2>4, <3>3 DEF Orphaned
      <4> QED BY <4>1
    <3> QED BY <2>1, <2>4, <3>1, <3>2, <3>3
  <2> QED BY <2>4 DEF OneOrphan
<1>18. ASSUME NEW s \in Runs
       PROVE  NotSettled(runs, s)' <=> NotSettled(saved, s)
  <2>1. Has(saved, s) => saved.rec[s] \in Record
    BY <1>4 DEF Maps, Has
  <2> QED BY <1>6, <1>9, <1>10, <2>1 DEF NotSettled, Booted, Record, Over
<1>19. ASSUME NEW s \in Runs, NotSettled(saved, s)
       PROVE  runs'.rec[s].status = "interrupted"
  <2>1. saved.rec[s] \in Record
    BY <1>4, <1>19 DEF Maps, Has, NotSettled
  <2> QED BY <1>10, <1>19, <2>1 DEF NotSettled, Booted, Record, Over
<1>20. ASSUME NoEviction, NEW s \in Runs PROVE LockNamed(s)'
  <2>1. Recovering(s)' <=> NotSettled(saved, s)
    BY <1>20, RebootNames
  <2>2. \A k \in Stored' : k = runs'
    BY <1>7 DEF Stored
  <2> QED BY <1>18, <1>19, <2>1, <2>2 DEF LockNamed
<1> QED BY <1>13, <1>14, <1>15, <1>16, <1>17, <1>20 DEF CheckoutInv, Agrees, NoEviction

-----------------------------------------------------------------------------
(* The invariant, and what it shows.                                       *)

LEMMA InitCheckoutInv == CheckoutInit => CheckoutInv
<1> SUFFICES ASSUME CheckoutInit PROVE CheckoutInv
  OBVIOUS
<1>1. runs = Empty /\ saved = Empty /\ Empty \in Maps /\ (\A r \in Runs : ~Has(Empty, r))
  BY DEF CheckoutInit, Empty, Maps, Has
<1>2. Ordered(Empty)
  BY <1>1 DEF Ordered, Kept, Empty
<1>3. Types
  BY <1>1, <1>2, NoOpIsOne DEF CheckoutInit, Types, StoresOK, StateOK, Stored
<1>4. \A r \in Runs : Agrees(r)
  BY <1>1, NoOpIsOne DEF CheckoutInit, Agrees, LaunchAgrees, OperationAgrees, LockAgrees,
     RecordAgrees, Remembered, Orphaned, LockNamed, NotSettled, Recovering, Lock, Stored
<1>5. OneOrphan
  BY DEF CheckoutInit, OneOrphan, Orphaned
<1> QED BY <1>3, <1>4, <1>5 DEF CheckoutInv

LEMMA StepCheckoutInv == CheckoutInv /\ [CheckoutNext]_checkoutVars => CheckoutInv'
<1> SUFFICES ASSUME CheckoutInv, [CheckoutNext]_checkoutVars PROVE CheckoutInv'
  OBVIOUS
<1>1. CASE UNCHANGED checkoutVars
  BY <1>1 DEF checkoutVars, CheckoutInv, Types, StoresOK, StateOK, Stored, Agrees, LaunchAgrees,
     OperationAgrees, LockAgrees, RecordAgrees, TreeFits, Remembered, Orphaned, OneOrphan,
     LockNamed, NotSettled, Recovering, Has, NoEviction
<1>2. CASE RebootServer
  BY <1>2, RebootKeeps
<1>3. ASSUME NEW r \in Runs,
             \/ Launch(r) \/ WorktreeMade(r) \/ WorktreeFails(r)
             \/ \E announced \in BOOLEAN : StartRun(r, announced)
             \/ SessionFails(r) \/ RunEnds(r) \/ StopRun(r) \/ Rollback(r)
             \/ RollbackFails(r) \/ LaunchFails(r)
             \/ \E ok \in BOOLEAN : Close(r, ok)
      PROVE  CheckoutInv'
  BY <1>3, LaunchKeeps, WorktreeMadeKeeps, WorktreeFailsKeeps, StartRunKeeps,
     SessionFailsKeeps, RunEndsKeeps, StopRunKeeps, RollbackKeeps, LaunchFailsKeeps, CloseKeeps
<1>4. ASSUME NEW r \in Runs,
             \/ ReviewBegins(r) \/ ReviewPatch(r) \/ OperationRefused(r)
             \/ \E current \in BOOLEAN, shown \in NoHash .. MaxEdits :
                  ApplyLocks(r, current, shown)
             \/ ApplyDecides(r) \/ ApplyCheckFails(r) \/ GitApplies(r) \/ ApplyEnds(r)
             \/ DiscardDecides(r) \/ Rename(r) \/ RenameFails(r) \/ DiscardEnds(r)
             \/ Edit(r) \/ OrphanDies(r) \/ Acknowledge(r)
      PROVE  CheckoutInv'
  BY <1>4, ReviewBeginsKeeps, ReviewPatchKeeps, OperationRefusedKeeps, ApplyLocksKeeps, ApplyDecidesKeeps,
     OutcomeKeeps, GitAppliesKeeps, DiscardDecidesKeeps, RenameKeeps, EditKeeps,
     OrphanDiesKeeps, AcknowledgeKeeps
<1> QED BY <1>1, <1>2, <1>3, <1>4 DEF CheckoutNext

\* The invariant holds at every moment of every behaviour.
THEOREM AgreesAlways == CheckoutSpec => []CheckoutInv
BY InitCheckoutInv, StepCheckoutInv, PTL DEF CheckoutSpec

\* Types: for any launches, edits, reboots and failing writes, evictions included, the
\* records in memory and on disk are a map in insertion order.
THEOREM TypeCorrect == CheckoutSpec => []CheckoutTypeOK
<1>1. CheckoutInv => CheckoutTypeOK
  BY DEF CheckoutInv, Types, StoresOK, StateOK, Stored, Maps, Operation, CheckoutTypeOK
<1> QED BY <1>1, AgreesAlways, PTL

\* git apply writes the patch the confirming user was shown, though the worktree, the
\* review and its record (which may be evicted) changed since; and never twice.  So it is
\* for interrupted runs too, whose review is only made available when it is asked for and
\* whose agent may have survived the server and still edits the worktree.
THEOREM AppliesWhatWasShown == CheckoutSpec => []AppliedAsReviewed
<1>1. CheckoutInv => AppliedAsReviewed
  BY DEF CheckoutInv, Types, StateOK, Agrees, OperationAgrees, AppliedAsReviewed
<1> QED BY <1>1, AgreesAlways, PTL

\* A record never says of a worktree what is not so on disk, neither the record in
\* memory nor the one a reboot would find: evictions and failing writes included, and
\* the reviews of interrupted runs, which no end of the run made available.
THEOREM RecordsTellTheTruth == CheckoutSpec => []ReviewMatchesTree
<1>1. CheckoutInv => ReviewMatchesTree
  BY DEF CheckoutInv, Agrees, RecordAgrees, Stored, ReviewMatchesTree
<1> QED BY <1>1, AgreesAlways, PTL

\* As long as nothing is evicted, a run in the checkout, an agent that survived the
\* server and a git apply never write there together, whatever the number of launches
\* and reboots.
THEOREM LockExcludes ==
  ASSUME Cardinality(Runs) <= MaxRetained
  PROVE  CheckoutSpec => []OneWriterPerCheckout
<1>1. ASSUME CheckoutInv PROVE OneWriterPerCheckout
  <2>1. NoEviction
    BY DEF NoEviction
  <2>2. ASSUME NEW r \in CheckoutWriters
        PROVE  /\ r \in Runs /\ lock # NoLock
               /\ \/ lock = [owner |-> r, kind |-> "active"]
                  \/ lock = [owner |-> r, kind |-> "review"]
                  \/ lock.kind = "recovery" /\ Orphaned(r)
    <3>1. r \in Runs /\ Agrees(r) /\ Remembered(r) /\ Types
      BY <1>1, <2>1, <2>2 DEF CheckoutInv, Agrees, CheckoutWriters
    <3>2. [owner |-> r, kind |-> "active"] \in Lock /\ [owner |-> r, kind |-> "review"] \in Lock
      BY <3>1 DEF Lock
    <3>3. CASE op[r].kind \in {"checking", "written"}
      BY <3>1, <3>2, <3>3 DEF Agrees, LockAgrees
    <3>4. CASE target[r] = "currentCheckout" /\ agent[r] = "busy"
      BY <3>1, <3>2, <3>4 DEF Agrees, LaunchAgrees, LockAgrees
    <3>5. CASE target[r] = "currentCheckout" /\ agent[r] = "orphan"
      BY <3>1, <3>5 DEF Remembered, Orphaned
    <3> QED BY <2>2, <3>1, <3>3, <3>4, <3>5 DEF CheckoutWriters, Types, StateOK
  <2>3. ASSUME NEW r \in CheckoutWriters, NEW s \in CheckoutWriters PROVE r = s
    BY <1>1, <2>1, <2>2 DEF CheckoutInv, OneOrphan
  <2>4. CASE CheckoutWriters = {}
    BY <2>4, FS_EmptySet DEF OneWriterPerCheckout
  <2>5. CASE CheckoutWriters # {}
    <3>1. PICK r \in CheckoutWriters : TRUE
      BY <2>5
    <3>2. CheckoutWriters = {r}
      BY <2>3, <3>1
    <3> QED BY <3>2, FS_Singleton DEF OneWriterPerCheckout
  <2> QED BY <2>4, <2>5
<1> QED BY <1>1, AgreesAlways, PTL

\* A held recovery lock is let go by the acknowledgement of the run it names, and by no
\* launch, review or failing write.
LEMMA OnlyAcknowledgeReleases ==
  ASSUME CheckoutInv, NoEviction, NEW r \in Runs, Recovering(r), lock' # lock, CheckoutNext
  PROVE  Acknowledge(r)
<1>1. lock # NoLock /\ lock.kind = "recovery" /\ lock.owner = r
  BY DEF Recovering, Lock
<1>2. \A s \in Runs : Released(s, "active") = lock /\ Released(s, "review") = lock
  BY <1>1 DEF Released
<1>3. ~RebootServer
  <2> SUFFICES ASSUME RebootServer PROVE FALSE
    OBVIOUS
  <2>1. NotSettled(saved, r)
    BY DEF CheckoutInv, Agrees, LockNamed, Stored
  <2>2. Recovering(r)'
    BY <2>1, RebootNames
  <2> QED BY <2>2 DEF Recovering
<1>4. ASSUME NEW s \in Runs,
             \/ Launch(s) \/ WorktreeMade(s) \/ WorktreeFails(s)
             \/ \E announced \in BOOLEAN : StartRun(s, announced)
             \/ SessionFails(s) \/ RunEnds(s) \/ StopRun(s) \/ Rollback(s)
             \/ RollbackFails(s) \/ LaunchFails(s)
             \/ \E ok \in BOOLEAN : Close(s, ok)
      PROVE  lock' = lock
  BY <1>1, <1>2, <1>4 DEF Launch, WorktreeMade, WorktreeFails, StartRun, SessionFails, RunEnds,
     StopRun, Rollback, RollbackFails, LaunchFails, Close
<1>5. ASSUME NEW s \in Runs,
             \/ ReviewBegins(s) \/ ReviewPatch(s) \/ OperationRefused(s)
             \/ \E current \in BOOLEAN, shown \in NoHash .. MaxEdits :
                  ApplyLocks(s, current, shown)
             \/ ApplyDecides(s) \/ ApplyCheckFails(s) \/ GitApplies(s) \/ ApplyEnds(s)
             \/ DiscardDecides(s) \/ Rename(s) \/ RenameFails(s) \/ DiscardEnds(s)
             \/ Edit(s) \/ OrphanDies(s)
      PROVE  lock' = lock
  BY <1>1, <1>2, <1>5 DEF ReviewBegins, ReviewPatch, OperationRefused, ApplyLocks, ApplyDecides,
     ApplyCheckFails, GitApplies, ApplyEnds, DiscardDecides, Rename, RenameFails, DiscardEnds,
     Edit, OrphanDies, Transition, Change
<1>6. ASSUME NEW s \in Runs, Acknowledge(s)
      PROVE  s = r
  BY <1>1, <1>6 DEF Acknowledge
<1> QED BY <1>3, <1>4, <1>5, <1>6 DEF CheckoutNext

\* As long as nothing is evicted, the checkout of an interrupted destructive run stays
\* locked until that very run is acknowledged, whatever else is launched, reviewed,
\* written in vain or rebooted meanwhile: eviction is the only way to lose the lock.
THEOREM LockedUntilAcknowledged ==
  ASSUME Cardinality(Runs) <= MaxRetained
  PROVE  CheckoutSpec => UnlockedOnlyByAcknowledgement
<1>1. ASSUME CheckoutInv, [CheckoutNext]_checkoutVars, NEW r \in Runs,
             lock = [owner |-> r, kind |-> "recovery"], lock' # lock
      PROVE  Has(runs', r) /\ runs'.rec[r].acked
  <2>1. CheckoutNext /\ NoEviction /\ Recovering(r)
    BY <1>1 DEF checkoutVars, NoEviction, Recovering
  <2>2. Acknowledge(r)
    BY <1>1, <2>1, OnlyAcknowledgeReleases
  <2>3. Has(runs, r) /\ runs \in Maps /\ runs.rec[r] \in Record
    BY <1>1, <2>2 DEF Acknowledge, CheckoutInv, Types, StoresOK, Stored, Maps, Has
  <2>4. runs'.rec[r] = [runs.rec[r] EXCEPT !.acked = TRUE]
    BY <2>2, <2>3 DEF Acknowledge, SaveAll, Maps
  <2>5. runs'.rec[r] \in Record /\ runs'.rec[r].acked
    BY <2>3, <2>4 DEF Record
  <2> QED BY <2>5 DEF Has
<1>2. CheckoutInv /\ [CheckoutNext]_checkoutVars =>
        [\A r \in Runs :
           lock = [owner |-> r, kind |-> "recovery"] /\ lock' # lock =>
             Has(runs', r) /\ runs'.rec[r].acked]_checkoutVars
  BY <1>1
<1> QED BY <1>2, AgreesAlways, PTL DEF CheckoutSpec, UnlockedOnlyByAcknowledgement

\* As long as nothing is evicted, an announced parent session is destroyed in the end or
\* still asked for: its handler is at work, or a durable record asks the next boot.
THEOREM ParentsAreRemembered ==
  ASSUME Cardinality(Runs) <= MaxRetained
  PROVE  CheckoutSpec => []ParentIsRemembered
<1>1. ASSUME CheckoutInv PROVE ParentIsRemembered
  BY <1>1 DEF CheckoutInv, Agrees, NoEviction, Remembered, Stored, ParentIsRemembered
<1> QED BY <1>1, AgreesAlways, PTL
=============================================================================
