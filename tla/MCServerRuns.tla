---------------------------- MODULE MCServerRuns ----------------------------
(* Four components that share no state, checked in one run: the course of a Loop  *)
(* run (LoopRun), the checkouts of child agents (ChildWorktrees), one pi process  *)
(* behind its handle (PiHost), and what Loop runs do to checkouts                 *)
(* (LoopCheckouts).  A behaviour is one component's; the others stay as they      *)
(* begin.                                                                         *)
EXTENDS LoopRun, ChildWorktrees, PiHost, LoopCheckouts

VARIABLE part

Parts == {"checkouts", "loop", "child", "host"}

\* Launches are interchangeable: where only one has a worktree, it may be the first.
First == CHOOSE r \in Runs : TRUE

AllInit ==
  /\ part \in Parts
  /\ Init /\ ChildInit /\ HostInit /\ CheckoutInit
  /\ \A r \in Runs : {s \in Runs : target[s] = "newWorktree"} = {r} => r = First
  /\ part # "checkouts" => target = [r \in Runs |-> "currentCheckout"]
  /\ part # "loop" => definition = [structure |-> "singleAgent", maxIterations |-> 1,
                                    validates |-> FALSE]

AllNext ==
  /\ UNCHANGED part
  /\ \/ part = "loop" /\ Next /\ UNCHANGED <<childVars, hostVars, checkoutVars>>
     \/ part = "child" /\ ChildNext /\ UNCHANGED <<vars, hostVars, checkoutVars>>
     \/ part = "host" /\ HostNext /\ UNCHANGED <<vars, childVars, checkoutVars>>
     \/ part = "checkouts" /\ CheckoutNext /\ UNCHANGED <<vars, childVars, hostVars>>

AllSpec ==
  /\ AllInit /\ [][AllNext]_<<part, vars, childVars, hostVars, checkoutVars>>
  /\ Fairness /\ HostFairness /\ CheckoutFairness

\* The four type invariants.
AllTypeOK == TypeOK /\ ChildTypeOK /\ HostTypeOK /\ CheckoutTypeOK
=============================================================================
