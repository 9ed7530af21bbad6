------------------------------ MODULE Promises ------------------------------
(***************************************************************************)
(* What every asynchronous job of the system promises, whatever carries it *)
(* (a request over a socket, a durable Loop run, a child agent's record):  *)
(* it is opened at most once, and settled at most once after that, with an *)
(* outcome that then never changes.                                        *)
(***************************************************************************)
CONSTANTS Jobs, NoOutcome

VARIABLES open, outcome

jobVars == <<open, outcome>>

Fresh(j) == j \notin open /\ outcome[j] = NoOutcome

Init == open = {} /\ outcome = [j \in Jobs |-> NoOutcome]

Open(j) == Fresh(j) /\ open' = open \cup {j} /\ UNCHANGED outcome

\* Refused on the spot: the job is never open.
Refuse(j) ==
  /\ Fresh(j)
  /\ outcome'[j] # NoOutcome
  /\ outcome' = [outcome EXCEPT ![j] = outcome'[j]]
  /\ UNCHANGED open

\* One event (a reply, a lost connection, a restart) settles one or many.
Settle(S) ==
  /\ S \subseteq open
  /\ open' = open \ S
  /\ outcome' = [j \in Jobs |-> IF j \in S THEN outcome'[j] ELSE outcome[j]]
  /\ \A j \in S : outcome'[j] # NoOutcome

Next ==
  \/ \E j \in Jobs : Open(j) \/ Refuse(j)
  \/ \E S \in SUBSET Jobs : Settle(S)

Spec == Init /\ [][Next]_jobVars
=============================================================================
