-------------------------- MODULE MCRpcConnection --------------------------
(* Three parts of the /rpc connection that share no state, checked in one run: the *)
(* renderer's transport (RpcTransport), a renderer that follows a session from its *)
(* draft (EventStream), and the terminals and scripts that connections own         *)
(* (SessionProcesses).  A behaviour is one part's; the other two stay as they      *)
(* begin.                                                                          *)
EXTENDS RpcTransport, SessionProcesses

CONSTANTS
  Capacity, Evicted, MaxGenerations, MaxEvents, HistoryEvents, MaxLosses, MaxFailures,
  MaxActivations, StartsAsDraft

VARIABLES part,
  stage, current, aside, launched, created, bus, link, sub, toServer, toClient,
  transcript, lastSeq, streamGeneration, captured, settled, epoch, recovered, rest,
  losses, failures, activations

Stream == INSTANCE EventStream WITH
  phase <- stage, held <- aside, drops <- losses, MaxDrops <- MaxLosses

streamVars == <<stage, current, aside, launched, created, bus, link, sub,
                toServer, toClient, transcript, lastSeq, streamGeneration, captured,
                settled, epoch, recovered, rest, losses, failures, activations>>

AllInit ==
  /\ part \in {"transport", "stream", "processes"}
  /\ Init /\ Stream!Init /\ ProcInit

AllNext ==
  /\ UNCHANGED part
  /\ \/ part = "transport" /\ Next /\ UNCHANGED <<streamVars, procVars>>
     \/ part = "stream" /\ Stream!Next /\ UNCHANGED <<vars, procVars>>
     \/ part = "processes" /\ ProcNext /\ UNCHANGED <<vars, streamVars>>

\* Each part runs under its own fairness.  The other two stay where no fair action of
\* theirs is enabled, except the renderer, which begins about to connect: its actions are
\* asked for in its own part only.
Streams(A) == part = "stream" /\ A
StreamFairness ==
  /\ WF_streamVars(Streams(Stream!ServerStep)) /\ WF_streamVars(Streams(Stream!ClientStep))
  /\ WF_streamVars(Streams(Stream!FinishResume)) /\ WF_streamVars(Streams(Stream!FinishStart))

AllSpec ==
  /\ AllInit /\ [][AllNext]_<<part, vars, streamVars, procVars>>
  /\ Fairness /\ StreamFairness /\ ProcFairness

\* EventStream: a connected renderer ends up settled or told.
SubscriptionResolves == Stream!SubscriptionResolves
=============================================================================
