----------------------- MODULE SessionLifecycle_proofs -----------------------
(***************************************************************************)
(* Proofs about SessionLifecycle: which process a session id has, and what *)
(* becomes of it, for every number of prompts, launches, exits, failures   *)
(* and refreshes, with and without a delete, a rollback and a shutdown.    *)
(***************************************************************************)
EXTENDS SessionLifecycle, TLAPS

USE LifecycleAssumption DEF LifecycleAssumption

Born == 1 .. launched
MaybeBorn == Born \cup {None}

\* Whoever is named was launched.
NamesAreBorn ==
  /\ launched \in Launches
  /\ entry \in MaybeBorn
  /\ resuming.live \in MaybeBorn /\ resuming.placeholder \in MaybeBorn
  /\ resuming.candidate \in MaybeBorn
  /\ refresh.session \in MaybeBorn
  /\ \A t \in Stoppers : stops[t].of \in MaybeBorn /\ stops[t].on \in MaybeBorn

\* A session holds a process of its own time; one not launched yet is untouched.
LaterIsUntouched ==
  \A o \in Launches :
    /\ o \in Born => rt[o] \in Born
    /\ o \notin Born => /\ rt[o] = o /\ lifecycle[o] = "live" /\ ~transition[o]
                        /\ timer[o] = "off" /\ pi[o] = "none" /\ ~ingesting[o]
                        /\ parkedBy[o] = "none"

\* A parked session has no process, and one being parked by the idle deadline is
\* losing it.
ParksStop ==
  \A o \in Launches :
    /\ lifecycle[o] = "parked" => ~Alive(rt[o])
    /\ transition[o] => lifecycle[o] = "parking" /\ pi[rt[o]] # "running"

\* The refresh parks a session that no idle park has.
RefreshParksAlone ==
  /\ refresh.at = "none" <=> refresh.session = None
  /\ refresh.at = "parking" =>
       lifecycle[refresh.session] = "parking" /\ ~transition[refresh.session]

\* What a resume in flight has found and made so far.
ResumeCourse ==
  /\ resuming.at = "none" => resuming = NoResume
  /\ resuming.at = "called" => resuming.live = None
  /\ resuming.at \in {"called", "stopping"} => resuming.placeholder = None
  /\ resuming.at = "preflight" => resuming.placeholder \in {None, resuming.live}
  /\ resuming.at = "stopping" => resuming.live # None
  /\ resuming.candidate # None <=> resuming.at \in {"seeding", "failing"}
  /\ resuming.placeholder # None => lifecycle[resuming.placeholder] = "parked"
  /\ resuming.prepared => refresh.at = "waking"

\* The candidate is a session nobody configured: nothing parks it, no event of its
\* process is heard, and it is idle only when a refresh says so.
CandidateIsFresh ==
  LET k == resuming.candidate IN
  k # None =>
    /\ rt[k] = k /\ \A o \in Launches : rt[o] = k => o = k
    /\ lifecycle[k] = "live" /\ ~transition[k] /\ timer[k] = "off" /\ ~ingesting[k]
    /\ idle[k] => resuming.prepared
    /\ refresh.at \in {"preflight", "parking"} => refresh.session # k

\* A stop in progress: its process is no longer running, the one its session
\* holds; a stop that found its session parked finds it parked still.
StopsHold ==
  \A t \in Stoppers :
    /\ stops[t].at = "waiting" => stops[t].of # None /\ transition[stops[t].of]
    /\ stops[t].at = "closing" => /\ stops[t].of # None /\ stops[t].on # None
                                  /\ pi[stops[t].on] # "running"
    /\ stops[t].at = "done" /\ t # "shutdown" =>
         stops[t].of = None \/ lifecycle[stops[t].of] = "parked"
    /\ stops[t].at \in {"waiting", "closing"} /\ t # "shutdown" =>
         stops[t].on = rt[stops[t].of]

\* Who is stopping, and what.
StopsBelong ==
  /\ stops["resume"].at # "none" <=> resuming.at \in {"stopping", "failing"}
  /\ resuming.at = "stopping" => stops["resume"].of = resuming.live
  /\ resuming.at = "failing" =>
       /\ stops["resume"].of \in {None, resuming.candidate}
       /\ stops["resume"].of = None => entry = None /\ stops["resume"].at = "done"
  /\ stops["delete"].at # "none" <=> deletion = "destroying"
  /\ stops["rollback"].at # "none" <=> rollback.at = "destroying"
  /\ deletion = "destroying" => stops["delete"].of # None /\ entry \in {None, stops["delete"].of}
  /\ rollback.at = "destroying" => stops["rollback"].of # None

\* Two sessions hold one process only after a placeholder adopted it, and the
\* candidate it was made with is then out of use.
AdoptedIsOut ==
  \A o, p \in Launches :
    o # p /\ rt[o] = rt[p] =>
      \/ rt[o] = o /\ entry # o /\ ~transition[o] /\ timer[o] = "off"
                   /\ resuming.placeholder # o
      \/ rt[p] = p /\ entry # p /\ ~transition[p] /\ timer[p] = "off"
                   /\ resuming.placeholder # p

\* A candidate that lost the entry is no longer running, the shutdown aside.
LostIsStopped ==
  phase = "serving" /\ resuming.candidate # None /\ entry = None =>
    pi[resuming.candidate] # "running"

\* The process that idle parking stops is still being parked, or gone.
IdleParkIsOpen ==
  \A r \in Launches :
    parkedBy[r] = "idle" /\ Alive(r) => \E o \in Launches : transition[o] /\ rt[o] = r

\* A prompt is on a process.
SentOnProcess == \A c \in Commands : cmd[c].at = "sent" => cmd[c].on # None

IInv ==
  /\ TypeOK /\ NamesAreBorn /\ LaterIsUntouched /\ ParksStop /\ RefreshParksAlone
  /\ ResumeCourse /\ CandidateIsFresh /\ StopsHold /\ StopsBelong /\ AdoptedIsOut
  /\ LostIsStopped /\ NoOrphanProcess /\ IdleParkIsOpen /\ SentOnProcess
  /\ NoPromptLostToIdlePark

\* While a delete is on its way its session is in the entry or nowhere, also when the
\* shutdown clears the map.
DeleteOwns ==
  claim = "delete" =>
    /\ \A r \in Launches : pi[r] = "running" => entry # None /\ rt[entry] = r
    /\ phase \in {"stopping", "stopping again"} /\ entry # None =>
         /\ stops["shutdown"].at # "none" /\ stops["shutdown"].of = entry
         /\ stops["shutdown"].at = "done" => lifecycle[entry] = "parked"
         /\ stops["shutdown"].at = "closing" => stops["shutdown"].on = rt[entry]
    /\ deletion = "removing" => entry = None

\* A wake in its preflight keeps its placeholder in the map.
WakeHolds ==
  resuming.at = "preflight" /\ resuming.placeholder # None
  /\ rollback.at = "none" /\ phase = "serving" => entry = resuming.placeholder

-----------------------------------------------------------------------------
(* What a step that leaves its variables alone keeps.                      *)

LEMMA TypesFrame ==
  /\ ManagerTypes /\ UNCHANGED <<entry, claim, resuming, indexed>> => ManagerTypes'
  /\ SessionTypes /\ UNCHANGED <<rt, lifecycle, transition, timer>> => SessionTypes'
  /\ RuntimeTypes /\ UNCHANGED <<pi, parkedBy, ingesting, idle, turn, loaded>> => RuntimeTypes'
  /\ ActorTypes /\ UNCHANGED <<cmd, refresh, rollback, deletion, phase, file>> => ActorTypes'
  /\ StopTypes /\ UNCHANGED stops => StopTypes'
  /\ ClaimsMatch /\ UNCHANGED <<claim, resuming, deletion>> => ClaimsMatch'
  /\ LaunchFindsEntryFree /\ UNCHANGED <<entry, resuming>> => LaunchFindsEntryFree'
<1>1. ManagerTypes /\ UNCHANGED <<entry, claim, resuming, indexed>> => ManagerTypes'
  BY DEF ManagerTypes
<1>2. SessionTypes /\ UNCHANGED <<rt, lifecycle, transition, timer>> => SessionTypes'
  BY DEF SessionTypes
<1>3. RuntimeTypes /\ UNCHANGED <<pi, parkedBy, ingesting, idle, turn, loaded>> => RuntimeTypes'
  BY DEF RuntimeTypes
<1>4. ActorTypes /\ UNCHANGED <<cmd, refresh, rollback, deletion, phase, file>> => ActorTypes'
  BY DEF ActorTypes
<1>5. StopTypes /\ UNCHANGED stops => StopTypes'
  BY DEF StopTypes
<1>6. ClaimsMatch /\ UNCHANGED <<claim, resuming, deletion>> => ClaimsMatch'
  BY DEF ClaimsMatch
<1>7. LaunchFindsEntryFree /\ UNCHANGED <<entry, resuming>> => LaunchFindsEntryFree'
  BY DEF LaunchFindsEntryFree
<1> QED
  BY <1>1, <1>2, <1>3, <1>4, <1>5, <1>6, <1>7

LEMMA NamesFrame ==
  NamesAreBorn
  /\ UNCHANGED <<launched, entry, resuming.live, resuming.placeholder, resuming.candidate,
                 refresh.session, stops>> =>
    NamesAreBorn'
BY DEF NamesAreBorn, MaybeBorn, Born

LEMMA LaterFrame ==
  LaterIsUntouched
  /\ UNCHANGED <<launched, rt, lifecycle, transition, timer, pi, ingesting, parkedBy>> =>
    LaterIsUntouched'
BY DEF LaterIsUntouched, Born

LEMMA ParksFrame ==
  ParksStop /\ UNCHANGED <<rt, lifecycle, transition, pi>> => ParksStop'
BY DEF ParksStop, Alive

LEMMA RefreshFrame ==
  RefreshParksAlone /\ UNCHANGED <<refresh, lifecycle, transition>> => RefreshParksAlone'
BY DEF RefreshParksAlone

LEMMA CourseFrame ==
  ResumeCourse /\ UNCHANGED <<resuming, lifecycle, refresh>> => ResumeCourse'
BY DEF ResumeCourse

LEMMA CandidateFrame ==
  CandidateIsFresh
  /\ UNCHANGED <<resuming, refresh, rt, lifecycle, transition, timer, ingesting, idle>> =>
    CandidateIsFresh'
BY DEF CandidateIsFresh

LEMMA StopsFrame ==
  StopsHold /\ UNCHANGED <<stops, transition, lifecycle, rt, pi>> => StopsHold'
BY DEF StopsHold

LEMMA BelongFrame ==
  StopsBelong /\ UNCHANGED <<stops, resuming, deletion, rollback, entry>> => StopsBelong'
BY DEF StopsBelong

LEMMA AdoptedFrame ==
  AdoptedIsOut /\ UNCHANGED <<rt, entry, transition, timer, resuming.placeholder>> =>
    AdoptedIsOut'
BY DEF AdoptedIsOut

LEMMA LostFrame ==
  LostIsStopped /\ UNCHANGED <<phase, resuming.candidate, entry, pi>> => LostIsStopped'
BY DEF LostIsStopped

LEMMA OrphanFrame ==
  NoOrphanProcess /\ UNCHANGED <<phase, pi, entry, rt, resuming.candidate>> =>
    NoOrphanProcess'
BY DEF NoOrphanProcess

LEMMA IdleParkFrame ==
  IdleParkIsOpen /\ UNCHANGED <<parkedBy, pi, transition, rt>> => IdleParkIsOpen'
BY DEF IdleParkIsOpen, Alive

LEMMA SentFrame ==
  /\ SentOnProcess /\ UNCHANGED cmd => SentOnProcess'
  /\ NoPromptLostToIdlePark /\ UNCHANGED <<cmd, parkedBy>> => NoPromptLostToIdlePark'
BY DEF SentOnProcess, NoPromptLostToIdlePark

\* The prompts on the wire are some of those that were.
LEMMA SentAsBefore ==
  ASSUME SentOnProcess, NoPromptLostToIdlePark, UNCHANGED parkedBy,
         \A c \in Commands : cmd'[c].at = "sent" => cmd'[c] = cmd[c]
  PROVE  SentOnProcess' /\ NoPromptLostToIdlePark'
BY DEF SentOnProcess, NoPromptLostToIdlePark

\* A process that was not announced to be parked is not parked by the idle deadline:
\* the session at hand is not in transition, and no other one holds its process.
LEMMA NotParkedByIdle ==
  ASSUME IInv, NEW o \in Launches, o \in {entry, resuming.candidate},
         ~transition[o], Alive(rt[o])
  PROVE  parkedBy[rt[o]] # "idle"
<1>1. rt[o] \in Launches
  BY DEF IInv, TypeOK, SessionTypes
<1>2. ASSUME NEW p \in Launches, transition[p], rt[p] = rt[o]
      PROVE  FALSE
  <2>1. CASE o = entry
    BY <1>2, <2>1 DEF IInv, AdoptedIsOut
  <2>2. CASE o = resuming.candidate
    BY <1>2, <2>2 DEF IInv, CandidateIsFresh, None, Launches
  <2> QED
    BY <2>1, <2>2
<1> QED
  BY <1>1, <1>2 DEF IInv, IdleParkIsOpen

-----------------------------------------------------------------------------
(* The process.                                                            *)

LEMMA PiGoneKeeps ==
  ASSUME IInv, NEW r \in Launches, NEW how \in {"exited", "crashed"},
         pi[r] \in {"running", "closing"}, PiGone(r, how)
  PROVE  IInv'
<1>1. /\ UNCHANGED <<entry, claim, resuming, rt, lifecycle, transition, timer, parkedBy,
                     ingesting, idle, turn, loaded, refresh, rollback, deletion, stops,
                     phase, file, launched>>
      /\ pi' = [pi EXCEPT ![r] = how]
  BY DEF PiGone, sessions
<1>2. \A q \in Launches : q # r => pi'[q] = pi[q]
  BY <1>1 DEF IInv, TypeOK, RuntimeTypes
<1>3. pi'[r] = how
  BY <1>1 DEF IInv, TypeOK, RuntimeTypes
<1>4. ManagerTypes' /\ RuntimeTypes' /\ ActorTypes'
  <2>1. ManagerTypes'
    <3>1. indexed' \in BOOLEAN
      BY DEF PiGone
    <3> QED
      BY <1>1, <3>1 DEF IInv, TypeOK, ManagerTypes
  <2>2. RuntimeTypes'
    BY <1>1 DEF IInv, TypeOK, RuntimeTypes
  <2>3. cmd' \in [Commands -> [at: {"none", "waiting", "waking", "sent", "accepted", "failed"},
                              session: Maybe, on: Maybe]]
    BY DEF IInv, TypeOK, ActorTypes, PiGone
  <2>4. ActorTypes'
    BY <1>1, <2>3 DEF IInv, TypeOK, ActorTypes
  <2> QED
    BY <2>1, <2>2, <2>4
<1>5. LaterIsUntouched'
  BY <1>1, <1>2 DEF IInv, LaterIsUntouched, Born
<1>6. ParksStop'
  BY <1>1, <1>2, <1>3 DEF IInv, TypeOK, SessionTypes, ParksStop, Alive
<1>7. StopsHold'
  BY <1>1, <1>2, <1>3 DEF IInv, TypeOK, StopTypes, Maybe, StopsHold
<1>8. LostIsStopped'
  BY <1>1, <1>2, <1>3 DEF IInv, TypeOK, ManagerTypes, Maybe, LostIsStopped
<1>9. NoOrphanProcess'
  BY <1>1, <1>2, <1>3 DEF IInv, NoOrphanProcess
<1>10. IdleParkIsOpen'
  BY <1>1, <1>2, <1>3 DEF IInv, IdleParkIsOpen, Alive
<1>11. SentOnProcess' /\ NoPromptLostToIdlePark'
  BY <1>1 DEF IInv, TypeOK, ActorTypes, SentOnProcess, NoPromptLostToIdlePark, PiGone
<1> QED
  BY <1>1, <1>4, <1>5, <1>6, <1>7, <1>8, <1>9, <1>10, <1>11, TypesFrame, NamesFrame, RefreshFrame,
     CourseFrame, CandidateFrame, BelongFrame, AdoptedFrame
  DEF IInv, TypeOK

LEMMA PiStopsKeeps ==
  ASSUME IInv, NEW r \in Launches, PiStops(r) \/ PiExits(r)
  PROVE  IInv'
BY PiGoneKeeps DEF PiStops, PiExits

\* A prompt is answered: what it does to idle and turn cannot make a candidate idle.
LEMMA AnswerKeeps ==
  ASSUME IInv, NEW c \in Commands, PiAccepts(c) \/ PiRefuses(c)
  PROVE  IInv'
<1>1. /\ UNCHANGED <<entry, claim, resuming, rt, lifecycle, transition, timer, pi, parkedBy,
                     ingesting, loaded, refresh, rollback, deletion, stops, phase, file,
                     launched>>
      /\ idle' \in {idle, [idle EXCEPT ![cmd[c].on] = FALSE]}
      /\ turn' \in {turn, [turn EXCEPT ![cmd[c].on] = TRUE]}
      /\ \E at \in {"accepted", "failed"} : cmd' = [cmd EXCEPT ![c].at = at]
      /\ indexed' \in BOOLEAN
  BY DEF PiAccepts, PiRefuses, sessions, bounds, IInv, TypeOK, ManagerTypes
<1>2. ManagerTypes' /\ RuntimeTypes' /\ ActorTypes'
  <2>1. ManagerTypes'
    BY <1>1 DEF IInv, TypeOK, ManagerTypes
  <2>2. /\ idle' \in [Launches -> BOOLEAN] /\ turn' \in [Launches -> BOOLEAN]
        /\ \A r \in Launches : idle'[r] => idle[r]
    BY <1>1 DEF IInv, TypeOK, RuntimeTypes
  <2>3. RuntimeTypes'
    BY <1>1, <2>2 DEF IInv, TypeOK, RuntimeTypes
  <2>4. PICK at \in {"accepted", "failed"} : cmd' = [cmd EXCEPT ![c].at = at]
    BY <1>1
  <2>5. cmd' \in [Commands -> [at: {"none", "waiting", "waking", "sent", "accepted", "failed"},
                              session: Maybe, on: Maybe]]
    BY <2>4 DEF IInv, TypeOK, ActorTypes
  <2>6. ActorTypes'
    BY <1>1, <2>5 DEF IInv, TypeOK, ActorTypes
  <2> QED
    BY <2>1, <2>3, <2>6
<1>3. CandidateIsFresh'
  BY <1>1 DEF IInv, TypeOK, RuntimeTypes, ManagerTypes, Maybe, CandidateIsFresh
<1>4. SentOnProcess' /\ NoPromptLostToIdlePark'
  <2>1. PICK at \in {"accepted", "failed"} : cmd' = [cmd EXCEPT ![c].at = at]
    BY <1>1
  <2>2. \A d \in Commands : cmd'[d].at = "sent" => cmd'[d] = cmd[d]
    BY <2>1 DEF IInv, TypeOK, ActorTypes
  <2> QED
    BY <1>1, <2>2, SentAsBefore DEF IInv
<1> QED
  BY <1>1, <1>2, <1>3, <1>4, TypesFrame, NamesFrame, LaterFrame, ParksFrame, RefreshFrame,
     CourseFrame, StopsFrame, BelongFrame, AdoptedFrame, LostFrame, OrphanFrame,
     IdleParkFrame
  DEF IInv, TypeOK

LEMMA TurnEndsKeeps ==
  ASSUME IInv, NEW r \in Launches, TurnEnds(r)
  PROVE  IInv'
<1>1. UNCHANGED <<entry, claim, resuming, indexed, rt, lifecycle, transition, pi, parkedBy,
                  ingesting, loaded, cmd, refresh, rollback, deletion, stops, phase, file,
                  launched>>
  BY DEF TurnEnds, manager, actors, bounds
<1>2. SessionTypes' /\ RuntimeTypes'
  BY <1>1 DEF IInv, TypeOK, SessionTypes, RuntimeTypes, TurnEnds
<1>3. LaterIsUntouched'
  BY <1>1 DEF IInv, LaterIsUntouched, TurnEnds, Born
<1>4. CandidateIsFresh'
  BY <1>1 DEF IInv, TypeOK, SessionTypes, RuntimeTypes, ManagerTypes, Maybe, CandidateIsFresh,
              TurnEnds
<1>5. AdoptedIsOut'
  BY <1>1 DEF IInv, AdoptedIsOut, TurnEnds
<1> QED
  BY <1>1, <1>2, <1>3, <1>4, <1>5, TypesFrame, NamesFrame, ParksFrame, RefreshFrame,
     CourseFrame, StopsFrame, BelongFrame, LostFrame, OrphanFrame, IdleParkFrame, SentFrame
  DEF IInv, TypeOK

-----------------------------------------------------------------------------
(* Idle parking.                                                           *)

LEMMA IdleTimerKeeps ==
  ASSUME IInv, NEW o \in Launches, IdleTimer(o)
  PROVE  IInv'
<1>1. UNCHANGED <<entry, claim, resuming, indexed, rt, ingesting, idle, turn, loaded, cmd,
                  refresh, rollback, deletion, stops, phase, file, launched>>
  BY DEF IdleTimer, manager, actors, bounds
<1>2. /\ timer[o] = "set" /\ lifecycle[o] = "live"
      /\ timer' = [timer EXCEPT ![o] = "clear"]
      /\ \A c \in Commands : cmd[c].at = "sent" => cmd[c].on # rt[o]
  BY DEF IdleTimer
<1>3. \/ UNCHANGED <<lifecycle, parkedBy, pi, transition>>
      \/ /\ lifecycle' = [lifecycle EXCEPT ![o] = "parking"]
         /\ transition' = [transition EXCEPT ![o] = TRUE]
         /\ parkedBy' \in {parkedBy, [parkedBy EXCEPT ![rt[o]] = "idle"]}
         /\ pi' = [pi EXCEPT ![rt[o]] = Closing(rt[o])]
  BY DEF IdleTimer, ParkBegins
<1>4. o # resuming.candidate /\ o # resuming.placeholder /\ o \in Born
  BY <1>2 DEF IInv, CandidateIsFresh, ResumeCourse, LaterIsUntouched, None, Launches
<1>5. rt[o] \in Launches /\ rt[o] \in Born
  BY <1>4 DEF IInv, TypeOK, SessionTypes, LaterIsUntouched
<1>6. /\ timer' \in [Launches -> {"off", "clear", "set"}]
      /\ \A p \in Launches : p # o => timer'[p] = timer[p]
  BY <1>2 DEF IInv, TypeOK, SessionTypes
<1>7. /\ lifecycle' \in [Launches -> {"live", "parking", "parked"}]
      /\ transition' \in [Launches -> BOOLEAN]
      /\ \A p \in Launches : p # o => /\ lifecycle'[p] = lifecycle[p]
                                      /\ transition'[p] = transition[p]
  BY <1>3 DEF IInv, TypeOK, SessionTypes
<1>8. /\ lifecycle'[o] # "parked"
      /\ transition'[o] /\ ~transition[o] => lifecycle'[o] = "parking" /\ pi'[rt[o]] # "running"
  <2>1. CASE UNCHANGED <<lifecycle, parkedBy, pi, transition>>
    BY <1>2, <2>1
  <2>2. CASE /\ lifecycle' = [lifecycle EXCEPT ![o] = "parking"]
             /\ pi' = [pi EXCEPT ![rt[o]] = Closing(rt[o])]
    <3>1. lifecycle'[o] = "parking"
      BY <2>2 DEF IInv, TypeOK, SessionTypes
    <3>2. pi'[rt[o]] # "running"
      BY <1>5, <2>2 DEF IInv, TypeOK, RuntimeTypes, Closing
    <3> QED
      BY <3>1, <3>2
  <2> QED
    BY <1>3, <2>1, <2>2
<1>9. /\ pi' \in [Launches -> {"none", "running", "closing", "exited", "crashed"}]
      /\ \A r \in Launches : r # rt[o] => pi'[r] = pi[r]
      /\ \A r \in Launches : pi'[r] # pi[r] => pi[r] = "running" /\ pi'[r] = "closing"
  BY <1>3, <1>5 DEF IInv, TypeOK, RuntimeTypes, Closing
<1>10. parkedBy' \in [Launches -> {"none", "idle", "refresh"}]
  BY <1>3 DEF IInv, TypeOK, RuntimeTypes
<1>11. \A r \in Launches : r # rt[o] => parkedBy'[r] = parkedBy[r]
  BY <1>3, <1>5 DEF IInv, TypeOK, RuntimeTypes
<1>12. SessionTypes'
  BY <1>1, <1>6, <1>7 DEF IInv, TypeOK, SessionTypes
<1>13. RuntimeTypes'
  BY <1>1, <1>9, <1>10 DEF IInv, TypeOK, RuntimeTypes
<1>14. LaterIsUntouched'
  BY <1>1, <1>4, <1>5, <1>6, <1>7, <1>9, <1>11 DEF IInv, LaterIsUntouched, Born
<1>15. ~transition[o]
  BY <1>2 DEF IInv, ParksStop
<1>16. ParksStop'
  BY <1>1, <1>7, <1>8, <1>9, <1>15 DEF IInv, TypeOK, SessionTypes, ParksStop, Alive
<1>17. RefreshParksAlone'
  BY <1>1, <1>2, <1>7 DEF IInv, TypeOK, ActorTypes, Maybe, RefreshParksAlone
<1>18. ResumeCourse'
  BY <1>1, <1>4, <1>7 DEF IInv, TypeOK, ManagerTypes, Maybe, ResumeCourse
<1>19. CandidateIsFresh'
  BY <1>1, <1>4, <1>6, <1>7 DEF IInv, TypeOK, ManagerTypes, Maybe, CandidateIsFresh
<1>20. StopsHold'
  BY <1>1, <1>2, <1>7, <1>9, <1>15 DEF IInv, TypeOK, StopTypes, Maybe, StopsHold
<1>21. AdoptedIsOut'
  BY <1>1, <1>2, <1>6, <1>7 DEF IInv, AdoptedIsOut
<1>22. LostIsStopped'
  BY <1>1, <1>9 DEF IInv, TypeOK, ManagerTypes, Maybe, LostIsStopped
<1>23. NoOrphanProcess'
  BY <1>1, <1>9 DEF IInv, NoOrphanProcess
<1>24. IdleParkIsOpen'
  <2>1. ASSUME NEW r \in Launches, parkedBy'[r] = "idle", Alive(r)', r # rt[o]
        PROVE  \E p \in Launches : transition'[p] /\ rt'[p] = r
    BY <1>1, <1>7, <1>9, <1>11, <1>15, <2>1 DEF IInv, IdleParkIsOpen, Alive
  <2>2. ASSUME parkedBy'[rt[o]] = "idle", Alive(rt[o])'
        PROVE  \E p \in Launches : transition'[p] /\ rt'[p] = rt[o]
    <3>1. CASE UNCHANGED <<lifecycle, parkedBy, pi, transition>>
      BY <1>1, <1>5, <3>1, <2>2 DEF IInv, IdleParkIsOpen, Alive
    <3>2. CASE transition' = [transition EXCEPT ![o] = TRUE]
      BY <1>1, <3>2 DEF IInv, TypeOK, SessionTypes
    <3> QED
      BY <1>3, <3>1, <3>2
  <2> QED
    BY <1>1, <2>1, <2>2 DEF IdleParkIsOpen, Alive
<1>25. SentOnProcess' /\ NoPromptLostToIdlePark'
  <2>1. \A c \in Commands : cmd[c].at = "sent" => cmd[c].on \in Launches
    BY DEF IInv, TypeOK, ActorTypes, Maybe, SentOnProcess
  <2> QED
    BY <1>1, <1>2, <1>11, <2>1 DEF IInv, SentOnProcess, NoPromptLostToIdlePark
<1> QED
  BY <1>1, <1>12, <1>13, <1>14, <1>16, <1>17, <1>18, <1>19, <1>20, <1>21, <1>22, <1>23,
     <1>24, <1>25, TypesFrame, NamesFrame, BelongFrame
  DEF IInv, TypeOK

-----------------------------------------------------------------------------
(* Who waits for a resume.                                                 *)

Called(p) == [at |-> "called", live |-> None, placeholder |-> None,
              candidate |-> None, prepared |-> p]

\* resume() is called: it joins the one in flight, or one that found nothing yet
\* begins; what a resume found and made is what it was.
LEMMA CallEffect ==
  ASSUME IInv, NEW p \in BOOLEAN,
         (CanResume /\ CallResume(p)) \/ UNCHANGED <<resuming, claim>>
  PROVE  /\ UNCHANGED <<resuming.live, resuming.placeholder, resuming.candidate>>
         /\ \/ UNCHANGED <<resuming, claim>>
            \/ /\ resuming.at = "none" /\ claim = "none"
               /\ claim' = "resume" /\ resuming' = Called(p)
<1>1. CASE UNCHANGED <<resuming, claim>>
  BY <1>1
<1>2. CASE resuming.at = "none" /\ CanResume /\ CallResume(p)
  <2>1. claim = "none" /\ claim' = "resume" /\ resuming' = Called(p) /\ resuming = NoResume
    BY <1>2 DEF IInv, ResumeCourse, CanResume, CallResume, Called, NoResume
  <2> QED
    BY <1>2, <2>1 DEF Called, NoResume
<1> QED
  BY <1>1, <1>2 DEF CallResume

LEMMA CallKeeps ==
  ASSUME IInv, NEW p \in BOOLEAN,
         (CanResume /\ CallResume(p)) \/ UNCHANGED <<resuming, claim>>,
         UNCHANGED <<entry, deletion>>, indexed' \in BOOLEAN,
         \A o \in Launches : lifecycle[o] = "parked" => lifecycle'[o] = "parked",
         refresh.at = "waking" => refresh'.at = "waking",
         p /\ resuming.at = "none" /\ resuming'.at # "none" => refresh'.at = "waking"
  PROVE  ManagerTypes' /\ ClaimsMatch' /\ LaunchFindsEntryFree' /\ ResumeCourse'
<1>1. CASE UNCHANGED <<resuming, claim>>
  <2>1. ResumeCourse'
    BY <1>1 DEF IInv, TypeOK, ManagerTypes, Maybe, ResumeCourse
  <2>2. ManagerTypes'
    BY <1>1 DEF IInv, TypeOK, ManagerTypes
  <2> QED
    BY <1>1, <2>1, <2>2, TypesFrame DEF IInv, TypeOK
<1>2. CASE /\ resuming.at = "none" /\ claim = "none"
           /\ claim' = "resume" /\ resuming' = Called(p)
  <2>1. ManagerTypes'
    BY <1>2 DEF IInv, TypeOK, ManagerTypes, Called, Maybe
  <2>2. ClaimsMatch' /\ LaunchFindsEntryFree'
    BY <1>2 DEF IInv, TypeOK, ClaimsMatch, LaunchFindsEntryFree, Called
  <2>3. ResumeCourse'
    BY <1>2 DEF ResumeCourse, Called, NoResume
  <2> QED
    BY <2>1, <2>2, <2>3
<1> QED
  BY <1>1, <1>2, CallEffect

\* The resume ended, one way or the other.
LEMMA EndKeeps ==
  ASSUME IInv, EndResume, UNCHANGED deletion, resuming.at # "none",
         entry' \in Maybe, indexed' \in BOOLEAN
  PROVE  /\ ManagerTypes' /\ ClaimsMatch' /\ LaunchFindsEntryFree' /\ ResumeCourse'
         /\ CandidateIsFresh' /\ LostIsStopped'
         /\ resuming'.at = "none" /\ resuming'.live = None /\ resuming'.placeholder = None
         /\ resuming'.candidate = None
<1>1. resuming' = NoResume /\ claim' = "none"
  BY DEF EndResume
<1>2. ManagerTypes'
  BY <1>1 DEF ManagerTypes, NoResume, Maybe
<1>3. ClaimsMatch'
  BY <1>1 DEF IInv, TypeOK, ClaimsMatch, NoResume
<1> QED
  BY <1>1, <1>2, <1>3 DEF NoResume, LaunchFindsEntryFree, ResumeCourse, CandidateIsFresh,
    LostIsStopped

\* What resume() means to those who waited for it: no prompt but a woken one moves,
\* and that one to the process returned.
LEMMA ReturnKeeps ==
  ASSUME IInv, NEW o \in Launches, NEW r \in Launches, ResumeReturns(o, r),
         UNCHANGED <<deletion, phase, file, parkedBy>>,
         Alive(r) => parkedBy[r] # "idle"
  PROVE  /\ ActorTypes' /\ SentOnProcess' /\ NoPromptLostToIdlePark'
         /\ \/ refresh' = [at |-> "none", session |-> None]
            \/ UNCHANGED refresh /\ refresh.at # "waking"
         /\ rollback.at = "destroying" <=> rollback'.at = "destroying"
<1>1. \A c \in Commands :
        cmd'[c] = IF cmd[c].at = "waking" THEN Prompted(c, o, r, Alive(r)) ELSE cmd[c]
  BY DEF ResumeReturns, Woken
<1>2. cmd' \in [Commands -> [at: {"none", "waiting", "waking", "sent", "accepted", "failed"},
                            session: Maybe, on: Maybe]]
  BY DEF IInv, TypeOK, ActorTypes, ResumeReturns, Prompted, Maybe
<1>3. /\ refresh' \in [at: {"none", "preflight", "parking", "waking"}, session: Maybe]
      /\ \/ refresh' = [at |-> "none", session |-> None]
         \/ UNCHANGED refresh /\ refresh.at # "waking"
  BY DEF IInv, TypeOK, ActorTypes, ResumeReturns, Maybe
<1>4. /\ rollback' \in [at: {"none", "preparing", "destroying", "restoring", "reopening",
                             "aborting", "ok", "failed"}, shows: Maybe]
      /\ rollback.at = "destroying" <=> rollback'.at = "destroying"
  <2>1. CASE rollback.at = "reopening"
    BY <2>1 DEF IInv, TypeOK, ActorTypes, ResumeReturns, Maybe
  <2>2. CASE rollback.at = "aborting"
    BY <2>2 DEF IInv, TypeOK, ActorTypes, ResumeReturns
  <2>3. CASE rollback.at \notin {"reopening", "aborting"}
    BY <2>3 DEF IInv, TypeOK, ActorTypes, ResumeReturns
  <2> QED
    BY <2>1, <2>2, <2>3
<1>5. ActorTypes'
  BY <1>2, <1>3, <1>4 DEF IInv, TypeOK, ActorTypes
<1>6. ASSUME NEW c \in Commands, cmd'[c].at = "sent"
      PROVE  cmd'[c].on # None /\ parkedBy[cmd'[c].on] # "idle"
  <2>1. CASE cmd[c].at = "waking"
    BY <1>1, <1>6, <2>1 DEF Prompted, Launches, None
  <2>2. CASE cmd[c].at # "waking"
    BY <1>1, <1>6, <2>2 DEF IInv, SentOnProcess, NoPromptLostToIdlePark
  <2> QED
    BY <2>1, <2>2
<1> QED
  BY <1>3, <1>4, <1>5, <1>6 DEF SentOnProcess, NoPromptLostToIdlePark

LEMMA ThrowKeeps ==
  ASSUME IInv, NEW b \in BOOLEAN, ResumeThrows(b),
         UNCHANGED <<deletion, phase, file, parkedBy>>
  PROVE  /\ ActorTypes' /\ SentOnProcess' /\ NoPromptLostToIdlePark'
         /\ \/ refresh' = [at |-> "none", session |-> None]
            \/ UNCHANGED refresh /\ refresh.at # "waking"
         /\ rollback.at = "destroying" <=> rollback'.at = "destroying"
         /\ indexed' \in BOOLEAN
<1>1. \A c \in Commands : cmd'[c].at = "sent" => cmd'[c] = cmd[c]
  BY DEF IInv, TypeOK, ActorTypes, ResumeThrows, Woken
<1>2. cmd' \in [Commands -> [at: {"none", "waiting", "waking", "sent", "accepted", "failed"},
                            session: Maybe, on: Maybe]]
  BY DEF IInv, TypeOK, ActorTypes, ResumeThrows
<1>3. /\ refresh' \in [at: {"none", "preflight", "parking", "waking"}, session: Maybe]
      /\ \/ refresh' = [at |-> "none", session |-> None]
         \/ UNCHANGED refresh /\ refresh.at # "waking"
  BY DEF IInv, TypeOK, ActorTypes, ResumeThrows, Maybe
<1>4. /\ rollback' \in [at: {"none", "preparing", "destroying", "restoring", "reopening",
                             "aborting", "ok", "failed"}, shows: Maybe]
      /\ rollback.at = "destroying" <=> rollback'.at = "destroying"
  BY DEF IInv, TypeOK, ActorTypes, ResumeThrows
<1>5. ActorTypes'
  BY <1>2, <1>3, <1>4 DEF IInv, TypeOK, ActorTypes
<1>6. SentOnProcess' /\ NoPromptLostToIdlePark'
  BY <1>1, SentAsBefore DEF IInv
<1>7. indexed' \in BOOLEAN
  BY DEF ResumeThrows
<1> QED
  BY <1>3, <1>4, <1>5, <1>6, <1>7

-----------------------------------------------------------------------------
(* The end of an idle park, and the prompts.                               *)

LEMMA IdleParkedKeeps ==
  ASSUME IInv, NEW o \in Launches, IdleParked(o)
  PROVE  IInv'
<1>1. UNCHANGED <<entry, rt, timer, pi, parkedBy, ingesting, idle, turn, loaded, refresh,
                  rollback, deletion, phase, file, launched>>
  BY DEF IdleParked, runtimes, bounds
<1>2. transition[o] /\ ~Alive(rt[o]) /\ lifecycle[o] = "parking" /\ o \in Born
  BY DEF IInv, IdleParked, ParksStop, LaterIsUntouched
<1>3. /\ transition' \in [Launches -> BOOLEAN] /\ ~transition'[o]
      /\ lifecycle' \in [Launches -> {"live", "parking", "parked"}] /\ lifecycle'[o] = "parked"
      /\ \A p \in Launches : p # o => /\ lifecycle'[p] = lifecycle[p]
                                      /\ transition'[p] = transition[p]
  BY DEF IInv, TypeOK, SessionTypes, IdleParked
<1>4. \A t \in Stoppers :
        stops'[t] = IF stops[t].at = "waiting" /\ stops[t].of = o
                    THEN [stops[t] EXCEPT !.at = "done"] ELSE stops[t]
  BY DEF IdleParked
<1>5. StopTypes'
  BY DEF IInv, TypeOK, StopTypes, IdleParked
<1>6. \A t \in Stoppers : stops'[t].of = stops[t].of /\ stops'[t].on = stops[t].on
  BY <1>4 DEF IInv, TypeOK, StopTypes
<1>7. \A t \in Stoppers : \/ stops'[t] = stops[t] /\ ~(stops[t].at = "waiting" /\ stops[t].of = o)
                          \/ stops[t].at = "waiting" /\ stops[t].of = o /\ stops'[t].at = "done"
  BY <1>4 DEF IInv, TypeOK, StopTypes
<1>8. (CanResume /\ CallResume(FALSE)) \/ UNCHANGED <<resuming, claim>>
  BY DEF IdleParked
<1>9. /\ UNCHANGED <<resuming.live, resuming.placeholder, resuming.candidate>>
      /\ \/ UNCHANGED <<resuming, claim>>
         \/ /\ resuming.at = "none" /\ claim = "none"
            /\ claim' = "resume" /\ resuming' = Called(FALSE)
  BY <1>8, CallEffect
<1>10. ManagerTypes' /\ ClaimsMatch' /\ LaunchFindsEntryFree' /\ ResumeCourse'
  <2>1. indexed' \in BOOLEAN
    BY DEF IdleParked
  <2>2. \A p \in Launches : lifecycle[p] = "parked" => lifecycle'[p] = "parked"
    BY <1>3
  <2> QED
    BY <1>1, <1>8, <2>1, <2>2, CallKeeps
<1>11. SessionTypes'
  BY <1>1, <1>3 DEF IInv, TypeOK, SessionTypes
<1>12. ActorTypes'
  <2> DEFINE Cmd == [at: {"none", "waiting", "waking", "sent", "accepted", "failed"},
                     session: Maybe, on: Maybe]
             Moved(c) == IF cmd[c].at = "waiting" /\ cmd[c].session = o
                         THEN [cmd[c] EXCEPT !.at = IF CanResume THEN "waking" ELSE "failed"]
                         ELSE cmd[c]
  <2>2. cmd' = [c \in Commands |-> Moved(c)]
    BY DEF IdleParked
  <2>3. \A c \in Commands : cmd[c] \in Cmd
    BY DEF IInv, TypeOK, ActorTypes
  <2>4. \A c \in Commands : Moved(c) \in Cmd
    BY <2>3
  <2> HIDE DEF Moved
  <2>1. cmd' \in [Commands -> Cmd]
    BY <2>2, <2>4
  <2> QED
    BY <1>1, <2>1 DEF IInv, TypeOK, ActorTypes
<1>13. NamesAreBorn'
  BY <1>1, <1>6, <1>9 DEF IInv, NamesAreBorn, MaybeBorn, Born
<1>14. LaterIsUntouched'
  BY <1>1, <1>2, <1>3 DEF IInv, LaterIsUntouched, Born
<1>15. ParksStop'
  BY <1>1, <1>2, <1>3 DEF IInv, ParksStop, Alive
<1>16. RefreshParksAlone'
  BY <1>1, <1>2, <1>3 DEF IInv, TypeOK, ActorTypes, Maybe, RefreshParksAlone
<1>17. CandidateIsFresh'
  <2>1. o # resuming.candidate
    BY <1>2 DEF IInv, CandidateIsFresh, None, Launches
  <2>2. resuming.candidate # None => resuming' = resuming
    BY <1>9 DEF IInv, ResumeCourse, NoResume
  <2> QED
    BY <1>1, <1>3, <1>9, <2>1, <2>2 DEF IInv, TypeOK, ManagerTypes, Maybe, CandidateIsFresh
<1>18. StopsHold'
  BY <1>1, <1>2, <1>3, <1>6, <1>7 DEF IInv, TypeOK, StopTypes, Maybe, StopsHold
<1>19. StopsBelong'
  <2>1. \A t \in Stoppers : /\ stops[t].at = "none" <=> stops'[t].at = "none"
                            /\ stops[t].at = "done" => stops'[t].at = "done"
    BY <1>7
  <2>2. resuming' = resuming \/ (resuming.at = "none" /\ resuming'.at = "called")
    BY <1>9 DEF Called
  <2> QED
    BY <1>1, <1>6, <1>9, <2>1, <2>2 DEF IInv, StopsBelong, Stoppers
<1>20. AdoptedIsOut'
  BY <1>1, <1>3, <1>9 DEF IInv, AdoptedIsOut
<1>21. IdleParkIsOpen'
  BY <1>1, <1>2, <1>3 DEF IInv, IdleParkIsOpen, Alive
<1>22. SentOnProcess' /\ NoPromptLostToIdlePark'
  <2>1. \A c \in Commands : cmd'[c].at = "sent" => cmd'[c] = cmd[c]
    BY DEF IInv, TypeOK, ActorTypes, IdleParked
  <2> QED
    BY <1>1, <2>1, SentAsBefore DEF IInv
<1> QED
  BY <1>1, <1>5, <1>9, <1>10, <1>11, <1>12, <1>13, <1>14, <1>15, <1>16, <1>17, <1>18, <1>19,
     <1>20, <1>21, <1>22, TypesFrame, LostFrame, OrphanFrame
  DEF IInv, TypeOK

LEMMA PromptKeeps ==
  ASSUME IInv, NEW c \in Commands, Prompt(c)
  PROVE  IInv'
<1>1. UNCHANGED <<entry, indexed, rt, lifecycle, transition, pi, parkedBy, ingesting, idle,
                  turn, loaded, refresh, rollback, deletion, stops, phase, file, launched>>
  BY DEF Prompt, runtimes, bounds
<1>2. entry \in Launches /\ rt[entry] \in Launches
  BY DEF Prompt, IInv, TypeOK, ManagerTypes, SessionTypes, Maybe
<1>3. /\ timer' \in [Launches -> {"off", "clear", "set"}]
      /\ \A o \in Launches : timer[o] = "off" => timer'[o] = "off"
  BY DEF IInv, TypeOK, SessionTypes, Prompt
<1>4. (CanResume /\ CallResume(FALSE)) \/ UNCHANGED <<resuming, claim>>
  BY DEF Prompt
<1>5. /\ UNCHANGED <<resuming.live, resuming.placeholder, resuming.candidate>>
      /\ \/ UNCHANGED <<resuming, claim>>
         \/ /\ resuming.at = "none" /\ claim = "none"
            /\ claim' = "resume" /\ resuming' = Called(FALSE)
  BY <1>4, CallEffect
<1>6. ManagerTypes' /\ ClaimsMatch' /\ LaunchFindsEntryFree' /\ ResumeCourse'
  BY <1>1, <1>4, CallKeeps DEF IInv, TypeOK, ManagerTypes
<1>7. SessionTypes'
  BY <1>1, <1>3 DEF IInv, TypeOK, SessionTypes
<1>8. /\ cmd'[c] \in [at: {"waiting", "waking", "failed", "sent"}, session: Maybe, on: Maybe]
      /\ \A d \in Commands : d # c => cmd'[d] = cmd[d]
      /\ cmd' \in [Commands -> [at: {"none", "waiting", "waking", "sent", "accepted", "failed"},
                              session: Maybe, on: Maybe]]
      /\ cmd'[c].at = "sent" =>
           cmd'[c].on = rt[entry] /\ ~transition[entry] /\ Alive(rt[entry])
  <2>1. CASE /\ transition[entry]
             /\ cmd' = [cmd EXCEPT ![c] = [at |-> "waiting", session |-> entry, on |-> None]]
    BY <1>2, <2>1 DEF IInv, TypeOK, ActorTypes, Maybe
  <2>2. CASE /\ ~transition[entry]
             /\ cmd' = [cmd EXCEPT ![c] = Prompted(c, entry, rt[entry], Alive(rt[entry]))]
    <3>1. CASE Alive(rt[entry])
      BY <1>2, <2>2, <3>1 DEF IInv, TypeOK, ActorTypes, Maybe, Prompted
    <3>2. CASE ~Alive(rt[entry])
      BY <1>2, <2>2, <3>2 DEF IInv, TypeOK, ActorTypes, Maybe, Prompted
    <3> QED
      BY <3>1, <3>2
  <2>3. CASE cmd' = [cmd EXCEPT ![c] = [at |-> IF CanResume THEN "waking" ELSE "failed",
                                        session |-> entry, on |-> None]]
    BY <1>2, <2>3 DEF IInv, TypeOK, ActorTypes, Maybe
  <2> QED
    BY <2>1, <2>2, <2>3 DEF Prompt
<1>9. ActorTypes'
  BY <1>1, <1>8 DEF IInv, TypeOK, ActorTypes
<1>10. LaterIsUntouched'
  BY <1>1, <1>3 DEF IInv, LaterIsUntouched, Born
<1>11. CandidateIsFresh'
  <2>1. resuming.candidate # None => resuming' = resuming
    BY <1>5 DEF IInv, ResumeCourse, NoResume
  <2> QED
    BY <1>1, <1>3, <1>5, <2>1 DEF IInv, TypeOK, ManagerTypes, Maybe, CandidateIsFresh
<1>12. StopsBelong'
  <2>1. resuming' = resuming \/ (resuming.at = "none" /\ resuming'.at = "called")
    BY <1>5 DEF Called
  <2> QED
    BY <1>1, <1>5, <2>1 DEF IInv, StopsBelong
<1>13. AdoptedIsOut'
  BY <1>1, <1>3, <1>5 DEF IInv, AdoptedIsOut
<1>14. SentOnProcess' /\ NoPromptLostToIdlePark'
  <2>1. ~transition[entry] /\ Alive(rt[entry]) => parkedBy[rt[entry]] # "idle"
    BY <1>2, NotParkedByIdle
  <2>2. cmd'[c].at = "sent" => cmd'[c].on # None /\ parkedBy[cmd'[c].on] # "idle"
    BY <1>2, <1>8, <2>1 DEF None, Launches
  <2> QED
    BY <1>1, <1>8, <2>2 DEF IInv, SentOnProcess, NoPromptLostToIdlePark
<1> QED
  BY <1>1, <1>5, <1>6, <1>7, <1>9, <1>10, <1>11, <1>12, <1>13, <1>14, TypesFrame, NamesFrame,
     ParksFrame, RefreshFrame, StopsFrame, LostFrame, OrphanFrame, IdleParkFrame
  DEF IInv, TypeOK

-----------------------------------------------------------------------------
(* resumeClaimed, up to the launch.                                        *)

LEMMA RestResumeKeeps ==
  ASSUME IInv, RestResume
  PROVE  IInv'
<1>1. UNCHANGED <<entry, indexed, rt, lifecycle, transition, timer, pi, parkedBy, ingesting,
                  idle, turn, loaded, cmd, refresh, rollback, deletion, stops, phase, file,
                  launched>>
  BY DEF RestResume, sessions, runtimes, actors, bounds
<1>2. CanResume /\ CallResume(FALSE) /\ resuming.at = "none"
  BY DEF RestResume, CanResume
<1>3. /\ UNCHANGED <<resuming.live, resuming.placeholder, resuming.candidate>>
      /\ resuming' = Called(FALSE)
  BY <1>2, CallEffect DEF CallResume, NoResume, Called
<1>4. ManagerTypes' /\ ClaimsMatch' /\ LaunchFindsEntryFree' /\ ResumeCourse'
  BY <1>1, <1>2, CallKeeps DEF IInv, TypeOK, ManagerTypes
<1>5. CandidateIsFresh' /\ StopsBelong'
  BY <1>1, <1>2, <1>3 DEF IInv, StopsBelong, CandidateIsFresh, Called
<1> QED
  BY <1>1, <1>3, <1>4, <1>5, TypesFrame, NamesFrame, LaterFrame, ParksFrame, RefreshFrame,
     StopsFrame, AdoptedFrame, LostFrame, OrphanFrame, IdleParkFrame, SentFrame
  DEF IInv, TypeOK

LEMMA ResumeFindsRunningKeeps ==
  ASSUME IInv, ResumeFindsRunning
  PROVE  IInv'
<1>1. UNCHANGED <<entry, indexed, rt, lifecycle, transition, timer, pi, parkedBy, ingesting,
                  idle, turn, loaded, deletion, stops, phase, file, launched>>
  BY DEF ResumeFindsRunning, sessions, runtimes, bounds
<1>2. /\ resuming.at = "called" /\ resuming.candidate = None
      /\ entry \in Launches /\ rt[entry] \in Launches /\ Alive(rt[entry]) /\ ~transition[entry]
  BY DEF ResumeFindsRunning, RunningSessions, ParkingSessions, IInv, TypeOK, ManagerTypes,
         SessionTypes, ResumeCourse
<1>3. ResumeReturns(entry, rt[entry]) /\ EndResume
  BY DEF ResumeFindsRunning, ResumeReturns
<1>4. parkedBy[rt[entry]] # "idle"
  BY <1>2, NotParkedByIdle
<1>5. /\ ActorTypes' /\ SentOnProcess' /\ NoPromptLostToIdlePark'
      /\ \/ refresh' = [at |-> "none", session |-> None]
         \/ UNCHANGED refresh /\ refresh.at # "waking"
      /\ rollback.at = "destroying" <=> rollback'.at = "destroying"
  BY <1>1, <1>2, <1>3, <1>4, ReturnKeeps
<1>6. /\ ManagerTypes' /\ ClaimsMatch' /\ LaunchFindsEntryFree' /\ ResumeCourse'
      /\ CandidateIsFresh' /\ LostIsStopped'
      /\ resuming'.at = "none" /\ resuming'.live = None /\ resuming'.placeholder = None
      /\ resuming'.candidate = None
  BY <1>1, <1>2, <1>3, EndKeeps DEF IInv, TypeOK, ManagerTypes
<1>7. NamesAreBorn'
  BY <1>1, <1>5, <1>6 DEF IInv, NamesAreBorn, MaybeBorn, Born
<1>8. RefreshParksAlone'
  BY <1>1, <1>5 DEF IInv, RefreshParksAlone
<1>9. StopsBelong'
  BY <1>1, <1>2, <1>5, <1>6 DEF IInv, StopsBelong
<1>10. AdoptedIsOut'
  BY <1>1, <1>6 DEF IInv, AdoptedIsOut, None, Launches
<1>11. NoOrphanProcess'
  BY <1>1, <1>2, <1>6, OrphanFrame DEF IInv
<1> QED
  BY <1>1, <1>5, <1>6, <1>7, <1>8, <1>9, <1>10, <1>11, TypesFrame, LaterFrame,
     ParksFrame, StopsFrame, IdleParkFrame
  DEF IInv, TypeOK

LEMMA ResumePreparesKeeps ==
  ASSUME IInv, ResumePrepares
  PROVE  IInv'
<1>1. UNCHANGED <<entry, claim, indexed, rt, lifecycle, transition, timer, pi, parkedBy,
                  ingesting, idle, turn, loaded, cmd, refresh, rollback, deletion, stops,
                  phase, file, launched>>
  BY DEF ResumePrepares, sessions, runtimes, actors, bounds
<1>2. /\ resuming.at = "called" /\ resuming.candidate = None
      /\ resuming'.at = "preflight" /\ resuming'.live = entry
      /\ resuming'.placeholder = IF entry \in ParkedSessions THEN entry ELSE None
      /\ resuming'.candidate = None /\ resuming'.prepared = resuming.prepared
  BY DEF IInv, TypeOK, ManagerTypes, ResumeCourse, ResumePrepares
<1>3. ManagerTypes'
  BY <1>1, <1>2 DEF IInv, TypeOK, ManagerTypes, ResumePrepares, Maybe
<1>4. ClaimsMatch' /\ LaunchFindsEntryFree'
  BY <1>1, <1>2 DEF IInv, TypeOK, ClaimsMatch, LaunchFindsEntryFree
<1>5. NamesAreBorn'
  BY <1>1, <1>2 DEF IInv, NamesAreBorn, MaybeBorn, Born
<1>6. ResumeCourse'
  BY <1>1, <1>2 DEF IInv, ResumeCourse, ParkedSessions
<1>7. CandidateIsFresh' /\ LostIsStopped'
  BY <1>2 DEF CandidateIsFresh, LostIsStopped
<1>8. StopsBelong'
  BY <1>1, <1>2 DEF IInv, StopsBelong
<1>9. AdoptedIsOut'
  BY <1>1, <1>2 DEF IInv, AdoptedIsOut, None, Launches
<1> QED
  BY <1>1, <1>2, <1>3, <1>4, <1>5, <1>6, <1>7, <1>8, <1>9, TypesFrame, LaterFrame,
     ParksFrame, RefreshFrame, StopsFrame, OrphanFrame, IdleParkFrame, SentFrame
  DEF IInv, TypeOK

LEMMA PreflightFailsKeeps ==
  ASSUME IInv, PreflightFails
  PROVE  IInv'
<1>1. UNCHANGED <<entry, rt, lifecycle, transition, timer, pi, parkedBy, ingesting, idle,
                  turn, loaded, deletion, stops, phase, file, launched>>
  BY DEF PreflightFails, sessions, runtimes
<1>2. /\ resuming.at = "preflight" /\ resuming.candidate = None
      /\ ResumeThrows(TRUE) /\ EndResume
  BY DEF PreflightFails, ResumeThrows, IInv, ResumeCourse
<1>3. /\ ActorTypes' /\ SentOnProcess' /\ NoPromptLostToIdlePark'
      /\ \/ refresh' = [at |-> "none", session |-> None]
         \/ UNCHANGED refresh /\ refresh.at # "waking"
      /\ rollback.at = "destroying" <=> rollback'.at = "destroying"
      /\ indexed' \in BOOLEAN
  BY <1>1, <1>2, ThrowKeeps
<1>4. /\ ManagerTypes' /\ ClaimsMatch' /\ LaunchFindsEntryFree' /\ ResumeCourse'
      /\ CandidateIsFresh' /\ LostIsStopped'
      /\ resuming'.at = "none" /\ resuming'.live = None /\ resuming'.placeholder = None
      /\ resuming'.candidate = None
  BY <1>1, <1>2, <1>3, EndKeeps DEF IInv, TypeOK, ManagerTypes
<1>5. NamesAreBorn'
  BY <1>1, <1>3, <1>4 DEF IInv, NamesAreBorn, MaybeBorn, Born
<1>6. RefreshParksAlone'
  BY <1>1, <1>3 DEF IInv, RefreshParksAlone
<1>7. StopsBelong'
  BY <1>1, <1>2, <1>3, <1>4 DEF IInv, StopsBelong
<1>8. AdoptedIsOut'
  BY <1>1, <1>4 DEF IInv, AdoptedIsOut, None, Launches
<1>9. NoOrphanProcess'
  BY <1>1, <1>2, <1>4, OrphanFrame DEF IInv
<1> QED
  BY <1>1, <1>3, <1>4, <1>5, <1>6, <1>7, <1>8, <1>9, TypesFrame, LaterFrame,
     ParksFrame, StopsFrame, IdleParkFrame
  DEF IInv, TypeOK

-----------------------------------------------------------------------------
(* The launch: by then no process of the session runs.                     *)

\* What a launch does to the stops: that of the resume, if any, is over.
ResumeStopOver ==
  \/ UNCHANGED stops /\ resuming.at = "preflight"
  \/ stops' = [stops EXCEPT !["resume"] = NoStop]

LEMMA ResumeStopOverEffect ==
  ASSUME IInv, ResumeStopOver
  PROVE  /\ StopTypes'
         /\ stops'["resume"].at = "none"
         /\ \A t \in Stoppers : t # "resume" => stops'[t] = stops[t]
         /\ \A t \in Stoppers : /\ stops'[t].of \in {None, stops[t].of}
                                /\ stops'[t].on \in {None, stops[t].on}
<1>1. CASE UNCHANGED stops /\ resuming.at = "preflight"
  BY <1>1 DEF IInv, TypeOK, StopTypes, StopsBelong, Stoppers
<1>2. CASE stops' = [stops EXCEPT !["resume"] = NoStop]
  BY <1>2 DEF IInv, TypeOK, StopTypes, NoStop, Stoppers, Maybe
<1> QED
  BY <1>1, <1>2 DEF ResumeStopOver

LEMMA SpawnKeeps ==
  ASSUME IInv, NEW r \in Launches, Spawn(r), ResumeStopOver,
         resuming.at \in {"preflight", "stopping"},
         phase = "serving" => \A q \in Launches : pi[q] # "running",
         UNCHANGED <<rt, lifecycle, transition, timer, parkedBy, ingesting, turn, deletion,
                     phase, file>>
  PROVE  IInv'
<1>1. /\ UNCHANGED <<claim, indexed, cmd, refresh, rollback>>
      /\ r = launched + 1 /\ launched' = r /\ entry' = r /\ r # None
      /\ pi' = [pi EXCEPT ![r] = "running"]
      /\ resuming' = [resuming EXCEPT !.at = "seeding", !.candidate = r]
  BY DEF Spawn, Launches, None
<1>2. /\ resuming'.at = "seeding" /\ resuming'.candidate = r
      /\ resuming'.placeholder = resuming.placeholder /\ resuming'.live = resuming.live
      /\ resuming'.prepared = resuming.prepared
      /\ resuming.candidate = None
  BY <1>1 DEF IInv, TypeOK, ManagerTypes, ResumeCourse
<1>3. r \notin Born /\ Born' = Born \cup {r} /\ r \notin MaybeBorn /\ Born \subseteq Launches
  BY <1>1 DEF IInv, NamesAreBorn, Born, MaybeBorn, None, Launches
<1>4. /\ rt[r] = r /\ lifecycle[r] = "live" /\ ~transition[r] /\ timer[r] = "off"
      /\ ~ingesting[r] /\ parkedBy[r] = "none"
      /\ \A o \in Launches : rt[o] = r => o = r
  BY <1>3 DEF IInv, LaterIsUntouched
<1>5. pi'[r] = "running" /\ \A q \in Launches : q # r => pi'[q] = pi[q]
  BY <1>1 DEF IInv, TypeOK, RuntimeTypes
<1>6. ManagerTypes' /\ ClaimsMatch' /\ LaunchFindsEntryFree'
  <2>1. ManagerTypes'
    BY <1>1 DEF IInv, TypeOK, ManagerTypes, Maybe
  <2>2. ClaimsMatch' /\ LaunchFindsEntryFree'
    BY <1>1, <1>2 DEF IInv, TypeOK, ClaimsMatch, LaunchFindsEntryFree
  <2> QED
    BY <2>1, <2>2
<1>7. RuntimeTypes'
  <2>1. pi' \in [Launches -> {"none", "running", "closing", "exited", "crashed"}]
    BY <1>1 DEF IInv, TypeOK, RuntimeTypes
  <2>2. idle' \in [Launches -> BOOLEAN]
    BY DEF IInv, TypeOK, RuntimeTypes, ManagerTypes, Spawn
  <2>3. loaded' \in [Launches -> {"original", "target"}]
    BY DEF IInv, TypeOK, RuntimeTypes, ActorTypes, Spawn
  <2> QED
    BY <2>1, <2>2, <2>3 DEF IInv, TypeOK, RuntimeTypes
<1>8. /\ StopTypes'
      /\ stops'["resume"].at = "none"
      /\ \A t \in Stoppers : t # "resume" => stops'[t] = stops[t]
      /\ \A t \in Stoppers : /\ stops'[t].of \in {None, stops[t].of}
                             /\ stops'[t].on \in {None, stops[t].on}
  BY ResumeStopOverEffect
<1>9. NamesAreBorn'
  <2>1. MaybeBorn' = MaybeBorn \cup {r} /\ None \in MaybeBorn
    BY <1>3 DEF MaybeBorn
  <2> QED
    BY <1>1, <1>2, <1>8, <2>1 DEF IInv, NamesAreBorn
<1>10. LaterIsUntouched'
  BY <1>3, <1>4, <1>5 DEF IInv, LaterIsUntouched
<1>11. ParksStop'
  BY <1>4, <1>5 DEF IInv, TypeOK, SessionTypes, ParksStop, Alive
<1>12. ResumeCourse'
  BY <1>1, <1>2 DEF IInv, ResumeCourse
<1>13. CandidateIsFresh'
  <2>1. idle'[r] = resuming.prepared
    BY DEF IInv, TypeOK, RuntimeTypes, Spawn
  <2>2. refresh.session # r
    BY <1>3 DEF IInv, NamesAreBorn
  <2> QED
    BY <1>1, <1>2, <1>4, <2>1, <2>2 DEF CandidateIsFresh
<1>14. StopsHold'
  <2>1. \A t \in Stoppers : stops[t].on # r
    BY <1>3 DEF IInv, NamesAreBorn
  <2>2. ASSUME NEW t \in Stoppers, t # "resume"
        PROVE  stops[t].at = "closing" => stops[t].on # None /\ pi'[stops[t].on] # "running"
    BY <1>5, <2>1, <2>2 DEF IInv, StopsHold, TypeOK, StopTypes, Maybe
  <2> QED
    BY <1>8, <2>2 DEF IInv, StopsHold
<1>15. StopsBelong'
  <2>1. deletion # "destroying"
    BY DEF IInv, TypeOK, ClaimsMatch
  <2> QED
    BY <1>1, <1>2, <1>8, <2>1 DEF IInv, StopsBelong, Stoppers
<1>16. AdoptedIsOut'
  BY <1>1, <1>2, <1>3, <1>4 DEF IInv, AdoptedIsOut
<1>17. LostIsStopped' /\ NoOrphanProcess'
  BY <1>1, <1>2, <1>4, <1>5 DEF LostIsStopped, NoOrphanProcess
<1>18. IdleParkIsOpen'
  BY <1>4, <1>5 DEF IInv, IdleParkIsOpen, Alive
<1> QED
  BY <1>1, <1>6, <1>7, <1>8, <1>9, <1>10, <1>11, <1>12, <1>13, <1>14, <1>15, <1>16, <1>17,
     <1>18, TypesFrame, RefreshFrame, SentFrame
  DEF IInv, TypeOK, Launches

LEMMA SpawnFailsKeeps ==
  ASSUME IInv, SpawnFails, ResumeStopOver,
         resuming.at \in {"preflight", "stopping"},
         phase = "serving" => \A q \in Launches : pi[q] # "running",
         UNCHANGED <<rt, lifecycle, transition, timer, parkedBy, ingesting, turn, deletion,
                     phase, file>>
  PROVE  IInv'
<1>1. /\ UNCHANGED <<launched, pi, idle, loaded>>
      /\ entry' = resuming.placeholder
      /\ ResumeThrows(FALSE) /\ EndResume
      /\ resuming.candidate = None
  BY DEF SpawnFails, ResumeThrows, IInv, ResumeCourse
<1>2. /\ ActorTypes' /\ SentOnProcess' /\ NoPromptLostToIdlePark'
      /\ \/ refresh' = [at |-> "none", session |-> None]
         \/ UNCHANGED refresh /\ refresh.at # "waking"
      /\ rollback.at = "destroying" <=> rollback'.at = "destroying"
      /\ indexed' \in BOOLEAN
  BY <1>1, ThrowKeeps
<1>3. /\ ManagerTypes' /\ ClaimsMatch' /\ LaunchFindsEntryFree' /\ ResumeCourse'
      /\ CandidateIsFresh' /\ LostIsStopped'
      /\ resuming'.at = "none" /\ resuming'.live = None /\ resuming'.placeholder = None
      /\ resuming'.candidate = None
  BY <1>1, <1>2, EndKeeps DEF IInv, TypeOK, ManagerTypes
<1>4. /\ StopTypes'
      /\ stops'["resume"].at = "none"
      /\ \A t \in Stoppers : t # "resume" => stops'[t] = stops[t]
      /\ \A t \in Stoppers : /\ stops'[t].of \in {None, stops[t].of}
                             /\ stops'[t].on \in {None, stops[t].on}
  BY ResumeStopOverEffect
<1>5. NamesAreBorn'
  BY <1>1, <1>2, <1>3, <1>4 DEF IInv, NamesAreBorn, MaybeBorn, Born
<1>6. RefreshParksAlone'
  BY <1>2 DEF IInv, RefreshParksAlone
<1>7. StopsHold'
  BY <1>1, <1>4 DEF IInv, StopsHold
<1>8. StopsBelong'
  <2>1. deletion # "destroying"
    BY DEF IInv, TypeOK, ClaimsMatch
  <2> QED
    BY <1>2, <1>3, <1>4, <2>1 DEF IInv, StopsBelong, Stoppers
<1>9. AdoptedIsOut'
  BY <1>1, <1>3 DEF IInv, AdoptedIsOut, None, Launches
<1>10. NoOrphanProcess'
  BY <1>1 DEF NoOrphanProcess
<1> QED
  BY <1>1, <1>2, <1>3, <1>4, <1>5, <1>6, <1>7, <1>8, <1>9, <1>10, TypesFrame, LaterFrame,
     ParksFrame, IdleParkFrame
  DEF IInv, TypeOK

LEMMA LaunchKeeps ==
  ASSUME IInv, Launch, ResumeStopOver,
         resuming.at \in {"preflight", "stopping"},
         phase = "serving" => \A q \in Launches : pi[q] # "running"
  PROVE  IInv'
BY SpawnKeeps, SpawnFailsKeeps DEF Launch

-----------------------------------------------------------------------------
(* ManagedSession.stop: what a call does, and what its return means.       *)

LEMMA StopCallEffect ==
  ASSUME IInv, NEW t \in Stoppers, NEW o \in Launches, StopCall(t, o)
  PROVE  /\ StopTypes'
         /\ \A u \in Stoppers : u # t => stops'[u] = stops[u]
         /\ stops'[t].of = o /\ stops'[t].on = rt[o]
         /\ \/ stops'[t].at = "waiting" /\ transition[o]
            \/ stops'[t].at = "done" /\ lifecycle[o] = "parked"
            \/ stops'[t].at = "closing" /\ pi'[rt[o]] # "running"
         /\ timer' \in [Launches -> {"off", "clear", "set"}]
         /\ \A p \in Launches : timer'[p] \in {timer[p], "off"}
         /\ pi' \in [Launches -> {"none", "running", "closing", "exited", "crashed"}]
         /\ \A q \in Launches : \/ pi'[q] = pi[q]
                                \/ pi[q] = "running" /\ pi'[q] = "closing"
<1> DEFINE at == IF transition[o] THEN "waiting"
                 ELSE IF lifecycle[o] = "parked" THEN "done" ELSE "closing"
           first == pi[rt[o]] = "running"
<1>1. /\ stops' = [stops EXCEPT ![t] = [at |-> at, of |-> o, on |-> rt[o], first |-> first]]
      /\ timer' = [timer EXCEPT ![o] = "off"]
      /\ pi' = IF at = "closing" THEN [pi EXCEPT ![rt[o]] = Closing(rt[o])] ELSE pi
  BY DEF StopCall
<1>2. rt[o] \in Launches /\ first \in BOOLEAN /\ at \in {"waiting", "done", "closing"}
  BY DEF IInv, TypeOK, SessionTypes
<1>3. /\ at = "waiting" => transition[o]
      /\ at = "done" => lifecycle[o] = "parked"
  OBVIOUS
<1>4. /\ pi' \in [Launches -> {"none", "running", "closing", "exited", "crashed"}]
      /\ \A q \in Launches : \/ pi'[q] = pi[q]
                             \/ pi[q] = "running" /\ pi'[q] = "closing"
      /\ at = "closing" => pi'[rt[o]] # "running"
  <2> HIDE DEF at
  <2> QED
    BY <1>1, <1>2 DEF IInv, TypeOK, RuntimeTypes, Closing
<1>5. /\ timer' \in [Launches -> {"off", "clear", "set"}]
      /\ \A p \in Launches : timer'[p] \in {timer[p], "off"}
  BY <1>1 DEF IInv, TypeOK, SessionTypes
<1>6. /\ StopTypes'
      /\ \A u \in Stoppers : u # t => stops'[u] = stops[u]
      /\ stops'[t].of = o /\ stops'[t].on = rt[o] /\ stops'[t].at = at
  <2> HIDE DEF at, first
  <2> QED
    BY <1>1, <1>2 DEF IInv, TypeOK, StopTypes, Maybe
<1> HIDE DEF at, first
<1> QED
  BY <1>2, <1>3, <1>4, <1>5, <1>6

\* What a stop of the map's session keeps, whoever stops it.
LEMMA StopCallKeeps ==
  ASSUME IInv, NEW t \in Stoppers, entry # None, StopCall(t, entry),
         UNCHANGED <<entry, rt, lifecycle, transition, parkedBy, ingesting, idle, turn, loaded,
                     cmd, refresh, launched, resuming.live, resuming.placeholder,
                     resuming.candidate, resuming.prepared>>,
         phase' = "serving" => phase = "serving"
  PROVE  /\ SessionTypes' /\ RuntimeTypes' /\ StopTypes' /\ NamesAreBorn' /\ LaterIsUntouched'
         /\ ParksStop' /\ RefreshParksAlone' /\ CandidateIsFresh' /\ StopsHold' /\ AdoptedIsOut'
         /\ LostIsStopped' /\ NoOrphanProcess' /\ IdleParkIsOpen' /\ SentOnProcess'
         /\ NoPromptLostToIdlePark'
<1> DEFINE o == entry
<1>1. o \in Launches /\ o \in Born /\ rt[o] \in Launches
  BY DEF IInv, TypeOK, ManagerTypes, SessionTypes, Maybe, NamesAreBorn, MaybeBorn
<1>2. /\ StopTypes'
      /\ \A u \in Stoppers : u # t => stops'[u] = stops[u]
      /\ stops'[t].of = o /\ stops'[t].on = rt[o]
      /\ \/ stops'[t].at = "waiting" /\ transition[o]
         \/ stops'[t].at = "done" /\ lifecycle[o] = "parked"
         \/ stops'[t].at = "closing" /\ pi'[rt[o]] # "running"
      /\ timer' \in [Launches -> {"off", "clear", "set"}]
      /\ \A p \in Launches : timer'[p] \in {timer[p], "off"}
      /\ pi' \in [Launches -> {"none", "running", "closing", "exited", "crashed"}]
      /\ \A q \in Launches : \/ pi'[q] = pi[q]
                             \/ pi[q] = "running" /\ pi'[q] = "closing"
  BY <1>1, StopCallEffect
<1> HIDE DEF o
<1>3. SessionTypes'
  BY <1>2 DEF IInv, TypeOK, SessionTypes
<1>4. RuntimeTypes'
  BY <1>2 DEF IInv, TypeOK, RuntimeTypes
<1>5. NamesAreBorn'
  <2>1. rt[o] \in Born
    BY <1>1 DEF IInv, LaterIsUntouched
  <2>2. \A u \in Stoppers : stops'[u].of \in MaybeBorn /\ stops'[u].on \in MaybeBorn
    BY <1>1, <1>2, <2>1 DEF IInv, NamesAreBorn, MaybeBorn
  <2>3. Born' = Born /\ MaybeBorn' = MaybeBorn
    BY DEF Born, MaybeBorn
  <2> QED
    BY <2>2, <2>3 DEF IInv, NamesAreBorn
<1>6. LaterIsUntouched'
  BY <1>2 DEF IInv, LaterIsUntouched, Born
<1>7. ParksStop'
  BY <1>2 DEF IInv, TypeOK, SessionTypes, ParksStop, Alive
<1>8. RefreshParksAlone'
  BY RefreshFrame DEF IInv
<1>9. CandidateIsFresh'
  BY <1>2 DEF IInv, TypeOK, ManagerTypes, Maybe, CandidateIsFresh
<1>10. StopsHold'
  <2>1. ASSUME NEW u \in Stoppers, u # t
        PROVE  stops[u].at = "closing" => stops[u].on # None /\ pi'[stops[u].on] # "running"
    BY <1>2 DEF IInv, StopsHold, TypeOK, StopTypes, Maybe
  <2> QED
    BY <1>1, <1>2, <2>1 DEF IInv, StopsHold, None, Launches
<1>11. AdoptedIsOut'
  BY <1>2 DEF IInv, AdoptedIsOut
<1>12. LostIsStopped'
  BY <1>2 DEF IInv, TypeOK, ManagerTypes, Maybe, LostIsStopped
<1>13. NoOrphanProcess'
  BY <1>2 DEF IInv, NoOrphanProcess
<1>14. IdleParkIsOpen'
  BY <1>2 DEF IInv, IdleParkIsOpen, Alive
<1> QED
  BY <1>2, <1>3, <1>4, <1>5, <1>6, <1>7, <1>8, <1>9, <1>10, <1>11, <1>12, <1>13, <1>14,
     SentFrame DEF IInv

\* A stop of somebody other than the shutdown returns: its session runs nothing.
LEMMA StoppedRunsNothing ==
  ASSUME IInv, NEW t \in Stoppers \ {"shutdown"}, Stopped(t), stops[t].of # None
  PROVE  /\ pi[rt[stops[t].of]] # "running"
         /\ stops[t].at = "done" => lifecycle[stops[t].of] = "parked"
<1>1. stops[t].of \in Launches
  BY DEF IInv, TypeOK, StopTypes, Maybe
<1>2. CASE stops[t].at = "done"
  BY <1>1, <1>2 DEF IInv, StopsHold, ParksStop, Alive
<1>3. CASE stops[t].at = "closing"
  BY <1>1, <1>3 DEF IInv, StopsHold
<1> QED
  BY <1>2, <1>3 DEF Stopped

\* A stop that is over leaves the entry to its session's successor, or to none.
LEMMA StopOverKeeps ==
  ASSUME IInv, NEW t \in Stoppers, stops' = [stops EXCEPT ![t] = NoStop],
         UNCHANGED <<transition, lifecycle, rt, pi>>
  PROVE  /\ StopTypes' /\ StopsHold'
         /\ stops'[t] = NoStop
         /\ \A u \in Stoppers : u # t => stops'[u] = stops[u]
<1>1. StopTypes'
  BY DEF IInv, TypeOK, StopTypes, NoStop, Maybe
<1>2. /\ stops'[t] = NoStop
      /\ \A u \in Stoppers : u # t => stops'[u] = stops[u]
  BY DEF IInv, TypeOK, StopTypes
<1>3. StopsHold'
  BY <1>2 DEF IInv, StopsHold, NoStop
<1> QED
  BY <1>1, <1>2, <1>3

-----------------------------------------------------------------------------
(* resumeClaimed, from the launch on.                                      *)

\* It found the session parked or gone: the entry holds that or nothing.
LEMMA ResumeLaunchesKeeps ==
  ASSUME IInv, ResumeLaunches
  PROVE  IInv'
<1>1. resuming.at = "preflight" /\ resuming.live = resuming.placeholder
  BY DEF ResumeLaunches
<1>2. resuming.candidate = None
  BY <1>1 DEF IInv, ResumeCourse
<1>3. ASSUME NEW q \in Launches, phase = "serving", pi[q] = "running"
      PROVE  FALSE
  <2>1. entry \in Launches /\ rt[entry] = q
    BY <1>2, <1>3 DEF IInv, NoOrphanProcess, None, Launches, TypeOK, ManagerTypes, Maybe
  <2>2. lifecycle[entry] = "parked"
    BY <1>1, <2>1 DEF IInv, TypeOK, LaunchFindsEntryFree, ResumeCourse, None, Launches
  <2> QED
    BY <1>3, <2>1, <2>2 DEF IInv, ParksStop, Alive
<1> QED
  BY <1>1, <1>3, LaunchKeeps DEF ResumeLaunches, ResumeStopOver

LEMMA ResumeDestroysEndedKeeps ==
  ASSUME IInv, ResumeDestroysEnded
  PROVE  IInv'
<1>1. /\ resuming.at = "preflight" /\ resuming.candidate = None /\ resuming.live # resuming.placeholder
      /\ resuming.placeholder = None /\ resuming.live # None
  BY DEF ResumeDestroysEnded, IInv, ResumeCourse
<1>2. CASE entry = None /\ Launch /\ UNCHANGED stops
  <2>1. ASSUME NEW q \in Launches, phase = "serving", pi[q] = "running"
        PROVE  FALSE
    BY <1>1, <1>2, <2>1 DEF IInv, NoOrphanProcess, None, Launches
  <2> QED
    BY <1>1, <1>2, <2>1, LaunchKeeps DEF ResumeStopOver
<1>3. CASE /\ entry # None /\ StopCall("resume", entry)
           /\ resuming' = [resuming EXCEPT !.at = "stopping"]
           /\ UNCHANGED <<entry, claim, indexed, rt, lifecycle, transition, parkedBy,
                          ingesting, idle, turn, loaded, cmd, refresh, rollback, deletion,
                          phase, file, bounds>>
  <2>1. /\ resuming'.at = "stopping" /\ resuming'.prepared = resuming.prepared
        /\ UNCHANGED <<resuming.live, resuming.placeholder, resuming.candidate>>
    BY <1>3 DEF IInv, TypeOK, ManagerTypes
  <2>2. UNCHANGED launched /\ "resume" \in Stoppers
    BY <1>3 DEF bounds, Stoppers
  <2>3. /\ SessionTypes' /\ RuntimeTypes' /\ StopTypes' /\ NamesAreBorn' /\ LaterIsUntouched'
        /\ ParksStop' /\ RefreshParksAlone' /\ CandidateIsFresh' /\ StopsHold' /\ AdoptedIsOut'
        /\ LostIsStopped' /\ NoOrphanProcess' /\ IdleParkIsOpen' /\ SentOnProcess'
        /\ NoPromptLostToIdlePark'
    BY <1>3, <2>1, <2>2, StopCallKeeps
  <2>4. entry \in Launches
    BY <1>3 DEF IInv, TypeOK, ManagerTypes, Maybe
  <2>5. /\ stops'["resume"].of = entry /\ stops'["resume"].at # "none"
        /\ \A u \in Stoppers : u # "resume" => stops'[u] = stops[u]
    BY <1>3, <2>2, <2>4, StopCallEffect
  <2>6. ManagerTypes'
    BY <1>3 DEF IInv, TypeOK, ManagerTypes
  <2>7. ActorTypes'
    BY <1>3, TypesFrame DEF IInv, TypeOK
  <2>8. ClaimsMatch' /\ LaunchFindsEntryFree'
    BY <1>1, <1>3, <2>1 DEF IInv, TypeOK, ClaimsMatch, LaunchFindsEntryFree
  <2>9. ResumeCourse'
    BY <1>1, <1>3, <2>1 DEF IInv, ResumeCourse
  <2>10. StopsBelong'
    <3>1. entry = resuming.live
      BY <1>1, <1>3 DEF IInv, TypeOK, LaunchFindsEntryFree
    <3> QED
      BY <1>1, <1>3, <2>1, <2>5, <3>1 DEF IInv, StopsBelong, Stoppers
  <2> QED
    BY <2>2, <2>3, <2>6, <2>7, <2>8, <2>9, <2>10 DEF IInv, TypeOK
<1> QED
  BY <1>1, <1>2, <1>3 DEF ResumeDestroysEnded

LEMMA ResumeDestroyedEndedKeeps ==
  ASSUME IInv, ResumeDestroyedEnded
  PROVE  IInv'
<1>1. /\ resuming.at = "stopping" /\ Stopped("resume")
      /\ "resume" \in Stoppers \ {"shutdown"}
      /\ stops["resume"].of = resuming.live /\ resuming.live # None
      /\ entry \in {None, resuming.live} /\ resuming.candidate = None
  BY DEF ResumeDestroyedEnded, IInv, TypeOK, StopsBelong, ResumeCourse, LaunchFindsEntryFree,
         Stoppers
<1>2. pi[rt[resuming.live]] # "running"
  BY <1>1, StoppedRunsNothing
<1>3. ASSUME NEW q \in Launches, phase = "serving", pi[q] = "running"
      PROVE  FALSE
  BY <1>1, <1>2, <1>3 DEF IInv, NoOrphanProcess, None, Launches
<1> QED
  BY <1>1, <1>3, LaunchKeeps DEF ResumeDestroyedEnded, ResumeStopOver

LEMMA SeedFailsKeeps ==
  ASSUME IInv, SeedFails
  PROVE  IInv'
<1>1. /\ UNCHANGED <<entry, claim, indexed, rt, lifecycle, transition, parkedBy, ingesting,
                     idle, turn, loaded, cmd, refresh, rollback, deletion, phase, file, launched>>
      /\ resuming.at = "seeding" /\ resuming' = [resuming EXCEPT !.at = "failing"]
  BY DEF SeedFails
<1>2. /\ resuming'.at = "failing" /\ resuming'.prepared = resuming.prepared
      /\ UNCHANGED <<resuming.live, resuming.placeholder, resuming.candidate>>
      /\ resuming.candidate # None /\ entry \in {None, resuming.candidate}
  BY <1>1 DEF IInv, TypeOK, ManagerTypes, ResumeCourse, LaunchFindsEntryFree
<1>3. ManagerTypes'
  BY <1>1 DEF IInv, TypeOK, ManagerTypes
<1>4. ActorTypes'
  BY <1>1, TypesFrame DEF IInv, TypeOK
<1>5. ClaimsMatch' /\ LaunchFindsEntryFree'
  BY <1>1, <1>2 DEF IInv, TypeOK, ClaimsMatch, LaunchFindsEntryFree
<1>6. ResumeCourse'
  BY <1>1, <1>2 DEF IInv, ResumeCourse
<1>7. CASE /\ entry = None
           /\ stops' = [stops EXCEPT !["resume"] = [NoStop EXCEPT !.at = "done"]]
           /\ UNCHANGED <<timer, pi>>
  <2>1. StopTypes'
    BY <1>7 DEF IInv, TypeOK, StopTypes, NoStop, Maybe
  <2>2. /\ stops'["resume"].at = "done" /\ stops'["resume"].of = None
        /\ stops'["resume"].on = None
        /\ \A u \in Stoppers : u # "resume" => stops'[u] = stops[u]
    BY <1>7 DEF IInv, TypeOK, StopTypes, NoStop, Stoppers
  <2>3. NamesAreBorn'
    BY <1>1, <1>2, <2>2 DEF IInv, NamesAreBorn, MaybeBorn, Born
  <2>4. CandidateIsFresh'
    BY <1>1, <1>2, <1>7 DEF IInv, CandidateIsFresh
  <2>5. StopsHold'
    BY <1>1, <1>7, <2>2 DEF IInv, StopsHold
  <2>6. StopsBelong'
    BY <1>1, <1>2, <1>7, <2>2 DEF IInv, StopsBelong, Stoppers
  <2> QED
    BY <1>1, <1>2, <1>3, <1>4, <1>5, <1>6, <1>7, <2>1, <2>3, <2>4, <2>5, <2>6, TypesFrame,
       LaterFrame, ParksFrame, RefreshFrame, AdoptedFrame, LostFrame, OrphanFrame,
       IdleParkFrame, SentFrame
    DEF IInv, TypeOK
<1>8. CASE entry # None /\ StopCall("resume", entry)
  <2>1. /\ SessionTypes' /\ RuntimeTypes' /\ StopTypes' /\ NamesAreBorn' /\ LaterIsUntouched'
        /\ ParksStop' /\ RefreshParksAlone' /\ CandidateIsFresh' /\ StopsHold' /\ AdoptedIsOut'
        /\ LostIsStopped' /\ NoOrphanProcess' /\ IdleParkIsOpen' /\ SentOnProcess'
        /\ NoPromptLostToIdlePark'
    BY <1>1, <1>2, <1>8, StopCallKeeps DEF Stoppers
  <2>2. entry \in Launches /\ "resume" \in Stoppers
    BY <1>8 DEF IInv, TypeOK, ManagerTypes, Maybe, Stoppers
  <2>3. /\ stops'["resume"].of = entry /\ stops'["resume"].at # "none"
        /\ \A u \in Stoppers : u # "resume" => stops'[u] = stops[u]
    BY <1>8, <2>2, StopCallEffect
  <2>4. StopsBelong'
    BY <1>1, <1>2, <1>8, <2>3 DEF IInv, StopsBelong, Stoppers
  <2> QED
    BY <1>1, <1>3, <1>4, <1>5, <1>6, <2>1, <2>4 DEF IInv, TypeOK
<1> QED
  BY <1>7, <1>8 DEF SeedFails

\* The candidate it stopped, or that was stopped before, runs no more.
LEMMA ResumeFailedKeeps ==
  ASSUME IInv, ResumeFailed
  PROVE  IInv'
<1>1. /\ UNCHANGED <<rt, lifecycle, transition, timer, pi, parkedBy, ingesting, idle, turn,
                     loaded, deletion, phase, file, launched>>
      /\ resuming.at = "failing" /\ Stopped("resume")
      /\ stops' = [stops EXCEPT !["resume"] = NoStop]
      /\ ResumeThrows(FALSE) /\ EndResume
      /\ "resume" \in Stoppers \ {"shutdown"}
  BY DEF ResumeFailed, ResumeThrows, sessions, runtimes, bounds, Stoppers
<1> DEFINE k == resuming.candidate
           of == stops["resume"].of
<1>2. /\ k \in Launches /\ k # None /\ entry \in {None, k} /\ of \in {None, k}
      /\ of = None => entry = None
      /\ rt[k] = k /\ lifecycle[k] = "live"
  BY <1>1 DEF IInv, TypeOK, ManagerTypes, Maybe, LaunchFindsEntryFree, StopsBelong, ResumeCourse,
              CandidateIsFresh
<1>3. phase = "serving" => \A q \in Launches : pi[q] # "running"
  <2>1. phase = "serving" => pi[k] # "running"
    <3>1. CASE of = None
      BY <1>2, <3>1 DEF IInv, LostIsStopped
    <3>2. CASE of = k
      BY <1>1, <1>2, <3>2, StoppedRunsNothing
    <3> QED
      BY <1>2, <3>1, <3>2
  <2> QED
    BY <1>2, <2>1 DEF IInv, NoOrphanProcess
<1>4. entry' = resuming.placeholder
  BY <1>2 DEF ResumeFailed, EntryWithout
<1>5. /\ ActorTypes' /\ SentOnProcess' /\ NoPromptLostToIdlePark'
      /\ \/ refresh' = [at |-> "none", session |-> None]
         \/ UNCHANGED refresh /\ refresh.at # "waking"
      /\ rollback.at = "destroying" <=> rollback'.at = "destroying"
      /\ indexed' \in BOOLEAN
  BY <1>1, ThrowKeeps
<1>6. /\ ManagerTypes' /\ ClaimsMatch' /\ LaunchFindsEntryFree' /\ ResumeCourse'
      /\ CandidateIsFresh' /\ LostIsStopped'
      /\ resuming'.at = "none" /\ resuming'.live = None /\ resuming'.placeholder = None
      /\ resuming'.candidate = None
  BY <1>1, <1>4, <1>5, EndKeeps DEF IInv, TypeOK, ManagerTypes
<1>7. /\ StopTypes' /\ StopsHold' /\ stops'["resume"] = NoStop
      /\ \A u \in Stoppers : u # "resume" => stops'[u] = stops[u]
  BY <1>1, StopOverKeeps
<1>8. NamesAreBorn'
  BY <1>1, <1>4, <1>5, <1>6, <1>7 DEF IInv, NamesAreBorn, MaybeBorn, Born, NoStop
<1>9. RefreshParksAlone'
  BY <1>1, <1>5 DEF IInv, RefreshParksAlone
<1>10. StopsBelong'
  <2>1. deletion # "destroying"
    BY <1>1 DEF IInv, TypeOK, ClaimsMatch
  <2> QED
    BY <1>1, <1>5, <1>6, <1>7, <2>1 DEF IInv, StopsBelong, Stoppers, NoStop
<1>11. AdoptedIsOut'
  BY <1>1, <1>4, <1>6 DEF IInv, AdoptedIsOut, None, Launches
<1>12. NoOrphanProcess'
  BY <1>1, <1>3 DEF NoOrphanProcess
<1> QED
  BY <1>1, <1>5, <1>6, <1>7, <1>8, <1>9, <1>10, <1>11, <1>12, TypesFrame, LaterFrame,
     ParksFrame, IdleParkFrame
  DEF IInv, TypeOK

\* The placeholder adopts the candidate's process.  No delete or rollback is stopping
\* the placeholder: such a stop would have returned before.
LEMMA ResumeSucceedsKeeps ==
  ASSUME IInv, ResumeSucceeds, ~Urgent
  PROVE  IInv'
<1> DEFINE k == resuming.candidate
           h == resuming.placeholder
           o == IF h = None THEN k ELSE h
<1>1. /\ resuming.at = "seeding" /\ Alive(k)
      /\ ingesting' = [ingesting EXCEPT ![k] = TRUE]
      /\ rt' = [rt EXCEPT ![o] = k]
      /\ lifecycle' = [lifecycle EXCEPT ![o] = "live"]
      /\ timer' = [timer EXCEPT ![o] = "set"]
      /\ entry' = IF h = None THEN entry ELSE o
      /\ ResumeReturns(o, k) /\ EndResume
      /\ indexed' = TRUE
      /\ UNCHANGED <<transition, pi, parkedBy, idle, turn, loaded, deletion, stops, phase, file,
                     launched>>
  BY DEF ResumeSucceeds, ResumeReturns, bounds
<1>2. /\ k \in Launches /\ k # None /\ k \in Born /\ entry \in {None, k}
      /\ rt[k] = k /\ \A p \in Launches : rt[p] = k => p = k
      /\ lifecycle[k] = "live" /\ ~transition[k] /\ timer[k] = "off"
  BY <1>1 DEF IInv, TypeOK, ManagerTypes, Maybe, MaybeBorn, NamesAreBorn, LaunchFindsEntryFree,
              ResumeCourse, CandidateIsFresh
<1>3. h # None => /\ h \in Launches /\ h \in Born /\ h # k
                  /\ lifecycle[h] = "parked" /\ ~Alive(rt[h]) /\ ~transition[h]
  BY <1>2 DEF IInv, TypeOK, ManagerTypes, Maybe, MaybeBorn, NamesAreBorn, ResumeCourse, ParksStop
<1>4. o \in Launches /\ o \in Born /\ ~transition[o] /\ lifecycle[o] # "parking" /\ o # None
  BY <1>2, <1>3
<1>5. h # None => \A t \in Stoppers \ {"shutdown"} :
                    stops[t].at \in {"closing", "done"} => stops[t].of # h
  <2>1. ASSUME h # None, NEW t \in Stoppers \ {"shutdown"}, stops[t].of = h,
               stops[t].at \in {"closing", "done"}
        PROVE  FALSE
    <3>1. stops[t].at = "closing" => stops[t].on = rt[h]
      BY <2>1 DEF IInv, StopsHold
    <3>2. Stopped(t)
      BY <1>3, <2>1, <3>1 DEF Stopped
    <3> QED
      BY <2>1, <3>2 DEF Urgent
  <2> QED
    BY <2>1
<1>6. /\ rt' \in [Launches -> Launches] /\ rt'[o] = k
      /\ \A p \in Launches : p # o => rt'[p] = rt[p]
  BY <1>1, <1>2, <1>4 DEF IInv, TypeOK, SessionTypes
<1>7. /\ lifecycle' \in [Launches -> {"live", "parking", "parked"}] /\ lifecycle'[o] = "live"
      /\ \A p \in Launches : p # o => lifecycle'[p] = lifecycle[p]
  BY <1>1, <1>4 DEF IInv, TypeOK, SessionTypes
<1>8. /\ timer' \in [Launches -> {"off", "clear", "set"}]
      /\ \A p \in Launches : p # o => timer'[p] = timer[p]
  BY <1>1, <1>4 DEF IInv, TypeOK, SessionTypes
<1>9. /\ ingesting' \in [Launches -> BOOLEAN]
      /\ \A p \in Launches : p # k => ingesting'[p] = ingesting[p]
  BY <1>1, <1>2 DEF IInv, TypeOK, RuntimeTypes
<1>10. parkedBy[k] # "idle"
  BY <1>1, <1>2, NotParkedByIdle
<1>11. /\ entry' \in Maybe /\ entry' \in MaybeBorn
       /\ h # None => entry' = h
       /\ h = None => entry' = entry /\ o = k
  <2>1. CASE h = None
    BY <1>1, <2>1 DEF IInv, TypeOK, ManagerTypes, NamesAreBorn
  <2>2. CASE h # None
    BY <1>1, <1>3, <2>2 DEF Maybe, MaybeBorn
  <2> QED
    BY <2>1, <2>2
<1> HIDE DEF o
<1>12. /\ ActorTypes' /\ SentOnProcess' /\ NoPromptLostToIdlePark'
       /\ \/ refresh' = [at |-> "none", session |-> None]
          \/ UNCHANGED refresh /\ refresh.at # "waking"
       /\ rollback.at = "destroying" <=> rollback'.at = "destroying"
  BY <1>1, <1>2, <1>4, <1>10, ReturnKeeps
<1>13. /\ ManagerTypes' /\ ClaimsMatch' /\ LaunchFindsEntryFree' /\ ResumeCourse'
       /\ CandidateIsFresh' /\ LostIsStopped'
       /\ resuming'.at = "none" /\ resuming'.live = None /\ resuming'.placeholder = None
       /\ resuming'.candidate = None
  BY <1>1, <1>11, EndKeeps
<1>14. SessionTypes'
  BY <1>1, <1>6, <1>7, <1>8 DEF IInv, TypeOK, SessionTypes
<1>15. RuntimeTypes'
  BY <1>1, <1>9 DEF IInv, TypeOK, RuntimeTypes
<1>16. NamesAreBorn'
  BY <1>1, <1>11, <1>12, <1>13 DEF IInv, NamesAreBorn, MaybeBorn, Born
<1>17. LaterIsUntouched'
  <2>1. Born' = Born
    BY <1>1 DEF Born
  <2> QED
    BY <1>1, <1>2, <1>4, <1>6, <1>7, <1>8, <1>9, <2>1 DEF IInv, LaterIsUntouched
<1>18. ParksStop'
  BY <1>1, <1>4, <1>6, <1>7 DEF IInv, ParksStop, Alive
<1>19. RefreshParksAlone'
  <2>1. CASE refresh' = [at |-> "none", session |-> None]
    BY <2>1 DEF RefreshParksAlone
  <2>2. CASE UNCHANGED refresh
    <3>1. refresh.at = "parking" => refresh.session \in Launches /\ refresh.session # o
      BY <1>4 DEF IInv, TypeOK, ActorTypes, Maybe, RefreshParksAlone
    <3> QED
      BY <1>1, <1>7, <2>2, <3>1 DEF IInv, RefreshParksAlone
  <2> QED
    BY <1>12, <2>1, <2>2
<1>20. StopsHold'
  <2>1. CASE h = None
    <3>1. \A p \in Launches : rt'[p] = rt[p] /\ lifecycle'[p] = lifecycle[p]
      BY <1>2, <1>6, <1>7, <1>11, <2>1
    <3> QED
      BY <1>1, <3>1 DEF IInv, TypeOK, StopTypes, Maybe, StopsHold
  <2>2. CASE h # None
    <3>1. o = h
      BY <2>2 DEF o
    <3>2. ASSUME NEW t \in Stoppers, stops[t].of = h
          PROVE  stops[t].at \in {"closing", "done"} => t = "shutdown"
      BY <1>5, <2>2, <3>2
    <3>3. ASSUME NEW t \in Stoppers
          PROVE  /\ stops[t].at = "done" /\ t # "shutdown" =>
                      stops[t].of = None \/ lifecycle'[stops[t].of] = "parked"
                 /\ stops[t].at \in {"waiting", "closing"} /\ t # "shutdown" =>
                      stops[t].on = rt'[stops[t].of]
      <4>1. CASE stops[t].of = h
        BY <1>3, <2>2, <3>2, <4>1 DEF IInv, StopsHold
      <4>2. CASE stops[t].of # h
        BY <1>6, <1>7, <3>1, <4>2 DEF IInv, TypeOK, StopTypes, Maybe, StopsHold
      <4> QED
        BY <4>1, <4>2
    <3> QED
      BY <1>1, <3>3 DEF IInv, StopsHold
  <2> QED
    BY <2>1, <2>2
<1>21. StopsBelong'
  <2>1. deletion # "destroying"
    BY <1>1 DEF IInv, TypeOK, ClaimsMatch
  <2> QED
    BY <1>1, <1>12, <1>13, <2>1 DEF IInv, StopsBelong
<1>22. AdoptedIsOut'
  <2>1. CASE h = None
    <3>1. \A p \in Launches : rt'[p] = rt[p]
      BY <1>2, <1>6, <1>11, <2>1
    <3> QED
      BY <1>1, <1>2, <1>8, <1>11, <1>13, <2>1, <3>1 DEF IInv, AdoptedIsOut, None, Launches
  <2>2. CASE h # None
    <3>1. o = h /\ entry' = h /\ h # k
      BY <1>3, <1>11, <2>2 DEF o
    <3>2. ASSUME NEW p \in Launches, p # h, rt'[p] = rt'[h]
          PROVE  /\ rt'[p] = p /\ entry' # p /\ ~transition'[p] /\ timer'[p] = "off"
                 /\ resuming'.placeholder # p
      BY <1>1, <1>2, <1>6, <1>8, <1>13, <3>1, <3>2 DEF None, Launches
    <3>3. ASSUME NEW p \in Launches, NEW q \in Launches, p # q, rt'[p] = rt'[q], p # h, q # h
          PROVE  \/ rt'[p] = p /\ entry' # p /\ ~transition'[p] /\ timer'[p] = "off"
                               /\ resuming'.placeholder # p
                 \/ rt'[q] = q /\ entry' # q /\ ~transition'[q] /\ timer'[q] = "off"
                               /\ resuming'.placeholder # q
      BY <1>1, <1>6, <1>8, <1>13, <3>1, <3>3 DEF IInv, AdoptedIsOut, None, Launches
    <3> QED
      BY <1>3, <2>2, <3>2, <3>3 DEF AdoptedIsOut
  <2> QED
    BY <2>1, <2>2
<1>23. NoOrphanProcess'
  <2>1. ASSUME NEW q \in Launches, phase = "serving", pi[q] = "running"
        PROVE  q = k /\ (h = None => entry = k)
    BY <1>2, <2>1 DEF IInv, NoOrphanProcess, LostIsStopped
  <2> QED
    BY <1>1, <1>2, <1>3, <1>6, <1>11, <2>1 DEF NoOrphanProcess, o
<1>24. IdleParkIsOpen'
  BY <1>1, <1>4, <1>6 DEF IInv, IdleParkIsOpen, Alive
<1> QED
  BY <1>1, <1>12, <1>13, <1>14, <1>15, <1>16, <1>17, <1>18, <1>19, <1>20, <1>21, <1>22, <1>23,
     <1>24, TypesFrame
  DEF IInv, TypeOK

-----------------------------------------------------------------------------
(* The resource refresh.                                                   *)

\* No resume says that a refresh prepared it while that refresh waits for none.
LEMMA NotPrepared ==
  ASSUME IInv, refresh.at # "waking"
  PROVE  ~resuming.prepared
BY DEF IInv, ResumeCourse

\* A refresh that begins, or ends without having parked anything.
LEMMA RefreshMovesKeeps ==
  ASSUME IInv, refresh.at # "waking", NEW at \in {"none", "preflight"}, NEW o \in MaybeBorn,
         Refreshing(at, o), indexed' \in BOOLEAN,
         at = "none" <=> o = None,
         at = "preflight" => o = entry /\ Eligible(rt[entry]),
         UNCHANGED <<entry, claim, resuming, rt, lifecycle, transition, timer, pi, parkedBy,
                     ingesting, idle, turn, loaded, cmd, rollback, deletion, stops, phase, file,
                     launched>>
  PROVE  IInv'
<1>1. refresh' = [at |-> at, session |-> o]
  BY DEF Refreshing
<1>2. refresh'.at = at /\ refresh'.session = o
  BY <1>1
<1>3. ManagerTypes'
  BY DEF IInv, TypeOK, ManagerTypes
<1>4. o \in Maybe
  BY DEF IInv, NamesAreBorn, MaybeBorn, Born, Maybe, Launches
<1>5. ActorTypes'
  BY <1>1, <1>4 DEF IInv, TypeOK, ActorTypes
<1>6. NamesAreBorn'
  BY <1>2 DEF IInv, NamesAreBorn, MaybeBorn, Born
<1>7. RefreshParksAlone'
  BY <1>2 DEF RefreshParksAlone
<1>8. ResumeCourse'
  BY <1>2, NotPrepared DEF IInv, ResumeCourse
<1>9. CandidateIsFresh'
  <2>1. ASSUME resuming.candidate # None, at = "preflight"
        PROVE  o # resuming.candidate
    BY <2>1, NotPrepared DEF IInv, CandidateIsFresh, Eligible
  <2> QED
    BY <1>2, <2>1 DEF IInv, CandidateIsFresh
<1> QED
  BY <1>3, <1>5, <1>6, <1>7, <1>8, <1>9, TypesFrame, LaterFrame, ParksFrame, StopsFrame,
     BelongFrame, AdoptedFrame, LostFrame, OrphanFrame, IdleParkFrame, SentFrame
  DEF IInv, TypeOK

LEMMA RefreshStartsKeeps ==
  ASSUME IInv, RefreshStarts
  PROVE  IInv'
<1>1. entry \in MaybeBorn /\ entry # None /\ indexed \in BOOLEAN
  BY DEF RefreshStarts, IInv, TypeOK, ManagerTypes, NamesAreBorn
<1> QED
  BY <1>1, RefreshMovesKeeps DEF RefreshStarts, manager, sessions, runtimes

LEMMA RefreshPreflightFailsKeeps ==
  ASSUME IInv, RefreshPreflightFails
  PROVE  IInv'
<1>1. None \in MaybeBorn
  BY DEF MaybeBorn
<1> QED
  BY <1>1, RefreshMovesKeeps DEF RefreshPreflightFails, sessions, runtimes

LEMMA RefreshYieldsKeeps ==
  ASSUME IInv, RefreshYields
  PROVE  IInv'
<1>1. None \in MaybeBorn /\ indexed \in BOOLEAN
  BY DEF MaybeBorn, IInv, TypeOK, ManagerTypes
<1> QED
  BY <1>1, RefreshMovesKeeps DEF RefreshYields, manager, sessions, runtimes, bounds

LEMMA RefreshParksKeeps ==
  ASSUME IInv, RefreshParks
  PROVE  IInv'
<1> DEFINE o == refresh.session
<1>1. /\ UNCHANGED <<entry, claim, resuming, indexed, rt, transition, timer, ingesting, idle,
                     turn, loaded, cmd, rollback, deletion, stops, phase, file, launched>>
      /\ refresh.at = "preflight" /\ lifecycle[o] = "live"
      /\ lifecycle' = [lifecycle EXCEPT ![o] = "parking"]
      /\ parkedBy' \in {parkedBy, [parkedBy EXCEPT ![rt[o]] = "refresh"]}
      /\ pi' = [pi EXCEPT ![rt[o]] = Closing(rt[o])]
      /\ refresh' = [at |-> "parking", session |-> o]
  BY DEF RefreshParks, ParkBegins, Refreshing, manager, bounds
<1>2. /\ o \in Launches /\ o \in Born /\ o # resuming.candidate /\ o # resuming.placeholder
      /\ rt[o] \in Launches /\ rt[o] \in Born /\ o # None
  BY <1>1 DEF IInv, TypeOK, ActorTypes, SessionTypes, Maybe, NamesAreBorn, MaybeBorn,
              RefreshParksAlone, CandidateIsFresh, ResumeCourse, LaterIsUntouched
<1>3. ~transition[o]
  BY <1>1, <1>2 DEF IInv, ParksStop
<1>4. /\ lifecycle' \in [Launches -> {"live", "parking", "parked"}]
      /\ lifecycle'[o] = "parking"
      /\ \A p \in Launches : p # o => lifecycle'[p] = lifecycle[p]
  BY <1>1, <1>2 DEF IInv, TypeOK, SessionTypes
<1>5. /\ pi' \in [Launches -> {"none", "running", "closing", "exited", "crashed"}]
      /\ \A r \in Launches : r # rt[o] => pi'[r] = pi[r]
      /\ \A r \in Launches : pi'[r] # pi[r] => pi[r] = "running" /\ pi'[r] = "closing"
  BY <1>1, <1>2 DEF IInv, TypeOK, RuntimeTypes, Closing
<1>6. parkedBy' \in [Launches -> {"none", "idle", "refresh"}]
  BY <1>1 DEF IInv, TypeOK, RuntimeTypes
<1>7. /\ \A r \in Launches : parkedBy'[r] = "idle" => parkedBy[r] = "idle"
      /\ \A r \in Launches : r # rt[o] => parkedBy'[r] = parkedBy[r]
  BY <1>1, <1>2 DEF IInv, TypeOK, RuntimeTypes
<1> HIDE DEF o
<1>8. SessionTypes'
  BY <1>1, <1>4 DEF IInv, TypeOK, SessionTypes
<1>9. RuntimeTypes'
  BY <1>1, <1>5, <1>6 DEF IInv, TypeOK, RuntimeTypes
<1>10. ActorTypes'
  BY <1>1, <1>2 DEF IInv, TypeOK, ActorTypes, Maybe
<1>11. refresh'.at = "parking" /\ refresh'.session = o
  BY <1>1
<1>12. NamesAreBorn'
  BY <1>1, <1>2, <1>11 DEF IInv, NamesAreBorn, MaybeBorn, Born
<1>13. LaterIsUntouched'
  BY <1>1, <1>2, <1>4, <1>5, <1>7 DEF IInv, LaterIsUntouched, Born
<1>14. ParksStop'
  BY <1>1, <1>3, <1>4, <1>5 DEF IInv, TypeOK, SessionTypes, ParksStop, Alive
<1>15. RefreshParksAlone'
  BY <1>1, <1>2, <1>3, <1>4, <1>11 DEF RefreshParksAlone
<1>16. ResumeCourse'
  BY <1>1, <1>2, <1>4, NotPrepared DEF IInv, TypeOK, ManagerTypes, Maybe, ResumeCourse
<1>17. CandidateIsFresh'
  BY <1>1, <1>2, <1>4, <1>11 DEF IInv, TypeOK, ManagerTypes, Maybe, CandidateIsFresh
<1>18. StopsHold'
  BY <1>1, <1>4, <1>5 DEF IInv, TypeOK, StopTypes, Maybe, StopsHold, o
<1>19. LostIsStopped' /\ NoOrphanProcess'
  BY <1>1, <1>5 DEF IInv, TypeOK, ManagerTypes, Maybe, LostIsStopped, NoOrphanProcess
<1>20. IdleParkIsOpen'
  BY <1>1, <1>5, <1>7 DEF IInv, IdleParkIsOpen, Alive
<1>21. SentOnProcess' /\ NoPromptLostToIdlePark'
  <2>1. \A c \in Commands : cmd[c].at = "sent" => cmd[c].on \in Launches
    BY DEF IInv, TypeOK, ActorTypes, Maybe, SentOnProcess
  <2> QED
    BY <1>1, <1>7, <2>1 DEF IInv, SentOnProcess, NoPromptLostToIdlePark
<1> QED
  BY <1>1, <1>8, <1>9, <1>10, <1>12, <1>13, <1>14, <1>15, <1>16, <1>17, <1>18, <1>19, <1>20,
     <1>21, TypesFrame, BelongFrame, AdoptedFrame
  DEF IInv, TypeOK

\* What a refresh that found or made its session parked does next.
LEMMA WakesEffect ==
  ASSUME IInv, RefreshWakes, refresh.at # "waking"
  PROVE  /\ (CanResume /\ CallResume(TRUE)) \/ UNCHANGED <<resuming, claim>>
         /\ \/ refresh' = [at |-> "waking", session |-> refresh.session]
            \/ /\ refresh' = [at |-> "none", session |-> None]
               /\ UNCHANGED <<resuming, claim>>
BY DEF RefreshWakes, Refreshing

LEMMA RefreshWakesKeeps ==
  ASSUME IInv, RefreshWakes, refresh.at # "waking", refresh.session # None,
         indexed' \in BOOLEAN, SessionTypes', LaterIsUntouched', ParksStop', StopsHold',
         \A p \in Launches : \/ lifecycle'[p] = lifecycle[p]
                             \/ /\ p = refresh.session /\ refresh.at = "parking"
                                /\ lifecycle'[p] = "parked",
         UNCHANGED <<entry, rt, transition, timer, pi, parkedBy, ingesting, idle, turn, loaded,
                     cmd, rollback, deletion, stops, phase, file, launched>>
  PROVE  IInv'
<1>1. /\ (CanResume /\ CallResume(TRUE)) \/ UNCHANGED <<resuming, claim>>
      /\ \/ refresh' = [at |-> "waking", session |-> refresh.session]
         \/ /\ refresh' = [at |-> "none", session |-> None]
            /\ UNCHANGED <<resuming, claim>>
  BY WakesEffect
<1>2. /\ UNCHANGED <<resuming.live, resuming.placeholder, resuming.candidate>>
      /\ \/ UNCHANGED <<resuming, claim>>
         \/ /\ resuming.at = "none" /\ claim = "none"
            /\ claim' = "resume" /\ resuming' = Called(TRUE)
  BY <1>1, CallEffect
<1>3. ManagerTypes' /\ ClaimsMatch' /\ LaunchFindsEntryFree' /\ ResumeCourse'
  <2>1. \A p \in Launches : lifecycle[p] = "parked" => lifecycle'[p] = "parked"
    OBVIOUS
  <2>2. resuming.at = "none" /\ resuming'.at # "none" => refresh'.at = "waking"
    BY <1>1
  <2> QED
    BY <1>1, <2>1, <2>2, CallKeeps
<1>4. /\ refresh' \in [at: {"none", "preflight", "parking", "waking"}, session: Maybe]
      /\ refresh'.session \in {None, refresh.session}
      /\ refresh'.at \in {"none", "waking"}
      /\ refresh'.at = "none" <=> refresh'.session = None
  <2>1. refresh.session \in Maybe /\ None \in Maybe
    BY DEF IInv, TypeOK, ActorTypes, Maybe
  <2>2. CASE refresh' = [at |-> "waking", session |-> refresh.session]
    BY <2>1, <2>2
  <2>3. CASE refresh' = [at |-> "none", session |-> None]
    BY <2>1, <2>3
  <2> QED
    BY <1>1, <2>2, <2>3
<1>5. ActorTypes'
  BY <1>4 DEF IInv, TypeOK, ActorTypes
<1>6. NamesAreBorn'
  BY <1>2, <1>4 DEF IInv, NamesAreBorn, MaybeBorn, Born
<1>7. RefreshParksAlone'
  BY <1>4 DEF RefreshParksAlone
<1>8. CandidateIsFresh'
  <2>1. resuming.candidate # None => resuming' = resuming
    BY <1>2 DEF IInv, ResumeCourse, NoResume
  <2>2. resuming.candidate # None =>
          resuming.candidate \in Launches /\ lifecycle'[resuming.candidate] = "live"
    BY DEF IInv, TypeOK, ManagerTypes, Maybe, CandidateIsFresh
  <2> QED
    BY <1>2, <1>4, <2>1, <2>2 DEF IInv, CandidateIsFresh
<1>9. StopsBelong'
  <2>1. resuming' = resuming \/ (resuming.at = "none" /\ resuming'.at = "called")
    BY <1>2 DEF Called
  <2> QED
    BY <1>2, <2>1 DEF IInv, StopsBelong
<1>10. AdoptedIsOut' /\ LostIsStopped' /\ NoOrphanProcess'
  BY <1>2, AdoptedFrame, LostFrame, OrphanFrame DEF IInv
<1> QED
  BY <1>3, <1>5, <1>6, <1>7, <1>8, <1>9, <1>10, TypesFrame, IdleParkFrame, SentFrame
  DEF IInv, TypeOK

LEMMA RefreshParkedKeeps ==
  ASSUME IInv, RefreshParked
  PROVE  IInv'
<1> DEFINE o == refresh.session
<1>1. /\ UNCHANGED <<entry, rt, transition, timer, pi, parkedBy, ingesting, idle, turn, loaded,
                     cmd, rollback, deletion, stops, phase, file, launched>>
      /\ refresh.at = "parking" /\ ~Alive(rt[o]) /\ indexed' = TRUE
      /\ lifecycle' = [lifecycle EXCEPT ![o] = "parked"]
      /\ RefreshWakes
  BY DEF RefreshParked, runtimes, bounds
<1>2. o \in Launches /\ o \in Born /\ lifecycle[o] = "parking" /\ ~transition[o] /\ o # None
  BY <1>1 DEF IInv, TypeOK, ActorTypes, Maybe, NamesAreBorn, MaybeBorn, RefreshParksAlone
<1>3. /\ lifecycle' \in [Launches -> {"live", "parking", "parked"}]
      /\ lifecycle'[o] = "parked"
      /\ \A p \in Launches : p # o => lifecycle'[p] = lifecycle[p]
  BY <1>1, <1>2 DEF IInv, TypeOK, SessionTypes
<1>4. SessionTypes'
  BY <1>1, <1>3 DEF IInv, TypeOK, SessionTypes
<1>5. LaterIsUntouched'
  BY <1>1, <1>2, <1>3 DEF IInv, LaterIsUntouched, Born
<1>6. ParksStop'
  BY <1>1, <1>2, <1>3 DEF IInv, ParksStop, Alive
<1>7. StopsHold'
  BY <1>1, <1>2, <1>3 DEF IInv, TypeOK, StopTypes, Maybe, StopsHold
<1> QED
  BY <1>1, <1>2, <1>3, <1>4, <1>5, <1>6, <1>7, RefreshWakesKeeps

LEMMA RefreshFindsParkedKeeps ==
  ASSUME IInv, RefreshFindsParked
  PROVE  IInv'
<1>1. /\ UNCHANGED <<entry, rt, lifecycle, transition, timer, pi, parkedBy, ingesting, idle, turn,
                     loaded, cmd, rollback, deletion, stops, phase, file, launched>>
      /\ refresh.at = "preflight" /\ RefreshWakes
  BY DEF RefreshFindsParked, sessions, runtimes, bounds
<1>2. indexed' \in BOOLEAN
  BY DEF RefreshFindsParked
<1>3. refresh.session # None
  BY <1>1 DEF IInv, RefreshParksAlone
<1>4. SessionTypes' /\ LaterIsUntouched' /\ ParksStop' /\ StopsHold'
  BY <1>1, TypesFrame, LaterFrame, ParksFrame, StopsFrame DEF IInv, TypeOK
<1> QED
  BY <1>1, <1>2, <1>3, <1>4, RefreshWakesKeeps

-----------------------------------------------------------------------------
(* DELETE.                                                                 *)

\* A step of the delete that stops and drops nothing.
LEMMA DeleteMovesKeeps ==
  ASSUME IInv, ClaimsMatch', deletion # "destroying", deletion' # "destroying",
         claim' \in {"none", "resume", "delete"}, indexed' \in BOOLEAN,
         deletion' \in {"none", "checking", "destroying", "removing", "done", "failed"},
         UNCHANGED <<entry, resuming, rt, lifecycle, transition, timer, pi, parkedBy, ingesting,
                     idle, turn, loaded, cmd, refresh, rollback, stops, phase, file, launched>>
  PROVE  IInv'
<1>1. ManagerTypes'
  BY DEF IInv, TypeOK, ManagerTypes
<1>2. ActorTypes'
  BY DEF IInv, TypeOK, ActorTypes
<1>3. StopsBelong'
  BY DEF IInv, StopsBelong
<1> QED
  BY <1>1, <1>2, <1>3, TypesFrame, NamesFrame, LaterFrame, ParksFrame, RefreshFrame, CourseFrame,
     CandidateFrame, StopsFrame, AdoptedFrame, LostFrame, OrphanFrame, IdleParkFrame, SentFrame
  DEF IInv, TypeOK

LEMMA DeleteStartsKeeps ==
  ASSUME IInv, DeleteStarts
  PROVE  IInv'
<1>1. ClaimsMatch'
  BY DEF DeleteStarts, DeleteStep, IInv, TypeOK, ClaimsMatch
<1>2. indexed' \in BOOLEAN
  BY DEF DeleteStarts, IInv, TypeOK, ManagerTypes
<1> QED
  BY <1>1, <1>2, DeleteMovesKeeps DEF DeleteStarts, DeleteStep, bounds

LEMMA DeleteEndsKeeps ==
  ASSUME IInv, DeleteRemoves \/ DeleteFails
  PROVE  IInv'
<1>1. ClaimsMatch'
  BY DEF DeleteRemoves, DeleteFails, DeleteStep, IInv, TypeOK, ClaimsMatch
<1>2. indexed' \in BOOLEAN
  BY DEF DeleteRemoves, DeleteFails, IInv, TypeOK, ManagerTypes
<1> QED
  BY <1>1, <1>2, DeleteMovesKeeps DEF DeleteRemoves, DeleteFails, DeleteStep, bounds

LEMMA DeleteDestroysKeeps ==
  ASSUME IInv, DeleteDestroys
  PROVE  IInv'
<1>1. /\ UNCHANGED <<entry, claim, indexed, resuming, rt, lifecycle, transition, parkedBy,
                     ingesting, idle, turn, loaded, cmd, refresh, rollback, phase, file, launched>>
      /\ deletion = "checking"
  BY DEF DeleteDestroys, DeleteStep, bounds
<1>2. CASE entry = None /\ deletion' = "removing" /\ UNCHANGED <<timer, pi, stops>>
  <2>1. ClaimsMatch'
    BY <1>1, <1>2 DEF IInv, TypeOK, ClaimsMatch
  <2> QED
    BY <1>1, <1>2, <2>1, DeleteMovesKeeps DEF IInv, TypeOK, ManagerTypes
<1>3. CASE entry # None /\ deletion' = "destroying" /\ StopCall("delete", entry)
  <2>1. /\ SessionTypes' /\ RuntimeTypes' /\ StopTypes' /\ NamesAreBorn' /\ LaterIsUntouched'
        /\ ParksStop' /\ RefreshParksAlone' /\ CandidateIsFresh' /\ StopsHold' /\ AdoptedIsOut'
        /\ LostIsStopped' /\ NoOrphanProcess' /\ IdleParkIsOpen' /\ SentOnProcess'
        /\ NoPromptLostToIdlePark'
    BY <1>1, <1>3, StopCallKeeps DEF Stoppers
  <2>2. entry \in Launches /\ "delete" \in Stoppers
    BY <1>3 DEF IInv, TypeOK, ManagerTypes, Maybe, Stoppers
  <2>3. /\ stops'["delete"].of = entry /\ stops'["delete"].at # "none"
        /\ \A u \in Stoppers : u # "delete" => stops'[u] = stops[u]
    BY <1>3, <2>2, StopCallEffect
  <2>4. StopsBelong'
    BY <1>1, <1>3, <2>3 DEF IInv, StopsBelong, Stoppers
  <2>5. ActorTypes'
    BY <1>1, <1>3 DEF IInv, TypeOK, ActorTypes
  <2>6. ClaimsMatch'
    BY <1>1, <1>3 DEF IInv, TypeOK, ClaimsMatch
  <2> QED
    BY <1>1, <2>1, <2>4, <2>5, <2>6, TypesFrame, CourseFrame DEF IInv, TypeOK
<1> QED
  BY <1>2, <1>3 DEF DeleteDestroys

LEMMA DeleteDestroyedKeeps ==
  ASSUME IInv, DeleteDestroyed
  PROVE  IInv'
<1>1. /\ UNCHANGED <<claim, indexed, resuming, rt, lifecycle, transition, timer, pi, parkedBy,
                     ingesting, idle, turn, loaded, cmd, refresh, rollback, phase, file, launched>>
      /\ deletion = "destroying" /\ deletion' = "removing" /\ Stopped("delete")
      /\ entry' = EntryWithout("delete")
      /\ stops' = [stops EXCEPT !["delete"] = NoStop]
      /\ "delete" \in Stoppers \ {"shutdown"}
  BY DEF DeleteDestroyed, DeleteStep, bounds, Stoppers
<1>2. /\ stops["delete"].of # None /\ entry \in {None, stops["delete"].of} /\ entry' = None
      /\ resuming.at = "none" /\ resuming.candidate = None
  BY <1>1 DEF IInv, TypeOK, ClaimsMatch, StopsBelong, EntryWithout, ResumeCourse, NoResume
<1>3. pi[rt[stops["delete"].of]] # "running"
  BY <1>1, <1>2, StoppedRunsNothing
<1>4. /\ StopTypes' /\ StopsHold' /\ stops'["delete"] = NoStop
      /\ \A u \in Stoppers : u # "delete" => stops'[u] = stops[u]
  BY <1>1, StopOverKeeps
<1>5. ManagerTypes'
  BY <1>1, <1>2 DEF IInv, TypeOK, ManagerTypes, Maybe
<1>6. ActorTypes'
  BY <1>1 DEF IInv, TypeOK, ActorTypes
<1>7. ClaimsMatch' /\ LaunchFindsEntryFree'
  BY <1>1, <1>2 DEF IInv, TypeOK, ClaimsMatch, LaunchFindsEntryFree
<1>8. NamesAreBorn'
  BY <1>1, <1>2, <1>4 DEF IInv, NamesAreBorn, MaybeBorn, Born, NoStop
<1>9. StopsBelong'
  BY <1>1, <1>2, <1>4 DEF IInv, StopsBelong, Stoppers, NoStop
<1>10. AdoptedIsOut'
  BY <1>1, <1>2 DEF IInv, AdoptedIsOut, None, Launches
<1>11. LostIsStopped' /\ NoOrphanProcess'
  BY <1>1, <1>2, <1>3 DEF IInv, LostIsStopped, NoOrphanProcess, None, Launches
<1> QED
  BY <1>1, <1>4, <1>5, <1>6, <1>7, <1>8, <1>9, <1>10, <1>11, TypesFrame, LaterFrame, ParksFrame,
     RefreshFrame, CourseFrame, CandidateFrame, IdleParkFrame, SentFrame
  DEF IInv, TypeOK

-----------------------------------------------------------------------------
(* Checkpoint rollback.                                                    *)

LEMMA RollbackStartsKeeps ==
  ASSUME IInv, RollbackStarts
  PROVE  IInv'
<1>1. /\ UNCHANGED <<entry, claim, resuming, indexed, rt, lifecycle, transition, timer, pi,
                     parkedBy, ingesting, idle, turn, loaded, cmd, refresh, deletion, stops,
                     phase, file, launched>>
      /\ rollback.at = "none"
      /\ rollback' = [rollback EXCEPT !.at = "preparing"]
  BY DEF RollbackStarts, RollbackStep, bounds
<1>2. rollback'.at = "preparing"
  BY <1>1 DEF IInv, TypeOK, ActorTypes
<1>3. ActorTypes'
  BY <1>1 DEF IInv, TypeOK, ActorTypes
<1>4. StopsBelong'
  BY <1>1, <1>2 DEF IInv, StopsBelong
<1> QED
  BY <1>1, <1>3, <1>4, TypesFrame, NamesFrame, LaterFrame, ParksFrame, RefreshFrame, CourseFrame,
     CandidateFrame, StopsFrame, AdoptedFrame, LostFrame, OrphanFrame, IdleParkFrame, SentFrame
  DEF IInv, TypeOK

LEMMA RollbackDestroysKeeps ==
  ASSUME IInv, RollbackDestroys
  PROVE  IInv'
<1>1. /\ UNCHANGED <<entry, claim, indexed, resuming, rt, lifecycle, transition, parkedBy,
                     ingesting, idle, turn, loaded, cmd, refresh, deletion, phase, file, launched>>
      /\ rollback.at = "preparing"
  BY DEF RollbackDestroys, RollbackStep, bounds
<1>2. CASE /\ entry = None /\ rollback' = [rollback EXCEPT !.at = "restoring"]
           /\ UNCHANGED <<timer, pi, stops>>
  <2>1. rollback'.at = "restoring"
    BY <1>2 DEF IInv, TypeOK, ActorTypes
  <2>2. ActorTypes'
    BY <1>1, <1>2 DEF IInv, TypeOK, ActorTypes
  <2>3. StopsBelong'
    BY <1>1, <1>2, <2>1 DEF IInv, StopsBelong
  <2> QED
    BY <1>1, <1>2, <2>2, <2>3, TypesFrame, NamesFrame, LaterFrame, ParksFrame, RefreshFrame,
       CourseFrame, CandidateFrame, StopsFrame, AdoptedFrame, LostFrame, OrphanFrame,
       IdleParkFrame, SentFrame
    DEF IInv, TypeOK
<1>3. CASE /\ entry # None /\ rollback' = [rollback EXCEPT !.at = "destroying"]
           /\ StopCall("rollback", entry)
  <2>1. /\ SessionTypes' /\ RuntimeTypes' /\ StopTypes' /\ NamesAreBorn' /\ LaterIsUntouched'
        /\ ParksStop' /\ RefreshParksAlone' /\ CandidateIsFresh' /\ StopsHold' /\ AdoptedIsOut'
        /\ LostIsStopped' /\ NoOrphanProcess' /\ IdleParkIsOpen' /\ SentOnProcess'
        /\ NoPromptLostToIdlePark'
    BY <1>1, <1>3, StopCallKeeps DEF Stoppers
  <2>2. entry \in Launches /\ "rollback" \in Stoppers
    BY <1>3 DEF IInv, TypeOK, ManagerTypes, Maybe, Stoppers
  <2>3. /\ stops'["rollback"].of = entry /\ stops'["rollback"].at # "none"
        /\ \A u \in Stoppers : u # "rollback" => stops'[u] = stops[u]
    BY <1>3, <2>2, StopCallEffect
  <2>4. rollback'.at = "destroying"
    BY <1>3 DEF IInv, TypeOK, ActorTypes
  <2>5. StopsBelong'
    BY <1>1, <1>3, <2>3, <2>4 DEF IInv, StopsBelong, Stoppers
  <2>6. ActorTypes'
    BY <1>1, <1>3 DEF IInv, TypeOK, ActorTypes
  <2> QED
    BY <1>1, <2>1, <2>5, <2>6, TypesFrame, CourseFrame DEF IInv, TypeOK
<1> QED
  BY <1>2, <1>3 DEF RollbackDestroys

\* The rollback may take the entry from under a resume: the candidate it stopped has
\* ended, and so has the session it found.
LEMMA RollbackDestroyedKeeps ==
  ASSUME IInv, RollbackDestroyed
  PROVE  IInv'
<1> DEFINE of == stops["rollback"].of
<1>1. /\ UNCHANGED <<claim, indexed, resuming, rt, lifecycle, transition, timer, pi, parkedBy,
                     ingesting, idle, turn, loaded, cmd, refresh, deletion, phase, file, launched>>
      /\ rollback.at = "destroying" /\ Stopped("rollback")
      /\ rollback' = [rollback EXCEPT !.at = "restoring"]
      /\ entry' = IF entry = of THEN None ELSE entry
      /\ stops' = [stops EXCEPT !["rollback"] = NoStop]
      /\ "rollback" \in Stoppers \ {"shutdown"}
  BY DEF RollbackDestroyed, RollbackStep, bounds, Stoppers, EntryWithout
<1>2. of # None /\ rollback'.at = "restoring"
  BY <1>1 DEF IInv, TypeOK, ActorTypes, StopsBelong
<1>3. pi[rt[of]] # "running" /\ (stops["rollback"].at = "done" => lifecycle[of] = "parked")
  BY <1>1, <1>2, StoppedRunsNothing
<1>4. /\ StopTypes' /\ StopsHold' /\ stops'["rollback"] = NoStop
      /\ \A u \in Stoppers : u # "rollback" => stops'[u] = stops[u]
  BY <1>1, StopOverKeeps
<1>5. entry' \in {None, entry}
  BY <1>1
<1>6. ManagerTypes'
  BY <1>1, <1>5 DEF IInv, TypeOK, ManagerTypes, Maybe
<1>7. ActorTypes'
  BY <1>1 DEF IInv, TypeOK, ActorTypes
<1>8. ClaimsMatch' /\ LaunchFindsEntryFree'
  BY <1>1, <1>5 DEF IInv, TypeOK, ClaimsMatch, LaunchFindsEntryFree
<1>9. NamesAreBorn'
  BY <1>1, <1>4, <1>5 DEF IInv, NamesAreBorn, MaybeBorn, Born, NoStop
<1>10. StopsBelong'
  BY <1>1, <1>2, <1>4, <1>5 DEF IInv, StopsBelong, Stoppers, NoStop
<1>11. AdoptedIsOut'
  BY <1>1, <1>5 DEF IInv, AdoptedIsOut, None, Launches
<1>12. NoOrphanProcess'
  BY <1>1, <1>3 DEF IInv, NoOrphanProcess
<1>13. LostIsStopped'
  <2>1. resuming.candidate # None => /\ entry \in {None, resuming.candidate}
                                     /\ rt[resuming.candidate] = resuming.candidate
    BY DEF IInv, TypeOK, LaunchFindsEntryFree, ResumeCourse, CandidateIsFresh
  <2> QED
    BY <1>1, <1>2, <1>3, <2>1 DEF IInv, LostIsStopped
<1> QED
  BY <1>1, <1>4, <1>6, <1>7, <1>8, <1>9, <1>10, <1>11, <1>12, <1>13, TypesFrame, LaterFrame,
     ParksFrame, RefreshFrame, CourseFrame, CandidateFrame, IdleParkFrame, SentFrame
  DEF IInv, TypeOK

LEMMA RollbackReopensKeeps ==
  ASSUME IInv, RollbackReopens
  PROVE  IInv'
<1>1. /\ UNCHANGED <<entry, indexed, rt, lifecycle, transition, timer, pi, parkedBy, ingesting,
                     idle, turn, loaded, cmd, refresh, deletion, stops, phase, launched>>
      /\ rollback.at = "restoring"
      /\ (CanResume /\ CallResume(FALSE)) \/ UNCHANGED <<resuming, claim>>
  BY DEF RollbackReopens, RollbackStep, bounds
<1>2. PICK restored \in BOOLEAN :
        /\ file' = IF restored THEN "target" ELSE file
        /\ rollback' = [rollback EXCEPT !.at =
                          IF ~CanResume THEN "failed"
                          ELSE IF restored THEN "reopening" ELSE "aborting"]
  BY DEF RollbackReopens
<1>3. /\ rollback' \in [at: {"none", "preparing", "destroying", "restoring", "reopening",
                             "aborting", "ok", "failed"}, shows: Maybe]
      /\ rollback'.at \in {"failed", "reopening", "aborting"}
      /\ file' \in {"original", "target"}
  BY <1>2 DEF IInv, TypeOK, ActorTypes
<1>4. /\ UNCHANGED <<resuming.live, resuming.placeholder, resuming.candidate>>
      /\ \/ UNCHANGED <<resuming, claim>>
         \/ /\ resuming.at = "none" /\ claim = "none"
            /\ claim' = "resume" /\ resuming' = Called(FALSE)
  BY <1>1, CallEffect
<1>5. ManagerTypes' /\ ClaimsMatch' /\ LaunchFindsEntryFree' /\ ResumeCourse'
  BY <1>1, CallKeeps DEF IInv, TypeOK, ManagerTypes
<1>6. ActorTypes'
  BY <1>1, <1>3 DEF IInv, TypeOK, ActorTypes
<1>7. CandidateIsFresh'
  <2>1. resuming.candidate # None => resuming' = resuming
    BY <1>4 DEF IInv, ResumeCourse, NoResume
  <2> QED
    BY <1>1, <1>4, <2>1 DEF IInv, CandidateIsFresh
<1>8. StopsBelong'
  <2>1. resuming' = resuming \/ (resuming.at = "none" /\ resuming'.at = "called")
    BY <1>4 DEF Called
  <2> QED
    BY <1>1, <1>3, <1>4, <2>1 DEF IInv, StopsBelong
<1> QED
  BY <1>1, <1>4, <1>5, <1>6, <1>7, <1>8, TypesFrame, NamesFrame, LaterFrame, ParksFrame,
     RefreshFrame, StopsFrame, AdoptedFrame, LostFrame, OrphanFrame, IdleParkFrame, SentFrame
  DEF IInv, TypeOK

-----------------------------------------------------------------------------
(* Shutdown.                                                               *)

\* The server goes on to its next phase, away from serving.
LEMMA PhaseKeeps ==
  ASSUME IInv, Shutdown \/ Drain
  PROVE  IInv'
<1>1. /\ UNCHANGED <<entry, claim, resuming, indexed, rt, lifecycle, transition, timer, pi,
                     parkedBy, ingesting, idle, turn, loaded, cmd, refresh, rollback, deletion,
                     stops, file, launched>>
      /\ phase' \in {"settling", "settling again"}
  BY DEF Shutdown, Drain, ShutdownStep, bounds
<1>2. ActorTypes'
  BY <1>1 DEF IInv, TypeOK, ActorTypes
<1>3. LostIsStopped' /\ NoOrphanProcess'
  BY <1>1 DEF LostIsStopped, NoOrphanProcess
<1> QED
  BY <1>1, <1>2, <1>3, TypesFrame, NamesFrame, LaterFrame, ParksFrame, RefreshFrame, CourseFrame,
     CandidateFrame, StopsFrame, BelongFrame, AdoptedFrame, IdleParkFrame, SentFrame
  DEF IInv, TypeOK

LEMMA StopAllKeeps ==
  ASSUME IInv, StopAll
  PROVE  IInv'
<1>1. /\ UNCHANGED <<entry, claim, indexed, resuming, rt, lifecycle, transition, parkedBy,
                     ingesting, idle, turn, loaded, cmd, refresh, rollback, deletion, file,
                     launched>>
      /\ phase' \in {"stopping", "stopping again"}
  BY DEF StopAll, ShutdownStep, bounds
<1>2. ActorTypes'
  BY <1>1 DEF IInv, TypeOK, ActorTypes
<1>3. CASE entry = None /\ UNCHANGED <<timer, pi, stops>>
  <2>1. LostIsStopped' /\ NoOrphanProcess'
    BY <1>1 DEF LostIsStopped, NoOrphanProcess
  <2> QED
    BY <1>1, <1>2, <1>3, <2>1, TypesFrame, NamesFrame, LaterFrame, ParksFrame, RefreshFrame,
       CourseFrame, CandidateFrame, StopsFrame, BelongFrame, AdoptedFrame, IdleParkFrame, SentFrame
    DEF IInv, TypeOK
<1>4. CASE entry # None /\ StopCall("shutdown", entry)
  <2>1. /\ SessionTypes' /\ RuntimeTypes' /\ StopTypes' /\ NamesAreBorn' /\ LaterIsUntouched'
        /\ ParksStop' /\ RefreshParksAlone' /\ CandidateIsFresh' /\ StopsHold' /\ AdoptedIsOut'
        /\ LostIsStopped' /\ NoOrphanProcess' /\ IdleParkIsOpen' /\ SentOnProcess'
        /\ NoPromptLostToIdlePark'
    BY <1>1, <1>4, StopCallKeeps DEF Stoppers
  <2>2. entry \in Launches /\ "shutdown" \in Stoppers
    BY <1>4 DEF IInv, TypeOK, ManagerTypes, Maybe, Stoppers
  <2>3. \A u \in Stoppers : u # "shutdown" => stops'[u] = stops[u]
    BY <1>4, <2>2, StopCallEffect
  <2>4. StopsBelong'
    BY <1>1, <2>3 DEF IInv, StopsBelong, Stoppers
  <2> QED
    BY <1>1, <1>2, <2>1, <2>4, TypesFrame, CourseFrame DEF IInv, TypeOK
<1> QED
  BY <1>3, <1>4 DEF StopAll

LEMMA StopAllClearsKeeps ==
  ASSUME IInv, StopAllClears
  PROVE  IInv'
<1>1. /\ UNCHANGED <<claim, indexed, resuming, rt, lifecycle, transition, timer, pi, parkedBy,
                     ingesting, idle, turn, loaded, cmd, refresh, rollback, deletion, file,
                     launched>>
      /\ phase' \in {"draining", "closed"}
      /\ entry' = None
      /\ stops' = [stops EXCEPT !["shutdown"] = NoStop]
      /\ "shutdown" \in Stoppers
  BY DEF StopAllClears, ShutdownStep, bounds, Stoppers
<1>2. ActorTypes'
  BY <1>1 DEF IInv, TypeOK, ActorTypes
<1>3. ManagerTypes'
  BY <1>1 DEF IInv, TypeOK, ManagerTypes, Maybe
<1>4. LaunchFindsEntryFree'
  BY <1>1 DEF LaunchFindsEntryFree
<1>5. /\ StopTypes' /\ StopsHold' /\ stops'["shutdown"] = NoStop
      /\ \A u \in Stoppers : u # "shutdown" => stops'[u] = stops[u]
  BY <1>1, StopOverKeeps
<1>6. NamesAreBorn'
  BY <1>1, <1>5 DEF IInv, NamesAreBorn, MaybeBorn, Born, NoStop
<1>7. StopsBelong'
  BY <1>1, <1>5 DEF IInv, StopsBelong, Stoppers
<1>8. AdoptedIsOut'
  BY <1>1 DEF IInv, AdoptedIsOut, None, Launches
<1>9. LostIsStopped' /\ NoOrphanProcess'
  BY <1>1 DEF LostIsStopped, NoOrphanProcess
<1> QED
  BY <1>1, <1>2, <1>3, <1>4, <1>5, <1>6, <1>7, <1>8, <1>9, TypesFrame, LaterFrame, ParksFrame,
     RefreshFrame, CourseFrame, CandidateFrame, IdleParkFrame, SentFrame
  DEF IInv, TypeOK

-----------------------------------------------------------------------------
(* The inductive invariant.                                                *)

LEMMA InitInv == Init => IInv
<1> SUFFICES ASSUME Init
             PROVE  IInv
  OBVIOUS
<1>1. 1 \in Launches /\ Born = {1} /\ MaybeBorn = {1, None}
  BY DEF Init, Launches, Born, MaybeBorn
<1>2. ManagerTypes
  BY <1>1 DEF Init, ManagerTypes, NoResume, Maybe
<1>3. SessionTypes
  BY DEF Init, SessionTypes
<1>4. RuntimeTypes
  BY DEF Init, RuntimeTypes
<1>5. ActorTypes
  BY DEF Init, ActorTypes, NoCommand, Maybe
<1>6. StopTypes
  BY DEF Init, StopTypes, NoStop, Maybe
<1>7. launched \in 0 .. MaxLaunches /\ ClaimsMatch /\ LaunchFindsEntryFree
  BY DEF Init, ClaimsMatch, LaunchFindsEntryFree, NoResume
<1>8. NamesAreBorn
  BY <1>1 DEF Init, NamesAreBorn, NoResume, NoStop
<1>9. LaterIsUntouched
  BY <1>1 DEF Init, LaterIsUntouched
<1>10. ParksStop /\ RefreshParksAlone /\ ResumeCourse /\ CandidateIsFresh
  BY DEF Init, ParksStop, RefreshParksAlone, ResumeCourse, CandidateIsFresh, NoResume
<1>11. StopsHold /\ StopsBelong
  BY DEF Init, StopsHold, StopsBelong, NoStop, NoResume, Stoppers
<1>12. AdoptedIsOut /\ LostIsStopped /\ NoOrphanProcess /\ IdleParkIsOpen
  BY DEF Init, AdoptedIsOut, LostIsStopped, NoOrphanProcess, IdleParkIsOpen, None, NoResume
<1>13. SentOnProcess /\ NoPromptLostToIdlePark
  BY DEF Init, SentOnProcess, NoPromptLostToIdlePark, NoCommand
<1> QED
  BY <1>2, <1>3, <1>4, <1>5, <1>6, <1>7, <1>8, <1>9, <1>10, <1>11, <1>12, <1>13
  DEF IInv, TypeOK

LEMMA StutterKeeps ==
  ASSUME IInv, UNCHANGED vars
  PROVE  IInv'
<1>1. UNCHANGED <<entry, claim, resuming, indexed, rt, lifecycle, transition, timer, pi, parkedBy,
                  ingesting, idle, turn, loaded, cmd, refresh, rollback, deletion, stops, phase,
                  file, launched>>
  BY DEF vars
<1> QED
  BY <1>1, TypesFrame, NamesFrame, LaterFrame, ParksFrame, RefreshFrame, CourseFrame,
     CandidateFrame, StopsFrame, BelongFrame, AdoptedFrame, LostFrame, OrphanFrame,
     IdleParkFrame, SentFrame
  DEF IInv, TypeOK

\* ResumeSucceeds is the one step whose preservation needs the order that Urgent gives.
LEMMA NextKeeps == IInv /\ [Next]_vars => IInv'
<1> SUFFICES ASSUME IInv, [Next]_vars
             PROVE  IInv'
  OBVIOUS
<1>1. CASE StopReturns
  BY <1>1, ResumeDestroyedEndedKeeps, ResumeFailedKeeps, DeleteDestroyedKeeps,
     RollbackDestroyedKeeps DEF StopReturns
<1>2. CASE Continues
  BY <1>2, IdleParkedKeeps, RefreshParkedKeeps, ResumeFindsRunningKeeps, ResumePreparesKeeps
  DEF Continues
<1>3. CASE ProcessStep
  BY <1>3, PiStopsKeeps, TurnEndsKeeps, AnswerKeeps DEF ProcessStep
<1>4. CASE ManagerStep /\ ~Urgent
  BY <1>4, PreflightFailsKeeps, ResumeLaunchesKeeps, ResumeDestroysEndedKeeps, SeedFailsKeeps,
     ResumeSucceedsKeeps, RefreshPreflightFailsKeeps, RefreshParksKeeps, RefreshYieldsKeeps,
     RefreshFindsParkedKeeps DEF ManagerStep
<1>5. CASE RouteStep
  BY <1>5, DeleteDestroysKeeps, DeleteEndsKeeps, RollbackDestroysKeeps, RollbackReopensKeeps,
     StopAllKeeps, StopAllClearsKeeps, PhaseKeeps DEF RouteStep
<1>6. CASE UserStep
  BY <1>6, PiStopsKeeps, IdleTimerKeeps, PromptKeeps, RestResumeKeeps, RefreshStartsKeeps,
     DeleteStartsKeeps, RollbackStartsKeeps, PhaseKeeps DEF UserStep
<1>7. CASE UNCHANGED vars
  BY <1>7, StutterKeeps
<1> QED
  BY <1>1, <1>2, <1>3, <1>4, <1>5, <1>6, <1>7 DEF Next, Internal

\* What the lifecycle keeps in every reachable state: the names it uses were launched,
\* a parked session has no process, a resume in flight holds what it found and made, a
\* stop in progress holds the session it stops, and two sessions never both use the one
\* process they hold (SessionManager.ts, services/sessionManager.ts).
THEOREM LifecycleInvariant == Spec => []IInv
<1>1. Init => IInv
  BY InitInv
<1>2. IInv /\ [Next]_vars => IInv'
  BY NextKeeps
<1> QED
  BY <1>1, <1>2, PTL DEF Spec

\* Type correctness, with the claim held exactly by the resume or delete in flight
\* (sessionMutationClaims.ts) and the map entry free, or the resume's own, when launch
\* asks for it (SessionManager.ts, resumeClaimed).
THEOREM TypeCorrect == Spec => []TypeOK
<1>1. IInv => TypeOK
  BY DEF IInv
<1> QED
  BY <1>1, LifecycleInvariant, PTL

\* However resume, refresh, delete and rollback interleave, a process still running is
\* reached through the map or is the candidate of the resume in flight.
THEOREM NeverAnOrphanProcess == Spec => []NoOrphanProcess
<1>1. IInv => NoOrphanProcess
  BY DEF IInv
<1> QED
  BY <1>1, LifecycleInvariant, PTL

\* The session file is never written by two pi processes, unless one of them is already
\* being killed: the launch of resumeClaimed finds the old one gone.
THEOREM AtMostOneProcess == Spec => []OneProcess
<1>1. ASSUME IInv
      PROVE  OneProcess
  <2>1. resuming.candidate # None => /\ entry \in {None, resuming.candidate}
                                     /\ rt[resuming.candidate] = resuming.candidate
    BY <1>1 DEF IInv, TypeOK, LaunchFindsEntryFree, ResumeCourse, CandidateIsFresh
  <2> QED
    BY <1>1, <2>1 DEF IInv, NoOrphanProcess, OneProcess, None, Launches
<1> QED
  BY <1>1, LifecycleInvariant, PTL

\* The idle deadline never stops the process a prompt was written to, whichever of the
\* clients' prompts it is and whatever wakes or turns came before.
THEOREM PromptsSurviveIdleParks == Spec => []NoPromptLostToIdlePark
<1>1. IInv => NoPromptLostToIdlePark
  BY DEF IInv
<1> QED
  BY <1>1, LifecycleInvariant, PTL

-----------------------------------------------------------------------------
(* A wake leaves the session in the map.                                   *)

\* What WakeKeepsSession asks of a step.
WakeStep == resuming.placeholder # None /\ resuming'.at = "none"
            /\ rollback.at = "none" /\ phase = "serving" => entry' # None

\* A step that leaves the entry and the resume in flight alone.
LEMMA WakeFrame ==
  ASSUME IInv, WakeHolds, UNCHANGED entry,
         UNCHANGED resuming \/ (resuming.at = "none" /\ resuming'.at = "called"),
         rollback'.at = "none" => rollback.at = "none",
         phase' = "serving" => phase = "serving"
  PROVE  WakeHolds' /\ WakeStep
BY DEF IInv, ResumeCourse, NoResume, WakeHolds, WakeStep

\* A step that may call resume.
LEMMA WakeCall ==
  ASSUME IInv, WakeHolds, NEW p \in BOOLEAN, UNCHANGED <<entry, phase>>,
         (CanResume /\ CallResume(p)) \/ UNCHANGED <<resuming, claim>>,
         rollback'.at = "none" => rollback.at = "none"
  PROVE  WakeHolds' /\ WakeStep
<1>1. UNCHANGED resuming \/ (resuming.at = "none" /\ resuming'.at = "called")
  BY CallEffect DEF Called
<1> QED
  BY <1>1, WakeFrame

\* A launch leaves the preflight, and a failed one restores the placeholder.
LEMMA WakeLaunch ==
  ASSUME IInv, Launch, resuming.at \in {"preflight", "stopping"}
  PROVE  WakeHolds' /\ WakeStep
<1>1. CASE \E r \in Launches : Spawn(r)
  <2>1. resuming'.at = "seeding"
    BY <1>1 DEF Spawn, IInv, TypeOK, ManagerTypes
  <2> QED
    BY <2>1 DEF WakeHolds, WakeStep
<1>2. CASE SpawnFails
  <2>1. resuming'.at = "none" /\ entry' = resuming.placeholder
    BY <1>2 DEF SpawnFails, ResumeThrows, EndResume, NoResume
  <2> QED
    BY <2>1 DEF WakeHolds, WakeStep
<1> QED
  BY <1>1, <1>2 DEF Launch

LEMMA WakeNext ==
  ASSUME IInv, WakeHolds, [Next]_vars
  PROVE  WakeHolds' /\ WakeStep
<1>1. CASE StopReturns
  <2>1. CASE ResumeDestroyedEnded
    BY <2>1, WakeLaunch DEF ResumeDestroyedEnded
  <2>2. CASE ResumeFailed
    <3>1. /\ resuming'.at = "none"
          /\ entry' = IF EntryWithout("resume") = None
                      THEN resuming.placeholder ELSE EntryWithout("resume")
      BY <2>2 DEF ResumeFailed, ResumeThrows, EndResume, NoResume
    <3> QED
      BY <3>1 DEF WakeHolds, WakeStep
  <2>3. CASE DeleteDestroyed
    <3>1. resuming.at = "none" /\ resuming.placeholder = None /\ UNCHANGED resuming
      BY <2>3 DEF DeleteDestroyed, DeleteStep, IInv, TypeOK, ClaimsMatch, ResumeCourse, NoResume
    <3> QED
      BY <3>1 DEF WakeHolds, WakeStep
  <2>4. CASE RollbackDestroyed
    <3>1. rollback.at = "destroying" /\ rollback'.at = "restoring"
      BY <2>4 DEF RollbackDestroyed, IInv, TypeOK, ActorTypes
    <3> QED
      BY <3>1 DEF WakeHolds, WakeStep
  <2> QED
    BY <1>1, <2>1, <2>2, <2>3, <2>4 DEF StopReturns
<1>2. CASE Continues
  <2>1. ASSUME NEW o \in Launches, IdleParked(o)
        PROVE  WakeHolds' /\ WakeStep
    <3>1. /\ (CanResume /\ CallResume(FALSE)) \/ UNCHANGED <<resuming, claim>>
          /\ UNCHANGED <<entry, phase, rollback>>
      BY <2>1 DEF IdleParked
    <3> QED
      BY <3>1, WakeCall
  <2>2. CASE RefreshParked
    <3>1. /\ (CanResume /\ CallResume(TRUE)) \/ UNCHANGED <<resuming, claim>>
          /\ UNCHANGED <<entry, phase, rollback>>
      BY <2>2 DEF RefreshParked, RefreshWakes
    <3> QED
      BY <3>1, WakeCall
  <2>3. CASE ResumeFindsRunning
    <3>1. resuming'.at = "none" /\ resuming.placeholder = None
      BY <2>3 DEF ResumeFindsRunning, ResumeReturns, EndResume, NoResume, IInv, ResumeCourse
    <3> QED
      BY <3>1 DEF WakeHolds, WakeStep
  <2>4. CASE ResumePrepares
    <3>1. /\ resuming'.at = "preflight" /\ resuming'.placeholder \in {None, entry}
          /\ UNCHANGED entry
      BY <2>4 DEF ResumePrepares, IInv, TypeOK, ManagerTypes
    <3> QED
      BY <3>1 DEF WakeHolds, WakeStep
  <2> QED
    BY <1>2, <2>1, <2>2, <2>3, <2>4 DEF Continues
<1>3. CASE ProcessStep
  <2>1. UNCHANGED <<entry, resuming, rollback, phase>>
    BY <1>3 DEF ProcessStep, PiStops, PiGone, TurnEnds, PiAccepts, PiRefuses, manager, actors
  <2> QED
    BY <2>1, WakeFrame
<1>4. CASE ManagerStep
  <2>1. CASE PreflightFails
    <3>1. resuming'.at = "none" /\ resuming.at = "preflight" /\ UNCHANGED entry
      BY <2>1 DEF PreflightFails, ResumeThrows, EndResume, NoResume
    <3> QED
      BY <3>1 DEF WakeHolds, WakeStep
  <2>2. CASE ResumeLaunches
    BY <2>2, WakeLaunch DEF ResumeLaunches
  <2>3. CASE ResumeDestroysEnded
    <3>1. CASE Launch
      BY <2>3, <3>1, WakeLaunch DEF ResumeDestroysEnded
    <3>2. CASE resuming' = [resuming EXCEPT !.at = "stopping"]
      <4>1. resuming'.at = "stopping"
        BY <3>2 DEF IInv, TypeOK, ManagerTypes
      <4> QED
        BY <4>1 DEF WakeHolds, WakeStep
    <3> QED
      BY <2>3, <3>1, <3>2 DEF ResumeDestroysEnded
  <2>4. CASE SeedFails
    <3>1. resuming'.at = "failing"
      BY <2>4 DEF SeedFails, IInv, TypeOK, ManagerTypes
    <3> QED
      BY <3>1 DEF WakeHolds, WakeStep
  <2>5. CASE ResumeSucceeds
    <3>1. /\ resuming'.at = "none"
          /\ resuming.placeholder # None => entry' = resuming.placeholder
      BY <2>5 DEF ResumeSucceeds, ResumeReturns, EndResume, NoResume
    <3> QED
      BY <3>1 DEF WakeHolds, WakeStep
  <2>6. CASE RefreshPreflightFails \/ RefreshParks \/ RefreshYields
    <3>1. UNCHANGED <<entry, resuming, rollback, phase>>
      BY <2>6 DEF RefreshPreflightFails, RefreshParks, RefreshYields, manager
    <3> QED
      BY <3>1, WakeFrame
  <2>7. CASE RefreshFindsParked
    <3>1. /\ (CanResume /\ CallResume(TRUE)) \/ UNCHANGED <<resuming, claim>>
          /\ UNCHANGED <<entry, phase, rollback>>
      BY <2>7 DEF RefreshFindsParked, RefreshWakes
    <3> QED
      BY <3>1, WakeCall
  <2> QED
    BY <1>4, <2>1, <2>2, <2>3, <2>4, <2>5, <2>6, <2>7 DEF ManagerStep
<1>5. CASE RouteStep
  <2>1. CASE DeleteDestroys \/ DeleteRemoves \/ DeleteFails
    <3>1. UNCHANGED <<entry, resuming, rollback, phase>>
      BY <2>1 DEF DeleteDestroys, DeleteRemoves, DeleteFails, DeleteStep
    <3> QED
      BY <3>1, WakeFrame
  <2>2. CASE RollbackDestroys
    <3>1. UNCHANGED <<entry, resuming, phase>> /\ rollback.at = "preparing"
      BY <2>2 DEF RollbackDestroys, RollbackStep
    <3>2. rollback'.at # "none"
      BY <2>2 DEF RollbackDestroys, IInv, TypeOK, ActorTypes
    <3> QED
      BY <3>1, <3>2, WakeFrame
  <2>3. CASE RollbackReopens
    <3>1. /\ (CanResume /\ CallResume(FALSE)) \/ UNCHANGED <<resuming, claim>>
          /\ UNCHANGED <<entry, phase>>
      BY <2>3 DEF RollbackReopens, RollbackStep
    <3>2. rollback'.at # "none"
      BY <2>3 DEF RollbackReopens, IInv, TypeOK, ActorTypes
    <3> QED
      BY <3>1, <3>2, WakeCall
  <2>4. CASE StopAll \/ Drain
    <3>1. UNCHANGED <<entry, resuming, rollback>> /\ phase' # "serving"
      BY <2>4 DEF StopAll, Drain, ShutdownStep
    <3> QED
      BY <3>1, WakeFrame
  <2>5. CASE StopAllClears
    <3>1. phase # "serving" /\ phase' # "serving"
      BY <2>5 DEF StopAllClears
    <3> QED
      BY <3>1 DEF WakeHolds, WakeStep
  <2> QED
    BY <1>5, <2>1, <2>2, <2>3, <2>4, <2>5 DEF RouteStep
<1>6. CASE UserStep
  <2>1. ASSUME NEW r \in Launches, PiExits(r) \/ IdleTimer(r)
        PROVE  WakeHolds' /\ WakeStep
    <3>1. UNCHANGED <<entry, resuming, rollback, phase>>
      BY <2>1 DEF PiExits, PiGone, IdleTimer, manager, actors
    <3> QED
      BY <3>1, WakeFrame
  <2>2. ASSUME NEW c \in Commands, Prompt(c)
        PROVE  WakeHolds' /\ WakeStep
    <3>1. /\ (CanResume /\ CallResume(FALSE)) \/ UNCHANGED <<resuming, claim>>
          /\ UNCHANGED <<entry, phase, rollback>>
      BY <2>2 DEF Prompt
    <3> QED
      BY <3>1, WakeCall
  <2>3. CASE RestResume
    <3>1. CanResume /\ CallResume(FALSE) /\ UNCHANGED <<entry, phase, rollback>>
      BY <2>3 DEF RestResume, CanResume, actors
    <3> QED
      BY <3>1, WakeCall
  <2>4. CASE RefreshStarts \/ DeleteStarts
    <3>1. UNCHANGED <<entry, resuming, rollback, phase>>
      BY <2>4 DEF RefreshStarts, DeleteStarts, DeleteStep, manager
    <3> QED
      BY <3>1, WakeFrame
  <2>5. CASE RollbackStarts
    <3>1. UNCHANGED <<entry, resuming, phase>> /\ rollback.at = "none"
      BY <2>5 DEF RollbackStarts, RollbackStep
    <3> QED
      BY <3>1, WakeFrame
  <2>6. CASE Shutdown
    <3>1. UNCHANGED <<entry, resuming, rollback>> /\ phase' # "serving"
      BY <2>6 DEF Shutdown, ShutdownStep
    <3> QED
      BY <3>1, WakeFrame
  <2> QED
    BY <1>6, <2>1, <2>2, <2>3, <2>4, <2>5, <2>6 DEF UserStep
<1>7. CASE UNCHANGED vars
  <2>1. UNCHANGED <<entry, resuming, rollback, phase>>
    BY <1>7 DEF vars
  <2> QED
    BY <2>1, WakeFrame
<1> QED
  BY <1>1, <1>2, <1>3, <1>4, <1>5, <1>6, <1>7 DEF Next, Internal

\* A resume of a parked session that ends, whether it failed in its preflight, its
\* launch or its seeding, leaves a session in the map for the next prompt: the
\* placeholder is there until the launch and is restored after it.
THEOREM WakesKeepTheSession == Spec => WakeKeepsSession
<1>1. Init => WakeHolds
  BY DEF Init, WakeHolds, NoResume
<1>2. IInv /\ WakeHolds /\ [Next]_vars => WakeHolds' /\ WakeStep
  BY WakeNext
<1>3. WakeStep => [resuming.placeholder # None /\ resuming'.at = "none"
                   /\ rollback.at = "none" /\ phase = "serving" => entry' # None]_vars
  BY DEF WakeStep
<1> QED
  BY <1>1, <1>2, <1>3, LifecycleInvariant, PTL DEF Spec, WakeKeepsSession

-----------------------------------------------------------------------------
(* A delete leaves nothing behind.                                         *)

\* A step that starts no process and leaves the map, the processes of its session and
\* the shutdown's stop as they are.
LEMMA OwnsFrame ==
  ASSUME IInv, DeleteOwns, claim' = "delete" => claim = "delete",
         UNCHANGED <<entry, rt>>, stops'["shutdown"] = stops["shutdown"],
         phase' \in {"stopping", "stopping again"} => phase' = phase,
         deletion' = "removing" => deletion = "removing" \/ entry = None,
         \A q \in Launches : pi'[q] = "running" => pi[q] = "running",
         \A p \in Launches : lifecycle[p] = "parked" => lifecycle'[p] = "parked"
  PROVE  DeleteOwns'
<1>1. entry # None => entry \in Launches
  BY DEF IInv, TypeOK, ManagerTypes, Maybe
<1> QED
  BY <1>1 DEF DeleteOwns

\* While a delete holds the claim no resume is in flight, and none can be called.
LEMMA DeleteExcludesResume ==
  ASSUME IInv, claim = "delete"
  PROVE  resuming.at = "none" /\ ~CanResume
BY DEF IInv, TypeOK, ClaimsMatch, CanResume

LEMMA OwnsStops ==
  ASSUME IInv, NEW t \in Stoppers \ {"shutdown"}, entry # None, StopCall(t, entry)
  PROVE  /\ stops'["shutdown"] = stops["shutdown"]
         /\ \A q \in Launches : pi'[q] = "running" => pi[q] = "running"
<1>1. entry \in Launches /\ "shutdown" \in Stoppers
  BY DEF IInv, TypeOK, ManagerTypes, Maybe, Stoppers
<1> QED
  BY <1>1, StopCallEffect

LEMMA OwnsParks ==
  ASSUME IInv, NEW o \in Launches, NEW why \in {"idle", "refresh"}, ParkBegins(o, why),
         lifecycle[o] = "live"
  PROVE  /\ \A q \in Launches : pi'[q] = "running" => pi[q] = "running"
         /\ \A p \in Launches : lifecycle[p] = "parked" => lifecycle'[p] = "parked"
BY DEF IInv, TypeOK, SessionTypes, RuntimeTypes, ParkBegins, Closing

LEMMA OwnsNext ==
  ASSUME IInv, DeleteOwns, [Next]_vars
  PROVE  DeleteOwns'
<1> USE DEF Stoppers
<1>1. CASE StopReturns
  <2>1. CASE ResumeDestroyedEnded
    <3>1. claim # "delete"
      BY <2>1, DeleteExcludesResume DEF ResumeDestroyedEnded
    <3>2. claim' = claim \/ claim' = "none"
      BY <2>1 DEF ResumeDestroyedEnded, Launch, Spawn, SpawnFails, ResumeThrows, EndResume
    <3> QED
      BY <3>1, <3>2 DEF DeleteOwns
  <2>2. CASE ResumeFailed
    BY <2>2 DEF ResumeFailed, ResumeThrows, EndResume, DeleteOwns
  <2>3. CASE DeleteDestroyed
    <3>1. /\ UNCHANGED <<claim, rt, pi, phase>> /\ deletion = "destroying" /\ Stopped("delete")
          /\ entry' = IF entry = stops["delete"].of THEN None ELSE entry
      BY <2>3 DEF DeleteDestroyed, DeleteStep, EntryWithout
    <3>2. entry' = None /\ stops["delete"].of # None /\ entry \in {None, stops["delete"].of}
      BY <3>1 DEF IInv, StopsBelong
    <3>3. pi[rt[stops["delete"].of]] # "running"
      BY <3>1, <3>2, StoppedRunsNothing
    <3> QED
      BY <3>1, <3>2, <3>3 DEF DeleteOwns
  <2>4. CASE RollbackDestroyed
    <3>1. /\ UNCHANGED <<claim, rt, pi, lifecycle, phase, deletion>>
          /\ rollback.at = "destroying" /\ Stopped("rollback")
          /\ entry' = IF entry = stops["rollback"].of THEN None ELSE entry
          /\ stops' = [stops EXCEPT !["rollback"] = NoStop]
      BY <2>4 DEF RollbackDestroyed, RollbackStep, EntryWithout
    <3>2. stops["rollback"].of # None /\ stops'["shutdown"] = stops["shutdown"]
      BY <3>1 DEF IInv, TypeOK, StopTypes, StopsBelong
    <3>3. pi[rt[stops["rollback"].of]] # "running"
      BY <3>1, <3>2, StoppedRunsNothing
    <3>4. CASE entry = stops["rollback"].of
      BY <3>1, <3>3, <3>4 DEF DeleteOwns
    <3>5. CASE entry # stops["rollback"].of
      BY <3>1, <3>2, <3>5, OwnsFrame
    <3> QED
      BY <3>4, <3>5
  <2> QED
    BY <1>1, <2>1, <2>2, <2>3, <2>4 DEF StopReturns
<1>2. CASE Continues
  <2>1. ASSUME NEW o \in Launches, IdleParked(o)
        PROVE  DeleteOwns'
    <3>1. /\ UNCHANGED <<entry, rt, pi, phase, deletion>>
          /\ lifecycle' = [lifecycle EXCEPT ![o] = "parked"]
          /\ claim' = claim \/ claim' = "resume"
      BY <2>1 DEF IdleParked, CallResume, runtimes
    <3>2. \/ stops'["shutdown"] = stops["shutdown"]
          \/ /\ stops["shutdown"].at = "waiting" /\ stops["shutdown"].of = o
             /\ stops'["shutdown"] = [stops["shutdown"] EXCEPT !.at = "done"]
      BY <2>1 DEF IdleParked
    <3>3. \A p \in Launches : lifecycle[p] = "parked" \/ p = o => lifecycle'[p] = "parked"
      BY <3>1 DEF IInv, TypeOK, SessionTypes
    <3>4. CASE stops'["shutdown"] = stops["shutdown"]
      BY <3>1, <3>3, <3>4, OwnsFrame
    <3>5. CASE /\ stops["shutdown"].of = o
               /\ stops'["shutdown"] = [stops["shutdown"] EXCEPT !.at = "done"]
      <4>1. stops'["shutdown"].at = "done" /\ stops'["shutdown"].of = o
        BY <3>5 DEF IInv, TypeOK, StopTypes
      <4>2. claim' = "delete" => claim = "delete"
        BY <3>1
      <4>3. DeleteOwns => (claim = "delete" /\ phase \in {"stopping", "stopping again"} /\ entry # None
                            => entry = o)
        BY <3>5 DEF DeleteOwns
      <4> QED
        BY <3>1, <3>3, <4>1, <4>2, <4>3 DEF DeleteOwns
    <3> QED
      BY <3>2, <3>4, <3>5
  <2>2. CASE RefreshParked
    <3>1. /\ UNCHANGED <<entry, rt, pi, phase, deletion, stops>>
          /\ lifecycle' = [lifecycle EXCEPT ![refresh.session] = "parked"]
          /\ claim' = claim \/ claim' = "resume"
      BY <2>2 DEF RefreshParked, RefreshWakes, CallResume, runtimes
    <3>2. \A p \in Launches : lifecycle[p] = "parked" => lifecycle'[p] = "parked"
      BY <3>1 DEF IInv, TypeOK, SessionTypes
    <3> QED
      BY <3>1, <3>2, OwnsFrame
  <2>3. CASE ResumeFindsRunning
    BY <2>3 DEF ResumeFindsRunning, ResumeReturns, EndResume, DeleteOwns
  <2>4. CASE ResumePrepares
    BY <2>4, DeleteExcludesResume DEF ResumePrepares, DeleteOwns
  <2> QED
    BY <1>2, <2>1, <2>2, <2>3, <2>4 DEF Continues
<1>3. CASE ProcessStep
  <2>1. /\ UNCHANGED <<claim, entry, rt, lifecycle, stops, phase, deletion>>
        /\ \A q \in Launches : pi'[q] = "running" => pi[q] = "running"
    <3>1. CASE \E r \in Launches : PiStops(r)
      BY <3>1 DEF PiStops, PiGone, sessions, IInv, TypeOK, RuntimeTypes
    <3>2. CASE \E r \in Launches : TurnEnds(r)
      BY <3>2 DEF TurnEnds, manager, actors
    <3>3. CASE \E c \in Commands : PiAccepts(c) \/ PiRefuses(c)
      BY <3>3 DEF PiAccepts, PiRefuses, sessions
    <3> QED
      BY <1>3, <3>1, <3>2, <3>3 DEF ProcessStep
  <2> QED
    BY <2>1, OwnsFrame
<1>4. CASE ManagerStep
  <2>1. CASE PreflightFails \/ ResumeSucceeds
    BY <2>1 DEF PreflightFails, ResumeSucceeds, ResumeReturns, ResumeThrows, EndResume, DeleteOwns
  <2>2. CASE ResumeLaunches \/ ResumeDestroysEnded \/ SeedFails
    <3>1. claim # "delete"
      BY <2>2, DeleteExcludesResume DEF ResumeLaunches, ResumeDestroysEnded, SeedFails
    <3>2. claim' = claim \/ claim' = "none"
      BY <2>2 DEF ResumeLaunches, ResumeDestroysEnded, SeedFails, Launch, Spawn, SpawnFails,
                  ResumeThrows, EndResume
    <3> QED
      BY <3>1, <3>2 DEF DeleteOwns
  <2>3. CASE RefreshPreflightFails \/ RefreshYields
    <3>1. UNCHANGED <<claim, entry, rt, lifecycle, pi, stops, phase, deletion>>
      BY <2>3 DEF RefreshPreflightFails, RefreshYields, manager, sessions, runtimes
    <3> QED
      BY <3>1, OwnsFrame
  <2>4. CASE RefreshParks
    <3>1. /\ UNCHANGED <<claim, entry, rt, stops, phase, deletion>>
          /\ ParkBegins(refresh.session, "refresh") /\ lifecycle[refresh.session] = "live"
          /\ refresh.session \in Launches
      BY <2>4 DEF RefreshParks, manager, IInv, TypeOK, ActorTypes, Maybe, RefreshParksAlone
    <3>2. /\ \A q \in Launches : pi'[q] = "running" => pi[q] = "running"
          /\ \A p \in Launches : lifecycle[p] = "parked" => lifecycle'[p] = "parked"
      BY <3>1, OwnsParks
    <3> QED
      BY <3>1, <3>2, OwnsFrame
  <2>5. CASE RefreshFindsParked
    <3>1. /\ UNCHANGED <<entry, rt, lifecycle, pi, phase, deletion, stops>>
          /\ claim' = claim \/ claim' = "resume"
      BY <2>5 DEF RefreshFindsParked, RefreshWakes, CallResume, runtimes, sessions
    <3> QED
      BY <3>1, OwnsFrame
  <2> QED
    BY <1>4, <2>1, <2>2, <2>3, <2>4, <2>5 DEF ManagerStep
<1>5. CASE RouteStep
  <2>1. CASE DeleteDestroys
    <3>1. UNCHANGED <<claim, entry, rt, lifecycle, phase>>
      BY <2>1 DEF DeleteDestroys, DeleteStep
    <3>2. CASE entry = None /\ UNCHANGED <<pi, stops>>
      BY <3>1, <3>2, OwnsFrame
    <3>3. CASE entry # None /\ deletion' = "destroying" /\ StopCall("delete", entry)
      BY <3>1, <3>3, OwnsStops, OwnsFrame
    <3> QED
      BY <2>1, <3>2, <3>3 DEF DeleteDestroys
  <2>2. CASE DeleteRemoves \/ DeleteFails
    BY <2>2 DEF DeleteRemoves, DeleteFails, DeleteOwns
  <2>3. CASE RollbackDestroys
    <3>1. UNCHANGED <<claim, entry, rt, lifecycle, phase, deletion>>
      BY <2>3 DEF RollbackDestroys, RollbackStep
    <3>2. CASE UNCHANGED <<pi, stops>>
      BY <3>1, <3>2, OwnsFrame
    <3>3. CASE entry # None /\ StopCall("rollback", entry)
      BY <3>1, <3>3, OwnsStops, OwnsFrame
    <3> QED
      BY <2>3, <3>2, <3>3 DEF RollbackDestroys
  <2>4. CASE RollbackReopens
    <3>1. /\ UNCHANGED <<entry, rt, lifecycle, pi, phase, deletion, stops>>
          /\ claim' = claim \/ claim' = "resume"
      BY <2>4 DEF RollbackReopens, RollbackStep, CallResume
    <3> QED
      BY <3>1, OwnsFrame
  <2>5. CASE StopAll
    <3>1. UNCHANGED <<claim, entry, rt, lifecycle, deletion>>
      BY <2>5 DEF StopAll, ShutdownStep
    <3>2. CASE entry = None /\ UNCHANGED <<pi, stops>>
      BY <3>1, <3>2 DEF DeleteOwns
    <3>3. CASE entry # None /\ StopCall("shutdown", entry)
      <4>1. entry \in Launches /\ "shutdown" \in Stoppers
        BY <3>3 DEF IInv, TypeOK, ManagerTypes, Maybe
      <4>2. /\ stops'["shutdown"].of = entry /\ stops'["shutdown"].on = rt[entry]
            /\ \/ stops'["shutdown"].at = "waiting" /\ transition[entry]
               \/ stops'["shutdown"].at = "done" /\ lifecycle[entry] = "parked"
               \/ stops'["shutdown"].at = "closing" /\ pi'[rt[entry]] # "running"
            /\ \A q \in Launches : pi'[q] = "running" => pi[q] = "running"
        BY <3>3, <4>1, StopCallEffect
      <4> QED
        BY <3>1, <3>3, <4>2 DEF DeleteOwns
    <3> QED
      BY <2>5, <3>2, <3>3 DEF StopAll
  <2>6. CASE StopAllClears
    <3>1. /\ UNCHANGED <<claim, rt, pi, deletion>> /\ entry' = None
          /\ phase \in {"stopping", "stopping again"}
          /\ stops["shutdown"].at = "none" \/ Stopped("shutdown")
      BY <2>6 DEF StopAllClears, ShutdownStep
    <3>2. entry # None => entry \in Launches
      BY DEF IInv, TypeOK, ManagerTypes, Maybe
    <3>3. ASSUME claim = "delete", entry # None
          PROVE  pi[rt[entry]] # "running"
      <4>1. /\ stops["shutdown"].at # "none" /\ stops["shutdown"].of = entry
            /\ stops["shutdown"].at = "done" => lifecycle[entry] = "parked"
            /\ stops["shutdown"].at = "closing" => stops["shutdown"].on = rt[entry]
        BY <3>1, <3>3 DEF DeleteOwns
      <4>2. CASE stops["shutdown"].at = "done"
        BY <3>2, <3>3, <4>1, <4>2 DEF IInv, ParksStop, Alive
      <4>3. CASE stops["shutdown"].at = "closing"
        BY <4>1, <4>3 DEF IInv, StopsHold
      <4> QED
        BY <3>1, <4>1, <4>2, <4>3 DEF Stopped
    <3> QED
      BY <3>1, <3>3 DEF DeleteOwns
  <2>7. CASE Drain
    <3>1. UNCHANGED <<claim, entry, rt, lifecycle, pi, stops, deletion>>
          /\ phase' = "settling again"
      BY <2>7 DEF Drain, ShutdownStep
    <3> QED
      BY <3>1, OwnsFrame
  <2> QED
    BY <1>5, <2>1, <2>2, <2>3, <2>4, <2>5, <2>6, <2>7 DEF RouteStep
<1>6. CASE UserStep
  <2>1. ASSUME NEW r \in Launches, PiExits(r)
        PROVE  DeleteOwns'
    <3>1. /\ UNCHANGED <<claim, entry, rt, lifecycle, stops, phase, deletion>>
          /\ \A q \in Launches : pi'[q] = "running" => pi[q] = "running"
      BY <2>1 DEF PiExits, PiGone, sessions, IInv, TypeOK, RuntimeTypes
    <3> QED
      BY <3>1, OwnsFrame
  <2>2. ASSUME NEW o \in Launches, IdleTimer(o)
        PROVE  DeleteOwns'
    <3>1. UNCHANGED <<claim, entry, rt, stops, phase, deletion>> /\ lifecycle[o] = "live"
      BY <2>2 DEF IdleTimer, manager, actors
    <3>2. ParkBegins(o, "idle") \/ UNCHANGED <<lifecycle, pi>>
      BY <2>2 DEF IdleTimer
    <3>3. /\ \A q \in Launches : pi'[q] = "running" => pi[q] = "running"
          /\ \A p \in Launches : lifecycle[p] = "parked" => lifecycle'[p] = "parked"
      BY <3>1, <3>2, OwnsParks
    <3> QED
      BY <3>1, <3>3, OwnsFrame
  <2>3. ASSUME NEW c \in Commands, Prompt(c)
        PROVE  DeleteOwns'
    <3>1. /\ UNCHANGED <<entry, rt, lifecycle, pi, phase, deletion, stops>>
          /\ claim' = claim \/ claim' = "resume"
      BY <2>3 DEF Prompt, CallResume, runtimes
    <3> QED
      BY <3>1, OwnsFrame
  <2>4. CASE RestResume
    BY <2>4 DEF RestResume, CallResume, DeleteOwns
  <2>5. CASE RefreshStarts \/ RollbackStarts
    <3>1. UNCHANGED <<claim, entry, rt, lifecycle, pi, stops, phase, deletion>>
      BY <2>5 DEF RefreshStarts, RollbackStarts, RollbackStep, manager, sessions, runtimes
    <3> QED
      BY <3>1, OwnsFrame
  <2>6. CASE DeleteStarts
    <3>1. /\ UNCHANGED <<entry, rt, pi, phase>> /\ phase = "serving" /\ claim = "none"
          /\ deletion' = "checking"
      BY <2>6 DEF DeleteStarts, DeleteStep
    <3>2. resuming.candidate = None
      BY <3>1 DEF IInv, TypeOK, ClaimsMatch, ResumeCourse
    <3> QED
      BY <3>1, <3>2 DEF IInv, NoOrphanProcess, DeleteOwns, None, Launches
  <2>7. CASE Shutdown
    <3>1. UNCHANGED <<claim, entry, rt, lifecycle, pi, stops, deletion>> /\ phase' = "settling"
      BY <2>7 DEF Shutdown, ShutdownStep
    <3> QED
      BY <3>1, OwnsFrame
  <2> QED
    BY <1>6, <2>1, <2>2, <2>3, <2>4, <2>5, <2>6, <2>7 DEF UserStep
<1>7. CASE UNCHANGED vars
  <2>1. UNCHANGED <<claim, entry, rt, lifecycle, pi, stops, phase, deletion>>
    BY <1>7 DEF vars
  <2> QED
    BY <2>1, OwnsFrame
<1> QED
  BY <1>1, <1>2, <1>3, <1>4, <1>5, <1>6, <1>7 DEF Next, Internal

\* The delete that removes the row leaves neither a process running nor a session in
\* the map, whatever a rollback, a refresh, a park or the shutdown did meanwhile.
THEOREM DeletesAreComplete == Spec => DeleteLeavesNothing
<1>1. Init => DeleteOwns
  BY DEF Init, DeleteOwns
<1>2. IInv /\ DeleteOwns /\ [Next]_vars => DeleteOwns'
  BY OwnsNext
<1>3. IInv /\ DeleteOwns => [deletion = "removing" /\ deletion' = "done" =>
                               entry = None /\ \A r \in Launches : pi[r] # "running"]_vars
  BY DEF IInv, TypeOK, ClaimsMatch, DeleteOwns
<1> QED
  BY <1>1, <1>2, <1>3, LifecycleInvariant, PTL DEF Spec, DeleteLeavesNothing

-----------------------------------------------------------------------------
(* What no step of the processes, the stops and the parks does: it starts  *)
(* no process, and leaves the map and the routes alone.                    *)

\* A step that starts no process, and stops the ones it stops.
NoneStarts == \A q \in Launches : pi'[q] = "running" => pi[q] = "running"

\* pi answers, exits, or ends a turn.
LEMMA ProcessEffect ==
  ASSUME IInv, ProcessStep \/ \E r \in Launches : PiExits(r)
  PROVE  /\ UNCHANGED <<entry, claim, resuming, rt, lifecycle, transition, parkedBy, ingesting,
                        loaded, refresh, rollback, deletion, stops, phase, file, launched>>
         /\ NoneStarts
         /\ \A q \in Launches : Alive(q)' => Alive(q)
         /\ \A c \in Commands : cmd[c].at # "sent" => cmd'[c] = cmd[c]
<1>1. ASSUME NEW r \in Launches, NEW how \in {"exited", "crashed"}, PiGone(r, how)
      PROVE  /\ UNCHANGED <<entry, claim, resuming, rt, lifecycle, transition, parkedBy,
                            ingesting, loaded, refresh, rollback, deletion, stops, phase, file,
                            launched>>
             /\ NoneStarts
             /\ \A q \in Launches : Alive(q)' => Alive(q)
             /\ \A c \in Commands : cmd[c].at # "sent" => cmd'[c] = cmd[c]
  BY <1>1 DEF PiGone, sessions, IInv, TypeOK, RuntimeTypes, NoneStarts, Alive
<1>2. CASE \E r \in Launches : TurnEnds(r)
  BY <1>2 DEF TurnEnds, manager, actors, bounds, NoneStarts, Alive
<1>3. CASE \E c \in Commands : PiAccepts(c) \/ PiRefuses(c)
  <2>1. PICK c \in Commands : PiAccepts(c) \/ PiRefuses(c)
    BY <1>3
  <2>2. cmd[c].at = "sent" /\ \E v : cmd' = [cmd EXCEPT ![c].at = v]
    BY <2>1 DEF PiAccepts, PiRefuses
  <2>3. \A d \in Commands : cmd[d].at # "sent" => cmd'[d] = cmd[d]
    BY <2>2 DEF IInv, TypeOK, ActorTypes
  <2>4. /\ UNCHANGED <<entry, claim, resuming, rt, lifecycle, transition, parkedBy, ingesting,
                       loaded, refresh, rollback, deletion, stops, phase, file, launched>>
        /\ UNCHANGED pi
    BY <2>1 DEF PiAccepts, PiRefuses, sessions, bounds
  <2> QED
    BY <2>3, <2>4 DEF NoneStarts, Alive
<1> QED
  BY <1>1, <1>2, <1>3 DEF ProcessStep, PiStops, PiExits

\* resume() is called: nothing was in flight and what is now has found nothing yet, or the
\* one in flight is joined.
LEMMA CallMoves ==
  ASSUME IInv, NEW p \in BOOLEAN,
         (CanResume /\ CallResume(p)) \/ UNCHANGED <<resuming, claim>>
  PROVE  /\ UNCHANGED <<resuming.live, resuming.placeholder, resuming.candidate>>
         /\ \/ UNCHANGED <<resuming, claim>>
            \/ /\ resuming.at = "none" /\ claim = "none" /\ resuming.candidate = None
               /\ claim' = "resume" /\ resuming'.at = "called"
               /\ resuming'.live = None /\ resuming'.placeholder = None
               /\ resuming'.candidate = None
BY CallEffect DEF IInv, ResumeCourse, NoResume, Called

\* Who is stopped runs nothing from then on, and nobody's process is started.
LEMMA StopStarts ==
  ASSUME IInv, NEW t \in Stoppers, entry # None, StopCall(t, entry)
  PROVE  NoneStarts /\ pi'[rt[entry]] # "running"
<1>1. entry \in Launches
  BY DEF IInv, TypeOK, ManagerTypes, Maybe
<1>2. /\ \/ stops'[t].at = "waiting" /\ transition[entry]
         \/ stops'[t].at = "done" /\ lifecycle[entry] = "parked"
         \/ stops'[t].at = "closing" /\ pi'[rt[entry]] # "running"
      /\ \A q \in Launches : \/ pi'[q] = pi[q]
                             \/ pi[q] = "running" /\ pi'[q] = "closing"
  BY <1>1, StopCallEffect
<1> QED
  BY <1>1, <1>2 DEF NoneStarts, IInv, TypeOK, SessionTypes, ParksStop, Alive

LEMMA ParkStarts ==
  ASSUME IInv, NEW o \in Launches, NEW why \in {"idle", "refresh"}, ParkBegins(o, why),
         lifecycle[o] = "live"
  PROVE  NoneStarts
BY OwnsParks DEF NoneStarts

-----------------------------------------------------------------------------
(* The shutdown.  It leaves a process behind only when a resume is in      *)
(* flight while stopAll waits for the stops it began (the finding of       *)
(* MCSessionLifecycleShutdown): wherever none is, the first pass of        *)
(* stopAll leaves nothing running, and what the requests admitted earlier  *)
(* start while they are drained is in the map for the second.              *)

\* The one thing the theorem excludes.
StopAllAlone == phase = "stopping" => resuming.at = "none"

NothingRuns == \A r \in Launches : pi[r] # "running"

\* NoOrphanProcess and LostIsStopped, at the shutdown too.
RunningIsHeld ==
  \A r \in Launches : pi[r] = "running" =>
    \/ entry # None /\ rt[entry] = r
    \/ resuming.candidate = r
LostIsOver ==
  resuming.candidate # None /\ entry = None => pi[resuming.candidate] # "running"

\* stopAll waited for the refresh, and found the requests drained the second time; what it
\* stopped does not run.
ShutdownGoesOn ==
  /\ phase \notin {"serving", "settling"} => refresh.at = "none"
  /\ phase \in {"settling again", "stopping again", "closed"} => Drained
  /\ phase \in {"stopping", "stopping again", "closed"} => NothingRuns

ShutInv == RunningIsHeld /\ LostIsOver /\ ShutdownGoesOn

\* While a resume is under way stopAll waits for no stop, and the requests are not drained.
LEMMA ResumesWhileServing ==
  ASSUME IInv, ShutInv, StopAllAlone, resuming.at # "none"
  PROVE  phase \in {"serving", "settling", "draining"}
BY DEF IInv, TypeOK, ActorTypes, ShutInv, ShutdownGoesOn, Drained, StopAllAlone

\* A step that starts no process, resumes nothing after the requests were drained and
\* refreshes nothing after the last refresh ended.
LEMMA ShutFrame ==
  ASSUME IInv, ShutInv, NoneStarts, UNCHANGED <<entry, rt, phase, resuming.candidate>>,
         phase # "serving" /\ refresh.at = "none" => refresh'.at = "none",
         phase # "serving" /\ refresh.at = "none" /\ Drained => Drained'
  PROVE  ShutInv'
<1>1. RunningIsHeld'
  BY DEF ShutInv, RunningIsHeld, NoneStarts
<1>2. LostIsOver'
  BY DEF ShutInv, LostIsOver, NoneStarts, IInv, TypeOK, ManagerTypes, Maybe
<1>3. ShutdownGoesOn'
  BY DEF ShutInv, ShutdownGoesOn, NothingRuns, NoneStarts
<1> QED
  BY <1>1, <1>2, <1>3 DEF ShutInv

\* A launch takes the entry; one that fails had found nothing running.
LEMMA ShutLaunch ==
  ASSUME IInv, ShutInv, StopAllAlone, Launch, resuming.at \in {"preflight", "stopping"},
         NothingRuns
  PROVE  ShutInv'
<1>1. phase \in {"serving", "settling", "draining"} /\ UNCHANGED <<phase, rt>>
  BY ResumesWhileServing DEF Launch
<1>2. CASE \E r \in Launches : Spawn(r)
  <2>1. PICK r \in Launches : Spawn(r)
    BY <1>2
  <2>2. /\ entry' = r /\ r # None /\ r = launched + 1
        /\ pi' = [pi EXCEPT ![r] = "running"] /\ UNCHANGED refresh
    BY <2>1 DEF Spawn, Launches, None
  <2>3. rt[r] = r
    BY <2>2 DEF IInv, NamesAreBorn, LaterIsUntouched, Born, Launches
  <2>4. RunningIsHeld'
    BY <1>1, <2>2, <2>3 DEF RunningIsHeld, NothingRuns, IInv, TypeOK, RuntimeTypes
  <2> QED
    BY <1>1, <2>2, <2>4 DEF ShutInv, LostIsOver, ShutdownGoesOn
<1>3. CASE SpawnFails
  <2>1. UNCHANGED pi /\ (refresh'.at = "none" \/ UNCHANGED refresh) /\ resuming'.candidate = None
    BY <1>3 DEF SpawnFails, ResumeThrows, EndResume, NoResume
  <2> QED
    BY <1>1, <2>1 DEF ShutInv, RunningIsHeld, LostIsOver, ShutdownGoesOn, NothingRuns
<1> QED
  BY <1>2, <1>3 DEF Launch

LEMMA ShutNext ==
  ASSUME IInv, ShutInv, StopAllAlone, StopAllAlone', [Next]_vars
  PROVE  ShutInv'
<1> USE DEF Stoppers
<1>a. resuming.at \in {"none", "called", "preflight", "stopping"} => resuming.candidate = None
  BY DEF IInv, ResumeCourse
<1>1. CASE StopReturns
  <2>1. CASE ResumeDestroyedEnded
    <3>1. /\ resuming.at = "stopping" /\ Stopped("resume") /\ Launch
          /\ stops["resume"].of = resuming.live /\ resuming.live # None
          /\ entry \in {None, resuming.live}
      BY <2>1 DEF ResumeDestroyedEnded, IInv, TypeOK, StopsBelong, ResumeCourse,
                  LaunchFindsEntryFree
    <3>2. pi[rt[resuming.live]] # "running"
      BY <3>1, StoppedRunsNothing
    <3>3. NothingRuns
      BY <1>a, <3>1, <3>2 DEF ShutInv, RunningIsHeld, NothingRuns, None, Launches
    <3> QED
      BY <3>1, <3>3, ShutLaunch
  <2>2. CASE ResumeFailed
    <3> DEFINE k == resuming.candidate
               of == stops["resume"].of
    <3>1. /\ UNCHANGED <<rt, pi, phase>> /\ resuming.at = "failing" /\ Stopped("resume")
          /\ refresh'.at = "none" \/ UNCHANGED refresh
          /\ resuming'.candidate = None
      BY <2>2 DEF ResumeFailed, ResumeThrows, EndResume, NoResume, sessions, runtimes
    <3>2. /\ k \in Launches /\ k # None /\ entry \in {None, k} /\ of \in {None, k}
          /\ of = None => entry = None
          /\ rt[k] = k
      BY <3>1 DEF IInv, TypeOK, ManagerTypes, Maybe, LaunchFindsEntryFree, StopsBelong,
                  ResumeCourse, CandidateIsFresh
    <3>3. pi[k] # "running"
      <4>1. CASE of = None
        BY <3>2, <4>1 DEF ShutInv, LostIsOver
      <4>2. CASE of = k
        BY <3>1, <3>2, <4>2, StoppedRunsNothing
      <4> QED
        BY <3>2, <4>1, <4>2
    <3>4. NothingRuns
      BY <3>2, <3>3 DEF ShutInv, RunningIsHeld, NothingRuns
    <3>5. phase \in {"serving", "settling", "draining"}
      BY <3>1, ResumesWhileServing
    <3> QED
      BY <3>1, <3>4, <3>5 DEF ShutInv, RunningIsHeld, LostIsOver, ShutdownGoesOn, NothingRuns
  <2>3. CASE DeleteDestroyed
    <3>1. /\ UNCHANGED <<rt, pi, phase, refresh, resuming>> /\ deletion = "destroying"
          /\ Stopped("delete")
      BY <2>3 DEF DeleteDestroyed, DeleteStep
    <3>2. /\ resuming.at = "none" /\ resuming.candidate = None /\ stops["delete"].of # None
          /\ entry \in {None, stops["delete"].of}
      BY <1>a, <3>1 DEF IInv, TypeOK, ClaimsMatch, StopsBelong
    <3>3. pi[rt[stops["delete"].of]] # "running"
      BY <3>1, <3>2, StoppedRunsNothing
    <3>4. NothingRuns
      BY <3>2, <3>3 DEF ShutInv, RunningIsHeld, NothingRuns, None, Launches
    <3>5. phase \notin {"settling again", "stopping again", "closed"}
      BY <3>1 DEF ShutInv, ShutdownGoesOn, Drained
    <3> QED
      BY <3>1, <3>2, <3>4, <3>5 DEF ShutInv, RunningIsHeld, LostIsOver, ShutdownGoesOn,
                                    NothingRuns
  <2>4. CASE RollbackDestroyed
    <3>1. /\ UNCHANGED <<rt, pi, phase, refresh, resuming>> /\ rollback.at = "destroying"
          /\ Stopped("rollback")
          /\ entry' = IF entry = stops["rollback"].of THEN None ELSE entry
      BY <2>4 DEF RollbackDestroyed, RollbackStep, EntryWithout
    <3>2. stops["rollback"].of # None
      BY <3>1 DEF IInv, StopsBelong
    <3>3. pi[rt[stops["rollback"].of]] # "running"
      BY <3>1, <3>2, StoppedRunsNothing
    <3>4. RunningIsHeld'
      BY <3>1, <3>2, <3>3 DEF ShutInv, RunningIsHeld
    <3>5. LostIsOver'
      <4>1. resuming.candidate # None /\ entry # None =>
              entry = resuming.candidate /\ rt[entry] = entry
        BY DEF IInv, TypeOK, LaunchFindsEntryFree, ResumeCourse, CandidateIsFresh
      <4> QED
        BY <3>1, <3>2, <3>3, <4>1 DEF ShutInv, LostIsOver
    <3>6. phase \notin {"settling again", "stopping again", "closed"}
      BY <3>1 DEF ShutInv, ShutdownGoesOn, Drained
    <3> QED
      BY <3>1, <3>4, <3>5, <3>6 DEF ShutInv, ShutdownGoesOn, NothingRuns
  <2> QED
    BY <1>1, <2>1, <2>2, <2>3, <2>4 DEF StopReturns
<1>2. CASE Continues
  <2>1. ASSUME NEW o \in Launches, IdleParked(o)
        PROVE  ShutInv'
    <3>1. /\ (CanResume /\ CallResume(FALSE)) \/ UNCHANGED <<resuming, claim>>
          /\ UNCHANGED <<entry, rt, pi, phase, refresh, rollback, deletion>>
      BY <2>1 DEF IdleParked, runtimes
    <3>2. resuming'.candidate = resuming.candidate
      BY <3>1, CallMoves
    <3>3. Drained => Drained'
      <4>1. ASSUME Drained
            PROVE  UNCHANGED resuming /\ \A c \in Commands : cmd'[c].at = cmd[c].at
        BY <2>1, <4>1 DEF IdleParked, Drained
      <4> QED
        BY <3>1, <4>1 DEF Drained
    <3> QED
      BY <3>1, <3>2, <3>3, ShutFrame DEF NoneStarts
  <2>2. CASE RefreshParked
    <3>1. /\ (CanResume /\ CallResume(TRUE)) \/ UNCHANGED <<resuming, claim>>
          /\ UNCHANGED <<entry, rt, pi, phase>> /\ refresh.at = "parking"
      BY <2>2 DEF RefreshParked, RefreshWakes, runtimes
    <3>2. resuming'.candidate = resuming.candidate
      BY <3>1, CallMoves
    <3> QED
      BY <3>1, <3>2, ShutFrame DEF NoneStarts
  <2>3. CASE ResumeFindsRunning
    <3>1. /\ resuming.at = "called" /\ resuming'.candidate = None
          /\ UNCHANGED <<entry, rt, pi, phase>>
          /\ refresh'.at = "none" \/ UNCHANGED refresh
      BY <2>3 DEF ResumeFindsRunning, ResumeReturns, EndResume, NoResume, sessions, runtimes
    <3> QED
      BY <1>a, <3>1, ShutFrame DEF NoneStarts, Drained
  <2>4. CASE ResumePrepares
    <3>1. /\ resuming.at = "called" /\ resuming'.candidate = resuming.candidate
          /\ UNCHANGED <<entry, rt, pi, phase, refresh>>
      BY <2>4 DEF ResumePrepares, sessions, runtimes, actors, IInv, TypeOK, ManagerTypes
    <3> QED
      BY <3>1, ShutFrame DEF NoneStarts, Drained
  <2> QED
    BY <1>2, <2>1, <2>2, <2>3, <2>4 DEF Continues
<1>3. CASE ProcessStep \/ \E r \in Launches : PiExits(r)
  <2>1. /\ UNCHANGED <<entry, resuming, rt, refresh, rollback, deletion, phase>> /\ NoneStarts
        /\ \A c \in Commands : cmd[c].at # "sent" => cmd'[c] = cmd[c]
    BY <1>3, ProcessEffect
  <2>2. Drained => Drained'
    BY <2>1 DEF Drained
  <2> QED
    BY <2>1, <2>2, ShutFrame
<1>4. CASE ManagerStep
  <2>1. CASE PreflightFails
    <3>1. /\ resuming.at = "preflight" /\ resuming'.candidate = None
          /\ UNCHANGED <<entry, rt, pi, phase>>
          /\ refresh'.at = "none" \/ UNCHANGED refresh
      BY <2>1 DEF PreflightFails, ResumeThrows, EndResume, NoResume, sessions, runtimes
    <3> QED
      BY <1>a, <3>1, ShutFrame DEF NoneStarts, Drained
  <2>2. CASE ResumeLaunches
    <3>1. resuming.at = "preflight" /\ resuming.live = resuming.placeholder /\ Launch
      BY <2>2 DEF ResumeLaunches
    <3>2. entry # None => entry \in Launches /\ lifecycle[entry] = "parked"
      BY <3>1 DEF IInv, TypeOK, ManagerTypes, Maybe, LaunchFindsEntryFree, ResumeCourse
    <3>3. NothingRuns
      BY <1>a, <3>1, <3>2 DEF ShutInv, RunningIsHeld, NothingRuns, IInv, ParksStop, Alive, None,
                              Launches
    <3> QED
      BY <3>1, <3>3, ShutLaunch
  <2>3. CASE ResumeDestroysEnded
    <3>1. resuming.at = "preflight" /\ resuming.candidate = None
      BY <1>a, <2>3 DEF ResumeDestroysEnded
    <3>2. CASE entry = None /\ Launch
      <4>1. NothingRuns
        BY <3>1, <3>2 DEF ShutInv, RunningIsHeld, NothingRuns, None, Launches
      <4> QED
        BY <3>1, <3>2, <4>1, ShutLaunch
    <3>3. CASE /\ entry # None /\ StopCall("resume", entry)
               /\ resuming' = [resuming EXCEPT !.at = "stopping"]
               /\ UNCHANGED <<entry, rt, refresh, phase>>
      <4>1. NoneStarts /\ resuming'.candidate = resuming.candidate
        BY <3>3, StopStarts DEF IInv, TypeOK, ManagerTypes
      <4> QED
        BY <3>1, <3>3, <4>1, ShutFrame DEF Drained
    <3> QED
      BY <2>3, <3>2, <3>3 DEF ResumeDestroysEnded
  <2>4. CASE SeedFails
    <3>1. /\ resuming.at = "seeding" /\ resuming'.candidate = resuming.candidate
          /\ UNCHANGED <<entry, rt, refresh, phase>>
      BY <2>4 DEF SeedFails, IInv, TypeOK, ManagerTypes
    <3>2. NoneStarts
      BY <2>4, StopStarts DEF SeedFails, NoneStarts
    <3> QED
      BY <3>1, <3>2, ShutFrame DEF Drained
  <2>5. CASE ResumeSucceeds
    <3> DEFINE k == resuming.candidate
               h == resuming.placeholder
               o == IF h = None THEN k ELSE h
    <3>1. /\ resuming.at = "seeding" /\ resuming'.candidate = None
          /\ rt' = [rt EXCEPT ![o] = k]
          /\ entry' = IF h = None THEN entry ELSE o
          /\ refresh'.at = "none" \/ UNCHANGED refresh
          /\ UNCHANGED <<pi, phase>>
      BY <2>5 DEF ResumeSucceeds, ResumeReturns, EndResume, NoResume
    <3>2. k \in Launches /\ k # None /\ entry \in {None, k} /\ rt[k] = k /\ o \in Launches
      BY <3>1 DEF IInv, TypeOK, ManagerTypes, Maybe, LaunchFindsEntryFree, ResumeCourse,
                  CandidateIsFresh
    <3>3. \A q \in Launches : pi[q] = "running" => q = k
      BY <3>2 DEF ShutInv, RunningIsHeld
    <3>4. pi[k] = "running" => entry = k
      BY <3>2 DEF ShutInv, LostIsOver
    <3>5. rt'[o] = k
      BY <3>1, <3>2 DEF IInv, TypeOK, SessionTypes
    <3>6. pi[k] = "running" => entry' = o /\ o # None
      BY <3>1, <3>2, <3>4
    <3>7. RunningIsHeld'
      BY <3>1, <3>3, <3>5, <3>6 DEF RunningIsHeld
    <3>8. phase \in {"serving", "settling", "draining"}
      BY <3>1, ResumesWhileServing
    <3> QED
      BY <3>1, <3>7, <3>8 DEF ShutInv, LostIsOver, ShutdownGoesOn
  <2>6. CASE RefreshPreflightFails \/ RefreshYields
    <3>1. UNCHANGED <<entry, rt, pi, phase, resuming>> /\ refresh.at # "none"
      BY <2>6 DEF RefreshPreflightFails, RefreshYields, manager, sessions, runtimes
    <3> QED
      BY <3>1, ShutFrame DEF NoneStarts
  <2>7. CASE RefreshParks
    <3>1. /\ UNCHANGED <<entry, rt, phase, resuming>> /\ refresh.at # "none"
          /\ ParkBegins(refresh.session, "refresh") /\ lifecycle[refresh.session] = "live"
          /\ refresh.session \in Launches
      BY <2>7 DEF RefreshParks, manager, IInv, TypeOK, ActorTypes, Maybe, RefreshParksAlone
    <3> QED
      BY <3>1, ParkStarts, ShutFrame
  <2>8. CASE RefreshFindsParked
    <3>1. /\ (CanResume /\ CallResume(TRUE)) \/ UNCHANGED <<resuming, claim>>
          /\ UNCHANGED <<entry, rt, pi, phase>> /\ refresh.at = "preflight"
      BY <2>8 DEF RefreshFindsParked, RefreshWakes, runtimes, sessions
    <3>2. resuming'.candidate = resuming.candidate
      BY <3>1, CallMoves
    <3> QED
      BY <3>1, <3>2, ShutFrame DEF NoneStarts
  <2> QED
    BY <1>4, <2>1, <2>2, <2>3, <2>4, <2>5, <2>6, <2>7, <2>8 DEF ManagerStep
<1>5. CASE RouteStep
  <2>1. CASE DeleteDestroys \/ DeleteRemoves \/ DeleteFails
    <3>1. /\ UNCHANGED <<entry, rt, phase, resuming, refresh>>
          /\ deletion \in {"checking", "removing"}
      BY <2>1 DEF DeleteDestroys, DeleteRemoves, DeleteFails, DeleteStep
    <3>2. NoneStarts
      BY <2>1, StopStarts DEF DeleteDestroys, DeleteRemoves, DeleteFails, NoneStarts
    <3> QED
      BY <3>1, <3>2, ShutFrame DEF Drained
  <2>2. CASE RollbackDestroys
    <3>1. UNCHANGED <<entry, rt, phase, resuming, refresh>> /\ rollback.at = "preparing"
      BY <2>2 DEF RollbackDestroys, RollbackStep
    <3>2. NoneStarts
      BY <2>2, StopStarts DEF RollbackDestroys, NoneStarts
    <3> QED
      BY <3>1, <3>2, ShutFrame DEF Drained
  <2>3. CASE RollbackReopens
    <3>1. /\ (CanResume /\ CallResume(FALSE)) \/ UNCHANGED <<resuming, claim>>
          /\ UNCHANGED <<entry, rt, pi, phase, refresh>> /\ rollback.at = "restoring"
      BY <2>3 DEF RollbackReopens, RollbackStep
    <3>2. resuming'.candidate = resuming.candidate
      BY <3>1, CallMoves
    <3> QED
      BY <3>1, <3>2, ShutFrame DEF NoneStarts, Drained
  <2>4. CASE StopAll
    <3>1. /\ UNCHANGED <<entry, rt, resuming, refresh, cmd, deletion, rollback>>
          /\ refresh.at = "none"
          /\ \/ phase = "settling" /\ phase' = "stopping"
             \/ phase = "settling again" /\ phase' = "stopping again"
      BY <2>4 DEF StopAll, ShutdownStep
    <3>2. resuming.at = "none" /\ resuming.candidate = None
      BY <1>a, <3>1 DEF StopAllAlone, ShutInv, ShutdownGoesOn, Drained
    <3>3. NothingRuns'
      <4>1. CASE entry = None /\ UNCHANGED pi
        BY <3>2, <4>1 DEF ShutInv, RunningIsHeld, NothingRuns, None, Launches
      <4>2. CASE entry # None /\ StopCall("shutdown", entry)
        <5>1. NoneStarts /\ pi'[rt[entry]] # "running"
          BY <4>2, StopStarts
        <5> QED
          BY <3>2, <5>1 DEF ShutInv, RunningIsHeld, NothingRuns, NoneStarts, None, Launches
      <4> QED
        BY <2>4, <4>1, <4>2 DEF StopAll
    <3>4. phase' = "stopping again" => Drained'
      BY <3>1 DEF ShutInv, ShutdownGoesOn, Drained
    <3> QED
      BY <3>1, <3>2, <3>3, <3>4 DEF ShutInv, RunningIsHeld, LostIsOver, ShutdownGoesOn,
                                    NothingRuns
  <2>5. CASE StopAllClears
    <3>1. /\ UNCHANGED <<rt, pi, resuming, refresh, cmd, deletion, rollback>>
          /\ \/ phase = "stopping" /\ phase' = "draining"
             \/ phase = "stopping again" /\ phase' = "closed"
      BY <2>5 DEF StopAllClears, ShutdownStep
    <3>2. NothingRuns /\ refresh.at = "none" /\ (phase = "stopping again" => Drained)
      BY <3>1 DEF ShutInv, ShutdownGoesOn
    <3>3. phase' = "closed" => Drained'
      BY <3>1, <3>2 DEF Drained
    <3>4. LostIsOver'
      BY <3>1, <3>2 DEF LostIsOver, NothingRuns, IInv, TypeOK, ManagerTypes, Maybe
    <3> QED
      BY <3>1, <3>2, <3>3, <3>4 DEF ShutInv, RunningIsHeld, ShutdownGoesOn, NothingRuns
  <2>6. CASE Drain
    <3>1. /\ UNCHANGED <<entry, rt, pi, resuming, refresh, cmd, deletion, rollback>>
          /\ phase = "draining" /\ phase' = "settling again" /\ Drained
      BY <2>6 DEF Drain, ShutdownStep
    <3>2. Drained'
      BY <3>1 DEF Drained
    <3> QED
      BY <3>1, <3>2 DEF ShutInv, RunningIsHeld, LostIsOver, ShutdownGoesOn
  <2> QED
    BY <1>5, <2>1, <2>2, <2>3, <2>4, <2>5, <2>6 DEF RouteStep
<1>6. CASE UserStep
  <2>1. ASSUME NEW o \in Launches, IdleTimer(o)
        PROVE  ShutInv'
    <3>1. /\ UNCHANGED <<entry, rt, resuming, refresh, phase, cmd, deletion, rollback>>
          /\ lifecycle[o] = "live"
      BY <2>1 DEF IdleTimer, manager, actors
    <3>2. NoneStarts
      BY <2>1, <3>1, ParkStarts DEF IdleTimer, NoneStarts
    <3> QED
      BY <3>1, <3>2, ShutFrame DEF Drained
  <2>2. ASSUME NEW c \in Commands, Prompt(c)
        PROVE  ShutInv'
    <3>1. /\ (CanResume /\ CallResume(FALSE)) \/ UNCHANGED <<resuming, claim>>
          /\ UNCHANGED <<entry, rt, pi, phase, refresh>> /\ phase = "serving"
      BY <2>2 DEF Prompt, runtimes
    <3>2. resuming'.candidate = resuming.candidate
      BY <3>1, CallMoves
    <3> QED
      BY <3>1, <3>2, ShutFrame DEF NoneStarts
  <2>3. CASE RestResume
    <3>1. /\ CanResume /\ CallResume(FALSE)
          /\ UNCHANGED <<entry, rt, pi, phase, refresh>> /\ phase = "serving"
      BY <2>3 DEF RestResume, CanResume, actors, sessions, runtimes
    <3>2. resuming'.candidate = resuming.candidate
      BY <3>1, CallMoves
    <3> QED
      BY <3>1, <3>2, ShutFrame DEF NoneStarts
  <2>4. CASE RefreshStarts \/ DeleteStarts \/ RollbackStarts
    <3>1. UNCHANGED <<entry, rt, pi, phase, resuming>> /\ phase = "serving"
      BY <2>4 DEF RefreshStarts, DeleteStarts, DeleteStep, RollbackStarts, RollbackStep, manager,
                  sessions, runtimes
    <3> QED
      BY <3>1, ShutFrame DEF NoneStarts
  <2>5. CASE Shutdown
    <3>1. /\ UNCHANGED <<entry, rt, pi, resuming, refresh>>
          /\ phase' = "settling"
      BY <2>5 DEF Shutdown, ShutdownStep
    <3> QED
      BY <3>1 DEF ShutInv, RunningIsHeld, LostIsOver, ShutdownGoesOn
  <2> QED
    BY <1>3, <1>6, <2>1, <2>2, <2>3, <2>4, <2>5 DEF UserStep
<1>7. CASE UNCHANGED vars
  <2>1. UNCHANGED <<entry, rt, pi, resuming, refresh, phase, cmd, deletion, rollback>>
    BY <1>7 DEF vars
  <2> QED
    BY <2>1, ShutFrame DEF NoneStarts, Drained
<1> QED
  BY <1>1, <1>2, <1>3, <1>4, <1>5, <1>6, <1>7 DEF Next, Internal

\* "No pi process outlives the server" fails in one way only: where no resume is in flight
\* while stopAll waits for the stops it began, none does, whatever prompts, refreshes,
\* deletes and rollbacks the drain completes (server.ts close, SessionManager.stopAll).
THEOREM ShutdownStopsAllIfAlone == Spec /\ []StopAllAlone => []NoProcessSurvivesShutdown
<1>1. Init => ShutInv
  BY DEF Init, ShutInv, RunningIsHeld, LostIsOver, ShutdownGoesOn, NoResume, None
<1>2. IInv /\ ShutInv /\ StopAllAlone /\ StopAllAlone' /\ [Next]_vars => ShutInv'
  BY ShutNext
<1>3. ShutInv => NoProcessSurvivesShutdown
  BY DEF ShutInv, ShutdownGoesOn, NothingRuns, NoProcessSurvivesShutdown
<1> QED
  BY <1>1, <1>2, <1>3, LifecycleInvariant, PTL DEF Spec

-----------------------------------------------------------------------------
(* The rollback.  It can answer ok with the wrong conversation only when a *)
(* resume is in flight while it destroys the session or restores the files *)
(* (the finding of MCSessionLifecycleRollback): wherever none is, the      *)
(* session it destroyed stays out of the map, and the resume it calls      *)
(* itself loads the conversation it copied.                                *)

\* The one thing the theorem excludes.
RollbackAlone == rollback.at \in {"destroying", "restoring"} => resuming.at = "none"

RollInv ==
  /\ rollback.at = "destroying" => entry \in {None, stops["rollback"].of}
  /\ rollback.at = "restoring" => entry = None
  /\ rollback.at = "reopening" =>
       /\ file = "target"
       /\ resuming.at # "none" /\ resuming.live = None /\ resuming.placeholder = None
       /\ resuming.at \in {"called", "preflight"} => entry = None
       /\ resuming.candidate # None => loaded[resuming.candidate] = "target"
  /\ rollback.at = "ok" => rollback.shows \in Born /\ loaded[rollback.shows] = "target"

\* A step that puts no session in the map, and leaves the rollback, the conversations and
\* a resume in flight alone.
LEMMA RollFrame ==
  ASSUME IInv, RollInv, entry' \in {None, entry},
         UNCHANGED <<rollback, file, loaded, launched, stops["rollback"].of>>,
         resuming.at # "none" => UNCHANGED resuming
  PROVE  RollInv'
BY DEF RollInv, Born

\* A step that may call resume: a rollback that waits for one has it in flight.
LEMMA RollCall ==
  ASSUME IInv, RollInv, NEW p \in BOOLEAN,
         (CanResume /\ CallResume(p)) \/ UNCHANGED <<resuming, claim>>, UNCHANGED entry,
         UNCHANGED <<rollback, file, loaded, launched, stops["rollback"].of>>
  PROVE  RollInv'
BY CallMoves, RollFrame

\* A resume that throws fails the rollback that called it.
LEMMA RollThrow ==
  ASSUME IInv, RollInv, RollbackAlone, resuming.at # "none",
         NEW b \in BOOLEAN, ResumeThrows(b), UNCHANGED <<loaded, launched>>
  PROVE  RollInv'
<1>1. rollback.at \notin {"destroying", "restoring"}
  BY DEF RollbackAlone
<1>2. \/ rollback.at \notin {"reopening", "aborting"} /\ UNCHANGED rollback
      \/ rollback'.at = "failed"
  BY DEF ResumeThrows, IInv, TypeOK, ActorTypes
<1> QED
  BY <1>1, <1>2 DEF RollInv, Born

LEMMA RollLaunch ==
  ASSUME IInv, RollInv, RollbackAlone, Launch, resuming.at \in {"preflight", "stopping"}
  PROVE  RollInv'
<1>1. rollback.at \notin {"destroying", "restoring"} /\ UNCHANGED file
  BY DEF RollbackAlone, Launch
<1>2. CASE \E r \in Launches : Spawn(r)
  <2>1. PICK r \in Launches : Spawn(r)
    BY <1>2
  <2>2. /\ r = launched + 1 /\ launched' = r /\ UNCHANGED rollback
        /\ loaded' = [loaded EXCEPT ![r] = file]
        /\ resuming' = [resuming EXCEPT !.at = "seeding", !.candidate = r]
    BY <2>1 DEF Spawn
  <2>3. /\ resuming'.at = "seeding" /\ resuming'.candidate = r
        /\ UNCHANGED <<resuming.live, resuming.placeholder>>
    BY <2>2 DEF IInv, TypeOK, ManagerTypes
  <2>4. loaded'[r] = file /\ \A q \in Born : loaded'[q] = loaded[q] /\ q \in Born'
    BY <2>2 DEF IInv, TypeOK, RuntimeTypes, Born, NamesAreBorn, Launches
  <2> QED
    BY <1>1, <2>2, <2>3, <2>4 DEF RollInv
<1>3. CASE SpawnFails
  BY <1>3, RollThrow DEF SpawnFails
<1> QED
  BY <1>2, <1>3 DEF Launch

LEMMA RollNext ==
  ASSUME IInv, RollInv, RollbackAlone, [Next]_vars
  PROVE  RollInv'
<1> USE DEF Stoppers
<1>1. CASE StopReturns
  <2>1. CASE ResumeDestroyedEnded
    BY <2>1, RollLaunch DEF ResumeDestroyedEnded
  <2>2. CASE ResumeFailed
    BY <2>2, RollThrow DEF ResumeFailed, runtimes, bounds
  <2>3. CASE DeleteDestroyed
    <3>1. /\ UNCHANGED <<rollback, file, loaded, launched, resuming>> /\ entry' \in {None, entry}
          /\ stops' = [stops EXCEPT !["delete"] = NoStop]
      BY <2>3 DEF DeleteDestroyed, DeleteStep, EntryWithout, bounds
    <3>2. stops'["rollback"] = stops["rollback"]
      BY <3>1 DEF IInv, TypeOK, StopTypes
    <3> QED
      BY <3>1, <3>2, RollFrame
  <2>4. CASE RollbackDestroyed
    <3>1. /\ rollback.at = "destroying" /\ rollback' = [rollback EXCEPT !.at = "restoring"]
          /\ entry' = IF entry = stops["rollback"].of THEN None ELSE entry
      BY <2>4 DEF RollbackDestroyed, EntryWithout
    <3>2. entry' = None /\ rollback'.at = "restoring"
      BY <3>1 DEF RollInv, IInv, TypeOK, ActorTypes
    <3> QED
      BY <3>2 DEF RollInv
  <2> QED
    BY <1>1, <2>1, <2>2, <2>3, <2>4 DEF StopReturns
<1>2. CASE Continues
  <2>1. ASSUME NEW o \in Launches, IdleParked(o)
        PROVE  RollInv'
    <3>1. /\ (CanResume /\ CallResume(FALSE)) \/ UNCHANGED <<resuming, claim>>
          /\ UNCHANGED <<entry, rollback, file, loaded, launched>>
      BY <2>1 DEF IdleParked, runtimes, bounds
    <3>2. stops'["rollback"].of = stops["rollback"].of
      BY <2>1 DEF IdleParked, IInv, TypeOK, StopTypes
    <3> QED
      BY <3>1, <3>2, RollCall
  <2>2. CASE RefreshParked
    <3>1. /\ (CanResume /\ CallResume(TRUE)) \/ UNCHANGED <<resuming, claim>>
          /\ UNCHANGED <<entry, rollback, file, loaded, launched, stops>>
      BY <2>2 DEF RefreshParked, RefreshWakes, runtimes, bounds
    <3> QED
      BY <3>1, RollCall
  <2>3. CASE ResumeFindsRunning
    <3>1. /\ resuming.at = "called" /\ entry \in Launches
          /\ ResumeReturns(entry, rt[entry]) /\ UNCHANGED <<loaded, launched>>
      BY <2>3 DEF ResumeFindsRunning, RunningSessions, runtimes, bounds
    <3>2. rollback.at \notin {"destroying", "restoring", "reopening"}
      BY <3>1 DEF RollbackAlone, RollInv, None, Launches
    <3>3. UNCHANGED rollback \/ rollback'.at = "failed"
      BY <3>1, <3>2 DEF ResumeReturns, IInv, TypeOK, ActorTypes
    <3> QED
      BY <3>1, <3>2, <3>3 DEF RollInv, Born
  <2>4. CASE ResumePrepares
    <3>1. /\ resuming.at = "called" /\ UNCHANGED <<entry, rollback, file, loaded, launched>>
          /\ resuming' = [resuming EXCEPT
                            !.at = "preflight", !.live = entry,
                            !.placeholder = IF entry \in ParkedSessions THEN entry ELSE None]
      BY <2>4 DEF ResumePrepares, runtimes, actors, bounds
    <3>2. rollback.at \notin {"destroying", "restoring"}
      BY <3>1 DEF RollbackAlone
    <3>3. /\ resuming'.at = "preflight" /\ resuming'.live = entry
          /\ resuming'.placeholder \in {entry, None} /\ UNCHANGED resuming.candidate
      BY <3>1 DEF IInv, TypeOK, ManagerTypes
    <3> QED
      BY <3>1, <3>2, <3>3 DEF RollInv, Born
  <2> QED
    BY <1>2, <2>1, <2>2, <2>3, <2>4 DEF Continues
<1>3. CASE ProcessStep \/ \E r \in Launches : PiExits(r)
  <2>1. UNCHANGED <<entry, resuming, loaded, rollback, stops, file, launched>>
    BY <1>3, ProcessEffect
  <2> QED
    BY <2>1, RollFrame
<1>4. CASE ManagerStep
  <2>1. CASE PreflightFails
    BY <2>1, RollThrow DEF PreflightFails, runtimes
  <2>2. CASE ResumeLaunches
    BY <2>2, RollLaunch DEF ResumeLaunches
  <2>3. CASE ResumeDestroysEnded
    <3>1. resuming.at = "preflight" /\ resuming.live # resuming.placeholder
      BY <2>3 DEF ResumeDestroysEnded
    <3>2. CASE Launch
      BY <3>1, <3>2, RollLaunch
    <3>3. CASE UNCHANGED <<rollback, file, loaded, launched>>
      <4>1. rollback.at \notin {"destroying", "restoring", "reopening"}
        BY <3>1 DEF RollbackAlone, RollInv
      <4> QED
        BY <3>3, <4>1 DEF RollInv, Born
    <3> QED
      BY <2>3, <3>2, <3>3 DEF ResumeDestroysEnded, bounds
  <2>4. CASE SeedFails
    <3>1. /\ resuming.at = "seeding" /\ UNCHANGED <<rollback, file, loaded, launched>>
          /\ resuming' = [resuming EXCEPT !.at = "failing"]
      BY <2>4 DEF SeedFails
    <3>2. /\ resuming'.at = "failing"
          /\ UNCHANGED <<resuming.live, resuming.placeholder, resuming.candidate>>
      BY <3>1 DEF IInv, TypeOK, ManagerTypes
    <3>3. rollback.at \notin {"destroying", "restoring"}
      BY <3>1 DEF RollbackAlone
    <3> QED
      BY <3>1, <3>2, <3>3 DEF RollInv, Born
  <2>5. CASE ResumeSucceeds
    <3>1. /\ resuming.at = "seeding" /\ UNCHANGED <<loaded, launched>>
          /\ rollback' = CASE rollback.at = "reopening" ->
                                [at |-> "ok", shows |-> resuming.candidate]
                           [] rollback.at = "aborting"  -> [rollback EXCEPT !.at = "failed"]
                           [] OTHER -> rollback
      BY <2>5 DEF ResumeSucceeds, ResumeReturns, bounds
    <3>2. resuming.candidate \in Born
      BY <3>1 DEF IInv, ResumeCourse, NamesAreBorn, MaybeBorn
    <3>3. rollback.at \notin {"destroying", "restoring"}
      BY <3>1 DEF RollbackAlone
    <3>4. CASE rollback.at = "reopening"
      <4>1. rollback' = [at |-> "ok", shows |-> resuming.candidate]
        BY <3>1, <3>4
      <4>2. loaded[resuming.candidate] = "target"
        BY <3>1, <3>4 DEF RollInv, IInv, ResumeCourse
      <4> QED
        BY <3>1, <3>2, <4>1, <4>2 DEF RollInv, Born
    <3>5. CASE rollback.at # "reopening"
      <4>1. UNCHANGED rollback \/ rollback'.at = "failed"
        BY <3>1, <3>5 DEF IInv, TypeOK, ActorTypes
      <4> QED
        BY <3>1, <3>3, <3>5, <4>1 DEF RollInv, Born
    <3> QED
      BY <3>4, <3>5
  <2>6. CASE RefreshPreflightFails \/ RefreshParks \/ RefreshYields
    <3>1. UNCHANGED <<entry, resuming, loaded, rollback, stops, file, launched>>
      BY <2>6 DEF RefreshPreflightFails, RefreshParks, RefreshYields, manager, runtimes, bounds
    <3> QED
      BY <3>1, RollFrame
  <2>7. CASE RefreshFindsParked
    <3>1. /\ (CanResume /\ CallResume(TRUE)) \/ UNCHANGED <<resuming, claim>>
          /\ UNCHANGED <<entry, rollback, file, loaded, launched, stops>>
      BY <2>7 DEF RefreshFindsParked, RefreshWakes, runtimes, bounds
    <3> QED
      BY <3>1, RollCall
  <2> QED
    BY <1>4, <2>1, <2>2, <2>3, <2>4, <2>5, <2>6, <2>7 DEF ManagerStep
<1>5. CASE RouteStep
  <2>1. CASE DeleteDestroys \/ DeleteRemoves \/ DeleteFails
    <3>1. UNCHANGED <<entry, resuming, loaded, rollback, file, launched>>
      BY <2>1 DEF DeleteDestroys, DeleteRemoves, DeleteFails, DeleteStep, bounds
    <3>2. UNCHANGED stops \/ (entry # None /\ StopCall("delete", entry))
      BY <2>1 DEF DeleteDestroys, DeleteRemoves, DeleteFails
    <3>3. stops'["rollback"] = stops["rollback"]
      BY <3>2, StopCallEffect DEF IInv, TypeOK, ManagerTypes, Maybe
    <3> QED
      BY <3>1, <3>3, RollFrame
  <2>2. CASE RollbackDestroys
    <3>1. UNCHANGED entry /\ rollback.at = "preparing"
      BY <2>2 DEF RollbackDestroys
    <3>2. CASE entry = None /\ rollback' = [rollback EXCEPT !.at = "restoring"]
      <4>1. rollback'.at = "restoring"
        BY <3>2 DEF IInv, TypeOK, ActorTypes
      <4> QED
        BY <3>1, <3>2, <4>1 DEF RollInv
    <3>3. CASE /\ entry # None /\ rollback' = [rollback EXCEPT !.at = "destroying"]
               /\ StopCall("rollback", entry)
      <4>1. rollback'.at = "destroying"
        BY <3>3 DEF IInv, TypeOK, ActorTypes
      <4>2. stops'["rollback"].of = entry
        BY <3>3, StopCallEffect DEF IInv, TypeOK, ManagerTypes, Maybe
      <4> QED
        BY <3>1, <4>1, <4>2 DEF RollInv
    <3> QED
      BY <2>2, <3>2, <3>3 DEF RollbackDestroys
  <2>3. CASE RollbackReopens
    <3>1. /\ rollback.at = "restoring" /\ UNCHANGED <<entry, loaded, launched>>
          /\ (CanResume /\ CallResume(FALSE)) \/ (~CanResume /\ UNCHANGED <<resuming, claim>>)
      BY <2>3 DEF RollbackReopens, RollbackStep, bounds
    <3>2. PICK restored \in BOOLEAN :
            /\ file' = IF restored THEN "target" ELSE file
            /\ rollback' = [rollback EXCEPT !.at =
                              IF ~CanResume THEN "failed"
                              ELSE IF restored THEN "reopening" ELSE "aborting"]
      BY <2>3 DEF RollbackReopens
    <3>3. resuming.at = "none" /\ entry = None
      BY <3>1 DEF RollbackAlone, RollInv
    <3>4. rollback'.at = IF ~CanResume THEN "failed"
                         ELSE IF restored THEN "reopening" ELSE "aborting"
      BY <3>2 DEF IInv, TypeOK, ActorTypes
    <3>5. CanResume => /\ resuming'.at = "called" /\ resuming'.live = None
                       /\ resuming'.placeholder = None /\ resuming'.candidate = None
      BY <3>1, <3>3 DEF CallResume, NoResume
    <3> QED
      BY <3>1, <3>2, <3>3, <3>4, <3>5 DEF RollInv
  <2>4. CASE StopAll
    <3>1. UNCHANGED <<entry, resuming, loaded, rollback, file, launched>>
      BY <2>4 DEF StopAll, ShutdownStep, bounds
    <3>2. stops'["rollback"] = stops["rollback"]
      BY <2>4, StopCallEffect DEF StopAll, IInv, TypeOK, ManagerTypes, Maybe
    <3> QED
      BY <3>1, <3>2, RollFrame
  <2>5. CASE StopAllClears
    <3>1. /\ UNCHANGED <<resuming, loaded, rollback, file, launched>> /\ entry' = None
          /\ stops' = [stops EXCEPT !["shutdown"] = NoStop]
      BY <2>5 DEF StopAllClears, ShutdownStep, bounds
    <3>2. stops'["rollback"] = stops["rollback"]
      BY <3>1 DEF IInv, TypeOK, StopTypes
    <3> QED
      BY <3>1, <3>2, RollFrame
  <2>6. CASE Drain
    <3>1. UNCHANGED <<entry, resuming, loaded, rollback, file, launched, stops>>
      BY <2>6 DEF Drain, ShutdownStep, bounds
    <3> QED
      BY <3>1, RollFrame
  <2> QED
    BY <1>5, <2>1, <2>2, <2>3, <2>4, <2>5, <2>6 DEF RouteStep
<1>6. CASE UserStep
  <2>1. ASSUME NEW o \in Launches, IdleTimer(o)
        PROVE  RollInv'
    <3>1. UNCHANGED <<entry, resuming, loaded, rollback, stops, file, launched>>
      BY <2>1 DEF IdleTimer, manager, actors, bounds
    <3> QED
      BY <3>1, RollFrame
  <2>2. ASSUME NEW c \in Commands, Prompt(c)
        PROVE  RollInv'
    <3>1. /\ (CanResume /\ CallResume(FALSE)) \/ UNCHANGED <<resuming, claim>>
          /\ UNCHANGED <<entry, rollback, file, loaded, launched, stops>>
      BY <2>2 DEF Prompt, runtimes, bounds
    <3> QED
      BY <3>1, RollCall
  <2>3. CASE RestResume
    <3>1. /\ CanResume /\ CallResume(FALSE)
          /\ UNCHANGED <<entry, rollback, file, loaded, launched, stops>>
      BY <2>3 DEF RestResume, CanResume, actors, runtimes, bounds
    <3> QED
      BY <3>1, RollCall
  <2>4. CASE RefreshStarts \/ DeleteStarts \/ Shutdown
    <3>1. UNCHANGED <<entry, resuming, loaded, rollback, stops, file, launched>>
      BY <2>4 DEF RefreshStarts, DeleteStarts, DeleteStep, Shutdown, ShutdownStep, manager,
                  runtimes, bounds
    <3> QED
      BY <3>1, RollFrame
  <2>5. CASE RollbackStarts
    <3>1. rollback'.at = "preparing"
      BY <2>5 DEF RollbackStarts, IInv, TypeOK, ActorTypes
    <3> QED
      BY <3>1 DEF RollInv
  <2> QED
    BY <1>3, <1>6, <2>1, <2>2, <2>3, <2>4, <2>5 DEF UserStep
<1>7. CASE UNCHANGED vars
  <2>1. UNCHANGED <<entry, resuming, loaded, rollback, stops, file, launched>>
    BY <1>7 DEF vars
  <2> QED
    BY <2>1, RollFrame
<1> QED
  BY <1>1, <1>2, <1>3, <1>4, <1>5, <1>6, <1>7 DEF Next, Internal

\* "A rollback that answers ok shows the conversation it was asked for" fails in one way
\* only: where no resume is in flight while it destroys the session and restores the files,
\* what it shows was loaded from the conversation it copied (checkpointRollback.ts),
\* whatever deletes, refreshes, exits and the shutdown do meanwhile.
THEOREM RollbackShowsTargetIfAlone == Spec /\ []RollbackAlone => []RollbackShowsTarget
<1>1. Init => RollInv
  BY DEF Init, RollInv
<1>2. IInv /\ RollInv /\ RollbackAlone /\ [Next]_vars => RollInv'
  BY RollNext
<1>3. RollInv => RollbackShowsTarget
  BY DEF RollInv, RollbackShowsTarget
<1> QED
  BY <1>1, <1>2, <1>3, LifecycleInvariant, PTL DEF Spec

-----------------------------------------------------------------------------
(* The deleted session.  It comes back only when a refresh or a rollback   *)
(* is under way while the delete destroys it and removes its row, or when  *)
(* a rollback destroys the candidate of a resume (the finding of           *)
(* MCSessionLifecycleDelete): wherever neither is, the delete leaves       *)
(* nobody who would publish the metadata or take the map entry again.      *)

\* The other thing the theorem excludes.
DeleteAlone ==
  deletion \in {"destroying", "removing"} =>
    refresh.at = "none" /\ rollback.at \in {"none", "ok", "failed"}

\* A process whose events are heard, an idle park, and an idle deadline of a live session
\* are those of the session in the map.
HeardIsHeld == \A r \in Launches : Alive(r) /\ ingesting[r] => entry # None /\ rt[entry] = r
ParkIsHeld == \A o \in Launches : transition[o] => o = entry
TimerIsHeld == \A o \in Launches : timer[o] # "off" /\ lifecycle[o] = "live" => o = entry
AllIsHeld == HeardIsHeld /\ ParkIsHeld /\ TimerIsHeld

\* The session a stop of t is for has no deadline, and once the stop has closed it no park.
StopQuiets(t) ==
  stops[t].at # "none" /\ stops[t].of # None =>
    /\ timer[stops[t].of] = "off"
    /\ stops[t].at \in {"closing", "done"} => ~transition[stops[t].of]

\* While the server serves, and beyond that for as long as a delete is under way or done.
Follows == phase = "serving" \/ claim = "delete" \/ deletion = "done"

StopsQuiet ==
  /\ \A t \in Stoppers \ {"shutdown"} : StopQuiets(t)
  /\ claim = "delete" => StopQuiets("shutdown")
  /\ phase \notin {"stopping", "stopping again"} => stops["shutdown"].at = "none"

\* Nobody is left who would bring the session back.
DeletedIsQuiet ==
  deletion = "done" =>
    /\ ~indexed /\ entry = None /\ resuming.at = "none" /\ refresh.at = "none"
    /\ rollback.at \in {"none", "ok", "failed"}

DelInv ==
  /\ Follows => AllIsHeld
  /\ phase = "serving" /\ resuming.at = "seeding" => entry = resuming.candidate
  /\ StopsQuiet /\ DeletedIsQuiet

\* A delete is exclusive of a resume, and no delete follows it.
LEMMA FollowsExcludes ==
  ASSUME IInv, DelInv, Follows, phase # "serving"
  PROVE  resuming.at = "none"
BY DEF IInv, TypeOK, ClaimsMatch, DelInv, DeletedIsQuiet, Follows

\* What nobody began to follow is followed already: a delete starts while serving.
LEMMA FollowsBack ==
  ASSUME phase' = "serving" => phase = "serving",
         claim' = "delete" => claim = "delete" \/ phase = "serving",
         deletion' = "done" => deletion = "done" \/ claim = "delete"
  PROVE  Follows' => Follows
BY DEF Follows

\* A step that heeds nobody new: no process, park or deadline begins but of a session in
\* the map, and the map stays as it is.
LEMMA HeldFrame ==
  ASSUME IInv, AllIsHeld, UNCHANGED <<entry, rt>>,
         \A q \in Launches : Alive(q)' /\ ingesting'[q] => Alive(q) /\ ingesting[q],
         \A o \in Launches : transition'[o] => transition[o] \/ o = entry,
         \A o \in Launches : timer'[o] # "off" /\ lifecycle'[o] = "live" =>
                               timer[o] # "off" /\ lifecycle[o] = "live"
  PROVE  AllIsHeld'
BY DEF AllIsHeld, HeardIsHeld, ParkIsHeld, TimerIsHeld

\* ... and that leaves the stops alone, and the parks and the deadlines they ended.
LEMMA QuietFrame ==
  ASSUME IInv, StopsQuiet, claim' = "delete" => claim = "delete", UNCHANGED stops,
         phase \in {"stopping", "stopping again"} => phase' = phase,
         \A o \in Launches : timer[o] = "off" => timer'[o] = "off" /\ (transition'[o] => transition[o])
  PROVE  StopsQuiet'
<1>1. \A t \in Stoppers : stops[t].of # None => stops[t].of \in Launches
  BY DEF IInv, TypeOK, StopTypes, Maybe
<1> QED
  BY <1>1 DEF StopsQuiet, StopQuiets, Stoppers

\* A step after which a deleted session is as deleted as before.
LEMMA GoneFrame ==
  ASSUME DeletedIsQuiet, deletion' = "done" => deletion = "done",
         deletion = "done" => entry' = None /\ UNCHANGED <<indexed, resuming, refresh, rollback>>
  PROVE  DeletedIsQuiet'
BY DEF DeletedIsQuiet

\* A step that leaves the map and the stops alone, makes nobody heard or due, parks only a
\* live session that is due, and publishes nothing of a deleted session.
LEMMA DelFrame ==
  ASSUME IInv, DelInv, UNCHANGED <<entry, rt, ingesting, stops>>,
         phase' = "serving" => phase = "serving",
         phase \in {"stopping", "stopping again"} => phase' = phase,
         claim' = "delete" => claim = "delete",
         deletion' = "done" => deletion = "done",
         resuming'.at = "seeding" => UNCHANGED resuming,
         \A q \in Launches : Alive(q)' => Alive(q),
         \A o \in Launches : transition'[o] =>
                               transition[o] \/ (timer[o] # "off" /\ lifecycle[o] = "live"),
         \A o \in Launches : timer'[o] # "off" => timer[o] # "off",
         \A o \in Launches : lifecycle'[o] = "live" => lifecycle[o] = "live",
         deletion = "done" => UNCHANGED <<indexed, resuming, refresh, rollback>>
  PROVE  DelInv'
<1>1. Follows' => Follows
  BY FollowsBack
<1>2. Follows => AllIsHeld'
  <2> SUFFICES ASSUME Follows
               PROVE  AllIsHeld'
    OBVIOUS
  <2>1. AllIsHeld
    BY DEF DelInv
  <2> QED
    BY <2>1, HeldFrame DEF AllIsHeld, TimerIsHeld
<1>3. StopsQuiet'
  BY QuietFrame DEF DelInv
<1>4. DeletedIsQuiet'
  BY GoneFrame DEF DelInv, DeletedIsQuiet
<1> QED
  BY <1>1, <1>2, <1>3, <1>4 DEF DelInv

\* A step that may call resume.
LEMMA DelCall ==
  ASSUME IInv, DelInv, NEW p \in BOOLEAN,
         (CanResume /\ CallResume(p)) \/ UNCHANGED <<resuming, claim>>,
         UNCHANGED <<entry, rt, ingesting, stops, phase, deletion>>, deletion # "done",
         \A q \in Launches : Alive(q)' => Alive(q),
         \A o \in Launches : transition'[o] => transition[o],
         \A o \in Launches : timer'[o] # "off" => timer[o] # "off",
         \A o \in Launches : lifecycle'[o] = "live" => lifecycle[o] = "live"
  PROVE  DelInv'
<1>1. /\ claim' = "delete" => claim = "delete"
      /\ resuming'.at = "seeding" => UNCHANGED resuming
  BY CallMoves
<1> QED
  BY <1>1, DelFrame

\* A session that is stopped has no deadline, and the stop waits for its park.
LEMMA StopCallQuiets ==
  ASSUME IInv, NEW t \in Stoppers, NEW o \in Launches, StopCall(t, o)
  PROVE  /\ timer'[o] = "off" /\ stops'[t].of = o
         /\ stops'[t].at \in {"closing", "done"} => ~transition[o]
         /\ \A u \in Stoppers : u # t => stops'[u] = stops[u]
         /\ \A p \in Launches : timer'[p] # "off" => timer[p] # "off"
         /\ \A q \in Launches : Alive(q)' => Alive(q)
<1>1. /\ stops'[t].of = o
      /\ \A u \in Stoppers : u # t => stops'[u] = stops[u]
      /\ \A p \in Launches : timer'[p] \in {timer[p], "off"}
      /\ \A q \in Launches : \/ pi'[q] = pi[q]
                             \/ pi[q] = "running" /\ pi'[q] = "closing"
  BY StopCallEffect
<1>2. timer'[o] = "off"
  BY DEF StopCall, IInv, TypeOK, SessionTypes
<1>3. transition[o] => stops'[t].at = "waiting"
  BY DEF StopCall, IInv, TypeOK, StopTypes
<1> QED
  BY <1>1, <1>2, <1>3 DEF Alive

\* A step that stops the session in the map.
LEMMA DelStop ==
  ASSUME IInv, DelInv, NEW t \in Stoppers, entry # None, StopCall(t, entry),
         UNCHANGED <<entry, rt, ingesting, transition, lifecycle>>,
         phase' = "serving" => phase = "serving",
         phase' \notin {"stopping", "stopping again"} =>
           t # "shutdown" /\ phase \notin {"stopping", "stopping again"},
         claim' = "delete" => claim = "delete",
         deletion' = "done" => deletion = "done",
         resuming'.at = "seeding" => UNCHANGED resuming
  PROVE  DelInv'
<1>1. entry \in Launches
  BY DEF IInv, TypeOK, ManagerTypes, Maybe
<1>2. /\ timer'[entry] = "off" /\ stops'[t].of = entry
      /\ stops'[t].at \in {"closing", "done"} => ~transition[entry]
      /\ \A u \in Stoppers : u # t => stops'[u] = stops[u]
      /\ \A p \in Launches : timer'[p] # "off" => timer[p] # "off"
      /\ \A q \in Launches : Alive(q)' => Alive(q)
  BY <1>1, StopCallQuiets
<1>3. Follows' => Follows
  BY FollowsBack
<1>4. Follows => AllIsHeld'
  BY <1>2, HeldFrame DEF DelInv
<1>5. ASSUME NEW u \in Stoppers, u = t \/ StopQuiets(u)
      PROVE  StopQuiets(u)'
  <2>1. stops[u].of # None => stops[u].of \in Launches
    BY DEF IInv, TypeOK, StopTypes, Maybe
  <2> QED
    BY <1>2, <1>5, <2>1 DEF StopQuiets
<1>6. StopsQuiet'
  BY <1>2, <1>5 DEF DelInv, StopsQuiet, Stoppers
<1>7. DeletedIsQuiet'
  BY DEF DelInv, DeletedIsQuiet
<1> QED
  BY <1>3, <1>4, <1>6, <1>7 DEF DelInv

\* Nobody is heard, parked or due at all.
NobodyIsHeld ==
  /\ \A r \in Launches : ~(Alive(r) /\ ingesting[r])
  /\ \A o \in Launches : ~transition[o] /\ ~(timer[o] # "off" /\ lifecycle[o] = "live")

LEMMA NobodyIf ==
  ASSUME AllIsHeld,
         entry # None => /\ ~(Alive(rt[entry]) /\ ingesting[rt[entry]])
                         /\ ~transition[entry]
                         /\ timer[entry] = "off" \/ lifecycle[entry] # "live"
  PROVE  NobodyIsHeld
BY DEF AllIsHeld, HeardIsHeld, ParkIsHeld, TimerIsHeld, NobodyIsHeld, None, Launches

\* With nobody to hold, the map may change.
LEMMA NobodyFrame ==
  ASSUME NobodyIsHeld, UNCHANGED <<ingesting, transition, timer, lifecycle>>,
         \A q \in Launches : Alive(q)' /\ ingesting'[q] => Alive(q)
  PROVE  AllIsHeld'
BY DEF NobodyIsHeld, AllIsHeld, HeardIsHeld, ParkIsHeld, TimerIsHeld

\* What the return of a stop means for its session: it is not heard, parked or due.
LEMMA StoppedIsQuiet ==
  ASSUME IInv, NEW t \in Stoppers, StopQuiets(t), Stopped(t), stops[t].of # None,
         stops[t].at = "done" => lifecycle[stops[t].of] = "parked",
         stops[t].at = "closing" => stops[t].on = rt[stops[t].of]
  PROVE  LET o == stops[t].of IN
           ~(Alive(rt[o]) /\ ingesting[rt[o]]) /\ ~transition[o] /\ timer[o] = "off"
<1>1. stops[t].of \in Launches
  BY DEF IInv, TypeOK, StopTypes, Maybe
<1>2. CASE stops[t].at = "done"
  BY <1>1, <1>2 DEF IInv, ParksStop, StopQuiets
<1>3. CASE stops[t].at = "closing"
  BY <1>1, <1>3 DEF Stopped, StopQuiets
<1> QED
  BY <1>2, <1>3 DEF Stopped

\* A stop is over.
LEMMA QuietWhenOver ==
  ASSUME IInv, StopsQuiet, NEW t \in Stoppers, stops' = [stops EXCEPT ![t] = NoStop],
         UNCHANGED <<timer, transition>>, claim' = "delete" => claim = "delete",
         phase' = phase \/ t = "shutdown"
  PROVE  StopsQuiet'
<1>1. /\ stops'[t].at = "none"
      /\ \A u \in Stoppers : u # t => stops'[u] = stops[u]
  BY DEF IInv, TypeOK, StopTypes, NoStop
<1> QED
  BY <1>1 DEF StopsQuiet, StopQuiets, Stoppers

\* A launch finds nobody to hold; the candidate it makes is not heard yet.
LEMMA DelLaunch ==
  ASSUME IInv, DelInv, Launch, ResumeStopOver, resuming.at \in {"preflight", "stopping"},
         phase = "serving" => NobodyIsHeld
  PROVE  DelInv'
<1>1. /\ UNCHANGED <<rt, lifecycle, transition, timer, ingesting, deletion, phase>>
      /\ deletion # "done" /\ claim = "resume"
  BY DEF Launch, DelInv, DeletedIsQuiet, IInv, TypeOK, ClaimsMatch
<1>2. claim' # "delete"
  BY <1>1 DEF Launch, Spawn, SpawnFails, ResumeThrows, EndResume
<1>3. Follows' => phase = "serving"
  BY <1>1, <1>2 DEF Follows
<1>4. StopsQuiet'
  <2>1. /\ stops'["resume"].at = "none"
        /\ \A t \in Stoppers : t # "resume" => stops'[t] = stops[t]
    BY ResumeStopOverEffect
  <2> QED
    BY <1>1, <1>2, <2>1 DEF DelInv, StopsQuiet, StopQuiets, Stoppers
<1>5. CASE \E r \in Launches : Spawn(r)
  <2>1. PICK r \in Launches : Spawn(r)
    BY <1>5
  <2>2. /\ entry' = r /\ r = launched + 1 /\ pi' = [pi EXCEPT ![r] = "running"]
        /\ resuming' = [resuming EXCEPT !.at = "seeding", !.candidate = r]
    BY <2>1 DEF Spawn
  <2>3. ~ingesting[r]
    BY <2>2 DEF IInv, NamesAreBorn, LaterIsUntouched, Born, Launches
  <2>4. \A q \in Launches : Alive(q)' /\ ingesting'[q] => Alive(q)
    BY <1>1, <2>2, <2>3 DEF Alive, IInv, TypeOK, RuntimeTypes
  <2>5. phase = "serving" => AllIsHeld'
    BY <1>1, <2>4, NobodyFrame
  <2>6. resuming'.candidate = r
    BY <2>2 DEF IInv, TypeOK, ManagerTypes
  <2> QED
    BY <1>1, <1>3, <1>4, <2>2, <2>5, <2>6 DEF DelInv, DeletedIsQuiet
<1>6. CASE SpawnFails
  <2>1. UNCHANGED pi /\ resuming'.at = "none"
    BY <1>6 DEF SpawnFails, ResumeThrows, EndResume, NoResume
  <2>2. phase = "serving" => AllIsHeld'
    BY <1>1, <2>1, NobodyFrame DEF Alive
  <2> QED
    BY <1>1, <1>3, <1>4, <2>1, <2>2 DEF DelInv, DeletedIsQuiet
<1> QED
  BY <1>5, <1>6 DEF Launch

\* The resume's stop is over, and with it all it held.
LEMMA ResumeFailedQuiets ==
  ASSUME IInv, DelInv, ResumeFailed
  PROVE  DelInv'
<1> DEFINE k == resuming.candidate
<1>1. /\ UNCHANGED <<rt, lifecycle, transition, timer, ingesting, pi, deletion, phase>>
      /\ resuming.at = "failing" /\ stops' = [stops EXCEPT !["resume"] = NoStop]
      /\ resuming'.at = "none" /\ claim' = "none" /\ claim = "resume"
      /\ deletion # "done"
  BY DEF ResumeFailed, ResumeThrows, EndResume, NoResume, sessions, runtimes, DelInv,
         DeletedIsQuiet, IInv, TypeOK, ClaimsMatch
<1>2. /\ k \in Launches /\ entry \in {None, k} /\ rt[k] = k
      /\ ~ingesting[k] /\ ~transition[k] /\ timer[k] = "off"
  BY <1>1 DEF IInv, TypeOK, ManagerTypes, Maybe, LaunchFindsEntryFree, ResumeCourse,
              CandidateIsFresh
<1>3. Follows' => phase = "serving"
  BY <1>1 DEF Follows
<1>4. phase = "serving" => AllIsHeld'
  <2>1. ASSUME phase = "serving"
        PROVE  NobodyIsHeld
    BY <1>2, <2>1, NobodyIf DEF DelInv, Follows
  <2> QED
    BY <1>1, <2>1, NobodyFrame DEF Alive
<1>5. StopsQuiet'
  BY <1>1, QuietWhenOver DEF DelInv, Stoppers
<1> QED
  BY <1>1, <1>3, <1>4, <1>5 DEF DelInv, DeletedIsQuiet

\* The placeholder, or the candidate itself, takes over what the candidate held: nobody
\* was heard, parked or due while it was seeded, and no stop is for it.
LEMMA ResumeSucceedsHolds ==
  ASSUME IInv, DelInv, RollbackAlone, ResumeSucceeds
  PROVE  DelInv'
<1> DEFINE k == resuming.candidate
           h == resuming.placeholder
           o == IF h = None THEN k ELSE h
<1>1. /\ resuming.at = "seeding" /\ resuming'.at = "none" /\ claim' = "none"
      /\ claim = "resume" /\ deletion # "done"
      /\ ingesting' = [ingesting EXCEPT ![k] = TRUE]
      /\ rt' = [rt EXCEPT ![o] = k]
      /\ lifecycle' = [lifecycle EXCEPT ![o] = "live"]
      /\ timer' = [timer EXCEPT ![o] = "set"]
      /\ entry' = IF h = None THEN entry ELSE o
      /\ UNCHANGED <<transition, pi, deletion, stops, phase>>
  BY DEF ResumeSucceeds, ResumeReturns, EndResume, NoResume, DelInv, DeletedIsQuiet, IInv,
         TypeOK, ClaimsMatch
<1>2. /\ k \in Launches /\ rt[k] = k /\ ~ingesting[k] /\ ~transition[k] /\ timer[k] = "off"
      /\ o \in Launches
  BY <1>1 DEF IInv, TypeOK, ManagerTypes, Maybe, ResumeCourse, CandidateIsFresh
<1>3. ASSUME phase = "serving"
      PROVE  AllIsHeld'
  <2>1. entry = k /\ AllIsHeld
    BY <1>1, <1>3 DEF DelInv, Follows
  <2>2. NobodyIsHeld
    BY <1>2, <2>1, NobodyIf
  <2>3. entry' = o
    BY <1>1, <2>1
  <2> HIDE DEF o, h, k
  <2>4. rt'[o] = k /\ \A q \in Launches : q # k => ingesting'[q] = ingesting[q]
    BY <1>1, <1>2 DEF IInv, TypeOK, SessionTypes, RuntimeTypes
  <2>5. \A p \in Launches : p # o => timer'[p] = timer[p] /\ lifecycle'[p] = lifecycle[p]
    BY <1>1, <1>2 DEF IInv, TypeOK, SessionTypes
  <2>6. HeardIsHeld'
    BY <1>1, <1>2, <2>2, <2>3, <2>4 DEF HeardIsHeld, NobodyIsHeld, Alive, None, Launches
  <2>7. ParkIsHeld' /\ TimerIsHeld'
    BY <1>1, <2>2, <2>3, <2>5 DEF ParkIsHeld, TimerIsHeld, NobodyIsHeld
  <2> QED
    BY <2>6, <2>7 DEF AllIsHeld
<1>4. StopsQuiet'
  <2>1. \A t \in Stoppers \ {"shutdown"} : stops[t].at = "none"
    BY <1>1 DEF IInv, TypeOK, ClaimsMatch, StopsBelong, RollbackAlone, Stoppers
  <2> QED
    BY <1>1, <2>1 DEF DelInv, StopsQuiet, StopQuiets
<1> QED
  BY <1>1, <1>3, <1>4 DEF DelInv, DeletedIsQuiet, Follows

\* A park that ends is over for the stops that waited for it, and publishes nothing of a
\* deleted session, which has none.
LEMMA IdleParkedQuiets ==
  ASSUME IInv, DelInv, NEW o \in Launches, IdleParked(o)
  PROVE  DelInv'
<1>1. /\ (CanResume /\ CallResume(FALSE)) \/ UNCHANGED <<resuming, claim>>
      /\ UNCHANGED <<entry, rt, timer, pi, ingesting, refresh, rollback, deletion, phase>>
      /\ transition[o]
  BY DEF IdleParked, runtimes
<1>2. /\ claim' = "delete" => claim = "delete"
      /\ resuming'.at = "seeding" => UNCHANGED resuming
  BY <1>1, CallMoves
<1>3. /\ ~transition'[o] /\ lifecycle'[o] = "parked"
      /\ \A p \in Launches : p # o => transition'[p] = transition[p] /\ lifecycle'[p] = lifecycle[p]
  BY DEF IdleParked, IInv, TypeOK, SessionTypes
<1>4. deletion # "done"
  BY <1>1 DEF DelInv, Follows, DeletedIsQuiet, AllIsHeld, ParkIsHeld, None, Launches
<1>5. Follows' => Follows
  BY <1>1, <1>2, FollowsBack
<1>6. Follows => AllIsHeld'
  BY <1>1, <1>3, HeldFrame DEF DelInv, Alive
<1>7. ASSUME NEW t \in Stoppers, StopQuiets(t)
      PROVE  StopQuiets(t)'
  <2>1. stops[t].of # None => stops[t].of \in Launches
    BY DEF IInv, TypeOK, StopTypes, Maybe
  <2>2. \/ stops'[t] = stops[t]
        \/ /\ stops[t].of = o /\ stops'[t].of = o /\ stops[t].at = "waiting"
    BY DEF IdleParked, IInv, TypeOK, StopTypes
  <2> QED
    BY <1>1, <1>3, <1>7, <2>1, <2>2 DEF StopQuiets
<1>8. stops["shutdown"].at = "none" => stops'["shutdown"].at = "none"
  BY DEF IdleParked, Stoppers
<1>9. StopsQuiet'
  BY <1>1, <1>2, <1>7, <1>8 DEF DelInv, StopsQuiet, Stoppers
<1> QED
  BY <1>1, <1>2, <1>4, <1>5, <1>6, <1>9 DEF DelInv, DeletedIsQuiet

\* A process or a prompt that is answered publishes nothing of a deleted session: its
\* processes are heard no more.
LEMMA NothingHeardPublishes ==
  ASSUME IInv, DelInv, deletion = "done", ProcessStep \/ \E r \in Launches : PiExits(r)
  PROVE  UNCHANGED indexed
<1>1. \A r \in Launches : ~(Alive(r) /\ ingesting[r])
  BY DEF DelInv, Follows, DeletedIsQuiet, AllIsHeld, HeardIsHeld
<1>2. indexed \in BOOLEAN
  BY DEF IInv, TypeOK, ManagerTypes
<1>3. ASSUME NEW r \in Launches, PiStops(r) \/ PiExits(r)
      PROVE  UNCHANGED indexed
  <2>1. indexed' = (indexed \/ (ingesting[r] /\ parkedBy[r] = "none")) /\ ~ingesting[r]
    BY <1>1, <1>3 DEF PiStops, PiExits, PiGone, Alive
  <2> QED
    BY <1>2, <2>1
<1>4. ASSUME NEW c \in Commands, PiAccepts(c) \/ PiRefuses(c)
      PROVE  UNCHANGED indexed
  <2>1. cmd[c].on \in Launches /\ ~ingesting[cmd[c].on]
    BY <1>1, <1>4 DEF PiAccepts, PiRefuses, Alive, IInv, SentOnProcess, TypeOK, ActorTypes, Maybe
  <2>2. indexed' = (indexed \/ ingesting[cmd[c].on]) \/ UNCHANGED indexed
    BY <1>4 DEF PiAccepts, PiRefuses
  <2> QED
    BY <1>2, <2>1, <2>2
<1>5. ASSUME NEW r \in Launches, TurnEnds(r)
      PROVE  UNCHANGED indexed
  BY <1>5 DEF TurnEnds, manager
<1> QED
  BY <1>3, <1>4, <1>5 DEF ProcessStep

LEMMA DelNext ==
  ASSUME IInv, DeleteOwns, DelInv, RollbackAlone, DeleteAlone, [Next]_vars
  PROVE  DelInv'
<1> USE DEF Stoppers
<1>1. CASE StopReturns
  <2>1. CASE ResumeDestroyedEnded
    <3>1. /\ resuming.at = "stopping" /\ Stopped("resume") /\ Launch /\ ResumeStopOver
          /\ stops["resume"].of = resuming.live /\ resuming.live # None
          /\ entry \in {None, resuming.live}
      BY <2>1 DEF ResumeDestroyedEnded, ResumeStopOver, IInv, TypeOK, StopsBelong, ResumeCourse,
                  LaunchFindsEntryFree
    <3>2. /\ stops["resume"].at = "done" => lifecycle[stops["resume"].of] = "parked"
          /\ stops["resume"].at = "closing" => stops["resume"].on = rt[stops["resume"].of]
          /\ StopQuiets("resume")
      BY <3>1 DEF IInv, StopsHold, DelInv, StopsQuiet
    <3>3. LET o == resuming.live IN
            ~(Alive(rt[o]) /\ ingesting[rt[o]]) /\ ~transition[o] /\ timer[o] = "off"
      BY <3>1, <3>2, StoppedIsQuiet
    <3>4. phase = "serving" => NobodyIsHeld
      BY <3>1, <3>3, NobodyIf DEF DelInv, Follows
    <3> QED
      BY <3>1, <3>4, DelLaunch
  <2>2. CASE ResumeFailed
    BY <2>2, ResumeFailedQuiets
  <2>3. CASE DeleteDestroyed
    <3>1. /\ UNCHANGED <<rt, pi, phase, refresh, resuming, rollback, claim, indexed, ingesting,
                         transition, timer, lifecycle>>
          /\ deletion = "destroying" /\ deletion' = "removing" /\ Stopped("delete")
          /\ stops' = [stops EXCEPT !["delete"] = NoStop]
      BY <2>3 DEF DeleteDestroyed, DeleteStep
    <3>2. /\ claim = "delete" /\ resuming.at = "none" /\ stops["delete"].of # None
          /\ entry \in {None, stops["delete"].of}
          /\ stops["delete"].at = "done" => lifecycle[stops["delete"].of] = "parked"
          /\ stops["delete"].at = "closing" => stops["delete"].on = rt[stops["delete"].of]
          /\ StopQuiets("delete")
      BY <3>1 DEF IInv, TypeOK, ClaimsMatch, StopsBelong, StopsHold, DelInv, StopsQuiet
    <3>3. LET o == stops["delete"].of IN
            ~(Alive(rt[o]) /\ ingesting[rt[o]]) /\ ~transition[o] /\ timer[o] = "off"
      BY <3>1, <3>2, StoppedIsQuiet
    <3>4. NobodyIsHeld
      BY <3>2, <3>3, NobodyIf DEF DelInv, Follows
    <3>5. AllIsHeld'
      BY <3>1, <3>4, NobodyFrame DEF Alive
    <3>6. StopsQuiet'
      BY <3>1, QuietWhenOver DEF DelInv
    <3> QED
      BY <3>1, <3>2, <3>5, <3>6 DEF DelInv, DeletedIsQuiet
  <2>4. CASE RollbackDestroyed
    <3>1. /\ UNCHANGED <<rt, pi, phase, refresh, resuming, deletion, claim, indexed, ingesting,
                         transition, timer, lifecycle>>
          /\ rollback.at = "destroying" /\ Stopped("rollback")
          /\ entry' = IF entry = stops["rollback"].of THEN None ELSE entry
          /\ stops' = [stops EXCEPT !["rollback"] = NoStop]
      BY <2>4 DEF RollbackDestroyed, RollbackStep, EntryWithout
    <3>2. /\ resuming.at = "none" /\ deletion # "done" /\ stops["rollback"].of # None
          /\ stops["rollback"].at = "done" => lifecycle[stops["rollback"].of] = "parked"
          /\ stops["rollback"].at = "closing" => stops["rollback"].on = rt[stops["rollback"].of]
          /\ StopQuiets("rollback")
      BY <3>1 DEF RollbackAlone, IInv, StopsBelong, StopsHold, DelInv, DeletedIsQuiet, StopsQuiet
    <3>3. LET o == stops["rollback"].of IN
            ~(Alive(rt[o]) /\ ingesting[rt[o]]) /\ ~transition[o] /\ timer[o] = "off"
      BY <3>1, <3>2, StoppedIsQuiet
    <3>4. ASSUME AllIsHeld
          PROVE  AllIsHeld'
      <4>1. CASE entry = stops["rollback"].of
        <5>1. NobodyIsHeld
          BY <3>3, <3>4, <4>1, NobodyIf
        <5> QED
          BY <3>1, <5>1, NobodyFrame DEF Alive
      <4>2. CASE entry # stops["rollback"].of
        BY <3>1, <3>4, <4>2, HeldFrame DEF Alive
      <4> QED
        BY <4>1, <4>2
    <3>5. Follows' => Follows
      BY <3>1, FollowsBack
    <3>6. StopsQuiet'
      BY <3>1, QuietWhenOver DEF DelInv
    <3> QED
      BY <3>1, <3>2, <3>4, <3>5, <3>6 DEF DelInv, DeletedIsQuiet
  <2> QED
    BY <1>1, <2>1, <2>2, <2>3, <2>4 DEF StopReturns
<1>2. CASE Continues
  <2>1. ASSUME NEW o \in Launches, IdleParked(o)
        PROVE  DelInv'
    BY <2>1, IdleParkedQuiets
  <2>2. CASE RefreshParked
    <3>1. /\ (CanResume /\ CallResume(TRUE)) \/ UNCHANGED <<resuming, claim>>
          /\ UNCHANGED <<entry, rt, timer, transition, pi, ingesting, stops, phase, deletion>>
          /\ refresh.at = "parking"
          /\ lifecycle' = [lifecycle EXCEPT ![refresh.session] = "parked"]
      BY <2>2 DEF RefreshParked, RefreshWakes, runtimes
    <3>2. \A o \in Launches : lifecycle'[o] = "live" => lifecycle[o] = "live"
      BY <3>1 DEF IInv, TypeOK, SessionTypes
    <3>3. deletion # "done"
      BY <3>1 DEF DelInv, DeletedIsQuiet
    <3> QED
      BY <3>1, <3>2, <3>3, DelCall DEF Alive
  <2>3. CASE ResumeFindsRunning \/ ResumePrepares
    <3>1. /\ resuming.at = "called" /\ resuming'.at # "seeding"
          /\ claim' = "delete" => claim = "delete"
          /\ UNCHANGED <<entry, rt, timer, transition, lifecycle, pi, ingesting, stops, phase,
                         deletion>>
      <4>1. CASE ResumeFindsRunning
        BY <4>1 DEF ResumeFindsRunning, ResumeReturns, EndResume, NoResume, sessions, runtimes
      <4>2. CASE ResumePrepares
        <5>1. /\ resuming.at = "called"
              /\ resuming' = [resuming EXCEPT
                    !.at = "preflight", !.live = entry,
                    !.placeholder = IF entry \in ParkedSessions THEN entry ELSE None]
              /\ UNCHANGED <<entry, claim, sessions, runtimes, actors>>
          BY <4>2 DEF ResumePrepares
        <5>2. resuming'.at = "preflight"
          BY <5>1 DEF IInv, TypeOK, ManagerTypes
        <5> QED
          BY <5>1, <5>2 DEF sessions, runtimes, actors
      <4> QED
        BY <2>3, <4>1, <4>2
    <3>2. deletion # "done"
      BY <3>1 DEF DelInv, DeletedIsQuiet
    <3> QED
      BY <3>1, <3>2, DelFrame DEF Alive
  <2> QED
    BY <1>2, <2>1, <2>2, <2>3 DEF Continues
<1>3. CASE ProcessStep \/ \E r \in Launches : PiExits(r)
  <2>1. /\ UNCHANGED <<entry, claim, resuming, rt, lifecycle, transition, ingesting, refresh,
                       rollback, deletion, stops, phase>>
        /\ \A q \in Launches : Alive(q)' => Alive(q)
    BY <1>3, ProcessEffect
  <2>2. \A o \in Launches : timer'[o] # "off" => timer[o] # "off"
    BY <1>3 DEF ProcessStep, PiStops, PiExits, PiGone, PiAccepts, PiRefuses, TurnEnds, sessions
  <2>3. deletion = "done" => UNCHANGED indexed
    BY <1>3, NothingHeardPublishes
  <2> QED
    BY <2>1, <2>2, <2>3, DelFrame
<1>4. CASE ManagerStep
  <2>1. CASE PreflightFails
    <3>1. /\ resuming.at = "preflight" /\ resuming'.at = "none" /\ claim' = "none"
          /\ UNCHANGED <<entry, rt, timer, transition, lifecycle, pi, ingesting, stops, phase,
                         deletion>>
      BY <2>1 DEF PreflightFails, ResumeThrows, EndResume, NoResume, sessions, runtimes
    <3>2. deletion # "done"
      BY <3>1 DEF DelInv, DeletedIsQuiet
    <3> QED
      BY <3>1, <3>2, DelFrame DEF Alive
  <2>2. CASE ResumeLaunches
    <3>1. /\ resuming.at = "preflight" /\ resuming.live = resuming.placeholder /\ Launch
          /\ ResumeStopOver
      BY <2>2 DEF ResumeLaunches, ResumeStopOver
    <3>2. entry # None => /\ entry \in Launches /\ lifecycle[entry] = "parked"
                          /\ ~Alive(rt[entry]) /\ ~transition[entry]
      BY <3>1 DEF IInv, TypeOK, ManagerTypes, Maybe, LaunchFindsEntryFree, ResumeCourse, ParksStop
    <3>3. phase = "serving" => NobodyIsHeld
      BY <3>2, NobodyIf DEF DelInv, Follows
    <3> QED
      BY <3>1, <3>3, DelLaunch
  <2>3. CASE ResumeDestroysEnded
    <3>1. resuming.at = "preflight"
      BY <2>3 DEF ResumeDestroysEnded
    <3>2. CASE entry = None /\ Launch /\ UNCHANGED stops
      <4>1. phase = "serving" => NobodyIsHeld
        BY <3>2, NobodyIf DEF DelInv, Follows
      <4> QED
        BY <3>1, <3>2, <4>1, DelLaunch DEF ResumeStopOver
    <3>3. CASE /\ entry # None /\ StopCall("resume", entry)
               /\ resuming' = [resuming EXCEPT !.at = "stopping"]
               /\ UNCHANGED <<entry, claim, rt, lifecycle, transition, ingesting, deletion, phase>>
      <4>1. resuming'.at = "stopping"
        BY <3>3 DEF IInv, TypeOK, ManagerTypes
      <4> QED
        BY <3>3, <4>1, DelStop
    <3> QED
      BY <2>3, <3>2, <3>3 DEF ResumeDestroysEnded
  <2>4. CASE SeedFails
    <3>1. /\ resuming.at = "seeding" /\ resuming'.at = "failing"
          /\ UNCHANGED <<entry, claim, rt, lifecycle, transition, ingesting, deletion, phase>>
      BY <2>4 DEF SeedFails, IInv, TypeOK, ManagerTypes
    <3>2. deletion # "done"
      BY <3>1 DEF DelInv, DeletedIsQuiet
    <3>3. CASE entry = None /\ UNCHANGED <<timer, pi>>
               /\ stops' = [stops EXCEPT !["resume"] = [NoStop EXCEPT !.at = "done"]]
      <4>1. stops'["resume"].of = None /\ \A t \in Stoppers : t # "resume" => stops'[t] = stops[t]
        BY <3>3 DEF IInv, TypeOK, StopTypes, NoStop
      <4>2. StopsQuiet'
        BY <3>1, <3>3, <4>1 DEF DelInv, StopsQuiet, StopQuiets
      <4>3. Follows => AllIsHeld'
        BY <3>1, <3>3, HeldFrame DEF DelInv, Alive
      <4>4. Follows' => Follows
        BY <3>1, FollowsBack
      <4> QED
        BY <3>1, <3>2, <4>2, <4>3, <4>4 DEF DelInv, DeletedIsQuiet
    <3>4. CASE entry # None /\ StopCall("resume", entry)
      BY <3>1, <3>4, DelStop
    <3> QED
      BY <2>4, <3>3, <3>4 DEF SeedFails
  <2>5. CASE ResumeSucceeds
    BY <2>5, ResumeSucceedsHolds
  <2>6. CASE RefreshPreflightFails \/ RefreshYields
    <3>1. /\ UNCHANGED <<entry, claim, resuming, rt, timer, transition, lifecycle, pi, ingesting,
                         stops, phase, deletion>>
          /\ refresh.at = "preflight"
      BY <2>6 DEF RefreshPreflightFails, RefreshYields, manager, sessions, runtimes
    <3>2. deletion # "done"
      BY <3>1 DEF DelInv, DeletedIsQuiet
    <3> QED
      BY <3>1, <3>2, DelFrame DEF Alive
  <2>7. CASE RefreshParks
    <3>1. /\ UNCHANGED <<entry, claim, resuming, rt, timer, transition, ingesting, stops, phase,
                         deletion>>
          /\ refresh.at = "preflight" /\ ParkBegins(refresh.session, "refresh")
      BY <2>7 DEF RefreshParks, manager
    <3>2. /\ \A q \in Launches : Alive(q)' => Alive(q)
          /\ \A o \in Launches : lifecycle'[o] = "live" => lifecycle[o] = "live"
      BY <3>1 DEF ParkBegins, Closing, Alive, IInv, TypeOK, SessionTypes, RuntimeTypes
    <3>3. deletion # "done"
      BY <3>1 DEF DelInv, DeletedIsQuiet
    <3> QED
      BY <3>1, <3>2, <3>3, DelFrame
  <2>8. CASE RefreshFindsParked
    <3>1. /\ (CanResume /\ CallResume(TRUE)) \/ UNCHANGED <<resuming, claim>>
          /\ UNCHANGED <<entry, rt, timer, transition, lifecycle, pi, ingesting, stops, phase,
                         deletion>>
          /\ refresh.at = "preflight"
      BY <2>8 DEF RefreshFindsParked, RefreshWakes, runtimes, sessions
    <3>2. deletion # "done"
      BY <3>1 DEF DelInv, DeletedIsQuiet
    <3> QED
      BY <3>1, <3>2, DelCall DEF Alive
  <2> QED
    BY <1>4, <2>1, <2>2, <2>3, <2>4, <2>5, <2>6, <2>7, <2>8 DEF ManagerStep
<1>5. CASE RouteStep
  <2>1. CASE DeleteDestroys
    <3>1. /\ UNCHANGED <<entry, claim, indexed, resuming, rt, transition, lifecycle, ingesting,
                         refresh, rollback, phase>>
          /\ deletion' # "done"
      BY <2>1 DEF DeleteDestroys, DeleteStep
    <3>2. CASE UNCHANGED <<timer, pi, stops>>
      BY <2>1, <3>1, <3>2, DelFrame DEF Alive, DeleteDestroys
    <3>3. CASE entry # None /\ StopCall("delete", entry)
      BY <3>1, <3>3, DelStop
    <3> QED
      BY <2>1, <3>2, <3>3 DEF DeleteDestroys
  <2>2. CASE DeleteRemoves
    <3>1. /\ UNCHANGED <<entry, timer, pi, stops, resuming, rt, transition, lifecycle, ingesting,
                         refresh, rollback, phase>>
          /\ deletion = "removing" /\ ~indexed' /\ claim' = "none"
      BY <2>2 DEF DeleteRemoves, DeleteStep
    <3>2. /\ claim = "delete" /\ resuming.at = "none" /\ entry = None
          /\ refresh.at = "none" /\ rollback.at \in {"none", "ok", "failed"}
      BY <3>1 DEF IInv, TypeOK, ClaimsMatch, DeleteOwns, DeleteAlone
    <3>3. AllIsHeld'
      BY <3>1, <3>2, HeldFrame DEF DelInv, Follows, Alive
    <3>4. StopsQuiet'
      BY <3>1, QuietFrame DEF DelInv
    <3> QED
      BY <3>1, <3>2, <3>3, <3>4 DEF DelInv, DeletedIsQuiet
  <2>3. CASE DeleteFails
    <3>1. /\ UNCHANGED <<entry, indexed, timer, pi, stops, resuming, rt, transition, lifecycle,
                         ingesting, refresh, rollback, phase>>
          /\ claim' = "none" /\ deletion' = "failed"
      BY <2>3 DEF DeleteFails, DeleteStep
    <3> QED
      BY <3>1, DelFrame DEF Alive
  <2>4. CASE RollbackDestroys
    <3>1. /\ UNCHANGED <<entry, claim, indexed, resuming, rt, transition, lifecycle, ingesting,
                         refresh, deletion, phase>>
          /\ rollback.at = "preparing"
      BY <2>4 DEF RollbackDestroys, RollbackStep
    <3>2. deletion # "done"
      BY <3>1 DEF DelInv, DeletedIsQuiet
    <3>3. CASE UNCHANGED <<timer, pi, stops>>
      BY <3>1, <3>2, <3>3, DelFrame DEF Alive
    <3>4. CASE entry # None /\ StopCall("rollback", entry)
      BY <3>1, <3>4, DelStop
    <3> QED
      BY <2>4, <3>3, <3>4 DEF RollbackDestroys
  <2>5. CASE RollbackReopens
    <3>1. /\ (CanResume /\ CallResume(FALSE)) \/ UNCHANGED <<resuming, claim>>
          /\ UNCHANGED <<entry, rt, timer, transition, lifecycle, pi, ingesting, stops, phase,
                         deletion>>
          /\ rollback.at = "restoring"
      BY <2>5 DEF RollbackReopens, RollbackStep
    <3>2. deletion # "done"
      BY <3>1 DEF DelInv, DeletedIsQuiet
    <3> QED
      BY <3>1, <3>2, DelCall DEF Alive
  <2>6. CASE StopAll
    <3>1. /\ UNCHANGED <<entry, claim, indexed, resuming, rt, transition, lifecycle, ingesting,
                         refresh, rollback, deletion>>
          /\ phase \in {"settling", "settling again"} /\ phase' \in {"stopping", "stopping again"}
      BY <2>6 DEF StopAll, ShutdownStep
    <3>2. CASE UNCHANGED <<timer, pi, stops>>
      BY <3>1, <3>2, DelFrame DEF Alive
    <3>3. CASE entry # None /\ StopCall("shutdown", entry)
      BY <3>1, <3>3, DelStop
    <3> QED
      BY <2>6, <3>2, <3>3 DEF StopAll
  <2>7. CASE StopAllClears
    <3>1. /\ UNCHANGED <<claim, indexed, resuming, rt, transition, lifecycle, ingesting, timer, pi,
                         refresh, rollback, deletion>>
          /\ entry' = None /\ phase \in {"stopping", "stopping again"} /\ phase' # "serving"
          /\ stops["shutdown"].at = "none" \/ Stopped("shutdown")
          /\ stops' = [stops EXCEPT !["shutdown"] = NoStop]
      BY <2>7 DEF StopAllClears, ShutdownStep
    <3>2. ASSUME claim = "delete"
          PROVE  NobodyIsHeld
      <4>1. AllIsHeld /\ StopQuiets("shutdown")
        BY <3>2 DEF DelInv, Follows, StopsQuiet
      <4>2. CASE entry = None
        BY <4>1, <4>2, NobodyIf
      <4>3. CASE entry # None
        <5>1. /\ stops["shutdown"].at # "none" /\ stops["shutdown"].of = entry
              /\ stops["shutdown"].at = "done" => lifecycle[entry] = "parked"
              /\ stops["shutdown"].at = "closing" => stops["shutdown"].on = rt[entry]
          BY <3>1, <3>2, <4>3 DEF DeleteOwns
        <5>2. ~(Alive(rt[entry]) /\ ingesting[rt[entry]]) /\ ~transition[entry]
              /\ timer[entry] = "off"
          BY <3>1, <4>1, <4>3, <5>1, StoppedIsQuiet
        <5> QED
          BY <4>1, <5>2, NobodyIf
      <4> QED
        BY <4>2, <4>3
    <3>3. ASSUME deletion = "done"
          PROVE  AllIsHeld'
      <4>1. entry = None /\ AllIsHeld
        BY <3>3 DEF DelInv, DeletedIsQuiet, Follows
      <4> QED
        BY <3>1, <4>1, HeldFrame DEF Alive
    <3>4. Follows' => AllIsHeld'
      <4>1. claim = "delete" => AllIsHeld'
        BY <3>1, <3>2, NobodyFrame DEF Alive
      <4> QED
        BY <3>1, <3>3, <4>1 DEF Follows
    <3>5. StopsQuiet'
      BY <3>1, QuietWhenOver DEF DelInv
    <3> QED
      BY <3>1, <3>4, <3>5 DEF DelInv, DeletedIsQuiet
  <2>8. CASE Drain
    <3>1. /\ UNCHANGED <<entry, claim, indexed, resuming, rt, transition, lifecycle, ingesting,
                         timer, pi, stops, refresh, rollback, deletion>>
          /\ phase = "draining" /\ phase' = "settling again"
      BY <2>8 DEF Drain, ShutdownStep
    <3> QED
      BY <3>1, DelFrame DEF Alive
  <2> QED
    BY <1>5, <2>1, <2>2, <2>3, <2>4, <2>5, <2>6, <2>7, <2>8 DEF RouteStep
<1>6. CASE UserStep
  <2>1. ASSUME NEW o \in Launches, IdleTimer(o)
        PROVE  DelInv'
    <3>1. /\ UNCHANGED <<entry, claim, indexed, resuming, rt, ingesting, stops, refresh, rollback,
                         deletion, phase>>
          /\ timer[o] = "set" /\ lifecycle[o] = "live"
      BY <2>1 DEF IdleTimer, manager, actors
    <3>2. /\ \A p \in Launches : transition'[p] => transition[p] \/ p = o
          /\ \A p \in Launches : timer'[p] # "off" => timer[p] # "off"
      BY <2>1 DEF IdleTimer, IInv, TypeOK, SessionTypes
    <3>3. /\ \A q \in Launches : Alive(q)' => Alive(q)
          /\ \A p \in Launches : lifecycle'[p] = "live" => lifecycle[p] = "live"
      BY <2>1 DEF IdleTimer, ParkBegins, Closing, Alive, IInv, TypeOK, SessionTypes, RuntimeTypes
    <3> QED
      BY <3>1, <3>2, <3>3, DelFrame
  <2>2. ASSUME NEW c \in Commands, Prompt(c)
        PROVE  DelInv'
    <3>1. /\ (CanResume /\ CallResume(FALSE)) \/ UNCHANGED <<resuming, claim>>
          /\ UNCHANGED <<entry, rt, transition, lifecycle, pi, ingesting, stops, phase, deletion>>
          /\ entry # None
          /\ timer' = [timer EXCEPT ![entry] = IF @ = "set" THEN "clear" ELSE @]
      BY <2>2 DEF Prompt, runtimes
    <3>2. \A o \in Launches : timer'[o] # "off" => timer[o] # "off"
      BY <3>1 DEF IInv, TypeOK, SessionTypes
    <3>3. deletion # "done"
      BY <3>1 DEF DelInv, DeletedIsQuiet
    <3> QED
      BY <3>1, <3>2, <3>3, DelCall DEF Alive
  <2>3. CASE RestResume
    <3>1. /\ CanResume /\ CallResume(FALSE)
          /\ UNCHANGED <<entry, rt, timer, transition, lifecycle, pi, ingesting, stops, phase,
                         deletion>>
          /\ entry # None \/ indexed
      BY <2>3 DEF RestResume, CanResume, actors, sessions, runtimes
    <3>2. deletion # "done"
      BY <3>1 DEF DelInv, DeletedIsQuiet
    <3> QED
      BY <3>1, <3>2, DelCall DEF Alive
  <2>4. CASE RefreshStarts \/ RollbackStarts
    <3>1. /\ UNCHANGED <<entry, claim, resuming, rt, timer, transition, lifecycle, pi, ingesting,
                         stops, phase, deletion>>
          /\ entry # None
      BY <2>4 DEF RefreshStarts, RollbackStarts, RollbackStep, manager, sessions, runtimes
    <3>2. deletion # "done"
      BY <3>1 DEF DelInv, DeletedIsQuiet
    <3> QED
      BY <3>1, <3>2, DelFrame DEF Alive
  <2>5. CASE DeleteStarts
    <3>1. /\ UNCHANGED <<entry, resuming, rt, timer, transition, lifecycle, pi, ingesting,
                         stops, phase>>
          /\ phase = "serving" /\ deletion' = "checking"
      BY <2>5 DEF DeleteStarts, DeleteStep
    <3>2. stops["shutdown"].at = "none"
      BY <3>1 DEF DelInv, StopsQuiet
    <3>3. StopsQuiet'
      BY <3>1, <3>2 DEF DelInv, StopsQuiet, StopQuiets
    <3>4. AllIsHeld'
      BY <3>1, HeldFrame DEF DelInv, Follows, Alive
    <3> QED
      BY <3>1, <3>3, <3>4 DEF DelInv, DeletedIsQuiet
  <2>6. CASE Shutdown
    <3>1. /\ UNCHANGED <<entry, claim, indexed, resuming, rt, timer, transition, lifecycle, pi,
                         ingesting, stops, refresh, rollback, deletion>>
          /\ phase = "serving" /\ phase' = "settling"
      BY <2>6 DEF Shutdown, ShutdownStep
    <3> QED
      BY <3>1, DelFrame DEF Alive
  <2> QED
    BY <1>3, <1>6, <2>1, <2>2, <2>3, <2>4, <2>5, <2>6 DEF UserStep
<1>7. CASE UNCHANGED vars
  <2>1. UNCHANGED <<entry, claim, indexed, resuming, rt, timer, transition, lifecycle, pi,
                    ingesting, stops, refresh, rollback, deletion, phase>>
    BY <1>7 DEF vars
  <2> QED
    BY <2>1, DelFrame DEF Alive
<1> QED
  BY <1>1, <1>2, <1>3, <1>4, <1>5, <1>6, <1>7 DEF Next, Internal

\* "A deleted session stays deleted" fails in two ways only: where no refresh and no
\* rollback is under way while the delete destroys the session and removes its row, and no
\* resume while a rollback destroys it, no exit, park, prompt or resume brings its row or
\* its map entry back (routes/sessions.ts, sessionMutationClaims.ts).
THEOREM DeletedStaysDeletedIfAlone ==
  Spec /\ [](RollbackAlone /\ DeleteAlone) => []DeletedStaysDeleted
<1>1. Init => DelInv
  <2> SUFFICES ASSUME Init
               PROVE  DelInv
    OBVIOUS
  <2>1. HeardIsHeld /\ ParkIsHeld
    <3>1. 1 \in Launches /\ entry = 1 /\ rt[1] = 1 /\ entry # None
      BY LifecycleAssumption DEF Init, Launches, None
    <3>2. \A r \in Launches : ingesting[r] <=> r = 1
      BY DEF Init
    <3>3. \A o \in Launches : ~transition[o]
      BY DEF Init
    <3> QED
      BY <3>1, <3>2, <3>3 DEF HeardIsHeld, ParkIsHeld
  <2>2. TimerIsHeld
    <3>1. entry = 1 /\ \A o \in Launches : timer[o] = IF o = 1 THEN "set" ELSE "off"
      BY DEF Init
    <3> QED
      BY <3>1 DEF TimerIsHeld
  <2>3. StopsQuiet
    BY DEF Init, StopsQuiet, StopQuiets, NoStop, Stoppers
  <2> QED
    BY <2>1, <2>2, <2>3 DEF Init, DelInv, AllIsHeld, DeletedIsQuiet, NoResume
<1>2. Init => DeleteOwns
  BY DEF Init, DeleteOwns
<1>3. IInv /\ DeleteOwns /\ [Next]_vars => DeleteOwns'
  BY OwnsNext
<1>4. /\ IInv /\ DeleteOwns /\ DelInv /\ (RollbackAlone /\ DeleteAlone) /\ [Next]_vars
      => DelInv'
  BY DelNext
<1>5. DelInv => DeletedStaysDeleted
  BY DEF DelInv, DeletedIsQuiet, DeletedStaysDeleted
<1> QED
  BY <1>1, <1>2, <1>3, <1>4, <1>5, LifecycleInvariant, PTL DEF Spec
=============================================================================
