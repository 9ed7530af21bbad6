-------------------------- MODULE SessionLifecycle --------------------------
(***************************************************************************)
(* One session id over the life of the server: which pi process owns it,   *)
(* and who may stop or replace that process.                               *)
(*                                                                         *)
(*   SessionManager.ts    the sessions map, ManagedSession (park, stop,    *)
(*                        prompt), resume, the resource refresh, stopAll   *)
(*   sessionMutationClaims.ts  the claim a delete or a resume holds        *)
(*   services/sessionManager.ts  exit handling and parking eligibility     *)
(*   routes/sessions.ts   POST resume and DELETE of a session              *)
(*   checkpointRollback.ts, server.ts close                                *)
(*                                                                         *)
(* Every launch spawns one pi process and makes one ManagedSession; both   *)
(* are numbered by it.  A woken placeholder keeps its number and adopts    *)
(* the new launch's process (runtime).  The steps below run from one await *)
(* to the next: what JavaScript does in between is atomic.                 *)
(***************************************************************************)
EXTENDS Integers, FiniteSets

CONSTANTS
  Commands,        \* the prompts clients send
  MaxLaunches,     \* bound: pi processes launched
  MaxExits,        \* bound: processes that exit by themselves
  MaxFailures,     \* bound: preflights, spawns and seedings that fail
  MaxRefreshes,    \* bound: resource refreshes started
  WithDelete, WithRollback, WithShutdown   \* what users do in this instance

ASSUME LifecycleAssumption ==
  /\ MaxLaunches \in Nat \ {0}
  /\ MaxExits \in Nat /\ MaxFailures \in Nat /\ MaxRefreshes \in Nat
  /\ {WithDelete, WithRollback, WithShutdown} \subseteq BOOLEAN

Launches == 1 .. MaxLaunches
None == 0
Maybe == Launches \cup {None}
Stoppers == {"resume", "rollback", "delete", "shutdown"}

VARIABLES
  \* The manager.
  entry,       \* sessions.get(id), or None
  claim,       \* mutationClaims.owner(id)
  resuming,    \* the resume transaction in resuming.get(id)
  indexed,     \* the session has a row in the index
  \* ManagedSession, by launch.
  rt,          \* the runtime it holds
  lifecycle,
  transition,  \* parkingTransition: an idle park is in progress
  timer,       \* "set", "clear", or "off" before configure and after stop
  \* The pi processes, by launch.
  pi, parkedBy, ingesting, idle, turn, loaded,
  \* Those who act on the session.
  cmd, refresh, rollback, deletion, stops, phase,
  file,        \* the conversation in the pi session file
  launched, exits, failures, refreshes   \* bounds

manager  == <<entry, claim, resuming, indexed>>
sessions == <<rt, lifecycle, transition, timer>>
runtimes == <<pi, parkedBy, ingesting, idle, turn, loaded>>
actors   == <<cmd, refresh, rollback, deletion, stops, phase>>
bounds   == <<launched, exits, failures, refreshes>>
vars == <<entry, claim, resuming, indexed, rt, lifecycle, transition, timer,
          pi, parkedBy, ingesting, idle, turn, loaded, cmd, refresh, rollback,
          deletion, stops, phase, file, launched, exits, failures, refreshes>>

NoResume == [at |-> "none", live |-> None, placeholder |-> None,
             candidate |-> None, prepared |-> FALSE]
NoStop == [at |-> "none", of |-> None, on |-> None, first |-> FALSE]
NoCommand == [at |-> "none", session |-> None, on |-> None]

\* isRunning: a process being killed counts until it is gone.
Alive(r) == pi[r] \in {"running", "closing"}

RunningSessions == {o \in Launches : Alive(rt[o])}
ParkingSessions == {o \in Launches : transition[o]}   \* idle parks in progress
ParkedSessions  == {o \in Launches : lifecycle[o] = "parked"}

ManagerTypes ==
  /\ entry \in Maybe
  /\ claim \in {"none", "resume", "delete"}
  /\ resuming \in [at: {"none", "called", "preflight", "stopping", "seeding", "failing"},
                   live: Maybe, placeholder: Maybe, candidate: Maybe,
                   prepared: BOOLEAN]
  /\ indexed \in BOOLEAN

SessionTypes ==
  /\ rt \in [Launches -> Launches]
  /\ lifecycle \in [Launches -> {"live", "parking", "parked"}]
  /\ transition \in [Launches -> BOOLEAN]
  /\ timer \in [Launches -> {"off", "clear", "set"}]

RuntimeTypes ==
  /\ pi \in [Launches -> {"none", "running", "closing", "exited", "crashed"}]
  /\ parkedBy \in [Launches -> {"none", "idle", "refresh"}]
  /\ ingesting \in [Launches -> BOOLEAN]
  /\ idle \in [Launches -> BOOLEAN] /\ turn \in [Launches -> BOOLEAN]
  /\ loaded \in [Launches -> {"original", "target"}]

ActorTypes ==
  /\ cmd \in [Commands -> [at: {"none", "waiting", "waking", "sent", "accepted", "failed"},
                           session: Maybe, on: Maybe]]
  /\ refresh \in [at: {"none", "preflight", "parking", "waking"}, session: Maybe]
  /\ rollback \in [at: {"none", "preparing", "destroying", "restoring", "reopening",
                        "aborting", "ok", "failed"}, shows: Maybe]
  /\ deletion \in {"none", "checking", "destroying", "removing", "done", "failed"}
  /\ phase \in {"serving", "settling", "stopping", "draining", "settling again",
                "stopping again", "closed"}
  /\ file \in {"original", "target"}

StopTypes ==
  stops \in [Stoppers -> [at: {"none", "waiting", "closing", "done"},
                         of: Maybe, on: Maybe, first: BOOLEAN]]

\* The claim is held exactly by the resume in flight or the running delete.
ClaimsMatch ==
  /\ claim = "resume" <=> resuming.at # "none"
  /\ claim = "delete" <=> deletion \in {"checking", "destroying", "removing"}

\* While a resume is on its way the entry holds what it found or nothing: launch is
\* never refused, and the failure path destroys only its own.
LaunchFindsEntryFree ==
  /\ resuming.at \in {"preflight", "stopping"} => entry \in {None, resuming.live}
  /\ resuming.at \in {"seeding", "failing"} => entry \in {None, resuming.candidate}

\* Types, the claim held by who acts, and the entry free for a launch.
TypeOK ==
  /\ ManagerTypes /\ SessionTypes /\ RuntimeTypes /\ ActorTypes /\ StopTypes
  /\ launched \in 0 .. MaxLaunches
  /\ ClaimsMatch /\ LaunchFindsEntryFree

\* A session created earlier, idle after a turn, its conversation on disk.
Init ==
  /\ entry = 1 /\ claim = "none" /\ resuming = NoResume /\ indexed = TRUE
  /\ rt = [o \in Launches |-> o]
  /\ lifecycle = [o \in Launches |-> "live"]
  /\ transition = [o \in Launches |-> FALSE]
  /\ timer = [o \in Launches |-> IF o = 1 THEN "set" ELSE "off"]
  /\ pi = [r \in Launches |-> IF r = 1 THEN "running" ELSE "none"]
  /\ parkedBy = [r \in Launches |-> "none"]
  /\ ingesting = [r \in Launches |-> r = 1]
  /\ idle = [r \in Launches |-> r = 1]
  /\ turn = [r \in Launches |-> FALSE]
  /\ loaded = [r \in Launches |-> "original"]
  /\ cmd = [c \in Commands |-> NoCommand]
  /\ refresh = [at |-> "none", session |-> None]
  /\ rollback = [at |-> "none", shows |-> None]
  /\ deletion = "none"
  /\ stops = [t \in Stoppers |-> NoStop]
  /\ phase = "serving"
  /\ file = "original"
  /\ launched = 1 /\ exits = 0 /\ failures = 0 /\ refreshes = 0

-----------------------------------------------------------------------------
(* ManagedSession.stop, and the Scope that owns the process.               *)

\* What closing the session's scope does to its process; a later closer finds
\* it closing and returns at once.
Closing(r) == IF pi[r] = "running" THEN "closing" ELSE pi[r]

\* stop: the idle deadline is off for good; a park in progress is waited for, and
\* there is nothing to close on a parked session.
StopCall(t, o) ==
  LET at == IF transition[o] THEN "waiting"
            ELSE IF lifecycle[o] = "parked" THEN "done" ELSE "closing"
  IN /\ stops' = [stops EXCEPT ![t] = [at |-> at, of |-> o, on |-> rt[o],
                                       first |-> pi[rt[o]] = "running"]]
     /\ timer' = [timer EXCEPT ![o] = "off"]
     /\ pi' = IF at = "closing" THEN [pi EXCEPT ![rt[o]] = Closing(rt[o])] ELSE pi

\* stop returned: the process is gone, unless another closer was first and no
\* ingestion was attached for ensureExitHandled to wait for.
Stopped(t) ==
  \/ stops[t].at = "done"
  \/ /\ stops[t].at = "closing"
     /\ \/ ~Alive(stops[t].on)
        \/ ~stops[t].first /\ ~ingesting[stops[t].on]

\* A mutant: whatever holds the entry is dropped.
EntryDropped(t) == None

\* destroySession drops the map entry when it is still the session it stopped.
EntryWithout(t) == IF entry = stops[t].of THEN None ELSE entry

-----------------------------------------------------------------------------
(* Who waits for a resume.  resume() joins the one in flight, else takes   *)
(* the claim.                                                              *)

Woken(c) == cmd[c].at = "waking"

\* A prompt is written to the session's process, unless it is gone.
Prompted(c, o, r, alive) ==
  [at |-> IF alive THEN "sent" ELSE "failed", session |-> o, on |-> r]

\* A mutant: a resume does not ask who holds the claim.
CanAlwaysResume == TRUE

CanResume == resuming.at # "none" \/ claim = "none"

CallResume(prepared) ==
  IF resuming.at # "none"
  THEN UNCHANGED <<resuming, claim>>
  ELSE /\ claim' = "resume"
       /\ resuming' = [NoResume EXCEPT !.at = "called", !.prepared = prepared]

\* A mutant: the failed resume keeps its claim.
ResumeKeepsClaim == resuming' = NoResume /\ UNCHANGED claim

\* A mutant: the resume that ended stays in the map of those in flight.
ResumeStaysInFlight == UNCHANGED resuming /\ claim' = "none"

EndResume == resuming' = NoResume /\ claim' = "none"

\* resume() returns session o holding runtime r: the prompts waiting for it are
\* sent, a refresh publishes its metadata, a rollback answers.
ResumeReturns(o, r) ==
  /\ EndResume
  /\ cmd' = [c \in Commands |->
               IF Woken(c) THEN Prompted(c, o, r, Alive(r)) ELSE cmd[c]]
  /\ refresh' = IF refresh.at = "waking" THEN [at |-> "none", session |-> None] ELSE refresh
  /\ rollback' = CASE rollback.at = "reopening" -> [at |-> "ok", shows |-> r]
                   [] rollback.at = "aborting"  -> [rollback EXCEPT !.at = "failed"]
                   [] OTHER -> rollback

\* resume() throws: a waiting refresh records the error in the metadata, which
\* publishes it.
ResumeThrows(publishes) ==
  /\ EndResume
  /\ cmd' = [c \in Commands |->
               IF Woken(c) THEN [cmd[c] EXCEPT !.at = "failed"] ELSE cmd[c]]
  /\ refresh' = IF refresh.at = "waking" THEN [at |-> "none", session |-> None] ELSE refresh
  /\ rollback' = IF rollback.at \in {"reopening", "aborting"}
                 THEN [rollback EXCEPT !.at = "failed"] ELSE rollback
  /\ indexed' = (indexed \/ publishes \/ refresh.at = "waking")

-----------------------------------------------------------------------------
(* The process.                                                            *)

\* A mutant: the prompts on the wire are left to their caller.
PiGoneQuietly(r, how) ==
  /\ pi' = [pi EXCEPT ![r] = how]
  /\ indexed' = (indexed \/ (ingesting[r] /\ parkedBy[r] = "none"))
  /\ UNCHANGED <<entry, claim, resuming, sessions, parkedBy, ingesting, idle, turn,
                 loaded, cmd, refresh, rollback, deletion, stops, phase, file, launched,
                 failures, refreshes>>

\* It is gone: unanswered prompts fail, and exit handling publishes the metadata
\* unless the session is being parked or was never announced.
PiGone(r, how) ==
  /\ pi' = [pi EXCEPT ![r] = how]
  /\ cmd' = [c \in Commands |->
               IF cmd[c].at = "sent" /\ cmd[c].on = r
               THEN [cmd[c] EXCEPT !.at = "failed"] ELSE cmd[c]]
  /\ indexed' = (indexed \/ (ingesting[r] /\ parkedBy[r] = "none"))
  /\ UNCHANGED <<entry, claim, resuming, sessions, parkedBy, ingesting, idle, turn,
                 loaded, refresh, rollback, deletion, stops, phase, file, launched,
                 failures, refreshes>>

PiStops(r) == pi[r] = "closing" /\ PiGone(r, "exited") /\ UNCHANGED exits

PiExits(r) ==
  /\ pi[r] = "running"
  /\ exits < MaxExits
  /\ exits' = exits + 1
  /\ PiGone(r, "exited") \/ PiGone(r, "crashed")

\* pi acknowledges a prompt: a turn is open, and the metadata is published.
PiAccepts(c) ==
  /\ cmd[c].at = "sent" /\ Alive(cmd[c].on)
  /\ cmd' = [cmd EXCEPT ![c].at = "accepted"]
  /\ turn' = [turn EXCEPT ![cmd[c].on] = TRUE]
  /\ idle' = [idle EXCEPT ![cmd[c].on] = FALSE]
  /\ indexed' = (indexed \/ ingesting[cmd[c].on])
  /\ UNCHANGED <<entry, claim, resuming, sessions, pi, parkedBy, ingesting, loaded,
                 refresh, rollback, deletion, stops, phase, file, bounds>>

\* pi refuses a prompt, which records a failure and so excludes parking, or does
\* not answer in time.
PiRefuses(c) ==
  /\ cmd[c].at = "sent" /\ pi[cmd[c].on] = "running"
  /\ failures < MaxFailures /\ failures' = failures + 1
  /\ cmd' = [cmd EXCEPT ![c].at = "failed"]
  /\ \/ /\ idle' = [idle EXCEPT ![cmd[c].on] = FALSE]
        /\ indexed' = (indexed \/ ingesting[cmd[c].on])
     \/ UNCHANGED <<idle, indexed>>
  /\ UNCHANGED <<entry, claim, resuming, sessions, pi, parkedBy, ingesting, turn, loaded,
                 refresh, rollback, deletion, stops, phase, file, launched, exits,
                 refreshes>>

\* agent_status idle: the turn is over and the idle deadline starts again.
TurnEnds(r) ==
  /\ pi[r] = "running" /\ turn[r] /\ ingesting[r]
  /\ turn' = [turn EXCEPT ![r] = FALSE]
  /\ idle' = [idle EXCEPT ![r] = TRUE]
  /\ timer' = [o \in Launches |->
                 IF rt[o] = r /\ timer[o] = "clear" THEN "set" ELSE timer[o]]
  /\ UNCHANGED <<manager, rt, lifecycle, transition, pi, parkedBy, ingesting, loaded,
                 actors, file, bounds>>

-----------------------------------------------------------------------------
(* Parking.                                                                *)

\* parkingStateAllowsStop.  A prompt not yet acknowledged does not show in it.
Eligible(r) == idle[r] /\ ~turn[r] /\ pi[r] # "crashed"

\* The synchronous part of park: from here the exit is not a terminal one.
ParkBegins(o, why) ==
  /\ lifecycle' = [lifecycle EXCEPT ![o] = "parking"]
  /\ parkedBy' = IF Alive(rt[o]) THEN [parkedBy EXCEPT ![rt[o]] = why] ELSE parkedBy
  /\ pi' = [pi EXCEPT ![rt[o]] = Closing(rt[o])]

\* The idle deadline, a minute at least after it was armed.  A prompt clears it, so one
\* still unanswered was sent before that, and an answer takes 20 s at most.
IdleTimer(o) ==
  /\ timer[o] = "set" /\ lifecycle[o] = "live"
  /\ \A c \in Commands : cmd[c].at = "sent" => cmd[c].on # rt[o]
  /\ timer' = [timer EXCEPT ![o] = "clear"]
  /\ IF Eligible(rt[o]) /\ ~transition[o]
     THEN ParkBegins(o, "idle") /\ transition' = [transition EXCEPT ![o] = TRUE]
     ELSE UNCHANGED <<lifecycle, parkedBy, pi, transition>>
  /\ UNCHANGED <<manager, rt, ingesting, idle, turn, loaded, actors, file, bounds>>

\* The process is gone and the session is parked.  The prompts that waited for
\* this wake it; a stop that waited has nothing left to stop.
IdleParked(o) ==
  /\ transition[o] /\ ~Alive(rt[o])
  /\ transition' = [transition EXCEPT ![o] = FALSE]
  /\ lifecycle' = [lifecycle EXCEPT ![o] = "parked"]
  /\ indexed' = TRUE
  /\ stops' = [t \in Stoppers |->
                 IF stops[t].at = "waiting" /\ stops[t].of = o
                 THEN [stops[t] EXCEPT !.at = "done"] ELSE stops[t]]
  /\ LET waiting == {c \in Commands : cmd[c].at = "waiting" /\ cmd[c].session = o} IN
       /\ cmd' = [c \in Commands |->
                    IF c \in waiting
                    THEN [cmd[c] EXCEPT !.at = IF CanResume THEN "waking" ELSE "failed"]
                    ELSE cmd[c]]
       /\ IF waiting # {} /\ CanResume
          THEN CallResume(FALSE) ELSE UNCHANGED <<resuming, claim>>
  /\ UNCHANGED <<entry, rt, timer, runtimes, refresh, rollback, deletion, phase, file,
                 bounds>>

-----------------------------------------------------------------------------
(* The clients' requests.                                                  *)

\* A mutant: the prompt does not wait for a park in progress.
PromptDuringPark(c) ==
  /\ phase = "serving" /\ cmd[c].at = "none" /\ entry # None
  /\ cmd' = [cmd EXCEPT ![c] = Prompted(c, entry, rt[entry], Alive(rt[entry]))]
  /\ UNCHANGED <<manager, sessions, runtimes, refresh, rollback, deletion, stops, phase,
                 file, bounds>>

\* prompt: piSession cancels the idle deadline, waits for an idle park in
\* progress, wakes a parked session, and uses a live one as it is.
Prompt(c) ==
  /\ phase = "serving" /\ cmd[c].at = "none" /\ entry # None
  /\ timer' = [timer EXCEPT ![entry] = IF @ = "set" THEN "clear" ELSE @]
  /\ \/ /\ transition[entry]
        /\ cmd' = [cmd EXCEPT ![c] = [at |-> "waiting", session |-> entry, on |-> None]]
        /\ UNCHANGED <<resuming, claim>>
     \/ /\ ~transition[entry] /\ lifecycle[entry] # "parked"
        /\ cmd' = [cmd EXCEPT ![c] = Prompted(c, entry, rt[entry], Alive(rt[entry]))]
        /\ UNCHANGED <<resuming, claim>>
     \/ /\ ~transition[entry] /\ lifecycle[entry] = "parked"
        /\ cmd' = [cmd EXCEPT ![c] =
                     [at |-> IF CanResume THEN "waking" ELSE "failed",
                      session |-> entry, on |-> None]]
        /\ IF CanResume THEN CallResume(FALSE) ELSE UNCHANGED <<resuming, claim>>
  /\ UNCHANGED <<entry, indexed, rt, lifecycle, transition, runtimes, refresh,
                 rollback, deletion, stops, phase, file, bounds>>

\* POST /sessions/:id/resume of a session that is not running.
RestResume ==
  /\ phase = "serving" /\ claim = "none" /\ resuming.at = "none"
  /\ launched < MaxLaunches
  /\ entry # None \/ indexed
  /\ entry \notin RunningSessions
  /\ CallResume(FALSE)
  /\ UNCHANGED <<entry, indexed, sessions, runtimes, actors, file, bounds>>

-----------------------------------------------------------------------------
(* resumeClaimed.                                                          *)

\* It waits for an idle park in progress, then hands a running session back.
ResumeFindsRunning ==
  /\ resuming.at = "called"
  /\ entry \in RunningSessions \ ParkingSessions
  /\ ResumeReturns(entry, rt[entry])
  /\ UNCHANGED <<entry, indexed, sessions, runtimes, deletion, stops, phase, file, bounds>>

\* Otherwise it remembers what it found, parked or ended, and prepares the launch.
ResumePrepares ==
  /\ resuming.at = "called"
  /\ entry \notin RunningSessions \cup ParkingSessions
  /\ resuming' = [resuming EXCEPT
                    !.at = "preflight", !.live = entry,
                    !.placeholder = IF entry \in ParkedSessions THEN entry ELSE None]
  /\ UNCHANGED <<entry, claim, indexed, sessions, runtimes, actors, file, bounds>>

\* A refresh did its preflight before it parked the session.
PreflightFails ==
  /\ resuming.at = "preflight" /\ ~resuming.prepared
  /\ failures < MaxFailures /\ failures' = failures + 1
  /\ ResumeThrows(TRUE)
  /\ UNCHANGED <<entry, sessions, runtimes, deletion, stops, phase, file, launched,
                 exits, refreshes>>

\* launch, the map entry being free: a process that loads the session file, and a
\* session that takes the entry at once.  A refresh's replacement inherits idle.
Spawn(r) ==
  /\ r = launched + 1
  /\ launched' = r
  /\ entry' = r
  /\ pi' = [pi EXCEPT ![r] = "running"]
  /\ idle' = [idle EXCEPT ![r] = resuming.prepared]
  /\ loaded' = [loaded EXCEPT ![r] = file]
  /\ resuming' = [resuming EXCEPT !.at = "seeding", !.candidate = r]
  /\ UNCHANGED <<claim, indexed, cmd, refresh, rollback, failures>>

\* A mutant: the failure path does not restore the placeholder.
SpawnFailsForGood ==
  /\ \/ launched = MaxLaunches /\ UNCHANGED failures
     \/ failures < MaxFailures /\ failures' = failures + 1
  /\ entry' = None
  /\ ResumeThrows(FALSE)
  /\ UNCHANGED <<launched, pi, idle, loaded>>

\* The spawn fails: the placeholder is restored.
SpawnFails ==
  /\ \/ launched = MaxLaunches /\ UNCHANGED failures
     \/ failures < MaxFailures /\ failures' = failures + 1
  /\ entry' = resuming.placeholder
  /\ ResumeThrows(FALSE)
  /\ UNCHANGED <<launched, pi, idle, loaded>>

Launch ==
  /\ (\E r \in Launches : Spawn(r)) \/ SpawnFails
  /\ UNCHANGED <<rt, lifecycle, transition, timer, parkedBy, ingesting, turn, deletion,
                 phase, file, exits, refreshes>>

\* It found the session parked, or gone: the placeholder leaves the map for the
\* candidate.  launch refuses an entry someone else took (LaunchFindsEntryFree).
ResumeLaunches ==
  /\ resuming.at = "preflight" /\ resuming.live = resuming.placeholder
  /\ Launch /\ UNCHANGED stops

\* It found an ended session: whatever the entry still holds is destroyed first.
ResumeDestroysEnded ==
  /\ resuming.at = "preflight" /\ resuming.live # resuming.placeholder
  /\ IF entry = None
     THEN Launch /\ UNCHANGED stops
     ELSE /\ StopCall("resume", entry)
          /\ resuming' = [resuming EXCEPT !.at = "stopping"]
          /\ UNCHANGED <<entry, claim, indexed, rt, lifecycle, transition, parkedBy,
                         ingesting, idle, turn, loaded, cmd, refresh, rollback, deletion,
                         phase, file, bounds>>

ResumeDestroyedEnded ==
  /\ resuming.at = "stopping" /\ Stopped("resume")
  /\ Launch
  /\ stops' = [stops EXCEPT !["resume"] = NoStop]

\* A mutant: the failure path leaves the candidate's process alone.
SeedFailsUnstopped ==
  /\ resuming.at = "seeding"
  /\ \/ ~Alive(resuming.candidate) /\ UNCHANGED failures
     \/ failures < MaxFailures /\ failures' = failures + 1
  /\ stops' = [stops EXCEPT !["resume"] = [NoStop EXCEPT !.at = "done", !.of = entry]]
  /\ resuming' = [resuming EXCEPT !.at = "failing"]
  /\ UNCHANGED <<entry, claim, indexed, sessions, runtimes, cmd, refresh, rollback,
                 deletion, phase, file, launched, exits, refreshes>>

\* Seeding fails, with its process or by itself.  The failure path destroys
\* whatever the entry holds ...
SeedFails ==
  /\ resuming.at = "seeding"
  /\ \/ ~Alive(resuming.candidate) /\ UNCHANGED failures
     \/ failures < MaxFailures /\ failures' = failures + 1
  /\ IF entry = None
     THEN /\ stops' = [stops EXCEPT !["resume"] = [NoStop EXCEPT !.at = "done"]]
          /\ UNCHANGED <<timer, pi>>
     ELSE StopCall("resume", entry)
  /\ resuming' = [resuming EXCEPT !.at = "failing"]
  /\ UNCHANGED <<entry, claim, indexed, rt, lifecycle, transition, parkedBy, ingesting,
                 idle, turn, loaded, cmd, refresh, rollback, deletion, phase, file,
                 launched, exits, refreshes>>

\* ... and then restores the placeholder.
ResumeFailed ==
  /\ resuming.at = "failing" /\ Stopped("resume")
  /\ stops' = [stops EXCEPT !["resume"] = NoStop]
  /\ entry' = IF EntryWithout("resume") = None
              THEN resuming.placeholder ELSE EntryWithout("resume")
  /\ ResumeThrows(FALSE)
  /\ UNCHANGED <<sessions, runtimes, deletion, phase, file, bounds>>

\* History is seeded and ingestion starts; the placeholder, if there is one,
\* adopts the runtime and takes the entry back.  The idle deadline starts.
ResumeSucceeds ==
  /\ resuming.at = "seeding" /\ Alive(resuming.candidate)
  /\ LET r == resuming.candidate
         o == IF resuming.placeholder = None THEN r ELSE resuming.placeholder IN
     /\ ingesting' = [ingesting EXCEPT ![r] = TRUE]
     /\ rt' = [rt EXCEPT ![o] = r]
     /\ lifecycle' = [lifecycle EXCEPT ![o] = "live"]
     /\ timer' = [timer EXCEPT ![o] = "set"]
     /\ entry' = IF resuming.placeholder = None THEN entry ELSE o
     /\ ResumeReturns(o, r)
  /\ indexed' = TRUE
  /\ UNCHANGED <<transition, pi, parkedBy, idle, turn, loaded, deletion, stops, phase,
                 file, bounds>>

-----------------------------------------------------------------------------
(* The resource refresh: replace an idle session's process by one with new *)
(* resources.  It takes no claim until it resumes.                         *)

Refreshing(at, o) == refresh' = [at |-> at, session |-> o]

\* refreshOne, when the fingerprint changed and the session may be stopped.
RefreshStarts ==
  /\ phase = "serving" /\ refresh.at = "none"
  /\ refreshes < MaxRefreshes /\ refreshes' = refreshes + 1
  /\ entry # None /\ lifecycle[entry] = "live" /\ Eligible(rt[entry])
  /\ Refreshing("preflight", entry)
  /\ UNCHANGED <<manager, sessions, runtimes, cmd, rollback, deletion, stops, phase,
                 file, launched, exits, failures>>

\* The error is recorded in the metadata, which publishes it.
RefreshPreflightFails ==
  /\ refresh.at = "preflight"
  /\ failures < MaxFailures /\ failures' = failures + 1
  /\ Refreshing("none", None) /\ indexed' = TRUE
  /\ UNCHANGED <<entry, claim, resuming, sessions, runtimes, cmd, rollback, deletion,
                 stops, phase, file, launched, exits, refreshes>>

\* parkForResourceRefresh, when the session may still be stopped.  No
\* parkingTransition tells anyone of this park.
RefreshParks ==
  /\ refresh.at = "preflight"
  /\ lifecycle[refresh.session] = "live" /\ Eligible(rt[refresh.session])
  /\ ParkBegins(refresh.session, "refresh")
  /\ Refreshing("parking", refresh.session)
  /\ UNCHANGED <<manager, rt, transition, timer, ingesting, idle, turn, loaded, cmd,
                 rollback, deletion, stops, phase, file, bounds>>

\* A busy session is armed again for its next idle edge.
RefreshYields ==
  /\ refresh.at = "preflight"
  /\ IF lifecycle[refresh.session] = "live"
     THEN ~Eligible(rt[refresh.session]) ELSE lifecycle[refresh.session] = "parking"
  /\ Refreshing("none", None)
  /\ UNCHANGED <<manager, sessions, runtimes, cmd, rollback, deletion, stops, phase,
                 file, bounds>>

RefreshWakes ==
  IF CanResume
  THEN CallResume(TRUE) /\ Refreshing("waking", refresh.session)
  ELSE UNCHANGED <<resuming, claim>> /\ Refreshing("none", None)

\* The process is gone: the session is parked, which publishes its metadata, and
\* resumed at once; when another mutation holds the claim, that is the error.
RefreshParked ==
  /\ refresh.at = "parking" /\ ~Alive(rt[refresh.session])
  /\ lifecycle' = [lifecycle EXCEPT ![refresh.session] = "parked"]
  /\ indexed' = TRUE
  /\ RefreshWakes
  /\ UNCHANGED <<entry, rt, transition, timer, runtimes, cmd, rollback, deletion, stops,
                 phase, file, bounds>>

\* An idle park came first: the refresh takes it for its own.
RefreshFindsParked ==
  /\ refresh.at = "preflight" /\ lifecycle[refresh.session] = "parked"
  /\ RefreshWakes
  /\ indexed' = (indexed \/ ~CanResume)
  /\ UNCHANGED <<entry, sessions, runtimes, cmd, rollback, deletion, stops, phase, file,
                 bounds>>

-----------------------------------------------------------------------------
(* DELETE /sessions/:id.                                                   *)

DeleteStep == UNCHANGED <<resuming, rt, lifecycle, transition, parkedBy, ingesting,
                          idle, turn, loaded, cmd, refresh, rollback, phase, file, bounds>>

DeleteStarts ==
  /\ WithDelete /\ deletion = "none" /\ phase = "serving"
  /\ claim = "none"
  /\ entry # None \/ indexed
  /\ claim' = "delete" /\ deletion' = "checking"
  /\ UNCHANGED <<entry, indexed, timer, pi, stops>> /\ DeleteStep

DeleteDestroys ==
  /\ deletion = "checking"
  /\ IF entry = None
     THEN deletion' = "removing" /\ UNCHANGED <<timer, pi, stops>>
     ELSE deletion' = "destroying" /\ StopCall("delete", entry)
  /\ UNCHANGED <<entry, claim, indexed>> /\ DeleteStep

DeleteDestroyed ==
  /\ deletion = "destroying" /\ Stopped("delete")
  /\ entry' = EntryWithout("delete")
  /\ stops' = [stops EXCEPT !["delete"] = NoStop]
  /\ deletion' = "removing"
  /\ UNCHANGED <<claim, indexed, timer, pi>> /\ DeleteStep

\* The checkout's cleanup succeeded: the row goes, and with it the session.
DeleteRemoves ==
  /\ deletion = "removing"
  /\ indexed' = FALSE /\ claim' = "none" /\ deletion' = "done"
  /\ UNCHANGED <<entry, timer, pi, stops>> /\ DeleteStep

\* A check refuses before anything is stopped, or the cleanup fails after it.
DeleteFails ==
  /\ deletion \in {"checking", "removing"}
  /\ claim' = "none" /\ deletion' = "failed"
  /\ UNCHANGED <<entry, indexed, timer, pi, stops>> /\ DeleteStep

-----------------------------------------------------------------------------
(* Checkpoint rollback.  It takes no claim.                                *)

RollbackStep == UNCHANGED <<indexed, rt, lifecycle, transition, parkedBy, ingesting,
                            idle, turn, loaded, cmd, refresh, deletion, phase, bounds>>

RollbackStarts ==
  /\ WithRollback /\ rollback.at = "none" /\ phase = "serving"
  /\ entry # None
  /\ rollback' = [rollback EXCEPT !.at = "preparing"]
  /\ UNCHANGED <<entry, claim, resuming, timer, pi, stops, file>> /\ RollbackStep

RollbackDestroys ==
  /\ rollback.at = "preparing"
  /\ IF entry = None
     THEN rollback' = [rollback EXCEPT !.at = "restoring"] /\ UNCHANGED <<timer, pi, stops>>
     ELSE rollback' = [rollback EXCEPT !.at = "destroying"] /\ StopCall("rollback", entry)
  /\ UNCHANGED <<entry, claim, resuming, file>> /\ RollbackStep

RollbackDestroyed ==
  /\ rollback.at = "destroying" /\ Stopped("rollback")
  /\ entry' = EntryWithout("rollback")
  /\ stops' = [stops EXCEPT !["rollback"] = NoStop]
  /\ rollback' = [rollback EXCEPT !.at = "restoring"]
  /\ UNCHANGED <<claim, resuming, timer, pi, file>> /\ RollbackStep

\* The files are restored: the target conversation is copied over the session
\* file and the session reopened.  When they cannot be, it is reopened as it was.
RollbackReopens ==
  /\ rollback.at = "restoring"
  /\ \E restored \in BOOLEAN :
       /\ file' = IF restored THEN "target" ELSE file
       /\ rollback' = [rollback EXCEPT !.at =
                         IF ~CanResume THEN "failed"
                         ELSE IF restored THEN "reopening" ELSE "aborting"]
  /\ IF CanResume THEN CallResume(FALSE) ELSE UNCHANGED <<resuming, claim>>
  /\ UNCHANGED <<entry, timer, pi, stops>> /\ RollbackStep

-----------------------------------------------------------------------------
(* Shutdown: stopAll, drain the requests already admitted, stopAll again.  *)

ShutdownStep == UNCHANGED <<claim, resuming, indexed, rt, lifecycle, transition,
                            parkedBy, ingesting, idle, turn, loaded, cmd, refresh,
                            rollback, deletion, file, bounds>>

Shutdown ==
  /\ WithShutdown /\ phase = "serving"
  /\ phase' = "settling"
  /\ UNCHANGED <<entry, timer, pi, stops>> /\ ShutdownStep

\* stopAll waits for the refresh in flight, then stops the sessions in the map.
StopAll ==
  /\ phase \in {"settling", "settling again"} /\ refresh.at = "none"
  /\ phase' = IF phase = "settling" THEN "stopping" ELSE "stopping again"
  /\ IF entry = None THEN UNCHANGED <<timer, pi, stops>> ELSE StopCall("shutdown", entry)
  /\ UNCHANGED entry /\ ShutdownStep

\* When every session it found has stopped, the other ids' included, the map is
\* cleared of whatever it now holds.
StopAllClears ==
  /\ phase \in {"stopping", "stopping again"}
  /\ IF stops["shutdown"].at = "none" THEN TRUE ELSE Stopped("shutdown")
  /\ entry' = None
  /\ stops' = [stops EXCEPT !["shutdown"] = NoStop]
  /\ phase' = IF phase = "stopping" THEN "draining" ELSE "closed"
  /\ UNCHANGED <<timer, pi>> /\ ShutdownStep

Drained ==
  /\ resuming.at = "none"
  /\ \A c \in Commands : cmd[c].at \in {"none", "accepted", "failed"}
  /\ deletion \in {"none", "done", "failed"}
  /\ rollback.at \in {"none", "ok", "failed"}

Drain ==
  /\ phase = "draining" /\ Drained
  /\ phase' = "settling again"
  /\ UNCHANGED <<entry, timer, pi, stops>> /\ ShutdownStep

-----------------------------------------------------------------------------
\* The step after a stop.
StopReturns == ResumeDestroyedEnded \/ ResumeFailed \/ DeleteDestroyed \/ RollbackDestroyed

ProcessStep == \/ \E r \in Launches : PiStops(r) \/ TurnEnds(r)
               \/ \E c \in Commands : PiAccepts(c) \/ PiRefuses(c)
\* The other continuations of a process that is gone.
Continues == \/ \E o \in Launches : IdleParked(o)
             \/ RefreshParked \/ ResumeFindsRunning \/ ResumePrepares
ManagerStep == \/ PreflightFails
               \/ ResumeLaunches \/ ResumeDestroysEnded \/ SeedFails \/ ResumeSucceeds
               \/ RefreshPreflightFails \/ RefreshParks \/ RefreshYields
               \/ RefreshFindsParked
RouteStep == \/ DeleteDestroys \/ DeleteRemoves \/ DeleteFails
             \/ RollbackDestroys \/ RollbackReopens
             \/ StopAll \/ StopAllClears \/ Drain
UserStep == \/ \E r \in Launches : PiExits(r) \/ IdleTimer(r)
            \/ \E c \in Commands : Prompt(c)
            \/ RestResume \/ RefreshStarts
            \/ DeleteStarts \/ RollbackStarts \/ Shutdown

\* A stop that has nothing left to wait for returns before a process can be spawned,
\* a timer fire or a message arrive; the one of stopAll waits for the other sessions.
Urgent == \E t \in Stoppers \ {"shutdown"} : stops[t].at # "none" /\ Stopped(t)

Internal == StopReturns \/ Continues \/ (~Urgent /\ (ProcessStep \/ ManagerStep \/ RouteStep))

Next == Internal \/ (~Urgent /\ UserStep)

Spec == Init /\ [][Next]_vars

\* What the server and pi began goes on; nothing makes a user act, a timer fire,
\* or a process die by itself.  Every bound is finite, so Internal steps cannot
\* go on for ever and keeping one of them from happening takes all of them.
FairSpec == Spec /\ WF_vars(Internal)

-----------------------------------------------------------------------------
(* Properties.                                                             *)

\* Never two pi processes on the session file, unless one is already being killed:
\* no launch overtakes a process that somebody may still prompt.  (The shutdown
\* forgets live sessions: see NoProcessSurvivesShutdown.)
OneProcess ==
  phase = "serving" =>
    \A q, r \in Launches : pi[q] = "running" /\ pi[r] = "running" => q = r

\* A running process is the map's, the resume's candidate, or already being
\* stopped: none is left that nobody would ever stop.
NoOrphanProcess ==
  phase = "serving" =>
    \A r \in Launches : pi[r] = "running" =>
      \/ entry # None /\ rt[entry] = r
      \/ resuming.candidate = r

\* A prompt is never on a process that idle parking stops.
NoPromptLostToIdlePark ==
  \A c \in Commands : cmd[c].at = "sent" => parkedBy[cmd[c].on] # "idle"

\* A wake, failed or not, leaves the session in the map for the next prompt,
\* unless a rollback or the shutdown took it out.
WakeKeepsSession ==
  [][resuming.placeholder # None /\ resuming'.at = "none"
     /\ rollback.at = "none" /\ phase = "serving" => entry' # None]_vars

\* The delete that removes the row leaves neither a process nor a session behind.
DeleteLeavesNothing ==
  [][deletion = "removing" /\ deletion' = "done" =>
       entry = None /\ \A r \in Launches : pi[r] # "running"]_vars

\* A deleted session stays deleted.
DeletedStaysDeleted == deletion = "done" => ~indexed /\ entry = None

\* A rollback that answers ok shows the conversation it was asked for.
RollbackShowsTarget == rollback.at = "ok" => loaded[rollback.shows] = "target"

\* No pi process outlives the server.
NoProcessSurvivesShutdown == phase = "closed" => \A r \in Launches : pi[r] # "running"

\* Every prompt is accepted or fails: none waits for ever.
PromptsSettle ==
  \A c \in Commands :
    cmd[c].at \in {"waiting", "waking", "sent"} ~> cmd[c].at \in {"accepted", "failed"}

\* A claim is given back, whatever the resume or the delete that took it meets.
ClaimsAreReleased == claim # "none" ~> claim = "none"

\* A shutdown comes to its end: stopAll, the drain and what they wait for never
\* wait for one another.
ShutdownEnds == phase = "settling" ~> phase = "closed"
=============================================================================
