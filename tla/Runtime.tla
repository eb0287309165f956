------------------------------ MODULE Runtime -------------------------------
(***************************************************************************)
(* The life of a process (index.js): it loads the settings stored in the   *)
(* hub before anything else (src/appSecrets/boot.js, fetch.js), starts its *)
(* parts one await after another, polls in turns (src/pollCoordinator.js), *)
(* looks every minute whether newer settings were stored                   *)
(* (src/appSecrets/watch.js, digest.js), and shuts down on a signal, also  *)
(* on its own when they were.  In standby (src/standby.js) it starts no    *)
(* part that works.                                                        *)
(*                                                                         *)
(* External: the hub appends versions of the settings; Coolify holds the   *)
(* environment of the next start and starts the container again when the   *)
(* process is gone.                                                        *)
(*                                                                         *)
(* Abstracted: what this service reads of a version, scopes 'both' and     *)
(* 'samsara', is one value, compared by its digest; what a poll and a tick *)
(* of the recovery worker do is in other modules; nothing start() awaits   *)
(* can make it fail.                                                       *)
(***************************************************************************)
EXTENDS Faults, Sequences

CONSTANTS
  Deployments,  \* the environments Coolify may start the container with
  Values,       \* what a version may hold for this service
  NoValues,     \* nothing: every value of the version is the hub's own
  Breaking,     \* the values index.js refuses to start with (exit code 78)
  Checks,       \* the checks of the watch that may be in flight at once
  MaxVersions   \* bound: versions the hub stores

NoVersion == 0

ASSUME RuntimeAssumption ==
  /\ \A d \in Deployments :
       /\ d.off \in BOOLEAN /\ d.keyed \in BOOLEAN /\ d.standby \in BOOLEAN
       /\ d.pin \in Nat
  /\ Breaking \subseteq Values \ {NoValues}
  /\ NoValues \in Values
  /\ MaxVersions \in Nat

VARIABLES
  versions,     \* tables app_secret_versions and app_secret_values
  deployment,   \* the environment the next process gets
  env,          \* the environment this process got
  boot,         \* what boot.js remembers of its read
  stage,        \* how far start() has come
  closing,      \* shutdown() has begun
  coordinator,  \* isRunning, and where its cycle is
  worker,       \* the recovery worker's interval is running
  watch,        \* the watch's interval, lastSeen and restarting
  checks,       \* the checks in flight
  tried         \* history: the versions an unpinned start has read

hub     == <<versions, deployment>>
process == <<env, boot, stage, closing, coordinator, worker, watch, checks>>
vars    == <<hub, process, tried, faults>>

\* A version is stored under this service's key or another, which hides what
\* it holds; a value stored under ours opens, or does not.
Saves ==
  {s \in [key : {"ours", "other"}, own : Values, opens : BOOLEAN] :
     s.key = "other" \/ s.own = NoValues => s.own = NoValues /\ s.opens}

Versions == 1..MaxVersions
Newest   == Len(versions)

NotRead == [status |-> "not-run", retryable |-> FALSE, version |-> NoVersion, own |-> NoValues]
Stopped == [running |-> FALSE, at |-> "none"]
Unwatched == [on |-> FALSE, seen |-> NoVersion, restarting |-> FALSE, cause |-> NoVersion]
NoCheck == [at |-> "idle", id |-> NoVersion]

Stages == {"down", "loading", "schema", "listening", "checking", "preflight",
           "standby", "live"}

TypeOK ==
  /\ FaultsTypeOK
  /\ versions \in Seq(Saves) /\ Len(versions) <= MaxVersions
  /\ deployment \in Deployments /\ env \in Deployments
  /\ boot \in [status : {"not-run", "off", "skipped", "failed", "loaded"},
               retryable : BOOLEAN, version : Versions \cup {NoVersion}, own : Values]
  /\ boot.status = "loaded" <=> boot.version # NoVersion
  /\ boot.status # "loaded" => boot.own = NoValues
  /\ boot.retryable => boot.status = "failed"
  /\ stage \in Stages
  /\ closing \in BOOLEAN
  /\ coordinator \in [running : BOOLEAN,
                      at : {"none", "safety", "toSpeeding", "speeding", "toSafety"}]
  /\ worker \in BOOLEAN
  /\ watch \in [on : BOOLEAN, seen : Versions \cup {NoVersion},
                restarting : BOOLEAN, cause : Versions \cup {NoVersion}]
  /\ checks \in [Checks -> [at : {"idle", "latest", "rows"},
                            id : Versions \cup {NoVersion}]]
  /\ tried \in SUBSET Versions

Init ==
  /\ FaultsInit
  /\ versions = <<>>
  /\ deployment \in Deployments /\ env = deployment
  /\ boot = NotRead
  /\ stage = "down" /\ closing = FALSE
  /\ coordinator = Stopped
  /\ worker = FALSE
  /\ watch = Unwatched
  /\ checks = [c \in Checks |-> NoCheck]
  /\ tried = {}

-----------------------------------------------------------------------------
(* The hub and Coolify                                                     *)

\* A save in the hub is a new version.
Save(s) ==
  /\ Newest < MaxVersions
  /\ versions' = Append(versions, s)
  /\ UNCHANGED <<deployment, process, tried, faults>>

\* shutdown(): the coordinator, the worker and the watch stop at once; then
\* Telegram polling and the HTTP server are awaited.  Only the first signal
\* counts.
StoppedCoordinator ==
  [running |-> FALSE,
   at |-> IF coordinator.at \in {"toSpeeding", "toSafety"} THEN "none" ELSE coordinator.at]

ShutDown(w) ==
  IF closing
  THEN watch' = w /\ UNCHANGED <<closing, coordinator, worker>>
  ELSE /\ closing' = TRUE
       /\ coordinator' = StoppedCoordinator
       /\ worker' = FALSE
       /\ watch' = [w EXCEPT !.on = FALSE]

\* The operator changes the environment: the container is told to stop, and
\* the next one gets the new values.
Redeploy(d) ==
  /\ d # deployment
  /\ Fault("redeploy")
  /\ deployment' = d
  /\ IF stage = "down"
     THEN UNCHANGED <<closing, coordinator, worker, watch>>
     ELSE ShutDown(watch)
  /\ UNCHANGED <<versions, env, boot, stage, checks, tried>>

-----------------------------------------------------------------------------
(* boot.js and fetch.js                                                    *)

Loaded(v) ==
  [status |-> "loaded", retryable |-> FALSE, version |-> v, own |-> versions[v].own]

NotLoadedKeepsVersion(status, retryable) ==
  [status |-> status, retryable |-> retryable, version |-> Newest, own |-> NoValues]

NotLoaded(status, retryable) ==
  [status |-> status, retryable |-> retryable, version |-> NoVersion, own |-> NoValues]

\* What loadAppSecrets ends with when the read itself succeeds: the pinned
\* version or the newest one, unless there is nothing to apply, or what is
\* there cannot be opened with this service's key.
Fetched(d) ==
  LET v == IF d.pin # NoVersion THEN d.pin ELSE Newest IN
  IF ~d.keyed \/ v = NoVersion THEN NotLoaded("skipped", FALSE)
  ELSE IF v > Newest \/ versions[v].key # "ours" \/ ~versions[v].opens
       THEN NotLoaded("failed", FALSE)
       ELSE Loaded(v)

\* bootAppSecrets: the read may also fail or never end.
BootOutcome(outcome) ==
  IF deployment.off
  THEN outcome = NotLoaded("off", FALSE) /\ NoFault
  ELSE \/ outcome = Fetched(deployment) /\ NoFault
       \/ deployment.keyed /\ outcome = NotLoaded("failed", TRUE) /\ Fault("fetch")

Tried(outcome) ==
  IF ~deployment.off /\ deployment.keyed /\ deployment.pin = NoVersion
       /\ outcome.status # "skipped" /\ ~outcome.retryable
  THEN tried \cup {Newest} ELSE tried

\* The values that run: the stored ones, or what Coolify set.
Running == boot.own

\* A process starts, reads the stored settings, and refuses to run without a
\* token or with both bots on the same one: then the container starts again.
Boot ==
  /\ stage = "down"
  /\ env' = deployment
  /\ \E outcome \in {NotLoaded("off", FALSE), NotLoaded("failed", TRUE), Fetched(deployment)} :
       /\ BootOutcome(outcome)
       /\ tried' = Tried(outcome)
       /\ IF outcome.own \in Breaking
          THEN UNCHANGED <<boot, stage>>
          ELSE boot' = outcome /\ stage' = "loading"
  /\ UNCHANGED <<hub, closing, coordinator, worker, watch, checks>>

-----------------------------------------------------------------------------
(* start()                                                                 *)

\* store.init, the schema setup of a live copy, the HTTP server: each is
\* awaited before the self checks begin.
NextStage ==
  CASE stage = "loading"   -> IF env.standby THEN "listening" ELSE "schema"
    [] stage = "schema"    -> "listening"
    [] stage = "listening" -> "checking"

StartStep ==
  /\ stage \in {"loading", "schema", "listening"}
  /\ stage' = NextStage
  /\ UNCHANGED <<hub, env, boot, closing, coordinator, worker, watch, checks, tried, faults>>

\* In standby the preflight, every check of which only reads, is the last step.
Preflight ==
  /\ stage = "preflight"
  /\ stage' = "standby"
  /\ UNCHANGED <<hub, env, boot, closing, coordinator, worker, watch, checks, tried, faults>>

ReasonOffAfterAnyFailure ==
  boot.status = "off" \/ env.pin # NoVersion \/ boot.status = "failed" \/ ~env.keyed

ReasonOffWhenRecovering == boot.status = "off" \/ env.pin # NoVersion \/ ~env.keyed

\* Why the watch does nothing: a person is recovering by hand, or what is
\* stored could not be opened.
ReasonOff ==
  \/ boot.status = "off"
  \/ env.pin # NoVersion
  \/ boot.status = "failed" /\ ~boot.retryable
  \/ ~env.keyed

StartedCoordinator ==
  IF coordinator.running THEN coordinator ELSE [running |-> TRUE, at |-> "safety"]

PartsStarted ==
  /\ worker' = TRUE
  /\ coordinator' = StartedCoordinator
  /\ watch' = [Unwatched EXCEPT !.on = ~ReasonOff, !.seen = boot.version]

\* The last synchronous part of start().  It does not ask whether a signal
\* came in the meantime.
FinishStart ==
  /\ stage = "checking"
  /\ IF env.standby
     THEN stage' = "preflight" /\ UNCHANGED <<coordinator, worker, watch>>
     ELSE stage' = "live" /\ PartsStarted
  /\ UNCHANGED <<hub, env, boot, closing, checks, tried, faults>>

-----------------------------------------------------------------------------
(* pollCoordinator.js                                                      *)

CycleContinues(next) == coordinator' = [coordinator EXCEPT !.at = next]

ReturnsUnasked ==
  /\ coordinator.at \in {"safety", "speeding"}
  /\ CycleContinues(IF coordinator.at = "safety" THEN "toSpeeding" ELSE "toSafety")
  /\ UNCHANGED <<hub, env, boot, stage, closing, worker, watch, checks, tried, faults>>

\* A poll returns or throws: the other one is due in 15 seconds, unless the
\* coordinator was stopped meanwhile.
PollReturns ==
  /\ coordinator.at \in {"safety", "speeding"}
  /\ CycleContinues(IF ~coordinator.running THEN "none"
                    ELSE IF coordinator.at = "safety" THEN "toSpeeding" ELSE "toSafety")
  /\ UNCHANGED <<hub, env, boot, stage, closing, worker, watch, checks, tried, faults>>

PollTimer ==
  /\ coordinator.at \in {"toSpeeding", "toSafety"}
  /\ CycleContinues(IF coordinator.at = "toSpeeding" THEN "speeding" ELSE "safety")
  /\ UNCHANGED <<hub, env, boot, stage, closing, worker, watch, checks, tried, faults>>

-----------------------------------------------------------------------------
(* watch.js                                                                *)

CheckGoesOn(c, at, id) == checks' = [checks EXCEPT ![c] = [at |-> at, id |-> id]]
CheckEnds(c) == checks' = [checks EXCEPT ![c] = NoCheck]

\* The interval fires and the newest version's id is asked for.
StartCheck(c) ==
  /\ watch.on /\ ~watch.restarting
  /\ checks[c] = NoCheck
  /\ CheckGoesOn(c, "latest", Newest)
  /\ UNCHANGED <<hub, env, boot, stage, closing, coordinator, worker, watch, tried, faults>>

SeenBeforeRead(c) ==
  /\ checks[c].at = "latest"
  /\ LET id == checks[c].id IN
     IF id \in {NoVersion, watch.seen}
     THEN CheckEnds(c) /\ UNCHANGED watch
     ELSE /\ watch' = [watch EXCEPT !.seen = id]
          /\ IF versions[id].key = "ours" THEN CheckGoesOn(c, "rows", id) ELSE CheckEnds(c)
  /\ UNCHANGED <<hub, env, boot, stage, closing, coordinator, worker, tried, faults>>

\* The id is answered: nothing new, a version under another key, or rows to
\* ask for.
LatestAnswered(c) ==
  /\ checks[c].at = "latest"
  /\ LET id == checks[c].id IN
     IF id \in {NoVersion, watch.seen}
     THEN CheckEnds(c) /\ UNCHANGED watch
     ELSE IF versions[id].key = "ours"
          THEN CheckGoesOn(c, "rows", id) /\ UNCHANGED watch
          ELSE CheckEnds(c) /\ watch' = [watch EXCEPT !.seen = id]
  /\ UNCHANGED <<hub, env, boot, stage, closing, coordinator, worker, tried, faults>>

\* This service's rows of the version are answered: when their digest is not
\* the one of the start, the process tells itself to stop.
RowsAnswered(c) ==
  /\ checks[c].at = "rows"
  /\ CheckEnds(c)
  /\ LET id == checks[c].id
         seen == [watch EXCEPT !.seen = id] IN
     IF versions[id].own = Running
     THEN watch' = seen /\ UNCHANGED <<closing, coordinator, worker>>
     ELSE ShutDown([seen EXCEPT !.restarting = TRUE, !.cause = id])
  /\ UNCHANGED <<hub, env, boot, stage, tried, faults>>

\* Either query fails: nothing is marked seen.
CheckFails(c) ==
  /\ checks[c] # NoCheck
  /\ Fault("dbRead")
  /\ CheckEnds(c)
  /\ UNCHANGED <<hub, env, boot, stage, closing, coordinator, worker, watch, tried>>

-----------------------------------------------------------------------------
(* The end of a process                                                    *)

ProcessGone ==
  /\ boot' = NotRead
  /\ stage' = "down" /\ closing' = FALSE
  /\ coordinator' = Stopped
  /\ worker' = FALSE
  /\ watch' = Unwatched
  /\ checks' = [c \in Checks |-> NoCheck]
  /\ UNCHANGED <<hub, env, tried>>

Exit  == closing /\ ProcessGone /\ NoFault
Crash == stage # "down" /\ Fault("crash") /\ ProcessGone

StartUp == Boot \/ StartStep \/ FinishStart \/ Preflight

Next ==
  \/ \E s \in Saves : Save(s)
  \/ \E d \in Deployments : Redeploy(d)
  \/ Boot \/ StartStep \/ FinishStart \/ Preflight
  \/ PollReturns \/ PollTimer
  \/ \E c \in Checks : StartCheck(c) \/ LatestAnswered(c) \/ RowsAnswered(c) \/ CheckFails(c)
  \/ Exit \/ Crash

Spec == Init /\ [][Next]_vars

\* Docker starts the container again, awaited calls are answered, the watch's
\* interval fires, and a shutdown ends.  Nothing obliges anyone to save.
Fairness ==
  /\ WF_vars(StartUp)
  /\ WF_vars(Exit)
  /\ \A c \in Checks : WF_vars(StartCheck(c)) /\ WF_vars(LatestAnswered(c) \/ RowsAnswered(c))

FairSpec == Spec /\ Fairness

-----------------------------------------------------------------------------
(* Properties                                                              *)

\* No part that works runs in standby, where the database is only read
\* (standby.js), and none runs before the schema setup has been awaited.
QuietUnlessLive ==
  /\ env.standby => stage \notin {"schema", "live"}
  /\ coordinator # Stopped \/ worker \/ watch.on => ~env.standby /\ stage = "live"

\* A running coordinator has a poll in flight or a timer armed, so polling
\* never dies silently; a stopped one has no timer left that would poll again.
CycleAlive ==
  /\ coordinator.running => coordinator.at # "none"
  /\ ~coordinator.running => coordinator.at \notin {"toSpeeding", "toSafety"}

Watching == stage = "live" /\ watch.on

\* The watch never takes a version for seen that it has not compared: values
\* of this service that differ from the running ones are still to be noticed,
\* or the process is on its way out.
NothingMissed ==
  (/\ Watching /\ Newest # NoVersion
   /\ versions[Newest].key = "ours" /\ versions[Newest].own # Running)
  => watch.seen # Newest \/ watch.restarting

\* The watch restarts the process for a version no start has read before, so
\* restarts cannot go round in a loop; after a start whose read failed it may
\* restart for one an earlier process had read.
NoRestartLoop ==
  watch.restarting => boot.retryable \/ watch.cause \notin tried

\* What may keep the newest settings from running for ever.
Excused ==
  \/ deployment.off \/ ~deployment.keyed \/ deployment.pin # NoVersion
  \/ deployment.standby
  \/ Newest = NoVersion
  \/ versions[Newest].key = "other"
  \/ versions[Newest].own \in Breaking
  \/ boot.status = "failed" /\ ~boot.retryable

\* Once the hub stops saving, the service ends up running with the newest
\* settings, and stays up, unless a person is recovering by hand, or the
\* settings cannot be opened or started with.
NewestValuesRun ==
  <>[](Excused \/ (stage = "live" /\ Running = versions[Newest].own))
=============================================================================
