--------------------------- MODULE Runtime_proofs ---------------------------
(***************************************************************************)
(* What holds of every life of the process, for any environments, values,  *)
(* checks in flight, versions and faults: standby stays quiet, the polling *)
(* cycle never dies, no newer settings are missed, and the restarts for    *)
(* them come to an end.                                                    *)
(***************************************************************************)
EXTENDS Runtime, SequenceTheorems, TLAPS

LEMMA FaultType ==
  ASSUME FaultsTypeOK, NEW kind, Fault(kind) \/ NoFault
  PROVE  FaultsTypeOK'
  BY FaultsAssumption DEF FaultsTypeOK, Fault, NoFault

-----------------------------------------------------------------------------
(* Types                                                                   *)

Boots ==
  [status : {"not-run", "off", "skipped", "failed", "loaded"},
   retryable : BOOLEAN, version : Versions \cup {NoVersion}, own : Values]

BootTyped(b) ==
  /\ b \in Boots
  /\ b.status = "loaded" <=> b.version # NoVersion
  /\ b.status # "loaded" => b.own = NoValues
  /\ b.retryable => b.status = "failed"

Coordinators ==
  [running : BOOLEAN, at : {"none", "safety", "toSpeeding", "speeding", "toSafety"}]

Watches ==
  [on : BOOLEAN, seen : Versions \cup {NoVersion}, restarting : BOOLEAN,
   cause : Versions \cup {NoVersion}]

CheckStates == [at : {"idle", "latest", "rows"}, id : Versions \cup {NoVersion}]

HubTyped ==
  /\ versions \in Seq(Saves) /\ Len(versions) <= MaxVersions /\ deployment \in Deployments
PartsTyped ==
  /\ coordinator \in Coordinators /\ worker \in BOOLEAN /\ closing \in BOOLEAN
  /\ watch \in Watches
ProcessTyped ==
  /\ env \in Deployments /\ BootTyped(boot) /\ stage \in Stages
  /\ checks \in [Checks -> CheckStates]

LEMMA TypeParts ==
  /\ TypeOK => FaultsTypeOK /\ HubTyped /\ PartsTyped /\ ProcessTyped /\ tried \in SUBSET Versions
  /\ FaultsTypeOK' /\ HubTyped' /\ PartsTyped' /\ ProcessTyped' /\ tried' \in SUBSET Versions
       => TypeOK'
  BY DEF TypeOK, HubTyped, PartsTyped, ProcessTyped, BootTyped, Boots, Coordinators, Watches,
         CheckStates

LEMMA Constants ==
  /\ NoVersion \in Versions \cup {NoVersion} /\ NoVersion \notin Versions
  /\ Stopped \in Coordinators /\ Unwatched \in Watches /\ NoCheck \in CheckStates
  /\ BootTyped(NotRead)
<1>1. NoVersion \notin Versions
  BY RuntimeAssumption DEF NoVersion, Versions
<1> QED
  BY <1>1, RuntimeAssumption
  DEF Stopped, Coordinators, Unwatched, Watches, NoCheck, CheckStates, BootTyped, Boots, NotRead

LEMMA NotLoadedType ==
  ASSUME NEW status \in {"off", "skipped", "failed"}, NEW retryable \in BOOLEAN,
         retryable => status = "failed"
  PROVE  /\ BootTyped(NotLoaded(status, retryable))
         /\ NotLoaded(status, retryable).version = 0
         /\ NotLoaded(status, retryable).status = status
         /\ NotLoaded(status, retryable).retryable = retryable
  BY RuntimeAssumption DEF BootTyped, Boots, NotLoaded, NoVersion

LEMMA NewestType ==
  ASSUME HubTyped
  PROVE  /\ Newest \in Nat /\ Newest <= MaxVersions /\ MaxVersions \in Nat
         /\ \A v \in 1..Newest : v \in Versions /\ versions[v] \in Saves
         /\ Newest \in Versions \cup {NoVersion}
  BY RuntimeAssumption, LenProperties, ElementOfSeq DEF HubTyped, Newest, Versions, NoVersion

LEMMA SavesType ==
  ASSUME NEW s \in Saves
  PROVE  /\ s.key \in {"ours", "other"} /\ s.own \in Values /\ s.opens \in BOOLEAN
  BY DEF Saves

LEMMA InitType == Init => TypeOK
<1> SUFFICES ASSUME Init PROVE TypeOK
  OBVIOUS
<1>1. <<>> \in Seq(Saves) /\ Len(<<>>) <= MaxVersions
  BY RuntimeAssumption, EmptySeq
<1>2. FaultsTypeOK
  BY FaultsAssumption DEF Init, FaultsInit, FaultsTypeOK
<1>3. HubTyped /\ env \in Deployments /\ tried \in SUBSET Versions
  BY <1>1 DEF Init, HubTyped
<1>4. BootTyped(boot) /\ stage \in Stages
  BY Constants DEF Init, Stages
<1>5. coordinator \in Coordinators /\ worker \in BOOLEAN /\ closing \in BOOLEAN /\ watch \in Watches
  BY Constants DEF Init
<1>6. checks \in [Checks -> CheckStates]
  BY Constants DEF Init
<1> QED
  BY <1>2, <1>3, <1>4, <1>5, <1>6
  DEF TypeOK, HubTyped, BootTyped, Boots, Coordinators, Watches, CheckStates

\* What a start can read: nothing it may use, or a version that is there.
LEMMA FetchedType ==
  ASSUME HubTyped, NEW d \in Deployments
  PROVE  /\ BootTyped(Fetched(d))
         /\ Fetched(d).version \in 0..Newest
         /\ Fetched(d).version # NoVersion => Fetched(d).own = versions[Fetched(d).version].own
         /\ ~Fetched(d).retryable
         /\ d.keyed /\ d.pin = NoVersion =>
              \/ Newest = NoVersion /\ Fetched(d).status = "skipped"
              \/ Newest # NoVersion /\ Fetched(d).status = "failed"
              \/ Newest # NoVersion /\ Fetched(d).status = "loaded" /\ Fetched(d).version = Newest
<1> DEFINE v == IF d.pin # NoVersion THEN d.pin ELSE Newest
<1>1. v \in Nat /\ d.keyed \in BOOLEAN /\ d.pin \in Nat
  BY NewestType, RuntimeAssumption
<1>2. CASE ~d.keyed \/ v = NoVersion
  <2>1. Fetched(d) = NotLoaded("skipped", FALSE)
    BY <1>2 DEF Fetched
  <2>2. /\ BootTyped(Fetched(d)) /\ Fetched(d).version = 0 /\ Fetched(d).status = "skipped"
        /\ Fetched(d).retryable = FALSE
    BY <2>1, NotLoadedType
  <2> QED
    BY <1>2, <2>2, NewestType DEF NoVersion
<1>3. CASE d.keyed /\ v # NoVersion /\ (v > Newest \/ versions[v].key # "ours" \/ ~versions[v].opens)
  <2>1. Fetched(d) = NotLoaded("failed", FALSE)
    BY <1>3 DEF Fetched
  <2>2. /\ BootTyped(Fetched(d)) /\ Fetched(d).version = 0 /\ Fetched(d).status = "failed"
        /\ Fetched(d).retryable = FALSE
    BY <2>1, NotLoadedType
  <2>3. v = Newest \/ d.pin # NoVersion
    OBVIOUS
  <2> HIDE DEF v
  <2> QED
    BY <1>3, <2>2, <2>3, NewestType DEF NoVersion
<1>4. CASE d.keyed /\ v # NoVersion
             /\ ~(v > Newest \/ versions[v].key # "ours" \/ ~versions[v].opens)
  <2>1. Fetched(d) = Loaded(v)
    BY <1>4 DEF Fetched
  <2>2. v \in 1..Newest
    BY <1>1, <1>4, NewestType DEF NoVersion
  <2>3. v \in Versions /\ versions[v].own \in Values
    BY <2>2, NewestType, SavesType
  <2>4. d.pin = NoVersion => v = Newest
    OBVIOUS
  <2> HIDE DEF v
  <2>5. BootTyped(Loaded(v))
    BY <2>3, Constants DEF Loaded, BootTyped, Boots
  <2> QED
    BY <1>4, <2>1, <2>2, <2>4, <2>5 DEF Loaded, NoVersion
<1> QED
  BY <1>2, <1>3, <1>4

LEMMA OutcomeType ==
  ASSUME HubTyped, deployment \in Deployments, NEW outcome, BootOutcome(outcome)
  PROVE  /\ BootTyped(outcome)
         /\ outcome.version \in 0..Newest
         /\ outcome.version # NoVersion => outcome.own = versions[outcome.version].own
         /\ \/ deployment.off /\ outcome.status = "off"
            \/ ~deployment.off /\ outcome = Fetched(deployment)
            \/ ~deployment.off /\ outcome.status = "failed" /\ outcome.retryable
<1>1. CASE deployment.off
  <2>1. outcome = NotLoaded("off", FALSE)
    BY <1>1 DEF BootOutcome
  <2>2. BootTyped(outcome) /\ outcome.version = 0 /\ outcome.status = "off"
    BY <2>1, NotLoadedType
  <2> QED
    BY <1>1, <2>2, NewestType DEF NoVersion
<1>2. CASE ~deployment.off
  <2>1. CASE outcome = Fetched(deployment)
    BY <1>2, <2>1, FetchedType
  <2>2. CASE outcome = NotLoaded("failed", TRUE)
    <3>1. /\ BootTyped(outcome) /\ outcome.version = 0 /\ outcome.status = "failed"
          /\ outcome.retryable
      BY <2>2, NotLoadedType
    <3> QED
      BY <1>2, <3>1, NewestType DEF NoVersion
  <2> QED
    BY <1>2, <2>1, <2>2 DEF BootOutcome
<1> QED
  BY <1>1, <1>2

\* Only a start that got an answer about the newest version has tried it.
LEMMA TriedType ==
  ASSUME HubTyped, deployment \in Deployments, NEW outcome, BootOutcome(outcome)
  PROVE  Tried(outcome) \subseteq tried \cup (1..Newest)
<1>1. CASE /\ ~deployment.off /\ deployment.keyed /\ deployment.pin = NoVersion
           /\ outcome.status # "skipped" /\ ~outcome.retryable
  <2>1. outcome = Fetched(deployment)
    BY <1>1, OutcomeType
  <2>2. Newest \in 1..Newest
    BY <1>1, <2>1, FetchedType, NewestType DEF NoVersion
  <2> QED
    BY <1>1, <2>2 DEF Tried
<1>2. CASE ~(/\ ~deployment.off /\ deployment.keyed /\ deployment.pin = NoVersion
             /\ outcome.status # "skipped" /\ ~outcome.retryable)
  BY <1>2 DEF Tried
<1> QED
  BY <1>1, <1>2

LEMMA CoordinatorType ==
  ASSUME coordinator \in Coordinators
  PROVE  /\ StoppedCoordinator \in Coordinators /\ StartedCoordinator \in Coordinators
         /\ StoppedCoordinator.at \notin {"toSpeeding", "toSafety"} /\ ~StoppedCoordinator.running
         /\ coordinator = Stopped => StoppedCoordinator = Stopped
         /\ StartedCoordinator.running
         /\ StartedCoordinator.at = "none" => coordinator.running /\ coordinator.at = "none"
<1>1. /\ coordinator.running \in BOOLEAN
      /\ coordinator.at \in {"none", "safety", "toSpeeding", "speeding", "toSafety"}
  BY DEF Coordinators
<1>2. StoppedCoordinator \in Coordinators
  BY <1>1 DEF StoppedCoordinator, Coordinators
<1>3. StartedCoordinator \in Coordinators
  BY DEF StartedCoordinator, Coordinators
<1>4. coordinator = Stopped => StoppedCoordinator = Stopped
  BY DEF StoppedCoordinator, Stopped
<1>5. StoppedCoordinator.at \notin {"toSpeeding", "toSafety"} /\ ~StoppedCoordinator.running
  BY <1>1 DEF StoppedCoordinator
<1>6. /\ StartedCoordinator.running
      /\ StartedCoordinator.at = "none" => coordinator.running /\ coordinator.at = "none"
  BY <1>1 DEF StartedCoordinator
<1> QED
  BY <1>2, <1>3, <1>4, <1>5, <1>6

LEMMA ShutDownType ==
  ASSUME PartsTyped, NEW w \in Watches, ShutDown(w)
  PROVE  /\ PartsTyped'
         /\ watch'.seen = w.seen /\ watch'.restarting = w.restarting /\ watch'.cause = w.cause
         /\ watch'.on => w.on
<1>1. [w EXCEPT !.on = FALSE] \in Watches
  BY DEF Watches
<1>2. PartsTyped'
  BY <1>1, CoordinatorType DEF PartsTyped, ShutDown
<1>3. watch' = w \/ watch' = [w EXCEPT !.on = FALSE]
  BY DEF ShutDown
<1> QED
  BY <1>2, <1>3 DEF Watches

LEMMA FinishedType ==
  ASSUME PartsTyped, BootTyped(boot), PartsStarted
  PROVE  /\ coordinator' \in Coordinators /\ worker' \in BOOLEAN /\ watch' \in Watches
         /\ watch'.seen = boot.version /\ ~watch'.restarting
         /\ watch'.on => ~ReasonOff
<1>1. watch' = [on |-> ~ReasonOff, seen |-> boot.version, restarting |-> FALSE, cause |-> NoVersion]
  BY DEF PartsStarted, Unwatched
<1>2. boot.version \in Versions \cup {NoVersion}
  BY DEF BootTyped, Boots
<1>3. (~ReasonOff) \in BOOLEAN
  BY DEF ReasonOff
<1>4. watch' \in Watches
  BY <1>1, <1>2, <1>3 DEF Watches
<1>5. /\ watch'.on = (~ReasonOff)
      /\ watch'.seen = boot.version /\ watch'.restarting = FALSE
  BY <1>1
<1>6. watch'.on => ~ReasonOff
  BY <1>3, <1>5
<1> QED
  BY <1>4, <1>5, <1>6, CoordinatorType DEF PartsStarted, PartsTyped

\* What the checks in flight may become.
LEMMA CheckMoves ==
  ASSUME ProcessTyped, NEW c \in Checks, NEW at \in {"latest", "rows"},
         NEW id \in Versions \cup {NoVersion}
  PROVE  /\ CheckGoesOn(c, at, id) =>
              /\ checks' \in [Checks -> CheckStates] /\ checks'[c].id = id
              /\ \A d \in Checks \ {c} : checks'[d] = checks[d]
         /\ CheckEnds(c) =>
              /\ checks' \in [Checks -> CheckStates] /\ checks'[c] = NoCheck
              /\ \A d \in Checks \ {c} : checks'[d] = checks[d]
<1>1. [at |-> at, id |-> id] \in CheckStates
  BY DEF CheckStates
<1> QED
  BY <1>1, Constants DEF ProcessTyped, CheckGoesOn, CheckEnds

LEMMA GoneType ==
  ASSUME HubTyped, ProcessTyped, ProcessGone
  PROVE  /\ HubTyped' /\ PartsTyped' /\ ProcessTyped' /\ tried' = tried
  BY Constants DEF ProcessGone, hub, HubTyped, PartsTyped, ProcessTyped, Stages

LEMMA NextType == TypeOK /\ [Next]_vars => TypeOK'
<1> SUFFICES ASSUME TypeOK, [Next]_vars
             PROVE  TypeOK'
  OBVIOUS
<1> USE DEF hub
<1>0. /\ FaultsTypeOK /\ HubTyped /\ PartsTyped /\ ProcessTyped /\ tried \in SUBSET Versions
  BY TypeParts
<1>a. (1..Newest) \subseteq Versions
  BY <1>0, NewestType
<1>1. ASSUME NEW s \in Saves, Save(s)
      PROVE  TypeOK'
  <2>1. HubTyped'
    <3>1. versions' \in Seq(Saves) /\ Len(versions') = Len(versions) + 1
      BY <1>0, <1>1, AppendProperties DEF Save, HubTyped
    <3> QED
      BY <1>0, <1>1, <3>1, NewestType DEF Save, HubTyped, Newest
  <2> QED
    BY <1>0, <1>1, <2>1, TypeParts
    DEF Save, process, FaultsTypeOK, PartsTyped, ProcessTyped, BootTyped
<1>2. ASSUME NEW d \in Deployments, Redeploy(d)
      PROVE  TypeOK'
  <2>1. PartsTyped'
    <3>1. CASE stage = "down"
      BY <1>0, <1>2, <3>1 DEF Redeploy, PartsTyped
    <3>2. CASE stage # "down"
      BY <1>0, <1>2, <3>2, ShutDownType DEF Redeploy, PartsTyped
    <3> QED
      BY <3>1, <3>2
  <2>2. FaultsTypeOK' /\ HubTyped' /\ tried' = tried
    BY <1>0, <1>2, FaultType DEF Redeploy, HubTyped
  <2>3. ProcessTyped'
    BY <1>0, <1>2 DEF Redeploy, ProcessTyped, BootTyped
  <2> QED
    BY <1>0, <2>1, <2>2, <2>3, TypeParts
<1>3. CASE Boot
  <2>1. PICK outcome \in {NotLoaded("off", FALSE), NotLoaded("failed", TRUE), Fetched(deployment)} :
          /\ BootOutcome(outcome)
          /\ tried' = Tried(outcome)
          /\ IF outcome.own \in Breaking
             THEN UNCHANGED <<boot, stage>>
             ELSE boot' = outcome /\ stage' = "loading"
    BY <1>3 DEF Boot
  <2>2. BootTyped(outcome) /\ tried' \in SUBSET Versions
    BY <1>0, <1>a, <2>1, OutcomeType, TriedType DEF HubTyped
  <2>3. FaultsTypeOK'
    BY <1>0, <2>1, FaultType DEF BootOutcome
  <2>4. ProcessTyped'
    BY <1>0, <1>3, <2>1, <2>2 DEF Boot, HubTyped, ProcessTyped, Stages, BootTyped
  <2> QED
    BY <1>0, <1>3, <2>2, <2>3, <2>4, TypeParts DEF Boot, HubTyped, PartsTyped
<1>4. CASE StartStep
  <2>1. NextStage \in Stages
    BY <1>4 DEF StartStep, NextStage, Stages
  <2> QED
    BY <1>0, <1>4, <2>1, TypeParts
    DEF StartStep, FaultsTypeOK, HubTyped, PartsTyped, ProcessTyped, BootTyped
<1>5. CASE FinishStart
  <2>1. PartsTyped'
    <3>1. CASE env.standby
      BY <1>0, <1>5, <3>1 DEF FinishStart, PartsTyped
    <3>2. CASE ~env.standby
      BY <1>0, <1>5, <3>2, FinishedType DEF FinishStart, PartsTyped, ProcessTyped
    <3> QED
      BY <3>1, <3>2
  <2>2. stage' \in Stages
    BY <1>5 DEF FinishStart, Stages
  <2> QED
    BY <1>0, <1>5, <2>1, <2>2, TypeParts
    DEF FinishStart, FaultsTypeOK, HubTyped, ProcessTyped, BootTyped
<1>6. CASE Preflight
  BY <1>0, <1>6, TypeParts
  DEF Preflight, FaultsTypeOK, HubTyped, PartsTyped, ProcessTyped, BootTyped, Stages
<1>7. CASE PollReturns
  <2>1. coordinator' \in Coordinators
    BY <1>0, <1>7 DEF PollReturns, CycleContinues, PartsTyped, Coordinators
  <2> QED
    BY <1>0, <1>7, <2>1, TypeParts
    DEF PollReturns, FaultsTypeOK, HubTyped, PartsTyped, ProcessTyped, BootTyped
<1>8. CASE PollTimer
  <2>1. coordinator' \in Coordinators
    BY <1>0, <1>8 DEF PollTimer, CycleContinues, PartsTyped, Coordinators
  <2> QED
    BY <1>0, <1>8, <2>1, TypeParts
    DEF PollTimer, FaultsTypeOK, HubTyped, PartsTyped, ProcessTyped, BootTyped
<1>9. ASSUME NEW c \in Checks, StartCheck(c)
      PROVE  TypeOK'
  <2>1. checks' \in [Checks -> CheckStates]
    BY <1>0, <1>9, CheckMoves, NewestType DEF StartCheck
  <2> QED
    BY <1>0, <1>9, <2>1, TypeParts
    DEF StartCheck, FaultsTypeOK, HubTyped, PartsTyped, ProcessTyped, BootTyped
<1>10. ASSUME NEW c \in Checks, LatestAnswered(c)
       PROVE  TypeOK'
  <2>1. checks[c].id \in Versions \cup {NoVersion}
    BY <1>0 DEF ProcessTyped, CheckStates
  <2>2. checks' \in [Checks -> CheckStates] /\ watch' \in Watches
    <3>1. [watch EXCEPT !.seen = checks[c].id] \in Watches
      BY <1>0, <2>1 DEF PartsTyped, Watches
    <3> QED
      BY <1>0, <1>10, <2>1, <3>1, CheckMoves DEF LatestAnswered, PartsTyped
  <2> QED
    BY <1>0, <1>10, <2>2, TypeParts
    DEF LatestAnswered, FaultsTypeOK, HubTyped, PartsTyped, ProcessTyped, BootTyped
<1>11. ASSUME NEW c \in Checks, RowsAnswered(c)
       PROVE  TypeOK'
  <2> DEFINE id   == checks[c].id
             seen == [watch EXCEPT !.seen = id]
  <2>1. id \in Versions \cup {NoVersion}
    BY <1>0 DEF ProcessTyped, CheckStates
  <2>2. seen \in Watches /\ [seen EXCEPT !.restarting = TRUE, !.cause = id] \in Watches
    BY <1>0, <2>1 DEF PartsTyped, Watches
  <2>3. PartsTyped'
    <3>1. CASE versions[id].own = Running
      BY <1>0, <1>11, <2>2, <3>1 DEF RowsAnswered, PartsTyped
    <3>2. CASE versions[id].own # Running
      BY <1>0, <1>11, <2>2, <3>2, ShutDownType DEF RowsAnswered
    <3> QED
      BY <3>1, <3>2
  <2>4. checks' \in [Checks -> CheckStates]
    BY <1>0, <1>11, CheckMoves, Constants DEF RowsAnswered
  <2> QED
    BY <1>0, <1>11, <2>3, <2>4, TypeParts
    DEF RowsAnswered, FaultsTypeOK, HubTyped, ProcessTyped, BootTyped
<1>12. ASSUME NEW c \in Checks, CheckFails(c)
       PROVE  TypeOK'
  <2>1. checks' \in [Checks -> CheckStates] /\ FaultsTypeOK'
    BY <1>0, <1>12, CheckMoves, Constants, FaultType DEF CheckFails
  <2> QED
    BY <1>0, <1>12, <2>1, TypeParts
    DEF CheckFails, HubTyped, PartsTyped, ProcessTyped, BootTyped
<1>13. CASE Exit
  BY <1>0, <1>13, GoneType, FaultType, TypeParts DEF Exit
<1>14. CASE Crash
  BY <1>0, <1>14, GoneType, FaultType, TypeParts DEF Crash
<1>15. CASE UNCHANGED vars
  BY <1>0, <1>15, TypeParts
  DEF vars, process, FaultsTypeOK, HubTyped, PartsTyped, ProcessTyped, BootTyped
<1> QED
  BY <1>1, <1>2, <1>3, <1>4, <1>5, <1>6, <1>7, <1>8, <1>9, <1>10, <1>11, <1>12, <1>13, <1>14, <1>15
  DEF Next

\* Every variable of the process keeps its type: what boot.js remembers of its
\* read hangs together, and the versions are as many as the bound allows.
THEOREM TypeCorrect == Spec => []TypeOK
  BY InitType, NextType, PTL DEF Spec

-----------------------------------------------------------------------------
(* The polling cycle, and what is quiet when                               *)

LEMMA ReturnedCycle ==
  ASSUME coordinator \in Coordinators, PollReturns
  PROVE  /\ coordinator'.running = coordinator.running
         /\ coordinator'.at = IF ~coordinator.running THEN "none"
                              ELSE IF coordinator.at = "safety" THEN "toSpeeding" ELSE "toSafety"
  BY DEF PollReturns, CycleContinues, Coordinators

LEMMA TimedCycle ==
  ASSUME coordinator \in Coordinators, PollTimer
  PROVE  /\ coordinator'.running = coordinator.running
         /\ coordinator'.at = IF coordinator.at = "toSpeeding" THEN "speeding" ELSE "safety"
  BY DEF PollTimer, CycleContinues, Coordinators

\* The coordinator stops, starts, moves through its cycle, or stays as it was.
LEMMA CoordinatorMoves ==
  ASSUME TypeOK, [Next]_vars
  PROVE  \/ coordinator' = coordinator
         \/ coordinator' = StoppedCoordinator
         \/ coordinator' = Stopped
         \/ coordinator' = StartedCoordinator /\ stage' = "live" /\ env' = env /\ ~env.standby
         \/ PollReturns \/ PollTimer
<1>1. ASSUME NEW s \in Saves, Save(s) PROVE coordinator' = coordinator
  BY <1>1 DEF Save, process
<1>2. ASSUME NEW d \in Deployments, Redeploy(d)
      PROVE  coordinator' = coordinator \/ coordinator' = StoppedCoordinator
  BY <1>2 DEF Redeploy, ShutDown
<1>3. CASE Boot \/ StartStep \/ Preflight
  BY <1>3 DEF Boot, StartStep, Preflight
<1>4. CASE FinishStart
  BY <1>4 DEF FinishStart, PartsStarted
<1>5. ASSUME NEW c \in Checks, StartCheck(c) \/ LatestAnswered(c) \/ CheckFails(c)
      PROVE  coordinator' = coordinator
  BY <1>5 DEF StartCheck, LatestAnswered, CheckFails
<1>6. ASSUME NEW c \in Checks, RowsAnswered(c)
      PROVE  coordinator' = coordinator \/ coordinator' = StoppedCoordinator
  BY <1>6 DEF RowsAnswered, ShutDown
<1>7. CASE Exit \/ Crash
  BY <1>7 DEF Exit, Crash, ProcessGone
<1>8. CASE UNCHANGED vars
  BY <1>8 DEF vars, process
<1> QED
  BY <1>1, <1>2, <1>3, <1>4, <1>5, <1>6, <1>7, <1>8 DEF Next

LEMMA NextCycle == TypeOK /\ CycleAlive /\ [Next]_vars => CycleAlive'
<1> SUFFICES ASSUME TypeOK, CycleAlive, [Next]_vars
             PROVE  CycleAlive'
  OBVIOUS
<1>0. coordinator \in Coordinators
  BY TypeParts DEF PartsTyped
<1>1. CASE coordinator' = coordinator
  BY <1>1 DEF CycleAlive
<1>2. CASE coordinator' = StoppedCoordinator
  BY <1>0, <1>2, CoordinatorType DEF CycleAlive
<1>3. CASE coordinator' = Stopped
  BY <1>3 DEF CycleAlive, Stopped
<1>4. CASE coordinator' = StartedCoordinator
  BY <1>0, <1>4, CoordinatorType DEF CycleAlive
<1>5. CASE PollReturns
  BY <1>0, <1>5, ReturnedCycle DEF CycleAlive, PollReturns
<1>6. CASE PollTimer
  BY <1>0, <1>6, TimedCycle DEF CycleAlive, PollTimer
<1> QED
  BY <1>1, <1>2, <1>3, <1>4, <1>5, <1>6, CoordinatorMoves

\* While the coordinator runs, a poll is in flight or a timer armed, and once it
\* is stopped no timer will poll again, however stops, polls and restarts meet.
THEOREM CycleNeverDies == Spec => []CycleAlive
<1>1. Init => CycleAlive
  BY DEF Init, CycleAlive, Stopped
<1>2. TypeOK /\ CycleAlive /\ [Next]_vars => CycleAlive'
  BY NextCycle
<1> QED
  BY <1>1, <1>2, TypeCorrect, PTL DEF Spec

\* A step that starts nothing.
LEMMA StillQuiet ==
  ASSUME TypeOK, QuietUnlessLive, UNCHANGED <<env, stage>>,
         coordinator' = coordinator \/ coordinator' = StoppedCoordinator,
         worker' => worker, watch'.on => watch.on
  PROVE  QuietUnlessLive'
<1>1. coordinator' # Stopped => coordinator # Stopped
  BY CoordinatorType, TypeParts DEF PartsTyped
<1> QED
  BY <1>1 DEF QuietUnlessLive

LEMMA ShutDownQuiet ==
  ASSUME TypeOK, NEW w \in Watches, w.on = watch.on, ShutDown(w)
  PROVE  /\ coordinator' = coordinator \/ coordinator' = StoppedCoordinator
         /\ worker' => worker
         /\ watch'.on => watch.on
<1>1. watch'.on => w.on
  BY ShutDownType, TypeParts
<1> QED
  BY <1>1 DEF ShutDown

LEMMA NextQuiet == TypeOK /\ QuietUnlessLive /\ [Next]_vars => QuietUnlessLive'
<1> SUFFICES ASSUME TypeOK, QuietUnlessLive, [Next]_vars
             PROVE  QuietUnlessLive'
  OBVIOUS
<1>0. FaultsTypeOK /\ HubTyped /\ PartsTyped /\ ProcessTyped
  BY TypeParts
<1>1. ASSUME NEW s \in Saves, Save(s) PROVE QuietUnlessLive'
  BY <1>1 DEF Save, process, QuietUnlessLive
<1>2. ASSUME NEW d \in Deployments, Redeploy(d) PROVE QuietUnlessLive'
  <2>1. CASE stage = "down"
    BY <1>2, <2>1, StillQuiet DEF Redeploy
  <2>2. CASE stage # "down"
    BY <1>0, <1>2, <2>2, ShutDownQuiet, StillQuiet DEF Redeploy, PartsTyped
  <2> QED
    BY <2>1, <2>2
<1>3. CASE Boot
  <2>1. stage = "down" /\ (stage' = "down" \/ stage' = "loading")
    BY <1>3 DEF Boot
  <2> QED
    BY <1>3, <2>1 DEF Boot, QuietUnlessLive
<1>4. CASE StartStep
  BY <1>4 DEF StartStep, NextStage, QuietUnlessLive
<1>5. CASE FinishStart
  BY <1>5 DEF FinishStart, QuietUnlessLive
<1>6. CASE Preflight
  BY <1>6 DEF Preflight, QuietUnlessLive
<1>7. CASE PollReturns \/ PollTimer
  <2>1. coordinator # Stopped
    BY <1>7 DEF PollReturns, PollTimer, Stopped
  <2> QED
    BY <1>7, <2>1 DEF PollReturns, PollTimer, QuietUnlessLive
<1>8. ASSUME NEW c \in Checks, StartCheck(c) \/ CheckFails(c)
      PROVE  QuietUnlessLive'
  BY <1>8 DEF StartCheck, CheckFails, QuietUnlessLive
<1>9. ASSUME NEW c \in Checks, LatestAnswered(c)
      PROVE  QuietUnlessLive'
  <2>1. watch'.on = watch.on
    BY <1>0, <1>9 DEF LatestAnswered, PartsTyped, Watches
  <2> QED
    BY <1>9, <2>1 DEF LatestAnswered, QuietUnlessLive
<1>10. ASSUME NEW c \in Checks, RowsAnswered(c)
       PROVE  QuietUnlessLive'
  <2> DEFINE id   == checks[c].id
             seen == [watch EXCEPT !.seen = id]
             last == [seen EXCEPT !.restarting = TRUE, !.cause = id]
  <2>1. id \in Versions \cup {NoVersion}
    BY <1>0 DEF ProcessTyped, CheckStates
  <2>2. seen.on = watch.on /\ last.on = watch.on /\ last \in Watches
    BY <1>0, <2>1 DEF PartsTyped, Watches
  <2>3. CASE versions[id].own = Running
    BY <1>10, <2>2, <2>3, StillQuiet DEF RowsAnswered
  <2>4. CASE versions[id].own # Running
    <3>1. ShutDown(last)
      BY <1>10, <2>4 DEF RowsAnswered
    <3> QED
      BY <1>10, <2>2, <3>1, ShutDownQuiet, StillQuiet DEF RowsAnswered
  <2> QED
    BY <2>3, <2>4
<1>11. CASE Exit \/ Crash
  <2>1. ProcessGone
    BY <1>11 DEF Exit, Crash
  <2>2. stage' = "down" /\ coordinator' = Stopped /\ worker' = FALSE /\ watch' = Unwatched
    BY <2>1 DEF ProcessGone
  <2> QED
    BY <2>2 DEF QuietUnlessLive, Unwatched
<1>12. CASE UNCHANGED vars
  BY <1>12 DEF vars, process, QuietUnlessLive
<1> QED
  BY <1>1, <1>2, <1>3, <1>4, <1>5, <1>6, <1>7, <1>8, <1>9, <1>10, <1>11, <1>12 DEF Next

\* A process in standby never reaches the schema setup and starts neither the
\* pollers nor the recovery worker nor the watch; and no process has any of them
\* running before start() has come to its end.
THEOREM StandbyIsQuiet == Spec => []QuietUnlessLive
<1>1. Init => QuietUnlessLive
  BY DEF Init, QuietUnlessLive, Unwatched
<1>2. TypeOK /\ QuietUnlessLive /\ [Next]_vars => QuietUnlessLive'
  BY NextQuiet
<1> QED
  BY <1>1, <1>2, TypeCorrect, PTL DEF Spec

-----------------------------------------------------------------------------
(* What the watch has seen                                                 *)

\* Nobody knows of a version that is not stored, and what a start remembers of
\* its version is what the version holds.
Known ==
  /\ watch.seen <= Newest /\ boot.version <= Newest
  /\ tried \subseteq 1..Newest
  /\ \A c \in Checks : checks[c].id <= Newest
  /\ boot.version # NoVersion => boot.own = versions[boot.version].own

\* The watch may restart this process.
Armed == stage # "down" /\ ~ReasonOff

\* Only an armed process checks, and it never looks at a version older than
\* its own; every version an unpinned start has tried is no newer than that.
Guarded ==
  /\ stage = "down" => watch = Unwatched /\ \A c \in Checks : checks[c] = NoCheck
  /\ watch.on => Armed
  /\ \A c \in Checks : checks[c] # NoCheck => Armed /\ boot.version <= checks[c].id
  /\ Armed /\ ~boot.retryable => \A t \in tried : t <= boot.version

WatchInv == Known /\ Guarded /\ NothingMissed /\ NoRestartLoop

LEMMA InitWatch == Init => WatchInv
<1> SUFFICES ASSUME Init PROVE WatchInv
  OBVIOUS
<1>1. Newest = 0
  BY EmptySeq DEF Init, Newest
<1>2. Known
  BY <1>1 DEF Init, Known, Unwatched, NotRead, NoCheck, NoVersion
<1>3. Guarded
  BY DEF Init, Guarded, Armed, Unwatched
<1>4. NothingMissed /\ NoRestartLoop
  BY DEF Init, NothingMissed, NoRestartLoop, Watching, Unwatched
<1> QED
  BY <1>2, <1>3, <1>4 DEF WatchInv

\* A step that leaves the watch, its checks and what was read alone.
LEMMA QuietWatch ==
  ASSUME WatchInv, UNCHANGED <<versions, env, boot, checks, tried>>,
         stage # "down", stage' # "down",
         watch'.seen = watch.seen, watch'.restarting = watch.restarting,
         watch'.cause = watch.cause, watch'.on => watch.on,
         Watching' => Watching
  PROVE  WatchInv'
<1>1. Newest' = Newest /\ ReasonOff' = ReasonOff /\ Running' = Running
  BY DEF Newest, ReasonOff, Running
<1>2. Known'
  BY <1>1 DEF WatchInv, Known
<1>3. Guarded'
  BY <1>1 DEF WatchInv, Guarded, Armed
<1>4. NothingMissed' /\ NoRestartLoop'
  BY <1>1 DEF WatchInv, NothingMissed, NoRestartLoop
<1> QED
  BY <1>2, <1>3, <1>4 DEF WatchInv

LEMMA GoneWatch ==
  ASSUME TypeOK, WatchInv, ProcessGone
  PROVE  WatchInv'
<1>1. /\ Newest' = Newest /\ Newest \in Nat /\ stage' = "down" /\ watch' = Unwatched
      /\ checks' = [c \in Checks |-> NoCheck] /\ boot' = NotRead /\ tried' = tried
  BY NewestType, TypeParts DEF ProcessGone, hub, Newest
<1>2. Known'
  BY <1>1 DEF WatchInv, Known, Unwatched, NotRead, NoCheck, NoVersion
<1>3. Guarded'
  BY <1>1 DEF Guarded, Armed, Unwatched
<1>4. NothingMissed' /\ NoRestartLoop'
  BY <1>1 DEF NothingMissed, NoRestartLoop, Watching, Unwatched
<1> QED
  BY <1>2, <1>3, <1>4 DEF WatchInv

\* A newer version has been compared by nobody yet.
LEMMA SaveWatch ==
  ASSUME TypeOK, WatchInv, NEW s \in Saves, Save(s)
  PROVE  WatchInv'
<1>0. HubTyped /\ ProcessTyped /\ PartsTyped
  BY TypeParts
<1>1. /\ Newest' = Newest + 1 /\ Newest \in Nat
      /\ \A v \in 1..Newest : versions'[v] = versions[v]
  BY <1>0, AppendProperties, NewestType DEF Save, HubTyped, Newest
<1>2. /\ UNCHANGED <<env, boot, stage, watch, checks, tried>>
      /\ ReasonOff' = ReasonOff /\ Running' = Running
  BY DEF Save, process, ReasonOff, Running
<1>3. /\ watch.seen \in Nat /\ boot.version \in Nat /\ \A c \in Checks : checks[c].id \in Nat
  BY <1>0 DEF ProcessTyped, PartsTyped, BootTyped, Boots, Watches, CheckStates, Versions, NoVersion
<1>4. Known'
  BY <1>1, <1>2, <1>3 DEF WatchInv, Known, NoVersion
<1>5. Guarded'
  BY <1>2 DEF WatchInv, Guarded, Armed
<1>6. NothingMissed' /\ NoRestartLoop'
  BY <1>1, <1>2, <1>3 DEF WatchInv, Known, NothingMissed, NoRestartLoop
<1> QED
  BY <1>4, <1>5, <1>6 DEF WatchInv

\* A start that is armed without a failed read has read the newest version.
LEMMA BootWatch ==
  ASSUME TypeOK, WatchInv, Boot
  PROVE  WatchInv'
<1>0. HubTyped /\ ProcessTyped /\ PartsTyped /\ Newest \in Nat
  BY TypeParts, NewestType
<1>1. PICK outcome \in {NotLoaded("off", FALSE), NotLoaded("failed", TRUE), Fetched(deployment)} :
        /\ BootOutcome(outcome)
        /\ tried' = Tried(outcome)
        /\ IF outcome.own \in Breaking
           THEN UNCHANGED <<boot, stage>>
           ELSE boot' = outcome /\ stage' = "loading"
  BY DEF Boot
<1>2. /\ stage = "down" /\ watch' = Unwatched /\ watch = Unwatched
      /\ checks' = checks /\ \A c \in Checks : checks[c] = NoCheck
      /\ Newest' = Newest /\ versions' = versions /\ env' = deployment
  BY DEF Boot, hub, WatchInv, Guarded, Newest
<1>3. BootTyped(outcome) /\ outcome.version \in 0..Newest /\ tried' \subseteq 1..Newest
  BY <1>0, <1>1, OutcomeType, TriedType DEF HubTyped, WatchInv, Known
<1>4. outcome.version # NoVersion => outcome.own = versions[outcome.version].own
  BY <1>0, <1>1, OutcomeType DEF HubTyped
<1>5. NothingMissed' /\ NoRestartLoop'
  BY <1>1, <1>2 DEF NothingMissed, NoRestartLoop, Watching, Unwatched
<1>6. CASE outcome.own \in Breaking
  <2>1. stage' = "down" /\ boot' = boot
    BY <1>1, <1>2, <1>6
  <2>2. Known'
    BY <1>2, <1>3, <2>1 DEF WatchInv, Known, Unwatched, NoCheck, NoVersion
  <2>3. Guarded'
    BY <1>2, <2>1 DEF Guarded, Armed, Unwatched
  <2> QED
    BY <1>5, <2>2, <2>3 DEF WatchInv
<1>7. CASE outcome.own \notin Breaking
  <2>1. stage' = "loading" /\ boot' = outcome
    BY <1>1, <1>7
  <2>2. Known'
    BY <1>0, <1>2, <1>3, <1>4, <2>1 DEF Known, Unwatched, NoCheck, NoVersion
  <2>3. ASSUME Armed', ~outcome.retryable, NEW t \in tried'
        PROVE  t <= outcome.version
    <3>1. /\ outcome.status # "off" /\ deployment.pin = NoVersion /\ deployment.keyed
          /\ outcome.status # "failed"
      BY <1>2, <2>1, <2>3 DEF Armed, ReasonOff
    <3>2. outcome = Fetched(deployment)
      BY <1>0, <1>1, <2>3, <3>1, OutcomeType DEF HubTyped
    <3>3. \/ Newest = 0
          \/ outcome.version = Newest
      BY <1>0, <3>1, <3>2, FetchedType DEF HubTyped, NoVersion
    <3> QED
      BY <1>0, <1>3, <3>3
  <2>4. Guarded'
    BY <1>2, <2>1, <2>3 DEF Guarded, Unwatched
  <2> QED
    BY <1>5, <2>2, <2>4 DEF WatchInv
<1> QED
  BY <1>6, <1>7

LEMMA FinishWatch ==
  ASSUME TypeOK, WatchInv, FinishStart
  PROVE  WatchInv'
<1>0. HubTyped /\ ProcessTyped /\ PartsTyped
  BY TypeParts
<1>1. CASE env.standby
  <2>1. stage = "checking" /\ stage' = "preflight" /\ UNCHANGED <<hub, env, boot, watch, checks, tried>>
    BY <1>1 DEF FinishStart
  <2> QED
    BY <2>1, QuietWatch DEF hub, Watching
<1>2. CASE ~env.standby
  <2>1. /\ stage = "checking" /\ stage' = "live" /\ PartsStarted
        /\ UNCHANGED <<hub, env, boot, checks, tried>>
    BY <1>2 DEF FinishStart
  <2>2. watch'.seen = boot.version /\ ~watch'.restarting /\ (watch'.on => ~ReasonOff)
    BY <1>0, <2>1, FinishedType DEF ProcessTyped
  <2>3. Newest' = Newest /\ ReasonOff' = ReasonOff /\ Running' = Running /\ versions' = versions
    BY <2>1 DEF Newest, ReasonOff, Running, hub
  <2>4. Known'
    BY <2>1, <2>2, <2>3 DEF WatchInv, Known
  <2>5. Guarded'
    BY <2>1, <2>2, <2>3 DEF WatchInv, Guarded, Armed
  <2>6. NothingMissed' /\ NoRestartLoop'
    BY <2>1, <2>2, <2>3 DEF WatchInv, Known, NothingMissed, NoRestartLoop, Running
  <2> QED
    BY <2>4, <2>5, <2>6 DEF WatchInv
<1> QED
  BY <1>1, <1>2

\* A check moves on or ends, and takes for seen only what it has compared.
LEMMA CheckWatch ==
  ASSUME TypeOK, WatchInv, NEW c \in Checks,
         UNCHANGED <<versions, env, boot, stage, tried>>,
         checks' \in [Checks -> CheckStates],
         \A d \in Checks \ {c} : checks'[d] = checks[d],
         checks'[c] = NoCheck \/ (Armed /\ boot.version <= checks'[c].id /\ checks'[c].id <= Newest),
         watch'.seen <= Newest, watch'.on => watch.on,
         stage # "down", NothingMissed', NoRestartLoop'
  PROVE  WatchInv'
<1>1. Newest' = Newest /\ ReasonOff' = ReasonOff /\ Newest \in Nat
  BY NewestType, TypeParts DEF Newest, ReasonOff
<1>2. \A d \in Checks : checks'[d].id <= Newest
  BY <1>1 DEF WatchInv, Known, NoCheck, NoVersion
<1>3. Known'
  BY <1>1, <1>2 DEF WatchInv, Known
<1>4. \A d \in Checks : checks'[d] # NoCheck => Armed /\ boot.version <= checks'[d].id
  BY DEF WatchInv, Guarded
<1>5. Guarded'
  BY <1>1, <1>4 DEF WatchInv, Guarded, Armed
<1> QED
  BY <1>3, <1>5 DEF WatchInv

LEMMA NextWatch == TypeOK /\ WatchInv /\ [Next]_vars => WatchInv'
<1> SUFFICES ASSUME TypeOK, WatchInv, [Next]_vars
             PROVE  WatchInv'
  OBVIOUS
<1>0. HubTyped /\ ProcessTyped /\ PartsTyped /\ Newest \in Nat
  BY TypeParts, NewestType
<1>1. ASSUME NEW s \in Saves, Save(s) PROVE WatchInv'
  BY <1>1, SaveWatch
<1>2. ASSUME NEW d \in Deployments, Redeploy(d) PROVE WatchInv'
  <2>1. CASE stage = "down"
    <3>1. UNCHANGED <<versions, env, boot, stage, watch, checks, tried>>
      BY <1>2, <2>1 DEF Redeploy
    <3> QED
      BY <3>1
      DEF WatchInv, Known, Guarded, Armed, ReasonOff, NothingMissed, NoRestartLoop, Watching,
          Newest, Running
  <2>2. CASE stage # "down"
    <3>1. /\ UNCHANGED <<versions, env, boot, stage, checks, tried>> /\ ShutDown(watch)
      BY <1>2, <2>2 DEF Redeploy
    <3>2. /\ watch'.seen = watch.seen /\ watch'.restarting = watch.restarting
          /\ watch'.cause = watch.cause /\ (watch'.on => watch.on)
      BY <1>0, <3>1, ShutDownType DEF PartsTyped
    <3> QED
      BY <2>2, <3>1, <3>2, QuietWatch DEF Watching
  <2> QED
    BY <2>1, <2>2
<1>3. CASE Boot
  BY <1>3, BootWatch
<1>4. CASE StartStep
  <2>1. stage' # "down" /\ stage' # "live" /\ stage # "down"
    BY <1>4 DEF StartStep, NextStage
  <2> QED
    BY <1>4, <2>1, QuietWatch DEF StartStep, hub, Watching
<1>5. CASE FinishStart
  BY <1>5, FinishWatch
<1>6. CASE Preflight
  BY <1>6, QuietWatch DEF Preflight, hub, Watching
<1>7. CASE PollReturns \/ PollTimer
  <2>1. UNCHANGED <<versions, env, boot, stage, watch, checks, tried>>
    BY <1>7 DEF PollReturns, PollTimer, hub
  <2> QED
    BY <2>1
    DEF WatchInv, Known, Guarded, Armed, ReasonOff, NothingMissed, NoRestartLoop, Watching,
        Newest, Running
<1>8. ASSUME NEW c \in Checks, StartCheck(c) PROVE WatchInv'
  <2>1. /\ UNCHANGED <<versions, env, boot, stage, watch, tried>> /\ watch.on
        /\ CheckGoesOn(c, "latest", Newest)
    BY <1>8 DEF StartCheck, hub
  <2>2. /\ checks' \in [Checks -> CheckStates] /\ checks'[c].id = Newest
        /\ \A d \in Checks \ {c} : checks'[d] = checks[d]
    BY <1>0, <2>1, CheckMoves, NewestType
  <2>3. Armed /\ stage # "down" /\ boot.version <= Newest /\ watch.seen <= Newest
    BY <2>1 DEF WatchInv, Guarded, Known, Armed
  <2>4. NothingMissed' /\ NoRestartLoop'
    BY <2>1 DEF WatchInv, NothingMissed, NoRestartLoop, Watching, Newest, Running
  <2> QED
    BY <1>0, <2>1, <2>2, <2>3, <2>4, CheckWatch
<1>9. ASSUME NEW c \in Checks, LatestAnswered(c) PROVE WatchInv'
  <2> DEFINE id == checks[c].id
  <2>1. /\ checks[c].at = "latest" /\ id \in Versions \cup {NoVersion}
        /\ UNCHANGED <<versions, env, boot, stage, tried>>
    BY <1>0, <1>9 DEF LatestAnswered, hub, ProcessTyped, CheckStates
  <2>2. checks[c] # NoCheck
    BY <2>1 DEF NoCheck
  <2>3. Armed /\ boot.version <= id /\ id <= Newest /\ stage # "down" /\ watch.seen <= Newest
    BY <2>2 DEF WatchInv, Guarded, Known, Armed
  <2>4. CASE id \in {NoVersion, watch.seen} \/ versions[id].key = "ours"
    <3>1. (CheckEnds(c) \/ CheckGoesOn(c, "rows", id)) /\ UNCHANGED watch
      BY <1>9, <2>4 DEF LatestAnswered
    <3>2. /\ checks' \in [Checks -> CheckStates] /\ (checks'[c] = NoCheck \/ checks'[c].id = id)
          /\ \A d \in Checks \ {c} : checks'[d] = checks[d]
      BY <1>0, <2>1, <3>1, CheckMoves
    <3>3. NothingMissed' /\ NoRestartLoop'
      BY <2>1, <3>1 DEF WatchInv, NothingMissed, NoRestartLoop, Watching, Newest, Running
    <3> QED
      BY <2>1, <2>3, <3>1, <3>2, <3>3, CheckWatch
  <2>5. CASE ~(id \in {NoVersion, watch.seen} \/ versions[id].key = "ours")
    <3>1. CheckEnds(c) /\ watch' = [watch EXCEPT !.seen = id]
      BY <1>9, <2>5 DEF LatestAnswered
    <3>2. /\ checks' \in [Checks -> CheckStates] /\ checks'[c] = NoCheck
          /\ \A d \in Checks \ {c} : checks'[d] = checks[d]
      BY <1>0, <2>1, <3>1, CheckMoves
    <3>3. /\ watch'.seen = id /\ watch'.on = watch.on /\ watch'.restarting = watch.restarting
          /\ watch'.cause = watch.cause
      BY <1>0, <3>1 DEF PartsTyped, Watches
    <3>4. NothingMissed' /\ NoRestartLoop'
      BY <2>1, <2>5, <3>3
      DEF WatchInv, NothingMissed, NoRestartLoop, Watching, Newest, Running
    <3> QED
      BY <2>1, <2>3, <3>2, <3>3, <3>4, CheckWatch
  <2> QED
    BY <2>4, <2>5
<1>10. ASSUME NEW c \in Checks, RowsAnswered(c) PROVE WatchInv'
  <2> DEFINE id   == checks[c].id
             seen == [watch EXCEPT !.seen = id]
             last == [seen EXCEPT !.restarting = TRUE, !.cause = id]
  <2>1. /\ checks[c].at = "rows" /\ id \in Versions \cup {NoVersion} /\ CheckEnds(c)
        /\ UNCHANGED <<versions, env, boot, stage, tried>>
    BY <1>0, <1>10 DEF RowsAnswered, hub, ProcessTyped, CheckStates
  <2>2. checks[c] # NoCheck
    BY <2>1 DEF NoCheck
  <2>3. Armed /\ boot.version <= id /\ id <= Newest /\ stage # "down"
    BY <2>2 DEF WatchInv, Guarded, Known, Armed
  <2>4. /\ checks' \in [Checks -> CheckStates] /\ checks'[c] = NoCheck
        /\ \A d \in Checks \ {c} : checks'[d] = checks[d]
    BY <1>0, <2>1, CheckMoves
  <2>5. /\ seen.seen = id /\ seen.on = watch.on /\ seen.restarting = watch.restarting
        /\ seen.cause = watch.cause
        /\ last.seen = id /\ last.on = watch.on /\ last.restarting /\ last.cause = id
        /\ last \in Watches
    BY <1>0, <2>1 DEF PartsTyped, Watches
  <2>6. CASE versions[id].own = Running
    <3>1. watch' = seen
      BY <1>10, <2>6 DEF RowsAnswered
    <3>2. NothingMissed' /\ NoRestartLoop'
      BY <2>1, <2>5, <2>6, <3>1
      DEF WatchInv, NothingMissed, NoRestartLoop, Watching, Newest, Running
    <3> QED
      BY <2>1, <2>3, <2>4, <2>5, <3>1, <3>2, CheckWatch
  <2>7. CASE versions[id].own # Running
    <3>1. ShutDown(last)
      BY <1>10, <2>7 DEF RowsAnswered
    <3>2. watch'.seen = id /\ watch'.restarting /\ watch'.cause = id /\ (watch'.on => watch.on)
      BY <1>0, <2>5, <3>1, ShutDownType
    <3>3. id # boot.version \/ boot.version = NoVersion
      BY <2>7 DEF WatchInv, Known, Running
    <3>4. ~boot.retryable => id \notin tried
      <4>1. SUFFICES ASSUME ~boot.retryable, id \in tried PROVE FALSE
        OBVIOUS
      <4>2. id <= boot.version /\ id \in 1..Newest
        BY <2>3, <4>1 DEF WatchInv, Guarded, Known
      <4>3. boot.version \in Nat
        BY <1>0 DEF ProcessTyped, BootTyped, Boots, Versions, NoVersion
      <4> QED
        BY <1>0, <2>3, <3>3, <4>2, <4>3 DEF NoVersion
    <3>5. NothingMissed' /\ NoRestartLoop'
      BY <2>1, <3>2, <3>4 DEF NothingMissed, NoRestartLoop
    <3> QED
      BY <2>1, <2>3, <2>4, <3>2, <3>5, CheckWatch
  <2> QED
    BY <2>6, <2>7
<1>11. ASSUME NEW c \in Checks, CheckFails(c) PROVE WatchInv'
  <2>1. /\ CheckEnds(c) /\ checks[c] # NoCheck
        /\ UNCHANGED <<versions, env, boot, stage, watch, tried>>
    BY <1>11 DEF CheckFails, hub
  <2>2. /\ checks' \in [Checks -> CheckStates] /\ checks'[c] = NoCheck
        /\ \A d \in Checks \ {c} : checks'[d] = checks[d]
    BY <1>0, <2>1, CheckMoves, Constants
  <2>3. stage # "down" /\ watch.seen <= Newest
    BY <2>1 DEF WatchInv, Guarded, Known, Armed
  <2>4. NothingMissed' /\ NoRestartLoop'
    BY <2>1 DEF WatchInv, NothingMissed, NoRestartLoop, Watching, Newest, Running
  <2> QED
    BY <2>1, <2>2, <2>3, <2>4, CheckWatch
<1>12. CASE Exit \/ Crash
  BY <1>12, GoneWatch DEF Exit, Crash
<1>13. CASE UNCHANGED vars
  BY <1>13
  DEF vars, hub, process, WatchInv, Known, Guarded, Armed, ReasonOff, NothingMissed,
      NoRestartLoop, Watching, Newest, Running
<1> QED
  BY <1>1, <1>2, <1>3, <1>4, <1>5, <1>6, <1>7, <1>8, <1>9, <1>10, <1>11, <1>12, <1>13 DEF Next

LEMMA WatchAlways == Spec => []WatchInv
<1>1. TypeOK /\ WatchInv /\ [Next]_vars => WatchInv'
  BY NextWatch
<1> QED
  BY <1>1, InitWatch, TypeCorrect, PTL DEF Spec

\* However checks overlap, fail or are overtaken by newer versions, the watch has
\* not taken the newest version for seen while its values are not the ones that
\* run, unless it is already restarting the process.
THEOREM NoVersionMissed == Spec => []NothingMissed
  BY WatchAlways, PTL DEF WatchInv

\* A restart the watch asks for is for a version no unpinned start has read
\* before, unless this start could not read: so one version causes one restart.
THEOREM RestartsEnd == Spec => []NoRestartLoop
  BY WatchAlways, PTL DEF WatchInv
=============================================================================
