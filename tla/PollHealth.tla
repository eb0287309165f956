----------------------------- MODULE PollHealth -----------------------------
(***************************************************************************)
(* The settings every poll runs on and what the service says about itself: *)
(* the panel's row and its cache (src/samsaraSettings.js), the two pollers *)
(* that refresh from it (src/poller.js, src/speedingPoller.js) in turns    *)
(* (src/pollCoordinator.js), the verdict of /health (src/healthReport.js)  *)
(* and the beats to the hub (src/hubHeartbeat.js).                         *)
(*                                                                         *)
(* Time is counted in the coordinator's pauses: one Tick is 15 seconds.    *)
(* A pause ends when it is over, and a poll answers within its tick unless *)
(* the environment slows it down; other users of the settings, the         *)
(* recovery worker and the video downloader, take the time they like.      *)
(* The query of a load and its answer are two steps, so that loads overlap.*)
(*                                                                         *)
(* Abstracted: of the row, whether the service and its speeding lane are   *)
(* on and whether its API key opens; what a poll fetches (PollWindow);     *)
(* start and shutdown (Runtime).                                           *)
(***************************************************************************)
EXTENDS Faults, FiniteSets

CONSTANTS
  Rows,        \* the rows the panel may save
  Panel,       \* Panel[r]: what row r holds
  EnvSpeeding, \* SAMSARA_SPEEDING_ENABLED
  EnvKey,      \* SAMSARA_API_KEY is set
  Ttl,         \* CACHE_TTL_MS, in ticks
  FailedTtl,   \* FAILED_READ_TTL_MS, in ticks
  Threshold,   \* HEALTH_STALE_THRESHOLD_MS, in ticks
  Grace,       \* HEALTH_STARTUP_GRACE_MS, in ticks
  MaxSaves,    \* bound: how many times the panel saves
  MaxBeats     \* bound: beats of one status in flight

ASSUME PollHealthAssumption ==
  /\ Rows # {}
  /\ Panel \in [Rows -> [enabled : BOOLEAN, speeding : {"on", "off", "unset"},
                         key : {"unset", "opens", "foreign"}]]
  /\ EnvSpeeding \in BOOLEAN /\ EnvKey \in BOOLEAN
  /\ Ttl \in Nat /\ FailedTtl \in 0..Ttl
  /\ Threshold \in Nat /\ Grace \in Nat
  /\ MaxSaves \in Nat /\ MaxBeats \in Nat \ {0}

VARIABLES
  row,        \* table samsara_settings
  saves,      \* how many times it was saved
  cache,      \* the store's cache, and for how long it is good
  loads,      \* the loads in flight: the poll's and another user's
  poll,       \* the coordinator's cycle
  speedingOn, \* SPEEDING_ENABLED of speedingPoller.js
  keyed,      \* the pollers whose SAMSARA_API_KEY is set
  success,    \* lastSuccessfulPollAt of each poller, as ticks since
  uptime,     \* process.uptime(), up to Grace + 1
  beats,      \* upserts of the ledger row in flight, by status
  hub,        \* table background_service_runs, this service's row
  applied,    \* what the last refresh of each poller used
  lastHeld,   \* history: ticks since the row read like this, or a read failed
  stall       \* history: ticks since the coordinator's cycle moved

settings == <<row, saves>>
pollers  == <<poll, speedingOn, keyed, success, applied>>
ledger   == <<beats, hub>>
vars == <<settings, cache, loads, pollers, uptime, ledger, lastHeld, stall, faults>>

Pollers  == {"safety", "speeding"}
Loaders  == {"poll", "other"}
Beats    == {"ok", "error", "blocked"}
Env      == "environment"             \* what a failed read leaves
Nothing  == "nothing"
Sources  == Rows \cup {Env}
Never    == Threshold + 2
Horizon  == Ttl + 1

Idle == [at |-> "idle", source |-> Env, age |-> 0]

\* A counter of ticks that stops at its cap.
Later(n, cap) == IF n < cap THEN n + 1 ELSE n

TypeOK ==
  /\ FaultsTypeOK
  /\ row \in Rows /\ saves \in 0..MaxSaves
  /\ cache \in [source : Sources \cup {Nothing}, left : 0..Ttl]
  /\ loads \in [Loaders -> [at : {"idle", "query", "answer"}, source : Sources, age : 0..Horizon]]
  /\ poll \in [who : Pollers, at : {"pause", "due", "load", "ask"}, slow : BOOLEAN]
  /\ speedingOn \in BOOLEAN /\ keyed \in SUBSET Pollers
  /\ success \in [Pollers -> 0..Never]
  /\ uptime \in 0..(Grace + 1)
  /\ beats \in [Beats -> 0..MaxBeats]
  /\ hub \in [status : Beats \cup {Nothing}, failures : Nat]
  /\ applied \in [Pollers -> [source : Sources \cup {Nothing}, late : BOOLEAN]]
  /\ lastHeld \in [Sources -> 0..Horizon]
  /\ stall \in 0..(Threshold + 1)

NoCache == [source |-> Nothing, left |-> 0]

Started ==
  [cache |-> NoCache, loads |-> [l \in Loaders |-> Idle],
   poll |-> [who |-> "safety", at |-> "due", slow |-> FALSE],
   success |-> [p \in Pollers |-> Never],
   applied |-> [p \in Pollers |-> [source |-> Nothing, late |-> FALSE]]]

Init ==
  /\ FaultsInit
  /\ row \in Rows /\ saves = 0
  /\ cache = Started.cache /\ loads = Started.loads
  /\ poll = Started.poll
  /\ speedingOn = EnvSpeeding
  /\ keyed = IF EnvKey THEN Pollers ELSE {}
  /\ success = Started.success
  /\ uptime = 0
  /\ beats = [b \in Beats |-> 0]
  /\ hub = [status |-> Nothing, failures |-> 0]
  /\ applied = Started.applied
  /\ lastHeld = [s \in Sources |-> IF s = row THEN 0 ELSE Horizon]
  /\ stall = 0

----------------------------------------------------------------------------
(* The settings *)

\* The effective settings: what the panel has not saved is the environment's,
\* and a key written under other key material does not open.
Config(source) ==
  IF source = Env
  THEN [enabled |-> TRUE, speeding |-> EnvSpeeding, key |-> EnvKey]
  ELSE [enabled  |-> Panel[source].enabled,
        speeding |-> Panel[source].speeding = "on"
                     \/ (Panel[source].speeding = "unset" /\ EnvSpeeding),
        key      |-> Panel[source].key = "opens" \/ EnvKey]

SavePanel(r) ==
  /\ saves < MaxSaves
  /\ r # row
  /\ row' = r
  /\ saves' = saves + 1
  /\ lastHeld' = [lastHeld EXCEPT ![r] = 0]
  /\ UNCHANGED <<cache, loads, pollers, uptime, ledger, stall, faults>>

CachedForEver == cache.source # Nothing

\* getSettings answers from the cache while it is good.
Cached == cache.source # Nothing /\ cache.left > 0

BeginQuery(l) == [loads EXCEPT ![l] = [Idle EXCEPT !.at = "query"]]

\* The recovery worker or the video downloader loads the settings.
OtherLoads ==
  /\ loads["other"].at = "idle"
  /\ ~Cached
  /\ loads' = BeginQuery("other")
  /\ UNCHANGED <<settings, cache, pollers, uptime, ledger, lastHeld, stall, faults>>

ReadRow(l) ==
  /\ loads[l].at = "query"
  /\ \/ /\ loads' = [loads EXCEPT ![l].at = "answer", ![l].source = row]
        /\ UNCHANGED lastHeld
        /\ NoFault
     \/ /\ Fault("query")
        /\ loads' = [loads EXCEPT ![l].at = "answer", ![l].source = Env]
        /\ lastHeld' = [lastHeld EXCEPT ![Env] = 0]
  /\ UNCHANGED <<settings, cache, pollers, uptime, ledger, stall>>

FilledUnclamped(load) ==
  LET ttl == IF load.source = Env THEN FailedTtl ELSE Ttl
  IN  [source |-> load.source, left |-> ttl - load.age]

FilledAnew(load) ==
  [source |-> load.source, left |-> IF load.source = Env THEN FailedTtl ELSE Ttl]

\* Whichever load ends last owns the cache; it expires so long after that
\* load began.
Filled(load) ==
  LET ttl == IF load.source = Env THEN FailedTtl ELSE Ttl
  IN  [source |-> load.source, left |-> IF load.age < ttl THEN ttl - load.age ELSE 0]

OtherLoaded ==
  /\ loads["other"].at = "answer"
  /\ cache' = Filled(loads["other"])
  /\ loads' = [loads EXCEPT !["other"] = Idle]
  /\ UNCHANGED <<settings, pollers, uptime, ledger, lastHeld, stall, faults>>

----------------------------------------------------------------------------
(* A poll *)

Other(p) == IF p = "safety" THEN "speeding" ELSE "safety"

Pause == [who |-> Other(poll.who), at |-> "pause", slow |-> FALSE]

Beat(b) ==
  /\ beats[b] < MaxBeats
  /\ beats' = [beats EXCEPT ![b] = @ + 1]

\* Only the safety poller beats.
TellHub(b) == IF poll.who = "safety" THEN Beat(b) ELSE UNCHANGED beats

\* The source is late if it was neither the row's, nor a failed read, within
\* its time in the cache or the time this poll has waited for it.
Late(source, waited) ==
  LET ttl == IF source = Env THEN FailedTtl ELSE Ttl
  IN  lastHeld[source] > (IF waited > ttl THEN waited ELSE ttl)

\* refreshRuntimeConfig, and the early returns after it.  A missing key leaves
\* the last one in place.  The safety poller tells the hub why it does not
\* poll, the speeding poller only knows that it is switched off.
Refresh(source, waited) ==
  LET p      == poll.who
      cfg    == Config(source)
      nowOn  == cfg.enabled /\ (p = "safety" \/ cfg.speeding)
      hasKey == cfg.key \/ p \in keyed
  IN  /\ keyed' = IF cfg.key THEN keyed \cup {p} ELSE keyed
      /\ speedingOn' = IF p = "speeding" THEN nowOn ELSE speedingOn
      /\ applied' = [applied EXCEPT ![p] = [source |-> source, late |-> Late(source, waited)]]
      /\ IF nowOn /\ hasKey
         THEN /\ poll' = [poll EXCEPT !.at = "ask", !.slow = FALSE]
              /\ UNCHANGED beats
         ELSE /\ poll' = Pause
              /\ TellHub("blocked")
      /\ stall' = 0
      /\ UNCHANGED <<settings, success, uptime, hub, lastHeld, faults>>

PollBegins ==
  /\ poll.at = "due"
  /\ IF Cached
     THEN /\ Refresh(cache.source, 0)
          /\ UNCHANGED <<cache, loads>>
     ELSE /\ poll' = [poll EXCEPT !.at = "load"]
          /\ loads' = BeginQuery("poll")
          /\ stall' = 0
          /\ UNCHANGED <<settings, cache, speedingOn, keyed, success, applied, uptime,
                         ledger, lastHeld, faults>>

PollLoaded ==
  /\ poll.at = "load"
  /\ loads["poll"].at = "answer"
  /\ cache' = Filled(loads["poll"])
  /\ loads' = [loads EXCEPT !["poll"] = Idle]
  /\ Refresh(loads["poll"].source, loads["poll"].age)

PollSucceedsUnnoted ==
  /\ poll.at = "ask"
  /\ success' = IF poll.who = "safety" THEN [success EXCEPT !["safety"] = 0] ELSE success
  /\ TellHub("ok")
  /\ poll' = Pause
  /\ stall' = 0
  /\ UNCHANGED <<settings, cache, loads, speedingOn, keyed, applied, uptime, hub, lastHeld, faults>>

PollSucceeds ==
  /\ poll.at = "ask"
  /\ success' = [success EXCEPT ![poll.who] = 0]
  /\ TellHub("ok")
  /\ poll' = Pause
  /\ stall' = 0
  /\ UNCHANGED <<settings, cache, loads, speedingOn, keyed, applied, uptime, hub, lastHeld, faults>>

PollFails ==
  /\ poll.at = "ask"
  /\ Fault("samsara")
  /\ TellHub("error")
  /\ poll' = Pause
  /\ stall' = 0
  /\ UNCHANGED <<settings, cache, loads, speedingOn, keyed, success, applied, uptime, hub, lastHeld>>

\* The query or the request of this poll takes longer than a tick.
PollSlows ==
  /\ poll.at \in {"load", "ask"}
  /\ ~poll.slow
  /\ Fault("slow")
  /\ poll' = [poll EXCEPT !.slow = TRUE]
  /\ UNCHANGED <<settings, cache, loads, speedingOn, keyed, success, applied, uptime,
                 ledger, lastHeld, stall>>

----------------------------------------------------------------------------
(* The ledger row, time and the process *)

\* Nobody awaits a beat, so two of them may be recorded in either order; only
\* an error counts as a failure.
BeatRecorded(b) ==
  /\ beats[b] > 0
  /\ beats' = [beats EXCEPT ![b] = @ - 1]
  /\ \/ /\ hub' = [status |-> b, failures |-> IF b = "error" THEN hub.failures + 1 ELSE 0]
        /\ NoFault
     \/ /\ Fault("query")
        /\ UNCHANGED hub
  /\ UNCHANGED <<settings, cache, loads, pollers, uptime, lastHeld, stall>>

Tick ==
  /\ poll.at = "pause" \/ poll.slow
  /\ poll' = IF poll.at = "pause" THEN [poll EXCEPT !.at = "due"] ELSE poll
  /\ cache' = [cache EXCEPT !.left = IF @ > 0 THEN @ - 1 ELSE 0]
  /\ loads' = [l \in Loaders |->
       IF loads[l].at = "idle" THEN loads[l] ELSE [loads[l] EXCEPT !.age = Later(@, Horizon)]]
  /\ success' = [p \in Pollers |->
       IF success[p] = Never THEN Never ELSE Later(success[p], Threshold + 1)]
  /\ uptime' = Later(uptime, Grace + 1)
  /\ lastHeld' = [s \in Sources |-> IF s = row THEN 0 ELSE Later(lastHeld[s], Horizon)]
  /\ stall' = Later(stall, Threshold + 1)
  /\ UNCHANGED <<settings, speedingOn, keyed, applied, ledger, faults>>

\* What is in memory starts afresh; beats on their way are lost.
Restart ==
  /\ Fault("crash")
  /\ cache' = Started.cache /\ loads' = Started.loads
  /\ poll' = Started.poll
  /\ speedingOn' = EnvSpeeding
  /\ keyed' = IF EnvKey THEN Pollers ELSE {}
  /\ success' = Started.success
  /\ applied' = Started.applied
  /\ uptime' = 0
  /\ beats' = [b \in Beats |-> 0]
  /\ stall' = 0
  /\ UNCHANGED <<settings, hub, lastHeld>>

Next ==
  \/ \E r \in Rows : SavePanel(r)
  \/ OtherLoads
  \/ \E l \in Loaders : ReadRow(l)
  \/ OtherLoaded
  \/ PollBegins
  \/ PollLoaded
  \/ PollSucceeds
  \/ PollFails
  \/ PollSlows
  \/ \E b \in Beats : BeatRecorded(b)
  \/ Tick
  \/ Restart

Spec == Init /\ [][Next]_vars

\* Queries and requests are answered, timers fire and time passes.  Nothing
\* makes the panel save, another user load, a poll fail or a process die.
Fairness ==
  /\ \A l \in Loaders : WF_vars(ReadRow(l))
  /\ WF_vars(OtherLoaded)
  /\ WF_vars(PollBegins)
  /\ WF_vars(PollLoaded)
  /\ WF_vars(PollSucceeds)
  /\ \A b \in Beats : WF_vars(BeatRecorded(b))
  /\ WF_vars(Tick)

FairSpec == Spec /\ Fairness

----------------------------------------------------------------------------
(* /health *)

StaleAfterSuccess(p, enabled) == enabled /\ success[p] # Never /\ success[p] > Threshold

\* Before its first success a poller is stale once the start-up grace is over.
Stale(p, enabled) ==
  /\ enabled
  /\ IF success[p] = Never THEN uptime > Grace ELSE success[p] > Threshold

\* getStatus of the safety poller has no "enabled", which then counts as TRUE.
CountsAsEnabled(p) == p = "safety" \/ speedingOn

Healthy == \A p \in Pollers : ~Stale(p, CountsAsEnabled(p))

----------------------------------------------------------------------------
(* Properties *)

\* A poll runs on what the row said at some time within the cache's five
\* minutes, or on the environment for at most 30 seconds after a failed read,
\* even when loads overlap and the one that began first ends last
\* (samsaraSettings.js:205-227); only its own slow read may be older.
AppliedIsRecent == \A p \in Pollers : ~applied[p].late

\* A coordinator that has not moved for longer than the threshold is reported,
\* whatever the panel has switched off (index.js:146-149).
StallReported == uptime > Grace /\ stall > Threshold => ~Healthy

\* Once the panel is left alone, both pollers come to run on its row, and the
\* hub is told what the safety poller does: polling, or why not.
PanelApplies ==
  \A r \in Rows :
    <>[](row = r) =>
      <>[](/\ \A p \in Pollers : applied[p].source = r
           /\ hub.status = IF Panel[r].enabled /\ (Config(r).key \/ "safety" \in keyed)
                           THEN "ok" ELSE "blocked")

\* With the service switched on and a key that opens, /health comes to answer
\* 200 and stays there, after whatever slow polls, errors and restarts.
HealthRecovers ==
  \A r \in Rows :
    Panel[r].enabled /\ Config(r).key => (<>[](row = r) => <>[]Healthy)
=============================================================================
