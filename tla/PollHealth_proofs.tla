-------------------------- MODULE PollHealth_proofs --------------------------
(***************************************************************************)
(* What the settings cache and the health report guarantee for any rows    *)
(* the panel may hold, any ages and thresholds and any number of saves and *)
(* faults: settings in use are recent however loads overlap, and a         *)
(* coordinator that has stopped is reported.                               *)
(***************************************************************************)
EXTENDS PollHealth, TLAPS

LEMMA FaultType ==
  ASSUME FaultsTypeOK, NEW kind, Fault(kind) \/ NoFault
  PROVE  FaultsTypeOK'
  BY FaultsAssumption DEF FaultsTypeOK, Fault, NoFault

\* A counter stays below its cap, and moves by one at most.
LEMMA LaterBounds ==
  ASSUME NEW cap \in Nat, NEW n \in 0..cap
  PROVE  /\ Later(n, cap) \in 0..cap
         /\ Later(n, cap) >= n /\ Later(n, cap) <= n + 1
         /\ n < cap => Later(n, cap) = n + 1
  BY DEF Later

\* Two counters under one cap keep their order.
LEMMA LaterMonotone ==
  ASSUME NEW cap \in Nat, NEW m \in 0..cap, NEW n \in 0..cap, m <= n
  PROVE  Later(m, cap) <= Later(n, cap)
  BY DEF Later

\* What the cache may hold of a load: it expires Ttl after the load began.
LEMMA FilledType ==
  ASSUME NEW load \in [at : {"idle", "query", "answer"}, source : Sources, age : 0..Horizon]
  PROVE  /\ Filled(load) \in [source : Sources \cup {Nothing}, left : 0..Ttl]
         /\ Filled(load).source = load.source
  BY PollHealthAssumption DEF Filled, Horizon

LEMMA BeatType ==
  ASSUME beats \in [Beats -> 0..MaxBeats], NEW b \in Beats, TellHub(b)
  PROVE  beats' \in [Beats -> 0..MaxBeats]
  BY PollHealthAssumption DEF TellHub, Beat

LEMMA PauseType ==
  ASSUME TypeOK
  PROVE  Pause \in [who : Pollers, at : {"pause", "due", "load", "ask"}, slow : BOOLEAN]
  BY DEF TypeOK, Pause, Other, Pollers

LEMMA ConfigType ==
  ASSUME NEW s \in Sources
  PROVE  Config(s) \in [enabled : BOOLEAN, speeding : BOOLEAN, key : BOOLEAN]
  BY PollHealthAssumption DEF Config, Sources, Env

LEMMA QueryType ==
  ASSUME TypeOK, NEW l \in Loaders
  PROVE  BeginQuery(l) \in
           [Loaders -> [at : {"idle", "query", "answer"}, source : Sources, age : 0..Horizon]]
  BY PollHealthAssumption DEF TypeOK, BeginQuery, Idle, Sources, Horizon

LEMMA AnswerType ==
  ASSUME NEW load \in [at : {"idle", "query", "answer"}, source : Sources, age : 0..Horizon],
         NEW s \in Sources
  PROVE  [load EXCEPT !.at = "answer", !.source = s]
           \in [at : {"idle", "query", "answer"}, source : Sources, age : 0..Horizon]
  OBVIOUS

LEMMA IdleType ==
  Idle \in [at : {"idle", "query", "answer"}, source : Sources, age : 0..Horizon]
  BY PollHealthAssumption DEF Idle, Sources, Horizon

----------------------------------------------------------------------------
(* Types *)

LEMMA InitTyped == Init => TypeOK
<1> SUFFICES ASSUME Init PROVE TypeOK
  OBVIOUS
<1>1. FaultsTypeOK
  BY FaultsAssumption DEF Init, FaultsInit, FaultsTypeOK
<1>2. lastHeld \in [Sources -> 0..Horizon]
  BY PollHealthAssumption DEF Init, Horizon
<1>3. loads \in [Loaders -> [at : {"idle", "query", "answer"}, source : Sources, age : 0..Horizon]]
  BY IdleType DEF Init, Started
<1>4. /\ cache \in [source : Sources \cup {Nothing}, left : 0..Ttl]
      /\ success \in [Pollers -> 0..Never]
      /\ uptime \in 0..(Grace + 1)
      /\ beats \in [Beats -> 0..MaxBeats]
      /\ stall \in 0..(Threshold + 1)
      /\ row \in Rows /\ saves \in 0..MaxSaves
  BY PollHealthAssumption DEF Init, Started, NoCache, Never
<1>5. /\ poll \in [who : Pollers, at : {"pause", "due", "load", "ask"}, slow : BOOLEAN]
      /\ speedingOn \in BOOLEAN /\ keyed \in SUBSET Pollers
      /\ hub \in [status : Beats \cup {Nothing}, failures : Nat]
      /\ applied \in [Pollers -> [source : Sources \cup {Nothing}, late : BOOLEAN]]
  BY PollHealthAssumption DEF Init, Started, Pollers
<1> QED
  BY <1>1, <1>2, <1>3, <1>4, <1>5 DEF TypeOK

\* The types after a refresh, which is the end of two of the poll's steps.
LEMMA RefreshTyped ==
  ASSUME TypeOK, NEW s \in Sources, NEW w \in Nat, Refresh(s, w)
  PROVE  /\ poll' \in [who : Pollers, at : {"pause", "due", "load", "ask"}, slow : BOOLEAN]
         /\ speedingOn' \in BOOLEAN /\ keyed' \in SUBSET Pollers
         /\ applied' \in [Pollers -> [source : Sources \cup {Nothing}, late : BOOLEAN]]
         /\ beats' \in [Beats -> 0..MaxBeats]
         /\ stall' \in 0..(Threshold + 1)
         /\ UNCHANGED <<settings, success, uptime, hub, lastHeld, faults>>
<1>1. poll.who \in Pollers
  BY DEF TypeOK
<1>2. Late(s, w) \in BOOLEAN
  BY DEF Late
<1>3. applied' \in [Pollers -> [source : Sources \cup {Nothing}, late : BOOLEAN]]
  BY <1>1, <1>2 DEF TypeOK, Refresh
<1>4. speedingOn' \in BOOLEAN /\ keyed' \in SUBSET Pollers
  BY <1>1, ConfigType DEF TypeOK, Refresh
<1>5. poll' \in [who : Pollers, at : {"pause", "due", "load", "ask"}, slow : BOOLEAN]
  BY PauseType DEF TypeOK, Refresh
<1>6. beats' \in [Beats -> 0..MaxBeats]
  BY BeatType DEF TypeOK, Refresh, Beats
<1>7. stall' \in 0..(Threshold + 1) /\ UNCHANGED <<settings, success, uptime, hub, lastHeld, faults>>
  BY PollHealthAssumption DEF Refresh
<1> QED
  BY <1>3, <1>4, <1>5, <1>6, <1>7

LEMMA TickTyped ==
  ASSUME TypeOK, Tick
  PROVE  TypeOK'
<1>1. lastHeld' \in [Sources -> 0..Horizon]
  BY PollHealthAssumption DEF TypeOK, Tick, Later, Horizon
<1>2. loads' \in [Loaders -> [at : {"idle", "query", "answer"}, source : Sources, age : 0..Horizon]]
  <2>1. ASSUME NEW l \in Loaders
        PROVE  [loads[l] EXCEPT !.age = Later(@, Horizon)]
                 \in [at : {"idle", "query", "answer"}, source : Sources, age : 0..Horizon]
    BY PollHealthAssumption DEF TypeOK, Later, Horizon
  <2> QED
    BY <2>1 DEF TypeOK, Tick
<1>3. success' \in [Pollers -> 0..Never]
  BY PollHealthAssumption DEF TypeOK, Tick, Later, Never
<1>4. /\ uptime' \in 0..(Grace + 1)
      /\ stall' \in 0..(Threshold + 1)
  BY PollHealthAssumption DEF TypeOK, Tick, Later
<1>5. cache' \in [source : Sources \cup {Nothing}, left : 0..Ttl]
  BY PollHealthAssumption DEF TypeOK, Tick
<1>6. poll' \in [who : Pollers, at : {"pause", "due", "load", "ask"}, slow : BOOLEAN]
  BY DEF TypeOK, Tick
<1> QED
  BY <1>1, <1>2, <1>3, <1>4, <1>5, <1>6
  DEF TypeOK, Tick, settings, ledger, FaultsTypeOK

LEMMA NextTyped == TypeOK /\ [Next]_vars => TypeOK'
<1> SUFFICES ASSUME TypeOK, [Next]_vars PROVE TypeOK'
  OBVIOUS
<1>1. ASSUME NEW r \in Rows, SavePanel(r) PROVE TypeOK'
  <2>1. lastHeld' \in [Sources -> 0..Horizon]
    <3>1. 0 \in 0..Horizon
      BY PollHealthAssumption DEF Horizon
    <3> QED
      BY <1>1, <3>1 DEF TypeOK, SavePanel
  <2>2. row' \in Rows /\ saves' \in 0..MaxSaves
    BY <1>1, PollHealthAssumption DEF TypeOK, SavePanel
  <2> QED
    BY <1>1, <2>1, <2>2 DEF TypeOK, SavePanel, pollers, ledger, FaultsTypeOK
<1>2. CASE OtherLoads
  BY <1>2, QueryType DEF TypeOK, OtherLoads, Loaders, settings, pollers, ledger, FaultsTypeOK
<1>3. ASSUME NEW l \in Loaders, ReadRow(l) PROVE TypeOK'
  <2>1. FaultsTypeOK'
    BY <1>3, FaultType DEF TypeOK, ReadRow
  <2>2. loads' \in [Loaders -> [at : {"idle", "query", "answer"}, source : Sources, age : 0..Horizon]]
    <3> DEFINE Answer(s) == [loads EXCEPT ![l].at = "answer", ![l].source = s]
    <3>1. ASSUME NEW s \in Sources
          PROVE  Answer(s) \in [Loaders -> [at : {"idle", "query", "answer"}, source : Sources,
                                            age : 0..Horizon]]
      <4>1. [loads[l] EXCEPT !.at = "answer", !.source = s]
              \in [at : {"idle", "query", "answer"}, source : Sources, age : 0..Horizon]
        BY AnswerType DEF TypeOK
      <4> QED
        BY <4>1 DEF TypeOK
    <3>2. row \in Sources /\ Env \in Sources
      BY DEF TypeOK, Sources
    <3>3. PICK s \in Sources : loads' = Answer(s)
      BY <1>3, <3>2 DEF ReadRow
    <3>4. Answer(s) \in [Loaders -> [at : {"idle", "query", "answer"}, source : Sources,
                                     age : 0..Horizon]]
      BY <3>1
    <3> HIDE DEF Answer
    <3> QED
      BY <3>3, <3>4
  <2>3. lastHeld' \in [Sources -> 0..Horizon]
    BY <1>3, PollHealthAssumption DEF TypeOK, ReadRow, Horizon
  <2> QED
    BY <1>3, <2>1, <2>2, <2>3 DEF TypeOK, ReadRow, settings, pollers, ledger
<1>4. CASE OtherLoaded
  <2>1. cache' \in [source : Sources \cup {Nothing}, left : 0..Ttl]
    BY <1>4, FilledType DEF TypeOK, OtherLoaded, Loaders
  <2>2. loads' \in [Loaders -> [at : {"idle", "query", "answer"}, source : Sources, age : 0..Horizon]]
    BY <1>4, IdleType DEF TypeOK, OtherLoaded
  <2> QED
    BY <1>4, <2>1, <2>2 DEF TypeOK, OtherLoaded, settings, pollers, ledger, FaultsTypeOK
<1>5. CASE PollBegins
  <2>1. CASE Cached
    <3>1. cache.source \in Sources /\ Refresh(cache.source, 0) /\ UNCHANGED <<cache, loads>>
      BY <1>5, <2>1 DEF TypeOK, PollBegins, Cached
    <3> QED
      BY <3>1, RefreshTyped DEF TypeOK, settings, FaultsTypeOK
  <2>2. CASE ~Cached
    <3>1. poll' \in [who : Pollers, at : {"pause", "due", "load", "ask"}, slow : BOOLEAN]
      BY <1>5, <2>2 DEF TypeOK, PollBegins
    <3>2. stall' \in 0..(Threshold + 1)
      BY <1>5, <2>2, PollHealthAssumption DEF PollBegins
    <3>3. loads' \in [Loaders -> [at : {"idle", "query", "answer"}, source : Sources, age : 0..Horizon]]
      BY <1>5, <2>2, QueryType DEF PollBegins, Loaders
    <3> QED
      BY <1>5, <2>2, <3>1, <3>2, <3>3 DEF TypeOK, PollBegins, settings, ledger, FaultsTypeOK
  <2> QED
    BY <2>1, <2>2
<1>6. CASE PollLoaded
  <2>1. /\ loads["poll"].source \in Sources /\ loads["poll"].age \in Nat
        /\ Refresh(loads["poll"].source, loads["poll"].age)
    BY <1>6 DEF TypeOK, PollLoaded, Loaders
  <2>2. cache' \in [source : Sources \cup {Nothing}, left : 0..Ttl]
    BY <1>6, FilledType DEF TypeOK, PollLoaded, Loaders
  <2>3. loads' \in [Loaders -> [at : {"idle", "query", "answer"}, source : Sources, age : 0..Horizon]]
    BY <1>6, IdleType DEF TypeOK, PollLoaded
  <2> QED
    BY <2>1, <2>2, <2>3, RefreshTyped DEF TypeOK, settings, FaultsTypeOK
<1>7. CASE PollSucceeds
  <2>1. beats' \in [Beats -> 0..MaxBeats]
    BY <1>7, BeatType DEF TypeOK, PollSucceeds, Beats
  <2>2. success' \in [Pollers -> 0..Never] /\ stall' \in 0..(Threshold + 1)
    BY <1>7, PollHealthAssumption DEF TypeOK, PollSucceeds, Never
  <2> QED
    BY <1>7, <2>1, <2>2, PauseType DEF TypeOK, PollSucceeds, settings, FaultsTypeOK
<1>8. CASE PollFails
  <2>1. beats' \in [Beats -> 0..MaxBeats] /\ FaultsTypeOK'
    BY <1>8, BeatType, FaultType DEF TypeOK, PollFails, Beats
  <2>2. stall' \in 0..(Threshold + 1)
    BY <1>8, PollHealthAssumption DEF PollFails
  <2> QED
    BY <1>8, <2>1, <2>2, PauseType DEF TypeOK, PollFails, settings
<1>9. CASE PollSlows
  <2>1. poll' \in [who : Pollers, at : {"pause", "due", "load", "ask"}, slow : BOOLEAN]
    BY <1>9 DEF TypeOK, PollSlows
  <2>2. FaultsTypeOK'
    BY <1>9, FaultType DEF TypeOK, PollSlows
  <2> QED
    BY <1>9, <2>1, <2>2 DEF TypeOK, PollSlows, settings, ledger
<1>10. ASSUME NEW b \in Beats, BeatRecorded(b) PROVE TypeOK'
  <2>1. FaultsTypeOK'
    BY <1>10, FaultType DEF TypeOK, BeatRecorded
  <2>2. beats' \in [Beats -> 0..MaxBeats]
    BY <1>10, PollHealthAssumption DEF TypeOK, BeatRecorded
  <2>3. hub' \in [status : Beats \cup {Nothing}, failures : Nat]
    BY <1>10 DEF TypeOK, BeatRecorded
  <2> QED
    BY <1>10, <2>1, <2>2, <2>3 DEF TypeOK, BeatRecorded, settings, pollers
<1>11. CASE Tick
  BY <1>11, TickTyped
<1>12. CASE Restart
  <2>1. FaultsTypeOK'
    BY <1>12, FaultType DEF TypeOK, Restart
  <2>2. loads' \in [Loaders -> [at : {"idle", "query", "answer"}, source : Sources, age : 0..Horizon]]
    BY <1>12, IdleType DEF Restart, Started
  <2>3. /\ cache' \in [source : Sources \cup {Nothing}, left : 0..Ttl]
        /\ success' \in [Pollers -> 0..Never]
        /\ uptime' \in 0..(Grace + 1)
        /\ beats' \in [Beats -> 0..MaxBeats]
        /\ stall' \in 0..(Threshold + 1)
    BY <1>12, PollHealthAssumption DEF Restart, Started, NoCache, Never
  <2>4. /\ poll' \in [who : Pollers, at : {"pause", "due", "load", "ask"}, slow : BOOLEAN]
        /\ speedingOn' \in BOOLEAN /\ keyed' \in SUBSET Pollers
        /\ applied' \in [Pollers -> [source : Sources \cup {Nothing}, late : BOOLEAN]]
    BY <1>12, PollHealthAssumption DEF Restart, Started, Pollers
  <2> QED
    BY <1>12, <2>1, <2>2, <2>3, <2>4 DEF TypeOK, Restart, settings
<1>13. CASE UNCHANGED vars
  BY <1>13 DEF TypeOK, vars, settings, pollers, ledger, FaultsTypeOK
<1> QED
  BY <1>1, <1>2, <1>3, <1>4, <1>5, <1>6, <1>7, <1>8, <1>9, <1>10, <1>11, <1>12, <1>13 DEF Next

\* Ages, counters and what the cache and the loads hold stay in their types,
\* whatever the panel saves and however long a query takes.
THEOREM TypeCorrect == Spec => []TypeOK
  BY InitTyped, NextTyped, PTL DEF Spec

----------------------------------------------------------------------------
(* A coordinator that has stopped is reported *)

\* Every step of the cycle that makes a success young also ends the stall.
SuccessNoYounger == \A p \in Pollers : success[p] >= stall

StallInv == TypeOK /\ SuccessNoYounger

LEMMA InitNoYounger == Init => SuccessNoYounger
  BY PollHealthAssumption DEF Init, Started, Never, SuccessNoYounger

LEMMA NextNoYounger ==
  ASSUME TypeOK, SuccessNoYounger, [Next]_vars
  PROVE  SuccessNoYounger'
<1> USE PollHealthAssumption
<1>1. ASSUME stall' = 0, success' \in [Pollers -> 0..Never]
      PROVE  SuccessNoYounger'
  BY <1>1 DEF SuccessNoYounger, Never
<1>2. ASSUME UNCHANGED <<success, stall>>
      PROVE  SuccessNoYounger'
  BY <1>2 DEF SuccessNoYounger
<1>3. success' \in [Pollers -> 0..Never]
  BY NextTyped DEF TypeOK
<1>4. CASE Tick
  <2>1. ASSUME NEW p \in Pollers
        PROVE  success'[p] >= stall'
    <3>1. success'[p] = IF success[p] = Never THEN Never ELSE Later(success[p], Threshold + 1)
      BY <1>4 DEF Tick
    <3>2. stall' = Later(stall, Threshold + 1) /\ stall \in 0..(Threshold + 1)
      BY <1>4 DEF Tick, TypeOK
    <3>3. success[p] \in 0..Never /\ success[p] >= stall
      BY DEF TypeOK, SuccessNoYounger
    <3> QED
      BY <3>1, <3>2, <3>3 DEF Later, Never
  <2> QED
    BY <2>1 DEF SuccessNoYounger
<1>5. CASE PollBegins
  BY <1>1, <1>3, <1>5 DEF PollBegins, Refresh
<1>6. CASE PollLoaded
  BY <1>1, <1>3, <1>6 DEF PollLoaded, Refresh
<1>7. CASE PollSucceeds \/ PollFails \/ Restart
  BY <1>1, <1>3, <1>7 DEF PollSucceeds, PollFails, Restart
<1>8. CASE (\E r \in Rows : SavePanel(r)) \/ OtherLoads \/ (\E l \in Loaders : ReadRow(l))
           \/ OtherLoaded \/ PollSlows \/ (\E b \in Beats : BeatRecorded(b)) \/ UNCHANGED vars
  BY <1>2, <1>8
  DEF SavePanel, OtherLoads, ReadRow, OtherLoaded, PollSlows, BeatRecorded, pollers, vars
<1> QED
  BY <1>4, <1>5, <1>6, <1>7, <1>8 DEF Next

LEMMA StallSeen == StallInv => StallReported
<1> SUFFICES ASSUME StallInv, uptime > Grace, stall > Threshold
             PROVE  ~Healthy
  BY DEF StallReported
<1>1. "safety" \in Pollers
  BY DEF Pollers
<1>2. /\ success["safety"] >= stall
      /\ success["safety"] \in 0..Never
      /\ stall \in 0..(Threshold + 1)
  BY <1>1 DEF StallInv, SuccessNoYounger, TypeOK
<1>3. Stale("safety", TRUE)
  BY <1>2, PollHealthAssumption DEF Stale, Never
<1> QED
  BY <1>1, <1>3 DEF Healthy, CountsAsEnabled

\* A cycle that has not moved for longer than the threshold makes /health
\* answer 503, for any threshold and grace and whatever the panel has switched
\* off: no step of the code renews a success without moving the cycle.
THEOREM StallSurfaces == Spec => []StallReported
<1>1. Init => StallInv
  BY InitTyped, InitNoYounger DEF StallInv
<1>2. StallInv /\ [Next]_vars => StallInv'
  BY NextTyped, NextNoYounger DEF StallInv
<1> QED
  BY <1>1, <1>2, StallSeen, PTL DEF Spec

----------------------------------------------------------------------------
(* The settings in use are recent *)

TtlOf(source) == IF source = Env THEN FailedTtl ELSE Ttl

\* What the row reads, it reads now.
RowHeld == lastHeld[row] = 0

\* The answer a load holds was true after the load began.
LoadsFresh ==
  \A l \in Loaders :
    loads[l].at = "answer" => lastHeld[loads[l].source] <= loads[l].age

\* The age of a cached answer and the time it is still good for are together
\* no more than its time in the cache.
CacheFresh ==
  Cached => lastHeld[cache.source] + cache.left <= TtlOf(cache.source)

RecentInv == TypeOK /\ RowHeld /\ LoadsFresh /\ CacheFresh /\ AppliedIsRecent

LEMMA InitRecent == Init => RowHeld /\ LoadsFresh /\ CacheFresh /\ AppliedIsRecent
  BY DEF Init, Started, NoCache, Idle, Sources, RowHeld, LoadsFresh, CacheFresh, Cached,
         AppliedIsRecent

\* The cache a load fills is as fresh as the load.
LEMMA FilledFresh ==
  ASSUME TypeOK, LoadsFresh, NEW l \in Loaders, loads[l].at = "answer",
         Filled(loads[l]).left > 0
  PROVE  lastHeld[loads[l].source] + Filled(loads[l]).left <= TtlOf(loads[l].source)
<1> DEFINE load == loads[l]
<1>1. load.source \in Sources /\ load.age \in 0..Horizon
  BY DEF TypeOK
<1>2. lastHeld[load.source] \in 0..Horizon /\ lastHeld[load.source] <= load.age
  BY <1>1 DEF TypeOK, LoadsFresh
<1>3. Filled(load).left = IF load.age < TtlOf(load.source) THEN TtlOf(load.source) - load.age ELSE 0
  BY DEF Filled, TtlOf
<1>4. TtlOf(load.source) \in Nat
  BY PollHealthAssumption DEF TtlOf
<1> HIDE DEF load
<1>5. load.age \in Nat /\ lastHeld[load.source] \in Nat
  BY <1>1, <1>2, PollHealthAssumption DEF Horizon
<1>6. load.age < TtlOf(load.source) /\ Filled(load).left = TtlOf(load.source) - load.age
  BY <1>3, <1>4, <1>5 DEF load
<1> QED
  BY <1>2, <1>4, <1>5, <1>6 DEF load

\* A refresh from a source that is fresh enough is not late.
LEMMA RefreshRecent ==
  ASSUME TypeOK, AppliedIsRecent, NEW s \in Sources, NEW w \in Nat, Refresh(s, w),
         lastHeld[s] <= w \/ lastHeld[s] <= TtlOf(s)
  PROVE  AppliedIsRecent'
<1>1. lastHeld[s] \in Nat /\ TtlOf(s) \in Nat
  BY PollHealthAssumption DEF TypeOK, Horizon, TtlOf
<1>2. ~(lastHeld[s] > (IF w > TtlOf(s) THEN w ELSE TtlOf(s)))
  BY <1>1
<1>3. ~Late(s, w)
  BY <1>2 DEF Late, TtlOf
<1>4. applied' = [applied EXCEPT ![poll.who] = [source |-> s, late |-> Late(s, w)]]
  BY DEF Refresh
<1> QED
  BY <1>3, <1>4 DEF AppliedIsRecent, TypeOK

LEMMA TickRecent ==
  ASSUME RecentInv, Tick
  PROVE  RowHeld' /\ LoadsFresh' /\ CacheFresh' /\ AppliedIsRecent'
<1> USE DEF RecentInv
<1>0. /\ UNCHANGED <<row, applied>>
      /\ lastHeld' = [s \in Sources |-> IF s = row THEN 0 ELSE Later(lastHeld[s], Horizon)]
      /\ row \in Sources
      /\ Horizon \in Nat /\ Ttl \in Nat /\ FailedTtl \in Nat
  BY PollHealthAssumption DEF Tick, settings, TypeOK, Sources, Horizon
<1>1. ASSUME NEW s \in Sources
      PROVE  /\ lastHeld'[s] \in 0..Horizon /\ lastHeld'[s] <= lastHeld[s] + 1
             /\ lastHeld'[s] <= Later(lastHeld[s], Horizon)
  <2>1. lastHeld[s] \in 0..Horizon
    BY DEF TypeOK
  <2>2. /\ Later(lastHeld[s], Horizon) \in 0..Horizon
        /\ Later(lastHeld[s], Horizon) <= lastHeld[s] + 1
    BY <1>0, <2>1, LaterBounds
  <2>3. CASE s = row
    BY <1>0, <2>1, <2>2, <2>3
  <2>4. CASE s # row
    <3>1. lastHeld'[s] = Later(lastHeld[s], Horizon)
      BY <1>0, <2>4
    <3> QED
      BY <1>0, <2>1, <2>2, <3>1
  <2> QED
    BY <2>3, <2>4
<1>2. LoadsFresh'
  <2> SUFFICES ASSUME NEW l \in Loaders, loads'[l].at = "answer"
               PROVE  lastHeld'[loads'[l].source] <= loads'[l].age
    BY DEF LoadsFresh
  <2>1. loads'[l] = IF loads[l].at = "idle" THEN loads[l]
                    ELSE [loads[l] EXCEPT !.age = Later(@, Horizon)]
    BY DEF Tick
  <2>2. loads[l] \in [at : {"idle", "query", "answer"}, source : Sources, age : 0..Horizon]
    BY DEF TypeOK
  <2>3. /\ loads[l].at = "answer" /\ loads'[l].source = loads[l].source
        /\ loads'[l].age = Later(loads[l].age, Horizon)
    BY <2>1, <2>2
  <2>4. /\ lastHeld[loads[l].source] <= loads[l].age
        /\ loads[l].source \in Sources /\ loads[l].age \in 0..Horizon
        /\ lastHeld[loads[l].source] \in 0..Horizon
    BY <2>2, <2>3 DEF LoadsFresh, TypeOK
  <2>5. Later(lastHeld[loads[l].source], Horizon) <= Later(loads[l].age, Horizon)
    BY <1>0, <2>4, LaterMonotone
  <2>6. Later(lastHeld[loads[l].source], Horizon) \in Nat /\ Later(loads[l].age, Horizon) \in Nat
    BY <1>0, <2>4 DEF Later
  <2>7. lastHeld'[loads[l].source] \in Nat
        /\ lastHeld'[loads[l].source] <= Later(lastHeld[loads[l].source], Horizon)
    BY <1>0, <1>1, <2>4
  <2> QED
    BY <2>3, <2>5, <2>6, <2>7
<1>3. CacheFresh'
  <2> SUFFICES ASSUME Cached'
               PROVE  lastHeld'[cache'.source] + cache'.left <= TtlOf(cache'.source)
    BY DEF CacheFresh, TtlOf
  <2>1. /\ cache \in [source : Sources \cup {Nothing}, left : 0..Ttl]
        /\ cache' = [cache EXCEPT !.left = IF @ > 0 THEN @ - 1 ELSE 0]
    BY DEF TypeOK, Tick
  <2>2. cache'.source = cache.source /\ cache'.left = cache.left - 1 /\ cache.left \in Nat \ {0}
        /\ cache.source \in Sources /\ cache.source # Nothing
    BY <1>0, <2>1 DEF Cached
  <2>3. lastHeld[cache.source] + cache.left <= TtlOf(cache.source)
    BY <2>2 DEF CacheFresh, Cached
  <2>4. /\ lastHeld[cache.source] \in Nat /\ TtlOf(cache.source) \in Nat
        /\ lastHeld'[cache.source] \in Nat
        /\ lastHeld'[cache.source] <= lastHeld[cache.source] + 1
    BY <1>0, <1>1, <2>2 DEF TypeOK, TtlOf
  <2> QED
    BY <2>2, <2>3, <2>4
<1>4. RowHeld'
  BY <1>0 DEF RowHeld
<1>5. AppliedIsRecent'
  BY <1>0 DEF AppliedIsRecent
<1> QED
  BY <1>2, <1>3, <1>4, <1>5

LEMMA NextRecent ==
  ASSUME RecentInv, [Next]_vars
  PROVE  RowHeld' /\ LoadsFresh' /\ CacheFresh' /\ AppliedIsRecent'
<1> USE DEF RecentInv
<1> DEFINE Goal == RowHeld /\ LoadsFresh /\ CacheFresh /\ AppliedIsRecent
<1>1. ASSUME NEW r \in Rows, SavePanel(r) PROVE Goal'
  <2>1. /\ lastHeld' = [lastHeld EXCEPT ![r] = 0] /\ row' = r /\ r \in Sources
        /\ UNCHANGED <<cache, loads, applied>>
    BY <1>1 DEF SavePanel, Sources, pollers
  <2>2. ASSUME NEW s \in Sources
        PROVE  lastHeld'[s] \in Nat /\ lastHeld[s] \in Nat /\ lastHeld'[s] <= lastHeld[s]
    BY <2>1, PollHealthAssumption DEF TypeOK, Horizon
  <2>3. RowHeld'
    BY <2>1 DEF RowHeld, TypeOK
  <2>4. LoadsFresh'
    <3> SUFFICES ASSUME NEW l \in Loaders, loads[l].at = "answer"
                 PROVE  lastHeld'[loads[l].source] <= loads[l].age
      BY <2>1 DEF LoadsFresh
    <3>1. loads[l].source \in Sources /\ loads[l].age \in Nat
          /\ lastHeld[loads[l].source] <= loads[l].age
      BY PollHealthAssumption DEF TypeOK, LoadsFresh, Horizon
    <3> QED
      BY <2>2, <3>1
  <2>5. CacheFresh'
    <3> SUFFICES ASSUME Cached
                 PROVE  lastHeld'[cache.source] + cache.left <= TtlOf(cache.source)
      BY <2>1 DEF CacheFresh, Cached, TtlOf
    <3>1. cache.source \in Sources /\ cache.left \in Nat /\ TtlOf(cache.source) \in Nat
          /\ lastHeld[cache.source] + cache.left <= TtlOf(cache.source)
      BY PollHealthAssumption DEF TypeOK, CacheFresh, Cached, TtlOf
    <3> QED
      BY <2>2, <3>1
  <2> QED
    BY <2>1, <2>3, <2>4, <2>5 DEF AppliedIsRecent
<1>2. CASE OtherLoads
  <2>1. LoadsFresh'
    BY <1>2 DEF OtherLoads, BeginQuery, Idle, LoadsFresh, TypeOK
  <2> QED
    BY <1>2, <2>1 DEF OtherLoads, settings, pollers, RowHeld, CacheFresh, Cached, TtlOf, AppliedIsRecent
<1>3. ASSUME NEW l \in Loaders, ReadRow(l) PROVE Goal'
  <2>1. PICK s \in {row, Env} :
          /\ loads' = [loads EXCEPT ![l].at = "answer", ![l].source = s]
          /\ lastHeld' = [lastHeld EXCEPT ![s] = 0]
          /\ UNCHANGED <<row, cache, applied>>
    <3>1. UNCHANGED <<row, cache, applied>>
      BY <1>3 DEF ReadRow, settings, pollers
    <3>2. CASE loads' = [loads EXCEPT ![l].at = "answer", ![l].source = row] /\ UNCHANGED lastHeld
      <4>1. lastHeld' = [lastHeld EXCEPT ![row] = 0]
        BY <3>2 DEF RowHeld, TypeOK, Sources
      <4> QED
        BY <3>1, <3>2, <4>1
    <3>3. CASE /\ loads' = [loads EXCEPT ![l].at = "answer", ![l].source = Env]
               /\ lastHeld' = [lastHeld EXCEPT ![Env] = 0]
      BY <3>1, <3>3
    <3> QED
      BY <1>3, <3>2, <3>3 DEF ReadRow
  <2>2. s \in Sources
    BY DEF TypeOK, Sources
  <2>3. ASSUME NEW t \in Sources
        PROVE  lastHeld'[t] \in Nat /\ lastHeld[t] \in Nat /\ lastHeld'[t] <= lastHeld[t]
    BY <2>1, <2>2, PollHealthAssumption DEF TypeOK, Horizon
  <2>4. RowHeld'
    BY <2>1, <2>2 DEF RowHeld, TypeOK, Sources
  <2>5. LoadsFresh'
    <3> SUFFICES ASSUME NEW k \in Loaders, loads'[k].at = "answer"
                 PROVE  lastHeld'[loads'[k].source] <= loads'[k].age
      BY DEF LoadsFresh
    <3>1. loads[k] \in [at : {"idle", "query", "answer"}, source : Sources, age : 0..Horizon]
          /\ loads[k].age \in Nat
      BY PollHealthAssumption DEF TypeOK, Horizon
    <3>2. CASE k = l
      <4>1. loads'[k] = [loads[k] EXCEPT !.at = "answer", !.source = s]
        BY <2>1, <3>2 DEF TypeOK
      <4>2. loads'[k].source = s /\ loads'[k].age = loads[k].age
        BY <3>1, <4>1
      <4>3. lastHeld'[s] = 0
        BY <2>1, <2>2 DEF TypeOK
      <4> QED
        BY <3>1, <4>2, <4>3
    <3>3. CASE k # l
      <4>1. loads'[k] = loads[k]
        BY <2>1, <3>3 DEF TypeOK
      <4>2. lastHeld[loads[k].source] <= loads[k].age /\ loads[k].source \in Sources
        BY <3>1, <4>1 DEF LoadsFresh
      <4> QED
        BY <2>3, <3>1, <4>1, <4>2
    <3> QED
      BY <3>2, <3>3
  <2>6. CacheFresh'
    <3> SUFFICES ASSUME Cached
                 PROVE  lastHeld'[cache.source] + cache.left <= TtlOf(cache.source)
      BY <2>1 DEF CacheFresh, Cached, TtlOf
    <3>1. cache.source \in Sources /\ cache.left \in Nat /\ TtlOf(cache.source) \in Nat
          /\ lastHeld[cache.source] + cache.left <= TtlOf(cache.source)
      BY PollHealthAssumption DEF TypeOK, CacheFresh, Cached, TtlOf
    <3> QED
      BY <2>3, <3>1
  <2> QED
    BY <2>1, <2>4, <2>5, <2>6 DEF AppliedIsRecent
<1>4. ASSUME NEW l \in Loaders, loads[l].at = "answer", cache' = Filled(loads[l]),
             loads' = [loads EXCEPT ![l] = Idle], UNCHANGED <<row, lastHeld>>
      PROVE  RowHeld' /\ LoadsFresh' /\ CacheFresh'
  <2>1. LoadsFresh'
    BY <1>4 DEF LoadsFresh, Idle, TypeOK
  <2>2. Filled(loads[l]).source = loads[l].source
    BY DEF Filled
  <2>3. Cached' => Filled(loads[l]).left > 0
    BY <1>4 DEF Cached
  <2>4. CacheFresh'
    <3> SUFFICES ASSUME Cached'
                 PROVE  lastHeld[loads[l].source] + Filled(loads[l]).left <= TtlOf(loads[l].source)
      BY <1>4, <2>2 DEF CacheFresh, TtlOf
    <3> QED
      BY <1>4, <2>3, FilledFresh
  <2> QED
    BY <1>4, <2>1, <2>4 DEF RowHeld
<1>5. CASE OtherLoaded
  <2>1. AppliedIsRecent'
    BY <1>5 DEF OtherLoaded, pollers, AppliedIsRecent
  <2>2. /\ loads["other"].at = "answer" /\ cache' = Filled(loads["other"])
        /\ loads' = [loads EXCEPT !["other"] = Idle] /\ UNCHANGED <<row, lastHeld>>
        /\ "other" \in Loaders
    BY <1>5 DEF OtherLoaded, settings, Loaders
  <2> QED
    BY <1>4, <2>1, <2>2
<1>6. CASE PollBegins
  <2>1. CASE Cached
    <3>1. /\ Refresh(cache.source, 0) /\ UNCHANGED <<cache, loads, row, lastHeld>>
          /\ cache.source \in Sources
      BY <1>6, <2>1 DEF PollBegins, Refresh, settings, Cached, TypeOK
    <3>2. lastHeld[cache.source] <= TtlOf(cache.source)
      <4>1. /\ cache.left \in Nat /\ lastHeld[cache.source] \in Nat /\ TtlOf(cache.source) \in Nat
            /\ lastHeld[cache.source] + cache.left <= TtlOf(cache.source)
        BY <2>1, <3>1, PollHealthAssumption DEF TypeOK, CacheFresh, TtlOf, Horizon
      <4> QED
        BY <4>1
    <3>3. AppliedIsRecent'
      BY <3>1, <3>2, RefreshRecent
    <3> QED
      BY <3>1, <3>3 DEF RowHeld, LoadsFresh, CacheFresh, Cached, TtlOf
  <2>2. CASE ~Cached
    <3>1. /\ loads' = BeginQuery("poll") /\ UNCHANGED <<row, cache, applied, lastHeld>>
      BY <1>6, <2>2 DEF PollBegins, settings
    <3>2. LoadsFresh'
      BY <3>1 DEF BeginQuery, Idle, LoadsFresh, TypeOK
    <3> QED
      BY <3>1, <3>2 DEF RowHeld, CacheFresh, Cached, TtlOf, AppliedIsRecent
  <2> QED
    BY <2>1, <2>2
<1>7. CASE PollLoaded
  <2>1. /\ Refresh(loads["poll"].source, loads["poll"].age) /\ loads["poll"].at = "answer"
        /\ cache' = Filled(loads["poll"]) /\ loads' = [loads EXCEPT !["poll"] = Idle]
        /\ UNCHANGED <<row, lastHeld>> /\ "poll" \in Loaders
    BY <1>7 DEF PollLoaded, Refresh, settings, Loaders
  <2>2. /\ loads["poll"].source \in Sources /\ loads["poll"].age \in Nat
        /\ lastHeld[loads["poll"].source] <= loads["poll"].age
    BY <2>1, PollHealthAssumption DEF TypeOK, LoadsFresh, Horizon
  <2>3. AppliedIsRecent'
    BY <2>1, <2>2, RefreshRecent
  <2> QED
    BY <1>4, <2>1, <2>3
<1>8. CASE PollSucceeds \/ PollFails \/ PollSlows \/ (\E b \in Beats : BeatRecorded(b))
           \/ UNCHANGED vars
  <2>1. UNCHANGED <<row, cache, loads, lastHeld, applied>>
    BY <1>8 DEF PollSucceeds, PollFails, PollSlows, BeatRecorded, vars, settings, pollers
  <2> QED
    BY <2>1 DEF RowHeld, LoadsFresh, CacheFresh, Cached, TtlOf, AppliedIsRecent
<1>9. CASE Tick
  BY <1>9, TickRecent
<1>10. CASE Restart
  BY <1>10 DEF Restart, Started, NoCache, Idle, settings, RowHeld, LoadsFresh, CacheFresh, Cached,
               AppliedIsRecent
<1> QED
  BY <1>1, <1>2, <1>3, <1>5, <1>6, <1>7, <1>8, <1>9, <1>10 DEF Next

\* A poll never runs on settings the row has not had within their time in the
\* cache, or within the time this poll waited for them, for any ages and any
\* number of loads that overlap, fail or end in the wrong order.
THEOREM SettingsAreRecent == Spec => []AppliedIsRecent
<1>1. Init => RecentInv
  BY InitTyped, InitRecent DEF RecentInv
<1>2. RecentInv /\ [Next]_vars => RecentInv'
  BY NextTyped, NextRecent DEF RecentInv
<1>3. RecentInv => AppliedIsRecent
  BY DEF RecentInv
<1> QED
  BY <1>1, <1>2, <1>3, PTL DEF Spec
=============================================================================
