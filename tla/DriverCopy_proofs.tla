-------------------------- MODULE DriverCopy_proofs --------------------------
(***************************************************************************)
(* What a driver's group is promised for any groups, links and titles, any *)
(* number of lanes at once, any chains of models and any faults: the       *)
(* routing findings say how the last alert was routed, the music costs no  *)
(* clip, and every job row that is open has an owner or a fault.           *)
(***************************************************************************)
EXTENDS DriverCopy, FiniteSetTheorems, TLAPS

LEMMA FaultType ==
  ASSUME FaultsTypeOK, NEW kind, Fault(kind) \/ NoFault
  PROVE  FaultsTypeOK'
  BY FaultsAssumption DEF FaultsTypeOK, Fault, NoFault

\* A finite set of numbers that is not empty has a greatest one: the smallest
\* set without one would have a smaller one, itself less an element.
LEMMA Greatest ==
  ASSUME NEW S \in SUBSET Nat, IsFiniteSet(S), S # {}
  PROVE  Max(S) \in S
<1> DEFINE Topped(T) == \E x \in T : \A y \in T : x >= y
           Bad == {T \in SUBSET S : T # {} /\ ~Topped(T)}
<1>1. Bad = {}
  <2> SUFFICES ASSUME Bad # {} PROVE FALSE
    OBVIOUS
  <2>1. IsWellFoundedOn(StrictSubsetOrdering(S), FiniteSubsetsOf(S))
    BY FS_StrictSubsetOrderingWellFounded
  <2>2. Bad \subseteq FiniteSubsetsOf(S)
    BY FS_Subset DEF FiniteSubsetsOf
  <2>3. PICK T \in Bad : \A U \in Bad : ~(<<U, T>> \in StrictSubsetOrdering(S))
    <3> HIDE DEF Bad
    <3> QED
      BY <2>1, <2>2, WFMin
  <2>4. PICK x \in T : TRUE
    OBVIOUS
  <2> DEFINE U == T \ {x}
  <2>5. U # {}
    BY <2>3, <2>4
  <2>6. <<U, T>> \in StrictSubsetOrdering(S)
    BY <2>4 DEF StrictSubsetOrdering
  <2>7. Topped(U)
    <3>1. U \in SUBSET S /\ U \notin Bad
      BY <2>3, <2>6
    <3> QED
      BY <2>5, <3>1
  <2>8. PICK m \in U : \A y \in U : m >= y
    BY <2>7
  <2>9. m \in Nat /\ x \in Nat /\ m \in T
    BY <2>4
  <2>10. Topped(T)
    <3>1. CASE m >= x
      BY <2>8, <2>9, <3>1
    <3>2. CASE ~(m >= x)
      <4>1. \A y \in T : y \in Nat
        OBVIOUS
      <4>2. \A y \in T : x >= y
        BY <2>8, <2>9, <3>2, <4>1
      <4> QED
        BY <2>4, <4>2
    <3> QED
      BY <3>1, <3>2
  <2> QED
    BY <2>10
<1>2. Topped(S)
  BY <1>1
<1> QED
  BY <1>2 DEF Max

----------------------------------------------------------------------------
(* Types *)

LEMMA ParsedType ==
  ASSUME RoutingTypeOK, NEW label
  PROVE  ParsedGroup(label) \in Groups \cup {NoGroup}
<1> DEFINE matches == {g \in Groups : titles[g] # "other"}
           named == {g \in matches : titles[g] = "unit and name" /\ label = "unit and name"}
<1>1. /\ matches \in SUBSET Nat /\ IsFiniteSet(matches)
      /\ named \in SUBSET Nat /\ IsFiniteSet(named)
  BY RoutingAssumption, FS_Subset
<1>2. /\ matches # {} => Max(matches) \in Groups
      /\ named # {} => Max(named) \in Groups
  BY <1>1, Greatest
<1> QED
  BY <1>2 DEF ParsedGroup

LEMMA ChoiceType ==
  ASSUME NEW claims \in SUBSET Groups, NEW parsed \in Groups \cup {NoGroup}
  PROVE  Choice(claims, parsed) \in [group : Groups \cup {NoGroup}, finding : Keys \cup {NoKey}]
<1>1. claims # {} => Max(claims) \in Groups
  BY RoutingAssumption, FS_Subset, Greatest
<1> QED
  BY <1>1 DEF Choice, Keys, NoKey

LEMMA IdleTypes ==
  /\ IdleRoute \in Routes
  /\ IdleCaption \in AiStates
  /\ IdleOverlay \in Overlays
  /\ IdleCopy \in Copies
<1>1. IdleRoute \in Routes
  BY DEF IdleRoute, Routes, Labels, NoKey
<1>2. IdleCaption \in AiStates
  BY CaptionsAssumption DEF IdleCaption, AiStates, Captioned
<1>3. IdleOverlay \in Overlays
  BY DEF IdleOverlay, Overlays, Sizes
<1>4. IdleCopy \in Copies
  BY DEF IdleCopy, Copies, Media, Clips, Sizes
<1> QED
  BY <1>1, <1>2, <1>3, <1>4

LEMMA RouteStepTyped ==
  ASSUME RoutingTypeOK, FaultsTypeOK, NEW l \in Lanes, RouteStep(l)
  PROVE  RoutingTypeOK' /\ FaultsTypeOK'
<1>1. route[l] \in Routes
  BY DEF RoutingTypeOK
<1>2. ASSUME NEW r \in Routes, route' = [route EXCEPT ![l] = r]
      PROVE  route' \in [Lanes -> Routes]
  BY <1>2 DEF RoutingTypeOK
<1>3. CASE ReadClaims(l)
  <2>1. [route[l] EXCEPT !.at = "parse", !.claims = links] \in Routes
    BY <1>1 DEF RoutingTypeOK, Routes
  <2> QED
    BY <1>3, <2>1 DEF ReadClaims, RoutingTypeOK, FaultsTypeOK
<1>4. CASE ReadTitles(l)
  <2> DEFINE c == Choice(route[l].claims, ParsedGroup(route[l].label))
             s == [route[l] EXCEPT !.group = c.group, !.filed = c.finding, !.claims = {}]
  <2>1. c \in [group : Groups \cup {NoGroup}, finding : Keys \cup {NoKey}]
    BY <1>1, ParsedType, ChoiceType DEF Routes
  <2> HIDE DEF c
  <2>2. s \in Routes
    BY <1>1, <2>1 DEF Routes
  <2>3. [s EXCEPT !.at = IF c.finding # NoKey THEN "file" ELSE Onward(s)] \in Routes
    BY <2>2 DEF Routes, Onward
  <2> QED
    BY <1>2, <1>4, <2>3 DEF ReadTitles, RoutingTypeOK, FaultsTypeOK, c
<1>5. CASE ReadFails(l)
  <2>1. [IdleRoute EXCEPT !.at = "done", !.clean = FALSE] \in Routes
    BY DEF IdleRoute, Routes, Labels, NoKey
  <2> QED
    BY <1>2, <1>5, <2>1, FaultType DEF ReadFails, RoutingTypeOK
<1>6. CASE FileFinding(l)
  <2>1. findings' \in [Keys -> Statuses]
    BY <1>6 DEF FileFinding, Upserted, RoutingTypeOK, Statuses
  <2>2. /\ [route[l] EXCEPT !.at = Onward(route[l])] \in Routes
        /\ [route[l] EXCEPT !.at = Onward(route[l]), !.clean = FALSE] \in Routes
    BY <1>1 DEF Routes, Onward
  <2>3. route' \in [Lanes -> Routes]
    BY <1>6, <2>2 DEF FileFinding, RoutingTypeOK
  <2>4. FaultsTypeOK'
    BY <1>6, FaultType DEF FileFinding
  <2> QED
    BY <1>6, <2>1, <2>3, <2>4 DEF FileFinding, RoutingTypeOK
<1>7. CASE SettleFindings(l)
  <2>1. findings' \in [Keys -> Statuses]
    BY <1>7 DEF SettleFindings, SettledExcept, RoutingTypeOK, Statuses
  <2>2. route' \in [Lanes -> Routes]
    <3>1. [route[l] EXCEPT !.at = "done"] \in Routes
      BY <1>1 DEF Routes
    <3> QED
      BY <1>7, <3>1 DEF SettleFindings, RoutingTypeOK
  <2>3. settledKey' \in Keys \cup {NoKey, Unknown}
    BY <1>1, <1>7 DEF SettleFindings, Routes
  <2>4. FaultsTypeOK'
    BY <1>7, FaultType DEF SettleFindings
  <2> QED
    BY <1>7, <2>1, <2>2, <2>3, <2>4 DEF SettleFindings, RoutingTypeOK
<1> QED
  BY <1>3, <1>4, <1>5, <1>6, <1>7 DEF RouteStep

LEMMA RouteStartTyped ==
  ASSUME RoutingTypeOK, NEW l \in Lanes, NEW label \in Labels, RouteStart(l, label)
  PROVE  RoutingTypeOK' /\ UNCHANGED faults
<1> DEFINE others == {k \in Lanes \ {l} : Routing(k)}
<1>1. ASSUME NEW k \in Lanes
      PROVE  /\ [IdleRoute EXCEPT !.at = "claims", !.label = label, !.clean = others = {}] \in Routes
             /\ [route[k] EXCEPT !.clean = @ /\ k \notin others] \in Routes
  <2>1. route[k] \in Routes
    BY DEF RoutingTypeOK
  <2>2. (others = {}) \in BOOLEAN /\ (route[k].clean /\ k \notin others) \in BOOLEAN
    OBVIOUS
  <2> HIDE DEF others
  <2>3. [IdleRoute EXCEPT !.at = "claims", !.label = label, !.clean = others = {}] \in Routes
    BY <2>2 DEF IdleRoute, Routes, NoKey
  <2>4. [route[k] EXCEPT !.clean = @ /\ k \notin others] \in Routes
    BY <2>1, <2>2 DEF Routes
  <2> QED
    BY <2>3, <2>4
<1>2. route' \in [Lanes -> Routes]
  BY <1>1 DEF RouteStart
<1> QED
  BY <1>2 DEF RouteStart, RoutingTypeOK

LEMMA CaptionTyped ==
  ASSUME CaptionsTypeOK, NEW l \in AiLanes,
         CaptionStep(l) \/ (\E crash \in BOOLEAN : CaptionStart(l, crash))
  PROVE  CaptionsTypeOK'
<1>1. ASSUME NEW caption \in Captioned
      PROVE  Captioning(l, caption) \in [AiLanes -> AiStates]
  <2>1. IdleCaption \in AiStates /\ "done" \in {"idle", "done"} \cup Asking
    BY IdleTypes
  <2>2. [IdleCaption EXCEPT !.at = "done", !.caption = caption] \in AiStates
    BY <2>1 DEF AiStates
  <2> QED
    BY <2>1, <2>2 DEF Captioning, CaptionsTypeOK
<1>2. ASSUME NEW service \in Asking
      PROVE  Ask(l, service) \in [AiLanes -> AiStates]
  <2>1. [IdleCaption EXCEPT !.at = service] \in AiStates
    BY CaptionsAssumption DEF IdleCaption, AiStates, Captioned
  <2> QED
    BY <2>1 DEF Ask, CaptionsTypeOK
<1>3. /\ {"standard", "friendly", "broken"} = Captioned
      /\ {"groq", "gemini", "gemini again"} = Asking
  BY DEF Captioned, Asking
<1>4. ai[l] \in AiStates
  BY DEF CaptionsTypeOK
<1>5. CASE \E crash \in BOOLEAN : CaptionStart(l, crash)
  BY <1>1, <1>2, <1>3, <1>5 DEF CaptionStart, CaptionsTypeOK
<1>6. CASE ServiceAnswers(l)
  BY <1>1, <1>3, <1>6 DEF ServiceAnswers, CaptionsTypeOK
<1>7. CASE ServiceTooShort(l) \/ GroqRefuses(l)
  BY <1>1, <1>2, <1>3, <1>7 DEF ServiceTooShort, GroqRefuses, CaptionsTypeOK
<1>8. CASE GroqErrors(l)
  <2>1. [ai[l] EXCEPT !.model = @ + 1] \in AiStates
    BY <1>4 DEF AiStates
  <2> QED
    BY <1>1, <1>2, <1>3, <1>8, <2>1 DEF GroqErrors, CaptionsTypeOK
<1>9. CASE GeminiBusy(l)
  <2>1. ai[l].try < MaxTries => [ai[l] EXCEPT !.try = @ + 1] \in AiStates
    BY <1>4, CaptionsAssumption DEF AiStates
  <2> QED
    BY <1>9, <2>1 DEF GeminiBusy, CaptionsTypeOK
<1>10. CASE GeminiErrors(l)
  <2>1. [ai[l] EXCEPT !.model = @ + 1, !.try = 1] \in AiStates
    <3>1. ASSUME NEW r \in AiStates, NEW m \in Nat \ {0}, NEW t \in 1..MaxTries
          PROVE  [r EXCEPT !.model = m, !.try = t] \in AiStates
      BY DEF AiStates
    <3>2. 1 \in 1..MaxTries /\ ai[l].model + 1 \in Nat \ {0}
      BY <1>4, CaptionsAssumption DEF AiStates
    <3> QED
      BY <1>4, <3>1, <3>2
  <2>2. [ai EXCEPT ![l].model = @ + 1, ![l].try = 1] \in [AiLanes -> AiStates]
    BY <2>1 DEF CaptionsTypeOK
  <2> QED
    BY <1>1, <1>2, <1>3, <1>10, <2>2 DEF GeminiErrors, GeminiFails, CaptionsTypeOK
<1> QED
  BY <1>5, <1>6, <1>7, <1>8, <1>9, <1>10 DEF CaptionStep

----------------------------------------------------------------------------
(* The jobs of the overlay *)

\* An overlay holds a job's id between the insert and the row's end.
JobAtWork ==
  \A l \in MusicLanes :
    overlay[l].job => overlay[l].at \in {"probe", "mix", "pass1", "pass2", "finish"}

\* Nothing the overlay does makes a clip too large that was not.
NoGrowth ==
  \A l \in MusicLanes : overlay[l].out = "huge" => overlay[l].original = "huge"

JobInv == OverlayTypeOK /\ JobAtWork /\ JobsAccounted /\ NoGrowth

\* How one lane's change moves the count of holders.
LEMMA HolderCount ==
  ASSUME OverlayTypeOK, NEW l \in MusicLanes, NEW o \in Overlays,
         overlay' = [overlay EXCEPT ![l] = o]
  PROVE  /\ overlay' \in [MusicLanes -> Overlays]
         /\ Cardinality(JobHolders) \in Nat
         /\ overlay[l].job /\ o.job => Cardinality(JobHolders') = Cardinality(JobHolders)
         /\ ~overlay[l].job /\ ~o.job => Cardinality(JobHolders') = Cardinality(JobHolders)
         /\ ~overlay[l].job /\ o.job => Cardinality(JobHolders') = Cardinality(JobHolders) + 1
         /\ overlay[l].job /\ ~o.job => /\ Cardinality(JobHolders') = Cardinality(JobHolders) - 1
                                        /\ Cardinality(JobHolders) \in Nat \ {0}
<1>1. overlay' \in [MusicLanes -> Overlays]
  BY DEF OverlayTypeOK
<1>2. IsFiniteSet(JobHolders) /\ Cardinality(JobHolders) \in Nat
  BY OverlayAssumption, FS_Subset, FS_CardinalityType DEF JobHolders
<1>3. \A k \in MusicLanes : overlay'[k] = IF k = l THEN o ELSE overlay[k]
  BY DEF OverlayTypeOK
<1>4. (overlay[l].job = o.job) => JobHolders' = JobHolders
  BY <1>3 DEF JobHolders
<1>5. ~overlay[l].job /\ o.job => JobHolders' = JobHolders \cup {l} /\ l \notin JobHolders
  BY <1>3 DEF JobHolders
<1>6. overlay[l].job /\ ~o.job => JobHolders' = JobHolders \ {l} /\ l \in JobHolders
  BY <1>3 DEF JobHolders
<1>7. overlay[l].job \in BOOLEAN /\ o.job \in BOOLEAN
  BY DEF OverlayTypeOK, Overlays
<1>8. CASE overlay[l].job = o.job
  BY <1>1, <1>2, <1>4, <1>8
<1>9. CASE ~overlay[l].job /\ o.job
  <2>1. Cardinality(JobHolders') = Cardinality(JobHolders) + 1
    BY <1>2, <1>5, <1>9, FS_AddElement
  <2> QED
    BY <1>1, <1>2, <1>9, <2>1
<1>10. CASE overlay[l].job /\ ~o.job
  <2>1. /\ Cardinality(JobHolders') = Cardinality(JobHolders) - 1
        /\ Cardinality(JobHolders) # 0
    <3>1. JobHolders # {}
      BY <1>6, <1>10
    <3> QED
      BY <1>2, <1>6, <1>10, <3>1, FS_RemoveElement, FS_EmptySet
  <2> QED
    BY <1>1, <1>2, <1>10, <2>1
<1> QED
  BY <1>7, <1>8, <1>9, <1>10

\* A change of one lane that moves no row keeps the jobs accounted for.
LEMMA LaneKeepsJobs ==
  ASSUME JobInv, NEW l \in MusicLanes, NEW o \in Overlays,
         overlay' = [overlay EXCEPT ![l] = o], UNCHANGED <<processing, orphans>>,
         o.job = overlay[l].job,
         o.job => o.at \in {"probe", "mix", "pass1", "pass2", "finish"},
         o.out = "huge" => o.original = "huge"
  PROVE  JobInv'
<1>1. /\ overlay' \in [MusicLanes -> Overlays]
      /\ Cardinality(JobHolders') = Cardinality(JobHolders)
  <2>1. o.job \in BOOLEAN
    BY DEF Overlays
  <2> QED
    BY <2>1, HolderCount DEF JobInv
<1>2. \A k \in MusicLanes : overlay'[k] = IF k = l THEN o ELSE overlay[k]
  BY DEF JobInv, OverlayTypeOK
<1>3. JobAtWork' /\ NoGrowth'
  BY <1>2 DEF JobInv, JobAtWork, NoGrowth
<1> QED
  BY <1>1, <1>3 DEF JobInv, OverlayTypeOK, JobsAccounted

LEMMA OverlayStepKeeps ==
  ASSUME JobInv, FaultsTypeOK, NEW l \in MusicLanes, OverlayStep(l)
  PROVE  /\ JobInv' /\ FaultsTypeOK'
         /\ \A k \in MusicLanes : overlay'[k].original = overlay[k].original
<1> USE DEF JobInv
<1>1. overlay[l] \in Overlays
  BY DEF OverlayTypeOK
<1> DEFINE Keeps(o) ==
      /\ o \in Overlays /\ o.job = overlay[l].job /\ o.original = overlay[l].original
      /\ o.at \in {"probe", "mix", "pass1", "pass2", "finish"}
      /\ o.out = "huge" => o.original = "huge"
<1>2. ASSUME NEW o, Keeps(o), overlay' = [overlay EXCEPT ![l] = o],
             UNCHANGED <<processing, orphans, faults>>
      PROVE  /\ JobInv' /\ FaultsTypeOK'
             /\ \A k \in MusicLanes : overlay'[k].original = overlay[k].original
  BY <1>2, LaneKeepsJobs DEF OverlayTypeOK, FaultsTypeOK
<1>3. overlay[l].out = "huge" => overlay[l].original = "huge"
  BY DEF NoGrowth
<1>4. ASSUME NEW size \in Sizes, size = "huge" => overlay[l].original = "huge"
      PROVE  Keeps([overlay[l] EXCEPT !.at = "finish", !.out = size])
  BY <1>1, <1>4 DEF Overlays
<1>5. ASSUME NEW at \in {"mix", "pass1", "pass2"}
      PROVE  Keeps([overlay[l] EXCEPT !.at = at])
  BY <1>1, <1>3 DEF Overlays
<1>6. ASSUME NEW size
      PROVE  Returning(l, size) = [overlay EXCEPT ![l] = [overlay[l] EXCEPT !.at = "finish", !.out = size]]
  BY DEF Returning, OverlayTypeOK
<1>7. ASSUME NEW at
      PROVE  [overlay EXCEPT ![l].at = at] = [overlay EXCEPT ![l] = [overlay[l] EXCEPT !.at = at]]
  BY DEF OverlayTypeOK
<1> HIDE DEF Keeps
<1>8. CASE GiveUp(l)
  <2>1. overlay[l].original \in Sizes
    BY <1>1 DEF Overlays
  <2> QED
    BY <1>2, <1>4, <1>6, <1>8, <2>1 DEF GiveUp
<1>9. CASE ProbeClip(l)
  BY <1>2, <1>5, <1>7, <1>9 DEF ProbeClip
<1>10. CASE MixMusic(l)
  <2>1. "fits" \in Sizes
    BY DEF Sizes
  <2> QED
    BY <1>2, <1>4, <1>5, <1>6, <1>7, <1>10, <2>1 DEF MixMusic
<1>11. CASE Compress(l)
  <2>1. overlay[l].original \in Sizes
    BY <1>1 DEF Overlays
  <2>2. PICK size \in Sizes :
          overlay' = IF size \in Acceptable(overlay[l].at) THEN Returning(l, size)
                     ELSE IF overlay[l].at = "pass1" THEN [overlay EXCEPT ![l].at = "pass2"]
                     ELSE Returning(l, overlay[l].original)
    BY <1>11 DEF Compress
  <2>3. UNCHANGED <<processing, orphans, faults>>
    BY <1>11 DEF Compress
  <2>4. CASE size \in Acceptable(overlay[l].at)
    <3>1. size # "huge"
      BY <2>4 DEF Acceptable, Sendable
    <3> QED
      BY <1>2, <1>4, <1>6, <2>2, <2>3, <2>4, <3>1
  <2>5. CASE size \notin Acceptable(overlay[l].at)
    BY <1>2, <1>4, <1>5, <1>6, <1>7, <2>1, <2>2, <2>3, <2>5
  <2> QED
    BY <2>4, <2>5
<1>12. CASE OpenJob(l)
  <2>1. ~overlay[l].job /\ overlay[l].at = "open"
    BY <1>12 DEF OpenJob, JobAtWork
  <2>2. PICK job \in BOOLEAN :
          /\ overlay' = [overlay EXCEPT ![l] = [overlay[l] EXCEPT !.at = "probe", !.job = job]]
          /\ \/ /\ job
                /\ processing' = processing + 1 /\ UNCHANGED <<orphans, faults>>
             \/ /\ ~job /\ Fault("query")
                /\ \E inserted \in 0..1 :
                     processing' = processing + inserted /\ orphans' = orphans + inserted
    <3>1. CASE /\ overlay' = [overlay EXCEPT ![l].at = "probe", ![l].job = TRUE]
               /\ processing' = processing + 1 /\ UNCHANGED orphans /\ NoFault
      <4>1. overlay' = [overlay EXCEPT ![l] = [overlay[l] EXCEPT !.at = "probe", !.job = TRUE]]
        BY <3>1 DEF OverlayTypeOK
      <4> QED
        BY <3>1, <4>1 DEF NoFault
    <3>2. CASE /\ Fault("query")
               /\ overlay' = [overlay EXCEPT ![l].at = "probe"]
               /\ \E inserted \in 0..1 :
                    processing' = processing + inserted /\ orphans' = orphans + inserted
      <4>1. [overlay[l] EXCEPT !.at = "probe"] = [overlay[l] EXCEPT !.at = "probe", !.job = FALSE]
        BY <1>1, <2>1 DEF Overlays
      <4>2. overlay' = [overlay EXCEPT ![l] = [overlay[l] EXCEPT !.at = "probe", !.job = FALSE]]
        BY <3>2, <4>1 DEF OverlayTypeOK
      <4> QED
        BY <3>2, <4>2
    <3> QED
      BY <1>12, <3>1, <3>2 DEF OpenJob
  <2> DEFINE o == [overlay[l] EXCEPT !.at = "probe", !.job = job]
  <2>3. /\ o \in Overlays /\ o.job = job /\ o.original = overlay[l].original /\ o.at = "probe"
        /\ o.out = overlay[l].out
    BY <1>1 DEF Overlays
  <2> HIDE DEF o
  <2>4. overlay' = [overlay EXCEPT ![l] = o]
    BY <2>2 DEF o
  <2>5. /\ overlay' \in [MusicLanes -> Overlays] /\ Cardinality(JobHolders) \in Nat
        /\ job => Cardinality(JobHolders') = Cardinality(JobHolders) + 1
        /\ ~job => Cardinality(JobHolders') = Cardinality(JobHolders)
    BY <2>1, <2>3, <2>4, HolderCount
  <2>6. processing' \in Nat /\ orphans' \in Nat /\ JobsAccounted'
    BY <2>2, <2>5 DEF OverlayTypeOK, JobsAccounted
  <2>7. FaultsTypeOK'
    BY <2>2, FaultType DEF NoFault
  <2>8. \A k \in MusicLanes : overlay'[k] = IF k = l THEN o ELSE overlay[k]
    BY <2>4 DEF OverlayTypeOK
  <2>9. JobAtWork' /\ NoGrowth'
    BY <2>3, <2>8 DEF JobAtWork, NoGrowth
  <2> QED
    BY <2>3, <2>5, <2>6, <2>7, <2>8, <2>9 DEF OverlayTypeOK
<1>13. CASE FinishJob(l)
  <2> DEFINE o == [overlay[l] EXCEPT !.at = "done", !.job = FALSE]
  <2>1. /\ o \in Overlays /\ ~o.job /\ o.original = overlay[l].original /\ o.at = "done"
        /\ o.out = overlay[l].out
    BY <1>1 DEF Overlays
  <2>2. overlay' = [overlay EXCEPT ![l] = o]
    BY <1>13 DEF FinishJob, OverlayTypeOK
  <2> HIDE DEF o
  <2>3. /\ overlay' \in [MusicLanes -> Overlays]
        /\ ~overlay[l].job => Cardinality(JobHolders') = Cardinality(JobHolders)
        /\ overlay[l].job => /\ Cardinality(JobHolders') = Cardinality(JobHolders) - 1
                             /\ Cardinality(JobHolders) \in Nat \ {0}
        /\ Cardinality(JobHolders) \in Nat
    BY <2>1, <2>2, HolderCount
  <2>4. \/ ~overlay[l].job /\ UNCHANGED <<processing, orphans, faults>>
        \/ overlay[l].job /\ processing' = processing - 1 /\ UNCHANGED <<orphans, faults>>
        \/ overlay[l].job /\ Fault("query") /\ orphans' = orphans + 1 /\ UNCHANGED processing
    BY <1>13 DEF FinishJob, NoFault
  <2>5. processing' \in Nat /\ orphans' \in Nat /\ JobsAccounted'
    BY <2>3, <2>4 DEF OverlayTypeOK, JobsAccounted
  <2>6. FaultsTypeOK'
    BY <2>4, FaultType DEF NoFault
  <2>7. \A k \in MusicLanes : overlay'[k] = IF k = l THEN o ELSE overlay[k]
    BY <2>2 DEF OverlayTypeOK
  <2>8. JobAtWork' /\ NoGrowth'
    BY <2>1, <2>7 DEF JobAtWork, NoGrowth
  <2> QED
    BY <2>1, <2>3, <2>5, <2>6, <2>7, <2>8 DEF OverlayTypeOK
<1> QED
  BY <1>8, <1>9, <1>10, <1>11, <1>12, <1>13 DEF OverlayStep

----------------------------------------------------------------------------
(* The whole copy: types and jobs *)

CopyInv == TypeOK /\ JobInv

LEMMA SameLanes == AiLanes = Lanes /\ MusicLanes = Lanes
  BY DriverCopyAssumption

LEMMA FormTypes ==
  ASSUME NEW r \in Copies
  PROVE  /\ FirstMedium(r) \in Media
         /\ \A m \in Media : Trying(r, m) \in Copies
         /\ FallBack(r) \in Copies
         /\ Ended(r) \in Copies
<1>1. ASSUME NEW m \in Media
      PROVE  Trying(r, m) \in Copies
  BY <1>1 DEF Trying, Copies
<1>2. FirstMedium(r) \in Media
  BY DEF FirstMedium, Media
<1>3. FallBack(r) \in Copies
  <2>1. (IF r.medium = "dual" /\ ~r.tooLarge THEN "single" ELSE "text") \in Media
    BY DEF Media
  <2> QED
    BY <1>1, <2>1 DEF FallBack
<1>4. Ended(r) \in Copies
  BY DEF Ended, Copies
<1> QED
  BY <1>1, <1>2, <1>3, <1>4

LEMMA OverlayStartKeeps ==
  ASSUME JobInv, NEW l \in MusicLanes, NEW size \in Sizes, NEW speeding \in BOOLEAN,
         OverlayStart(l, size, speeding)
  PROVE  /\ JobInv'
         /\ \A k \in MusicLanes :
              overlay'[k].original = IF k = l THEN size ELSE overlay[k].original
<1>1. PICK at \in {"open", "done"} :
        /\ overlay' = [overlay EXCEPT ![l] =
             [IdleOverlay EXCEPT !.at = at, !.original = size, !.out = size]]
        /\ UNCHANGED <<processing, orphans>>
  BY DEF OverlayStart
<1> DEFINE o == [IdleOverlay EXCEPT !.at = at, !.original = size, !.out = size]
<1>2. o \in Overlays /\ ~o.job /\ o.original = size /\ o.out = size
  BY DEF IdleOverlay, Overlays
<1>3. overlay[l].job = FALSE
  BY DEF OverlayStart, JobInv, JobAtWork, OverlayTypeOK, Overlays
<1>4. o.job = FALSE
  BY <1>2 DEF Overlays
<1> HIDE DEF o
<1>5. JobInv'
  BY <1>1, <1>2, <1>3, <1>4, LaneKeepsJobs DEF o
<1> QED
  BY <1>1, <1>2, <1>5 DEF JobInv, OverlayTypeOK, o

LEMMA IdleOverlayKeeps ==
  ASSUME JobInv, NEW l \in MusicLanes, overlay[l].at = "done",
         overlay' = [overlay EXCEPT ![l] = IdleOverlay], UNCHANGED <<processing, orphans>>
  PROVE  JobInv'
<1>1. overlay[l].job = FALSE
  BY DEF JobInv, JobAtWork, OverlayTypeOK, Overlays
<1>2. IdleOverlay.job = FALSE /\ IdleOverlay.out = "fits"
  BY DEF IdleOverlay
<1> QED
  BY <1>1, <1>2, IdleTypes, LaneKeepsJobs

LEMMA InitCopy == Init => CopyInv
<1> SUFFICES ASSUME Init PROVE CopyInv
  OBVIOUS
<1>1. RoutingTypeOK
  <2>0. MaxEdits \in Nat /\ LinkedAtStart \subseteq Groups /\ TitlesAtStart \in [Groups -> Titles]
    BY RoutingAssumption DEF Titles
  <2>1. links \subseteq Groups /\ titles \in [Groups -> Titles] /\ edits \in 0..MaxEdits
    BY <2>0 DEF Init, RoutingInit
  <2>2. findings \in [Keys -> Statuses]
    BY DEF Init, RoutingInit, Statuses
  <2>3. route \in [Lanes -> Routes] /\ settledKey \in Keys \cup {NoKey, Unknown}
    BY IdleTypes DEF Init, RoutingInit
  <2> QED
    BY <2>1, <2>2, <2>3 DEF RoutingTypeOK
<1>2. CaptionsTypeOK
  BY IdleTypes DEF Init, CaptionsInit, CaptionsTypeOK
<1>3. OverlayTypeOK
  BY IdleTypes DEF Init, OverlayInit, OverlayTypeOK
<1>4. copy \in [Lanes -> Copies]
  BY IdleTypes DEF Init
<1>5. FaultsTypeOK
  BY FaultsAssumption DEF Init, FaultsInit, FaultsTypeOK
<1>6. JobAtWork /\ NoGrowth /\ JobHolders = {}
  BY DEF Init, OverlayInit, IdleOverlay, JobAtWork, NoGrowth, JobHolders
<1>7. JobsAccounted
  BY <1>6, FS_EmptySet DEF Init, OverlayInit, JobsAccounted
<1> QED
  BY <1>1, <1>2, <1>3, <1>4, <1>5, <1>6, <1>7 DEF CopyInv, TypeOK, JobInv

LEMMA CrashKeeps ==
  ASSUME CopyInv, Crash
  PROVE  CopyInv'
<1> USE DEF CopyInv
<1>1. FaultsTypeOK'
  BY FaultType DEF Crash, TypeOK
<1>2. /\ route' \in [Lanes -> Routes] /\ ai' \in [AiLanes -> AiStates]
      /\ overlay' \in [MusicLanes -> Overlays] /\ copy' \in [Lanes -> Copies]
  BY IdleTypes, SameLanes DEF Crash
<1>3. settledKey' \in Keys \cup {NoKey, Unknown}
  BY DEF Crash, TypeOK, RoutingTypeOK
<1>4. Cardinality(JobHolders) \in Nat
  BY OverlayAssumption, FS_Subset, FS_CardinalityType DEF JobHolders
<1>5. JobHolders' = {} /\ JobAtWork' /\ NoGrowth'
  BY SameLanes DEF Crash, IdleOverlay, JobHolders, JobAtWork, NoGrowth
<1>6. orphans' \in Nat /\ processing' \in Nat /\ JobsAccounted'
  <2>1. Cardinality(JobHolders') = 0
    BY <1>5, FS_EmptySet
  <2>2. /\ orphans' = orphans + Cardinality(JobHolders) /\ processing' = processing
        /\ processing = Cardinality(JobHolders) + orphans /\ orphans \in Nat /\ processing \in Nat
    BY DEF Crash, JobInv, OverlayTypeOK, JobsAccounted
  <2> QED
    BY <1>4, <2>1, <2>2 DEF JobsAccounted
<1> QED
  BY <1>1, <1>2, <1>3, <1>5, <1>6
  DEF Crash, TypeOK, RoutingTypeOK, CaptionsTypeOK, OverlayTypeOK, JobInv

LEMMA SameOverlay ==
  ASSUME JobInv, UNCHANGED overlayVars
  PROVE  JobInv'
<1>1. JobHolders' = JobHolders
  BY DEF overlayVars, JobHolders
<1> QED
  BY <1>1 DEF overlayVars, JobInv, OverlayTypeOK, JobAtWork, JobsAccounted, NoGrowth

LEMMA NextCopy ==
  ASSUME CopyInv, [Next]_vars
  PROVE  CopyInv'
<1> USE DEF CopyInv
<1>0. /\ RoutingTypeOK /\ CaptionsTypeOK /\ OverlayTypeOK /\ FaultsTypeOK
      /\ copy \in [Lanes -> Copies]
  BY DEF TypeOK
<1>a. UNCHANGED routingVars => RoutingTypeOK'
  BY <1>0 DEF routingVars, RoutingTypeOK
<1>b. UNCHANGED ai => CaptionsTypeOK'
  BY <1>0 DEF CaptionsTypeOK
<1>c. UNCHANGED faults => FaultsTypeOK'
  BY <1>0 DEF FaultsTypeOK
<1>d. ASSUME RoutingTypeOK', CaptionsTypeOK', FaultsTypeOK', copy' \in [Lanes -> Copies], JobInv'
      PROVE  CopyInv'
  BY <1>d DEF TypeOK, JobInv
<1>1. ASSUME NEW l \in Lanes, TakeAlert(l) PROVE CopyInv'
  <2>1. PICK label \in Labels : RouteStart(l, label)
    BY <1>1 DEF TakeAlert
  <2>2. RoutingTypeOK' /\ UNCHANGED faults
    BY <1>0, <2>1, RouteStartTyped
  <2>3. PICK clips \in ClipSets[l] : \E size \in SizesOf(clips), have \in SUBSET clips :
          copy' = [copy EXCEPT ![l] =
            [IdleCopy EXCEPT !.at = "route", !.clips = clips, !.size = size, !.have = have]]
    BY <1>1 DEF TakeAlert
  <2>4. PICK size \in SizesOf(clips), have \in SUBSET clips :
          copy' = [copy EXCEPT ![l] =
            [IdleCopy EXCEPT !.at = "route", !.clips = clips, !.size = size, !.have = have]]
    BY <2>3
  <2>5. clips \in SUBSET Clips /\ have \in SUBSET Clips /\ size \in [Clips -> Sizes]
    BY DriverCopyAssumption DEF SizesOf, Clips, Sizes
  <2>6. [IdleCopy EXCEPT !.at = "route", !.clips = clips, !.size = size, !.have = have] \in Copies
    BY <2>5 DEF IdleCopy, Copies, Media
  <2>7. copy' \in [Lanes -> Copies]
    BY <1>0, <2>4, <2>6
  <2> QED
    BY <1>1, <1>b, <1>c, <1>d, <2>2, <2>7, SameOverlay DEF TakeAlert
<1>2. ASSUME NEW l \in Lanes, RoutingStep(l) PROVE CopyInv'
  BY <1>0, <1>2, <1>b, <1>d, RouteStepTyped, SameOverlay DEF RoutingStep
<1>3. ASSUME NEW l \in Lanes, ForwardAlert(l) PROVE CopyInv'
  <2>1. RoutingTypeOK'
    BY <1>0, <1>3, IdleTypes DEF ForwardAlert, RoutingTypeOK
  <2>2. CaptionsTypeOK'
    <3>1. (l \in CrashLanes) \in BOOLEAN
      OBVIOUS
    <3>2. CASE UNCHANGED ai
      BY <3>2, <1>b
    <3>3. CASE CaptionStart(l, l \in CrashLanes)
      <4>1. \E crash \in BOOLEAN : CaptionStart(l, crash)
        BY <3>1, <3>3
      <4> QED
        BY <1>0, <4>1, CaptionTyped, SameLanes
    <3> QED
      BY <1>3, <3>2, <3>3 DEF ForwardAlert
  <2>3. copy' \in [Lanes -> Copies]
    <3>1. [copy[l] EXCEPT !.at = "caption"] \in Copies
      BY <1>0 DEF Copies
    <3> QED
      BY <1>0, <1>3, <3>1, IdleTypes DEF ForwardAlert
  <2> QED
    BY <1>3, <1>c, <1>d, <2>1, <2>2, <2>3, SameOverlay DEF ForwardAlert
<1>4. ASSUME NEW l \in Lanes, CaptioningStep(l) PROVE CopyInv'
  <2>1. CaptionsTypeOK'
    BY <1>0, <1>4, CaptionTyped, SameLanes DEF CaptioningStep
  <2>2. copy' \in [Lanes -> Copies]
    BY <1>0, <1>4 DEF CaptioningStep
  <2> QED
    BY <1>4, <1>a, <1>c, <1>d, <2>1, <2>2, SameOverlay DEF CaptioningStep
<1>5. ASSUME NEW l \in Lanes, StartSending(l) PROVE CopyInv'
  <2>1. copy' \in [Lanes -> Copies]
    <3>1. Trying(copy[l], FirstMedium(copy[l])) \in Copies
      BY <1>0, FormTypes
    <3> QED
      BY <1>0, <1>5, <3>1 DEF StartSending
  <2> QED
    BY <1>5, <1>a, <1>b, <1>c, <1>d, <2>1, SameOverlay DEF StartSending
<1>6. ASSUME NEW l \in Lanes, FetchClips(l) PROVE CopyInv'
  <2> DEFINE r == copy[l]
             missing == Needed(r) \ r.have
  <2>1. r \in Copies /\ missing \in SUBSET Clips /\ r.size["road"] \in Sizes
    BY <1>0 DEF Copies, Needed, Clips
  <2>2. CASE /\ copy' = [copy EXCEPT ![l].at = "mix", ![l].have = @ \cup missing]
             /\ OverlayStart(l, r.size["road"], l \in Speeding)
             /\ NoFault
    <3>1. [r EXCEPT !.at = "mix", !.have = @ \cup missing] \in Copies
      BY <2>1 DEF Copies
    <3>2. copy' \in [Lanes -> Copies]
      BY <1>0, <2>2, <3>1
    <3>3. JobInv'
      <4>1. (l \in Speeding) \in BOOLEAN
        OBVIOUS
      <4> QED
        BY <2>1, <2>2, <4>1, OverlayStartKeeps, SameLanes
    <3> QED
      BY <1>6, <1>a, <1>b, <1>c, <1>d, <2>2, <3>2, <3>3 DEF FetchClips, NoFault
  <2>3. CASE /\ Fault("download")
             /\ \E arrived \in (SUBSET missing) \ {missing} :
                  copy' = [copy EXCEPT ![l] = FallBack(
                    [r EXCEPT !.have = @ \cup arrived, !.failed = TRUE])]
             /\ UNCHANGED overlayVars
    <3>1. PICK arrived \in SUBSET missing :
            copy' = [copy EXCEPT ![l] = FallBack([r EXCEPT !.have = @ \cup arrived, !.failed = TRUE])]
      BY <2>3
    <3>2. [r EXCEPT !.have = @ \cup arrived, !.failed = TRUE] \in Copies
      BY <2>1 DEF Copies
    <3>3. copy' \in [Lanes -> Copies]
      BY <1>0, <3>1, <3>2, FormTypes
    <3>4. FaultsTypeOK'
      BY <1>0, <2>3, FaultType
    <3> QED
      BY <1>6, <1>a, <1>b, <1>d, <2>3, <3>3, <3>4, SameOverlay DEF FetchClips
  <2> QED
    BY <1>6, <2>2, <2>3 DEF FetchClips
<1>7. ASSUME NEW l \in Lanes, MixingStep(l) PROVE CopyInv'
  <2>1. copy' \in [Lanes -> Copies]
    BY <1>0, <1>7 DEF MixingStep
  <2> QED
    BY <1>0, <1>7, <1>a, <1>b, <1>d, <2>1, OverlayStepKeeps, SameLanes DEF MixingStep
<1>8. ASSUME NEW l \in Lanes, CheckSize(l) PROVE CopyInv'
  <2> DEFINE huge == overlay[l].out = "huge"
  <2>1. /\ [copy[l] EXCEPT !.tooLarge = huge] \in Copies
        /\ [copy[l] EXCEPT !.at = "send"] \in Copies
    BY <1>0 DEF Copies
  <2>2. copy' \in [Lanes -> Copies]
    BY <1>0, <1>8, <2>1, FormTypes DEF CheckSize
  <2>3. JobInv'
    BY <1>8, IdleOverlayKeeps, SameLanes DEF CheckSize
  <2> QED
    BY <1>8, <1>a, <1>b, <1>c, <1>d, <2>2, <2>3 DEF CheckSize
<1>9. ASSUME NEW l \in Lanes, SendCopy(l) \/ SendFails(l) \/ CaptionRefused(l) PROVE CopyInv'
  <2>1. copy[l] \in Copies
    BY <1>0
  <2>2. /\ [copy[l] EXCEPT !.got = copy[l].medium] \in Copies
        /\ [copy[l] EXCEPT !.failed = TRUE] \in Copies
        /\ [copy[l] EXCEPT !.refused = copy[l].medium = "text"] \in Copies
    BY <2>1 DEF Copies
  <2>3. ASSUME NEW r \in Copies, NextForm(l, r)
        PROVE  copy' \in [Lanes -> Copies] /\ CaptionsTypeOK'
    BY <1>0, <1>b, <2>3, FormTypes, IdleTypes, SameLanes DEF NextForm, CaptionsTypeOK
  <2>4. copy' \in [Lanes -> Copies] /\ CaptionsTypeOK'
    <3>1. CASE SendCopy(l)
      BY <1>0, <2>2, <3>1, FormTypes, IdleTypes, SameLanes DEF SendCopy, CaptionsTypeOK
    <3>2. CASE SendFails(l)
      BY <2>2, <2>3, <3>2 DEF SendFails
    <3>3. CASE CaptionRefused(l)
      BY <2>2, <2>3, <3>3 DEF CaptionRefused
    <3> QED
      BY <1>9, <3>1, <3>2, <3>3
  <2>5. FaultsTypeOK' /\ UNCHANGED <<routingVars, overlayVars>>
    BY <1>0, <1>9, <1>c, FaultType DEF SendCopy, SendFails, CaptionRefused
  <2> QED
    BY <1>a, <1>d, <2>4, <2>5, SameOverlay
<1>10. CASE HubStep
  <2>1. UNCHANGED <<route, settledKey, faults, ai, overlayVars, copy>> /\ edits' \in 0..MaxEdits
    <3>1. Edit /\ UNCHANGED <<ai, overlayVars, copy>>
      BY <1>10 DEF HubStep, HubEdit, Relink, Retitle, Dismiss
    <3>2. MaxEdits \in Nat /\ edits \in 0..MaxEdits
      BY <1>0, RoutingAssumption DEF RoutingTypeOK
    <3>3. edits' \in 0..MaxEdits
      BY <3>1, <3>2 DEF Edit
    <3> QED
      BY <3>1, <3>3 DEF Edit
  <2>2. ASSUME NEW g \in Groups, Relink(g)
        PROVE  links' \subseteq Groups /\ UNCHANGED <<titles, findings>>
    BY <1>0, <2>2 DEF Relink, RoutingTypeOK
  <2>3. ASSUME NEW g \in Groups, NEW t \in Titles, Retitle(g, t)
        PROVE  titles' \in [Groups -> Titles] /\ UNCHANGED <<links, findings>>
    BY <1>0, <2>3 DEF Retitle, RoutingTypeOK
  <2>4. ASSUME NEW k \in Keys, Dismiss(k)
        PROVE  findings' \in [Keys -> Statuses] /\ UNCHANGED <<links, titles>>
    BY <1>0, <2>4 DEF Dismiss, RoutingTypeOK, Statuses
  <2>5. /\ links' \subseteq Groups /\ titles' \in [Groups -> Titles]
        /\ findings' \in [Keys -> Statuses]
    BY <1>0, <1>10, <2>2, <2>3, <2>4 DEF HubStep, HubEdit, RoutingTypeOK
  <2>6. RoutingTypeOK'
    BY <1>0, <2>1, <2>5 DEF RoutingTypeOK
  <2>7. copy' \in [Lanes -> Copies]
    BY <1>0, <2>1
  <2> QED
    BY <1>b, <1>c, <1>d, <2>1, <2>6, <2>7, SameOverlay
<1>11. CASE Crash
  BY <1>11, CrashKeeps
<1>12. CASE UNCHANGED vars
  BY <1>0, <1>12, <1>a, <1>b, <1>c, <1>d, SameOverlay DEF vars
<1> QED
  BY <1>1, <1>2, <1>3, <1>4, <1>5, <1>6, <1>7, <1>8, <1>9, <1>10, <1>11, <1>12 DEF Next

\* Every local of a resolution, a caption, an overlay and a copy is in its type
\* for any groups: the group the title parse takes exists, since a set of
\* groups that is not empty has a greatest one.
THEOREM TypeCorrect == Spec => []TypeOK
<1>1. CopyInv /\ [Next]_vars => CopyInv'
  BY NextCopy
<1>2. CopyInv => TypeOK
  BY DEF CopyInv
<1> QED
  BY InitCopy, <1>1, <1>2, PTL DEF Spec

\* The rows that read "processing" are the overlays at work and those that a
\* lost answer, a failed update or a death has orphaned, for any lanes at once.
THEOREM JobsKnown == Spec => []JobsAccounted
<1>1. CopyInv /\ [Next]_vars => CopyInv'
  BY NextCopy
<1>2. CopyInv => JobsAccounted
  BY DEF CopyInv, JobInv
<1> QED
  BY InitCopy, <1>1, <1>2, PTL DEF Spec

----------------------------------------------------------------------------
(* The music costs no clip *)

\* Copy r may go out in form m: what it lacks was lost to a failure, or is too
\* large as it came.
Excused(r, m) ==
  /\ m = "text" /\ "road" \in r.clips => r.failed \/ r.size["road"] = "huge"
  /\ m = "single" /\ r.clips = Clips => r.failed \/ \E c \in Clips : r.size[c] = "huge"

\* The form a copy tries is excused; one whose caption is broken is never sent.
FormExcused ==
  \A l \in Lanes :
    copy[l].at \in {"fetch", "mix", "send"} =>
      ai[l].caption = "broken" \/ Excused(copy[l], copy[l].medium)

\* The overlay in progress has the copy's own road clip.
OwnClip ==
  \A l \in Lanes : copy[l].at = "mix" => overlay[l].original = copy[l].size["road"]

ClipsInv == CopyInv /\ FormExcused /\ OwnClip /\ ClipsKept

LEMMA KeptIsExcused == ClipsKept <=> \A l \in Lanes : Excused(copy[l], copy[l].got)
  BY DEF ClipsKept, Excused

LEMMA FirstIsExcused ==
  ASSUME NEW r \in Copies
  PROVE  Excused(r, FirstMedium(r))
  BY DEF FirstMedium, Excused, Clips, Copies

\* Falling back is excused once something failed, once the road clip is too
\* large, or when a media group lost its cabin clip to the limit.
LEMMA FallBackExcused ==
  ASSUME NEW r \in Copies,
         \/ r.failed \/ r.size["road"] = "huge"
         \/ r.medium = "dual" /\ ~r.tooLarge /\ r.size["cabin"] = "huge"
  PROVE  /\ Excused(FallBack(r), FallBack(r).medium)
         /\ FallBack(r).got = r.got /\ FallBack(r).clips = r.clips
         /\ FallBack(r).size = r.size /\ FallBack(r).failed = r.failed
         /\ FallBack(r).at \in {"fetch", "send"}
  BY DEF FallBack, Trying, Excused, Clips, Copies

\* A step that changes the copy, the caption and the overlay of one lane keeps
\* the invariant if it does for that lane.
LEMMA LaneKeepsClips ==
  ASSUME ClipsInv, NEW l \in Lanes, NEW r \in Copies,
         copy' = [copy EXCEPT ![l] = r],
         \A k \in Lanes \ {l} : ai'[k] = ai[k],
         \A k \in Lanes \ {l} : overlay'[k].original = overlay[k].original,
         r.at \in {"fetch", "mix", "send"} => ai'[l].caption = "broken" \/ Excused(r, r.medium),
         r.at = "mix" => overlay'[l].original = r.size["road"],
         Excused(r, r.got)
  PROVE  FormExcused' /\ OwnClip' /\ ClipsKept'
<1>1. \A k \in Lanes : copy'[k] = IF k = l THEN r ELSE copy[k]
  BY DEF ClipsInv, CopyInv, TypeOK
<1>2. FormExcused'
  BY <1>1 DEF ClipsInv, FormExcused
<1>3. OwnClip'
  BY <1>1 DEF ClipsInv, OwnClip
<1>4. ClipsKept'
  <2>1. \A k \in Lanes : Excused(copy'[k], copy'[k].got)
    BY <1>1, KeptIsExcused DEF ClipsInv
  <2> QED
    BY <2>1 DEF ClipsKept, Excused
<1> QED
  BY <1>2, <1>3, <1>4

LEMMA CaptionOfOthers ==
  ASSUME CaptionsTypeOK, NEW l \in Lanes, NEW k \in Lanes \ {l},
         CaptionStep(l) \/ (\E crash \in BOOLEAN : CaptionStart(l, crash))
  PROVE  ai'[k] = ai[k]
  BY SameLanes
  DEF CaptionsTypeOK, CaptionStep, CaptionStart, ServiceAnswers, ServiceTooShort, GroqRefuses,
      GroqErrors, GeminiBusy, GeminiErrors, GeminiFails, Captioning, Ask

LEMMA InitClips == Init => FormExcused /\ OwnClip /\ ClipsKept
  BY DEF Init, IdleCopy, FormExcused, OwnClip, ClipsKept

LEMMA NextClips ==
  ASSUME ClipsInv, [Next]_vars
  PROVE  FormExcused' /\ OwnClip' /\ ClipsKept'
<1> USE SameLanes DEF ClipsInv
<1>0. /\ copy \in [Lanes -> Copies] /\ CaptionsTypeOK /\ OverlayTypeOK /\ JobInv /\ FaultsTypeOK
      /\ \A l \in Lanes : Excused(copy[l], copy[l].got)
  BY KeptIsExcused DEF CopyInv, TypeOK
<1> DEFINE Goal == FormExcused /\ OwnClip /\ ClipsKept
<1>1. ASSUME NEW l \in Lanes, TakeAlert(l) PROVE Goal'
  <2>1. PICK clips \in ClipSets[l] : \E size \in SizesOf(clips), have \in SUBSET clips :
          copy' = [copy EXCEPT ![l] =
            [IdleCopy EXCEPT !.at = "route", !.clips = clips, !.size = size, !.have = have]]
    BY <1>1 DEF TakeAlert
  <2>2. PICK size \in SizesOf(clips), have \in SUBSET clips :
          copy' = [copy EXCEPT ![l] =
            [IdleCopy EXCEPT !.at = "route", !.clips = clips, !.size = size, !.have = have]]
    BY <2>1
  <2> DEFINE r == [IdleCopy EXCEPT !.at = "route", !.clips = clips, !.size = size, !.have = have]
  <2>3. clips \in SUBSET Clips /\ have \in SUBSET Clips /\ size \in [Clips -> Sizes]
    BY DriverCopyAssumption DEF SizesOf, Clips, Sizes
  <2>4. r \in Copies /\ r.at = "route" /\ r.got = "none"
    BY <2>3 DEF IdleCopy, Copies, Media
  <2>5. Excused(r, r.got)
    BY <2>4 DEF Excused
  <2>6. UNCHANGED <<ai, overlay>>
    BY <1>1 DEF TakeAlert, overlayVars
  <2> HIDE DEF r
  <2>7. copy' = [copy EXCEPT ![l] = r]
    BY <2>2 DEF r
  <2> QED
    BY <2>4, <2>5, <2>6, <2>7, LaneKeepsClips
<1>2. ASSUME NEW l \in Lanes, ForwardAlert(l) PROVE Goal'
  <2>1. UNCHANGED overlay
    BY <1>2 DEF ForwardAlert, overlayVars
  <2>2. CASE copy' = [copy EXCEPT ![l] = IdleCopy] /\ UNCHANGED ai
    <3>1. IdleCopy.at = "idle" /\ Excused(IdleCopy, IdleCopy.got)
      BY DEF IdleCopy, Excused
    <3> QED
      BY <2>1, <2>2, <3>1, IdleTypes, LaneKeepsClips
  <2>3. CASE CaptionStart(l, l \in CrashLanes) /\ copy' = [copy EXCEPT ![l].at = "caption"]
    <3> DEFINE r == [copy[l] EXCEPT !.at = "caption"]
    <3>1. r \in Copies /\ r.at = "caption" /\ Excused(r, r.got)
      BY <1>0 DEF Copies, Excused
    <3>2. copy' = [copy EXCEPT ![l] = r]
      BY <1>0, <2>3
    <3>3. \A k \in Lanes \ {l} : ai'[k] = ai[k]
      <4>1. \E crash \in BOOLEAN : CaptionStart(l, crash)
        <5>1. (l \in CrashLanes) \in BOOLEAN
          OBVIOUS
        <5> QED
          BY <2>3, <5>1
      <4> QED
        BY <1>0, <4>1, CaptionOfOthers
    <3> HIDE DEF r
    <3> QED
      BY <2>1, <3>1, <3>2, <3>3, LaneKeepsClips
  <2> QED
    BY <1>2, <2>2, <2>3 DEF ForwardAlert
<1>3. ASSUME NEW l \in Lanes, CaptioningStep(l) PROVE Goal'
  <2>1. copy' = [copy EXCEPT ![l] = copy[l]] /\ UNCHANGED overlay /\ copy[l].at = "caption"
    BY <1>0, <1>3 DEF CaptioningStep, overlayVars
  <2>2. \A k \in Lanes \ {l} : ai'[k] = ai[k]
    BY <1>0, <1>3, CaptionOfOthers DEF CaptioningStep
  <2> QED
    BY <1>0, <2>1, <2>2, LaneKeepsClips
<1>4. ASSUME NEW l \in Lanes, StartSending(l) PROVE Goal'
  <2> DEFINE r == Trying(copy[l], FirstMedium(copy[l]))
  <2>1. r \in Copies
    BY <1>0, FormTypes
  <2>2. /\ r.at # "mix" /\ r.medium = FirstMedium(copy[l]) /\ r.got = copy[l].got
        /\ r.clips = copy[l].clips /\ r.size = copy[l].size /\ r.failed = copy[l].failed
    BY <1>0 DEF Trying, Copies
  <2>3. Excused(r, r.medium) /\ Excused(r, r.got)
    BY <1>0, <2>2, FirstIsExcused DEF Excused
  <2>4. copy' = [copy EXCEPT ![l] = r] /\ UNCHANGED <<ai, overlay>>
    BY <1>4 DEF StartSending, overlayVars
  <2> HIDE DEF r
  <2> QED
    BY <2>1, <2>2, <2>3, <2>4, LaneKeepsClips
\* What a fall back does, from whatever became of the copy.
<1>5. ASSUME NEW l \in Lanes, NEW r \in Copies, copy' = [copy EXCEPT ![l] = FallBack(r)],
             \A k \in Lanes \ {l} : ai'[k] = ai[k],
             \A k \in Lanes \ {l} : overlay'[k].original = overlay[k].original,
             r.got = copy[l].got, r.clips = copy[l].clips, r.size = copy[l].size,
             r.failed \/ r.failed = copy[l].failed,
             \/ r.failed \/ r.size["road"] = "huge"
             \/ r.medium = "dual" /\ ~r.tooLarge /\ r.size["cabin"] = "huge"
      PROVE  Goal'
  <2>1. FallBack(r) \in Copies
    BY FormTypes
  <2>2. /\ Excused(FallBack(r), FallBack(r).medium) /\ FallBack(r).at # "mix"
        /\ FallBack(r).got = r.got /\ FallBack(r).clips = r.clips
        /\ FallBack(r).size = r.size /\ FallBack(r).failed = r.failed
    BY <1>5, FallBackExcused
  <2>3. Excused(FallBack(r), FallBack(r).got)
    BY <1>0, <1>5, <2>2 DEF Excused
  <2> QED
    BY <1>5, <2>1, <2>2, <2>3, LaneKeepsClips
<1>6. ASSUME NEW l \in Lanes, FetchClips(l) PROVE Goal'
  <2> DEFINE missing == Needed(copy[l]) \ copy[l].have
  <2>1. copy[l] \in Copies /\ missing \in SUBSET Clips /\ copy[l].size["road"] \in Sizes
    BY <1>0 DEF Copies, Needed, Clips
  <2>2. UNCHANGED ai /\ copy[l].at = "fetch"
    BY <1>6 DEF FetchClips
  <2>3. CASE /\ copy' = [copy EXCEPT ![l].at = "mix", ![l].have = @ \cup missing]
             /\ OverlayStart(l, copy[l].size["road"], l \in Speeding)
    <3> DEFINE r == [copy[l] EXCEPT !.at = "mix", !.have = @ \cup missing]
    <3>1. /\ r \in Copies /\ r.size = copy[l].size /\ r.got = copy[l].got /\ r.medium = copy[l].medium
          /\ r.clips = copy[l].clips /\ r.failed = copy[l].failed
      BY <2>1 DEF Copies
    <3>2. copy' = [copy EXCEPT ![l] = r]
      BY <1>0, <2>3
    <3>3. \A k \in Lanes :
            overlay'[k].original = IF k = l THEN copy[l].size["road"] ELSE overlay[k].original
      <4>1. (l \in Speeding) \in BOOLEAN
        OBVIOUS
      <4>2. \A k \in MusicLanes :
              overlay'[k].original = IF k = l THEN copy[l].size["road"] ELSE overlay[k].original
        <5>1. ASSUME NEW size \in Sizes, NEW speeding \in BOOLEAN, OverlayStart(l, size, speeding)
              PROVE  \A k \in MusicLanes :
                       overlay'[k].original = IF k = l THEN size ELSE overlay[k].original
          BY <1>0, <5>1, OverlayStartKeeps
        <5> HIDE DEF r, missing
        <5> QED
          BY <2>1, <2>3, <4>1, <5>1
      <4> QED
        BY <4>2
    <3>4. /\ ai[l].caption = "broken" \/ Excused(r, r.medium)
          /\ Excused(r, r.got)
      BY <1>0, <2>2, <3>1 DEF FormExcused, Excused
    <3> HIDE DEF r
    <3> QED
      BY <2>2, <3>1, <3>2, <3>3, <3>4, LaneKeepsClips
  <2>4. CASE /\ \E arrived \in (SUBSET missing) \ {missing} :
                  copy' = [copy EXCEPT ![l] = FallBack(
                    [copy[l] EXCEPT !.have = @ \cup arrived, !.failed = TRUE])]
             /\ UNCHANGED overlayVars
    <3>1. PICK arrived \in SUBSET missing :
            copy' = [copy EXCEPT ![l] =
              FallBack([copy[l] EXCEPT !.have = @ \cup arrived, !.failed = TRUE])]
      BY <2>4
    <3> DEFINE r == [copy[l] EXCEPT !.have = @ \cup arrived, !.failed = TRUE]
    <3>2. r \in Copies /\ r.failed /\ r.got = copy[l].got /\ r.clips = copy[l].clips
          /\ r.size = copy[l].size
      BY <2>1 DEF Copies
    <3>3. UNCHANGED overlay
      BY <2>4 DEF overlayVars
    <3> HIDE DEF r
    <3>4. copy' = [copy EXCEPT ![l] = FallBack(r)]
      BY <3>1 DEF r
    <3> QED
      BY <1>5, <2>2, <3>2, <3>3, <3>4
  <2> QED
    BY <1>6, <2>3, <2>4 DEF FetchClips
<1>7. ASSUME NEW l \in Lanes, MixingStep(l) PROVE Goal'
  <2>1. \A k \in Lanes : overlay'[k].original = overlay[k].original
    BY <1>0, <1>7, OverlayStepKeeps DEF MixingStep
  <2>2. UNCHANGED <<ai, copy>>
    BY <1>7 DEF MixingStep
  <2> QED
    BY <2>1, <2>2 DEF FormExcused, OwnClip, ClipsKept
<1>8. ASSUME NEW l \in Lanes, CheckSize(l) PROVE Goal'
  <2> DEFINE huge == overlay[l].out = "huge"
             r == [copy[l] EXCEPT !.tooLarge = huge]
             t == [copy[l] EXCEPT !.at = "send"]
  <2>1. huge => copy[l].size["road"] = "huge"
    BY <1>0, <1>8 DEF CheckSize, JobInv, NoGrowth, OwnClip
  <2>2. /\ r \in Copies /\ r.tooLarge = huge /\ r.got = copy[l].got /\ r.clips = copy[l].clips
        /\ r.size = copy[l].size /\ r.failed = copy[l].failed /\ r.medium = copy[l].medium
        /\ t \in Copies /\ t.at = "send" /\ t.got = copy[l].got /\ t.clips = copy[l].clips
        /\ t.size = copy[l].size /\ t.failed = copy[l].failed /\ t.medium = copy[l].medium
    BY <1>0 DEF Copies
  <2>3. /\ UNCHANGED ai /\ copy[l].at = "mix"
        /\ overlay' = [overlay EXCEPT ![l] = IdleOverlay]
        /\ copy' = [copy EXCEPT ![l] =
             IF huge \/ (copy[l].medium = "dual" /\ copy[l].size["cabin"] = "huge")
             THEN FallBack(r) ELSE t]
    BY <1>8 DEF CheckSize
  <2> HIDE DEF r, t
  <2>4. \A k \in Lanes \ {l} : overlay'[k].original = overlay[k].original
    BY <1>0, <2>3 DEF OverlayTypeOK
  <2>5. CASE huge \/ (copy[l].medium = "dual" /\ copy[l].size["cabin"] = "huge")
    <3>1. copy' = [copy EXCEPT ![l] = FallBack(r)]
      BY <2>3, <2>5
    <3>2. \/ r.size["road"] = "huge"
          \/ r.medium = "dual" /\ ~r.tooLarge /\ r.size["cabin"] = "huge"
      BY <2>1, <2>2, <2>5
    <3> QED
      BY <1>5, <2>2, <2>3, <2>4, <3>1, <3>2
  <2>6. CASE ~(huge \/ (copy[l].medium = "dual" /\ copy[l].size["cabin"] = "huge"))
    <3>1. copy' = [copy EXCEPT ![l] = t]
      BY <2>3, <2>6
    <3>2. /\ ai'[l].caption = "broken" \/ Excused(t, t.medium)
          /\ Excused(t, t.got)
      BY <1>0, <2>2, <2>3 DEF FormExcused, Excused
    <3> QED
      BY <2>2, <2>3, <2>4, <3>1, <3>2, LaneKeepsClips
  <2> QED
    BY <2>5, <2>6
\* What the end of a copy does: it is idle, and its form was excused.
<1>9. ASSUME NEW l \in Lanes, NEW r \in Copies, copy' = [copy EXCEPT ![l] = Ended(r)],
             ai' = [ai EXCEPT ![l] = IdleCaption], UNCHANGED overlay, Excused(r, r.got)
      PROVE  Goal'
  <2>1. /\ Ended(r) \in Copies /\ Ended(r).at = "idle" /\ Ended(r).got = r.got
        /\ Excused(Ended(r), Ended(r).got)
    <3> DEFINE e == Ended(r)
    <3>1. e \in Copies /\ e.at = "idle"
      BY DEF Ended, Copies
    <3>2. /\ e.got = r.got /\ e.clips = r.clips /\ e.size = r.size /\ e.failed = r.failed
      BY DEF Ended, Copies
    <3> HIDE DEF e
    <3>3. Excused(e, e.got)
      BY <1>9, <3>2 DEF Excused
    <3> QED
      BY <3>1, <3>2, <3>3 DEF e
  <2>2. \A k \in Lanes \ {l} : ai'[k] = ai[k]
    BY <1>0, <1>9 DEF CaptionsTypeOK
  <2> QED
    BY <1>9, <2>1, <2>2, LaneKeepsClips
<1>10. ASSUME NEW l \in Lanes, SendCopy(l) PROVE Goal'
  <2> DEFINE r == [copy[l] EXCEPT !.got = copy[l].medium]
  <2>1. /\ r \in Copies /\ r.got = copy[l].medium /\ r.clips = copy[l].clips
        /\ r.size = copy[l].size /\ r.failed = copy[l].failed
    BY <1>0 DEF Copies
  <2>2. Excused(r, r.got)
    BY <1>10, <2>1 DEF SendCopy, FormExcused, Excused
  <2>3. /\ copy' = [copy EXCEPT ![l] = Ended(r)]
        /\ ai' = [ai EXCEPT ![l] = IdleCaption] /\ UNCHANGED overlay
    BY <1>10 DEF SendCopy, overlayVars
  <2> HIDE DEF r
  <2> QED
    BY <1>9, <2>1, <2>2, <2>3
<1>11. ASSUME NEW l \in Lanes, SendFails(l) PROVE Goal'
  <2> DEFINE r == [copy[l] EXCEPT !.failed = TRUE]
  <2>1. /\ r \in Copies /\ r.got = copy[l].got /\ r.clips = copy[l].clips
        /\ r.size = copy[l].size /\ r.failed
    BY <1>0 DEF Copies
  <2>2. NextForm(l, r) /\ UNCHANGED overlay
    BY <1>11 DEF SendFails, overlayVars
  <2> HIDE DEF r
  <2>3. CASE copy' = [copy EXCEPT ![l] = FallBack(r)] /\ UNCHANGED ai
    BY <1>5, <2>1, <2>2, <2>3
  <2>4. CASE copy' = [copy EXCEPT ![l] = Ended(r)] /\ ai' = [ai EXCEPT ![l] = IdleCaption]
    BY <1>9, <2>1, <2>2, <2>4 DEF Excused
  <2> QED
    BY <2>2, <2>3, <2>4 DEF NextForm
<1>12. ASSUME NEW l \in Lanes, CaptionRefused(l) PROVE Goal'
  <2> DEFINE r == [copy[l] EXCEPT !.refused = copy[l].medium = "text"]
  <2>1. /\ r \in Copies /\ r.got = copy[l].got /\ r.clips = copy[l].clips
        /\ r.size = copy[l].size /\ r.failed = copy[l].failed
    BY <1>0 DEF Copies
  <2>2. NextForm(l, r) /\ UNCHANGED overlay /\ ai[l].caption = "broken"
    BY <1>12 DEF CaptionRefused, overlayVars
  <2> HIDE DEF r
  <2>3. Excused(r, r.got)
    BY <1>0, <2>1 DEF Excused
  <2>4. CASE copy' = [copy EXCEPT ![l] = FallBack(r)] /\ UNCHANGED ai
    <3>1. /\ FallBack(r) \in Copies /\ FallBack(r).at # "mix" /\ FallBack(r).got = r.got
          /\ FallBack(r).clips = r.clips /\ FallBack(r).size = r.size
          /\ FallBack(r).failed = r.failed
      <4>1. ASSUME NEW m
            PROVE  /\ Trying(r, m).at # "mix" /\ Trying(r, m).got = r.got
                   /\ Trying(r, m).clips = r.clips /\ Trying(r, m).size = r.size
                   /\ Trying(r, m).failed = r.failed
        BY <2>1 DEF Trying, Copies
      <4> QED
        BY <2>1, <4>1, FormTypes DEF FallBack
    <3>2. Excused(FallBack(r), FallBack(r).got)
      BY <2>3, <3>1 DEF Excused
    <3> QED
      BY <2>2, <2>4, <3>1, <3>2, LaneKeepsClips
  <2>5. CASE copy' = [copy EXCEPT ![l] = Ended(r)] /\ ai' = [ai EXCEPT ![l] = IdleCaption]
    BY <1>9, <2>1, <2>2, <2>3, <2>5
  <2> QED
    BY <2>2, <2>4, <2>5 DEF NextForm
<1>13. CASE Crash
  <2>1. \A l \in Lanes : copy'[l] = IdleCopy
    BY <1>13 DEF Crash
  <2> QED
    BY <2>1 DEF IdleCopy, FormExcused, OwnClip, ClipsKept
<1>14. CASE (\E l \in Lanes : RoutingStep(l)) \/ HubStep \/ UNCHANGED vars
  <2>1. UNCHANGED <<ai, overlay, copy>>
    BY <1>14 DEF RoutingStep, HubStep, vars, overlayVars
  <2> QED
    BY <2>1 DEF FormExcused, OwnClip, ClipsKept
<1> QED
  BY <1>1, <1>2, <1>3, <1>4, <1>6, <1>7, <1>8, <1>10, <1>11, <1>12, <1>13, <1>14 DEF Next

\* A group gets less than the alert carried only where a download or an upload
\* failed or the alert's own clip is above the limit, whatever sizes the music
\* and the two compressions end in.
THEOREM MusicIsFree == Spec => []ClipsKept
<1>1. Init => ClipsInv
  BY InitCopy, InitClips DEF ClipsInv
<1>2. ClipsInv /\ [Next]_vars => ClipsInv'
  BY NextCopy, NextClips DEF ClipsInv
<1>3. ClipsInv => ClipsKept
  BY DEF ClipsInv
<1> QED
  BY <1>1, <1>2, <1>3, PTL DEF Spec

----------------------------------------------------------------------------
(* The findings tell how the last alert was routed *)

\* The open findings are the key's, if there is one.
Match(key) ==
  \A k \in Keys : IF k = key THEN findings[k] \in {"open", "dismissed"}
                             ELSE findings[k] # "open"

\* A resolution that nothing overlapped is the only one at work.
CleanIsAlone ==
  \A l, k \in Lanes : Routing(l) /\ route[l].clean /\ Routing(k) => k = l

\* What it has filed is open until it settles the others, unless the hub
\* dismissed it.
FiledStands ==
  \A l \in Lanes :
    route[l].at = "settle" /\ route[l].clean /\ route[l].filed \in Keys
      => findings[route[l].filed] \in {"open", "dismissed"}

\* Between a filing and the settling of the others two may be open.
FindingsTold ==
  settledKey = Unknown \/ (\E l \in Lanes : route[l].at = "settle") \/ Match(settledKey)

FindingsInv == CopyInv /\ CleanIsAlone /\ FiledStands /\ FindingsTold

LEMMA ToldIsCurrent == FindingsTold => FindingsCurrent
  BY DEF FindingsTold, FindingsCurrent, Match, Routing

LEMMA InitFindings == Init => CleanIsAlone /\ FiledStands /\ FindingsTold
<1> SUFFICES ASSUME Init PROVE CleanIsAlone /\ FiledStands /\ FindingsTold
  OBVIOUS
<1>1. /\ route = [l \in Lanes |-> IdleRoute]
      /\ settledKey = NoKey
      /\ findings = [k \in Keys |-> "absent"]
  BY DEF Init, RoutingInit
<1>2. \A l \in Lanes : route[l].at = "idle"
  BY <1>1 DEF IdleRoute
<1>3. CleanIsAlone /\ FiledStands
  BY <1>2 DEF CleanIsAlone, FiledStands, Routing
<1>4. Match(settledKey)
  BY <1>1 DEF Match, Keys, NoKey
<1>5. QED
  BY <1>3, <1>4 DEF FindingsTold

\* A step that starts no resolution lets none become clean again.
LEMMA NoneStarts ==
  ASSUME CleanIsAlone,
         \A l \in Lanes : Routing(l)' => Routing(l) /\ (route'[l].clean => route[l].clean)
  PROVE  CleanIsAlone'
  BY DEF CleanIsAlone

\* A step that files nothing, settles nothing and keeps or ends resolutions.
LEMMA FindingsUntouched ==
  ASSUME FindingsInv, UNCHANGED <<findings, settledKey>>,
         \A l \in Lanes : route[l].at = "settle" => route'[l] = route[l],
         \A l \in Lanes : route'[l].at = "settle" =>
                            route'[l] = route[l] \/ (route'[l].filed \notin Keys)
  PROVE  FiledStands' /\ FindingsTold'
<1>1. FiledStands'
  BY DEF FindingsInv, FiledStands
<1>2. FindingsTold'
  BY DEF FindingsInv, FindingsTold, Match
<1> QED
  BY <1>1, <1>2

LEMMA RouteStepFindings ==
  ASSUME FindingsInv, NEW l \in Lanes, RouteStep(l)
  PROVE  CleanIsAlone' /\ FiledStands' /\ FindingsTold'
<1> USE DEF FindingsInv
<1>0. route \in [Lanes -> Routes] /\ findings \in [Keys -> Statuses]
  BY DEF CopyInv, TypeOK, RoutingTypeOK
<1>1. ASSUME NEW r, route' = [route EXCEPT ![l] = r]
      PROVE  \A k \in Lanes : route'[k] = IF k = l THEN r ELSE route[k]
  BY <1>0, <1>1
<1>2. ASSUME NEW r, route' = [route EXCEPT ![l] = r], Routing(l), r.clean => route[l].clean
      PROVE  CleanIsAlone'
  <2>1. \A k \in Lanes : Routing(k)' => Routing(k) /\ (route'[k].clean => route[k].clean)
    BY <1>1, <1>2 DEF Routing
  <2> QED
    BY <2>1, NoneStarts
<1>3. CASE ReadClaims(l)
  <2> DEFINE r == [route[l] EXCEPT !.at = "parse", !.claims = links]
  <2>1. r.at = "parse" /\ r.clean = route[l].clean /\ route[l].at = "claims"
    BY <1>0, <1>3 DEF ReadClaims, Routes
  <2>2. route' = [route EXCEPT ![l] = r] /\ UNCHANGED <<findings, settledKey>>
    BY <1>0, <1>3 DEF ReadClaims
  <2> HIDE DEF r
  <2>3. CleanIsAlone'
    BY <1>2, <2>1, <2>2 DEF Routing
  <2> QED
    BY <1>1, <2>1, <2>2, <2>3, FindingsUntouched
<1>4. CASE ReadTitles(l)
  <2> DEFINE c == Choice(route[l].claims, ParsedGroup(route[l].label))
             s == [route[l] EXCEPT !.group = c.group, !.filed = c.finding, !.claims = {}]
             r == [s EXCEPT !.at = IF c.finding # NoKey THEN "file" ELSE Onward(s)]
  <2>1. /\ route' = [route EXCEPT ![l] = r] /\ UNCHANGED <<findings, settledKey>>
        /\ route[l].at = "parse"
    BY <1>4 DEF ReadTitles
  <2>2. NoKey \notin Keys
    BY DEF NoKey, Keys
  <2>3. /\ r.clean = route[l].clean /\ r.filed = c.finding
        /\ r.at = IF c.finding # NoKey THEN "file" ELSE Onward(s)
    <3> HIDE DEF c
    <3> QED
      BY <1>0 DEF Routes
  <2>4. r.at = "settle" => r.filed \notin Keys
    BY <2>2, <2>3 DEF Onward
  <2> HIDE DEF r
  <2>5. CleanIsAlone'
    BY <1>2, <2>1, <2>3 DEF Routing
  <2> QED
    BY <1>1, <2>1, <2>4, <2>5, FindingsUntouched
<1>5. CASE ReadFails(l)
  <2> DEFINE r == [IdleRoute EXCEPT !.at = "done", !.clean = FALSE]
  <2>1. r.at = "done" /\ ~r.clean
    BY DEF IdleRoute
  <2>2. /\ route' = [route EXCEPT ![l] = r] /\ UNCHANGED <<findings, settledKey>>
        /\ route[l].at \in {"claims", "parse"}
    BY <1>5 DEF ReadFails
  <2> HIDE DEF r
  <2>3. CleanIsAlone'
    BY <1>2, <2>1, <2>2 DEF Routing
  <2> QED
    BY <1>1, <2>1, <2>2, <2>3, FindingsUntouched
<1>6. CASE FileFinding(l)
  <2> DEFINE key == route[l].filed
             group == route[l].group
  <2>1. PICK r \in Routes :
          /\ route' = [route EXCEPT ![l] = r]
          /\ r.at = Onward(route[l]) /\ r.filed = key /\ r.group = group
          /\ r.clean => route[l].clean
          /\ \/ findings' = Upserted(key)
             \/ ~r.clean /\ UNCHANGED findings
    <3>1. /\ [route[l] EXCEPT !.at = Onward(route[l])] \in Routes
          /\ [route[l] EXCEPT !.at = Onward(route[l]), !.clean = FALSE] \in Routes
      BY <1>0 DEF Routes, Onward
    <3>2. CASE findings' = Upserted(key) /\ route' = [route EXCEPT ![l].at = Onward(route[l])]
      <4> DEFINE r == [route[l] EXCEPT !.at = Onward(route[l])]
      <4>1. /\ r.at = Onward(route[l]) /\ r.filed = key /\ r.group = group
            /\ r.clean = route[l].clean
        BY <1>0 DEF Routes
      <4>2. route' = [route EXCEPT ![l] = r]
        BY <1>0, <3>2
      <4> QED
        BY <3>1, <3>2, <4>1, <4>2
    <3>3. CASE /\ route' = [route EXCEPT ![l].at = Onward(route[l]), ![l].clean = FALSE]
               /\ UNCHANGED findings
      <4> DEFINE r == [route[l] EXCEPT !.at = Onward(route[l]), !.clean = FALSE]
      <4>1. /\ r.at = Onward(route[l]) /\ r.filed = key /\ r.group = group /\ ~r.clean
        BY <1>0 DEF Routes
      <4>2. route' = [route EXCEPT ![l] = r]
        BY <1>0, <3>3
      <4> QED
        BY <3>1, <3>3, <4>1, <4>2
    <3> QED
      BY <1>6, <3>2, <3>3 DEF FileFinding
  <2>2. /\ Routing(l) /\ settledKey' = IF group = NoGroup THEN Unknown ELSE settledKey
    BY <1>6 DEF FileFinding, Routing
  <2>3. \A k \in Lanes : route'[k] = IF k = l THEN r ELSE route[k]
    BY <1>1, <2>1
  <2>4. CleanIsAlone'
    BY <1>2, <2>1, <2>2
  <2>5. FiledStands'
    <3> SUFFICES ASSUME NEW k \in Lanes, route'[k].at = "settle", route'[k].clean,
                        route'[k].filed \in Keys
                 PROVE  findings'[route'[k].filed] \in {"open", "dismissed"}
      BY DEF FiledStands
    <3>1. CASE k = l
      <4>1. findings' = Upserted(key) /\ key \in Keys /\ route'[k].filed = key
        BY <2>1, <2>3, <3>1
      <4>2. findings'[key] \in {"open", "dismissed"}
        BY <1>0, <4>1 DEF Upserted, Statuses
      <4> QED
        BY <4>1, <4>2
    <3>2. CASE k # l
      <4>1. Routing(k) /\ route[k].clean
        BY <2>3, <3>2 DEF Routing
      <4> QED
        BY <2>2, <3>2, <4>1 DEF CleanIsAlone
    <3> QED
      BY <3>1, <3>2
  <2>6. FindingsTold'
    <3>1. CASE group = NoGroup
      BY <2>2, <3>1 DEF FindingsTold
    <3>2. CASE group # NoGroup
      <4>1. route'[l].at = "settle"
        BY <2>1, <2>3, <3>2 DEF Onward
      <4> QED
        BY <4>1 DEF FindingsTold
    <3> QED
      BY <3>1, <3>2
  <2> QED
    BY <2>4, <2>5, <2>6
<1>7. CASE SettleFindings(l)
  <2> DEFINE r == [route[l] EXCEPT !.at = "done"]
             key == route[l].filed
  <2>1. /\ r.at = "done" /\ r.clean = route[l].clean /\ key \in Keys \cup {NoKey}
    BY <1>0 DEF Routes
  <2>2. route' = [route EXCEPT ![l] = r] /\ route[l].at = "settle"
    BY <1>0, <1>7 DEF SettleFindings
  <2> HIDE DEF r
  <2>3. Routing(l) /\ CleanIsAlone'
    BY <1>2, <2>1, <2>2 DEF Routing
  <2>4. \A k \in Lanes : route'[k] = IF k = l THEN r ELSE route[k]
    BY <1>1, <2>2
  <2>5. \/ findings' = SettledExcept(key) /\ settledKey' = IF route[l].clean THEN key ELSE Unknown
        \/ UNCHANGED findings /\ settledKey' = Unknown
    BY <1>7 DEF SettleFindings
  <2>6. FiledStands'
    <3> SUFFICES ASSUME NEW k \in Lanes, route'[k].at = "settle", route'[k].clean
                 PROVE  FALSE
      BY DEF FiledStands
    <3>1. k # l /\ Routing(k) /\ route[k].clean
      BY <2>1, <2>4 DEF Routing
    <3> QED
      BY <2>3, <3>1 DEF CleanIsAlone
  <2>7. FindingsTold'
    <3>1. CASE settledKey' = Unknown
      BY <3>1 DEF FindingsTold
    <3>2. CASE settledKey' # Unknown
      <4>1. findings' = SettledExcept(key) /\ settledKey' = key /\ route[l].clean
        BY <2>5, <3>2
      <4>2. key \in Keys => findings[key] \in {"open", "dismissed"}
        BY <2>2, <4>1 DEF FiledStands
      <4>3. Match(settledKey)'
        BY <4>1, <4>2 DEF Match, SettledExcept
      <4> QED
        BY <4>3 DEF FindingsTold
    <3> QED
      BY <3>1, <3>2
  <2> QED
    BY <2>3, <2>6, <2>7
<1> QED
  BY <1>3, <1>4, <1>5, <1>6, <1>7 DEF RouteStep

LEMMA RouteStartFindings ==
  ASSUME FindingsInv, NEW l \in Lanes, NEW label, RouteStart(l, label)
  PROVE  CleanIsAlone' /\ FiledStands' /\ FindingsTold'
<1> USE DEF FindingsInv
<1> DEFINE others == {k \in Lanes \ {l} : Routing(k)}
           begun == [IdleRoute EXCEPT !.at = "claims", !.label = label, !.clean = others = {}]
<1>0. route \in [Lanes -> Routes]
  BY DEF CopyInv, TypeOK, RoutingTypeOK
<1>1. /\ begun.at = "claims" /\ begun.clean = (others = {})
      /\ \A k \in Lanes : [route[k] EXCEPT !.clean = @ /\ k \notin others].at = route[k].at
      /\ \A k \in Lanes : [route[k] EXCEPT !.clean = @ /\ k \notin others].filed = route[k].filed
      /\ \A k \in Lanes : [route[k] EXCEPT !.clean = @ /\ k \notin others].clean
                            = (route[k].clean /\ k \notin others)
  <2> HIDE DEF others
  <2> QED
    BY <1>0 DEF IdleRoute, Routes
<1>2. /\ route' = [k \in Lanes |-> IF k = l THEN begun
                                   ELSE [route[k] EXCEPT !.clean = @ /\ k \notin others]]
      /\ UNCHANGED <<findings, settledKey>> /\ route[l].at = "idle"
  BY DEF RouteStart
<1>3. /\ route'[l] = begun
      /\ \A k \in Lanes \ {l} : /\ route'[k].at = route[k].at
                                /\ route'[k].filed = route[k].filed
                                /\ route'[k].clean = (route[k].clean /\ k \notin others)
  <2> HIDE DEF others, begun
  <2> QED
    BY <1>1, <1>2
<1> HIDE DEF begun
<1>4. CleanIsAlone'
  <2> SUFFICES ASSUME NEW a \in Lanes, NEW b \in Lanes, Routing(a)', route'[a].clean, Routing(b)',
                      a # b
               PROVE  FALSE
    BY DEF CleanIsAlone
  <2>1. CASE a = l
    <3>1. Routing(b)
      BY <1>3, <2>1 DEF Routing
    <3>2. b \in others
      BY <2>1, <3>1
    <3> QED
      BY <1>1, <1>3, <2>1, <3>2
  <2>2. CASE a # l
    <3>1. Routing(a)
      BY <1>3, <2>2 DEF Routing
    <3> QED
      BY <1>3, <2>2, <3>1
  <2> QED
    BY <2>1, <2>2
<1>5. FiledStands'
  BY <1>1, <1>2, <1>3 DEF FiledStands
<1>6. FindingsTold'
  BY <1>2, <1>3 DEF FindingsTold, Match
<1> QED
  BY <1>4, <1>5, <1>6

LEMMA NextFindings ==
  ASSUME FindingsInv, [Next]_vars
  PROVE  CleanIsAlone' /\ FiledStands' /\ FindingsTold'
<1> USE DEF FindingsInv
<1>0. route \in [Lanes -> Routes] /\ findings \in [Keys -> Statuses]
  BY DEF CopyInv, TypeOK, RoutingTypeOK
<1> DEFINE Goal == CleanIsAlone /\ FiledStands /\ FindingsTold
<1>1. ASSUME UNCHANGED routingVars PROVE Goal'
  BY <1>1 DEF routingVars, CleanIsAlone, FiledStands, FindingsTold, Match, Routing
<1>2. ASSUME NEW l \in Lanes, TakeAlert(l) PROVE Goal'
  BY <1>2, RouteStartFindings DEF TakeAlert
<1>3. ASSUME NEW l \in Lanes, RoutingStep(l) PROVE Goal'
  BY <1>3, RouteStepFindings DEF RoutingStep
<1>4. ASSUME NEW l \in Lanes, ForwardAlert(l) PROVE Goal'
  <2>1. /\ route[l].at = "done" /\ UNCHANGED <<findings, settledKey>>
        /\ \A k \in Lanes : route'[k] = IF k = l THEN IdleRoute ELSE route[k]
    BY <1>0, <1>4 DEF ForwardAlert
  <2>2. IdleRoute.at = "idle"
    BY DEF IdleRoute
  <2>3. CleanIsAlone'
    BY <2>1, <2>2, NoneStarts DEF Routing
  <2> QED
    BY <2>1, <2>2, <2>3, FindingsUntouched
<1>5. CASE HubStep
  <2>1. UNCHANGED <<route, settledKey>>
    BY <1>5 DEF HubStep, HubEdit, Relink, Retitle, Dismiss, Edit
  <2>2. \A k \in Keys : \/ findings'[k] = findings[k]
                        \/ findings[k] = "open" /\ findings'[k] = "dismissed"
    BY <1>0, <1>5 DEF HubStep, HubEdit, Relink, Retitle, Dismiss
  <2>3. CleanIsAlone'
    BY <2>1 DEF CleanIsAlone, Routing
  <2>4. FiledStands'
    BY <2>1, <2>2 DEF FiledStands
  <2>5. FindingsTold'
    BY <2>1, <2>2 DEF FindingsTold, Match
  <2> QED
    BY <2>3, <2>4, <2>5
<1>6. CASE Crash
  <2>1. \A l \in Lanes : route'[l] = IdleRoute
    BY <1>6 DEF Crash
  <2>2. IdleRoute.at = "idle"
    BY DEF IdleRoute
  <2>3. CleanIsAlone' /\ FiledStands'
    BY <2>1, <2>2 DEF CleanIsAlone, FiledStands, Routing
  <2>4. FindingsTold'
    <3>1. UNCHANGED findings /\ settledKey' = IF \E l \in Lanes : Routing(l) THEN Unknown ELSE settledKey
      BY <1>6 DEF Crash
    <3> QED
      BY <3>1 DEF FindingsTold, Match, Routing
  <2> QED
    BY <2>3, <2>4
<1>7. CASE \E l \in Lanes : CaptioningStep(l) \/ StartSending(l) \/ FetchClips(l) \/ MixingStep(l)
                            \/ CheckSize(l) \/ SendCopy(l) \/ SendFails(l) \/ CaptionRefused(l)
  BY <1>1, <1>7
  DEF CaptioningStep, StartSending, FetchClips, MixingStep, CheckSize, SendCopy, SendFails,
      CaptionRefused
<1>8. CASE UNCHANGED vars
  BY <1>1, <1>8 DEF vars
<1> QED
  BY <1>2, <1>3, <1>4, <1>5, <1>6, <1>7, <1>8 DEF Next

\* Whenever no alert is being routed, and no failed query or overlap has spoiled
\* the last resolution, the finding it filed is the open one, for any number of
\* lanes and whatever the hub edits.
THEOREM FindingsTrue == Spec => []FindingsCurrent
<1>1. Init => FindingsInv
  BY InitCopy, InitFindings DEF FindingsInv
<1>2. FindingsInv /\ [Next]_vars => FindingsInv'
  BY NextCopy, NextFindings DEF FindingsInv
<1>3. FindingsInv => FindingsCurrent
  BY ToldIsCurrent DEF FindingsInv
<1> QED
  BY <1>1, <1>2, <1>3, PTL DEF Spec
=============================================================================
