------------------------------- MODULE Routing -------------------------------
(***************************************************************************)
(* How an alert finds its driver's group, and the notes it leaves about it:*)
(* findGroupByUnit (src/store.js), chooseRoutedGroup (src/routing.js) and  *)
(* the routing findings (src/routingFindings.js), for one vehicle that has *)
(* a Samsara id.                                                           *)
(*                                                                         *)
(* Both lanes, safety and speeding, resolve the same vehicle, and every    *)
(* query of a resolution is an await: between two of them the other lane   *)
(* may run, and the hub may edit the groups or dismiss a finding.          *)
(*                                                                         *)
(* Abstracted: a chat title is "unit" when its first number is the unit's, *)
(* "unit and name" when it also holds the driver's or the vehicle's name;  *)
(* a finding is its status, without title, severity, evidence and dates.   *)
(***************************************************************************)
EXTENDS Faults, FiniteSets, FiniteSetsExt

CONSTANTS
  Lanes,      \* the pollers that route alerts of this vehicle
  Groups,     \* groups.id of the active driver groups
  NoGroup,
  LinkedAtStart, TitlesAtStart,  \* how the hub has the groups when the poller starts
  MaxEdits    \* bound: how many times the hub edits groups or findings

ASSUME RoutingAssumption ==
  /\ Groups \subseteq Nat
  /\ IsFiniteSet(Groups)
  /\ NoGroup \notin Groups
  /\ LinkedAtStart \subseteq Groups
  /\ TitlesAtStart \in [Groups -> {"other", "unit", "unit and name"}]
  /\ MaxEdits \in Nat

VARIABLES
  links,      \* the groups whose samsara_vehicle_id is this vehicle
  titles,     \* what each group's title says about it
  findings,   \* table operational_findings: the status of each routing key
  edits,      \* how many edits the hub has made
  route,      \* a lane's findGroupByUnit in progress
  settledKey  \* history: the finding the last undisturbed resolution left open

routingVars == <<links, titles, findings, edits, route, settledKey>>

Keys     == {"routed_by_name", "disagreement", "contested"}
NoKey    == "none"
Unknown  == "unknown"
Statuses == {"absent", "open", "resolved", "dismissed"}
Titles   == {"other", "unit", "unit and name"}

\* What an alert's vehicle and driver labels give the parse: no number, the
\* unit, or the unit and a name that is in the group's title.
Labels == {"no unit", "unit", "unit and name"}

\* at: the query it waits for.  claims, group, filed: its locals.  clean: no
\* query of it failed and no other resolution overlapped it.
IdleRoute ==
  [at |-> "idle", label |-> "no unit", claims |-> {}, group |-> NoGroup,
   filed |-> NoKey, clean |-> TRUE]

Routes ==
  [at : {"idle", "claims", "parse", "file", "settle", "done"}, label : Labels,
   claims : SUBSET Groups, group : Groups \cup {NoGroup},
   filed : Keys \cup {NoKey}, clean : BOOLEAN]

Routing(l) == route[l].at \in {"claims", "parse", "file", "settle"}

RoutingTypeOK ==
  /\ links \subseteq Groups
  /\ titles \in [Groups -> Titles]
  /\ findings \in [Keys -> Statuses]
  /\ edits \in 0..MaxEdits
  /\ route \in [Lanes -> Routes]
  /\ settledKey \in Keys \cup {NoKey, Unknown}

RoutingInit ==
  /\ links = LinkedAtStart
  /\ titles = TitlesAtStart
  /\ findings = [k \in Keys |-> "absent"]
  /\ edits = 0
  /\ route = [l \in Lanes |-> IdleRoute]
  /\ settledKey = NoKey

----------------------------------------------------------------------------
(* Pure choices *)

\* Several groups with the unit in their title need a name to tell them apart;
\* the newest one that has it is taken.
ParsedGroup(label) ==
  LET matches == {g \in Groups : titles[g] # "other"}
      named   == {g \in matches : titles[g] = "unit and name" /\ label = "unit and name"}
  IN  IF label = "no unit" \/ matches = {} THEN NoGroup
      ELSE IF Cardinality(matches) = 1 THEN Max(matches)
      ELSE IF named = {} THEN NoGroup
      ELSE Max(named)

Choice(claims, parsed) ==
  IF Cardinality(claims) > 1
  THEN [group |-> parsed, finding |-> "contested"]
  ELSE IF claims # {}
  THEN LET stored == Max(claims)
       IN  [group   |-> stored,
            finding |-> IF parsed \in {NoGroup, stored} THEN NoKey ELSE "disagreement"]
  ELSE [group   |-> parsed,
        finding |-> IF parsed = NoGroup THEN NoKey ELSE "routed_by_name"]

UpsertedOnce(k) == [findings EXCEPT ![k] = IF @ = "absent" THEN "open" ELSE @]

\* The upsert reopens a resolved row and leaves a dismissed one alone.
Upserted(k) ==
  [findings EXCEPT ![k] = IF @ \in {"absent", "resolved"} THEN "open" ELSE @]

SettledExcept(k) ==
  [j \in Keys |-> IF j # k /\ findings[j] = "open" THEN "resolved" ELSE findings[j]]

----------------------------------------------------------------------------
(* A lane's resolution *)

\* An overlap spoils both resolutions for the history.
RouteStart(l, label) ==
  /\ route[l].at = "idle"
  /\ LET others == {k \in Lanes \ {l} : Routing(k)}
     IN  route' = [k \in Lanes |->
           IF k = l
           THEN [IdleRoute EXCEPT !.at = "claims", !.label = label, !.clean = others = {}]
           ELSE [route[k] EXCEPT !.clean = @ /\ k \notin others]]
  /\ UNCHANGED <<links, titles, findings, edits, settledKey, faults>>

ReadClaims(l) ==
  /\ route[l].at = "claims"
  /\ route' = [route EXCEPT ![l].at = "parse", ![l].claims = links]
  /\ UNCHANGED <<links, titles, findings, edits, settledKey, faults>>

\* What a resolution does next once it has filed, or has nothing to file; one
\* that reaches no group settles nothing.
Onward(r) == IF r.group = NoGroup THEN "done" ELSE "settle"

ReadTitles(l) ==
  /\ route[l].at = "parse"
  /\ LET r == route[l]
         c == Choice(r.claims, ParsedGroup(r.label))
         s == [r EXCEPT !.group = c.group, !.filed = c.finding, !.claims = {}]
     IN  route' = [route EXCEPT ![l] =
           [s EXCEPT !.at = IF c.finding # NoKey THEN "file" ELSE Onward(s)]]
  /\ UNCHANGED <<links, titles, findings, edits, settledKey, faults>>

\* findGroupByUnit catches a failed read and answers null.
ReadFails(l) ==
  /\ route[l].at \in {"claims", "parse"}
  /\ Fault("query")
  /\ route' = [route EXCEPT ![l] = [IdleRoute EXCEPT !.at = "done", !.clean = FALSE]]
  /\ UNCHANGED <<links, titles, findings, edits, settledKey>>

\* A resolution that files without routing disturbs what the last one left.
FileFinding(l) ==
  /\ route[l].at = "file"
  /\ \/ /\ findings' = Upserted(route[l].filed)
        /\ route' = [route EXCEPT ![l].at = Onward(route[l])]
        /\ NoFault
     \/ /\ Fault("query")                  \* recordRoutingFinding swallows it
        /\ route' = [route EXCEPT ![l].at = Onward(route[l]), ![l].clean = FALSE]
        /\ UNCHANGED findings
  /\ settledKey' = IF route[l].group = NoGroup THEN Unknown ELSE settledKey
  /\ UNCHANGED <<links, titles, edits>>

SettleFindings(l) ==
  /\ route[l].at = "settle"
  /\ \/ /\ findings' = SettledExcept(route[l].filed)
        /\ settledKey' = IF route[l].clean THEN route[l].filed ELSE Unknown
        /\ NoFault
     \/ /\ Fault("query")                  \* resolveRoutingFindings swallows it
        /\ settledKey' = Unknown
        /\ UNCHANGED findings
  /\ route' = [route EXCEPT ![l].at = "done"]
  /\ UNCHANGED <<links, titles, edits>>

RouteStep(l) ==
  \/ ReadClaims(l)
  \/ ReadTitles(l)
  \/ ReadFails(l)
  \/ FileFinding(l)
  \/ SettleFindings(l)

----------------------------------------------------------------------------
(* The hub edits the shared database *)

Edit ==
  /\ edits < MaxEdits
  /\ edits' = edits + 1
  /\ UNCHANGED <<route, settledKey, faults>>

Relink(g) ==
  /\ Edit
  /\ links' = IF g \in links THEN links \ {g} ELSE links \cup {g}
  /\ UNCHANGED <<titles, findings>>

Retitle(g, t) ==
  /\ Edit
  /\ titles[g] # t
  /\ titles' = [titles EXCEPT ![g] = t]
  /\ UNCHANGED <<links, findings>>

Dismiss(k) ==
  /\ Edit
  /\ findings[k] = "open"
  /\ findings' = [findings EXCEPT ![k] = "dismissed"]
  /\ UNCHANGED <<links, titles>>

HubEdit ==
  \/ \E g \in Groups : Relink(g) \/ \E t \in Titles : Retitle(g, t)
  \/ \E k \in Keys : Dismiss(k)

----------------------------------------------------------------------------
(* Properties *)

\* Once an alert has been routed, with no failed query and no other resolution
\* of the vehicle in between, and until the next one, the open findings say how
\* it was routed: the one it filed is open unless the hub dismissed it, and the
\* others are not (routingFindings.js:17-21).
FindingsCurrent ==
  settledKey = Unknown \/ (\E l \in Lanes : Routing(l))
  \/ \A k \in Keys :
       IF k = settledKey THEN findings[k] \in {"open", "dismissed"}
                         ELSE findings[k] # "open"
=============================================================================
