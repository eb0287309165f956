------------------------- MODULE AlertService_proofs -------------------------
(***************************************************************************)
(* What the alert path guarantees for every set of events and chats, any   *)
(* number of faults and any behaviour of the people around the system:     *)
(* first the broadcast alone (module Broadcast), whose runs may then start *)
(* at any time, then the queue and the broadcast together (module          *)
(* AlertService), which keeps the broadcast's invariants because each of   *)
(* its steps is a step of the broadcast or leaves it alone.                *)
(***************************************************************************)
EXTENDS AlertService, SequenceTheorems, TLAPS

\* The fields of a run: all that a step which copies some of them needs to know.
RunFields ==
  {"at", "event", "clips", "statuses", "group", "todo", "targets", "chat", "medium", "back",
   "gone", "retry", "sent"}

LEMMA RunDomain == ASSUME NEW r \in Runs PROVE DOMAIN r = RunFields
  BY DEF Runs, RunFields

\* A run is typed when each of its fields is.
RunTyped(r) ==
  /\ r.at \in RunStates /\ r.event \in Events \cup {NoEvent}
  /\ r.clips \in SUBSET {"road", "cabin"} /\ r.statuses \in [Chats -> Statuses]
  /\ r.group \in Chats \cup {NoChat} /\ r.todo \in SUBSET Chats /\ r.targets \in SUBSET Chats
  /\ r.chat \in Chats \cup {NoChat} /\ r.medium \in Media /\ r.back \in {"notify", "forward"}
  /\ r.gone \in BOOLEAN /\ r.retry \in BOOLEAN /\ r.sent \in SUBSET Chats

LEMMA RunsElim == ASSUME NEW r \in Runs PROVE r = [f \in RunFields |-> r[f]] /\ RunTyped(r)
  BY DEF Runs, RunTyped, RunFields

LEMMA RunsIntro ==
  ASSUME NEW r, r = [f \in RunFields |-> r[f]], RunTyped(r)
  PROVE  r \in Runs
  BY DEF Runs, RunTyped, RunFields

\* Forwarding, and a run that is done with a chat, are typed.
LEMMA ForwardingType ==
  ASSUME run \in Runs, run.group \in Chats, FirstMedium(run.clips) \in Media
  PROVE  Forwarding \in Runs /\ Forwarding.at = "attempt" /\ Forwarding.event = run.event
           /\ Forwarding.chat = run.group
<1>1. run = [f \in RunFields |-> run[f]] /\ RunTyped(run)
  BY RunsElim
<1>2. Forwarding = [f \in RunFields |-> Forwarding[f]]
  BY <1>1 DEF Forwarding
<1>3. RunTyped(Forwarding)
  BY <1>1 DEF RunTyped, RunStates, RunFields, Forwarding
<1>4. Forwarding.at = "attempt" /\ Forwarding.event = run.event /\ Forwarding.chat = run.group
  BY <1>1 DEF RunFields, Forwarding
<1> QED
  BY <1>2, <1>3, <1>4, RunsIntro

LEMMA OnwardType ==
  ASSUME run \in Runs
  PROVE  /\ Onward \in Runs
         /\ Onward.at \in {"notify", "finish"}
         /\ Onward.event = run.event /\ Onward.chat = NoChat
<1>1. run = [f \in RunFields |-> run[f]] /\ RunTyped(run)
  BY RunsElim
<1>2. Onward = [f \in RunFields |-> Onward[f]]
  BY <1>1 DEF Onward
<1>3. RunTyped(Onward)
  BY <1>1 DEF RunTyped, RunStates, RunFields, Onward, Media
<1>4. Onward.at \in {"notify", "finish"} /\ Onward.event = run.event /\ Onward.chat = NoChat
  BY <1>1 DEF RunFields, Onward
<1> QED
  BY <1>2, <1>3, <1>4, RunsIntro

LEMMA IdleRunType == IdleRun \in Runs /\ IdleRun.at = "idle" /\ IdleRun.event = NoEvent
                       /\ IdleRun.chat = NoChat
  BY DEF IdleRun, Runs, RunStates, NoStatuses, Statuses, Media

\* The starting state is well typed.
LEMMA InitType == Init => TypeOK
<1> SUFFICES ASSUME Init PROVE TypeOK
  OBVIOUS
<1>1. FaultsTypeOK
  BY FaultsAssumption DEF Init, FaultsInit, FaultsTypeOK
<1>2. past \in SUBSET Facts
  BY BroadcastAssumption DEF Init, Facts
<1>3. run \in Runs /\ run = IdleRun
  BY IdleRunType DEF Init
<1>4. ledger \in [Events -> [Chats -> Statuses]]
  BY DEF Init, NoStatuses, Statuses
<1>5. run.at = "idle" /\ run.event = NoEvent /\ run.chat = NoChat
  BY <1>3, IdleRunType
<1> QED
  BY <1>1, <1>2, <1>3, <1>4, <1>5, BroadcastAssumption DEF Init, TypeOK

LEMMA FaultType ==
  ASSUME FaultsTypeOK, NEW kind, Fault(kind) \/ NoFault
  PROVE  FaultsTypeOK'
  BY FaultsAssumption DEF FaultsTypeOK, Fault, NoFault

\* Changing one entry of a table indexed by event and chat.
LEMMA EntryType ==
  ASSUME NEW S, NEW f \in [Events -> [Chats -> S]], NEW e \in Events, NEW c \in Chats, NEW v \in S
  PROVE  [f EXCEPT ![e][c] = v] \in [Events -> [Chats -> S]]
<1>1. [f[e] EXCEPT ![c] = v] \in [Chats -> S]
  OBVIOUS
<1> QED
  BY <1>1

LEMMA OneMoreAt ==
  ASSUME NEW f \in [Events -> [Chats -> Nat]], Event \in Events, Chat \in Chats,
         NEW e \in Events, NEW c \in Chats
  PROVE  OneMore(f)[e][c] = IF e = Event /\ c = Chat THEN f[e][c] + 1 ELSE f[e][c]
<1>1. CASE e = Event
  <2>1. OneMore(f)[e] = [f[e] EXCEPT ![Chat] = @ + 1]
    BY <1>1 DEF OneMore
  <2> QED
    BY <1>1, <2>1
<1>2. CASE e # Event
  BY <1>2 DEF OneMore
<1> QED
  BY <1>1, <1>2

LEMMA OneMoreGrows ==
  ASSUME NEW f \in [Events -> [Chats -> Nat]], Event \in Events, Chat \in Chats,
         NEW e \in Events, NEW c \in Chats
  PROVE  OneMore(f)[e][c] \in Nat /\ OneMore(f)[e][c] >= f[e][c]
<1>1. f[e][c] \in Nat
  OBVIOUS
<1> QED
  BY <1>1, OneMoreAt

LEMMA OneMoreType ==
  ASSUME NEW f \in [Events -> [Chats -> Nat]], Event \in Events, Chat \in Chats
  PROVE  OneMore(f) \in [Events -> [Chats -> Nat]]
<1>1. f[Event][Chat] + 1 \in Nat
  OBVIOUS
<1> QED
  BY <1>1, EntryType DEF OneMore

\* Every step preserves the types: one case per action.
LEMMA NextType == TypeOK /\ [Next]_vars => TypeOK'
<1> SUFFICES ASSUME TypeOK, [Next]_vars PROVE TypeOK'
  OBVIOUS
<1> USE BroadcastAssumption
<1>1. ASSUME NEW e \in Events, Start(e) PROVE TypeOK'
  <2>1. PICK clips \in ClipSets :
          run' = [IdleRun EXCEPT !.at = "load", !.event = e, !.clips = clips]
    BY <1>1 DEF Start
  <2>2. clips \in SUBSET {"road", "cabin"}
    BY <2>1
  <2>3. run' \in Runs /\ run'.at = "load" /\ run'.event = e /\ run'.chat = NoChat
    BY <2>1, <2>2, IdleRunType DEF Runs, RunStates
  <2> QED
    BY <1>1, <2>3 DEF Start, TypeOK, durable, history, FaultsTypeOK
<1>2. CASE LoadLedger
  BY <1>2 DEF LoadLedger, TypeOK, Runs, RunStates, durable, history, FaultsTypeOK, Event
<1>3. CASE LoadLedgerFails
  <2>1. FaultsTypeOK'
    BY <1>3, FaultType DEF LoadLedgerFails, TypeOK
  <2>2. excuse' \in [Events -> [Chats -> Nat]]
    <3> DEFINE more(c) == excuse[Event][c] + IF ledger[Event][c] \in Settled THEN 1 ELSE 0
    <3>1. Event \in Events
      BY <1>3 DEF LoadLedgerFails, TypeOK, Runs, Event
    <3>2. excuse' = [excuse EXCEPT ![Event] = [c \in Chats |-> more(c)]]
      BY <1>3 DEF LoadLedgerFails
    <3>3. \A c \in Chats : more(c) \in Nat
      BY <3>1 DEF TypeOK
    <3>4. [c \in Chats |-> more(c)] \in [Chats -> Nat]
      BY <3>3
    <3> HIDE DEF more
    <3> QED
      BY <3>2, <3>4 DEF TypeOK
  <2> QED
    BY <1>3, <2>1, <2>2 DEF LoadLedgerFails, TypeOK, Runs, RunStates, durable
<1>4. CASE RouteEvent
  <2>1. FaultsTypeOK'
    BY <1>4, FaultType DEF RouteEvent, TypeOK
  <2>2. run.event \in Events
    BY <1>4 DEF RouteEvent, TypeOK, Runs
  <2>3. past' \in SUBSET Facts
    BY <1>4, <2>2 DEF RouteEvent, TypeOK, Facts, Event
  <2>4. run' \in Runs /\ run'.at = "keep" /\ run'.event = run.event /\ run'.chat = run.chat
    <3>1. DriverOf[Event] \in Chats \cup {NoChat}
      BY <2>2 DEF Event
    <3>2. CASE run' = [run EXCEPT !.at = "keep", !.group = DriverOf[Event]]
      BY <3>1, <3>2 DEF TypeOK, Runs, RunStates
    <3>3. CASE run' = [run EXCEPT !.at = "keep"]
      BY <3>3 DEF TypeOK, Runs, RunStates
    <3> QED
      BY <1>4, <3>2, <3>3 DEF RouteEvent
  <2> QED
    BY <1>4, <2>1, <2>2, <2>3, <2>4 DEF RouteEvent, TypeOK, durable
<1>5. CASE KeepEvent
  <2>1. FaultsTypeOK'
    BY <1>5, FaultType DEF KeepEvent, TypeOK
  <2>2. run.event \in Events
    BY <1>5 DEF KeepEvent, TypeOK, Runs
  <2>3. past' \in SUBSET Facts
    BY <1>5, <2>2 DEF KeepEvent, TypeOK, Facts, Event
  <2>4. run' \in Runs /\ run'.at = "list" /\ run'.event = run.event /\ run'.chat = run.chat
    <3>1. run' = [run EXCEPT !.at = "list"] /\ run \in Runs
      BY <1>5 DEF KeepEvent, TypeOK
    <3> QED
      BY <3>1 DEF Runs, RunStates
  <2>5. run.at = "keep"
          /\ UNCHANGED <<ledger, recovery, subscribers, switchedOff, copies, excuse>>
    BY <1>5 DEF KeepEvent
  <2>6. recorded' \in SUBSET Events
    BY <1>5, <2>2 DEF KeepEvent, TypeOK, Event
  <2> QED
    BY <2>1, <2>3, <2>4, <2>5, <2>6 DEF TypeOK
<1>6. CASE ListSubscribers
  <2>1. run \in Runs /\ subscribers \cup {Forced} \in SUBSET Chats /\ run.at = "list"
          /\ run' = [run EXCEPT !.at = "notify", !.todo = subscribers \cup {Forced},
                                !.targets = subscribers \cup {Forced}]
    BY <1>6 DEF ListSubscribers, TypeOK
  <2>2. run' \in Runs /\ run'.at = "notify" /\ run'.event = run.event /\ run'.chat = run.chat
    BY <2>1 DEF Runs, RunStates
  <2> QED
    BY <1>6, <2>1, <2>2 DEF ListSubscribers, TypeOK, durable, history, FaultsTypeOK
<1>7. ASSUME NEW c \in Chats, SkipSettled(c) PROVE TypeOK'
  BY <1>7 DEF SkipSettled, TypeOK, Runs, RunStates, durable, history, FaultsTypeOK
<1>8. ASSUME NEW c \in Chats, BeginNotification(c) PROVE TypeOK'
  BY <1>8 DEF BeginNotification, FirstMedium, TypeOK, Runs, RunStates, Media, durable, history,
              FaultsTypeOK
<1>9. CASE EndNotifications \/ NoForward
  <2>1. run' = [run EXCEPT !.at = "switch"] \/ run' = [run EXCEPT !.at = "finish"]
    BY <1>9 DEF EndNotifications, NoForward
  <2>2. run.at \in {"notify", "switch"} /\ UNCHANGED <<durable, history, faults>>
    BY <1>9 DEF EndNotifications, NoForward
  <2>3. run' \in Runs /\ run'.at \in {"switch", "finish"} /\ run'.event = run.event
          /\ run'.chat = run.chat
    <3>1. CASE run' = [run EXCEPT !.at = "switch"]
      BY <3>1 DEF TypeOK, Runs, RunStates
    <3>2. CASE run' = [run EXCEPT !.at = "finish"]
      BY <3>2 DEF TypeOK, Runs, RunStates
    <3> QED
      BY <2>1, <3>1, <3>2
  <2> QED
    BY <2>2, <2>3 DEF TypeOK, durable, history, FaultsTypeOK
<1>10. CASE ReadSwitch
  <2>1. run.group \in Chats
    BY <1>10 DEF ReadSwitch, ToForward, TypeOK, Runs
  <2>2. CASE run' = [run EXCEPT !.at = "finish"]
    <3>1. run' \in Runs /\ run'.at = "finish" /\ run'.event = run.event
            /\ run'.chat = run.chat
      BY <2>2 DEF TypeOK, Runs, RunStates
    <3> QED
      BY <1>10, <3>1 DEF ReadSwitch, TypeOK, durable, history, FaultsTypeOK
  <2>3. CASE run' = Forwarding
    <3>1. FirstMedium(run.clips) \in Media
      BY DEF FirstMedium, Media
    <3>2. run' \in Runs /\ run'.at = "attempt" /\ run'.event = run.event
            /\ run'.chat = run.group
      BY <2>1, <2>3, <3>1, ForwardingType DEF TypeOK
    <3> QED
      BY <1>10, <2>1, <3>2 DEF ReadSwitch, TypeOK, durable, history, FaultsTypeOK
  <2> QED
    BY <1>10, <2>2, <2>3 DEF ReadSwitch
<1>11. CASE SwitchUnknown
  <2>1. FaultsTypeOK'
    BY <1>11, FaultType DEF SwitchUnknown, TypeOK
  <2> QED
    BY <1>11, <2>1 DEF SwitchUnknown, TypeOK, Runs, RunStates, durable, history
<1>12. CASE Accepted
  <2>1. Event \in Events /\ Chat \in Chats
    BY <1>12 DEF Accepted, TypeOK, Runs, Event, Chat
  <2>2. copies' \in [Events -> [Chats -> Nat]]
    BY <1>12, <2>1, OneMoreType DEF Accepted, TypeOK
  <2>3. run.chat \in Chats /\ run.statuses \in [Chats -> Statuses] /\ run.sent \in SUBSET Chats
    BY <2>1 DEF TypeOK, Runs, Chat
  <2>4. [run.statuses EXCEPT ![Chat] = "delivered"] \in [Chats -> Statuses]
    BY <2>3 DEF Chat, Statuses
  <2>5. run.at = "attempt" /\ run'.at = "write" /\ run'.event = run.event /\ run'.chat = run.chat
    BY <1>12 DEF Accepted, TypeOK, Runs
  <2>6. run' \in Runs
    <3>1. run = [f \in RunFields |-> run[f]] /\ RunTyped(run)
      BY RunsElim DEF TypeOK
    <3>2. run' = [run EXCEPT !.at = "write", !.statuses[Chat] = "delivered",
                             !.sent = @ \cup {Chat}]
      BY <1>12 DEF Accepted
    <3>3. run' = [f \in RunFields |-> run'[f]]
      BY <3>1, <3>2
    <3>4. RunTyped(run')
      BY <2>1, <3>1, <3>2 DEF RunTyped, RunStates, Statuses, RunFields
    <3> QED
      BY <3>3, <3>4, RunsIntro
  <2> QED
    BY <1>12, <2>2, <2>5, <2>6 DEF Accepted, TypeOK, durable, FaultsTypeOK
<1>13. ASSUME NEW arrived \in BOOLEAN, FailedCall(arrived),
              VideoFails(arrived) \/ TextFails(arrived)
       PROVE  TypeOK'
  <2>1. FaultsTypeOK'
    BY <1>13, FaultType DEF FailedCall, TypeOK
  <2>2. copies' \in [Events -> [Chats -> Nat]] /\ excuse' \in [Events -> [Chats -> Nat]]
    <3>1. Event \in Events /\ Chat \in Chats
      BY <1>13 DEF FailedCall, TypeOK, Runs, Event, Chat
    <3> QED
      BY <1>13, <3>1, OneMoreType DEF FailedCall, TypeOK
  <2>3. CASE VideoFails(arrived)
    <3>1. run.at = "attempt" /\ UNCHANGED <<durable, past>>
      BY <1>13 DEF FailedCall
    <3>2. PICK next \in Fallbacks(run.medium, run.back) : run' = [run EXCEPT !.medium = next]
      BY <2>3 DEF VideoFails
    <3>3. next \in Media
      BY DEF Fallbacks, Media
    <3>4. /\ run' \in Runs /\ run'.at = "attempt" /\ run'.event = run.event
          /\ run'.chat = run.chat
      BY <3>1, <3>2, <3>3 DEF TypeOK, Runs
    <3> QED
      BY <2>1, <2>2, <3>1, <3>4 DEF TypeOK, durable
  <2>4. CASE TextFails(arrived)
    <3>1. run' = [Onward EXCEPT !.retry = TRUE] /\ UNCHANGED <<durable, past>>
            /\ run.at = "attempt"
      BY <2>4 DEF TextFails, FailedCall
    <3>2. /\ run' \in Runs /\ run'.at \in {"notify", "finish"}
          /\ run'.event = run.event /\ run'.chat = NoChat
      BY <3>1, OnwardType DEF TypeOK, Runs
    <3> QED
      BY <2>1, <2>2, <3>1, <3>2 DEF TypeOK, durable
  <2> QED
    BY <1>13, <2>3, <2>4
<1>14. ASSUME NEW gone \in BOOLEAN, Refused(gone) PROVE TypeOK'
  <2>1. FaultsTypeOK'
    BY <1>14, FaultType DEF Refused, TypeOK
  <2>2. run.event \in Events /\ run.chat \in Chats
    BY <1>14 DEF Refused, TypeOK, Runs
  <2>3. past' \in SUBSET Facts
    BY <1>14, <2>2 DEF Refused, TypeOK, Facts, Event, Chat
  <2> QED
    BY <1>14, <2>1, <2>2, <2>3 DEF Refused, TypeOK, Runs, RunStates, Statuses, durable, Chat
<1>15. CASE WriteOutcome
  <2>1. FaultsTypeOK'
    BY <1>15, FaultType DEF WriteOutcome, TypeOK
  <2>2. Event \in Events /\ Chat \in Chats
    BY <1>15 DEF WriteOutcome, TypeOK, Runs, Event, Chat
  <2>3. excuse' \in [Events -> [Chats -> Nat]]
    <3>1. excuse' \in {excuse, OneMore(excuse)}
      BY <1>15 DEF WriteOutcome
    <3>2. excuse \in [Events -> [Chats -> Nat]]
      BY DEF TypeOK
    <3> QED
      BY <2>2, <3>1, <3>2, OneMoreType
  <2>4. Upserted(ledger[Event][Chat], run.statuses[Chat]) \in Statuses
    BY <2>2 DEF TypeOK, Runs, Upserted
  <2>5. ledger' \in [Events -> [Chats -> Statuses]]
    <3>1. [ledger EXCEPT ![Event][Chat] = Upserted(ledger[Event][Chat], run.statuses[Chat])]
            \in [Events -> [Chats -> Statuses]]
      BY <2>2, <2>4, EntryType DEF TypeOK
    <3> QED
      BY <1>15, <3>1 DEF WriteOutcome, TypeOK
  <2>6. subscribers' \in SUBSET Chats
    BY <1>15 DEF WriteOutcome, TypeOK
  <2>7. run' \in Runs /\ run'.at \in {"notify", "finish"} /\ run'.chat = NoChat
          /\ run'.event = run.event
    <3>1. run' = Onward
      BY <1>15 DEF WriteOutcome
    <3> QED
      BY <3>1, OnwardType DEF TypeOK
  <2> QED
    BY <1>15, <2>1, <2>2, <2>3, <2>5, <2>6, <2>7 DEF WriteOutcome, TypeOK
<1>16. CASE Throw
  BY <1>16, IdleRunType DEF Throw, TypeOK, durable, history, FaultsTypeOK
<1>17. CASE Finish
  BY <1>17 DEF Finish, TypeOK, Runs, RunStates, durable, history, FaultsTypeOK
<1>18. CASE Return
  <2>1. FaultsTypeOK'
    BY <1>18, FaultType DEF Return, TypeOK
  <2>2. run.sent \in SUBSET Chats
    BY DEF TypeOK, Runs
  <2>3. recovery' \in [Events -> SUBSET Chats]
    <3>1. recovery \in [Events -> SUBSET Chats]
      BY DEF TypeOK
    <3>2. recovery' \in
            {recovery, [recovery EXCEPT ![Event] = IF @ = {} THEN run.sent ELSE @]}
      BY <1>18 DEF Return
    <3> QED
      BY <2>2, <3>1, <3>2
  <2> QED
    BY <1>18, <2>1, <2>3, IdleRunType DEF Return, TypeOK, history
<1>19. ASSUME NEW c \in Members, Subscribe(c) \/ Unsubscribe(c) PROVE TypeOK'
  <2>1. past' \in SUBSET Facts
    BY <1>19 DEF Subscribe, Unsubscribe, history, TypeOK, Facts
  <2> QED
    BY <1>19, <2>1 DEF Subscribe, Unsubscribe, history, TypeOK, FaultsTypeOK
<1>20. ASSUME NEW c \in Panel, FlipSwitch(c) PROVE TypeOK'
  <2>1. past' \in SUBSET Facts
    BY <1>20 DEF FlipSwitch, TypeOK, Facts
  <2> QED
    BY <1>20, <2>1 DEF FlipSwitch, TypeOK, FaultsTypeOK
<1>21. CASE Crash
  <2>1. FaultsTypeOK'
    BY <1>21, FaultType DEF Crash, TypeOK
  <2>2. excuse' \in [Events -> [Chats -> Nat]]
    <3>1. run.at = "write" => Event \in Events /\ Chat \in Chats
      BY DEF TypeOK, Runs, Event, Chat
    <3> QED
      BY <1>21, <3>1, OneMoreType DEF Crash, RunLost, TypeOK
  <2> QED
    BY <1>21, <2>1, <2>2, IdleRunType DEF Crash, RunLost, TypeOK, durable
<1>22. CASE UNCHANGED vars
  BY <1>22 DEF vars, durable, history, TypeOK, FaultsTypeOK
<1> QED
  BY <1>1, <1>2, <1>3, <1>4, <1>5, <1>6, <1>7, <1>8, <1>9, <1>10, <1>11, <1>12, <1>13, <1>14,
     <1>15, <1>16, <1>17, <1>18, <1>19, <1>20, <1>21, <1>22
     DEF Next, RunStep, People, VideoFails, TextFails

\* Every variable keeps its type, and the program counter of a run agrees with
\* the event and the chat it holds.
THEOREM TypeCorrect == Spec => []TypeOK
<1>1. Init => TypeOK
  BY InitType
<1>2. TypeOK /\ [Next]_vars => TypeOK'
  BY NextType
<1> QED
  BY <1>1, <1>2, PTL DEF Spec
-----------------------------------------------------------------------------
(* The inductive invariants                                                *)

\* Somebody still knows that c has answered e: its ledger row, or the run that
\* is about to write the row.
Known(e, c) ==
  \/ ledger[e][c] \in Settled
  \/ run.at = "write" /\ e = run.event /\ c = run.chat

\* An answer that nobody knows of has been excused.
AnswersCounted ==
  \A e \in Events, c \in Chats :
    Answers(e, c) <= excuse[e][c] + (IF Known(e, c) THEN 1 ELSE 0)

\* Once the ledger is loaded, the run takes a chat for undecided only when
\* every answer it gave is excused.
StatusesHonest ==
  run.at \notin {"idle", "load"} =>
    \A c \in Chats :
      ~IsSettled(c) => Answers(run.event, c) <= excuse[run.event][c]

\* What the run believes of a chat is true of it.
StatusesTruthful ==
  run.at # "idle" =>
    \A c \in Chats :
      /\ run.statuses[c] = "delivered" => copies[run.event][c] > 0
      /\ run.statuses[c] = "permanent" => <<"refused", run.event, c>> \in past

\* A message is attempted on an unsettled chat only, and settles it.
ChatUndecided ==
  /\ run.at = "attempt" => ~IsSettled(run.chat)
  /\ run.at = "write" => IsSettled(run.chat)

Underway == {"notify", "switch", "attempt", "write", "finish", "enqueue"}

\* Every chat the run has decided to send to is still to be visited, is in
\* hand, or is settled; otherwise the run is going to throw.
TargetsFollowed ==
  /\ run.at \notin Underway => run.targets = {}
  /\ run.at \in Underway => Forced \in run.targets
  /\ run.at \in {"switch", "finish", "enqueue"} \/ run.back = "forward" => run.todo = {}
  /\ run.at \notin {"attempt", "write"} => run.back = "notify"
  /\ run.at = "enqueue" => ~run.retry
  /\ \A c \in run.targets : run.retry \/ c \in run.todo \/ c = run.chat \/ IsSettled(c)

CountInv == TypeOK /\ ChatUndecided /\ AnswersCounted /\ StatusesHonest
TruthInv == CountInv /\ LedgerTruthful /\ StatusesTruthful
DealtInv == TruthInv /\ TargetsFollowed

-----------------------------------------------------------------------------
(* Answers are counted                                                     *)

LEMMA AnswersType ==
  ASSUME TypeOK, NEW e \in Events, NEW c \in Chats
  PROVE  Answers(e, c) \in Nat /\ excuse[e][c] \in Nat /\ copies[e][c] \in Nat
<1>1. copies[e][c] \in Nat /\ excuse[e][c] \in Nat
  BY DEF TypeOK
<1> QED
  BY <1>1 DEF Answers

LEMMA InitCount == Init => CountInv
<1> SUFFICES ASSUME Init PROVE CountInv
  OBVIOUS
<1>1. TypeOK
  BY InitType
<1>2. run.at = "idle"
  BY IdleRunType DEF Init
<1>3. \A e \in Events, c \in Chats : Answers(e, c) = 0 /\ excuse[e][c] = 0
  BY DEF Init, Answers
<1> QED
  BY <1>1, <1>2, <1>3 DEF CountInv, ChatUndecided, AnswersCounted, StatusesHonest

SameAnswers == \A e \in Events, c \in Chats : Answers(e, c)' = Answers(e, c)

\* No copy arrives, and what is noted is no refusal.
LEMMA NothingAnswered ==
  ASSUME UNCHANGED copies,
         \A e \in Events, c \in Chats : <<"refused", e, c>> \in past' <=> <<"refused", e, c>> \in past
  PROVE  SameAnswers
  BY DEF SameAnswers, Answers

LEMMA KnownToBeCounted ==
  ASSUME CountInv, TypeOK', SameAnswers,
         \A e \in Events, c \in Chats :
           /\ excuse'[e][c] >= excuse[e][c]
           /\ Known(e, c) => Known(e, c)' \/ excuse'[e][c] = excuse[e][c] + 1
  PROVE  AnswersCounted'
<1> SUFFICES ASSUME NEW e \in Events, NEW c \in Chats
             PROVE  Answers(e, c)' <= excuse'[e][c] + (IF Known(e, c)' THEN 1 ELSE 0)
  BY DEF AnswersCounted
<1>1. Answers(e, c) <= excuse[e][c] + (IF Known(e, c) THEN 1 ELSE 0)
  BY DEF CountInv, AnswersCounted
<1>2. Answers(e, c) \in Nat /\ excuse[e][c] \in Nat /\ excuse'[e][c] \in Nat
  BY AnswersType DEF CountInv, TypeOK
<1>3. Answers(e, c)' = Answers(e, c)
  BY DEF SameAnswers
<1> HIDE DEF Known
<1> QED
  BY <1>1, <1>2, <1>3

\* A step that touches no answer, no ledger row and no status of the run.
LEMMA QuietCount ==
  ASSUME CountInv, TypeOK', SameAnswers, UNCHANGED <<ledger, excuse>>,
         run.at \notin {"idle", "load", "write"}, run'.at \notin {"idle", "load", "write"},
         run'.event = run.event, run'.statuses = run.statuses,
         run'.at = "attempt" => run.statuses[run'.chat] \notin Settled
  PROVE  CountInv'
<1>1. AnswersCounted'
  <2>1. \A e \in Events, c \in Chats : excuse[e][c] \in Nat /\ Known(e, c)' = Known(e, c)
    BY DEF CountInv, TypeOK, Known
  <2> QED
    BY <2>1, KnownToBeCounted
<1>2. StatusesHonest'
  <2>1. run.event \in Events
    BY DEF CountInv, TypeOK, Runs
  <2> QED
    BY <2>1 DEF CountInv, StatusesHonest, SameAnswers, IsSettled
<1>3. ChatUndecided'
  BY DEF ChatUndecided, IsSettled
<1> QED
  BY <1>1, <1>2, <1>3 DEF CountInv

\* A step between runs: a run that is not about to write ends, or starts.
LEMMA BoundaryCount ==
  ASSUME CountInv, TypeOK', SameAnswers, UNCHANGED <<ledger, excuse>>,
         run.at # "write", run'.at \in {"idle", "load"}
  PROVE  CountInv'
<1>1. AnswersCounted'
  <2>1. \A e \in Events, c \in Chats : excuse[e][c] \in Nat /\ Known(e, c)' = Known(e, c)
    BY DEF CountInv, TypeOK, Known
  <2> QED
    BY <2>1, KnownToBeCounted
<1> QED
  BY <1>1 DEF CountInv, StatusesHonest, ChatUndecided

\* A step that leaves the run where it is.
LEMMA AsideCount ==
  ASSUME CountInv, TypeOK', SameAnswers, UNCHANGED <<ledger, excuse, run>>
  PROVE  CountInv'
<1>1. AnswersCounted'
  <2>1. \A e \in Events, c \in Chats : excuse[e][c] \in Nat /\ Known(e, c)' = Known(e, c)
    BY DEF CountInv, TypeOK, Known
  <2> QED
    BY <2>1, KnownToBeCounted
<1>2. StatusesHonest'
  <2>1. run.at # "idle" => run.event \in Events
    BY DEF CountInv, TypeOK, Runs
  <2> QED
    BY <2>1 DEF CountInv, StatusesHonest, SameAnswers, IsSettled
<1> QED
  BY <1>1, <1>2 DEF CountInv, ChatUndecided, IsSettled

\* A copy arrives in the chat in hand and is excused at once.
LEMMA FailedCallCount ==
  ASSUME CountInv, NEW arrived \in BOOLEAN, FailedCall(arrived)
  PROVE  /\ \A e \in Events, c \in Chats :
              \/ Answers(e, c)' = Answers(e, c) /\ excuse'[e][c] = excuse[e][c]
              \/ Answers(e, c)' = Answers(e, c) + 1 /\ excuse'[e][c] = excuse[e][c] + 1
         /\ UNCHANGED ledger
<1>0. UNCHANGED <<ledger, past>>
  BY DEF FailedCall, durable
<1>1. CASE arrived
  <2>1. /\ copies \in [Events -> [Chats -> Nat]] /\ copies' = OneMore(copies)
        /\ excuse \in [Events -> [Chats -> Nat]] /\ excuse' = OneMore(excuse)
    BY <1>1 DEF CountInv, TypeOK, FailedCall
  <2>2. Event \in Events /\ Chat \in Chats
    BY DEF CountInv, TypeOK, Runs, FailedCall, Event, Chat
  <2>3. ASSUME NEW e \in Events, NEW c \in Chats
        PROVE  \/ Answers(e, c)' = Answers(e, c) /\ excuse'[e][c] = excuse[e][c]
               \/ Answers(e, c)' = Answers(e, c) + 1 /\ excuse'[e][c] = excuse[e][c] + 1
    <3>1. /\ copies'[e][c] = IF e = Event /\ c = Chat THEN copies[e][c] + 1 ELSE copies[e][c]
          /\ excuse'[e][c] = IF e = Event /\ c = Chat THEN excuse[e][c] + 1 ELSE excuse[e][c]
      BY <2>1, <2>2, OneMoreAt
    <3>2. copies[e][c] \in Nat
      BY <2>1
    <3> QED
      BY <1>0, <3>1, <3>2 DEF Answers
  <2> QED
    BY <1>0, <2>3
<1>2. CASE ~arrived
  BY <1>0, <1>2 DEF FailedCall, Answers
<1> QED
  BY <1>1, <1>2

LEMMA LoadCount ==
  ASSUME CountInv, TypeOK', LoadLedger \/ LoadLedgerFails
  PROVE  CountInv'
<1>1. run.at = "load" /\ run.event \in Events
  BY DEF LoadLedger, LoadLedgerFails, CountInv, TypeOK, Runs
<1>2. run'.at = "route" /\ run'.event = run.event
  BY DEF LoadLedger, LoadLedgerFails, CountInv, TypeOK, Runs
<1>3. UNCHANGED <<ledger, copies, past>>
  BY DEF LoadLedger, LoadLedgerFails, durable, history
<1>a. SameAnswers
  BY <1>3, NothingAnswered
<1>4. \A e \in Events, c \in Chats : excuse'[e][c] >= excuse[e][c]
  <2> SUFFICES ASSUME NEW e \in Events, NEW c \in Chats
               PROVE  excuse'[e][c] >= excuse[e][c]
    OBVIOUS
  <2>1. excuse[e][c] \in Nat /\ excuse \in [Events -> [Chats -> Nat]]
    BY DEF CountInv, TypeOK
  <2>2. CASE LoadLedger
    BY <2>1, <2>2 DEF LoadLedger, history
  <2>3. CASE LoadLedgerFails /\ e # Event
    BY <2>1, <2>3 DEF LoadLedgerFails
  <2>4. CASE LoadLedgerFails /\ e = Event
    <3>1. excuse'[e][c] = excuse[e][c] + IF ledger[Event][c] \in Settled THEN 1 ELSE 0
      BY <2>1, <2>4 DEF LoadLedgerFails
    <3> QED
      BY <2>1, <3>1
  <2> QED
    BY <2>2, <2>3, <2>4
<1>5. ChatUndecided'
  BY <1>2 DEF ChatUndecided
<1>6. AnswersCounted'
  <2>1. \A e \in Events, c \in Chats : Known(e, c)' <=> Known(e, c)
    BY <1>1, <1>2, <1>3 DEF Known
  <2> QED
    BY <1>a, <1>4, <2>1, KnownToBeCounted
<1>7. StatusesHonest'
  <2> SUFFICES ASSUME NEW c \in Chats, run'.statuses[c] \notin Settled
               PROVE  Answers(run.event, c) <= excuse'[run.event][c]
    BY <1>1, <1>2, <1>a DEF StatusesHonest, IsSettled, SameAnswers
  <2>1. /\ Answers(run.event, c) <=
             excuse[run.event][c] + (IF ledger[run.event][c] \in Settled THEN 1 ELSE 0)
        /\ excuse[run.event][c] \in Nat /\ Answers(run.event, c) \in Nat
    BY <1>1, AnswersType DEF CountInv, AnswersCounted, Known
  <2>2. CASE LoadLedger
    <3>1. run'.statuses = ledger[run.event] /\ excuse' = excuse
      BY <2>2 DEF LoadLedger, CountInv, TypeOK, Runs, Event, history
    <3> QED
      BY <2>1, <3>1
  <2>3. CASE LoadLedgerFails
    <3>1. excuse'[run.event][c] =
            excuse[run.event][c] + IF ledger[run.event][c] \in Settled THEN 1 ELSE 0
      BY <1>1, <2>3 DEF LoadLedgerFails, CountInv, TypeOK, Event
    <3> QED
      BY <2>1, <3>1
  <2> QED
    BY <2>2, <2>3
<1> QED
  BY <1>5, <1>6, <1>7 DEF CountInv

\* The chat in hand answers, with a copy or a refusal, and the run takes note.
LEMMA AnsweredCount ==
  ASSUME CountInv, TypeOK', run.at = "attempt", run'.at = "write",
         run'.event = run.event, run'.chat = run.chat, UNCHANGED <<ledger, excuse>>,
         NEW status \in Settled, run'.statuses = [run.statuses EXCEPT ![run.chat] = status],
         \A e \in Events, c \in Chats :
           Answers(e, c)' <= Answers(e, c) + IF e = run.event /\ c = run.chat THEN 1 ELSE 0
  PROVE  CountInv'
<1>1. /\ run.event \in Events /\ run.chat \in Chats
      /\ run.statuses \in [Chats -> Statuses] /\ run.statuses[run.chat] \notin Settled
  BY DEF CountInv, ChatUndecided, IsSettled, TypeOK, Runs
<1>2. ChatUndecided'
  BY <1>1 DEF ChatUndecided, IsSettled
<1>3. \A e \in Events, c \in Chats :
        /\ Answers(e, c) \in Nat /\ Answers(e, c)' \in Nat /\ excuse[e][c] \in Nat
        /\ ~(e = run.event /\ c = run.chat) => Answers(e, c)' <= Answers(e, c)
        /\ Answers(e, c)' <= Answers(e, c) + 1
  <2> SUFFICES ASSUME NEW e \in Events, NEW c \in Chats
               PROVE  /\ Answers(e, c) \in Nat /\ Answers(e, c)' \in Nat /\ excuse[e][c] \in Nat
                      /\ ~(e = run.event /\ c = run.chat) => Answers(e, c)' <= Answers(e, c)
                      /\ Answers(e, c)' <= Answers(e, c) + 1
    OBVIOUS
  <2>1. Answers(e, c) \in Nat /\ excuse[e][c] \in Nat
    BY AnswersType DEF CountInv
  <2>2. Answers(e, c)' \in Nat
    <3>1. copies'[e][c] \in Nat
      BY DEF TypeOK
    <3> QED
      BY <3>1 DEF Answers
  <2> QED
    BY <2>1, <2>2
<1>4. StatusesHonest'
  <2> SUFFICES ASSUME NEW c \in Chats, run'.statuses[c] \notin Settled
               PROVE  Answers(run.event, c)' <= excuse[run.event][c]
    BY DEF StatusesHonest, IsSettled
  <2>1. c # run.chat /\ run.statuses[c] \notin Settled
    BY <1>1
  <2>2. Answers(run.event, c) <= excuse[run.event][c]
    BY <2>1 DEF CountInv, StatusesHonest, IsSettled
  <2> QED
    BY <1>1, <1>3, <2>1, <2>2
<1>5. AnswersCounted'
  <2> SUFFICES ASSUME NEW e \in Events, NEW c \in Chats
               PROVE  Answers(e, c)' <= excuse'[e][c] + (IF Known(e, c)' THEN 1 ELSE 0)
    BY DEF AnswersCounted
  <2>1. CASE e = run.event /\ c = run.chat
    <3>1. Known(e, c)'
      BY <2>1 DEF Known
    <3>2. Answers(e, c) <= excuse[e][c]
      BY <1>1, <2>1 DEF CountInv, StatusesHonest, IsSettled
    <3> HIDE DEF Known
    <3> QED
      BY <1>3, <3>1, <3>2
  <2>2. CASE ~(e = run.event /\ c = run.chat)
    <3>1. Known(e, c) => Known(e, c)'
      BY DEF Known
    <3>2. Answers(e, c) <= excuse[e][c] + (IF Known(e, c) THEN 1 ELSE 0)
      BY DEF CountInv, AnswersCounted
    <3> HIDE DEF Known
    <3> QED
      BY <1>3, <2>2, <3>1, <3>2
  <2> QED
    BY <2>1, <2>2
<1> QED
  BY <1>2, <1>4, <1>5 DEF CountInv

LEMMA AcceptedCount ==
  ASSUME CountInv, TypeOK', Accepted
  PROVE  CountInv'
<1>1. run.at = "attempt" /\ run.event \in Events /\ run.chat \in Chats
  BY DEF Accepted, CountInv, TypeOK, Runs
<1>2. /\ run'.at = "write" /\ run'.event = run.event /\ run'.chat = run.chat
      /\ run'.statuses = [run.statuses EXCEPT ![run.chat] = "delivered"]
  BY DEF Accepted, Chat, CountInv, TypeOK, Runs
<1>3. UNCHANGED <<ledger, excuse>>
  BY DEF Accepted, durable
<1>4. ASSUME NEW e \in Events, NEW c \in Chats
      PROVE  Answers(e, c)' <= Answers(e, c) + IF e = run.event /\ c = run.chat THEN 1 ELSE 0
  <2>1. copies \in [Events -> [Chats -> Nat]] /\ copies' = OneMore(copies) /\ UNCHANGED past
    BY DEF Accepted, CountInv, TypeOK
  <2>2. copies'[e][c] = IF e = run.event /\ c = run.chat THEN copies[e][c] + 1 ELSE copies[e][c]
    BY <1>1, <2>1, OneMoreAt DEF Event, Chat
  <2>3. copies[e][c] \in Nat
    BY <2>1
  <2> QED
    BY <2>1, <2>2, <2>3 DEF Answers
<1> QED
  BY <1>1, <1>2, <1>3, <1>4, AnsweredCount DEF Settled

LEMMA RefusedCount ==
  ASSUME CountInv, TypeOK', NEW gone \in BOOLEAN, Refused(gone)
  PROVE  CountInv'
<1>1. run.at = "attempt" /\ run.event \in Events /\ run.chat \in Chats
  BY DEF Refused, CountInv, TypeOK, Runs
<1>2. /\ run'.at = "write" /\ run'.event = run.event /\ run'.chat = run.chat
      /\ run'.statuses = [run.statuses EXCEPT ![run.chat] = "permanent"]
  BY DEF Refused, Chat, CountInv, TypeOK, Runs
<1>3. UNCHANGED <<ledger, copies, excuse>>
  BY DEF Refused, durable
<1>4. ASSUME NEW e \in Events, NEW c \in Chats
      PROVE  Answers(e, c)' <= Answers(e, c) + IF e = run.event /\ c = run.chat THEN 1 ELSE 0
  <2>1. past' = past \cup {<<"refused", run.event, run.chat>>} /\ copies[e][c] \in Nat
    BY DEF Refused, Event, Chat, CountInv, TypeOK
  <2> QED
    BY <1>3, <2>1 DEF Answers
<1> QED
  BY <1>1, <1>2, <1>3, <1>4, AnsweredCount DEF Settled

\* The run goes on to the next chat.
LEMMA OnwardRun ==
  ASSUME TypeOK, run' = Onward
  PROVE  /\ run'.at \in {"notify", "finish"} /\ run'.chat = NoChat
         /\ run'.event = run.event /\ run'.statuses = run.statuses
         /\ run'.retry = run.retry /\ run'.targets = run.targets /\ run'.todo = run.todo
         /\ run'.sent = run.sent /\ run'.back = "notify"
         /\ run'.at = "notify" <=> run.back = "notify"
  BY DEF Onward, TypeOK, Runs

LEMMA WriteCount ==
  ASSUME CountInv, TypeOK', WriteOutcome
  PROVE  CountInv'
<1>1. run.at = "write" /\ run.event \in Events /\ run.chat \in Chats
  BY DEF WriteOutcome, CountInv, TypeOK, Runs
<1>2. run'.at \in {"notify", "finish"} /\ run'.event = run.event /\ run'.statuses = run.statuses
  BY OnwardRun DEF WriteOutcome, CountInv
<1>3. SameAnswers
  BY NothingAnswered DEF WriteOutcome
<1>4. ChatUndecided'
  BY <1>2 DEF ChatUndecided
<1>5. \A e \in Events, c \in Chats :
        /\ excuse[e][c] \in Nat /\ excuse'[e][c] \in Nat /\ Answers(e, c) \in Nat
        /\ excuse'[e][c] >= excuse[e][c]
  <2>1. excuse \in [Events -> [Chats -> Nat]] /\ TypeOK
    BY DEF CountInv, TypeOK
  <2>2. CASE UNCHANGED excuse
    BY <2>1, <2>2, AnswersType
  <2>3. CASE excuse' = OneMore(excuse)
    BY <1>1, <2>1, <2>3, OneMoreGrows, AnswersType DEF Event, Chat
  <2> QED
    BY <2>2, <2>3 DEF WriteOutcome
<1>6. StatusesHonest'
  <2> SUFFICES ASSUME NEW c \in Chats, run.statuses[c] \notin Settled
               PROVE  Answers(run.event, c) <= excuse'[run.event][c]
    BY <1>1, <1>2, <1>3 DEF StatusesHonest, IsSettled, SameAnswers
  <2>1. Answers(run.event, c) <= excuse[run.event][c]
    BY <1>1 DEF CountInv, StatusesHonest, IsSettled
  <2> QED
    BY <1>1, <1>5, <2>1
<1>7. \A e \in Events, c \in Chats :
        Known(e, c) => ledger'[e][c] \in Settled \/ excuse'[e][c] = excuse[e][c] + 1
  <2> SUFFICES ASSUME NEW e \in Events, NEW c \in Chats, Known(e, c)
               PROVE  ledger'[e][c] \in Settled \/ excuse'[e][c] = excuse[e][c] + 1
    OBVIOUS
  <2>1. CASE ledger' = [ledger EXCEPT ![Event][Chat] = Upserted(ledger[Event][Chat],
                                                                run.statuses[Chat])]
    <3>1. run.statuses[Chat] \in Settled
      BY <1>1 DEF CountInv, ChatUndecided, IsSettled, Chat
    <3>2. Upserted(ledger[Event][Chat], run.statuses[Chat]) \in Settled
      BY <3>1 DEF Upserted, Settled
    <3> QED
      BY <1>1, <2>1, <3>2 DEF Known, Event, Chat, CountInv, TypeOK
  <2>2. CASE ledger' = ledger /\ excuse' = OneMore(excuse)
    <3>1. excuse \in [Events -> [Chats -> Nat]]
      BY DEF CountInv, TypeOK
    <3> QED
      BY <1>1, <2>2, <3>1, OneMoreAt DEF Known, Event, Chat
  <2> QED
    BY <2>1, <2>2 DEF WriteOutcome
<1>8. AnswersCounted'
  <2>1. \A e \in Events, c \in Chats : ledger'[e][c] \in Settled => Known(e, c)'
    BY DEF Known
  <2> HIDE DEF Known
  <2> QED
    BY <1>3, <1>5, <1>7, <2>1, KnownToBeCounted
<1> QED
  BY <1>4, <1>6, <1>8 DEF CountInv

LEMMA CrashCount ==
  ASSUME CountInv, TypeOK', Crash
  PROVE  CountInv'
<1>1. run'.at = "idle"
  BY IdleRunType DEF Crash, RunLost
<1>2. UNCHANGED <<ledger, copies, past>>
  BY DEF Crash, RunLost, durable
<1>a. SameAnswers
  BY <1>2, NothingAnswered
<1>3. excuse \in [Events -> [Chats -> Nat]]
  BY DEF CountInv, TypeOK
<1>4. \A e \in Events, c \in Chats :
        /\ excuse'[e][c] >= excuse[e][c]
        /\ Known(e, c) => Known(e, c)' \/ excuse'[e][c] = excuse[e][c] + 1
  <2>1. CASE run.at = "write"
    <3>1. Event \in Events /\ Chat \in Chats /\ excuse' = OneMore(excuse)
      BY <2>1 DEF CountInv, TypeOK, Runs, Event, Chat, Crash, RunLost
    <3>2. \A e \in Events, c \in Chats :
            /\ excuse'[e][c] >= excuse[e][c]
            /\ e = Event /\ c = Chat => excuse'[e][c] = excuse[e][c] + 1
      BY <1>3, <3>1, OneMoreGrows, OneMoreAt
    <3> QED
      BY <1>2, <3>2 DEF Known, Event, Chat
  <2>2. CASE run.at # "write"
    <3>1. UNCHANGED excuse
      BY <2>2 DEF Crash, RunLost
    <3> QED
      BY <1>2, <1>3, <2>2, <3>1 DEF Known
  <2> QED
    BY <2>1, <2>2
<1>5. AnswersCounted'
  BY <1>a, <1>4, KnownToBeCounted
<1> QED
  BY <1>1, <1>5 DEF CountInv, ChatUndecided, StatusesHonest

LEMMA FailureCount ==
  ASSUME CountInv, TypeOK', NEW arrived \in BOOLEAN, VideoFails(arrived) \/ TextFails(arrived)
  PROVE  CountInv'
<1>1. FailedCall(arrived) /\ run.at = "attempt"
  BY DEF VideoFails, TextFails, FailedCall
<1>2. /\ run'.at \in {"attempt", "notify", "finish"}
      /\ run'.event = run.event /\ run'.statuses = run.statuses
      /\ run'.at = "attempt" => run'.chat = run.chat
  <2>1. TypeOK
    BY DEF CountInv
  <2>2. CASE VideoFails(arrived)
    <3>1. PICK next \in Fallbacks(run.medium, run.back) : run' = [run EXCEPT !.medium = next]
      BY <2>2 DEF VideoFails
    <3> QED
      BY <1>1, <2>1, <3>1 DEF TypeOK, Runs
  <2>3. CASE TextFails(arrived)
    <3>1. run' = [Onward EXCEPT !.retry = TRUE]
      BY <2>3 DEF TextFails
    <3> QED
      BY <2>1, <3>1 DEF Onward, TypeOK, Runs
  <2> QED
    BY <2>2, <2>3
<1>3. /\ \A e \in Events, c \in Chats :
           \/ Answers(e, c)' = Answers(e, c) /\ excuse'[e][c] = excuse[e][c]
           \/ Answers(e, c)' = Answers(e, c) + 1 /\ excuse'[e][c] = excuse[e][c] + 1
      /\ UNCHANGED ledger
  BY <1>1, FailedCallCount
<1>4. \A e \in Events, c \in Chats : Answers(e, c) \in Nat /\ excuse[e][c] \in Nat
  BY AnswersType DEF CountInv
<1>5. ChatUndecided'
  BY <1>1, <1>2 DEF ChatUndecided, IsSettled, CountInv
<1>6. StatusesHonest'
  <2> SUFFICES ASSUME NEW c \in Chats, run.statuses[c] \notin Settled
               PROVE  Answers(run.event, c)' <= excuse'[run.event][c]
    BY <1>2 DEF StatusesHonest, IsSettled
  <2>1. run.event \in Events
    BY <1>1 DEF CountInv, TypeOK, Runs
  <2>2. Answers(run.event, c) <= excuse[run.event][c]
    BY <1>1 DEF CountInv, StatusesHonest, IsSettled
  <2> QED
    BY <1>2, <1>3, <1>4, <2>1, <2>2
<1>7. AnswersCounted'
  <2>1. \A e \in Events, c \in Chats : Known(e, c)' <=> Known(e, c)
    BY <1>1, <1>2, <1>3 DEF Known
  <2> SUFFICES ASSUME NEW e \in Events, NEW c \in Chats
               PROVE  Answers(e, c)' <= excuse'[e][c] + (IF Known(e, c)' THEN 1 ELSE 0)
    BY DEF AnswersCounted
  <2>2. Answers(e, c) <= excuse[e][c] + (IF Known(e, c) THEN 1 ELSE 0)
    BY DEF CountInv, AnswersCounted
  <2> HIDE DEF Known
  <2> QED
    BY <1>3, <1>4, <2>1, <2>2
<1> QED
  BY <1>5, <1>6, <1>7 DEF CountInv

LEMMA NextCount == CountInv /\ [Next]_vars => CountInv'
<1> SUFFICES ASSUME CountInv, [Next]_vars PROVE CountInv'
  OBVIOUS
<1>0. TypeOK /\ TypeOK'
  BY NextType DEF CountInv
<1>d. DOMAIN run = RunFields
  BY <1>0, RunDomain DEF TypeOK
<1>1. ASSUME NEW e \in Events, Start(e) PROVE CountInv'
  <2>1. run.at = "idle" /\ run'.at = "load" /\ UNCHANGED <<ledger, copies, excuse, past>>
    BY <1>1, IdleRunType DEF Start, Runs, durable, history
  <2> QED
    BY <1>0, <2>1, NothingAnswered, BoundaryCount
<1>2. CASE LoadLedger \/ LoadLedgerFails
  BY <1>0, <1>2, LoadCount
<1>3. CASE RouteEvent \/ KeepEvent
  <2>1. /\ run.at \in {"route", "keep"} /\ run'.at \in {"keep", "list"}
        /\ run'.event = run.event /\ run'.statuses = run.statuses
    BY <1>d, <1>3 DEF RouteEvent, KeepEvent, RunFields
  <2>2. /\ UNCHANGED <<ledger, copies, excuse>>
        /\ past' \in {past, past \cup {<<"unrouted", Event>>}, past \cup {<<"unrecorded", Event>>}}
    BY <1>3 DEF RouteEvent, KeepEvent, durable
  <2>3. SameAnswers
    BY <2>2, NothingAnswered
  <2> QED
    BY <1>0, <2>1, <2>2, <2>3, QuietCount
<1>4. CASE ListSubscribers \/ EndNotifications \/ NoForward \/ SwitchUnknown \/ Finish
  <2>1. /\ run.at \in {"list", "notify", "switch", "finish"}
        /\ run'.at \in {"notify", "switch", "finish", "enqueue"}
        /\ run'.event = run.event /\ run'.statuses = run.statuses
    BY <1>d, <1>4 DEF ListSubscribers, EndNotifications, NoForward, SwitchUnknown, Finish,
                      RunFields
  <2>2. UNCHANGED <<ledger, copies, excuse, past>>
    BY <1>4 DEF ListSubscribers, EndNotifications, NoForward, SwitchUnknown, Finish,
                durable, history
  <2> QED
    BY <1>0, <2>1, <2>2, NothingAnswered, QuietCount
<1>5. ASSUME NEW c \in Chats, SkipSettled(c) \/ BeginNotification(c) PROVE CountInv'
  <2>1. /\ run.at = "notify" /\ run'.at \in {"notify", "attempt"}
        /\ run'.event = run.event /\ run'.statuses = run.statuses
        /\ run'.at = "attempt" => run'.chat = c /\ run.statuses[c] \notin Settled
    BY <1>d, <1>5 DEF SkipSettled, BeginNotification, IsSettled, RunFields
  <2>2. UNCHANGED <<ledger, copies, excuse, past>>
    BY <1>5 DEF SkipSettled, BeginNotification, durable, history
  <2> QED
    BY <1>0, <2>1, <2>2, NothingAnswered, QuietCount
<1>6. CASE ReadSwitch
  <2>1. /\ run.at = "switch" /\ run'.at \in {"finish", "attempt"}
        /\ run'.event = run.event /\ run'.statuses = run.statuses
        /\ run'.at = "attempt" => run.statuses[run'.chat] \notin Settled
    BY <1>d, <1>6 DEF ReadSwitch, ToForward, Forwarding, IsSettled, RunFields
  <2>2. UNCHANGED <<ledger, copies, excuse, past>>
    BY <1>6 DEF ReadSwitch, durable, history
  <2> QED
    BY <1>0, <2>1, <2>2, NothingAnswered, QuietCount
<1>7. CASE Accepted
  BY <1>0, <1>7, AcceptedCount
<1>8. ASSUME NEW arrived \in BOOLEAN, VideoFails(arrived) \/ TextFails(arrived) PROVE CountInv'
  BY <1>0, <1>8, FailureCount
<1>9. ASSUME NEW gone \in BOOLEAN, Refused(gone) PROVE CountInv'
  BY <1>0, <1>9, RefusedCount
<1>10. CASE WriteOutcome
  BY <1>0, <1>10, WriteCount
<1>11. CASE Throw \/ Return
  <2>1. run.at # "write" /\ run'.at = "idle" /\ UNCHANGED <<ledger, copies, excuse, past>>
    BY <1>11, IdleRunType DEF Throw, Return, durable, history
  <2> QED
    BY <1>0, <2>1, NothingAnswered, BoundaryCount
<1>12. ASSUME NEW c, Subscribe(c) \/ Unsubscribe(c) \/ FlipSwitch(c) PROVE CountInv'
  <2>1. /\ UNCHANGED <<ledger, copies, excuse, run>>
        /\ \/ past' = past \/ past' = past \cup {<<"joined", c>>}
           \/ past' = past \cup ({"on", "off"} \X {c})
    BY <1>12 DEF Subscribe, Unsubscribe, FlipSwitch, history
  <2>2. SameAnswers
    BY <2>1, NothingAnswered
  <2> QED
    BY <1>0, <2>1, <2>2, AsideCount
<1>13. CASE Crash
  BY <1>0, <1>13, CrashCount
<1>14. CASE UNCHANGED vars
  BY <1>0, <1>14, NothingAnswered, AsideCount DEF vars, durable, history
<1> QED
  BY <1>1, <1>2, <1>3, <1>4, <1>5, <1>6, <1>7, <1>8, <1>9, <1>10, <1>11, <1>12, <1>13, <1>14
     DEF Next, RunStep, People

LEMMA CountAlways == Spec => []CountInv
<1>1. Init => CountInv
  BY InitCount
<1>2. CountInv /\ [Next]_vars => CountInv'
  BY NextCount
<1> QED
  BY <1>1, <1>2, PTL DEF Spec

LEMMA CountMeans == CountInv => DuplicatesExplained
<1> SUFFICES ASSUME CountInv, NEW e \in Events, NEW c \in Chats
             PROVE  Answers(e, c) <= 1 + excuse[e][c]
  BY DEF DuplicatesExplained
<1>1. Answers(e, c) \in Nat /\ excuse[e][c] \in Nat
  BY AnswersType DEF CountInv
<1>2. Answers(e, c) <= excuse[e][c] + (IF Known(e, c) THEN 1 ELSE 0)
  BY DEF CountInv, AnswersCounted
<1> HIDE DEF Known
<1> QED
  BY <1>1, <1>2

\* A chat answers an alert once, by a copy or by a refusal, and once more at
\* most for each fault that hid an earlier answer from the ledger, however
\* often the event is run.
THEOREM CopiesExplained == Spec => []DuplicatesExplained
  BY CountMeans, CountAlways, PTL

-----------------------------------------------------------------------------
(* The ledger tells the truth                                              *)

LEMMA InitTruth == Init => TruthInv
<1> SUFFICES ASSUME Init PROVE TruthInv
  OBVIOUS
<1>1. CountInv
  BY InitCount
<1>2. run.at = "idle"
  BY IdleRunType DEF Init
<1>3. LedgerTruthful
  BY DEF Init, LedgerTruthful, NoStatuses
<1> QED
  BY <1>1, <1>2, <1>3 DEF TruthInv, StatusesTruthful

\* As long as no row is written, what happens can only make the ledger truer.
LEMMA LedgerStaysTruthful ==
  ASSUME LedgerTruthful, UNCHANGED ledger, past \subseteq past',
         \A e \in Events, c \in Chats :
           copies[e][c] \in Nat /\ copies'[e][c] \in Nat /\ copies'[e][c] >= copies[e][c]
  PROVE  LedgerTruthful'
<1> SUFFICES ASSUME NEW e \in Events, NEW c \in Chats
             PROVE  /\ ledger[e][c] = "delivered" => copies'[e][c] > 0
                    /\ ledger[e][c] = "permanent" => <<"refused", e, c>> \in past'
  BY DEF LedgerTruthful
<1>1. /\ ledger[e][c] = "delivered" => copies[e][c] > 0
      /\ ledger[e][c] = "permanent" => <<"refused", e, c>> \in past
  BY DEF LedgerTruthful
<1>2. copies[e][c] \in Nat /\ copies'[e][c] \in Nat /\ copies'[e][c] >= copies[e][c]
  OBVIOUS
<1> QED
  BY <1>1, <1>2

\* Most steps write no row and settle no chat, and none takes a copy back.
LEMMA QuietTruth ==
  ASSUME TruthInv, CountInv', UNCHANGED ledger, past \subseteq past',
         \A e \in Events, c \in Chats : copies'[e][c] >= copies[e][c],
         \/ run'.at = "idle"
         \/ run'.event = run.event /\ run'.statuses = run.statuses /\ run.at # "idle"
  PROVE  TruthInv'
<1>1. \A e \in Events, c \in Chats : copies[e][c] \in Nat /\ copies'[e][c] \in Nat
  BY DEF TruthInv, CountInv, TypeOK
<1>2. LedgerTruthful'
  <2>1. LedgerTruthful
    BY DEF TruthInv
  <2> QED
    BY <1>1, <2>1, LedgerStaysTruthful
<1>3. StatusesTruthful'
  <2>1. run.at # "idle" => run.event \in Events
    BY DEF TruthInv, CountInv, TypeOK, Runs
  <2> QED
    BY <1>1, <2>1 DEF TruthInv, StatusesTruthful
<1> QED
  BY <1>2, <1>3 DEF TruthInv

LEMMA StartTruth ==
  ASSUME TruthInv, CountInv', NEW e \in Events, Start(e)
  PROVE  TruthInv'
<1>1. UNCHANGED <<ledger, copies, past>>
  BY DEF Start, durable, history
<1>2. run'.statuses = NoStatuses
  BY DEF Start, IdleRun
<1> QED
  BY <1>1, <1>2 DEF TruthInv, LedgerTruthful, StatusesTruthful, NoStatuses

LEMMA LoadTruth ==
  ASSUME TruthInv, CountInv', LoadLedger \/ LoadLedgerFails
  PROVE  TruthInv'
<1>1. run.at = "load" /\ run.event \in Events /\ run'.event = run.event
  BY DEF LoadLedger, LoadLedgerFails, TruthInv, CountInv, TypeOK, Runs
<1>2. UNCHANGED <<ledger, copies, past>>
  BY DEF LoadLedger, LoadLedgerFails, durable, history
<1>3. run'.statuses = run.statuses \/ run'.statuses = ledger[run.event]
  BY DEF LoadLedger, LoadLedgerFails, Event, TruthInv, CountInv, TypeOK, Runs
<1> QED
  BY <1>1, <1>2, <1>3 DEF TruthInv, LedgerTruthful, StatusesTruthful

\* A chat is settled by the copy it just received.
LEMMA AcceptedRun ==
  ASSUME TypeOK, Accepted
  PROVE  /\ run.at = "attempt" /\ run.event \in Events /\ run.chat \in Chats
         /\ run'.at = "write" /\ run'.event = run.event /\ run'.chat = run.chat
         /\ run'.todo = run.todo /\ run'.targets = run.targets
         /\ run'.back = run.back /\ run'.retry = run.retry
         /\ run'.statuses = [run.statuses EXCEPT ![run.chat] = "delivered"]
<1>1. run.at = "attempt"
  BY DEF Accepted
<1> QED
  BY <1>1 DEF Accepted, Chat, TypeOK, Runs

LEMMA AcceptedTruth ==
  ASSUME TruthInv, CountInv', Accepted
  PROVE  TruthInv'
<1>0. TypeOK /\ LedgerTruthful
  BY DEF TruthInv, CountInv
<1>1. run.at = "attempt" /\ run.event \in Events /\ run.chat \in Chats /\ run'.event = run.event
  BY <1>0, AcceptedRun
<1>2. UNCHANGED <<ledger, past>>
  BY DEF Accepted, durable
<1>3. \A e \in Events, c \in Chats :
        copies[e][c] \in Nat /\ copies'[e][c] \in Nat /\ copies'[e][c] >= copies[e][c]
  <2>1. copies \in [Events -> [Chats -> Nat]] /\ copies' = OneMore(copies)
    BY <1>0 DEF Accepted, TypeOK
  <2> QED
    BY <1>1, <2>1, OneMoreGrows DEF Event, Chat
<1>4. copies'[run.event][run.chat] > 0
  <2>1. copies \in [Events -> [Chats -> Nat]] /\ copies' = OneMore(copies)
    BY <1>0 DEF Accepted, TypeOK
  <2>2. copies'[run.event][run.chat] = copies[run.event][run.chat] + 1
    BY <1>1, <2>1, OneMoreAt DEF Event, Chat
  <2> QED
    BY <1>1, <1>3, <2>2
<1>5. LedgerTruthful'
  BY <1>0, <1>2, <1>3, LedgerStaysTruthful
<1>6. StatusesTruthful'
  <2> SUFFICES ASSUME NEW c \in Chats
               PROVE  /\ run'.statuses[c] = "delivered" => copies'[run.event][c] > 0
                      /\ run'.statuses[c] = "permanent" => <<"refused", run.event, c>> \in past
    BY <1>1, <1>2 DEF StatusesTruthful
  <2>1. run.statuses \in [Chats -> Statuses]
    BY <1>0 DEF TypeOK, Runs
  <2>2. run'.statuses[c] = IF c = run.chat THEN "delivered" ELSE run.statuses[c]
    BY <1>0, <2>1, AcceptedRun
  <2>3. /\ run.statuses[c] = "delivered" => copies[run.event][c] > 0
        /\ run.statuses[c] = "permanent" => <<"refused", run.event, c>> \in past
    BY <1>1 DEF TruthInv, StatusesTruthful
  <2> QED
    BY <1>1, <1>3, <1>4, <2>2, <2>3
<1> QED
  BY <1>5, <1>6 DEF TruthInv

\* A chat is settled by its refusal.
LEMMA RefusedRun ==
  ASSUME TypeOK, NEW gone \in BOOLEAN, Refused(gone)
  PROVE  /\ run.at = "attempt" /\ run.event \in Events /\ run.chat \in Chats
         /\ run'.at = "write" /\ run'.event = run.event /\ run'.chat = run.chat
         /\ run'.todo = run.todo /\ run'.targets = run.targets
         /\ run'.back = run.back /\ run'.retry = run.retry
         /\ run'.statuses = [run.statuses EXCEPT ![run.chat] = "permanent"]
<1>1. run.at = "attempt"
  BY DEF Refused
<1> QED
  BY <1>1 DEF Refused, Chat, TypeOK, Runs

LEMMA RefusedTruth ==
  ASSUME TruthInv, CountInv', NEW gone \in BOOLEAN, Refused(gone)
  PROVE  TruthInv'
<1>0. TypeOK /\ LedgerTruthful
  BY DEF TruthInv, CountInv
<1>1. run.at = "attempt" /\ run.event \in Events /\ run.chat \in Chats /\ run'.event = run.event
  BY <1>0, RefusedRun
<1>2. UNCHANGED <<ledger, copies>>
  BY DEF Refused, durable
<1>3. past' = past \cup {<<"refused", run.event, run.chat>>}
  BY DEF Refused, Event, Chat
<1>4. LedgerTruthful'
  <2>1. \A e \in Events, c \in Chats : copies[e][c] \in Nat
    BY <1>0 DEF TypeOK
  <2> QED
    BY <1>0, <1>2, <1>3, <2>1, LedgerStaysTruthful
<1>5. StatusesTruthful'
  <2> SUFFICES ASSUME NEW c \in Chats
               PROVE  /\ run'.statuses[c] = "delivered" => copies[run.event][c] > 0
                      /\ run'.statuses[c] = "permanent" => <<"refused", run.event, c>> \in past'
    BY <1>1, <1>2 DEF StatusesTruthful
  <2>1. run.statuses \in [Chats -> Statuses]
    BY <1>0 DEF TypeOK, Runs
  <2>2. run'.statuses[c] = IF c = run.chat THEN "permanent" ELSE run.statuses[c]
    BY <1>0, <2>1, RefusedRun
  <2>3. /\ run.statuses[c] = "delivered" => copies[run.event][c] > 0
        /\ run.statuses[c] = "permanent" => <<"refused", run.event, c>> \in past
    BY <1>1 DEF TruthInv, StatusesTruthful
  <2> QED
    BY <1>3, <2>2, <2>3
<1> QED
  BY <1>4, <1>5 DEF TruthInv

LEMMA WriteTruth ==
  ASSUME TruthInv, CountInv', WriteOutcome
  PROVE  TruthInv'
<1>1. run.at = "write" /\ run.event \in Events /\ run.chat \in Chats
  BY DEF WriteOutcome, TruthInv, CountInv, TypeOK, Runs
<1>2. run'.at \in {"notify", "finish"} /\ run'.event = run.event /\ run'.statuses = run.statuses
  BY OnwardRun DEF WriteOutcome, TruthInv, CountInv
<1>3. UNCHANGED <<copies, past>>
  BY DEF WriteOutcome
<1>4. StatusesTruthful'
  BY <1>1, <1>2, <1>3 DEF TruthInv, StatusesTruthful
<1>5. \A e \in Events, c \in Chats :
        \/ ledger'[e][c] = ledger[e][c]
        \/ e = run.event /\ c = run.chat /\ ledger'[e][c] = run.statuses[c]
  BY <1>1 DEF WriteOutcome, Upserted, Event, Chat, TruthInv, CountInv, TypeOK
<1>6. LedgerTruthful'
  BY <1>1, <1>3, <1>5 DEF TruthInv, LedgerTruthful, StatusesTruthful
<1> QED
  BY <1>4, <1>6 DEF TruthInv

LEMMA NextTruth == TruthInv /\ [Next]_vars => TruthInv'
<1> SUFFICES ASSUME TruthInv, [Next]_vars PROVE TruthInv'
  OBVIOUS
<1>0. CountInv /\ CountInv' /\ TypeOK
  BY NextCount DEF TruthInv, CountInv
<1>d. DOMAIN run = RunFields
  BY <1>0, RunDomain DEF TypeOK
<1>1. ASSUME NEW e \in Events, Start(e) PROVE TruthInv'
  BY <1>0, <1>1, StartTruth
<1>2. CASE LoadLedger \/ LoadLedgerFails
  BY <1>0, <1>2, LoadTruth
<1>3. CASE RouteEvent \/ KeepEvent
  <2>1. run'.event = run.event /\ run'.statuses = run.statuses /\ run.at # "idle"
    BY <1>d, <1>3 DEF RouteEvent, KeepEvent, RunFields
  <2>2. UNCHANGED <<ledger, copies>> /\ past \subseteq past'
    BY <1>3 DEF RouteEvent, KeepEvent, durable
  <2> QED
    BY <1>0, <2>1, <2>2, QuietTruth DEF TypeOK
<1>4. CASE ListSubscribers \/ EndNotifications \/ NoForward \/ SwitchUnknown \/ Finish
  <2>1. run'.event = run.event /\ run'.statuses = run.statuses /\ run.at # "idle"
    BY <1>d, <1>4 DEF ListSubscribers, EndNotifications, NoForward, SwitchUnknown, Finish,
                      RunFields
  <2>2. UNCHANGED <<ledger, copies, past>>
    BY <1>4 DEF ListSubscribers, EndNotifications, NoForward, SwitchUnknown, Finish,
                durable, history
  <2> QED
    BY <1>0, <2>1, <2>2, QuietTruth DEF TypeOK
<1>5. ASSUME NEW c \in Chats, SkipSettled(c) \/ BeginNotification(c) PROVE TruthInv'
  <2>1. run'.event = run.event /\ run'.statuses = run.statuses /\ run.at # "idle"
    BY <1>d, <1>5 DEF SkipSettled, BeginNotification, RunFields
  <2>2. UNCHANGED <<ledger, copies, past>>
    BY <1>5 DEF SkipSettled, BeginNotification, durable, history
  <2> QED
    BY <1>0, <2>1, <2>2, QuietTruth DEF TypeOK
<1>6. CASE ReadSwitch
  <2>1. run'.event = run.event /\ run'.statuses = run.statuses /\ run.at # "idle"
    BY <1>d, <1>6 DEF ReadSwitch, Forwarding, RunFields
  <2>2. UNCHANGED <<ledger, copies, past>>
    BY <1>6 DEF ReadSwitch, durable, history
  <2> QED
    BY <1>0, <2>1, <2>2, QuietTruth DEF TypeOK
<1>7. CASE Accepted
  BY <1>0, <1>7, AcceptedTruth
<1>8. ASSUME NEW arrived \in BOOLEAN, VideoFails(arrived) \/ TextFails(arrived) PROVE TruthInv'
  <2>1. run'.event = run.event /\ run'.statuses = run.statuses /\ run.at # "idle"
    BY <1>d, <1>8 DEF VideoFails, TextFails, FailedCall, Onward, RunFields
  <2>2. UNCHANGED <<ledger, past>>
    BY <1>8 DEF VideoFails, TextFails, FailedCall, durable
  <2>3. FailedCall(arrived)
    BY <1>8 DEF VideoFails, TextFails
  <2>4. \A e \in Events, c \in Chats : copies'[e][c] >= copies[e][c]
    <3>1. Event \in Events /\ Chat \in Chats
      BY <1>0, <2>3 DEF TypeOK, Runs, FailedCall, Event, Chat
    <3>2. copies \in [Events -> [Chats -> Nat]]
      BY <1>0 DEF TypeOK
    <3>3. copies' = copies \/ copies' = OneMore(copies)
      BY <2>3 DEF FailedCall
    <3> QED
      <4> TAKE e \in Events, c \in Chats
      <4>1. copies[e][c] \in Nat
        BY <3>2
      <4> QED
        BY <3>1, <3>2, <3>3, <4>1, OneMoreGrows
  <2> QED
    BY <1>0, <2>1, <2>2, <2>4, QuietTruth
<1>9. ASSUME NEW gone \in BOOLEAN, Refused(gone) PROVE TruthInv'
  BY <1>0, <1>9, RefusedTruth
<1>10. CASE WriteOutcome
  BY <1>0, <1>10, WriteTruth
<1>11. CASE Throw \/ Return \/ Crash
  <2>1. run'.at = "idle" /\ UNCHANGED <<ledger, copies, past>>
    BY <1>11, IdleRunType DEF Throw, Return, Crash, RunLost, durable, history
  <2> QED
    BY <1>0, <2>1, QuietTruth DEF TypeOK
<1>12. CASE People
  <2>1. UNCHANGED <<ledger, copies, run>> /\ past \subseteq past'
    BY <1>12 DEF People, Subscribe, Unsubscribe, FlipSwitch, history
  <2> QED
    BY <1>0, <2>1, QuietTruth DEF TypeOK
<1>13. CASE UNCHANGED vars
  <2>1. UNCHANGED <<ledger, copies, run, past>>
    BY <1>13 DEF vars, durable, history
  <2> QED
    BY <1>0, <2>1, QuietTruth DEF TypeOK
<1> QED
  BY <1>1, <1>2, <1>3, <1>4, <1>5, <1>6, <1>7, <1>8, <1>9, <1>10, <1>11, <1>12, <1>13
     DEF Next, RunStep

LEMMA TruthAlways == Spec => []TruthInv
<1>1. Init => TruthInv
  BY InitTruth
<1>2. TruthInv /\ [Next]_vars => TruthInv'
  BY NextTruth
<1> QED
  BY <1>1, <1>2, PTL DEF Spec

\* A ledger row never claims a delivery or a refusal that did not happen.
THEOREM LedgerIsTruthful == Spec => []LedgerTruthful
<1>1. TruthInv => LedgerTruthful
  BY DEF TruthInv
<1> QED
  BY <1>1, TruthAlways, PTL
-----------------------------------------------------------------------------
(* A delivered row stays delivered                                         *)

LEMMA WriteKeepsDelivered ==
  ASSUME TypeOK, WriteOutcome, NEW e \in Events, NEW c \in Chats, ledger[e][c] = "delivered"
  PROVE  ledger'[e][c] = "delivered"
<1>1. Event \in Events /\ Chat \in Chats
  BY DEF WriteOutcome, TypeOK, Runs, Event, Chat
<1>2. CASE ledger' = ledger
  BY <1>2
<1>3. CASE ledger' = [ledger EXCEPT ![Event][Chat] = Upserted(ledger[Event][Chat],
                                                              run.statuses[Chat])]
  <2>1. e = Event /\ c = Chat => Upserted(ledger[Event][Chat], run.statuses[Chat]) = "delivered"
    BY DEF Upserted
  <2>2. ledger \in [Events -> [Chats -> Statuses]]
    BY DEF TypeOK
  <2> HIDE DEF Upserted
  <2> QED
    BY <1>1, <1>3, <2>1, <2>2
<1> QED
  BY <1>2, <1>3 DEF WriteOutcome

\* Whatever a later run believes and is answered, it does not take back a row
\* that says delivered.
THEOREM DeliveredForEver == Spec => NeverDowngraded
<1> DEFINE Kept == \A e \in Events, c \in Chats :
                     ledger[e][c] = "delivered" => ledger'[e][c] = "delivered"
<1>1. TypeOK /\ [Next]_vars => [Kept]_ledger
  <2> SUFFICES ASSUME TypeOK, [Next]_vars, ledger' # ledger PROVE Kept
    OBVIOUS
  <2>1. WriteOutcome
    BY DEF Next, RunStep, People, vars, durable, history, Start, LoadLedger, LoadLedgerFails,
           RouteEvent, KeepEvent, ListSubscribers, SkipSettled, BeginNotification,
           EndNotifications, NoForward, ReadSwitch, SwitchUnknown, Accepted, VideoFails,
           TextFails, FailedCall, Refused, Finish, Throw, Return, Subscribe, Unsubscribe,
           FlipSwitch, Crash, RunLost
  <2> QED
    BY <2>1, WriteKeepsDelivered
<1> QED
  BY <1>1, TypeCorrect, PTL DEF Spec, NeverDowngraded

-----------------------------------------------------------------------------
(* A clean run has dealt with every target                                 *)

LEMMA InitDealt == Init => DealtInv
<1> SUFFICES ASSUME Init PROVE DealtInv
  OBVIOUS
<1>1. TruthInv
  BY InitTruth
<1>2. run.at = "idle" /\ run.targets = {} /\ run.back = "notify"
  BY DEF Init, IdleRun
<1> QED
  BY <1>1, <1>2 DEF DealtInv, TargetsFollowed, Underway

\* Before the subscribers are listed, and after the run, there is no target.
LEMMA EarlyDealt ==
  ASSUME DealtInv, TruthInv', run'.at \notin Underway, run'.targets = {}, run'.back = "notify"
  PROVE  DealtInv'
  BY DEF DealtInv, TargetsFollowed, Underway

LEMMA NextDealt == DealtInv /\ [Next]_vars => DealtInv'
<1> SUFFICES ASSUME DealtInv, [Next]_vars PROVE DealtInv'
  OBVIOUS
<1>0. TruthInv /\ TruthInv' /\ TypeOK /\ TargetsFollowed /\ ChatUndecided
  BY NextTruth DEF DealtInv, TruthInv, CountInv
<1>d. DOMAIN run = RunFields
  BY <1>0, RunDomain DEF TypeOK
<1>1. ASSUME NEW e \in Events, Start(e) PROVE DealtInv'
  <2>1. run'.at = "load" /\ run'.targets = {} /\ run'.back = "notify"
    BY <1>1 DEF Start, IdleRun
  <2> QED
    BY <1>0, <2>1, EarlyDealt DEF Underway
<1>2. CASE LoadLedger \/ LoadLedgerFails \/ RouteEvent \/ KeepEvent
  <2>1. /\ run.at \in {"load", "route", "keep"} /\ run'.at \in {"route", "keep", "list"}
        /\ run'.targets = run.targets /\ run'.back = run.back
    BY <1>d, <1>2 DEF LoadLedger, LoadLedgerFails, RouteEvent, KeepEvent, RunFields
  <2>2. run.targets = {} /\ run.back = "notify"
    BY <1>0, <2>1 DEF TargetsFollowed, Underway
  <2> QED
    BY <1>0, <2>1, <2>2, EarlyDealt DEF Underway
<1>3. CASE ListSubscribers
  <2>1. /\ run.at = "list" /\ run'.at = "notify"
        /\ run'.todo = subscribers \cup {Forced} /\ run'.targets = run'.todo
        /\ run'.back = run.back
    BY <1>d, <1>3 DEF ListSubscribers, RunFields
  <2> QED
    BY <1>0, <2>1 DEF DealtInv, TargetsFollowed, Underway
<1>4. ASSUME NEW c \in Chats, SkipSettled(c) PROVE DealtInv'
  <2>1. /\ run.at = "notify" /\ run'.at = "notify" /\ IsSettled(c)
        /\ run'.todo = run.todo \ {c} /\ run'.targets = run.targets /\ run'.chat = run.chat
        /\ run'.back = run.back /\ run'.retry = run.retry /\ run'.statuses = run.statuses
    BY <1>d, <1>4 DEF SkipSettled, RunFields
  <2> QED
    BY <1>0, <2>1 DEF DealtInv, TargetsFollowed, Underway, IsSettled
<1>5. ASSUME NEW c \in Chats, BeginNotification(c) PROVE DealtInv'
  <2>1. /\ run.at = "notify" /\ run'.at = "attempt" /\ run'.chat = c
        /\ run'.todo = run.todo \ {c} /\ run'.targets = run.targets
        /\ run'.back = "notify" /\ run'.retry = run.retry /\ run'.statuses = run.statuses
    BY <1>d, <1>5 DEF BeginNotification, RunFields
  <2>2. run.chat = NoChat /\ NoChat \notin run.targets
    BY <1>0, <2>1, BroadcastAssumption DEF TypeOK, Runs
  <2> QED
    BY <1>0, <2>1, <2>2 DEF DealtInv, TargetsFollowed, Underway, IsSettled
<1>6. CASE EndNotifications \/ NoForward \/ SwitchUnknown \/ Finish
  <2>1. /\ run'.todo = run.todo /\ run'.targets = run.targets /\ run'.chat = run.chat
        /\ run'.back = run.back /\ run'.statuses = run.statuses
    BY <1>d, <1>6 DEF EndNotifications, NoForward, SwitchUnknown, Finish, RunFields
  <2>2. /\ run.at \in {"notify", "switch", "finish"}
        /\ run.at = "notify" => run.todo = {}
    BY <1>6 DEF EndNotifications, NoForward, SwitchUnknown, Finish
  <2>3. /\ run'.at \in {"switch", "finish", "enqueue"}
        /\ run'.at = "enqueue" => ~run'.retry
        /\ run.retry => run'.retry
    <3>1. run \in Runs
      BY <1>0 DEF TypeOK
    <3>2. CASE EndNotifications
      BY <3>1, <3>2 DEF EndNotifications, Runs
    <3>3. CASE NoForward
      BY <3>1, <3>3 DEF NoForward, Runs
    <3>4. CASE SwitchUnknown
      BY <3>1, <3>4 DEF SwitchUnknown, Runs
    <3>5. CASE Finish
      BY <3>1, <3>5 DEF Finish, Runs
    <3> QED
      BY <1>6, <3>2, <3>3, <3>4, <3>5
  <2>4. TargetsFollowed'
    <3>1. run.todo = {} /\ run.back = "notify" /\ Forced \in run.targets
      BY <1>0, <2>2 DEF TargetsFollowed, Underway
    <3>2. \A c \in run.targets : run'.retry \/ c \in run.todo \/ c = run.chat \/ IsSettled(c)
      BY <1>0, <2>3 DEF TargetsFollowed
    <3> QED
      BY <2>1, <2>3, <3>1, <3>2 DEF TargetsFollowed, Underway, IsSettled
  <2> QED
    BY <1>0, <2>4 DEF DealtInv
<1>7. CASE ReadSwitch
  <2>1. /\ run.at = "switch" /\ run'.at \in {"finish", "attempt"}
        /\ run'.todo = run.todo /\ run'.retry = run.retry /\ run'.statuses = run.statuses
        /\ \/ run'.at = "finish" /\ run'.targets = run.targets /\ run'.back = run.back
                /\ run'.chat = run.chat
           \/ run'.at = "attempt" /\ run'.targets = run.targets \cup {run'.chat}
    BY <1>d, <1>7 DEF ReadSwitch, ToForward, Forwarding, RunFields
  <2>2. run.chat = NoChat /\ NoChat \notin run.targets
    BY <1>0, <2>1, BroadcastAssumption DEF TypeOK, Runs
  <2> QED
    BY <1>0, <2>1, <2>2 DEF DealtInv, TargetsFollowed, Underway, IsSettled
<1>8. CASE Accepted \/ (\E gone \in BOOLEAN : Refused(gone))
  <2>1. /\ run.at = "attempt" /\ run'.at = "write" /\ run'.chat = run.chat
        /\ run'.todo = run.todo /\ run'.targets = run.targets
        /\ run'.back = run.back /\ run'.retry = run.retry
    BY <1>0, <1>8, AcceptedRun, RefusedRun
  <2>2. \A c \in Chats : IsSettled(c) => run'.statuses[c] \in Settled
    <3>1. \/ run'.statuses = [run.statuses EXCEPT ![run.chat] = "delivered"]
          \/ run'.statuses = [run.statuses EXCEPT ![run.chat] = "permanent"]
      BY <1>0, <1>8, AcceptedRun, RefusedRun
    <3>2. run.statuses \in [Chats -> Statuses]
      BY <1>0 DEF TypeOK, Runs
    <3> QED
      BY <3>1, <3>2 DEF IsSettled, Settled
  <2>3. run.targets \in SUBSET Chats
    BY <1>0 DEF TypeOK, Runs
  <2> QED
    BY <1>0, <2>1, <2>2, <2>3 DEF DealtInv, TargetsFollowed, Underway, IsSettled
<1>9. ASSUME NEW arrived \in BOOLEAN, VideoFails(arrived) \/ TextFails(arrived) PROVE DealtInv'
  <2>1. /\ run.at = "attempt"
        /\ run'.todo = run.todo /\ run'.targets = run.targets /\ run'.statuses = run.statuses
        /\ \/ run'.at = "attempt" /\ run'.chat = run.chat /\ run'.back = run.back
                /\ run'.retry = run.retry
           \/ run'.at = "notify" /\ run'.back = "notify" /\ run'.retry
           \/ run'.at = "finish" /\ run.back = "forward" /\ run'.back = "notify" /\ run'.retry
    <3>1. run.at = "attempt" /\ run \in Runs
      BY <1>0, <1>9 DEF VideoFails, TextFails, FailedCall, TypeOK
    <3>2. CASE VideoFails(arrived)
      <4>1. PICK next \in Fallbacks(run.medium, run.back) : run' = [run EXCEPT !.medium = next]
        BY <3>2 DEF VideoFails
      <4> QED
        BY <3>1, <4>1 DEF Runs
    <3>3. CASE TextFails(arrived)
      <4>1. run' = [Onward EXCEPT !.retry = TRUE]
        BY <3>3 DEF TextFails
      <4>2. run.back \in {"notify", "forward"}
        BY <3>1 DEF Runs
      <4> QED
        BY <3>1, <4>1, <4>2 DEF Onward, Runs
    <3> QED
      BY <1>9, <3>2, <3>3
  <2> QED
    BY <1>0, <2>1 DEF DealtInv, TargetsFollowed, Underway, IsSettled
<1>10. CASE WriteOutcome
  <2>1. /\ run.at = "write"
        /\ run'.todo = run.todo /\ run'.targets = run.targets /\ run'.statuses = run.statuses
        /\ run'.back = "notify" /\ run'.retry = run.retry
        /\ \/ run'.at = "notify"
           \/ run'.at = "finish" /\ run.back = "forward"
    <3>1. run.at = "write" /\ run' = Onward /\ run.back \in {"notify", "forward"}
      BY <1>0, <1>10 DEF WriteOutcome, TypeOK, Runs
    <3> QED
      BY <1>d, <3>1 DEF Onward, RunFields
  <2>2. IsSettled(run.chat)
    BY <1>0, <2>1 DEF ChatUndecided
  <2> QED
    BY <1>0, <2>1, <2>2 DEF DealtInv, TargetsFollowed, Underway, IsSettled
<1>11. CASE Throw \/ Return \/ Crash
  <2>1. run'.at = "idle" /\ run'.targets = {} /\ run'.back = "notify"
    BY <1>11 DEF Throw, Return, Crash, RunLost, IdleRun
  <2> QED
    BY <1>0, <2>1, EarlyDealt DEF Underway
<1>12. CASE People \/ UNCHANGED vars
  <2>1. UNCHANGED run
    BY <1>12 DEF People, Subscribe, Unsubscribe, FlipSwitch, vars
  <2> QED
    BY <1>0, <2>1 DEF DealtInv, TargetsFollowed, Underway, IsSettled
<1> QED
  BY <1>1, <1>2, <1>3, <1>4, <1>5, <1>6, <1>7, <1>8, <1>9, <1>10, <1>11, <1>12
     DEF Next, RunStep

LEMMA DealtMeans == DealtInv => CleanRunReachedAll
<1> SUFFICES ASSUME DealtInv, run.at = "enqueue" \/ (run.at = "finish" /\ ~run.retry)
             PROVE  /\ Forced \in run.targets
                    /\ \A c \in run.targets : Reached(Event, c)
  BY DEF CleanRunReachedAll
<1>1. TypeOK /\ StatusesTruthful /\ TargetsFollowed
  BY DEF DealtInv, TruthInv, CountInv
<1>2. Forced \in run.targets
  BY <1>1 DEF TargetsFollowed, Underway
<1>3. ~run.retry /\ run.todo = {} /\ run.chat = NoChat /\ run.targets \in SUBSET Chats
  BY <1>1 DEF TargetsFollowed, TypeOK, Runs
<1>4. \A c \in run.targets : IsSettled(c)
  BY <1>1, <1>3, BroadcastAssumption DEF TargetsFollowed
<1> QED
  BY <1>1, <1>2, <1>3, <1>4 DEF StatusesTruthful, IsSettled, Settled, Reached, Event

\* A run that returns cleanly, and so lets its event be marked processed, has
\* reached or been refused by every chat it had to send to, the notifications
\* group among them.
THEOREM CleanRunDealtWithAll == Spec => []CleanRunReachedAll
  BY InitDealt, NextDealt, DealtMeans, PTL DEF Spec

-----------------------------------------------------------------------------
(* Nobody else gets the alert                                              *)

\* Chat c may have event e: the conclusion of OnlyAudience.
Entitled(e, c) ==
  \/ c = Forced
  \/ <<"joined", c>> \in past
  \/ c = DriverOf[e] /\ <<"on", c>> \in past

\* What the list and the switches say now was true at some time.
AudienceNoted ==
  /\ \A c \in subscribers : <<"joined", c>> \in past
  /\ \A c \in Chats \ switchedOff : <<"on", c>> \in past

\* The chats the run is going to attempt, and the group it may still add.
VisitsEntitled ==
  /\ \A c \in run.todo : Entitled(run.event, c)
  /\ run.chat # NoChat => Entitled(run.event, run.chat)
  /\ run.group # NoChat => run.group = DriverOf[run.event]

AudienceInv == AudienceNoted /\ VisitsEntitled /\ OnlyAudience

LEMMA InitAudience == Init => AudienceInv
<1> SUFFICES ASSUME Init PROVE AudienceInv
  OBVIOUS
<1>1. AudienceNoted
  BY DEF Init, AudienceNoted
<1>2. VisitsEntitled
  BY DEF Init, VisitsEntitled, IdleRun
<1>3. OnlyAudience
  BY DEF Init, OnlyAudience
<1> QED
  BY <1>1, <1>2, <1>3 DEF AudienceInv

LEMMA EntitledKept ==
  ASSUME past \subseteq past', NEW e, NEW c, Entitled(e, c)
  PROVE  Entitled(e, c)'
  BY DEF Entitled

\* People come and go, and what they did is noted.
LEMMA NotedKept ==
  ASSUME AudienceNoted, [Next]_vars
  PROVE  past \subseteq past' /\ AudienceNoted'
<1>1. CASE UNCHANGED <<subscribers, switchedOff>> /\ past \subseteq past'
  BY <1>1 DEF AudienceNoted
<1>2. CASE RunStep \/ Throw \/ Return \/ Crash \/ (\E e \in Events : Start(e)) \/ UNCHANGED vars
  <2>1. switchedOff' = switchedOff /\ subscribers' \subseteq subscribers /\ past \subseteq past'
    BY <1>2
       DEF RunStep, Throw, Return, Crash, RunLost, Start, LoadLedger, LoadLedgerFails, RouteEvent,
           KeepEvent, ListSubscribers, SkipSettled, BeginNotification, EndNotifications,
           NoForward, ReadSwitch, SwitchUnknown, Accepted, VideoFails, TextFails, FailedCall,
           Refused, WriteOutcome, Finish, vars, durable, history
  <2> QED
    BY <2>1 DEF AudienceNoted
<1>3. ASSUME NEW c \in Members, Subscribe(c) \/ Unsubscribe(c)
      PROVE  past \subseteq past' /\ AudienceNoted'
  BY <1>3 DEF Subscribe, Unsubscribe, AudienceNoted, history
<1>4. ASSUME NEW c \in Panel, FlipSwitch(c) PROVE past \subseteq past' /\ AudienceNoted'
  BY <1>4 DEF FlipSwitch, AudienceNoted
<1> QED
  BY <1>2, <1>3, <1>4 DEF Next, People

\* A run of the same event that takes up no chat it did not mean to.
LEMMA VisitsKept ==
  ASSUME VisitsEntitled, past \subseteq past', run'.event = run.event,
         run'.todo \subseteq run.todo, run'.chat \in run.todo \cup {run.chat, NoChat},
         run'.group = run.group
  PROVE  VisitsEntitled'
<1>1. \A c : Entitled(run.event, c) => Entitled(run.event, c)'
  BY DEF Entitled
<1> QED
  BY <1>1 DEF VisitsEntitled

\* A run that has met no chat yet, or is over.
LEMMA VisitsNone ==
  ASSUME run'.todo = {}, run'.chat = NoChat, run'.group = NoChat
  PROVE  VisitsEntitled'
  BY DEF VisitsEntitled

LEMMA NextVisits ==
  ASSUME TypeOK, AudienceInv, [Next]_vars
  PROVE  VisitsEntitled'
<1>1. past \subseteq past' /\ AudienceNoted /\ VisitsEntitled
  BY NotedKept DEF AudienceInv
<1>2. run \in Runs
  BY DEF TypeOK
<1>3. ASSUME NEW e \in Events, Start(e) PROVE VisitsEntitled'
  BY <1>3, VisitsNone DEF Start, IdleRun
<1>4. CASE Throw \/ Return \/ Crash
  BY <1>4, VisitsNone DEF Throw, Return, Crash, RunLost, IdleRun
<1>5. CASE \/ LoadLedger \/ LoadLedgerFails \/ KeepEvent \/ EndNotifications \/ NoForward
           \/ SwitchUnknown \/ Finish
  <2>1. /\ run'.event = run.event /\ run'.todo = run.todo /\ run'.chat = run.chat
        /\ run'.group = run.group
    <3>1. CASE LoadLedger
      BY <1>2, <3>1 DEF LoadLedger, Runs
    <3>5. CASE LoadLedgerFails
      BY <1>2, <3>5 DEF LoadLedgerFails, Runs
    <3>2. CASE KeepEvent \/ EndNotifications
      BY <1>2, <3>2 DEF KeepEvent, EndNotifications, Runs
    <3>3. CASE NoForward \/ Finish
      BY <1>2, <3>3 DEF NoForward, Finish, Runs
    <3>4. CASE SwitchUnknown
      BY <1>2, <3>4 DEF SwitchUnknown, Runs
    <3> QED
      BY <1>5, <3>1, <3>5, <3>2, <3>3, <3>4
  <2> QED
    BY <1>1, <2>1, VisitsKept
<1>6. CASE RouteEvent
  <2>1. /\ run'.event = run.event /\ run'.todo = run.todo /\ run'.chat = run.chat
        /\ run'.group \in {run.group, DriverOf[run.event]}
    <3>1. CASE run' = [run EXCEPT !.at = "keep", !.group = DriverOf[Event]]
      BY <1>2, <3>1 DEF Runs, Event
    <3>2. CASE run' = [run EXCEPT !.at = "keep"]
      BY <1>2, <3>2 DEF Runs
    <3> QED
      BY <1>6, <3>1, <3>2 DEF RouteEvent
  <2>2. \A c : Entitled(run.event, c) => Entitled(run.event, c)'
    BY <1>1, <2>1 DEF Entitled
  <2> QED
    BY <1>1, <2>1, <2>2 DEF VisitsEntitled
<1>7. CASE ListSubscribers
  <2>1. /\ run'.event = run.event /\ run'.todo = subscribers \cup {Forced}
        /\ run'.chat = run.chat /\ run'.group = run.group /\ past' = past
    BY <1>2, <1>7 DEF ListSubscribers, Runs, history
  <2> QED
    BY <1>1, <2>1 DEF VisitsEntitled, Entitled, AudienceNoted
<1>8. ASSUME NEW c \in Chats, SkipSettled(c) \/ BeginNotification(c) PROVE VisitsEntitled'
  <2>1. /\ run'.event = run.event /\ run'.todo = run.todo \ {c} /\ run'.group = run.group
        /\ c \in run.todo /\ run'.chat \in {c, run.chat}
    <3>1. CASE SkipSettled(c)
      BY <1>2, <3>1 DEF SkipSettled, Runs
    <3>2. CASE BeginNotification(c)
      BY <1>2, <3>2 DEF BeginNotification, Runs
    <3> QED
      BY <1>8, <3>1, <3>2
  <2> QED
    BY <1>1, <2>1, VisitsKept
<1>9. CASE ReadSwitch
  <2>1. /\ run'.event = run.event /\ run'.todo = run.todo /\ run'.group = run.group
        /\ run.group # NoChat /\ past' = past
        /\ run'.chat = run.chat \/ (run'.chat = run.group /\ run.group \notin switchedOff)
    BY <1>2, <1>9 DEF ReadSwitch, ToForward, Forwarding, Runs, history
  <2>2. run.group \in Chats
    BY <1>2, <2>1 DEF Runs
  <2> QED
    BY <1>1, <2>1, <2>2 DEF VisitsEntitled, Entitled, AudienceNoted
<1>10. CASE Accepted \/ (\E gone \in BOOLEAN : Refused(gone))
  <2>1. /\ run'.event = run.event /\ run'.todo = run.todo /\ run'.chat = run.chat
        /\ run'.group = run.group
    <3>1. CASE Accepted
      BY <1>2, <3>1 DEF Accepted, Runs
    <3>2. ASSUME NEW gone \in BOOLEAN, Refused(gone)
          PROVE  /\ run'.event = run.event /\ run'.todo = run.todo /\ run'.chat = run.chat
                 /\ run'.group = run.group
      BY <1>2, <3>2 DEF Refused, Runs
    <3> QED
      BY <1>10, <3>1, <3>2
  <2> QED
    BY <1>1, <2>1, VisitsKept
<1>11. ASSUME NEW arrived \in BOOLEAN, VideoFails(arrived) PROVE VisitsEntitled'
  <2>1. PICK next \in Fallbacks(run.medium, run.back) : run' = [run EXCEPT !.medium = next]
    BY <1>11 DEF VideoFails
  <2>2. /\ run'.event = run.event /\ run'.todo = run.todo /\ run'.chat = run.chat
        /\ run'.group = run.group
    BY <1>2, <2>1 DEF Runs
  <2> QED
    BY <1>1, <2>2, VisitsKept
<1>12. CASE WriteOutcome \/ \E arrived \in BOOLEAN : TextFails(arrived)
  <2>1. run' = Onward \/ run' = [Onward EXCEPT !.retry = TRUE]
    BY <1>12 DEF WriteOutcome, TextFails
  <2>2. /\ run'.event = run.event /\ run'.todo = run.todo /\ run'.chat = NoChat
        /\ run'.group = run.group
    <3> DEFINE o == Onward
    <3>1. o.event = run.event /\ o.todo = run.todo /\ o.chat = NoChat /\ o.group = run.group
      BY <1>2 DEF Onward, Runs
    <3>2. o \in Runs
      BY <1>2, OnwardType
    <3> HIDE DEF o
    <3>3. CASE run' = o
      BY <3>1, <3>3
    <3>4. CASE run' = [o EXCEPT !.retry = TRUE]
      BY <3>1, <3>2, <3>4 DEF Runs
    <3> QED
      BY <2>1, <3>3, <3>4 DEF o
  <2> QED
    BY <1>1, <2>2, VisitsKept
<1>13. CASE People \/ UNCHANGED vars
  <2>1. UNCHANGED run
    BY <1>13 DEF People, Subscribe, Unsubscribe, FlipSwitch, vars
  <2> QED
    BY <1>1, <2>1, VisitsKept
<1> QED
  BY <1>3, <1>4, <1>5, <1>6, <1>7, <1>8, <1>9, <1>10, <1>11, <1>12, <1>13 DEF Next, RunStep

\* A copy goes to the chat in hand, and to no other.
LEMMA NextAudience == TypeOK /\ AudienceInv /\ [Next]_vars => AudienceInv'
<1> SUFFICES ASSUME TypeOK, AudienceInv, [Next]_vars PROVE AudienceInv'
  OBVIOUS
<1>1. past \subseteq past' /\ AudienceNoted' /\ VisitsEntitled'
  BY NotedKept, NextVisits DEF AudienceInv
<1>2. copies' = copies \/ (run.at = "attempt" /\ copies' = OneMore(copies))
  BY DEF Next, RunStep, People, vars, durable, history, Start, LoadLedger, LoadLedgerFails,
         RouteEvent, KeepEvent, ListSubscribers, SkipSettled, BeginNotification,
         EndNotifications, NoForward, ReadSwitch, SwitchUnknown, Accepted, VideoFails,
         TextFails, FailedCall, Refused, WriteOutcome, Finish, Throw, Return, Subscribe,
         Unsubscribe, FlipSwitch, Crash, RunLost
<1>3. ASSUME NEW e \in Events, NEW c \in Chats, copies'[e][c] > 0 PROVE Entitled(e, c)
  <2>1. CASE copies' = copies
    BY <1>3, <2>1 DEF AudienceInv, OnlyAudience, Entitled
  <2>2. CASE run.at = "attempt" /\ copies' = OneMore(copies)
    <3>1. Event \in Events /\ Chat \in Chats /\ Entitled(Event, Chat)
      BY <2>2 DEF TypeOK, Runs, Event, Chat, AudienceInv, VisitsEntitled
    <3>2. copies'[e][c] = IF e = Event /\ c = Chat THEN copies[e][c] + 1 ELSE copies[e][c]
      BY <2>2, <3>1, OneMoreAt DEF TypeOK
    <3> QED
      BY <1>3, <3>1, <3>2 DEF AudienceInv, OnlyAudience, Entitled
  <2> QED
    BY <1>2, <2>1, <2>2
<1>4. OnlyAudience'
  BY <1>1, <1>3, EntitledKept DEF OnlyAudience, Entitled
<1> QED
  BY <1>1, <1>4 DEF AudienceInv

\* A copy goes to the notifications group, to chats that have subscribed and to
\* the driver's group once its switch was on; an unread switch lets nothing out.
THEOREM NobodyElse == Spec => []OnlyAudience
<1>1. AudienceInv => OnlyAudience
  BY DEF AudienceInv
<1> QED
  BY InitAudience, TypeCorrect, NextAudience, <1>1, PTL DEF Spec

-----------------------------------------------------------------------------
(* A clean run has dealt with the driver's own group                       *)

\* The driver's group of e has it or has refused it, or something explains why
\* it need not.
DriverDealt(e) ==
  \/ DriverOf[e] = NoChat
  \/ Reached(e, DriverOf[e])
  \/ <<"off", DriverOf[e]>> \in past
  \/ <<"unrouted", e>> \in past

\* A switch that is off now was off at some time.
OffNoted == \A c \in switchedOff : <<"off", c>> \in past

\* The run knows the driver's group unless the lookup failed; it leaves the
\* group out of its targets only when the group has been dealt with, or when
\* it is going to throw.
RouteFollowed ==
  /\ run.at \notin {"idle", "load", "route"} =>
       \/ run.group = DriverOf[run.event]
       \/ run.group = NoChat /\ <<"unrouted", run.event>> \in past
  /\ run.at \in {"load", "route"} => run.group = NoChat
  /\ run.back = "forward" => run.group \in run.targets
  /\ run.at \in {"finish", "enqueue"} =>
       run.retry \/ run.group \in run.targets \/ DriverDealt(run.event)

DriverInv == DealtInv /\ OffNoted /\ RouteFollowed

LEMMA InitDriver == Init => DriverInv
<1> SUFFICES ASSUME Init PROVE DriverInv
  OBVIOUS
<1>1. DealtInv
  BY InitDealt
<1>2. OffNoted
  BY DEF Init, OffNoted
<1>3. RouteFollowed
  BY DEF Init, IdleRun, RouteFollowed
<1> QED
  BY <1>1, <1>2, <1>3 DEF DriverInv

\* What a step leaves alone, of what the invariants of the run speak of.
LEMMA QuietHistory ==
  ASSUME [Next]_vars
  PROVE  past \subseteq past' /\ (copies' = copies \/ (run.at = "attempt" /\ copies' = OneMore(copies)))
  BY DEF Next, RunStep, People, vars, durable, history, Start, LoadLedger, LoadLedgerFails,
         RouteEvent, KeepEvent, ListSubscribers, SkipSettled, BeginNotification,
         EndNotifications, NoForward, ReadSwitch, SwitchUnknown, Accepted, VideoFails,
         TextFails, FailedCall, Refused, WriteOutcome, Finish, Throw, Return, Subscribe,
         Unsubscribe, FlipSwitch, Crash, RunLost

\* A chat that has been reached stays reached.
LEMMA ReachedKept ==
  ASSUME TypeOK, [Next]_vars, NEW e \in Events, NEW c \in Chats, Reached(e, c)
  PROVE  Reached(e, c)'
<1>1. past \subseteq past'
  BY QuietHistory
<1>2. copies[e][c] > 0 => copies'[e][c] > 0
  <2>1. CASE copies' = copies
    BY <2>1
  <2>2. CASE run.at = "attempt" /\ copies' = OneMore(copies)
    <3>1. Event \in Events /\ Chat \in Chats /\ copies \in [Events -> [Chats -> Nat]]
      BY <2>2 DEF TypeOK, Runs, Event, Chat
    <3>2. copies'[e][c] \in Nat /\ copies'[e][c] >= copies[e][c] /\ copies[e][c] \in Nat
      BY <2>2, <3>1, OneMoreGrows
    <3> QED
      BY <3>2
  <2> QED
    BY <2>1, <2>2, QuietHistory
<1> QED
  BY <1>1, <1>2 DEF Reached

LEMMA DriverKept ==
  ASSUME TypeOK, [Next]_vars, NEW e \in Events, DriverDealt(e)
  PROVE  DriverDealt(e)'
<1>1. past \subseteq past'
  BY QuietHistory
<1>2. DriverOf[e] \in Chats \cup {NoChat}
  BY BroadcastAssumption
<1>3. CASE DriverOf[e] \in Chats /\ Reached(e, DriverOf[e])
  <2>1. Reached(e, DriverOf[e])'
    BY <1>3, ReachedKept
  <2> QED
    BY <2>1 DEF DriverDealt
<1> QED
  BY <1>1, <1>2, <1>3 DEF DriverDealt

\* A settled driver's group has been dealt with.
LEMMA SettledDealt ==
  ASSUME StatusesTruthful, run.at # "idle", run.group \in Chats, IsSettled(run.group),
         run.group = DriverOf[run.event]
  PROVE  DriverDealt(run.event)
  BY DEF StatusesTruthful, IsSettled, Settled, DriverDealt, Reached

LEMMA NextOff == ASSUME OffNoted, [Next]_vars PROVE OffNoted'
<1>1. CASE UNCHANGED switchedOff
  BY <1>1, QuietHistory DEF OffNoted
<1>2. ASSUME NEW c \in Panel, FlipSwitch(c) PROVE OffNoted'
  BY <1>2 DEF FlipSwitch, OffNoted
<1>3. CASE RunStep \/ Throw \/ Return \/ Crash \/ (\E e \in Events : Start(e)) \/ UNCHANGED vars
  <2>1. UNCHANGED switchedOff
    BY <1>3
       DEF RunStep, Throw, Return, Crash, RunLost, Start, LoadLedger, LoadLedgerFails, RouteEvent,
           KeepEvent, ListSubscribers, SkipSettled, BeginNotification, EndNotifications,
           NoForward, ReadSwitch, SwitchUnknown, Accepted, VideoFails, TextFails, FailedCall,
           Refused, WriteOutcome, Finish, vars, durable, history
  <2> QED
    BY <1>1, <2>1
<1>4. ASSUME NEW c \in Members, Subscribe(c) \/ Unsubscribe(c) PROVE OffNoted'
  <2>1. UNCHANGED switchedOff
    BY <1>4 DEF Subscribe, Unsubscribe
  <2> QED
    BY <1>1, <2>1
<1> QED
  BY <1>2, <1>3, <1>4 DEF Next, People

\* A run of the same event that keeps its group, and no group it had is dropped
\* from its targets.
LEMMA RouteKept ==
  ASSUME TypeOK, RouteFollowed, [Next]_vars, run.event \in Events,
         run.at \notin {"idle", "load", "route"},
         run'.at \notin {"load", "route"}, run'.event = run.event, run'.group = run.group,
         run'.back = "forward" => run'.group \in run'.targets,
         run'.at \in {"finish", "enqueue"} =>
           run'.retry \/ run'.group \in run'.targets \/ DriverDealt(run.event)
  PROVE  RouteFollowed'
<1>1. past \subseteq past'
  BY QuietHistory
<1>2. ASSUME NEW e, e = run.event, DriverDealt(e) PROVE DriverDealt(e)'
  BY <1>2, DriverKept
<1> QED
  BY <1>1, <1>2 DEF RouteFollowed, DriverDealt, Reached

\* Before the ledger and the routing are known, and after the run.
LEMMA RouteNone ==
  ASSUME run'.at \in {"idle", "load", "route"}, run'.at # "idle" => run'.group = NoChat,
         run'.back = "notify"
  PROVE  RouteFollowed'
  BY DEF RouteFollowed

LEMMA NextRoute ==
  ASSUME DriverInv, DealtInv', [Next]_vars
  PROVE  RouteFollowed'
<1>0. TypeOK /\ TargetsFollowed /\ StatusesTruthful /\ RouteFollowed /\ OffNoted
  BY DEF DriverInv, DealtInv, TruthInv, CountInv
<1>d. DOMAIN run = RunFields
  BY <1>0, RunDomain DEF TypeOK
<1>r. run \in Runs
  BY <1>0 DEF TypeOK
<1>e. run.at # "idle" => run.event \in Events
  BY <1>0 DEF TypeOK, Runs
<1>1. ASSUME NEW e \in Events, Start(e) PROVE RouteFollowed'
  <2>1. run'.at = "load" /\ run'.group = NoChat /\ run'.back = "notify"
    BY <1>1 DEF Start, IdleRun
  <2> QED
    BY <2>1, RouteNone
<1>2. CASE LoadLedger \/ LoadLedgerFails
  <2>1. run.at = "load" /\ run'.at = "route" /\ run'.group = run.group /\ run'.back = run.back
    BY <1>d, <1>2 DEF LoadLedger, LoadLedgerFails, RunFields
  <2>2. run.back = "notify" /\ run.group = NoChat
    BY <1>0, <2>1 DEF RouteFollowed, TargetsFollowed
  <2> QED
    BY <2>1, <2>2, RouteNone
<1>3. CASE RouteEvent
  <2>1. /\ run.at = "route" /\ run'.at = "keep" /\ run'.event = run.event
        /\ run'.back = run.back
        /\ \/ run'.group = DriverOf[run.event]
           \/ run'.group = run.group /\ <<"unrouted", run.event>> \in past'
    <3>1. /\ run.at = "route"
          /\ \/ run' = [run EXCEPT !.at = "keep", !.group = DriverOf[run.event]]
             \/ /\ run' = [run EXCEPT !.at = "keep"]
                /\ <<"unrouted", run.event>> \in past'
      BY <1>3 DEF RouteEvent, Event
    <3>2. CASE run' = [run EXCEPT !.at = "keep", !.group = DriverOf[run.event]]
      BY <1>r, <3>1, <3>2 DEF Runs
    <3>3. CASE run' = [run EXCEPT !.at = "keep"] /\ <<"unrouted", run.event>> \in past'
      BY <1>r, <3>1, <3>3 DEF Runs
    <3> QED
      BY <3>1, <3>2, <3>3
  <2>2. run.back = "notify" /\ run.group = NoChat
    BY <1>0, <2>1 DEF RouteFollowed, TargetsFollowed
  <2> QED
    BY <2>1, <2>2 DEF RouteFollowed
<1>4. CASE KeepEvent \/ ListSubscribers \/ EndNotifications \/ SwitchUnknown
  <2>1. /\ run.at \in {"keep", "list", "notify", "switch"}
        /\ \/ run'.at \in {"list", "notify", "switch"}
           \/ run'.at = "finish" /\ run'.retry
        /\ run'.event = run.event /\ run'.group = run.group /\ run'.back = run.back
    <3>1. CASE KeepEvent
      BY <1>r, <3>1 DEF KeepEvent, Runs
    <3>2. CASE ListSubscribers
      BY <1>r, <3>2 DEF ListSubscribers, Runs
    <3>3. CASE EndNotifications
      BY <1>r, <3>3 DEF EndNotifications, Runs
    <3>4. CASE SwitchUnknown
      BY <1>r, <3>4 DEF SwitchUnknown, Runs
    <3> QED
      BY <1>4, <3>1, <3>2, <3>3, <3>4
  <2>2. run.back = "notify"
    BY <1>0, <2>1 DEF TargetsFollowed
  <2> QED
    BY <1>0, <1>e, <2>1, <2>2, RouteKept
<1>5. ASSUME NEW c \in Chats, SkipSettled(c) \/ BeginNotification(c) PROVE RouteFollowed'
  <2>1. /\ run.at = "notify" /\ run'.at \in {"notify", "attempt"} /\ run'.event = run.event
        /\ run'.group = run.group /\ run'.back \in {run.back, "notify"}
    BY <1>d, <1>5 DEF SkipSettled, BeginNotification, RunFields
  <2>2. run.back = "notify"
    BY <1>0, <2>1 DEF TargetsFollowed
  <2> QED
    BY <1>0, <1>e, <2>1, <2>2, RouteKept
<1>6. CASE NoForward
  <2>1. /\ run.at = "switch" /\ run'.at = "finish" /\ run'.event = run.event
        /\ run'.group = run.group /\ run'.back = run.back /\ ~ToForward
    BY <1>d, <1>6 DEF NoForward, RunFields
  <2>2. run.back = "notify"
    BY <1>0, <2>1 DEF TargetsFollowed
  <2>3. DriverDealt(run.event)
    <3>1. CASE run.group = NoChat
      BY <1>0, <2>1, <3>1 DEF RouteFollowed, DriverDealt
    <3>2. CASE run.group # NoChat
      <4>1. IsSettled(run.group) /\ run.group \in Chats /\ run.group = DriverOf[run.event]
        BY <1>0, <1>r, <2>1, <3>2 DEF ToForward, RouteFollowed, Runs
      <4> QED
        BY <1>0, <2>1, <4>1, SettledDealt
    <3> QED
      BY <3>1, <3>2
  <2> QED
    BY <1>0, <1>e, <2>1, <2>2, <2>3, RouteKept
<1>7. CASE ReadSwitch
  <2>1. run.at = "switch" /\ ToForward
    BY <1>7 DEF ReadSwitch
  <2>2. run.back = "notify" /\ run.group = DriverOf[run.event]
    BY <1>0, <2>1 DEF TargetsFollowed, RouteFollowed, ToForward
  <2>3. CASE run.group \in switchedOff
    <3>1. run'.at = "finish" /\ run'.event = run.event /\ run'.group = run.group
            /\ run'.back = run.back
      BY <1>d, <1>7, <2>3 DEF ReadSwitch, RunFields
    <3>2. DriverDealt(run.event)
      BY <1>0, <2>2, <2>3 DEF OffNoted, DriverDealt
    <3> QED
      BY <1>0, <1>e, <2>1, <2>2, <3>1, <3>2, RouteKept
  <2>4. CASE run.group \notin switchedOff
    <3>1. run'.at = "attempt" /\ run'.event = run.event /\ run'.group = run.group
            /\ run'.group \in run'.targets
      BY <1>d, <1>7, <2>4 DEF ReadSwitch, Forwarding, RunFields
    <3> QED
      BY <1>0, <1>e, <2>1, <3>1, RouteKept
  <2> QED
    BY <2>3, <2>4
<1>8. CASE Accepted \/ (\E gone \in BOOLEAN : Refused(gone))
  <2>1. /\ run.at = "attempt" /\ run'.at = "write" /\ run'.event = run.event
        /\ run'.targets = run.targets /\ run'.back = run.back
    BY <1>0, <1>8, AcceptedRun, RefusedRun
  <2>2. run'.group = run.group
    BY <1>d, <1>8 DEF Accepted, Refused, RunFields
  <2> QED
    BY <1>0, <1>e, <2>1, <2>2, RouteKept DEF RouteFollowed
<1>9. ASSUME NEW arrived \in BOOLEAN, VideoFails(arrived) PROVE RouteFollowed'
  <2>1. /\ run.at = "attempt" /\ run'.at = "attempt" /\ run'.event = run.event
        /\ run'.group = run.group /\ run'.targets = run.targets /\ run'.back = run.back
    BY <1>d, <1>9 DEF VideoFails, FailedCall, RunFields
  <2> QED
    BY <1>0, <1>e, <2>1, RouteKept DEF RouteFollowed
<1>10. ASSUME NEW arrived \in BOOLEAN, TextFails(arrived) PROVE RouteFollowed'
  <2>1. /\ run.at = "attempt" /\ run'.at \in {"notify", "finish"} /\ run'.event = run.event
        /\ run'.group = run.group /\ run'.back = "notify" /\ run'.retry
    BY <1>d, <1>10 DEF TextFails, FailedCall, Onward, RunFields
  <2> QED
    BY <1>0, <1>e, <2>1, RouteKept
<1>11. CASE WriteOutcome
  <2>1. /\ run.at = "write" /\ run'.event = run.event /\ run'.group = run.group
        /\ run'.targets = run.targets /\ run'.back = "notify"
        /\ \/ run'.at = "notify"
           \/ run'.at = "finish" /\ run.back = "forward"
    <3>1. run.at = "write" /\ run' = Onward /\ run.back \in {"notify", "forward"}
      BY <1>r, <1>11 DEF WriteOutcome, Runs
    <3> QED
      BY <1>d, <3>1 DEF Onward, RunFields
  <2> QED
    BY <1>0, <1>e, <2>1, RouteKept DEF RouteFollowed
<1>12. CASE Finish
  <2>1. /\ run.at = "finish" /\ ~run.retry /\ run'.at = "enqueue" /\ run'.event = run.event
        /\ run'.group = run.group /\ run'.targets = run.targets /\ run'.back = run.back
    BY <1>d, <1>12 DEF Finish, RunFields
  <2> QED
    BY <1>0, <1>e, <2>1, RouteKept DEF RouteFollowed
<1>13. CASE Throw \/ Return \/ Crash
  <2>1. run'.at = "idle" /\ run'.back = "notify"
    BY <1>13 DEF Throw, Return, Crash, RunLost, IdleRun
  <2> QED
    BY <2>1, RouteNone
<1>14. CASE People \/ UNCHANGED vars
  <2>1. UNCHANGED run
    BY <1>14 DEF People, Subscribe, Unsubscribe, FlipSwitch, vars
  <2>2. CASE run.at \in {"idle", "load", "route"}
    BY <1>0, <2>1, <2>2 DEF RouteFollowed
  <2>3. CASE run.at \notin {"idle", "load", "route"}
    BY <1>0, <1>e, <2>1, <2>3, RouteKept DEF RouteFollowed
  <2> QED
    BY <2>2, <2>3
<1> QED
  BY <1>1, <1>2, <1>3, <1>4, <1>5, <1>6, <1>7, <1>8, <1>9, <1>10, <1>11, <1>12, <1>13, <1>14
     DEF Next, RunStep

LEMMA NextDriver == DriverInv /\ [Next]_vars => DriverInv'
<1> SUFFICES ASSUME DriverInv, [Next]_vars PROVE DriverInv'
  OBVIOUS
<1>1. DealtInv'
  BY NextDealt DEF DriverInv
<1> QED
  BY <1>1, NextOff, NextRoute DEF DriverInv

\* What a run that is about to return cleanly has dealt with.
LEMMA CleanDealt ==
  ASSUME DriverInv, run.at = "enqueue" \/ (run.at = "finish" /\ ~run.retry)
  PROVE  /\ run.event \in Events
         /\ Reached(run.event, Forced) /\ DriverDealt(run.event)
<1>0. TypeOK /\ TargetsFollowed /\ RouteFollowed /\ CleanRunReachedAll
  BY DealtMeans DEF DriverInv, DealtInv, TruthInv, CountInv
<1>1. run.event \in Events /\ run.targets \subseteq Chats
  BY <1>0 DEF TypeOK, Runs
<1>2. \A c \in run.targets \cup {Forced} : Reached(run.event, c)
  BY <1>0 DEF CleanRunReachedAll, Event
<1>3. ~run.retry
  BY <1>0 DEF TargetsFollowed
<1>4. CASE run.group \in run.targets
  <2>1. run.group = DriverOf[run.event]
    BY <1>0, <1>1, <1>4, BroadcastAssumption DEF RouteFollowed
  <2> QED
    BY <1>1, <1>2, <1>4, <2>1 DEF DriverDealt
<1> QED
  BY <1>0, <1>1, <1>2, <1>3, <1>4 DEF RouteFollowed

\* A run that returns cleanly has brought the alert to the driver's own group
\* too, or was refused there; unless the group was switched off at some time
\* or the lookup that would have found it failed.
THEOREM CleanRunDealtWithDriver ==
  Spec => []((run.at = "enqueue" \/ (run.at = "finish" /\ ~run.retry)) => DriverDealt(Event))
<1>1. DriverInv => ((run.at = "enqueue" \/ (run.at = "finish" /\ ~run.retry)) => DriverDealt(Event))
  BY CleanDealt DEF Event
<1> QED
  BY InitDriver, NextDriver, <1>1, PTL DEF Spec

-----------------------------------------------------------------------------
(* The queue and the broadcast together: what the queue holds              *)

\* What the composition needs of the queue's types.
HandsTyped ==
  /\ queue \in Seq(Events)
  /\ poll \in [at : Q!PollStates, page : Seq(Events)]
  /\ poll.at \in {"lookup", "transform"} => poll.page # <<>>
  /\ consumer \in [at : Q!ConsumerStates, event : Events \cup {NoEvent}]
  /\ consumer.event = NoEvent <=> consumer.at \in {"idle", "timer"}
  /\ isProcessingQueue <=> consumer.at # "idle"
  /\ processed \subseteq Events

\* The consumer takes an alert only when it had none, and no fault comes with it.
ConsumerMoves ==
  \/ consumer' = consumer
  \/ /\ consumer.at \in {"idle", "timer"} /\ consumer'.at \in {"idle", "broadcast"}
     /\ consumer'.at = "broadcast" => consumer'.event \in Events /\ UNCHANGED faults

LEMMA SameHands ==
  ASSUME HandsTyped, UNCHANGED <<processed, queue, isProcessingQueue, consumer, poll>>
  PROVE  HandsTyped'
  BY DEF HandsTyped

LEMMA SameConsumer ==
  ASSUME HandsTyped, UNCHANGED <<processed, queue, isProcessingQueue, consumer>>,
         poll' \in [at : Q!PollStates, page : Seq(Events)],
         poll'.at \in {"lookup", "transform"} => poll'.page # <<>>
  PROVE  HandsTyped' /\ ConsumerMoves
  BY DEF HandsTyped, ConsumerMoves

\* The synchronous part of processQueue.
LEMMA Processing ==
  ASSUME NEW q \in Seq(Events), Q!ProcessQueue(q)
  PROVE  /\ queue' \in Seq(Events)
         /\ consumer' \in [at : Q!ConsumerStates, event : Events \cup {NoEvent}]
         /\ consumer'.event = NoEvent <=> consumer'.at \in {"idle", "timer"}
         /\ isProcessingQueue' <=> consumer'.at # "idle"
         /\ consumer'.at \in {"idle", "broadcast"}
         /\ consumer'.at = "broadcast" => consumer'.event \in Events
<1>1. CASE q = <<>>
  <2>1. isProcessingQueue' = FALSE /\ consumer' = Q!Idle /\ queue' = q
    BY <1>1 DEF Q!ProcessQueue
  <2> QED
    BY <2>1 DEF Q!Idle, Q!ConsumerStates
<1>2. CASE q # <<>>
  <2>1. /\ isProcessingQueue' = TRUE /\ queue' = Tail(q)
        /\ consumer' = [at |-> "broadcast", event |-> Head(q)]
    BY <1>2 DEF Q!ProcessQueue
  <2>2. Tail(q) \in Seq(Events) /\ Head(q) \in Events /\ Head(q) # NoEvent
    BY <1>2, HeadTailProperties, BroadcastAssumption
  <2> QED
    BY <2>1, <2>2 DEF Q!ConsumerStates
<1> QED
  BY <1>1, <1>2

LEMMA PushedType ==
  ASSUME NEW q \in Seq(Events), NEW e \in Events
  PROVE  Q!Pushed(q, e) \in Seq(Events)
<1>1. CASE Len(q) >= MaxQueue
  <2>1. q # <<>>
    BY <1>1, ServiceAssumption, EmptySeq
  <2>2. Tail(q) \in Seq(Events)
    BY <2>1, HeadTailProperties
  <2> QED
    BY <1>1, <2>2, AppendProperties DEF Q!Pushed
<1>2. CASE ~(Len(q) >= MaxQueue)
  BY <1>2, AppendProperties DEF Q!Pushed
<1> QED
  BY <1>1, <1>2

\* The event the poll is at, and its page without it.
LEMMA PageType ==
  ASSUME HandsTyped, poll.page # <<>>
  PROVE  /\ Q!Current \in Events
         /\ [at |-> "scan", page |-> Tail(poll.page)] \in [at : Q!PollStates, page : Seq(Events)]
<1>1. poll.page \in Seq(Events)
  BY DEF HandsTyped
<1>2. Head(poll.page) \in Events /\ Tail(poll.page) \in Seq(Events)
  BY <1>1, HeadTailProperties
<1> QED
  BY <1>2 DEF Q!Current, Q!PollStates

LEMMA PollRecord ==
  ASSUME HandsTyped
  PROVE  /\ poll = [at |-> poll.at, page |-> poll.page] /\ poll.page \in Seq(Events)
         /\ consumer = [at |-> consumer.at, event |-> consumer.event]
         /\ consumer.event \in Events \cup {NoEvent}
  BY DEF HandsTyped

LEMMA PickUpHands ==
  ASSUME HandsTyped, Q!PickUp, poll.page # <<>>
  PROVE  HandsTyped' /\ ConsumerMoves
<1>1. poll' = [at |-> "transform", page |-> poll.page] /\ poll.page \in Seq(Events)
  BY PollRecord DEF Q!PickUp
<1> QED
  BY <1>1, SameConsumer DEF Q!PickUp, Q!PollStates

LEMMA PollStepMeans ==
  ASSUME HandsTyped, Q!PollStep
  PROVE  HandsTyped' /\ ConsumerMoves /\ UNCHANGED processed
<1>1. CASE Q!SkipKnown
  <2>1. poll' \in [at : Q!PollStates, page : Seq(Events)] /\ poll'.at = "scan"
    BY <1>1, PageType DEF Q!SkipKnown, Q!NextEvent
  <2> QED
    BY <1>1, <2>1, SameConsumer DEF Q!SkipKnown
<1>2. CASE Q!AskProcessed
  <2>1. poll' = [at |-> "lookup", page |-> poll.page] /\ poll.page \in Seq(Events)
    BY <1>2, PollRecord DEF Q!AskProcessed
  <2> QED
    BY <1>2, <2>1, SameConsumer DEF Q!AskProcessed, Q!PollStates
<1>3. CASE Q!ProcessedAnswered
  <2>1. poll.at = "lookup" /\ poll.page # <<>>
    BY <1>3 DEF Q!ProcessedAnswered, HandsTyped
  <2>2. CASE Q!PickUp
    BY <2>1, <2>2, PickUpHands DEF Q!PickUp
  <2>3. CASE Q!NextEvent /\ UNCHANGED <<processed, queue, isProcessingQueue, consumer>>
    <3>1. poll' \in [at : Q!PollStates, page : Seq(Events)] /\ poll'.at = "scan"
      BY <2>1, <2>3, PageType DEF Q!NextEvent
    <3> QED
      BY <2>3, <3>1, SameConsumer
  <2> QED
    BY <1>3, <2>2, <2>3 DEF Q!ProcessedAnswered
<1>4. CASE Q!ProcessedUnanswered
  <2>1. poll.page # <<>> /\ Q!PickUp
    BY <1>4 DEF Q!ProcessedUnanswered, HandsTyped
  <2> QED
    BY <2>1, PickUpHands DEF Q!PickUp
<1>5. CASE Q!QueueAlert
  <2>1. poll.page # <<>> /\ Q!NextEvent /\ UNCHANGED <<processed, faults>>
    BY <1>5 DEF Q!QueueAlert, HandsTyped
  <2>2. /\ Q!Current \in Events
        /\ poll' \in [at : Q!PollStates, page : Seq(Events)] /\ poll'.at = "scan"
    BY <2>1, PageType DEF Q!NextEvent
  <2>3. Q!Pushed(queue, Q!Current) \in Seq(Events)
    BY <2>2, PushedType DEF HandsTyped
  <2>4. CASE isProcessingQueue
    <3>1. queue' \in Seq(Events) /\ UNCHANGED <<isProcessingQueue, consumer>>
      BY <1>5, <2>3, <2>4 DEF Q!QueueAlert
    <3> QED
      BY <2>1, <2>2, <3>1 DEF HandsTyped, ConsumerMoves
  <2>5. CASE ~isProcessingQueue
    <3>1. Q!ProcessQueue(Q!Pushed(queue, Q!Current))
      BY <1>5, <2>5 DEF Q!QueueAlert
    <3>2. consumer.at = "idle"
      BY <2>5 DEF HandsTyped
    <3> QED
      BY <2>1, <2>2, <2>3, <3>1, <3>2, Processing DEF HandsTyped, ConsumerMoves
  <2> QED
    BY <2>1, <2>4, <2>5
<1>6. CASE Q!TransformThrows
  <2>1. poll' = [at |-> "idle", page |-> <<>>] /\ <<>> \in Seq(Events)
    BY <1>6, EmptySeq DEF Q!TransformThrows, Q!NoPoll
  <2> QED
    BY <1>6, <2>1, SameConsumer DEF Q!TransformThrows, Q!PollStates
<1>7. CASE Q!EndPoll
  <2>1. poll' = [at |-> "idle", page |-> poll.page] /\ poll.page \in Seq(Events)
    BY <1>7, PollRecord DEF Q!EndPoll
  <2> QED
    BY <1>7, <2>1, SameConsumer DEF Q!EndPoll, Q!PollStates
<1> QED
  BY <1>1, <1>2, <1>3, <1>4, <1>5, <1>6, <1>7 DEF Q!PollStep

\* What the consumer does besides the broadcast: it records the alert it has
\* just broadcast, and no other.
LEMMA ConsumerStepMeans ==
  ASSUME HandsTyped, Q!ConsumerStep
  PROVE  /\ HandsTyped'
         /\ consumer.at # "broadcast" /\ consumer'.at # "mark"
         /\ consumer'.at = "broadcast" => consumer'.event \in Events /\ UNCHANGED faults
         /\ \/ UNCHANGED processed
            \/ consumer.at = "mark" /\ processed' = processed \cup {consumer.event}
<1>1. CASE Q!MarkProcessed
  <2>1. consumer.at = "mark" /\ consumer' = [at |-> "note", event |-> consumer.event]
    BY <1>1, PollRecord DEF Q!MarkProcessed
  <2>2. consumer.event \in Events
    BY <2>1 DEF HandsTyped
  <2>3. processed' = processed \/ processed' = processed \cup {consumer.event}
    BY <1>1 DEF Q!MarkProcessed
  <2>4. UNCHANGED <<queue, isProcessingQueue, poll>>
    BY <1>1 DEF Q!MarkProcessed
  <2> QED
    BY <2>1, <2>2, <2>3, <2>4, BroadcastAssumption DEF HandsTyped, Q!ConsumerStates
<1>2. CASE Q!NoteDelivered
  BY <1>2 DEF Q!NoteDelivered, HandsTyped, Q!ConsumerStates
<1>3. CASE Q!TimerFires
  <2>1. Q!ProcessQueue(queue) /\ consumer.at = "timer" /\ UNCHANGED <<processed, poll, faults>>
    BY <1>3 DEF Q!TimerFires
  <2> QED
    BY <2>1, Processing DEF HandsTyped
<1> QED
  BY <1>1, <1>2, <1>3 DEF Q!ConsumerStep

LEMMA ReturnedHands ==
  ASSUME HandsTyped, Q!BroadcastReturned
  PROVE  /\ HandsTyped' /\ UNCHANGED processed /\ consumer.at = "broadcast"
         /\ consumer'.at = "mark" /\ consumer'.event = consumer.event
<1>1. consumer.at = "broadcast" /\ consumer' = [at |-> "mark", event |-> consumer.event]
  BY PollRecord DEF Q!BroadcastReturned
<1> QED
  BY <1>1 DEF Q!BroadcastReturned, HandsTyped, Q!ConsumerStates

LEMMA ThrownHands ==
  ASSUME HandsTyped, Q!BroadcastThrows
  PROVE  /\ HandsTyped' /\ UNCHANGED <<processed, faults>> /\ consumer.at = "broadcast"
         /\ consumer'.at = "timer"
  BY DEF Q!BroadcastThrows, HandsTyped, Q!ConsumerStates

LEMMA LostHands ==
  ASSUME HandsTyped, Q!MemoryLost
  PROVE  HandsTyped' /\ UNCHANGED processed /\ consumer'.at = "idle"
  BY EmptySeq DEF Q!MemoryLost, HandsTyped, Q!ConsumerStates, Q!PollStates, Q!Idle, Q!NoPoll

LEMMA FetchedHands ==
  ASSUME HandsTyped, NEW page \in Batches, Q!FetchPage(page)
  PROVE  HandsTyped' /\ UNCHANGED <<processed, consumer, faults>>
<1>1. page \in Seq(Events)
  BY ServiceAssumption
<1> QED
  BY <1>1 DEF Q!FetchPage, Q!history, HandsTyped, Q!PollStates

-----------------------------------------------------------------------------
(* The queue and the broadcast together: one run at a time                 *)

\* The run in progress is the consumer's, and there is none when the consumer
\* is not broadcasting.
Linked ==
  /\ consumer.at = "broadcast" <=> run.at # "idle"
  /\ consumer.at = "broadcast" => run.event = consumer.event
  /\ run.at = "idle" => run = IdleRun

LinkInv == HandsTyped /\ Linked /\ FaultsTypeOK

\* A step of the rest of the program: the broadcast's state stays as it is.
Elsewhere == UNCHANGED runVars /\ FaultsTypeOK'

\* A run goes on with its event until it returns, throws or dies.
LEMMA RunStepMeans ==
  ASSUME TypeOK, RunStep
  PROVE  run.at # "idle" /\ run'.at # "idle" /\ run'.event = run.event
<1>r. run \in Runs
  BY DEF TypeOK
<1>d. DOMAIN run = RunFields
  BY <1>r, RunDomain
<1>1. CASE LoadLedger \/ LoadLedgerFails
  BY <1>d, <1>1 DEF LoadLedger, LoadLedgerFails, RunFields
<1>2. CASE RouteEvent
  <2>1. CASE run' = [run EXCEPT !.at = "keep", !.group = DriverOf[Event]]
    BY <1>d, <1>2, <2>1 DEF RouteEvent, RunFields
  <2>2. CASE run' = [run EXCEPT !.at = "keep"]
    BY <1>d, <1>2, <2>2 DEF RouteEvent, RunFields
  <2> QED
    BY <1>2, <2>1, <2>2 DEF RouteEvent
<1>3. CASE KeepEvent \/ ListSubscribers
  BY <1>d, <1>3 DEF KeepEvent, ListSubscribers, RunFields
<1>4. ASSUME NEW c \in Chats, SkipSettled(c) \/ BeginNotification(c)
      PROVE  run.at # "idle" /\ run'.at # "idle" /\ run'.event = run.event
  BY <1>d, <1>4 DEF SkipSettled, BeginNotification, RunFields
<1>5. CASE EndNotifications \/ NoForward \/ SwitchUnknown
  BY <1>d, <1>5 DEF EndNotifications, NoForward, SwitchUnknown, RunFields
<1>6. CASE ReadSwitch
  <2>1. run.at = "switch" /\ (run' = [run EXCEPT !.at = "finish"] \/ run' = Forwarding)
    BY <1>6 DEF ReadSwitch
  <2> QED
    BY <1>d, <2>1 DEF Forwarding, RunFields
<1>7. CASE Accepted \/ (\E gone \in BOOLEAN : Refused(gone))
  BY <1>7, AcceptedRun, RefusedRun
<1>8. ASSUME NEW arrived \in BOOLEAN, VideoFails(arrived) \/ TextFails(arrived)
      PROVE  run.at # "idle" /\ run'.at # "idle" /\ run'.event = run.event
  <2>1. run.at = "attempt"
    BY <1>8 DEF VideoFails, TextFails, FailedCall
  <2>2. CASE VideoFails(arrived)
    BY <1>d, <2>1, <2>2 DEF VideoFails, RunFields
  <2>3. CASE TextFails(arrived)
    BY <1>d, <2>1, <2>3 DEF TextFails, Onward, RunFields
  <2> QED
    BY <1>8, <2>2, <2>3
<1>9. CASE WriteOutcome
  <2>1. run.at = "write" /\ run' = Onward
    BY <1>9 DEF WriteOutcome
  <2> QED
    BY <1>d, <2>1 DEF Onward, RunFields
<1>10. CASE Finish
  BY <1>d, <1>10 DEF Finish, RunFields
<1> QED
  BY <1>1, <1>2, <1>3, <1>4, <1>5, <1>6, <1>7, <1>8, <1>9, <1>10 DEF RunStep

LEMMA QueueFault ==
  ASSUME FaultsTypeOK, Q!PollStep \/ Q!ConsumerStep
  PROVE  FaultsTypeOK'
<1>1. (\E kind : Fault(kind)) \/ NoFault
  BY DEF Q!PollStep, Q!ConsumerStep, Q!SkipKnown, Q!AskProcessed, Q!ProcessedAnswered,
         Q!ProcessedUnanswered, Q!QueueAlert, Q!TransformThrows, Q!EndPoll, Q!MarkProcessed,
         Q!NoteDelivered, Q!TimerFires, Q!Fault, Q!NoFault, Q!history, Fault, NoFault
<1> QED
  BY <1>1, FaultType

\* A step of the queue that starts no run leaves the link alone.
LEMMA WithRunLinked ==
  ASSUME LinkInv, Q!PollStep \/ Q!ConsumerStep, WithRun
  PROVE  /\ Linked' /\ HandsTyped'
         /\ consumer'.at = "mark" => UNCHANGED consumer
         /\ (\E e \in Events : Start(e)) \/ Elsewhere
<1>0. HandsTyped /\ Linked /\ FaultsTypeOK'
  BY QueueFault DEF LinkInv
<1>1. /\ HandsTyped'
      /\ consumer'.at = "mark" => UNCHANGED consumer
      /\ consumer.at = "broadcast" => UNCHANGED consumer
      /\ consumer.at # "broadcast" /\ consumer'.at = "broadcast" => consumer'.event \in Events
  BY <1>0, PollStepMeans, ConsumerStepMeans DEF ConsumerMoves
<1>2. CASE consumer.at # "broadcast" /\ consumer'.at = "broadcast"
  <2>1. Start(consumer'.event) /\ consumer'.event \in Events
    BY <1>1, <1>2 DEF WithRun
  <2>2. run'.at = "load" /\ run'.event = consumer'.event
    BY <2>1 DEF Start, IdleRun
  <2> QED
    BY <1>1, <1>2, <2>1, <2>2 DEF Linked
<1>3. CASE ~(consumer.at # "broadcast" /\ consumer'.at = "broadcast")
  <2>1. UNCHANGED runVars
    BY <1>3 DEF WithRun
  <2>2. UNCHANGED run
    BY <2>1 DEF runVars
  <2> QED
    BY <1>0, <1>1, <1>3, <2>1, <2>2 DEF Linked, Elsewhere
<1> QED
  BY <1>2, <1>3

\* Every step of the service is a step of the broadcast or leaves it alone, and
\* keeps the run with its consumer.
LEMMA ServiceSimulates ==
  ASSUME TypeOK, LinkInv, [ServiceNext]_serviceVars
  PROVE  LinkInv' /\ ([Next]_vars \/ Elsewhere)
<1>0. HandsTyped /\ Linked /\ FaultsTypeOK
  BY DEF LinkInv
<1>t. [Next]_vars => FaultsTypeOK'
  BY NextType DEF TypeOK
<1>1. ASSUME NEW page \in Batches, Fetch(page) PROVE LinkInv' /\ Elsewhere
  <2>1. Q!FetchPage(page) /\ UNCHANGED runVars
    BY <1>1 DEF Fetch
  <2>2. HandsTyped' /\ UNCHANGED <<consumer, faults, run>>
    BY <1>0, <2>1, FetchedHands DEF runVars
  <2> QED
    BY <1>0, <2>1, <2>2 DEF LinkInv, Linked, Elsewhere, FaultsTypeOK
<1>2. CASE PollStep \/ ConsumerStep
  <2>1. Linked' /\ HandsTyped' /\ ((\E e \in Events : Start(e)) \/ Elsewhere)
    BY <1>2, WithRunLinked DEF PollStep, ConsumerStep
  <2>2. [Next]_vars \/ Elsewhere
    BY <2>1 DEF Next
  <2> QED
    BY <1>t, <2>1, <2>2 DEF LinkInv, Elsewhere
<1>3. CASE RunSteps
  <2>1. RunStep /\ UNCHANGED queueVars
    BY <1>3 DEF RunSteps
  <2>2. HandsTyped' /\ UNCHANGED consumer
    BY <1>0, <2>1, SameHands DEF queueVars
  <2>3. Linked'
    BY <1>0, <2>1, <2>2, RunStepMeans DEF Linked
  <2>4. Next
    BY <2>1 DEF Next
  <2> QED
    BY <1>t, <2>2, <2>3, <2>4 DEF LinkInv
<1>4. CASE RunReturns
  <2>1. Return /\ HandsTyped' /\ consumer'.at = "mark"
    BY <1>0, <1>4, ReturnedHands DEF RunReturns
  <2>2. run' = IdleRun
    BY <2>1 DEF Return
  <2>3. Linked'
    BY <2>1, <2>2, IdleRunType DEF Linked
  <2>4. Next
    BY <2>1 DEF Next
  <2> QED
    BY <1>t, <2>1, <2>3, <2>4 DEF LinkInv
<1>5. CASE RunThrows
  <2>1. Throw /\ HandsTyped' /\ consumer'.at = "timer"
    BY <1>0, <1>5, ThrownHands DEF RunThrows
  <2>2. run' = IdleRun
    BY <2>1 DEF Throw
  <2>3. Linked'
    BY <2>1, <2>2, IdleRunType DEF Linked
  <2>4. Next
    BY <2>1 DEF Next
  <2> QED
    BY <1>t, <2>1, <2>3, <2>4 DEF LinkInv
<1>6. CASE PeopleAct
  <2>1. People /\ UNCHANGED queueVars
    BY <1>6 DEF PeopleAct
  <2>2. HandsTyped' /\ UNCHANGED consumer
    BY <1>0, <2>1, SameHands DEF queueVars
  <2>3. UNCHANGED run
    BY <2>1 DEF People, Subscribe, Unsubscribe, FlipSwitch
  <2>4. Next
    BY <2>1 DEF Next
  <2> QED
    BY <1>0, <1>t, <2>2, <2>3, <2>4 DEF LinkInv, Linked
<1>7. CASE ProcessDies
  <2>1. Fault("crash") /\ Q!MemoryLost /\ RunLost
    BY <1>7 DEF ProcessDies
  <2>2. HandsTyped' /\ consumer'.at = "idle" /\ run' = IdleRun
    BY <1>0, <2>1, LostHands DEF RunLost
  <2>3. LinkInv'
    BY <1>0, <2>1, <2>2, FaultType, IdleRunType DEF LinkInv, Linked
  <2>4. CASE run.at = "idle"
    <3>1. UNCHANGED runVars
      BY <1>0, <2>1, <2>2, <2>4 DEF RunLost, Linked, runVars, history
    <3> QED
      BY <2>3, <3>1 DEF Elsewhere, LinkInv
  <2>5. CASE run.at # "idle"
    BY <2>1, <2>3, <2>5 DEF Next, Crash
  <2> QED
    BY <2>3, <2>4, <2>5
<1>8. CASE UNCHANGED serviceVars
  <2>1. UNCHANGED <<processed, queue, isProcessingQueue, consumer, poll>>
          /\ UNCHANGED <<runVars, run, faults>>
    BY <1>8 DEF serviceVars, queueVars, runVars
  <2>2. HandsTyped'
    BY <1>0, <2>1, SameHands
  <2> QED
    BY <1>0, <2>1, <2>2 DEF LinkInv, Linked, Elsewhere, FaultsTypeOK
<1>9. CASE CursorRejected
  <2>1. UNCHANGED <<processed, queue, isProcessingQueue, consumer, poll>>
          /\ UNCHANGED <<runVars, run>> /\ Fault("expire")
    BY <1>9 DEF CursorRejected, queueVars, runVars
  <2>2. HandsTyped' /\ FaultsTypeOK'
    BY <1>0, <2>1, SameHands, FaultType
  <2> QED
    BY <1>0, <2>1, <2>2 DEF LinkInv, Linked, Elsewhere
<1> QED
  BY <1>1, <1>2, <1>3, <1>4, <1>5, <1>6, <1>7, <1>8, <1>9 DEF ServiceNext

-----------------------------------------------------------------------------
(* The queue and the broadcast together: what is marked processed          *)

\* What is true of an event that is not going to be broadcast again.
Dealt(e) == Reached(e, Forced) /\ DriverDealt(e)

\* An event is marked, and about to be marked, only when it has been dealt with.
HandledDealt ==
  /\ consumer.at = "mark" => Dealt(consumer.event)
  /\ \A e \in processed : Dealt(e)

ServiceInv == DriverInv /\ LinkInv /\ HandledDealt

LEMMA InitService == ServiceInit => ServiceInv
<1> SUFFICES ASSUME ServiceInit PROVE ServiceInv
  OBVIOUS
<1>1. DriverInv
  BY InitDriver DEF ServiceInit
<1>2. FaultsTypeOK
  BY <1>1 DEF DriverInv, DealtInv, TruthInv, CountInv, TypeOK
<1>3. HandsTyped /\ consumer.at = "idle" /\ processed = {}
  BY EmptySeq
     DEF ServiceInit, Q!Init, Q!Idle, Q!NoPoll, HandsTyped, Q!PollStates, Q!ConsumerStates
<1>4. run = IdleRun
  BY DEF ServiceInit, Init
<1>5. Linked
  BY <1>3, <1>4, IdleRunType DEF Linked
<1> QED
  BY <1>1, <1>2, <1>3, <1>5 DEF ServiceInv, LinkInv, HandledDealt

\* The broadcast's invariants speak of its own state only.
LEMMA ElsewhereDriver == DriverInv /\ Elsewhere => DriverInv'
<1> SUFFICES ASSUME DriverInv, Elsewhere PROVE DriverInv'
  OBVIOUS
<1>1. /\ UNCHANGED <<ledger, recorded, recovery, subscribers, switchedOff, run>>
      /\ UNCHANGED <<copies, excuse, past>> /\ FaultsTypeOK'
  BY DEF Elsewhere, runVars, durable, history
<1>2. TypeOK'
  BY <1>1 DEF DriverInv, DealtInv, TruthInv, CountInv, TypeOK
<1>3. CountInv'
  BY <1>1, <1>2, NothingAnswered, AsideCount DEF DriverInv, DealtInv, TruthInv
<1>4. LedgerTruthful' /\ StatusesTruthful'
  BY <1>1 DEF DriverInv, DealtInv, TruthInv, LedgerTruthful, StatusesTruthful
<1>5. TargetsFollowed'
  BY <1>1 DEF DriverInv, DealtInv, TargetsFollowed, IsSettled
<1>6. OffNoted' /\ RouteFollowed'
  BY <1>1 DEF DriverInv, OffNoted, RouteFollowed, DriverDealt, Reached
<1> QED
  BY <1>3, <1>4, <1>5, <1>6 DEF DriverInv, DealtInv, TruthInv

LEMMA ElsewhereAudience == AudienceInv /\ Elsewhere => AudienceInv'
  BY DEF AudienceInv, AudienceNoted, VisitsEntitled, OnlyAudience, Entitled, Elsewhere, runVars,
         durable, history

\* An event that has been dealt with stays so.
LEMMA DealtKept ==
  ASSUME TypeOK, [Next]_vars \/ Elsewhere, NEW e \in Events, Dealt(e)
  PROVE  Dealt(e)'
<1>1. CASE [Next]_vars
  <2>1. Reached(e, Forced)'
    BY <1>1, ReachedKept, BroadcastAssumption DEF Dealt
  <2>2. DriverDealt(e)'
    BY <1>1, DriverKept DEF Dealt
  <2> QED
    BY <2>1, <2>2 DEF Dealt
<1>2. CASE Elsewhere
  BY <1>2 DEF Dealt, Reached, DriverDealt, Elsewhere, runVars, history
<1> QED
  BY <1>1, <1>2

\* An event is marked by a consumer that holds it in "mark", and that state is
\* entered by a clean run only.
LEMMA ServiceMarks ==
  ASSUME LinkInv, [ServiceNext]_serviceVars
  PROVE  /\ \/ UNCHANGED processed
            \/ /\ consumer.at = "mark" /\ UNCHANGED runVars
               /\ processed' = processed \cup {consumer.event}
         /\ \/ consumer'.at # "mark"
            \/ UNCHANGED consumer
            \/ RunReturns
<1>0. HandsTyped
  BY DEF LinkInv
<1>1. ASSUME NEW page \in Batches, Fetch(page) PROVE UNCHANGED <<processed, consumer>>
  BY <1>0, <1>1, FetchedHands DEF Fetch
<1>2. CASE PollStep
  <2>1. Q!PollStep /\ WithRun
    BY <1>2 DEF PollStep
  <2> QED
    BY <1>0, <2>1, PollStepMeans, WithRunLinked
<1>3. CASE ConsumerStep
  <2>1. Q!ConsumerStep /\ WithRun
    BY <1>3 DEF ConsumerStep
  <2>2. /\ consumer'.at # "mark"
        /\ consumer'.at = "broadcast" => consumer'.event \in Events
        /\ \/ UNCHANGED processed
           \/ consumer.at = "mark" /\ processed' = processed \cup {consumer.event}
    BY <1>0, <2>1, ConsumerStepMeans
  <2>3. consumer.at = "mark" => UNCHANGED runVars
    <3>1. ASSUME consumer.at = "mark" PROVE consumer'.at = "note"
      BY <2>1, <3>1, PollRecord, <1>0
         DEF Q!ConsumerStep, Q!MarkProcessed, Q!NoteDelivered, Q!TimerFires
    <3> QED
      BY <2>1, <3>1 DEF WithRun
  <2> QED
    BY <2>2, <2>3
<1>4. CASE RunSteps \/ PeopleAct \/ CursorRejected \/ UNCHANGED serviceVars
  BY <1>4 DEF RunSteps, PeopleAct, CursorRejected, serviceVars, queueVars
<1>5. CASE RunReturns
  BY <1>0, <1>5, ReturnedHands DEF RunReturns
<1>6. CASE RunThrows
  BY <1>0, <1>6, ThrownHands DEF RunThrows
<1>7. CASE ProcessDies
  BY <1>0, <1>7, LostHands DEF ProcessDies
<1> QED
  BY <1>1, <1>2, <1>3, <1>4, <1>5, <1>6, <1>7 DEF ServiceNext

LEMMA NextService == ServiceInv /\ [ServiceNext]_serviceVars => ServiceInv'
<1> SUFFICES ASSUME ServiceInv, [ServiceNext]_serviceVars PROVE ServiceInv'
  OBVIOUS
<1>0. DriverInv /\ LinkInv /\ HandledDealt /\ TypeOK /\ HandsTyped /\ Linked
  BY DEF ServiceInv, LinkInv, DriverInv, DealtInv, TruthInv, CountInv
<1>1. LinkInv' /\ ([Next]_vars \/ Elsewhere)
  BY <1>0, ServiceSimulates
<1>2. DriverInv'
  BY <1>0, <1>1, NextDriver, ElsewhereDriver
<1>3. \A e \in Events : Dealt(e) => Dealt(e)'
  BY <1>0, <1>1, DealtKept
<1>4. processed \subseteq Events /\ (consumer.at = "mark" => consumer.event \in Events)
  BY <1>0 DEF HandsTyped
<1>5. ASSUME NEW e \in processed' PROVE Dealt(e)'
  <2>1. e \in Events /\ Dealt(e)
    BY <1>0, <1>4, <1>5, ServiceMarks DEF HandledDealt
  <2> QED
    BY <1>3, <2>1
<1>6. ASSUME NEW e, e = consumer'.event, consumer'.at = "mark" PROVE Dealt(e)'
  <2>1. CASE UNCHANGED consumer
    BY <1>0, <1>3, <1>4, <1>6, <2>1 DEF HandledDealt
  <2>2. CASE RunReturns
    <3>1. run.at = "enqueue" /\ run.event = consumer.event /\ consumer'.event = consumer.event
      BY <1>0, <2>2, ReturnedHands DEF RunReturns, Return, Linked
    <3>2. e \in Events /\ Dealt(e)
      BY <1>0, <1>6, <3>1, CleanDealt DEF Dealt
    <3> QED
      BY <1>3, <3>2
  <2> QED
    BY <1>0, <1>6, <2>1, <2>2, ServiceMarks
<1>7. HandledDealt'
  BY <1>5, <1>6 DEF HandledDealt, Dealt, Reached, DriverDealt
<1> QED
  BY <1>1, <1>2, <1>7 DEF ServiceInv

LEMMA ServiceAlways == ServiceSpec => []ServiceInv
  BY InitService, NextService, PTL DEF ServiceSpec

\* Run by the queue's consumer, over crashes, retries and restarts, the
\* broadcast keeps its types and what was proved of it alone: every further
\* copy of an alert is explained by a fault, the ledger never claims what did
\* not happen, and a clean run missed none of its targets.
THEOREM ServiceKeepsBroadcast ==
  ServiceSpec => [](TypeOK /\ DuplicatesExplained /\ LedgerTruthful /\ CleanRunReachedAll)
<1>1. ServiceInv => CountInv /\ TypeOK /\ LedgerTruthful /\ DealtInv
  BY DEF ServiceInv, DriverInv, DealtInv, TruthInv, CountInv
<1>2. ServiceInv => TypeOK /\ DuplicatesExplained /\ LedgerTruthful /\ CleanRunReachedAll
  BY <1>1, CountMeans, DealtMeans
<1> QED
  BY ServiceAlways, <1>2, PTL

\* In the service too, nobody gets an alert they were never entitled to.
THEOREM ServiceNobodyElse == ServiceSpec => []OnlyAudience
<1>1. ServiceInit => AudienceInv
  BY InitAudience DEF ServiceInit
<1>2. ServiceInv /\ AudienceInv /\ [ServiceNext]_serviceVars => AudienceInv'
  <2> SUFFICES ASSUME ServiceInv, AudienceInv, [ServiceNext]_serviceVars PROVE AudienceInv'
    OBVIOUS
  <2>1. TypeOK /\ LinkInv
    BY DEF ServiceInv, DriverInv, DealtInv, TruthInv, CountInv
  <2> QED
    BY <2>1, ServiceSimulates, NextAudience, ElsewhereAudience
<1>3. AudienceInv => OnlyAudience
  BY DEF AudienceInv
<1> QED
  BY ServiceAlways, <1>1, <1>2, <1>3, PTL DEF ServiceSpec

\* An event recorded as processed, which no later poll will offer again, has
\* reached the driver's own group or was refused there, unless the group was
\* switched off at some time or a routing lookup of the event failed.
THEOREM ProcessedIsDelivered == ServiceSpec => []ProcessedReachedDriver
<1>1. ServiceInv => ProcessedReachedDriver
  BY DEF ServiceInv, HandledDealt, Dealt, DriverDealt, ProcessedReachedDriver
<1> QED
  BY ServiceAlways, <1>1, PTL

-----------------------------------------------------------------------------
(* The cursor passes no event that is not accounted for                    *)

Accounted(e) == Reached(e, Forced) \/ e \in pending \/ e \in letGo

CursorTyped ==
  /\ seen \in Seq(Events)
  /\ cursor \subseteq Events
  /\ endCursor \subseteq Events

\* What a later poll skips without asking has reached the notifications group.
SeenReached ==
  /\ \A e \in Q!Elements(seen) : Reached(e, Forced)
  /\ \A e \in Events : consumer.at = "note" /\ e = consumer.event => Reached(e, Forced)

\* The cursor that comes with a page is ahead of what the poll has gone through
\* by the rest of the page only, and an event being transformed is held.
CursorFollowed ==
  /\ PassedIsAccounted
  /\ poll.at # "idle" => \A e \in endCursor : e \in Q!Elements(poll.page) \/ Accounted(e)
  /\ \A e \in Events : poll.at = "transform" /\ e = Q!Current => Accounted(e)

CursorInv == CursorTyped /\ SeenReached /\ CursorFollowed

LEMMA FirstAndRest ==
  ASSUME NEW s \in Seq(Events), s # <<>>
  PROVE  /\ Head(s) \in Events /\ Tail(s) \in Seq(Events)
         /\ Q!Elements(s) = {Head(s)} \cup Q!Elements(Tail(s))
<1>1. /\ Head(s) \in Events /\ Tail(s) \in Seq(Events) /\ Len(Tail(s)) = Len(s) - 1
      /\ Head(s) = s[1] /\ Len(s) \in Nat \ {0}
      /\ \A i \in 1..Len(Tail(s)) : Tail(s)[i] = s[i + 1]
  BY HeadTailProperties, LenProperties, EmptySeq
<1>2. DOMAIN s = 1..Len(s) /\ DOMAIN Tail(s) = 1..(Len(s) - 1)
  BY <1>1, LenProperties
<1>3. ASSUME NEW i \in DOMAIN s PROVE s[i] = Head(s) \/ s[i] \in Q!Elements(Tail(s))
  <2>1. i = 1 \/ (i - 1 \in DOMAIN Tail(s) /\ Tail(s)[i - 1] = s[i])
    BY <1>1, <1>2, <1>3
  <2> QED
    BY <1>1, <2>1 DEF Q!Elements
<1>4. ASSUME NEW i \in DOMAIN Tail(s) PROVE Tail(s)[i] \in Q!Elements(s)
  <2>1. i + 1 \in DOMAIN s /\ Tail(s)[i] = s[i + 1]
    BY <1>1, <1>2, <1>4
  <2> QED
    BY <2>1 DEF Q!Elements
<1>5. Head(s) \in Q!Elements(s)
  BY <1>1, <1>2 DEF Q!Elements
<1> QED
  BY <1>1, <1>3, <1>4, <1>5 DEF Q!Elements

LEMMA OneMoreLast ==
  ASSUME NEW s \in Seq(Events), NEW e \in Events
  PROVE  Append(s, e) \in Seq(Events) /\ Q!Elements(Append(s, e)) \subseteq Q!Elements(s) \cup {e}
<1>1. /\ Append(s, e) \in Seq(Events) /\ Len(Append(s, e)) = Len(s) + 1 /\ Len(s) \in Nat
      /\ \A i \in 1..Len(s) : Append(s, e)[i] = s[i]
      /\ Append(s, e)[Len(s) + 1] = e
  BY AppendProperties, LenProperties
<1>2. DOMAIN s = 1..Len(s) /\ DOMAIN Append(s, e) = 1..(Len(s) + 1)
  BY <1>1, LenProperties
<1>3. ASSUME NEW i \in DOMAIN Append(s, e)
      PROVE  Append(s, e)[i] \in Q!Elements(s) \cup {e}
  <2>1. i = Len(s) + 1 \/ i \in DOMAIN s
    BY <1>1, <1>2, <1>3
  <2> QED
    BY <1>1, <1>2, <2>1 DEF Q!Elements
<1> QED
  BY <1>1, <1>3 DEF Q!Elements

\* SEEN_IDS gains the event in hand and may lose its oldest one.
LEMMA AddedSeen ==
  ASSUME NEW s \in Seq(Events), NEW e \in Events
  PROVE  /\ Q!AddSeen(s, e) \in Seq(Events)
         /\ Q!Elements(Q!AddSeen(s, e)) \subseteq Q!Elements(s) \cup {e}
  BY OneMoreLast DEF Q!AddSeen

LEMMA RememberedSeen ==
  ASSUME NEW s \in Seq(Events), NEW e \in Events
  PROVE  /\ Q!RememberDelivered(s, e) \in Seq(Events)
         /\ Q!Elements(Q!RememberDelivered(s, e)) \subseteq Q!Elements(s) \cup {e}
<1> DEFINE added == Q!AddSeen(s, e)
<1>1. added \in Seq(Events) /\ Q!Elements(added) \subseteq Q!Elements(s) \cup {e}
  BY AddedSeen
<1>2. Q!RememberDelivered(s, e) = IF Len(added) > MaxSeen THEN Tail(added) ELSE added
  BY DEF Q!RememberDelivered
<1> HIDE DEF added
<1>3. CASE Len(added) > MaxSeen
  <2>1. added # <<>>
    BY <1>3, ServiceAssumption, EmptySeq
  <2> QED
    BY <1>1, <1>2, <1>3, <2>1, FirstAndRest
<1>4. CASE ~(Len(added) > MaxSeen)
  BY <1>1, <1>2, <1>4
<1> QED
  BY <1>3, <1>4

LEMMA NoElements == Q!Elements(<<>>) = {}
  BY DEF Q!Elements

LEMMA ReachedStays ==
  ASSUME TypeOK, [Next]_vars \/ Elsewhere, NEW e \in Events, Reached(e, Forced)
  PROVE  Reached(e, Forced)'
<1>1. CASE [Next]_vars
  BY <1>1, ReachedKept, BroadcastAssumption
<1>2. CASE Elsewhere
  BY <1>2 DEF Reached, Elsewhere, runVars, history
<1> QED
  BY <1>1, <1>2

\* An alert leaves the hands of this process only when it has reached the
\* notifications group or is let go of, and what is let go of stays so.
LEMMA HeldOrLetGo ==
  ASSUME LinkInv, [ServiceNext]_serviceVars
  PROVE  /\ letGo \subseteq letGo'
         /\ \A e \in pending :
              e \in pending' \/ e \in letGo' \/ (consumer.at = "note" /\ e = consumer.event)
<1>1. ASSUME NEW page \in Batches, Fetch(page) PROVE UNCHANGED <<pending, letGo>>
  BY <1>1 DEF Fetch, Q!FetchPage
<1>2. CASE PollStep
  <2>1. letGo \subseteq letGo' /\ Q!PollStep
    BY <1>2 DEF PollStep
  <2>2. pending \subseteq pending'
    BY <2>1 DEF Q!PollStep, Q!SkipKnown, Q!AskProcessed, Q!ProcessedAnswered, Q!PickUp,
                Q!ProcessedUnanswered, Q!QueueAlert, Q!TransformThrows, Q!EndPoll
  <2> QED
    BY <2>1, <2>2
<1>3. CASE ConsumerStep
  BY <1>3 DEF ConsumerStep, cursorVars, Q!ConsumerStep, Q!MarkProcessed, Q!NoteDelivered,
              Q!TimerFires
<1>4. CASE RunSteps \/ PeopleAct \/ CursorRejected \/ UNCHANGED serviceVars
  BY <1>4 DEF RunSteps, PeopleAct, CursorRejected, serviceVars, queueVars, cursorVars
<1>5. CASE RunReturns
  BY <1>5 DEF RunReturns, Q!BroadcastReturned, cursorVars
<1>6. CASE RunThrows
  BY <1>6 DEF RunThrows, Q!BroadcastThrows
<1>7. CASE ProcessDies
  BY <1>7 DEF ProcessDies
<1> QED
  BY <1>1, <1>2, <1>3, <1>4, <1>5, <1>6, <1>7 DEF ServiceNext

Kept ==
  \A e \in Events :
    /\ Reached(e, Forced) => Reached(e, Forced)'
    /\ Accounted(e) => Accounted(e)'

LEMMA AccountedKept ==
  ASSUME ServiceInv, CursorInv, [ServiceNext]_serviceVars
  PROVE  Kept
<1>0. TypeOK /\ LinkInv
  BY DEF ServiceInv, DriverInv, DealtInv, TruthInv, CountInv
<1>1. ASSUME NEW e \in Events, Reached(e, Forced) PROVE Reached(e, Forced)'
  BY <1>0, <1>1, ServiceSimulates, ReachedStays
<1>2. ASSUME NEW e \in Events, e \in pending PROVE Accounted(e)'
  <2>1. e \in pending' \/ e \in letGo' \/ (consumer.at = "note" /\ e = consumer.event)
    BY <1>0, <1>2, HeldOrLetGo
  <2>2. consumer.at = "note" /\ e = consumer.event => Reached(e, Forced)'
    BY <1>1 DEF CursorInv, SeenReached
  <2> QED
    BY <2>1, <2>2 DEF Accounted
<1>3. letGo \subseteq letGo'
  BY <1>0, HeldOrLetGo
<1> QED
  BY <1>1, <1>2, <1>3 DEF Kept, Accounted

\* A step that leaves the request alone, and takes the consumer into "note" only
\* with an event that was delivered.
LEMMA SameCursor ==
  ASSUME HandsTyped, CursorInv, Kept, UNCHANGED <<seen, poll, cursor, endCursor>>,
         \A e \in Events : consumer'.at = "note" /\ e = consumer'.event => Reached(e, Forced)
  PROVE  CursorInv'
<1>1. CursorTyped' /\ Q!Elements(seen) \subseteq Events
  BY DEF CursorInv, CursorTyped, Q!Elements
<1>2. SeenReached'
  BY <1>1 DEF CursorInv, SeenReached, Kept, Q!Elements
<1>3. CursorFollowed'
  BY DEF CursorInv, CursorTyped, CursorFollowed, PassedIsAccounted, Accounted, Kept,
         Q!Current, Q!Elements
<1> QED
  BY <1>1, <1>2, <1>3 DEF CursorInv

\* What a step of the poll does to the request: it goes on with its page past an
\* event that is accounted for, or ends the page.
LEMMA PollFollowed ==
  ASSUME ServiceInv, CursorInv, Kept, PollStep
  PROVE  CursorInv'
<1>0. HandsTyped /\ poll.page \in Seq(Events) /\ PassedIsAccounted /\ CursorTyped
  BY DEF ServiceInv, LinkInv, HandsTyped, CursorInv, CursorFollowed
<1>1. Q!PollStep /\ WithRun
  BY DEF PollStep
<1>p. /\ consumer'.at \in {"idle", "broadcast"} \/ UNCHANGED consumer
      /\ HandsTyped'
  BY <1>0, <1>1, PollStepMeans DEF ConsumerMoves
<1>c. /\ cursor' = IF PageDone /\ endCursor # {} THEN endCursor ELSE cursor
      /\ endCursor' = IF poll'.at = "idle" THEN {} ELSE endCursor
  BY DEF PollStep
<1>2. /\ seen' \in Seq(Events)
      /\ \A e \in Q!Elements(seen') : Reached(e, Forced)
  <2>1. CASE UNCHANGED seen
    BY <1>0, <2>1 DEF CursorInv, CursorTyped, SeenReached, Q!Elements
  <2>2. CASE seen' # seen
    <3>1. poll.at = "lookup" /\ Q!Current \in processed /\ seen' = Q!AddSeen(seen, Q!Current)
      BY <1>1, <2>2 DEF Q!PollStep, Q!SkipKnown, Q!AskProcessed, Q!ProcessedAnswered, Q!PickUp,
                        Q!ProcessedUnanswered, Q!QueueAlert, Q!TransformThrows, Q!EndPoll
    <3>2. Q!Current \in Events /\ Reached(Q!Current, Forced)
      BY <1>0, <3>1, PageType DEF ServiceInv, HandledDealt, Dealt, HandsTyped
    <3> QED
      BY <1>0, <3>1, <3>2, AddedSeen DEF CursorInv, CursorTyped, SeenReached
  <2> QED
    BY <2>1, <2>2
<1>3. SeenReached'
  <2>1. \A e \in Q!Elements(seen') : Reached(e, Forced)'
    <3>1. Q!Elements(seen') \subseteq Events
      BY <1>2 DEF Q!Elements
    <3> QED
      BY <1>2, <3>1 DEF Kept
  <2>2. \A e \in Events : consumer'.at = "note" /\ e = consumer'.event => Reached(e, Forced)'
    BY <1>p DEF Kept, CursorInv, SeenReached
  <2> QED
    BY <2>1, <2>2 DEF SeenReached, Q!Elements
<1>4. CursorTyped'
  BY <1>0, <1>2, <1>c DEF CursorTyped
<1>5. PassedIsAccounted'
  <2>1. ASSUME NEW e \in cursor' PROVE e \in Events /\ Accounted(e)
    <3>1. CASE e \in cursor
      BY <1>0, <3>1 DEF CursorTyped, PassedIsAccounted, Accounted
    <3>2. CASE e \notin cursor
      <4>1. PageDone /\ e \in endCursor
        BY <1>c, <2>1, <3>2
      <4>2. poll.at = "scan" /\ Q!Elements(poll.page) = {}
        BY <4>1, NoElements DEF PageDone
      <4> QED
        BY <1>0, <4>1, <4>2 DEF CursorInv, CursorTyped, CursorFollowed
    <3> QED
      BY <3>1, <3>2
  <2>2. \A e \in cursor' : Accounted(e)'
    BY <2>1 DEF Kept
  <2> QED
    BY <2>2 DEF PassedIsAccounted, Accounted
<1>6. ASSUME poll'.at # "idle", NEW e \in endCursor'
      PROVE  e \in Q!Elements(poll'.page) \/ Accounted(e)'
  <2>1. e \in endCursor /\ e \in Events
    BY <1>0, <1>6, <1>c DEF CursorTyped
  <2>2. poll.at # "idle"
    BY <1>1 DEF Q!PollStep, Q!SkipKnown, Q!AskProcessed, Q!ProcessedAnswered,
                Q!ProcessedUnanswered, Q!QueueAlert, Q!TransformThrows, Q!EndPoll
  <2>3. e \in Q!Elements(poll.page) \/ Accounted(e)
    BY <2>1, <2>2 DEF CursorInv, CursorFollowed
  <2>4. CASE Accounted(e)
    BY <2>1, <2>4 DEF Kept
  <2>5. CASE e \in Q!Elements(poll.page) /\ poll'.page = poll.page
    BY <2>5
  <2>6. CASE e \in Q!Elements(poll.page) /\ poll'.page # poll.page
    <3>1. poll.page # <<>>
      BY <2>6, NoElements
    <3>2. Q!NextEvent /\ Accounted(Q!Current)
      <4>1. CASE Q!SkipKnown
        BY <4>1, <1>0 DEF Q!SkipKnown, CursorInv, SeenReached, Accounted
      <4>2. CASE Q!ProcessedAnswered
        <5>1. Q!NextEvent /\ Q!Current \in processed
          BY <2>6, <4>2, <1>0, PollRecord DEF Q!ProcessedAnswered, Q!PickUp
        <5> QED
          BY <5>1 DEF ServiceInv, HandledDealt, Dealt, Accounted
      <4>3. CASE Q!QueueAlert
        <5>1. Q!Current \in Events
          BY <1>0, <3>1, PageType
        <5> QED
          BY <4>3, <5>1 DEF Q!QueueAlert, CursorInv, CursorFollowed
      <4>4. CASE Q!AskProcessed \/ Q!ProcessedUnanswered \/ Q!TransformThrows \/ Q!EndPoll
        BY <1>0, <1>6, <2>6, <4>4, PollRecord
           DEF Q!AskProcessed, Q!ProcessedUnanswered, Q!PickUp, Q!TransformThrows, Q!EndPoll, Q!NoPoll
      <4> QED
        BY <1>1, <4>1, <4>2, <4>3, <4>4 DEF Q!PollStep
    <3>3. Q!Elements(poll.page) = {Q!Current} \cup Q!Elements(poll'.page)
      BY <1>0, <3>1, <3>2, FirstAndRest DEF Q!NextEvent, Q!Current
    <3> QED
      BY <2>1, <2>6, <3>2, <3>3 DEF Kept
  <2> QED
    BY <2>3, <2>4, <2>5, <2>6
<1>7. ASSUME poll'.at = "transform", NEW e \in Events, e = Q!Current' PROVE Accounted(e)'
  <2>1. Q!PickUp /\ poll'.page = poll.page
    BY <1>0, <1>1, <1>7, PollRecord
       DEF Q!PollStep, Q!SkipKnown, Q!AskProcessed, Q!ProcessedAnswered, Q!PickUp, Q!NextEvent,
           Q!ProcessedUnanswered, Q!QueueAlert, Q!TransformThrows, Q!NoPoll, Q!EndPoll
  <2>2. e \in pending'
    BY <1>7, <2>1 DEF Q!PickUp, Q!Current
  <2> QED
    BY <2>2 DEF Accounted
<1>8. CursorFollowed'
  BY <1>5, <1>6, <1>7 DEF CursorFollowed, Accounted, Q!Elements
<1> QED
  BY <1>3, <1>4, <1>8 DEF CursorInv

LEMMA InitCursor == ServiceInit => CursorInv
<1> SUFFICES ASSUME ServiceInit PROVE CursorInv
  OBVIOUS
<1>1. seen = <<>> /\ cursor = {} /\ endCursor = {} /\ poll.at = "idle" /\ consumer.at = "idle"
  BY DEF ServiceInit, Q!Init, Q!NoPoll, Q!Idle
<1> QED
  BY <1>1, EmptySeq, NoElements
     DEF CursorInv, CursorTyped, SeenReached, CursorFollowed, PassedIsAccounted

LEMMA NextCursor == ServiceInv /\ CursorInv /\ [ServiceNext]_serviceVars => CursorInv'
<1> SUFFICES ASSUME ServiceInv, CursorInv, [ServiceNext]_serviceVars PROVE CursorInv'
  OBVIOUS
<1>0. Kept /\ HandsTyped /\ HandledDealt /\ CursorTyped /\ PassedIsAccounted
  BY AccountedKept DEF ServiceInv, LinkInv, CursorInv, CursorFollowed
<1>n. \A e \in Events : consumer.at = "note" /\ e = consumer.event => Reached(e, Forced)
  BY DEF CursorInv, SeenReached
<1>1. ASSUME NEW page \in Batches, Fetch(page) PROVE CursorInv'
  <2>1. /\ poll' = [at |-> "scan", page |-> page] /\ UNCHANGED <<seen, consumer, cursor>>
        /\ endCursor' \subseteq cursor \cup Q!Elements(page)
    BY <1>1 DEF Fetch, Q!FetchPage
  <2>2. Q!Elements(page) \subseteq Events
    BY <1>1, ServiceAssumption DEF Q!Elements
  <2>3. CursorTyped'
    BY <1>0, <2>1, <2>2 DEF CursorTyped
  <2>4. SeenReached'
    <3>1. \A e \in Q!Elements(seen) : e \in Events /\ Reached(e, Forced)
      BY <1>0 DEF CursorInv, SeenReached, CursorTyped, Q!Elements
    <3> QED
      BY <1>0, <1>n, <2>1, <3>1 DEF SeenReached, Kept, Q!Elements
  <2>5. PassedIsAccounted'
    BY <1>0, <2>1 DEF PassedIsAccounted, CursorTyped, Kept, Accounted
  <2>6. \A e \in endCursor' : e \in Q!Elements(page) \/ Accounted(e)'
    BY <1>0, <2>1 DEF PassedIsAccounted, CursorTyped, Kept, Accounted
  <2>7. CursorFollowed'
    BY <2>1, <2>5, <2>6 DEF CursorFollowed, Accounted, Q!Elements
  <2> QED
    BY <2>3, <2>4, <2>7 DEF CursorInv
<1>2. CASE PollStep
  BY <1>0, <1>2, PollFollowed
<1>3. CASE ConsumerStep
  <2>1. Q!ConsumerStep /\ UNCHANGED <<poll, cursor, endCursor>>
    BY <1>3 DEF ConsumerStep, cursorVars, Q!ConsumerStep, Q!MarkProcessed, Q!NoteDelivered,
                Q!TimerFires
  <2>2. CASE Q!NoteDelivered
    <3>1. /\ seen' = Q!RememberDelivered(seen, consumer.event) /\ consumer.at = "note"
          /\ consumer'.at = "timer"
      BY <2>2 DEF Q!NoteDelivered
    <3>2. consumer.event \in Events /\ Reached(consumer.event, Forced)
      BY <1>0, <1>n, <3>1 DEF HandsTyped
    <3>3. /\ seen' \in Seq(Events)
          /\ Q!Elements(seen') \subseteq Q!Elements(seen) \cup {consumer.event}
      BY <1>0, <3>1, <3>2, RememberedSeen DEF CursorTyped
    <3>4. CursorTyped'
      BY <1>0, <2>1, <3>3 DEF CursorTyped
    <3>5. \A e \in Q!Elements(seen') : Reached(e, Forced)'
      <4>1. \A e \in Q!Elements(seen') : e \in Events /\ Reached(e, Forced)
        BY <3>2, <3>3 DEF CursorInv, SeenReached, Q!Elements
      <4> QED
        BY <1>0, <4>1 DEF Kept
    <3>6. SeenReached'
      BY <3>1, <3>5 DEF SeenReached, Q!Elements
    <3>7. CursorFollowed'
      BY <1>0, <2>1 DEF CursorInv, CursorTyped, CursorFollowed, PassedIsAccounted, Accounted,
                        Kept, Q!Current, Q!Elements
    <3> QED
      BY <3>4, <3>6, <3>7 DEF CursorInv
  <2>3. CASE Q!MarkProcessed
    <3>1. UNCHANGED seen /\ consumer.at = "mark" /\ consumer'.event = consumer.event
      BY <1>0, <2>3, PollRecord DEF Q!MarkProcessed
    <3>2. \A e \in Events : e = consumer'.event => Reached(e, Forced)
      BY <1>0, <3>1 DEF HandledDealt, Dealt
    <3> QED
      BY <1>0, <2>1, <3>1, <3>2, SameCursor
  <2>4. CASE Q!TimerFires
    <3>1. UNCHANGED seen /\ consumer'.at # "note"
      BY <2>4 DEF Q!TimerFires, Q!ProcessQueue, Q!Idle
    <3> QED
      BY <1>0, <2>1, <3>1, SameCursor
  <2> QED
    BY <2>1, <2>2, <2>3, <2>4 DEF Q!ConsumerStep
<1>4. CASE RunSteps \/ PeopleAct \/ CursorRejected \/ UNCHANGED serviceVars
  <2>1. UNCHANGED <<seen, poll, consumer, endCursor>> /\ (UNCHANGED cursor \/ cursor' = {})
    BY <1>4 DEF RunSteps, PeopleAct, CursorRejected, serviceVars, queueVars, cursorVars
  <2>2. CASE UNCHANGED cursor
    BY <1>0, <1>n, <2>1, <2>2, SameCursor
  <2>3. CASE cursor' = {}
    <3>1. CursorTyped'
      BY <1>0, <2>1, <2>3 DEF CursorTyped
    <3>2. SeenReached'
      <4>1. \A e \in Q!Elements(seen) : e \in Events /\ Reached(e, Forced)
        BY <1>0 DEF CursorInv, SeenReached, CursorTyped, Q!Elements
      <4> QED
        BY <1>0, <1>n, <2>1, <4>1 DEF SeenReached, Kept, Q!Elements
    <3>3. CursorFollowed'
      BY <1>0, <2>1, <2>3 DEF CursorInv, CursorTyped, CursorFollowed, PassedIsAccounted,
                              Accounted, Kept, Q!Current, Q!Elements
    <3> QED
      BY <3>1, <3>2, <3>3 DEF CursorInv
  <2> QED
    BY <2>1, <2>2, <2>3
<1>5. CASE RunReturns \/ RunThrows
  <2>1. /\ UNCHANGED <<seen, poll, cursor, endCursor>> /\ consumer'.at \in {"mark", "timer"}
    BY <1>0, <1>5, ReturnedHands, ThrownHands
       DEF RunReturns, RunThrows, Q!BroadcastReturned, Q!BroadcastThrows, cursorVars
  <2> QED
    BY <1>0, <2>1, SameCursor
<1>6. CASE ProcessDies
  <2>1. /\ seen' = <<>> /\ poll'.at = "idle" /\ consumer'.at = "idle"
        /\ cursor' \subseteq cursor /\ endCursor' = {}
    BY <1>6 DEF ProcessDies, Q!MemoryLost, Q!NoPoll, Q!Idle
  <2>2. PassedIsAccounted'
    BY <1>0, <2>1 DEF PassedIsAccounted, CursorTyped, Kept, Accounted
  <2> QED
    BY <1>0, <2>1, <2>2, EmptySeq, NoElements DEF CursorInv, CursorTyped, SeenReached, CursorFollowed
<1> QED
  BY <1>1, <1>2, <1>3, <1>4, <1>5, <1>6 DEF ServiceNext

\* The cursor passes no event unnoticed: each event behind it has reached the
\* notifications group, is still marked as held by this process, or was let go
\* of (left by a full queue or a throwing transformation, given up by a
\* broadcast that threw, or lost with a process), however polls, broadcasts,
\* failures and deaths of the process interleave.
THEOREM PassedAreAccounted == ServiceSpec => []PassedIsAccounted
<1>1. CursorInv => PassedIsAccounted
  BY DEF CursorInv, CursorFollowed
<1> QED
  BY ServiceAlways, InitCursor, NextCursor, <1>1, PTL DEF ServiceSpec

-----------------------------------------------------------------------------
(* The service takes no step its parts do not take alone                   *)

\* Seen by itself, the broadcast in the service behaves as module Broadcast says:
\* nothing the queue or a dying process does to it is left out there.
THEOREM ServiceRunsBroadcast == ServiceSpec => Init /\ [][Next]_runVars
<1>1. ServiceInit => Init
  BY DEF ServiceInit
<1>2. ServiceInv /\ [ServiceNext]_serviceVars => [Next]_runVars
  <2> SUFFICES ASSUME ServiceInv, [ServiceNext]_serviceVars PROVE [Next]_runVars
    OBVIOUS
  <2>1. TypeOK /\ LinkInv
    BY DEF ServiceInv, DriverInv, DealtInv, TruthInv, CountInv
  <2>2. [Next]_vars \/ Elsewhere
    BY <2>1, ServiceSimulates
  <2>3. UNCHANGED vars => UNCHANGED runVars
    BY DEF vars, runVars
  <2> QED
    BY <2>2, <2>3 DEF Elsewhere
<1> QED
  BY ServiceAlways, <1>1, <1>2, PTL DEF ServiceSpec

\* And so does the queue, whose consumer there sees a broadcast return also when
\* the write of the recovery row at its end has failed.
THEOREM ServiceRunsQueue ==
  ServiceSpec => Q!Init /\ [][Q!Next \/ Q!BroadcastReturned]_queueVars
<1>1. ServiceInit => Q!Init
  BY DEF ServiceInit
<1>2. [ServiceNext]_serviceVars => [Q!Next \/ Q!BroadcastReturned]_queueVars
  <2> SUFFICES ASSUME [ServiceNext]_serviceVars
               PROVE  [Q!Next \/ Q!BroadcastReturned]_queueVars
    OBVIOUS
  <2>1. CASE \E page \in Batches : Fetch(page)
    BY <2>1 DEF Fetch, Q!Next
  <2>2. CASE PollStep \/ ConsumerStep
    BY <2>2 DEF PollStep, ConsumerStep, Q!Next
  <2>3. CASE RunReturns \/ RunThrows
    BY <2>3 DEF RunReturns, RunThrows, Q!Next
  <2>4. CASE RunSteps \/ PeopleAct \/ CursorRejected \/ UNCHANGED serviceVars
    BY <2>4 DEF RunSteps, PeopleAct, CursorRejected, serviceVars
  <2>5. CASE ProcessDies
    BY <2>5 DEF ProcessDies, Q!Next, Q!Crash, Q!Fault, Fault
  <2> QED
    BY <2>1, <2>2, <2>3, <2>4, <2>5 DEF ServiceNext
<1> QED
  BY <1>1, <1>2, PTL DEF ServiceSpec

-----------------------------------------------------------------------------
(* The service implements the contract                                     *)

Promise == [Contract!Next]_(Contract!vars)

LEMMA InitPromise == ServiceInit => Contract!Init
<1> SUFFICES ASSUME ServiceInit PROVE Contract!Init
  OBVIOUS
<1>1. refused = {}
  BY DEF ServiceInit, Init, refused
<1> QED
  BY <1>1 DEF ServiceInit, Init, Q!Init, Contract!Init

\* The abstract state is untouched: no copy, no fault that hides one, no
\* refusal and no event marked.
LEMMA SamePromise ==
  ASSUME UNCHANGED <<copies, excuse, processed>>,
         \A e \in Events, c \in Chats : <<"refused", e, c>> \in past' <=> <<"refused", e, c>> \in past
  PROVE  Promise
<1>1. refused' = refused
  BY DEF refused
<1> QED
  BY <1>1 DEF Promise, Contract!vars

\* One more for each chat of S, as Contract!Forget writes it.
Plus(h, S) == [c \in Chats |-> h[c] + IF c \in S THEN 1 ELSE 0]

\* What a chat has answered, in the contract's words.
LEMMA SameWord ==
  ASSUME NEW e \in Events, NEW c \in Chats
  PROVE  Contract!Answers(e, c) = Answers(e, c)
  BY DEF Contract!Answers, Answers, refused

\* A step of the broadcast that forgets some of the answers that were given.
LEMMA ForgetPromise ==
  ASSUME UNCHANGED <<copies, past, processed>>, excuse \in [Events -> [Chats -> Nat]],
         NEW e \in Events, NEW S \in SUBSET Chats, \A c \in S : Answers(e, c) > 0,
         excuse' = [excuse EXCEPT ![e] = Plus(excuse[e], S)]
  PROVE  Promise
<1>1. S \in SUBSET {c \in Chats : Contract!Answers(e, c) > 0}
  BY SameWord
<1>2. refused' = refused
  BY DEF refused
<1>3. Contract!Forget(e)
  BY <1>1, <1>2 DEF Contract!Forget, Plus
<1> QED
  BY <1>3 DEF Promise, Contract!Next

LEMMA AddedAt ==
  ASSUME NEW h \in [Chats -> Nat], NEW d \in Chats
  PROVE  [h EXCEPT ![d] = @ + 1] = Plus(h, {d})
<1>1. ASSUME NEW c \in Chats PROVE [h EXCEPT ![d] = @ + 1][c] = Plus(h, {d})[c]
  <2>1. h[c] \in Nat
    OBVIOUS
  <2> QED
    BY <2>1 DEF Plus
<1> QED
  BY <1>1 DEF Plus

\* One more excuse for the chat in hand.
LEMMA OneMoreForgotten ==
  ASSUME NEW f \in [Events -> [Chats -> Nat]], Event \in Events, Chat \in Chats
  PROVE  OneMore(f) = [f EXCEPT ![Event] = Plus(f[Event], {Chat})]
<1>1. f[Event] \in [Chats -> Nat]
  OBVIOUS
<1>2. [f[Event] EXCEPT ![Chat] = @ + 1] = Plus(f[Event], {Chat})
  BY <1>1, AddedAt
<1>3. OneMore(f) = [f EXCEPT ![Event] = [f[Event] EXCEPT ![Chat] = @ + 1]]
  BY DEF OneMore
<1> QED
  BY <1>2, <1>3

\* The chat in hand may answer: nobody knows of an answer it has given.
LEMMA AttemptAllowed ==
  ASSUME CountInv, run.at = "attempt"
  PROVE  Event \in Events /\ Chat \in Chats /\ Contract!MayAnswer(Event, Chat)
<1>1. Event \in Events /\ Chat \in Chats
  BY DEF CountInv, TypeOK, Runs, Event, Chat
<1>2. ~IsSettled(Chat)
  BY DEF CountInv, ChatUndecided, Chat
<1>3. Answers(Event, Chat) <= excuse[Event][Chat]
  BY <1>1, <1>2 DEF CountInv, StatusesHonest, Event
<1> QED
  BY <1>1, <1>3, SameWord DEF Contract!MayAnswer

LEMMA AcceptedPromise == ASSUME CountInv, Accepted, UNCHANGED processed PROVE Promise
<1>1. Event \in Events /\ Chat \in Chats /\ Contract!MayAnswer(Event, Chat)
  BY AttemptAllowed DEF Accepted
<1>2. refused' = refused
  BY DEF Accepted, refused
<1>3. Contract!Receive(Event, Chat)
  BY <1>1, <1>2 DEF Accepted, Contract!Receive, OneMore
<1> QED
  BY <1>1, <1>3 DEF Promise, Contract!Next

LEMMA FailedCallPromise ==
  ASSUME CountInv, NEW arrived \in BOOLEAN, FailedCall(arrived), UNCHANGED processed
  PROVE  Promise
<1>1. CASE arrived
  <2>1. Event \in Events /\ Chat \in Chats /\ Contract!MayAnswer(Event, Chat)
    BY AttemptAllowed DEF FailedCall
  <2>2. refused' = refused
    BY DEF FailedCall, refused
  <2>3. Contract!ReceiveUnnoticed(Event, Chat)
    BY <1>1, <2>1, <2>2 DEF FailedCall, Contract!ReceiveUnnoticed, OneMore
  <2> QED
    BY <2>1, <2>3 DEF Promise, Contract!Next
<1>2. CASE ~arrived
  BY <1>2, SamePromise DEF FailedCall
<1> QED
  BY <1>1, <1>2

LEMMA RefusedPromise ==
  ASSUME CountInv, NEW gone \in BOOLEAN, Refused(gone), UNCHANGED processed
  PROVE  Promise
<1>1. Event \in Events /\ Chat \in Chats /\ Contract!MayAnswer(Event, Chat)
  BY AttemptAllowed DEF Refused
<1>2. past' = past \cup {<<"refused", Event, Chat>>} /\ UNCHANGED <<copies, excuse>>
  BY DEF Refused
<1>3. refused' = refused \cup {<<Event, Chat>>}
  <2>1. ASSUME NEW x \in Events \X Chats
        PROVE  <<"refused", x[1], x[2]>> \in past'
                 <=> <<"refused", x[1], x[2]>> \in past \/ x = <<Event, Chat>>
    BY <1>2
  <2> QED
    BY <1>1, <2>1 DEF refused
<1>4. Contract!Refuse(Event, Chat)
  BY <1>1, <1>2, <1>3 DEF Contract!Refuse
<1> QED
  BY <1>1, <1>4 DEF Promise, Contract!Next

\* The ledger cannot be read: the answers it lists are forgotten.
LEMMA LoadFailsPromise ==
  ASSUME TypeOK, LedgerTruthful, LoadLedgerFails, UNCHANGED processed
  PROVE  Promise
<1> DEFINE S == {c \in Chats : ledger[Event][c] \in Settled}
<1>1. Event \in Events
  BY DEF LoadLedgerFails, TypeOK, Runs, Event
<1>2. ASSUME NEW c \in S PROVE Answers(Event, c) > 0
  <2>1. copies[Event][c] \in Nat
    BY <1>1 DEF TypeOK
  <2>2. copies[Event][c] > 0 \/ <<"refused", Event, c>> \in past
    BY <1>1 DEF LedgerTruthful, Settled
  <2> QED
    BY <2>1, <2>2 DEF Answers
<1>3. [c \in Chats |-> excuse[Event][c] + IF ledger[Event][c] \in Settled THEN 1 ELSE 0]
        = Plus(excuse[Event], S)
  BY DEF Plus
<1>4. excuse' = [excuse EXCEPT ![Event] = Plus(excuse[Event], S)]
  BY <1>3 DEF LoadLedgerFails
<1>5. UNCHANGED <<copies, past>> /\ S \in SUBSET Chats
  BY DEF LoadLedgerFails
<1> HIDE DEF S
<1>6. ASSUME NEW e, e = Event PROVE Promise
  BY <1>1, <1>2, <1>4, <1>5, <1>6, ForgetPromise DEF TypeOK
<1> QED
  BY <1>6

\* An answer that is never written down is forgotten.
LEMMA HandForgotten ==
  ASSUME CountInv, StatusesTruthful, run.at = "write",
         excuse' = OneMore(excuse), UNCHANGED <<copies, past, processed>>
  PROVE  Promise
<1>1. Event \in Events /\ Chat \in Chats
  BY DEF CountInv, TypeOK, Runs, Event, Chat
<1>2. Answers(Event, Chat) > 0
  <2>1. copies[Event][Chat] \in Nat
    BY <1>1 DEF CountInv, TypeOK
  <2>2. run.statuses[Chat] \in Settled
    BY DEF CountInv, ChatUndecided, IsSettled, Chat
  <2>3. copies[Event][Chat] > 0 \/ <<"refused", Event, Chat>> \in past
    BY <1>1, <2>2 DEF StatusesTruthful, Settled, Event
  <2> QED
    BY <2>1, <2>3 DEF Answers
<1>3. ASSUME NEW e, e = Event, NEW S, S = {Chat} PROVE Promise
  <2>1. excuse \in [Events -> [Chats -> Nat]]
    BY DEF CountInv, TypeOK
  <2>2. OneMore(excuse) = [excuse EXCEPT ![Event] = Plus(excuse[Event], {Chat})]
    BY <1>1, <2>1, OneMoreForgotten
  <2>3. e \in Events /\ S \in SUBSET Chats /\ \A c \in S : Answers(e, c) > 0
    BY <1>1, <1>2, <1>3
  <2> QED
    BY <1>3, <2>1, <2>2, <2>3, ForgetPromise
<1> QED
  BY <1>3

\* Every step of the broadcast is a step of the contract, or changes nothing the
\* contract speaks of.
LEMMA NextPromise == ASSUME TruthInv, [Next]_vars, UNCHANGED processed PROVE Promise
<1>0. TypeOK /\ CountInv /\ LedgerTruthful /\ StatusesTruthful
  BY DEF TruthInv, CountInv
<1>1. ASSUME NEW e \in Events, Start(e) PROVE Promise
  BY <1>1, SamePromise DEF Start, history
<1>2. CASE LoadLedger \/ ListSubscribers \/ EndNotifications \/ NoForward \/ ReadSwitch
             \/ SwitchUnknown \/ Finish \/ Throw \/ Return
  BY <1>2, SamePromise
     DEF LoadLedger, ListSubscribers, EndNotifications, NoForward, ReadSwitch, SwitchUnknown,
         Finish, Throw, Return, history
<1>3. CASE LoadLedgerFails
  BY <1>0, <1>3, LoadFailsPromise
<1>4. CASE RouteEvent \/ KeepEvent
  <2>1. /\ UNCHANGED <<copies, excuse>>
        /\ past' \in {past, past \cup {<<"unrouted", Event>>}, past \cup {<<"unrecorded", Event>>}}
    BY <1>4 DEF RouteEvent, KeepEvent
  <2> QED
    BY <2>1, SamePromise
<1>5. ASSUME NEW c \in Chats, SkipSettled(c) \/ BeginNotification(c) PROVE Promise
  BY <1>5, SamePromise DEF SkipSettled, BeginNotification, history
<1>6. CASE Accepted
  BY <1>0, <1>6, AcceptedPromise
<1>7. ASSUME NEW arrived \in BOOLEAN, VideoFails(arrived) \/ TextFails(arrived) PROVE Promise
  BY <1>0, <1>7, FailedCallPromise DEF VideoFails, TextFails
<1>8. ASSUME NEW gone \in BOOLEAN, Refused(gone) PROVE Promise
  BY <1>0, <1>8, RefusedPromise
<1>9. CASE WriteOutcome \/ Crash
  <2>1. CASE UNCHANGED excuse
    BY <1>9, <2>1, SamePromise DEF WriteOutcome, Crash, RunLost
  <2>2. CASE excuse' # excuse
    BY <1>0, <1>9, <2>2, HandForgotten DEF WriteOutcome, Crash, RunLost
  <2> QED
    BY <2>1, <2>2
<1>10. ASSUME NEW c \in Members, Subscribe(c) \/ Unsubscribe(c) PROVE Promise
  BY <1>10, SamePromise DEF Subscribe, Unsubscribe, history
<1>11. ASSUME NEW c \in Panel, FlipSwitch(c) PROVE Promise
  <2>1. UNCHANGED <<copies, excuse>> /\ past' = past \cup ({"on", "off"} \X {c})
    BY <1>11 DEF FlipSwitch
  <2> QED
    BY <2>1, SamePromise
<1>12. CASE UNCHANGED vars
  BY <1>12, SamePromise DEF vars, history
<1> QED
  BY <1>1, <1>2, <1>3, <1>4, <1>5, <1>6, <1>7, <1>8, <1>9, <1>10, <1>11, <1>12
     DEF Next, RunStep, People

\* The row of an event that has been dealt with is written.
LEMMA HandledPromise ==
  ASSUME UNCHANGED runVars, NEW e \in Events, Dealt(e), processed' = processed \cup {e}
  PROVE  Promise
<1>1. UNCHANGED <<copies, excuse, past>>
  BY DEF runVars, history
<1>2. refused' = refused
  BY <1>1 DEF refused
<1>3. copies[e][Forced] > 0 \/ <<e, Forced>> \in refused
  BY BroadcastAssumption DEF Dealt, Reached, refused
<1>4. Contract!Handle(e)
  BY <1>1, <1>2, <1>3 DEF Contract!Handle
<1> QED
  BY <1>4 DEF Promise, Contract!Next

LEMMA ServicePromise == ServiceInv /\ [ServiceNext]_serviceVars => Promise
<1> SUFFICES ASSUME ServiceInv, [ServiceNext]_serviceVars PROVE Promise
  OBVIOUS
<1>0. TruthInv /\ TypeOK /\ LinkInv /\ HandsTyped /\ HandledDealt
  BY DEF ServiceInv, LinkInv, DriverInv, DealtInv, TruthInv, CountInv
<1>1. CASE UNCHANGED processed
  <2>1. CASE [Next]_vars
    BY <1>0, <1>1, <2>1, NextPromise
  <2>2. CASE Elsewhere
    BY <1>1, <2>2, SamePromise DEF Elsewhere, runVars, history
  <2> QED
    BY <1>0, <2>1, <2>2, ServiceSimulates
<1>2. CASE processed' # processed
  <2>1. /\ consumer.at = "mark" /\ UNCHANGED runVars
        /\ processed' = processed \cup {consumer.event}
    BY <1>0, <1>2, ServiceMarks
  <2>2. consumer.event \in Events /\ Dealt(consumer.event)
    BY <1>0, <2>1 DEF HandsTyped, HandledDealt
  <2>3. ASSUME NEW e, e = consumer.event PROVE Promise
    BY <2>1, <2>2, <2>3, HandledPromise
  <2> QED
    BY <2>3
<1> QED
  BY <1>1, <1>2

\* The service implements the contract: a chat answers an alert once, with a copy
\* or a refusal, and once more for each fault that hid an earlier answer, so that a
\* chat which refused gets a copy only when its refusal was hidden; an event is
\* finished with only when the notifications group has it or has refused it;
\* nothing is taken back.
THEOREM ServiceImplementsContract == ServiceSpec => ContractSpec
<1>1. ServiceInv /\ [ServiceNext]_serviceVars => [Contract!Next]_(Contract!vars)
  BY ServicePromise DEF Promise
<1> QED
  BY InitPromise, ServiceAlways, <1>1, PTL DEF ServiceSpec, ContractSpec, Contract!Spec
=============================================================================
