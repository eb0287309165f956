------------------------------ MODULE Broadcast ------------------------------
(***************************************************************************)
(* One run of deliverEvent (src/broadcastDelivery.js) over the targets of  *)
(* an alert, with the per-target ledger that makes runs idempotent         *)
(* (src/deliveryTracker.js, src/db.js) and the recovery row a clean run    *)
(* leaves behind (src/index.js, enqueueVideoRecovery).                     *)
(*                                                                         *)
(* The awaits that matter are step boundaries: the ledger query, routing,  *)
(* each Telegram call, each ledger write, the switch query.  The process   *)
(* may die between any two steps; the database, the subscriber list and    *)
(* what the chats received survive.  The same event may be run again at    *)
(* any time, which covers every order in which the queue can do so.        *)
(*                                                                         *)
(* Abstracted: texts, captions and buffers (a message is one copy of the   *)
(* alert in a chat); the AI caption and the music overlay, whose errors    *)
(* fall back and which send nothing; the note appended to notifications    *)
(* when the driver bot is not a member, which only edits a text; the order *)
(* of the subscribers; the second await of a 403, which removes the        *)
(* subscriber right after its ledger write.                                *)
(***************************************************************************)
EXTENDS Faults, FiniteSets

CONSTANTS
  Events,       \* Samsara safety event ids
  Chats,        \* Telegram chats, as the ledger's target_chat_id
  Forced,       \* HARDCODED_GROUP_ID, the notifications group
  DriverOf,     \* DriverOf[e]: the driver group event e is routed to
  ClipSets,     \* the sets of clips an alert may carry, of "road" and "cabin"
  Members,      \* chats whose people use /start and /stop
  Panel,        \* driver groups whose switch is used in the Wenze panel
  NoEvent, NoChat

ASSUME BroadcastAssumption ==
  /\ Forced \in Chats
  /\ DriverOf \in [Events -> Chats \cup {NoChat}]
  /\ ClipSets \subseteq SUBSET {"road", "cabin"}
  /\ Members \subseteq Chats
  /\ Panel \subseteq Chats
  /\ NoEvent \notin Events
  /\ NoChat \notin Chats

VARIABLES
  ledger,       \* table samsara_event_deliveries: a status per event and chat
  recorded,     \* table driver_safety_events
  recovery,     \* table samsara_video_recovery_jobs: the targets of e's row, {} without one
  subscribers,  \* the subscriber list of store.js
  switchedOff,  \* driver groups switched off in Wenze
  run,          \* the run in progress
  copies,       \* history: how many copies of e chat c received
  excuse,       \* history: how many faults hid an answer of c to e: a copy or a refusal
  past          \* history: facts that were true at some time

durable == <<ledger, recorded, recovery, subscribers, switchedOff>>
history == <<copies, excuse, past>>
vars    == <<durable, run, history, faults>>

Statuses == {"none", "delivered", "permanent"}
Settled  == {"delivered", "permanent"}
Media    == {"dual", "single", "text"}

RunStates == {"idle", "load", "route", "keep", "list", "notify", "switch",
              "attempt", "write", "finish", "enqueue"}

NoStatuses == [c \in Chats |-> "none"]

\* at: where the run is.  clips: the clips its alert carries; an event that is
\* picked up again is enriched again, and may by then have more.  statuses: its
\* copy of the ledger.  group: the driver group it found.  todo: subscribers still to visit.  targets: every chat it
\* has decided to send to.  chat, medium: the message being attempted.  back:
\* the section it belongs to.  gone: the chat answered 403.  retry:
\* transientPending.  sent: sentMessages.
IdleRun ==
  [at |-> "idle", event |-> NoEvent, clips |-> {}, statuses |-> NoStatuses, group |-> NoChat,
   todo |-> {}, targets |-> {}, chat |-> NoChat, medium |-> "text",
   back |-> "notify", gone |-> FALSE, retry |-> FALSE, sent |-> {}]

Runs ==
  [at : RunStates, event : Events \cup {NoEvent}, clips : SUBSET {"road", "cabin"},
   statuses : [Chats -> Statuses],
   group : Chats \cup {NoChat}, todo : SUBSET Chats, targets : SUBSET Chats,
   chat : Chats \cup {NoChat}, medium : Media, back : {"notify", "forward"},
   gone : BOOLEAN, retry : BOOLEAN, sent : SUBSET Chats]

\* Chat c refused event e for good; e could not be recorded, or one of its
\* routing lookups failed; c subscribed, or its switch was on, or off.
Facts ==
  ({"refused"} \X Events \X Chats)
    \cup ({"unrecorded", "unrouted"} \X Events)
    \cup ({"joined", "on", "off"} \X Chats)

TypeOK ==
  /\ FaultsTypeOK
  /\ ledger \in [Events -> [Chats -> Statuses]]
  /\ recorded \in SUBSET Events
  /\ recovery \in [Events -> SUBSET Chats]
  /\ subscribers \in SUBSET Chats
  /\ switchedOff \in SUBSET Chats
  /\ run \in Runs
  /\ run.at = "idle" <=> run.event = NoEvent
  /\ run.at \in {"attempt", "write"} <=> run.chat # NoChat
  /\ copies \in [Events -> [Chats -> Nat]]
  /\ excuse \in [Events -> [Chats -> Nat]]
  /\ past \in SUBSET Facts

Init ==
  /\ FaultsInit
  /\ ledger = [e \in Events |-> NoStatuses]
  /\ recorded = {}
  /\ recovery = [e \in Events |-> {}]
  /\ subscribers = {}
  /\ switchedOff \in SUBSET Panel
  /\ run = IdleRun
  /\ copies = [e \in Events |-> [c \in Chats |-> 0]]
  /\ excuse = [e \in Events |-> [c \in Chats |-> 0]]
  /\ past = ({"off"} \X switchedOff) \cup ({"on"} \X (Chats \ switchedOff))

-----------------------------------------------------------------------------
(* Operators of the source                                                 *)

Event == run.event
Chat  == run.chat

\* INSERT ... ON CONFLICT DO UPDATE ... WHERE status <> 'delivered'
Upserted(old, new) == IF old = "delivered" THEN old ELSE new

\* The first thing tried for an alert.  A clip of the cabin camera alone is
\* not sent here: only videoUrl, the road camera's, opens a video branch.
FirstMedium(clips) ==
  CASE clips = {"road", "cabin"} -> "dual"
    [] clips = {"road"}          -> "single"
    [] OTHER                     -> "text"

\* What is tried when a video send fails.  The driver path goes straight to
\* text when the forward clip itself is too large for Telegram.
Fallbacks(medium, section) ==
  CASE medium = "dual" /\ section = "forward" -> {"single", "text"}
    [] medium = "dual" /\ section = "notify"  -> {"single"}
    [] OTHER                                  -> {"text"}

IsSettled(c) == run.statuses[c] \in Settled

OneMore(f) == [f EXCEPT ![Event][Chat] = @ + 1]

-----------------------------------------------------------------------------
(* The run                                                                 *)

Start(e) ==
  /\ run.at = "idle"
  /\ \E clips \in ClipSets : run' = [IdleRun EXCEPT !.at = "load", !.event = e, !.clips = clips]
  /\ UNCHANGED <<durable, history, faults>>

\* tracker.getTargetStatuses.
LoadLedger ==
  /\ run.at = "load"
  /\ run' = [run EXCEPT !.at = "route", !.statuses = ledger[Event]]
  /\ UNCHANGED <<durable, history, faults>>

LoadLedgerFailsUntyped ==
  /\ run.at = "load"
  /\ Fault("dbRead")
  /\ run' = [run EXCEPT !.at = "route", !.statuses = <<>>]
  /\ UNCHANGED <<durable, history>>

\* The query fails: getEventDeliveries swallows the error and returns no rows,
\* so every chat looks unsettled.
LoadLedgerFails ==
  /\ run.at = "load"
  /\ Fault("dbRead")
  /\ run' = [run EXCEPT !.at = "route"]
  /\ excuse' = [excuse EXCEPT ![Event] =
                  [c \in Chats |-> @[c] + IF ledger[Event][c] \in Settled THEN 1 ELSE 0]]
  /\ UNCHANGED <<durable, copies, past>>

\* determineTargetGroup.  When the lookup fails, findGroupByUnit answers null
\* and the vehicle counts as unmapped.
RouteEvent ==
  /\ run.at = "route"
  /\ \/ /\ run' = [run EXCEPT !.at = "keep", !.group = DriverOf[Event]]
        /\ UNCHANGED past
        /\ NoFault
     \/ /\ DriverOf[Event] # NoChat
        /\ run' = [run EXCEPT !.at = "keep"]
        /\ past' = past \cup {<<"unrouted", Event>>}
        /\ Fault("routing")
  /\ UNCHANGED <<durable, copies, excuse>>

\* recordSafetyEvent, before anything is sent; it never throws.
KeepEvent ==
  /\ run.at = "keep"
  /\ \/ recorded' = recorded \cup {Event} /\ UNCHANGED past /\ NoFault
     \/ recorded' = recorded /\ past' = past \cup {<<"unrecorded", Event>>} /\ Fault("dbWrite")
  /\ run' = [run EXCEPT !.at = "list"]
  /\ UNCHANGED <<ledger, recovery, subscribers, switchedOff, copies, excuse>>

\* store.getAll, plus the notifications group.
ListSubscribers ==
  /\ run.at = "list"
  /\ run' = [run EXCEPT !.at = "notify",
                        !.todo = subscribers \cup {Forced},
                        !.targets = subscribers \cup {Forced}]
  /\ UNCHANGED <<durable, history, faults>>

SkipSettled(c) ==
  /\ run.at = "notify" /\ c \in run.todo
  /\ IsSettled(c)
  /\ run' = [run EXCEPT !.todo = @ \ {c}]
  /\ UNCHANGED <<durable, history, faults>>

BeginAnyway(c) ==
  /\ run.at = "notify" /\ c \in run.todo
  /\ run' = [run EXCEPT !.at = "attempt", !.back = "notify", !.todo = @ \ {c},
                        !.chat = c, !.medium = FirstMedium(run.clips)]
  /\ UNCHANGED <<durable, history, faults>>

BeginNotification(c) ==
  /\ run.at = "notify" /\ c \in run.todo
  /\ ~IsSettled(c)
  /\ run' = [run EXCEPT !.at = "attempt", !.back = "notify", !.todo = @ \ {c},
                        !.chat = c, !.medium = FirstMedium(run.clips)]
  /\ UNCHANGED <<durable, history, faults>>

EndNotifications ==
  /\ run.at = "notify" /\ run.todo = {}
  /\ run' = [run EXCEPT !.at = "switch"]
  /\ UNCHANGED <<durable, history, faults>>

\* There is a driver group and it is not settled yet.
ToForward == run.group # NoChat /\ ~IsSettled(run.group)

NoForward ==
  /\ run.at = "switch"
  /\ ~ToForward
  /\ run' = [run EXCEPT !.at = "finish"]
  /\ UNCHANGED <<durable, history, faults>>

\* The attempt on the driver's own group.
Forwarding ==
  [run EXCEPT !.at = "attempt", !.back = "forward", !.targets = @ \cup {run.group},
              !.chat = run.group, !.medium = FirstMedium(run.clips)]

\* isDriverGroupAlertsEnabled answers: forward, or leave the group alone.
ReadSwitch ==
  /\ run.at = "switch"
  /\ ToForward
  /\ run' = IF run.group \in switchedOff THEN [run EXCEPT !.at = "finish"] ELSE Forwarding
  /\ UNCHANGED <<durable, history, faults>>

SwitchUnknownIsOn ==
  /\ run.at = "switch"
  /\ ToForward
  /\ Fault("dbRead")
  /\ run' = Forwarding
  /\ UNCHANGED <<durable, history>>

SwitchUnknownIsOff ==
  /\ run.at = "switch"
  /\ ToForward
  /\ Fault("dbRead")
  /\ run' = [run EXCEPT !.at = "finish"]
  /\ UNCHANGED <<durable, history>>

\* It does not: neither post nor drop, and the run will throw.
SwitchUnknown ==
  /\ run.at = "switch"
  /\ ToForward
  /\ Fault("dbRead")
  /\ run' = [run EXCEPT !.at = "finish", !.retry = TRUE]
  /\ UNCHANGED <<durable, history>>

\* The run after a chat has been dealt with.
Onward == [run EXCEPT !.at = IF run.back = "notify" THEN "notify" ELSE "finish",
                      !.chat = NoChat, !.medium = "text", !.back = "notify", !.gone = FALSE]

\* Telegram accepts the message; the run's own map is updated before the
\* ledger write is awaited.
Accepted ==
  /\ run.at = "attempt"
  /\ copies' = OneMore(copies)
  /\ run' = [run EXCEPT !.at = "write", !.statuses[Chat] = "delivered", !.sent = @ \cup {Chat}]
  /\ UNCHANGED <<durable, excuse, past, faults>>

\* The outcome of a failed call.  `arrived`: Telegram had accepted the message
\* and only the answer was lost.
FailedCall(arrived) ==
  /\ run.at = "attempt"
  /\ Fault(IF arrived THEN "lostAnswer" ELSE "telegram")
  /\ copies' = IF arrived THEN OneMore(copies) ELSE copies
  /\ excuse' = IF arrived THEN OneMore(excuse) ELSE excuse
  /\ UNCHANGED <<durable, past>>

\* A video send fails, whatever the error: the next medium is tried.
VideoFails(arrived) ==
  /\ FailedCall(arrived)
  /\ run.medium # "text"
  /\ \E next \in Fallbacks(run.medium, run.back) : run' = [run EXCEPT !.medium = next]

TextFailsSilently(arrived) ==
  /\ FailedCall(arrived)
  /\ run.medium = "text"
  /\ run' = Onward

TextFailsForGood(arrived) ==
  /\ FailedCall(arrived)
  /\ run.medium = "text"
  /\ run' = [run EXCEPT !.at = "write", !.statuses[Chat] = "permanent"]

\* The text fails with a transient error (429, 5xx, network, timeout).
TextFails(arrived) ==
  /\ FailedCall(arrived)
  /\ run.medium = "text"
  /\ run' = [Onward EXCEPT !.retry = TRUE]

\* The text fails for good: 403 (`gone`) or another permanent error.
Refused(gone) ==
  /\ run.at = "attempt" /\ run.medium = "text"
  /\ Fault("refusal")
  /\ past' = past \cup {<<"refused", Event, Chat>>}
  /\ run' = [run EXCEPT !.at = "write", !.statuses[Chat] = "permanent", !.gone = gone]
  /\ UNCHANGED <<durable, copies, excuse>>

\* recordSuccess or recordPermanentSkip, then store.remove for a subscriber
\* that answered 403.  A write error is swallowed.
WriteOutcome ==
  /\ run.at = "write"
  /\ \/ /\ NoFault
        /\ ledger' = [ledger EXCEPT ![Event][Chat] = Upserted(@, run.statuses[Chat])]
        /\ UNCHANGED excuse
     \/ /\ Fault("dbWrite")
        /\ excuse' = OneMore(excuse)
        /\ UNCHANGED ledger
  /\ subscribers' = IF run.gone /\ run.back = "notify" THEN subscribers \ {Chat}
                                                       ELSE subscribers
  /\ run' = Onward
  /\ UNCHANGED <<recorded, recovery, switchedOff, copies, past>>

\* A transient failure is pending: deliverEvent throws, and the queue will let
\* the event be picked up again.
Throw ==
  /\ run.at = "finish" /\ run.retry
  /\ run' = IdleRun
  /\ UNCHANGED <<durable, history, faults>>

\* A clean run returns the messages it sent itself.
Finish ==
  /\ run.at = "finish" /\ ~run.retry
  /\ run' = [run EXCEPT !.at = "enqueue"]
  /\ UNCHANGED <<durable, history, faults>>

\* broadcast: a recovery row when the alert came without a clip and this run
\* sent something; INSERT ... ON CONFLICT DO NOTHING.  A settings query or an
\* insert that fails leaves no row.
Return ==
  /\ run.at = "enqueue"
  /\ IF run.clips = {} /\ run.sent # {}
     THEN \/ /\ recovery' = [recovery EXCEPT ![Event] = IF @ = {} THEN run.sent ELSE @]
             /\ NoFault
          \/ UNCHANGED recovery /\ Fault("dbWrite")
     ELSE UNCHANGED recovery /\ NoFault
  /\ run' = IdleRun
  /\ UNCHANGED <<ledger, recorded, subscribers, switchedOff, history>>

-----------------------------------------------------------------------------
(* Around the run                                                          *)

\* /start and /stop.
Subscribe(c) ==
  /\ c \notin subscribers
  /\ subscribers' = subscribers \cup {c}
  /\ past' = past \cup {<<"joined", c>>}
  /\ UNCHANGED <<ledger, recorded, recovery, switchedOff, run, copies, excuse, faults>>

Unsubscribe(c) ==
  /\ c \in subscribers
  /\ subscribers' = subscribers \ {c}
  /\ UNCHANGED <<ledger, recorded, recovery, switchedOff, run, history, faults>>

\* The switch of a driver group is flipped in the Wenze panel.
FlipSwitch(c) ==
  /\ switchedOff' = IF c \in switchedOff THEN switchedOff \ {c} ELSE switchedOff \cup {c}
  /\ past' = past \cup ({"on", "off"} \X {c})
  /\ UNCHANGED <<ledger, recorded, recovery, subscribers, run, copies, excuse, faults>>

\* The process dies; an answer it had received and not yet written is lost.
RunLost ==
  /\ run' = IdleRun
  /\ excuse' = IF run.at = "write" THEN OneMore(excuse) ELSE excuse
  /\ UNCHANGED <<durable, copies, past>>

Crash ==
  /\ run.at # "idle"
  /\ Fault("crash")
  /\ RunLost

RunStep ==
  \/ LoadLedger \/ LoadLedgerFails
  \/ RouteEvent
  \/ KeepEvent
  \/ ListSubscribers
  \/ \E c \in Chats : SkipSettled(c) \/ BeginNotification(c)
  \/ EndNotifications
  \/ NoForward \/ ReadSwitch \/ SwitchUnknown
  \/ Accepted
  \/ \E arrived \in BOOLEAN : VideoFails(arrived) \/ TextFails(arrived)
  \/ \E gone \in BOOLEAN : Refused(gone)
  \/ WriteOutcome
  \/ Finish

People ==
  \/ \E c \in Members : Subscribe(c) \/ Unsubscribe(c)
  \/ \E c \in Panel : FlipSwitch(c)

Next ==
  \/ \E e \in Events : Start(e)
  \/ RunStep
  \/ Throw \/ Return
  \/ People
  \/ Crash

Spec == Init /\ [][Next]_vars

-----------------------------------------------------------------------------
(* Properties                                                              *)

\* What chat c has answered to event e: the copies it received, and a refusal.
Answers(e, c) == copies[e][c] + (IF <<"refused", e, c>> \in past THEN 1 ELSE 0)

\* A chat answers an alert once, by a copy or by a refusal for good, and once
\* more only for each fault that hid an answer from the ledger: one lost on the
\* wire, a ledger write or read that failed, a death between the answer and the
\* write.  Retries, restarts and re-runs alone never produce a second copy, nor
\* a copy in a chat that has refused.
DuplicatesExplained ==
  \A e \in Events, c \in Chats : Answers(e, c) <= 1 + excuse[e][c]

\* The ledger never claims what did not happen: a transient error is not
\* written as permanent, an unsent message not as delivered.
LedgerTruthful ==
  \A e \in Events, c \in Chats :
    /\ ledger[e][c] = "delivered" => copies[e][c] > 0
    /\ ledger[e][c] = "permanent" => <<"refused", e, c>> \in past

\* A row that says delivered says so for ever: a later run that could not read
\* it and was then refused does not overwrite it.
NeverDowngraded ==
  [][\A e \in Events, c \in Chats :
       ledger[e][c] = "delivered" => ledger'[e][c] = "delivered"]_ledger

Reached(e, c) == copies[e][c] > 0 \/ <<"refused", e, c>> \in past

\* A run that is about to return cleanly has dealt with every chat it had to
\* send to: each has a copy or has refused the event.  Only a clean run lets
\* the event be marked processed.
CleanRunReachedAll ==
  (run.at = "enqueue" \/ (run.at = "finish" /\ ~run.retry)) =>
    /\ Forced \in run.targets
    /\ \A c \in run.targets : Reached(Event, c)

\* Nobody gets an alert they were never entitled to: the notifications group,
\* whoever has subscribed, and the driver's own group if it was ever switched
\* on.  A switch that cannot be read is not taken for "on".
OnlyAudience ==
  \A e \in Events, c \in Chats :
    copies[e][c] > 0 =>
      \/ c = Forced
      \/ <<"joined", c>> \in past
      \/ c = DriverOf[e] /\ <<"on", c>> \in past
=============================================================================
