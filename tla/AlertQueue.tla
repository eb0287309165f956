----------------------------- MODULE AlertQueue -----------------------------
(***************************************************************************)
(* The safety poller's memory (src/poller.js): which events it has seen,   *)
(* which it has picked up, the rate-limited queue they wait in, and the    *)
(* single consumer that hands one alert at a time to the broadcast.        *)
(*                                                                         *)
(* The event loop interleaves three activities at their awaits: the poll   *)
(* (one at a time, guarded by isRunning), the consumer, and the database.  *)
(* Everything but `processed` is process memory and dies with the process. *)
(*                                                                         *)
(* Abstracted: which events the API returns (any batch of events that have *)
(* happened; the cursor and watermark that narrow it are not here), the    *)
(* text of an alert (its event id), what a broadcast does (it returns or   *)
(* throws; module Broadcast says what happens in between).                 *)
(***************************************************************************)
EXTENDS Faults, Sequences, FiniteSets

CONSTANTS
  Events,       \* Samsara safety event ids
  Batches,      \* the pages the API may answer a poll with
  MaxQueue,     \* MAX_ALERT_QUEUE
  MaxSeen,      \* MAX_SEEN_IDS
  NoEvent       \* no alert in the consumer's hands

ASSUME QueueAssumption ==
  /\ Batches \subseteq Seq(Events)
  /\ <<>> \notin Batches
  /\ MaxQueue \in Nat \ {0}
  /\ MaxSeen \in Nat \ {0}
  /\ NoEvent \notin Events

VARIABLES
  processed,          \* table samsara_processed_events (durable)
  seen,               \* SEEN_IDS, oldest first
  pending,            \* PENDING_DELIVERY_IDS
  queue,              \* ALERT_QUEUE
  isProcessingQueue,  \* the flag that keeps the consumer single
  consumer,           \* where processQueue is, and the alert it holds
  poll,               \* where executePoll is, and the rest of its page
  stranded,           \* history: ids left in pending with nothing left to deliver them
  misread             \* history: ids whose isEventProcessed query failed

durable  == <<processed>>
memory   == <<seen, pending, queue, isProcessingQueue, consumer, poll>>
history  == <<stranded, misread>>
vars     == <<durable, memory, history, faults>>

Elements(s) == {s[i] : i \in DOMAIN s}

Idle == [at |-> "idle", event |-> NoEvent]
NoPoll == [at |-> "idle", page |-> <<>>]

ConsumerStates == {"idle", "broadcast", "mark", "note", "timer"}
PollStates     == {"idle", "scan", "lookup", "transform"}

TypeOK ==
  /\ FaultsTypeOK
  /\ processed \in SUBSET Events
  /\ seen \in Seq(Events)
  /\ pending \in SUBSET Events
  /\ queue \in Seq(Events) /\ Len(queue) <= MaxQueue
  /\ isProcessingQueue \in BOOLEAN
  /\ consumer \in [at : ConsumerStates, event : Events \cup {NoEvent}]
  /\ consumer.event = NoEvent <=> consumer.at \in {"idle", "timer"}
  /\ poll \in [at : PollStates, page : Seq(Events)]
  /\ poll.at = "idle" => poll.page = <<>>
  /\ poll.at \in {"lookup", "transform"} => poll.page # <<>>
  /\ stranded \in SUBSET Events
  /\ misread \in SUBSET Events

Init ==
  /\ FaultsInit
  /\ processed = {}
  /\ seen = <<>>
  /\ pending = {}
  /\ queue = <<>>
  /\ isProcessingQueue = FALSE
  /\ consumer = Idle
  /\ poll = NoPoll
  /\ stranded = {}
  /\ misread = {}

-----------------------------------------------------------------------------
(* Operators of the source                                                 *)

\* SEEN_IDS.add: a JavaScript Set keeps the place of a value it already holds.
AddSeen(s, e) == IF e \in Elements(s) THEN s ELSE Append(s, e)

\* noteEventDelivered adds, then deletes the oldest id when the set is over
\* its limit: one deletion at most.
RememberDelivered(s, e) ==
  LET added == AddSeen(s, e)
  IN  IF Len(added) > MaxSeen THEN Tail(added) ELSE added

\* queueAlert: at the limit the oldest alert is shifted out before the push.
Pushed(q, e) == Append(IF Len(q) >= MaxQueue THEN Tail(q) ELSE q, e)
Dropped(q)   == IF Len(q) >= MaxQueue THEN {Head(q)} ELSE {}

\* The synchronous part of processQueue: stop when the queue is empty, else
\* shift the oldest alert and start its broadcast.
ProcessQueue(q) ==
  IF q = <<>>
  THEN /\ isProcessingQueue' = FALSE
       /\ consumer' = Idle
       /\ queue' = q
  ELSE /\ isProcessingQueue' = TRUE
       /\ consumer' = [at |-> "broadcast", event |-> Head(q)]
       /\ queue' = Tail(q)

-----------------------------------------------------------------------------
(* executePoll                                                             *)

Current == Head(poll.page)
NextEvent == poll' = [at |-> "scan", page |-> Tail(poll.page)]

\* A poll starts only when the previous one has ended (isRunning), and gets a
\* page.  The polls that end before the loop (switched off, no key, an HTTP
\* error, an empty page) change nothing here.
FetchPage(page) ==
  /\ poll.at = "idle"
  /\ poll' = [at |-> "scan", page |-> page]
  /\ UNCHANGED <<processed, seen, pending, queue, isProcessingQueue, consumer,
                 history, faults>>

\* The event is already delivered or already on its way: continue.
SkipKnown ==
  /\ poll.at = "scan" /\ poll.page # <<>>
  /\ Current \in Elements(seen) \cup pending
  /\ NextEvent
  /\ UNCHANGED <<processed, seen, pending, queue, isProcessingQueue, consumer,
                 history, faults>>

\* Neither: ask the database, and give up the event loop while it answers.
AskProcessed ==
  /\ poll.at = "scan" /\ poll.page # <<>>
  /\ Current \notin Elements(seen) \cup pending
  /\ poll' = [poll EXCEPT !.at = "lookup"]
  /\ UNCHANGED <<processed, seen, pending, queue, isProcessingQueue, consumer,
                 history, faults>>

PickUpUnmarked ==
  /\ poll' = [poll EXCEPT !.at = "transform"]
  /\ UNCHANGED <<processed, pending, seen, queue, isProcessingQueue, consumer, stranded>>

PickUp ==
  /\ pending' = pending \cup {Current}
  /\ poll' = [poll EXCEPT !.at = "transform"]
  /\ UNCHANGED <<processed, seen, queue, isProcessingQueue, consumer, stranded>>

\* The answer: an event of an earlier process is remembered, a new one is
\* picked up before its transformation is awaited.
ProcessedAnswered ==
  /\ poll.at = "lookup"
  /\ UNCHANGED misread
  /\ NoFault
  /\ \/ /\ Current \notin processed
        /\ PickUp
     \/ /\ Current \in processed
        /\ seen' = AddSeen(seen, Current)
        /\ NextEvent
        /\ UNCHANGED <<processed, pending, queue, isProcessingQueue, consumer, stranded>>

\* isEventProcessed swallows a query error and says false.
ProcessedUnanswered ==
  /\ poll.at = "lookup"
  /\ Fault("dbRead")
  /\ misread' = misread \cup {Current}
  /\ PickUp

\* The alert is formatted and queued; an idle consumer is started at once.
QueueAlert ==
  /\ poll.at = "transform"
  /\ stranded' = stranded \cup Dropped(queue)
  /\ IF isProcessingQueue
     THEN /\ queue' = Pushed(queue, Current)
          /\ UNCHANGED <<isProcessingQueue, consumer>>
     ELSE ProcessQueue(Pushed(queue, Current))
  /\ NextEvent
  /\ UNCHANGED <<processed, seen, pending, misread, faults>>

TransformThrowsHalfway ==
  /\ poll.at = "transform"
  /\ Fault("transform")
  /\ stranded' = stranded \cup {Current}
  /\ poll' = [poll EXCEPT !.at = "idle"]
  /\ UNCHANGED <<processed, seen, pending, queue, isProcessingQueue, consumer, misread>>

\* Enriching or formatting the event throws: the catch around the whole poll
\* abandons the page, and nobody takes the id out of pending.
TransformThrows ==
  /\ poll.at = "transform"
  /\ Fault("transform")
  /\ stranded' = stranded \cup {Current}
  /\ poll' = NoPoll
  /\ UNCHANGED <<processed, seen, pending, queue, isProcessingQueue, consumer, misread>>

EndPoll ==
  /\ poll.at = "scan" /\ poll.page = <<>>
  /\ poll' = [poll EXCEPT !.at = "idle"]
  /\ UNCHANGED <<processed, seen, pending, queue, isProcessingQueue, consumer,
                 history, faults>>

-----------------------------------------------------------------------------
(* processQueue                                                            *)

ReleasedEarly ==
  /\ consumer.at = "broadcast"
  /\ pending' = pending \ {consumer.event}
  /\ consumer' = [consumer EXCEPT !.at = "mark"]
  /\ UNCHANGED <<processed, seen, queue, isProcessingQueue, poll, history>>

BroadcastReturned ==
  /\ consumer.at = "broadcast"
  /\ consumer' = [consumer EXCEPT !.at = "mark"]
  /\ UNCHANGED <<processed, seen, pending, queue, isProcessingQueue, poll, history>>

BroadcastReturns == BroadcastReturned /\ NoFault

ThrownAndHeld ==
  /\ consumer.at = "broadcast"
  /\ consumer' = [at |-> "timer", event |-> NoEvent]
  /\ UNCHANGED <<processed, seen, pending, queue, isProcessingQueue, poll, history, faults>>

ThrownWithoutTimer ==
  /\ consumer.at = "broadcast"
  /\ pending' = pending \ {consumer.event}
  /\ consumer' = Idle
  /\ UNCHANGED <<processed, seen, queue, isProcessingQueue, poll, history, faults>>

\* noteEventDeliveryFailed, then the two-second timer.
BroadcastThrows ==
  /\ consumer.at = "broadcast"
  /\ pending' = pending \ {consumer.event}
  /\ consumer' = [at |-> "timer", event |-> NoEvent]
  /\ UNCHANGED <<processed, seen, queue, isProcessingQueue, poll, history, faults>>

\* markEventProcessed inserts the row; an error is swallowed.
MarkProcessed ==
  /\ consumer.at = "mark"
  /\ \/ processed' = processed \cup {consumer.event} /\ NoFault
     \/ processed' = processed /\ Fault("dbWrite")
  /\ consumer' = [consumer EXCEPT !.at = "note"]
  /\ UNCHANGED <<seen, pending, queue, isProcessingQueue, poll, history>>

\* The rest of noteEventDelivered, after the await.
NoteDelivered ==
  /\ consumer.at = "note"
  /\ seen' = RememberDelivered(seen, consumer.event)
  /\ pending' = pending \ {consumer.event}
  /\ consumer' = [at |-> "timer", event |-> NoEvent]
  /\ UNCHANGED <<processed, queue, isProcessingQueue, poll, history, faults>>

\* setTimeout(processQueue, 2000) fires.
TimerFires ==
  /\ consumer.at = "timer"
  /\ ProcessQueue(queue)
  /\ UNCHANGED <<processed, seen, pending, poll, history, faults>>

-----------------------------------------------------------------------------

\* The process dies and is started again: only the database survives.
MemoryLost ==
  /\ seen' = <<>>
  /\ pending' = {}
  /\ queue' = <<>>
  /\ isProcessingQueue' = FALSE
  /\ consumer' = Idle
  /\ poll' = NoPoll
  /\ stranded' = {}
  /\ UNCHANGED <<processed, misread>>

Crash == Fault("crash") /\ MemoryLost

PollStep ==
  \/ SkipKnown
  \/ AskProcessed
  \/ ProcessedAnswered
  \/ ProcessedUnanswered
  \/ QueueAlert
  \/ TransformThrows
  \/ EndPoll

\* What the consumer does besides the broadcast itself.
ConsumerStep ==
  \/ MarkProcessed
  \/ NoteDelivered
  \/ TimerFires

Next ==
  \/ \E page \in Batches : FetchPage(page)
  \/ PollStep
  \/ BroadcastReturns
  \/ BroadcastThrows
  \/ ConsumerStep
  \/ Crash

Spec == Init /\ [][Next]_vars

\* The event loop keeps running: an awaited query is answered, an awaited
\* broadcast ends, a timer fires.  Nothing obliges the API to return a page.
Fairness ==
  /\ WF_vars(PollStep)
  /\ WF_vars(BroadcastReturns \/ BroadcastThrows \/ ConsumerStep)

FairSpec == Spec /\ Fairness

-----------------------------------------------------------------------------
(* Properties                                                              *)

InConsumer    == {consumer.event} \ {NoEvent}
InTransform   == IF poll.at = "transform" THEN {Current} ELSE {}

\* PENDING_DELIVERY_IDS is exactly the events this process still holds an
\* alert for (queued, with the consumer, being transformed) plus the ones it
\* has stranded: no id is released early, and none is kept by a path other
\* than the overflow and the throwing transformation.
PendingAccounted ==
  pending = Elements(queue) \cup InConsumer \cup InTransform \cup stranded

\* An event is in at most one place: never queued twice, never queued while it
\* is being broadcast or transformed.  It is what keeps two broadcasts of one
\* event from overlapping across the awaits of the poll and the consumer.
OnePlace ==
  /\ \A i, j \in DOMAIN queue : queue[i] = queue[j] => i = j
  /\ Elements(queue) \cap InConsumer = {}
  /\ InTransform \cap (Elements(queue) \cup InConsumer) = {}
  /\ stranded \cap (Elements(queue) \cup InConsumer) = {}

\* An event recorded as processed is never broadcast again, unless the very
\* query that asks whether it was processed failed.
NoRedelivery ==
  LET waiting == Elements(queue) \cup InTransform
                   \cup (IF consumer.at = "broadcast" THEN InConsumer ELSE {})
  IN  waiting \cap processed \subseteq misread

\* Every alert that enters the queue leaves it, whatever the broadcasts of
\* the alerts before it do.
QueueDrains == \A e \in Events : e \in Elements(queue) ~> e \notin Elements(queue)
=============================================================================
