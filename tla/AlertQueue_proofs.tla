-------------------------- MODULE AlertQueue_proofs --------------------------
(***************************************************************************)
(* What the poller's memory guarantees for any events, pages, queue length *)
(* and number of faults: the pending marks are exactly the alerts the      *)
(* process holds, no event is held twice, and none that was processed is   *)
(* broadcast again by a process that could ask.                            *)
(***************************************************************************)
EXTENDS AlertQueue, SequenceTheorems, TLAPS

Distinct(s) == \A i, j \in DOMAIN s : s[i] = s[j] => i = j

LEMMA FaultType ==
  ASSUME FaultsTypeOK, NEW kind, Fault(kind) \/ NoFault
  PROVE  FaultsTypeOK'
  BY FaultsAssumption DEF FaultsTypeOK, Fault, NoFault

LEMMA HeadAndTail ==
  ASSUME NEW S, NEW s \in Seq(S), s # <<>>
  PROVE  /\ Head(s) \in S /\ Tail(s) \in Seq(S) /\ Len(Tail(s)) = Len(s) - 1
         /\ Elements(s) = {Head(s)} \cup Elements(Tail(s))
         /\ Distinct(s) => Distinct(Tail(s)) /\ Head(s) \notin Elements(Tail(s))
<1>1. /\ Head(s) \in S /\ Tail(s) \in Seq(S) /\ Len(Tail(s)) = Len(s) - 1
      /\ Head(s) = s[1] /\ Len(s) \in Nat \ {0}
      /\ \A i \in 1..Len(Tail(s)) : Tail(s)[i] = s[i + 1]
  BY HeadTailProperties, LenProperties, EmptySeq
<1>2. DOMAIN s = 1..Len(s) /\ DOMAIN Tail(s) = 1..(Len(s) - 1)
  BY <1>1, LenProperties
<1>3. Elements(s) = {Head(s)} \cup Elements(Tail(s))
  <2>1. ASSUME NEW i \in DOMAIN s
        PROVE  s[i] = Head(s) \/ s[i] \in Elements(Tail(s))
    <3>1. CASE i = 1
      BY <1>1, <3>1
    <3>2. CASE i # 1
      <4>1. i - 1 \in DOMAIN Tail(s) /\ Tail(s)[i - 1] = s[i]
        BY <1>1, <1>2, <3>2
      <4> QED
        BY <4>1 DEF Elements
    <3> QED
      BY <3>1, <3>2
  <2>2. ASSUME NEW i \in DOMAIN Tail(s)
        PROVE  Tail(s)[i] \in Elements(s)
    <3>1. i + 1 \in DOMAIN s /\ Tail(s)[i] = s[i + 1]
      BY <1>1, <1>2
    <3> QED
      BY <3>1 DEF Elements
  <2>3. Head(s) \in Elements(s)
    BY <1>1, <1>2 DEF Elements
  <2> QED
    BY <2>1, <2>2, <2>3 DEF Elements
<1>4. ASSUME Distinct(s)
      PROVE  Distinct(Tail(s)) /\ Head(s) \notin Elements(Tail(s))
  <2>1. ASSUME NEW i \in DOMAIN Tail(s), NEW j \in DOMAIN Tail(s), Tail(s)[i] = Tail(s)[j]
        PROVE  i = j
    <3>1. i + 1 \in DOMAIN s /\ j + 1 \in DOMAIN s /\ s[i + 1] = s[j + 1] /\ i \in Nat /\ j \in Nat
      BY <1>1, <1>2, <2>1
    <3>2. i + 1 = j + 1
      BY <1>4, <3>1 DEF Distinct
    <3> QED
      BY <3>1, <3>2
  <2>2. ASSUME NEW i \in DOMAIN Tail(s), Tail(s)[i] = Head(s)
        PROVE  FALSE
    <3>1. i + 1 \in DOMAIN s /\ 1 \in DOMAIN s /\ s[i + 1] = s[1] /\ i \in Nat \ {0}
      BY <1>1, <1>2, <2>2
    <3>2. i + 1 = 1
      BY <1>4, <3>1 DEF Distinct
    <3> QED
      BY <3>1, <3>2
  <2> QED
    BY <2>1, <2>2 DEF Distinct, Elements
<1> QED
  BY <1>1, <1>3, <1>4

LEMMA Appending ==
  ASSUME NEW S, NEW s \in Seq(S), NEW e \in S
  PROVE  /\ Append(s, e) \in Seq(S) /\ Len(Append(s, e)) = Len(s) + 1
         /\ Append(s, e) # <<>>
         /\ Elements(Append(s, e)) = Elements(s) \cup {e}
         /\ Distinct(s) /\ e \notin Elements(s) => Distinct(Append(s, e))
<1> DEFINE t == Append(s, e)
<1>1. /\ t \in Seq(S) /\ Len(t) = Len(s) + 1 /\ Len(s) \in Nat
      /\ \A i \in 1..Len(s) : t[i] = s[i]
      /\ t[Len(s) + 1] = e
  BY AppendProperties, LenProperties
<1>2. DOMAIN s = 1..Len(s) /\ DOMAIN t = 1..(Len(s) + 1)
  BY <1>1, LenProperties
<1>3. t # <<>>
  BY <1>1, EmptySeq
<1> HIDE DEF t
<1>4. Elements(t) = Elements(s) \cup {e}
  <2>1. ASSUME NEW i \in DOMAIN t
        PROVE  t[i] = e \/ t[i] \in Elements(s)
    <3>1. i = Len(s) + 1 \/ i \in 1..Len(s)
      BY <1>1, <1>2
    <3> QED
      BY <1>1, <1>2, <3>1 DEF Elements
  <2>2. ASSUME NEW i \in DOMAIN s
        PROVE  s[i] \in Elements(t)
    <3>1. i \in DOMAIN t /\ t[i] = s[i]
      BY <1>1, <1>2
    <3> QED
      BY <3>1 DEF Elements
  <2>3. e \in Elements(t)
    <3>1. Len(s) + 1 \in DOMAIN t
      BY <1>1, <1>2
    <3> QED
      BY <1>1, <3>1 DEF Elements
  <2> QED
    BY <2>1, <2>2, <2>3 DEF Elements
<1>5. ASSUME Distinct(s), e \notin Elements(s), NEW i \in DOMAIN t, NEW j \in DOMAIN t, t[i] = t[j]
      PROVE  i = j
  <2>1. \A k \in DOMAIN t : k = Len(s) + 1 \/ (k \in DOMAIN s /\ t[k] = s[k])
    BY <1>1, <1>2
  <2>2. \A k \in DOMAIN s : s[k] # e
    BY <1>5 DEF Elements
  <2>3. CASE i \in DOMAIN s /\ j \in DOMAIN s
    <3>1. t[i] = s[i] /\ t[j] = s[j]
      BY <1>1, <1>2, <2>3
    <3> QED
      BY <1>5, <2>3, <3>1 DEF Distinct
  <2>4. CASE ~(i \in DOMAIN s /\ j \in DOMAIN s)
    BY <1>1, <1>5, <2>1, <2>2, <2>4
  <2> QED
    BY <2>3, <2>4
<1> QED
  BY <1>1, <1>3, <1>4, <1>5 DEF Distinct, t

LEMMA Emptied == Elements(<<>>) = {} /\ Distinct(<<>>)
  BY DEF Elements, Distinct

\* queueAlert: what the queue holds afterwards, and what fell out of it.
LEMMA Pushing ==
  ASSUME NEW q \in Seq(Events), Len(q) <= MaxQueue, NEW e \in Events
  PROVE  /\ Pushed(q, e) \in Seq(Events) /\ Len(Pushed(q, e)) <= MaxQueue
         /\ Pushed(q, e) # <<>>
         /\ Elements(Pushed(q, e)) \cup Dropped(q) = Elements(q) \cup {e}
         /\ Dropped(q) \subseteq Events
         /\ Distinct(q) /\ e \notin Elements(q) =>
              Distinct(Pushed(q, e)) /\ Dropped(q) \cap Elements(Pushed(q, e)) = {}
<1>0. MaxQueue \in Nat \ {0} /\ Len(q) \in Nat
  BY QueueAssumption, LenProperties
<1>1. CASE Len(q) >= MaxQueue
  <2>1. q # <<>>
    BY <1>0, <1>1
  <2> DEFINE t == Tail(q)
  <2>2. Pushed(q, e) = Append(t, e) /\ Dropped(q) = {Head(q)}
    BY <1>1 DEF Pushed, Dropped
  <2>3. /\ t \in Seq(Events) /\ Len(t) = Len(q) - 1 /\ Head(q) \in Events
        /\ Elements(q) = {Head(q)} \cup Elements(t)
        /\ Distinct(q) => Distinct(t) /\ Head(q) \notin Elements(t)
    BY <2>1, HeadAndTail
  <2> HIDE DEF t
  <2>4. /\ Append(t, e) \in Seq(Events)
        /\ Len(Append(t, e)) = Len(t) + 1 /\ Append(t, e) # <<>>
        /\ Elements(Append(t, e)) = Elements(t) \cup {e}
        /\ Distinct(t) /\ e \notin Elements(t) => Distinct(Append(t, e))
    BY <2>3, Appending
  <2>5. Len(Append(t, e)) <= MaxQueue
    BY <1>0, <1>1, <2>3, <2>4
  <2> QED
    BY <2>2, <2>3, <2>4, <2>5
<1>2. CASE ~(Len(q) >= MaxQueue)
  <2>1. Pushed(q, e) = Append(q, e) /\ Dropped(q) = {}
    BY <1>2 DEF Pushed, Dropped
  <2> QED
    BY <1>0, <1>2, <2>1, Appending
<1> QED
  BY <1>1, <1>2

\* The synchronous part of processQueue moves the oldest alert to the consumer
\* and keeps the flag true to what the consumer does.
LEMMA Processing ==
  ASSUME NEW q \in Seq(Events), Len(q) <= MaxQueue, ProcessQueue(q)
  PROVE  /\ queue' \in Seq(Events) /\ Len(queue') <= MaxQueue
         /\ isProcessingQueue' \in BOOLEAN
         /\ consumer' \in [at : ConsumerStates, event : Events \cup {NoEvent}]
         /\ consumer'.event = NoEvent <=> consumer'.at \in {"idle", "timer"}
         /\ isProcessingQueue' <=> consumer'.at # "idle"
         /\ consumer'.at \in {"idle", "broadcast"}
         /\ Elements(q) = Elements(queue') \cup InConsumer'
         /\ Distinct(q) => Distinct(queue') /\ Elements(queue') \cap InConsumer' = {}
<1>1. CASE q = <<>>
  <2>1. isProcessingQueue' = FALSE /\ consumer' = Idle /\ queue' = q
    BY <1>1 DEF ProcessQueue
  <2>2. InConsumer' = {}
    BY <2>1 DEF InConsumer, Idle
  <2> QED
    BY <1>1, <2>1, <2>2 DEF Idle, ConsumerStates
<1>2. CASE q # <<>>
  <2>1. /\ isProcessingQueue' = TRUE /\ queue' = Tail(q)
        /\ consumer' = [at |-> "broadcast", event |-> Head(q)]
    BY <1>2 DEF ProcessQueue
  <2>2. /\ Tail(q) \in Seq(Events) /\ Len(Tail(q)) = Len(q) - 1 /\ Head(q) \in Events
        /\ Elements(q) = {Head(q)} \cup Elements(Tail(q))
        /\ Distinct(q) => Distinct(Tail(q)) /\ Head(q) \notin Elements(Tail(q))
    BY <1>2, HeadAndTail
  <2>3. Head(q) # NoEvent /\ MaxQueue \in Nat /\ Len(q) \in Nat
    BY <2>2, QueueAssumption, LenProperties
  <2>4. InConsumer' = {Head(q)}
    BY <2>1, <2>3 DEF InConsumer
  <2> QED
    BY <2>1, <2>2, <2>3, <2>4 DEF ConsumerStates
<1> QED
  BY <1>1, <1>2

-----------------------------------------------------------------------------
(* Types                                                                   *)

LEMMA InitType == Init => TypeOK
<1> SUFFICES ASSUME Init PROVE TypeOK
  OBVIOUS
<1>1. <<>> \in Seq(Events) /\ Len(<<>>) <= MaxQueue
  BY QueueAssumption, EmptySeq
<1>2. FaultsTypeOK
  BY FaultsAssumption DEF Init, FaultsInit, FaultsTypeOK
<1>3. consumer \in [at : ConsumerStates, event : Events \cup {NoEvent}]
  BY DEF Init, Idle, ConsumerStates
<1>4. poll \in [at : PollStates, page : Seq(Events)]
  BY <1>1 DEF Init, NoPoll, PollStates
<1> QED
  BY <1>1, <1>2, <1>3, <1>4 DEF Init, TypeOK, Idle, NoPoll

\* The event the poll is at, and its page without it.
LEMMA CurrentType ==
  ASSUME TypeOK, poll.page # <<>>
  PROVE  /\ Current \in Events /\ Tail(poll.page) \in Seq(Events)
         /\ [at |-> "scan", page |-> Tail(poll.page)] \in [at : PollStates, page : Seq(Events)]
  BY HeadAndTail DEF TypeOK, Current, PollStates

LEMMA PollType ==
  ASSUME TypeOK
  PROVE  /\ poll = [at |-> poll.at, page |-> poll.page]
         /\ poll.at \in PollStates /\ poll.page \in Seq(Events)
         /\ consumer = [at |-> consumer.at, event |-> consumer.event]
         /\ consumer.at \in ConsumerStates /\ consumer.event \in Events \cup {NoEvent}
  BY DEF TypeOK

PollTyped ==
  /\ poll \in [at : PollStates, page : Seq(Events)]
  /\ poll.at = "idle" => poll.page = <<>>
  /\ poll.at \in {"lookup", "transform"} => poll.page # <<>>

ConsumerTyped ==
  /\ queue \in Seq(Events) /\ Len(queue) <= MaxQueue
  /\ isProcessingQueue \in BOOLEAN
  /\ consumer \in [at : ConsumerStates, event : Events \cup {NoEvent}]
  /\ consumer.event = NoEvent <=> consumer.at \in {"idle", "timer"}

SetsTyped ==
  /\ processed \in SUBSET Events /\ seen \in Seq(Events) /\ pending \in SUBSET Events
  /\ stranded \in SUBSET Events /\ misread \in SUBSET Events

LEMMA TypeParts ==
  /\ TypeOK => FaultsTypeOK /\ PollTyped /\ ConsumerTyped /\ SetsTyped
  /\ FaultsTypeOK' /\ PollTyped' /\ ConsumerTyped' /\ SetsTyped' => TypeOK'
  BY DEF TypeOK, PollTyped, ConsumerTyped, SetsTyped

LEMMA Remembered ==
  ASSUME SetsTyped, NEW e \in Events
  PROVE  AddSeen(seen, e) \in Seq(Events) /\ RememberDelivered(seen, e) \in Seq(Events)
<1>1. AddSeen(seen, e) \in Seq(Events)
  BY Appending DEF AddSeen, SetsTyped
<1> DEFINE added == AddSeen(seen, e)
<1>2. CASE Len(added) > MaxSeen
  <2>1. added # <<>>
    BY <1>2, QueueAssumption
  <2> QED
    BY <1>1, <1>2, <2>1, HeadAndTail DEF RememberDelivered
<1>3. CASE ~(Len(added) > MaxSeen)
  BY <1>1, <1>3 DEF RememberDelivered
<1> QED
  BY <1>1, <1>2, <1>3

LEMMA PickUpType ==
  ASSUME TypeOK, poll.at = "lookup", PickUp
  PROVE  /\ PollTyped' /\ ConsumerTyped'
         /\ processed' = processed /\ seen' = seen /\ stranded' = stranded
         /\ pending' = pending \cup {Current} /\ pending' \in SUBSET Events
         /\ poll'.at = "transform" /\ poll'.page = poll.page
<1>1. poll.page # <<>>
  BY DEF TypeOK
<1>2. poll' = [at |-> "transform", page |-> poll.page]
  BY PollType DEF PickUp
<1> QED
  BY <1>1, <1>2, CurrentType, PollType DEF PickUp, TypeOK, PollTyped, ConsumerTyped, PollStates

LEMMA NextType == TypeOK /\ [Next]_vars => TypeOK'
<1> SUFFICES ASSUME TypeOK, [Next]_vars
             PROVE  TypeOK'
  OBVIOUS
<1> USE DEF history
<1>0. FaultsTypeOK /\ PollTyped /\ ConsumerTyped /\ SetsTyped
  BY TypeParts
<1>1. ASSUME NEW page \in Batches, FetchPage(page)
      PROVE  TypeOK'
  <2>1. page \in Seq(Events) /\ page # <<>>
    BY QueueAssumption
  <2> QED
    BY <1>0, <1>1, <2>1, TypeParts, FaultType
    DEF FetchPage, PollTyped, ConsumerTyped, SetsTyped, PollStates, FaultsTypeOK, NoFault
<1>2. CASE SkipKnown
  BY <1>0, <1>2, CurrentType, TypeParts
  DEF SkipKnown, NextEvent, PollTyped, ConsumerTyped, SetsTyped, FaultsTypeOK
<1>3. CASE AskProcessed
  <2>1. poll' = [at |-> "lookup", page |-> poll.page]
    BY <1>3, PollType DEF AskProcessed
  <2> QED
    BY <1>0, <1>3, <2>1, PollType, TypeParts
    DEF AskProcessed, PollTyped, ConsumerTyped, SetsTyped, FaultsTypeOK, PollStates
<1>4. CASE ProcessedAnswered
  <2>1. poll.at = "lookup" /\ poll.page # <<>> /\ FaultsTypeOK' /\ misread' = misread
    BY <1>0, <1>4 DEF ProcessedAnswered, PollTyped, NoFault, FaultsTypeOK
  <2>2. CASE PickUp
    BY <1>0, <2>1, <2>2, PickUpType, TypeParts DEF SetsTyped
  <2>3. CASE /\ seen' = AddSeen(seen, Current)
             /\ NextEvent
             /\ UNCHANGED <<processed, pending, queue, isProcessingQueue, consumer, stranded>>
    BY <1>0, <2>1, <2>3, CurrentType, Remembered, TypeParts
    DEF NextEvent, PollTyped, ConsumerTyped, SetsTyped
  <2> QED
    BY <1>4, <2>2, <2>3 DEF ProcessedAnswered
<1>5. CASE ProcessedUnanswered
  <2>1. poll.at = "lookup" /\ poll.page # <<>> /\ PickUp /\ misread' = misread \cup {Current}
    BY <1>0, <1>5 DEF ProcessedUnanswered, PollTyped
  <2>2. FaultsTypeOK'
    BY <1>0, <1>5, FaultType DEF ProcessedUnanswered
  <2> QED
    BY <1>0, <2>1, <2>2, CurrentType, PickUpType, TypeParts DEF SetsTyped
<1>6. CASE QueueAlert
  <2>1. poll.at = "transform" /\ poll.page # <<>>
    BY <1>0, <1>6 DEF QueueAlert, PollTyped
  <2>2. Current \in Events /\ poll' \in [at : PollStates, page : Seq(Events)] /\ poll'.at = "scan"
    BY <1>6, <2>1, CurrentType DEF QueueAlert, NextEvent
  <2>3. /\ Pushed(queue, Current) \in Seq(Events) /\ Len(Pushed(queue, Current)) <= MaxQueue
        /\ Dropped(queue) \subseteq Events
    BY <1>0, <2>2, Pushing DEF ConsumerTyped
  <2>4. ConsumerTyped'
    <3>1. CASE isProcessingQueue
      BY <1>0, <1>6, <2>3, <3>1 DEF QueueAlert, ConsumerTyped
    <3>2. CASE ~isProcessingQueue
      <4>1. ProcessQueue(Pushed(queue, Current))
        BY <1>6, <3>2 DEF QueueAlert
      <4> QED
        BY <2>3, <4>1, Processing DEF ConsumerTyped
    <3> QED
      BY <3>1, <3>2
  <2>5. PollTyped' /\ SetsTyped' /\ FaultsTypeOK'
    BY <1>0, <1>6, <2>2, <2>3 DEF QueueAlert, PollTyped, SetsTyped, FaultsTypeOK
  <2> QED
    BY <2>4, <2>5, TypeParts
<1>7. CASE TransformThrows
  <2>1. poll.page # <<>> /\ FaultsTypeOK'
    BY <1>0, <1>7, FaultType DEF TransformThrows, PollTyped
  <2> QED
    BY <1>0, <1>7, <2>1, CurrentType, EmptySeq, TypeParts
    DEF TransformThrows, NoPoll, PollTyped, ConsumerTyped, SetsTyped, PollStates
<1>8. CASE EndPoll
  <2>1. poll' = [at |-> "idle", page |-> <<>>]
    BY <1>8, PollType DEF EndPoll
  <2> QED
    BY <1>0, <1>8, <2>1, EmptySeq, TypeParts
    DEF EndPoll, PollTyped, ConsumerTyped, SetsTyped, FaultsTypeOK, PollStates
<1>9. CASE BroadcastReturns
  <2>1. consumer' = [at |-> "mark", event |-> consumer.event]
    BY <1>9, PollType DEF BroadcastReturns, BroadcastReturned
  <2> QED
    BY <1>0, <1>9, <2>1, PollType, TypeParts
    DEF BroadcastReturns, BroadcastReturned, NoFault, PollTyped, ConsumerTyped, SetsTyped,
        FaultsTypeOK, ConsumerStates
<1>10. CASE BroadcastThrows
  BY <1>0, <1>10, TypeParts
  DEF BroadcastThrows, PollTyped, ConsumerTyped, SetsTyped, FaultsTypeOK, ConsumerStates
<1>11. CASE MarkProcessed
  <2>1. consumer' = [at |-> "note", event |-> consumer.event] /\ consumer.event \in Events
    BY <1>0, <1>11, PollType DEF MarkProcessed, ConsumerTyped
  <2>2. FaultsTypeOK'
    BY <1>0, <1>11, FaultType DEF MarkProcessed
  <2> QED
    BY <1>0, <1>11, <2>1, <2>2, TypeParts
    DEF MarkProcessed, PollTyped, ConsumerTyped, SetsTyped, ConsumerStates
<1>12. CASE NoteDelivered
  <2>1. consumer.event \in Events
    BY <1>0, <1>12, PollType DEF NoteDelivered, ConsumerTyped
  <2> QED
    BY <1>0, <1>12, <2>1, Remembered, TypeParts
    DEF NoteDelivered, PollTyped, ConsumerTyped, SetsTyped, FaultsTypeOK, ConsumerStates
<1>13. CASE TimerFires
  <2>1. ConsumerTyped'
    BY <1>0, <1>13, Processing DEF TimerFires, ConsumerTyped
  <2> QED
    BY <1>0, <1>13, <2>1, TypeParts DEF TimerFires, PollTyped, SetsTyped, FaultsTypeOK
<1>14. CASE Crash
  <2>1. FaultsTypeOK'
    BY <1>0, <1>14, FaultType DEF Crash
  <2>2. Len(<<>>) <= MaxQueue
    BY QueueAssumption
  <2> QED
    BY <1>0, <1>14, <2>1, <2>2, EmptySeq, TypeParts
    DEF Crash, MemoryLost, Idle, NoPoll, PollTyped, ConsumerTyped, SetsTyped, ConsumerStates,
        PollStates
<1>15. CASE UNCHANGED vars
  BY <1>15
  DEF vars, durable, memory, TypeOK, FaultsTypeOK
<1> QED
  BY <1>1, <1>2, <1>3, <1>4, <1>5, <1>6, <1>7, <1>8, <1>9, <1>10, <1>11, <1>12, <1>13, <1>14, <1>15
  DEF Next, PollStep, ConsumerStep

\* Every variable of the poller's memory keeps its type, the queue its limit,
\* and the consumer holds an alert exactly while it broadcasts or records one.
THEOREM TypeCorrect == Spec => []TypeOK
  BY InitType, NextType, PTL DEF Spec

-----------------------------------------------------------------------------
(* Every alert is held once                                                *)

\* The flag tells whether the consumer is at work, and the id a poll asks the
\* database about stays out of pending while it waits: the consumer only takes
\* ids out; what is being transformed is not among what was given up.  Without
\* the first, an alert could be queued over the consumer's head; without the
\* second, picked up twice.
ConsumerFlagged == isProcessingQueue <=> consumer.at # "idle"
LookupFree == poll.at = "lookup" => Current \notin pending

NotGivenUp == InTransform \cap stranded = {}

HeldInv == ConsumerFlagged /\ LookupFree /\ NotGivenUp /\ PendingAccounted /\ OnePlace

LEMMA InitHeld == Init => HeldInv
<1> SUFFICES ASSUME Init PROVE HeldInv
  OBVIOUS
<1>1. Elements(queue) = {} /\ Distinct(queue)
  BY Emptied DEF Init
<1>2. InConsumer = {} /\ InTransform = {}
  BY DEF Init, Idle, NoPoll, InConsumer, InTransform
<1> QED
  BY <1>1, <1>2
  DEF Init, HeldInv, ConsumerFlagged, LookupFree, NotGivenUp, PendingAccounted, OnePlace, Distinct,
      Idle, NoPoll

\* Where an alert is looked for after a step that leaves the queue alone.
LEMMA SameQueue ==
  ASSUME HeldInv, UNCHANGED queue,
         ConsumerFlagged', LookupFree',
         pending' = Elements(queue) \cup InConsumer' \cup InTransform' \cup stranded',
         Elements(queue) \cap InConsumer' = {},
         InTransform' \cap (Elements(queue) \cup InConsumer' \cup stranded') = {},
         stranded' \cap (Elements(queue) \cup InConsumer') = {}
  PROVE  HeldInv'
<1>1. Elements(queue') = Elements(queue)
  OBVIOUS
<1>2. \A i, j \in DOMAIN queue' : queue'[i] = queue'[j] => i = j
  BY DEF HeldInv, OnePlace
<1>3. PendingAccounted'
  BY <1>1 DEF PendingAccounted
<1>4. OnePlace' /\ NotGivenUp'
  BY <1>1, <1>2 DEF OnePlace, NotGivenUp
<1> QED
  BY <1>3, <1>4 DEF HeldInv

\* The poll moves without picking anything up.
LEMMA QuietPoll ==
  ASSUME HeldInv, poll'.at # "transform", poll.at # "transform", LookupFree',
         UNCHANGED <<pending, queue, isProcessingQueue, consumer, stranded>>
  PROVE  HeldInv'
<1>1. InConsumer' = InConsumer /\ InTransform' = {} /\ InTransform = {}
  BY DEF InConsumer, InTransform
<1>2. ConsumerFlagged'
  BY DEF HeldInv, ConsumerFlagged
<1> QED
  BY <1>1, <1>2, SameQueue DEF HeldInv, NotGivenUp, PendingAccounted, OnePlace

LEMMA PickUpHeld ==
  ASSUME TypeOK, HeldInv, poll.at = "lookup", PickUp
  PROVE  HeldInv'
<1>1. poll.page # <<>>
  BY DEF TypeOK
<1>2. /\ poll'.at = "transform" /\ poll'.page = poll.page
      /\ pending' = pending \cup {Current} /\ stranded' = stranded
  BY PickUpType
<1>3. InTransform' = {Current} /\ InTransform = {} /\ InConsumer' = InConsumer
  BY <1>2 DEF InTransform, InConsumer, Current, PickUp
<1>4. ConsumerFlagged' /\ LookupFree'
  BY <1>2 DEF HeldInv, ConsumerFlagged, LookupFree, PickUp
<1>5. Current \notin Elements(queue) \cup InConsumer \cup stranded
  BY DEF HeldInv, LookupFree, PendingAccounted
<1>6. UNCHANGED queue
  BY DEF PickUp
<1>7. /\ pending' = Elements(queue) \cup InConsumer' \cup InTransform' \cup stranded'
      /\ Elements(queue) \cap InConsumer' = {}
      /\ InTransform' \cap (Elements(queue) \cup InConsumer' \cup stranded') = {}
      /\ stranded' \cap (Elements(queue) \cup InConsumer') = {}
  BY <1>2, <1>3, <1>5 DEF HeldInv, NotGivenUp, PendingAccounted, OnePlace
<1> QED
  BY <1>4, <1>6, <1>7, SameQueue

LEMMA QueueAlertHeld ==
  ASSUME TypeOK, HeldInv, QueueAlert
  PROVE  HeldInv'
<1> DEFINE q == Pushed(queue, Current)
<1>1. poll.at = "transform" /\ poll.page # <<>> /\ InTransform = {Current} /\ Current \in Events
  BY CurrentType DEF TypeOK, QueueAlert, InTransform
<1>2. Distinct(queue) /\ Current \notin Elements(queue) /\ Current \notin InConsumer
  BY <1>1 DEF HeldInv, OnePlace, Distinct
<1>3. /\ q \in Seq(Events) /\ Len(q) <= MaxQueue
      /\ Elements(q) \cup Dropped(queue) = Elements(queue) \cup {Current}
      /\ Distinct(q) /\ Dropped(queue) \cap Elements(q) = {}
  BY <1>1, <1>2, Pushing DEF TypeOK
<1>4. /\ stranded' = stranded \cup Dropped(queue) /\ pending' = pending
      /\ poll'.at = "scan" /\ InTransform' = {} /\ NotGivenUp'
  BY DEF QueueAlert, NextEvent, InTransform, NotGivenUp
<1> HIDE DEF q
<1>5. stranded \cap Elements(q) = {} /\ Dropped(queue) \cap InConsumer = {}
  BY <1>1, <1>2, <1>3 DEF HeldInv, NotGivenUp, OnePlace
<1>6. pending = Elements(queue) \cup InConsumer \cup {Current} \cup stranded
  BY <1>1 DEF HeldInv, PendingAccounted
<1>7. CASE isProcessingQueue
  <2>1. queue' = q /\ UNCHANGED <<isProcessingQueue, consumer>>
    BY <1>7 DEF QueueAlert, q
  <2>2. InConsumer' = InConsumer /\ Elements(queue') = Elements(q)
    BY <2>1 DEF InConsumer
  <2>3. \A i, j \in DOMAIN queue' : queue'[i] = queue'[j] => i = j
    BY <1>3, <2>1 DEF Distinct
  <2>4. PendingAccounted'
    BY <1>3, <1>4, <1>6, <2>2 DEF PendingAccounted
  <2>5. OnePlace'
    BY <1>1, <1>2, <1>3, <1>4, <1>5, <2>2, <2>3 DEF OnePlace, HeldInv
  <2> QED
    BY <1>4, <2>1, <2>4, <2>5 DEF HeldInv, ConsumerFlagged, LookupFree
<1>8. CASE ~isProcessingQueue
  <2>1. ProcessQueue(q)
    BY <1>8 DEF QueueAlert, q
  <2>2. InConsumer = {}
    <3>1. consumer.at = "idle"
      BY <1>8 DEF HeldInv, ConsumerFlagged
    <3> QED
      BY <3>1 DEF TypeOK, InConsumer
  <2>3. /\ ConsumerFlagged'
        /\ Elements(q) = Elements(queue') \cup InConsumer'
        /\ Distinct(queue') /\ Elements(queue') \cap InConsumer' = {}
    BY <1>3, <2>1, Processing DEF ConsumerFlagged
  <2>4. PendingAccounted'
    BY <1>3, <1>4, <1>6, <2>2, <2>3 DEF PendingAccounted
  <2>5. OnePlace'
    BY <1>3, <1>4, <1>5, <2>3 DEF OnePlace, Distinct
  <2> QED
    BY <1>4, <2>3, <2>4, <2>5 DEF HeldInv, LookupFree
<1> QED
  BY <1>7, <1>8

\* The consumer lets its alert go, or nothing of it moves.
LEMMA ReleasedHeld ==
  ASSUME TypeOK, HeldInv, pending' = pending \ {consumer.event},
         consumer' = [at |-> "timer", event |-> NoEvent], consumer.event # NoEvent,
         UNCHANGED <<queue, isProcessingQueue, poll, stranded>>
  PROVE  HeldInv'
<1>1. InConsumer = {consumer.event} /\ InConsumer' = {} /\ InTransform' = InTransform
  BY DEF InConsumer, InTransform, Current
<1>2. consumer.at # "idle"
  BY DEF TypeOK
<1>3. ConsumerFlagged' /\ LookupFree'
  BY <1>2 DEF HeldInv, ConsumerFlagged, LookupFree, Current
<1>4. /\ pending' = Elements(queue) \cup InConsumer' \cup InTransform' \cup stranded'
      /\ Elements(queue) \cap InConsumer' = {}
      /\ InTransform' \cap (Elements(queue) \cup InConsumer' \cup stranded') = {}
      /\ stranded' \cap (Elements(queue) \cup InConsumer') = {}
  BY <1>1 DEF HeldInv, NotGivenUp, PendingAccounted, OnePlace
<1> QED
  BY <1>3, <1>4, SameQueue

LEMMA QuietConsumer ==
  ASSUME TypeOK, HeldInv, consumer.at # "idle", consumer'.at # "idle",
         consumer'.event = consumer.event,
         UNCHANGED <<pending, queue, isProcessingQueue, poll, stranded>>
  PROVE  HeldInv'
<1>1. InConsumer' = InConsumer /\ InTransform' = InTransform
  BY DEF InConsumer, InTransform, Current
<1>2. ConsumerFlagged' /\ LookupFree'
  BY DEF HeldInv, ConsumerFlagged, LookupFree, Current
<1> QED
  BY <1>1, <1>2, SameQueue DEF HeldInv, NotGivenUp, PendingAccounted, OnePlace

LEMMA NextHeld == TypeOK /\ HeldInv /\ [Next]_vars => HeldInv'
<1> SUFFICES ASSUME TypeOK, HeldInv, [Next]_vars
             PROVE  HeldInv'
  OBVIOUS
<1> USE DEF history
<1>1. ASSUME NEW page \in Batches, FetchPage(page)
      PROVE  HeldInv'
  BY <1>1, QuietPoll DEF FetchPage, LookupFree
<1>2. CASE SkipKnown
  BY <1>2, QuietPoll DEF SkipKnown, NextEvent, LookupFree
<1>3. CASE AskProcessed
  <2>1. poll'.at = "lookup" /\ poll'.page = poll.page
    BY <1>3, PollType DEF AskProcessed
  <2>2. LookupFree'
    BY <1>3, <2>1 DEF AskProcessed, LookupFree, Current
  <2> QED
    BY <1>3, <2>1, <2>2, QuietPoll DEF AskProcessed
<1>4. CASE ProcessedAnswered
  <2>1. CASE PickUp
    BY <1>4, <2>1, PickUpHeld DEF ProcessedAnswered
  <2>2. CASE NextEvent /\ UNCHANGED <<processed, pending, queue, isProcessingQueue, consumer, stranded>>
    BY <1>4, <2>2, QuietPoll DEF ProcessedAnswered, NextEvent, LookupFree
  <2> QED
    BY <1>4, <2>1, <2>2 DEF ProcessedAnswered
<1>5. CASE ProcessedUnanswered
  BY <1>5, PickUpHeld DEF ProcessedUnanswered
<1>6. CASE QueueAlert
  BY <1>6, QueueAlertHeld
<1>7. CASE TransformThrows
  <2>1. /\ poll.at = "transform" /\ InTransform = {Current} /\ InTransform' = {}
        /\ stranded' = stranded \cup {Current} /\ pending' = pending
        /\ InConsumer' = InConsumer /\ UNCHANGED <<queue, isProcessingQueue, consumer>>
    BY <1>7 DEF TransformThrows, InTransform, InConsumer, NoPoll
  <2>2. ConsumerFlagged' /\ LookupFree'
    BY <1>7, <2>1 DEF TransformThrows, NoPoll, HeldInv, ConsumerFlagged, LookupFree
  <2>3. /\ pending' = Elements(queue) \cup InConsumer' \cup InTransform' \cup stranded'
        /\ Elements(queue) \cap InConsumer' = {}
        /\ InTransform' \cap (Elements(queue) \cup InConsumer' \cup stranded') = {}
        /\ stranded' \cap (Elements(queue) \cup InConsumer') = {}
    BY <2>1 DEF HeldInv, NotGivenUp, PendingAccounted, OnePlace
  <2> QED
    BY <2>1, <2>2, <2>3, SameQueue
<1>8. CASE EndPoll
  <2>1. poll'.at = "idle"
    BY <1>8, PollType DEF EndPoll
  <2> QED
    BY <1>8, <2>1, QuietPoll DEF EndPoll, LookupFree
<1>9. CASE BroadcastReturns
  <2>1. consumer'.at = "mark" /\ consumer'.event = consumer.event
    BY <1>9, PollType DEF BroadcastReturns, BroadcastReturned
  <2> QED
    BY <1>9, <2>1, QuietConsumer DEF BroadcastReturns, BroadcastReturned
<1>10. CASE BroadcastThrows
  <2>1. consumer.event # NoEvent
    BY <1>10 DEF BroadcastThrows, TypeOK
  <2> QED
    BY <1>10, <2>1, ReleasedHeld DEF BroadcastThrows
<1>11. CASE MarkProcessed
  <2>1. consumer'.at = "note" /\ consumer'.event = consumer.event
    BY <1>11, PollType DEF MarkProcessed
  <2> QED
    BY <1>11, <2>1, QuietConsumer DEF MarkProcessed
<1>12. CASE NoteDelivered
  <2>1. consumer.event # NoEvent
    BY <1>12 DEF NoteDelivered, TypeOK
  <2> QED
    BY <1>12, <2>1, ReleasedHeld DEF NoteDelivered
<1>13. CASE TimerFires
  <2>1. InConsumer = {} /\ InTransform' = InTransform
    BY <1>13 DEF TimerFires, TypeOK, InConsumer, InTransform, Current
  <2>2. Distinct(queue)
    BY DEF HeldInv, OnePlace, Distinct
  <2>3. /\ ConsumerFlagged' /\ LookupFree' /\ UNCHANGED <<pending, stranded>>
        /\ Elements(queue) = Elements(queue') \cup InConsumer'
        /\ Distinct(queue') /\ Elements(queue') \cap InConsumer' = {}
    BY <1>13, <2>2, Processing
    DEF TimerFires, TypeOK, ConsumerFlagged, HeldInv, LookupFree, Current
  <2>4. NotGivenUp'
    BY <2>1, <2>3 DEF HeldInv, NotGivenUp
  <2>5. PendingAccounted'
    BY <2>1, <2>3 DEF PendingAccounted, HeldInv
  <2>6. OnePlace'
    BY <2>1, <2>3 DEF OnePlace, HeldInv, Distinct
  <2> QED
    BY <2>3, <2>4, <2>5, <2>6 DEF HeldInv
<1>14. CASE Crash
  <2>1. /\ pending' = {} /\ stranded' = {} /\ queue' = <<>> /\ InConsumer' = {} /\ InTransform' = {}
        /\ ConsumerFlagged' /\ LookupFree'
    BY <1>14
    DEF Crash, MemoryLost, Idle, NoPoll, InConsumer, InTransform, ConsumerFlagged, LookupFree
  <2>2. Elements(queue') = {} /\ Distinct(queue')
    BY <2>1, Emptied
  <2> QED
    BY <2>1, <2>2 DEF HeldInv, NotGivenUp, PendingAccounted, OnePlace, Distinct
<1>15. CASE UNCHANGED vars
  BY <1>15
  DEF vars, durable, memory, HeldInv, ConsumerFlagged, LookupFree, NotGivenUp, PendingAccounted, OnePlace,
      InConsumer, InTransform, Current
<1> QED
  BY <1>1, <1>2, <1>3, <1>4, <1>5, <1>6, <1>7, <1>8, <1>9, <1>10, <1>11, <1>12, <1>13, <1>14, <1>15
  DEF Next, PollStep, ConsumerStep

LEMMA HeldAlways == Spec => [](TypeOK /\ HeldInv)
<1>1. Init => TypeOK /\ HeldInv
  BY InitType, InitHeld
<1>2. TypeOK /\ HeldInv /\ [Next]_vars => (TypeOK /\ HeldInv)'
  BY NextType, NextHeld
<1> QED
  BY <1>1, <1>2, PTL DEF Spec

\* PENDING_DELIVERY_IDS is always the alerts this process holds and the ones it
\* has stranded: no path releases an id early or keeps one besides those.
THEOREM PendingIsHeld == Spec => []PendingAccounted
  BY HeldAlways, PTL DEF HeldInv

\* However the poll, the consumer and the database interleave, an event is never
\* queued twice, nor queued while it is being transformed or broadcast.
THEOREM HeldOnce == Spec => []OnePlace
  BY HeldAlways, PTL DEF HeldInv

-----------------------------------------------------------------------------
(* Nothing processed is broadcast again                                    *)

Waiting ==
  Elements(queue) \cup InTransform \cup (IF consumer.at = "broadcast" THEN InConsumer ELSE {})

LEMMA RedeliveryMeans == NoRedelivery <=> Waiting \cap processed \subseteq misread
  BY DEF NoRedelivery, Waiting

\* A step after which no more events wait, none is newly processed and the
\* failed queries are still remembered.
LEMMA FewerWait ==
  ASSUME NoRedelivery, Waiting' \subseteq Waiting, UNCHANGED processed, misread \subseteq misread'
  PROVE  NoRedelivery'
<1>1. Waiting' \cap processed' \subseteq misread'
  BY RedeliveryMeans
<1> QED
  BY <1>1 DEF NoRedelivery, Waiting

LEMMA NextRedelivery == TypeOK /\ HeldInv /\ NoRedelivery /\ [Next]_vars => NoRedelivery'
<1> SUFFICES ASSUME TypeOK, HeldInv, NoRedelivery, [Next]_vars
             PROVE  NoRedelivery'
  OBVIOUS
<1> USE DEF history
<1>1. ASSUME NEW page \in Batches, FetchPage(page)
      PROVE  NoRedelivery'
  BY <1>1, FewerWait DEF FetchPage, Waiting, InTransform, InConsumer
<1>2. CASE SkipKnown
  BY <1>2, FewerWait DEF SkipKnown, NextEvent, Waiting, InTransform, InConsumer
<1>3. CASE AskProcessed
  <2>1. poll'.at = "lookup"
    BY <1>3, PollType DEF AskProcessed
  <2> QED
    BY <1>3, <2>1, FewerWait DEF AskProcessed, Waiting, InTransform, InConsumer
<1>4. CASE ProcessedAnswered
  <2>1. CASE Current \notin processed /\ PickUp
    <3>1. poll.at = "lookup" /\ misread' = misread /\ poll.page # <<>>
      BY <1>4 DEF ProcessedAnswered, TypeOK
    <3>2. poll'.at = "transform" /\ poll'.page = poll.page
      BY <2>1, <3>1, PickUpType
    <3>3. Waiting' \subseteq Waiting \cup {Current} /\ UNCHANGED processed
      BY <2>1, <3>2 DEF Waiting, InTransform, InConsumer, Current, PickUp
    <3>4. Waiting' \cap processed' \subseteq misread'
      BY <2>1, <3>1, <3>3, RedeliveryMeans
    <3> QED
      BY <3>4 DEF NoRedelivery, Waiting
  <2>2. CASE NextEvent /\ UNCHANGED <<processed, pending, queue, isProcessingQueue, consumer, stranded>>
    BY <1>4, <2>2, FewerWait DEF ProcessedAnswered, NextEvent, Waiting, InTransform, InConsumer
  <2> QED
    BY <1>4, <2>1, <2>2 DEF ProcessedAnswered
<1>5. CASE ProcessedUnanswered
  <2>1. poll.at = "lookup" /\ PickUp /\ misread' = misread \cup {Current}
    BY <1>5 DEF ProcessedUnanswered
  <2>2. poll'.at = "transform" /\ poll'.page = poll.page
    BY <2>1, PickUpType
  <2>3. Waiting' \subseteq Waiting \cup {Current} /\ UNCHANGED processed
    BY <2>1, <2>2 DEF Waiting, InTransform, InConsumer, Current, PickUp
  <2>4. Waiting' \cap processed' \subseteq misread'
    BY <2>1, <2>3, RedeliveryMeans
  <2> QED
    BY <2>4 DEF NoRedelivery, Waiting
<1>6. CASE QueueAlert
  <2> DEFINE q == Pushed(queue, Current)
  <2>1. poll.at = "transform" /\ poll.page # <<>> /\ InTransform = {Current} /\ Current \in Events
    BY <1>6, CurrentType DEF TypeOK, QueueAlert, InTransform
  <2>2. /\ q \in Seq(Events) /\ Len(q) <= MaxQueue
        /\ Elements(q) \subseteq Elements(queue) \cup {Current}
    BY <2>1, Pushing DEF TypeOK
  <2>3. InTransform' = {} /\ UNCHANGED <<processed, misread>>
    BY <1>6 DEF QueueAlert, NextEvent, InTransform
  <2> HIDE DEF q
  <2>4. CASE isProcessingQueue
    <3>1. queue' = q /\ UNCHANGED consumer
      BY <1>6, <2>4 DEF QueueAlert, q
    <3>2. Waiting' \subseteq Waiting
      BY <2>1, <2>2, <2>3, <3>1 DEF Waiting, InConsumer
    <3> QED
      BY <2>3, <3>2, FewerWait
  <2>5. CASE ~isProcessingQueue
    <3>1. ProcessQueue(q)
      BY <1>6, <2>5 DEF QueueAlert, q
    <3>2. Elements(q) = Elements(queue') \cup InConsumer'
      BY <2>2, <3>1, Processing
    <3>3. Waiting' \subseteq Waiting
      BY <2>1, <2>2, <2>3, <3>2 DEF Waiting
    <3> QED
      BY <2>3, <3>3, FewerWait
  <2> QED
    BY <2>4, <2>5
<1>7. CASE TransformThrows
  BY <1>7, FewerWait DEF TransformThrows, NoPoll, Waiting, InTransform, InConsumer
<1>8. CASE EndPoll
  <2>1. poll'.at = "idle"
    BY <1>8, PollType DEF EndPoll
  <2> QED
    BY <1>8, <2>1, FewerWait DEF EndPoll, Waiting, InTransform, InConsumer
<1>9. CASE BroadcastReturns
  <2>1. consumer'.at = "mark"
    BY <1>9, PollType DEF BroadcastReturns, BroadcastReturned
  <2> QED
    BY <1>9, <2>1, FewerWait
    DEF BroadcastReturns, BroadcastReturned, Waiting, InTransform, InConsumer, Current
<1>10. CASE BroadcastThrows
  BY <1>10, FewerWait DEF BroadcastThrows, Waiting, InTransform, InConsumer, Current
<1>11. CASE MarkProcessed
  <2>1. /\ consumer.at = "mark" /\ consumer'.at = "note" /\ UNCHANGED misread
        /\ processed' \subseteq processed \cup {consumer.event}
    BY <1>11, PollType DEF MarkProcessed
  <2>2. Waiting' = Elements(queue) \cup InTransform /\ Waiting = Elements(queue) \cup InTransform
    BY <1>11, <2>1 DEF MarkProcessed, Waiting, InTransform, Current
  <2>3. consumer.event \notin Waiting
    <3>1. consumer.event \in InConsumer
      BY <2>1 DEF TypeOK, InConsumer
    <3> QED
      BY <2>2, <3>1 DEF HeldInv, OnePlace
  <2>4. Waiting' \cap processed' \subseteq misread'
    BY <2>1, <2>2, <2>3, RedeliveryMeans
  <2> QED
    BY <2>4 DEF NoRedelivery, Waiting
<1>12. CASE NoteDelivered
  BY <1>12, FewerWait DEF NoteDelivered, Waiting, InTransform, InConsumer, Current
<1>13. CASE TimerFires
  <2>1. Elements(queue) = Elements(queue') \cup InConsumer'
    BY <1>13, Processing DEF TimerFires, TypeOK
  <2>2. Waiting' \subseteq Waiting
    BY <1>13, <2>1 DEF TimerFires, Waiting, InTransform, Current
  <2> QED
    BY <1>13, <2>2, FewerWait DEF TimerFires
<1>14. CASE Crash
  <2>1. queue' = <<>> /\ InConsumer' = {} /\ InTransform' = {} /\ UNCHANGED <<processed, misread>>
    BY <1>14 DEF Crash, MemoryLost, Idle, NoPoll, InConsumer, InTransform
  <2>2. Waiting' = {}
    BY <2>1, Emptied DEF Waiting
  <2> QED
    BY <2>1, <2>2, FewerWait
<1>15. CASE UNCHANGED vars
  BY <1>15 DEF vars, durable, memory, NoRedelivery, InConsumer, InTransform, Current
<1> QED
  BY <1>1, <1>2, <1>3, <1>4, <1>5, <1>6, <1>7, <1>8, <1>9, <1>10, <1>11, <1>12, <1>13, <1>14, <1>15
  DEF Next, PollStep, ConsumerStep

\* No event whose processed row is in the database is queued or broadcast again,
\* by this process or a later one, unless the query that asks for the row failed.
THEOREM NeverRedelivered == Spec => []NoRedelivery
<1>1. Init => NoRedelivery
  BY DEF Init, NoRedelivery
<1>2. TypeOK /\ HeldInv /\ NoRedelivery /\ [Next]_vars => NoRedelivery'
  BY NextRedelivery
<1> QED
  BY <1>1, <1>2, HeldAlways, PTL DEF Spec
=============================================================================
