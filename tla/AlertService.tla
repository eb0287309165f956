----------------------------- MODULE AlertService -----------------------------
(***************************************************************************)
(* The alert path end to end: the poller's queue (AlertQueue) whose        *)
(* consumer runs one broadcast at a time (Broadcast), in one process over  *)
(* one database.  processQueue calls broadcast synchronously, so the step  *)
(* that takes an alert starts its run; the run's end is the consumer's     *)
(* next step; and a death of the process ends both.                        *)
(*                                                                         *)
(* Of the request, the cursor is here: what lies behind it is not offered  *)
(* to a later poll.  The clock, the window and the caches of the cursor    *)
(* are in PollWindow.                                                      *)
(*                                                                         *)
(* The module extends Broadcast, whose names it keeps, and takes the queue *)
(* by INSTANCE; the actions of the whole have names of their own.          *)
(***************************************************************************)
EXTENDS Broadcast, Sequences

CONSTANTS Batches, MaxQueue, MaxSeen

ASSUME ServiceAssumption ==
  /\ Batches \subseteq Seq(Events)
  /\ <<>> \notin Batches
  /\ MaxQueue \in Nat \ {0}
  /\ MaxSeen \in Nat \ {0}

VARIABLES processed, seen, pending, queue, isProcessingQueue, consumer, poll, stranded, misread

VARIABLES
  cursor,     \* the saved cursor: the events behind it
  endCursor,  \* the cursor that came with the page under way, {} when none did
  letGo       \* history: stranded, thrown by a run, or lost with the process

Q == INSTANCE AlertQueue

queueVars   == <<processed, seen, pending, queue, isProcessingQueue, consumer, poll,
                 stranded, misread>>
runVars     == <<durable, run, history>>
cursorVars  == <<cursor, endCursor, letGo>>
serviceVars == <<queueVars, runVars, cursorVars, faults>>

ServiceInit == Q!Init /\ Init /\ cursor = {} /\ endCursor = {} /\ letGo = {}

\* A step of the queue that takes an alert starts its run.
WithRun ==
  IF consumer.at # "broadcast" /\ consumer'.at = "broadcast"
  THEN Start(consumer'.event)
  ELSE UNCHANGED runVars

\* The request asks for what lies after the cursor; the last page may come
\* without a new one.
Fetch(page) ==
  /\ Q!Elements(page) \cap cursor = {}
  /\ Q!FetchPage(page)
  /\ endCursor' \in {cursor \cup Q!Elements(page), {}}
  /\ UNCHANGED <<runVars, cursor, letGo>>

PageBegun == poll.at = "scan"

\* The page is done: its cursor is saved, if it came with one.
PageDone == poll.at = "scan" /\ poll.page = <<>>

PollStep ==
  /\ Q!PollStep /\ WithRun
  /\ cursor' = IF PageDone /\ endCursor # {} THEN endCursor ELSE cursor
  /\ endCursor' = IF poll'.at = "idle" THEN {} ELSE endCursor
  /\ letGo' = letGo \cup (stranded' \ stranded)

\* Samsara rejects the cursor, and the poller clears it.
CursorRejected ==
  /\ poll.at = "idle" /\ cursor # {}
  /\ Fault("expire")
  /\ cursor' = {}
  /\ UNCHANGED <<queueVars, runVars, endCursor, letGo>>

ConsumerStep == Q!ConsumerStep /\ WithRun /\ UNCHANGED cursorVars
RunSteps     == RunStep /\ UNCHANGED <<queueVars, cursorVars>>
RunReturns   == Return /\ Q!BroadcastReturned /\ UNCHANGED cursorVars
PeopleAct    == People /\ UNCHANGED <<queueVars, cursorVars>>

RunThrows ==
  /\ Throw /\ Q!BroadcastThrows
  /\ letGo' = letGo \cup {consumer.event}
  /\ UNCHANGED <<cursor, endCursor>>

\* Memory is lost; the cursor's file too when the disk goes with the instance.
ProcessDies ==
  /\ Fault("crash") /\ Q!MemoryLost /\ RunLost
  /\ letGo' = letGo \cup pending
  /\ cursor' \in {cursor, {}} /\ endCursor' = {}

ServiceNext ==
  \/ \E page \in Batches : Fetch(page)
  \/ PollStep
  \/ ConsumerStep
  \/ RunSteps
  \/ RunReturns
  \/ RunThrows
  \/ CursorRejected
  \/ PeopleAct
  \/ ProcessDies

ServiceSpec == ServiceInit /\ [][ServiceNext]_serviceVars

\* The event loop keeps running, and Samsara goes on offering an event that is
\* still ahead of the cursor: the next poll's window reaches two hours behind
\* the watermark.  (A backlog longer than a page breaks this; it is PollWindow's
\* leftBehind.)  Nothing is owed once the cursor has passed the event.
ServiceFairness ==
  /\ WF_serviceVars(PollStep)
  /\ WF_serviceVars(ConsumerStep \/ RunSteps \/ RunReturns \/ RunThrows)
  /\ \A e \in Events :
       SF_serviceVars(\E page \in Batches : e \in Q!Elements(page) /\ Fetch(page))

FairServiceSpec == ServiceSpec /\ ServiceFairness

-----------------------------------------------------------------------------
(* Properties                                                              *)

\* An event that will never be polled again has reached the driver's own group, unless that group was at some
\* time switched off or the routing lookup of one of its runs failed.
ProcessedReachedDriver ==
  \A e \in processed :
    \/ DriverOf[e] = NoChat
    \/ Reached(e, DriverOf[e])
    \/ <<"off", DriverOf[e]>> \in past
    \/ <<"unrouted", e>> \in past

\* The alert path keeps the abstract promise.
refused == {x \in Events \X Chats : <<"refused", x[1], x[2]>> \in past}
Contract == INSTANCE AlertContract WITH hidden <- excuse, handled <- processed
ContractSpec == Contract!Spec

\* The cursor, which no later poll asks behind, passes an event only when the
\* notifications group has dealt with it, this process still holds it, or it
\* was let go of: left by a full queue or a throwing transformation, given up by
\* a broadcast that threw, or lost with the process that held it.
PassedIsAccounted ==
  \A e \in cursor : Reached(e, Forced) \/ e \in pending \/ e \in letGo

\* Every event reaches the notifications group across failed queries, rejected
\* cursors and the throws and restarts of other events, unless it was let go of.
\* That a later poll brings back what was let go of is not promised: it lies
\* behind the cursor.
EveryEventReachesGroup == \A e \in Events : <>(Reached(e, Forced) \/ e \in letGo)
=============================================================================
