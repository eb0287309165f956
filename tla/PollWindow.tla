----------------------------- MODULE PollWindow -----------------------------
(***************************************************************************)
(* What the pollers ask Samsara for (executePoll of src/poller.js and of   *)
(* src/speedingPoller.js): the time window that starts one overlap before  *)
(* the watermark, the pagination cursor, and the caches and rows both are  *)
(* kept in (src/db.js, src/speedingPollState.js).  A behaviour has one of  *)
(* the two pollers, chosen in Init; they differ where `poller` is tested.  *)
(*                                                                         *)
(* External: Samsara.  An event happens, is offered some time later, and   *)
(* stays on offer; a request is answered with at most a page of the events *)
(* inside the window that are not behind the cursor; a cursor stands for   *)
(* the events returned up to it, and may be missing on the last page.      *)
(*                                                                         *)
(* Abstracted: one unit of time is an hour or so; the queue and the        *)
(* broadcast are one step that delivers a held event or lets go of it      *)
(* (modules AlertQueue and Broadcast); a page is scanned in one step.      *)
(***************************************************************************)
EXTENDS Faults, Integers, FiniteSets

CONSTANTS
  Events,       \* Samsara event ids
  Pollers,      \* the pollers to consider
  Expiring,     \* the pollers whose cursors Samsara may come to reject
  Overlap,      \* POLL_WATERMARK_OVERLAP_MS
  Bootstrap,    \* POLL_BOOTSTRAP_WINDOW_MS
  PageSize,     \* limit=100
  MaxPages,     \* pages the speeding poller reads per poll
  MaxTime,      \* bound: the last instant of a behaviour
  NoTime,       \* has not happened, has no watermark
  Unread        \* this process has not read the value yet

ASSUME WindowAssumption ==
  /\ Pollers \subseteq {"safety", "speeding"}
  /\ Expiring \subseteq Pollers
  /\ Overlap \in Nat /\ Bootstrap \in Nat /\ MaxTime \in Nat
  /\ Overlap <= Bootstrap
  /\ PageSize \in Nat \ {0} /\ MaxPages \in Nat \ {0}
  /\ NoTime \notin 0..MaxTime
  /\ Unread \notin (0..MaxTime) \cup {NoTime}

VARIABLES
  poller,       \* which poller this behaviour is about
  now,          \* the clock
  happened,     \* when each event happened
  offered,      \* when Samsara began to offer it
  rejected,     \* the cursors Samsara no longer accepts
  processed,    \* table samsara_processed_events
  markRow,      \* the watermark in table samsara_poll_state
  cursorStore,  \* the cursor on disk (safety) or in samsara_poll_state (speeding)
  stateCache,   \* pollStateCache for the watermark's key
  mark,         \* cachedPollWatermark (safety only)
  cursorCache,  \* cachedCursor (safety) or pollStateCache for the cursor's key
  held,         \* picked up: PENDING_DELIVERY_IDS
  poll,         \* where executePoll is, its request and its answer
  released,     \* history: picked up, and let go of undelivered
  stranded,     \* history: held with no alert left to deliver
  leftBehind,   \* history: past the last page when the watermark moved on
  tooOld        \* history: older than a window that began without a watermark

world   == <<happened, offered>>
durable == <<processed, markRow, cursorStore>>
memory  == <<stateCache, mark, cursorCache, held, poll>>
history == <<released, stranded, leftBehind, tooOld>>
vars    == <<poller, now, world, rejected, durable, memory, history, faults>>

Times  == 0..MaxTime
Marks  == Times \cup {NoTime}

\* A cursor is the set of events behind it; the empty one is no cursor.
NoCursor == {}

NoPoll == [at |-> "idle", start |-> 0, end |-> 0, cursor |-> NoCursor,
           pages |-> 0, page |-> {}, rest |-> {}, next |-> NoCursor]

PollPlaces == {"idle", "mark", "fetch", "scan", "cursor", "watermark"}

Polls == [at : PollPlaces, start : Times, end : Times, cursor : SUBSET Events,
          pages : 0..MaxPages, page : SUBSET Events, rest : SUBSET Events,
          next : SUBSET Events]

TypeOK ==
  /\ FaultsTypeOK
  /\ poller \in Pollers
  /\ now \in Times
  /\ happened \in [Events -> Marks]
  /\ offered \in [Events -> Marks]
  /\ rejected \in SUBSET SUBSET Events
  /\ processed \in SUBSET Events
  /\ markRow \in Marks
  /\ cursorStore \in SUBSET Events
  /\ stateCache \in Marks \cup {Unread}
  /\ mark \in Marks
  /\ cursorCache \in (SUBSET Events) \cup {Unread}
  /\ held \in SUBSET Events
  /\ poll \in Polls
  /\ poll.at \in {"mark", "fetch", "scan"} => poll.pages < MaxPages
  /\ released \in SUBSET Events
  /\ stranded \in SUBSET held
  /\ leftBehind \in SUBSET Events
  /\ tooOld \in SUBSET Events

Init ==
  /\ FaultsInit
  /\ poller \in Pollers
  /\ now = 0
  /\ happened = [e \in Events |-> NoTime]
  /\ offered = [e \in Events |-> NoTime]
  /\ rejected = {}
  /\ processed = {}
  /\ markRow = NoTime /\ cursorStore = NoCursor
  /\ stateCache = Unread /\ mark = NoTime /\ cursorCache = Unread
  /\ held = {}
  /\ poll = NoPoll
  /\ released = {} /\ stranded = {} /\ leftBehind = {} /\ tooOld = {}

-----------------------------------------------------------------------------
(* Samsara and the clock                                                   *)

\* What happens while an answer is scanned and saved is seen by the next
\* request only, so Samsara and the clock move before it is given.
WorldMoves == poll.at \in {"idle", "mark", "fetch"}

Tick ==
  /\ WorldMoves /\ now < MaxTime
  /\ now' = now + 1
  /\ UNCHANGED <<poller, world, rejected, durable, memory, history, faults>>

Happen(e) ==
  /\ WorldMoves /\ happened[e] = NoTime
  /\ happened' = [happened EXCEPT ![e] = now]
  /\ UNCHANGED <<poller, now, offered, rejected, durable, memory, history, faults>>

Offer(e) ==
  /\ WorldMoves /\ happened[e] # NoTime /\ offered[e] = NoTime
  /\ offered' = [offered EXCEPT ![e] = now]
  /\ UNCHANGED <<poller, now, happened, rejected, durable, memory, history, faults>>

KnownCursor == IF cursorCache = Unread THEN cursorStore ELSE cursorCache

\* Samsara stops accepting the cursor the poller holds.
Expire ==
  /\ WorldMoves /\ poller \in Expiring
  /\ KnownCursor \notin {NoCursor} \cup rejected
  /\ Fault("expire")
  /\ rejected' = rejected \cup {KnownCursor}
  /\ UNCHANGED <<poller, now, world, durable, memory, history>>

-----------------------------------------------------------------------------
(* executePoll: the request                                                *)

AtLeastZero(t) == IF t < 0 THEN 0 ELSE t

StartUnclamped(m)      == IF m = NoTime THEN now - Bootstrap ELSE m - Overlap
StartWithoutOverlap(m) == IF m = NoTime THEN AtLeastZero(now - Bootstrap) ELSE m

\* One overlap before the watermark, or the bootstrap window without one.
StartOf(m) ==
  AtLeastZero(IF m = NoTime THEN now - Bootstrap ELSE m - Overlap)

\* Read the cursor.  The safety poller reads its disk; the speeding poller
\* reads the table, and a failed read is no cursor for this poll.
StartPoll ==
  /\ poll.at = "idle"
  /\ \/ /\ poll' = [NoPoll EXCEPT !.at = "mark", !.end = now, !.cursor = KnownCursor]
        /\ cursorCache' = IF poller = "safety" /\ KnownCursor = NoCursor
                          THEN Unread ELSE KnownCursor
        /\ NoFault
     \/ /\ poller = "speeding" /\ cursorCache = Unread
        /\ Fault("dbRead")
        /\ poll' = [NoPoll EXCEPT !.at = "mark", !.end = now]
        /\ UNCHANGED cursorCache
  /\ UNCHANGED <<poller, now, world, rejected, durable, stateCache, mark, held, history>>

Requested(m) ==
  /\ poll' = [poll EXCEPT !.at = "fetch", !.start = StartOf(m)]
  /\ tooOld' = IF m = NoTime
               THEN tooOld \cup {e \in Events : happened[e] # NoTime /\ happened[e] < StartOf(m)}
               ELSE tooOld

\* getPollWatermark, getPollState: memory first, then the table; a failed
\* read is no watermark for this poll, and is not remembered.
ReadMark ==
  /\ poll.at = "mark"
  /\ \/ /\ mark # NoTime
        /\ Requested(mark)
        /\ UNCHANGED <<stateCache, mark>> /\ NoFault
     \/ /\ mark = NoTime
        /\ LET m == IF stateCache = Unread THEN markRow ELSE stateCache IN
           /\ Requested(m)
           /\ stateCache' = m
           /\ mark' = IF poller = "safety" THEN m ELSE mark
        /\ NoFault
     \/ /\ mark = NoTime /\ stateCache = Unread
        /\ Fault("dbRead")
        /\ Requested(NoTime)
        /\ UNCHANGED <<stateCache, mark>>
  /\ UNCHANGED <<poller, now, world, rejected, durable, cursorCache, held,
                 released, stranded, leftBehind>>

-----------------------------------------------------------------------------
(* executePoll: the answer                                                 *)

InWindow(e, start, end) ==
  /\ offered[e] # NoTime
  /\ start <= happened[e] /\ happened[e] <= end

Matching == {e \in Events \ poll.cursor : InWindow(e, poll.start, poll.end)}

FetchedAndSaved ==
  /\ poll.at = "fetch" /\ poll.cursor \notin rejected
  /\ \E page \in SUBSET Matching :
       /\ page # {} /\ Cardinality(page) <= PageSize
       /\ cursorCache' = page /\ cursorStore' = page
       /\ poll' = [poll EXCEPT !.at = "scan", !.page = page]
  /\ UNCHANGED <<poller, now, world, rejected, processed, markRow, stateCache,
                 mark, held, history, faults>>

\* At most a page of the events that match; a cursor for the next page, which
\* the last page may come without.
Fetched ==
  /\ poll.at = "fetch" /\ poll.cursor \notin rejected
  /\ \E page \in SUBSET Matching :
       /\ \/ page = Matching /\ Cardinality(page) <= PageSize
          \/ page # Matching /\ Cardinality(page) = PageSize
       /\ \E next \in {poll.cursor \cup page, NoCursor} :
            /\ page # Matching => next # NoCursor
            /\ poll' = [poll EXCEPT !.at = "scan", !.page = page,
                          !.rest = Matching \ page, !.next = next]
  /\ UNCHANGED <<poller, now, world, rejected, durable, stateCache, mark,
                 cursorCache, held, history, faults>>

\* The request fails, or is answered with an error.
FetchFails ==
  /\ poll.at = "fetch"
  /\ Fault("http")
  /\ poll' = NoPoll
  /\ UNCHANGED <<poller, now, world, rejected, durable, stateCache, mark,
                 cursorCache, held, history>>

CursorKept ==
  /\ poll.at = "fetch" /\ poll.cursor \in rejected
  /\ poll' = NoPoll
  /\ UNCHANGED <<poller, now, world, rejected, durable, stateCache, mark,
                 cursorCache, held, history, faults>>

\* Samsara rejects the cursor.  The safety poller clears it, though its disk
\* may refuse; the speeding poller throws and keeps it.
CursorRejected ==
  /\ poll.at = "fetch" /\ poll.cursor \in rejected
  /\ poll' = NoPoll
  /\ IF poller = "safety"
     THEN /\ cursorCache' = Unread
          /\ \/ cursorStore' = NoCursor /\ NoFault
             \/ UNCHANGED cursorStore /\ Fault("disk")
     ELSE UNCHANGED <<cursorCache, cursorStore>> /\ NoFault
  /\ UNCHANGED <<poller, now, world, rejected, processed, markRow, stateCache,
                 mark, held, history>>

NewOnPage == poll.page \ (processed \cup held)

\* Every event of the page that is neither delivered nor held is picked up.
Scan ==
  /\ poll.at = "scan"
  /\ held' = held \cup NewOnPage
  /\ poll' = [poll EXCEPT !.at = "cursor", !.pages = @ + 1]
  /\ UNCHANGED <<poller, now, world, rejected, durable, stateCache, mark,
                 cursorCache, history, faults>>

\* A transformation throws.  The safety poller abandons the page: the event
\* stays in pending, nothing is saved.  The speeding poller lets go of the
\* event and carries on.
ScanThrows(bad) ==
  /\ poll.at = "scan" /\ bad \in NewOnPage
  /\ Fault("transform")
  /\ IF poller = "safety"
     THEN /\ \E before \in SUBSET (NewOnPage \ {bad}) : held' = held \cup before \cup {bad}
          /\ stranded' = stranded \cup {bad}
          /\ poll' = NoPoll
          /\ UNCHANGED released
     ELSE /\ held' = held \cup (NewOnPage \ {bad})
          /\ released' = released \cup {bad}
          /\ poll' = [poll EXCEPT !.at = "cursor", !.pages = @ + 1]
          /\ UNCHANGED stranded
  /\ UNCHANGED <<poller, now, world, rejected, durable, stateCache, mark,
                 cursorCache, leftBehind, tooOld>>

\* The speeding poller asks for another page while there is one; the safety
\* poller never does.
Continue ==
  poll' = IF poller = "speeding" /\ poll.rest # {} /\ poll.pages < MaxPages
          THEN [poll EXCEPT !.at = "fetch", !.cursor = poll.next]
          ELSE [poll EXCEPT !.at = "watermark"]

\* saveCursor, savePollState: nothing to save, an unchanged value, a write
\* that lands, or one that fails.  The safety poller remembers the cursor
\* before it writes it, the speeding poller after.
SaveCursor ==
  /\ poll.at = "cursor"
  /\ IF poll.next \in {NoCursor, cursorCache}
     THEN UNCHANGED <<cursorCache, cursorStore>> /\ NoFault
     ELSE \/ cursorCache' = poll.next /\ cursorStore' = poll.next /\ NoFault
          \/ /\ IF poller = "safety" THEN Fault("disk") ELSE Fault("dbWrite")
             /\ cursorCache' = IF poller = "safety" THEN poll.next ELSE cursorCache
             /\ UNCHANGED cursorStore
  /\ Continue
  /\ UNCHANGED <<poller, now, world, rejected, processed, markRow, stateCache,
                 mark, held, history>>

\* savePollState: an unchanged value is not written again, and a failed write
\* is not remembered.
RowWritten(value) ==
  IF stateCache = value
  THEN UNCHANGED <<markRow, stateCache>> /\ NoFault
  ELSE \/ markRow' = value /\ stateCache' = value /\ NoFault
       \/ UNCHANGED <<markRow, stateCache>> /\ Fault("dbWrite")

\* The window has been scanned: the watermark moves to its end, whatever lies
\* past the last page.  The safety poller moves on even if the write fails.
SaveMark ==
  /\ poll.at = "watermark"
  /\ RowWritten(poll.end)
  /\ mark' = IF poller = "safety" THEN poll.end ELSE mark
  /\ leftBehind' = leftBehind \cup poll.rest
  /\ poll' = NoPoll
  /\ UNCHANGED <<poller, now, world, rejected, processed, cursorStore,
                 cursorCache, held, released, stranded, tooOld>>

-----------------------------------------------------------------------------
(* Delivery and restarts                                                   *)

\* The alert is broadcast and the event recorded.
Deliver(e) ==
  /\ e \in held \ stranded
  /\ processed' = processed \cup {e}
  /\ held' = held \ {e}
  /\ UNCHANGED <<poller, now, world, rejected, markRow, cursorStore, stateCache,
                 mark, cursorCache, poll, history, faults>>

\* The broadcast throws: the event may be picked up again.
DeliveryFails(e) ==
  /\ e \in held \ stranded
  /\ Fault("telegram")
  /\ held' = held \ {e}
  /\ released' = released \cup {e}
  /\ UNCHANGED <<poller, now, world, rejected, durable, stateCache, mark,
                 cursorCache, poll, stranded, leftBehind, tooOld>>

\* Memory is lost; the cursor file too when the disk goes with the instance.
Crash ==
  /\ Fault("crash")
  /\ stateCache' = Unread /\ mark' = NoTime /\ cursorCache' = Unread
  /\ released' = released \cup held
  /\ held' = {} /\ stranded' = {}
  /\ poll' = NoPoll
  /\ \/ UNCHANGED cursorStore
     \/ poller = "safety" /\ cursorStore' = NoCursor
  /\ UNCHANGED <<poller, now, world, rejected, processed, markRow,
                 leftBehind, tooOld>>

PollStep ==
  \/ StartPoll \/ ReadMark
  \/ Fetched \/ FetchFails \/ CursorRejected
  \/ Scan
  \/ \E bad \in Events : ScanThrows(bad)
  \/ SaveCursor \/ SaveMark

Next ==
  \/ PollStep
  \/ \E e \in Events : Happen(e) \/ Offer(e) \/ Deliver(e) \/ DeliveryFails(e)
  \/ Tick \/ Expire \/ Crash

Spec == Init /\ [][Next]_vars

\* The coordinator keeps polling, awaited calls are answered and the queue is
\* served.  Nothing obliges an event to happen, to be offered, or time to pass.
Fairness ==
  /\ WF_vars(PollStep)
  /\ \A e \in Events : WF_vars(Deliver(e))

FairSpec == Spec /\ Fairness

-----------------------------------------------------------------------------
(* Properties                                                              *)

\* pollStateCache never claims what the table does not hold, so a write that
\* failed is retried and not taken for one that landed (db.js, savePollState).
CacheNeverAhead ==
  /\ stateCache # Unread => stateCache = markRow
  /\ poller = "speeding" /\ cursorCache # Unread => cursorCache = cursorStore

\* No cursor a later poll may start from is past an event that was never
\* picked up: the cursor is saved after its page is scanned, never before.
PickedUp == processed \cup held \cup released

CursorNotPastPickUp ==
  /\ cursorStore \subseteq PickedUp
  /\ KnownCursor \subseteq PickedUp

KnownMark ==
  IF mark # NoTime THEN mark ELSE IF stateCache = Unread THEN markRow ELSE stateCache

\* The next poll, answered in full, would return the event.
InReach(e) == happened[e] >= StartOf(KnownMark) /\ e \notin KnownCursor

\* Samsara began to offer the event more than one overlap after it happened.
Late(e) == offered[e] # NoTime /\ offered[e] - happened[e] > Overlap

\* Every way an event on offer can be out of reach and out of hand.
Explained(e) ==
  \/ Late(e)
  \/ e \in released \cup leftBehind \cup tooOld
  \/ KnownMark = NoTime

\* Between polls an event on offer is delivered, held, or within reach of the
\* next poll, unless it came later than the overlap, was let go of, lay past
\* the last page, or was older than a window that began without a watermark.
LossExplained ==
  poll.at = "idle" =>
    \A e \in Events :
      offered[e] # NoTime => e \in processed \cup held \/ InReach(e) \/ Explained(e)

\* An event offered within the overlap is delivered in the end, unless it was
\* let go of, is stranded, lay past the last page or before the first window.
OfferedIsDelivered ==
  \A e \in Events :
    offered[e] # NoTime
      ~> \/ Late(e)
         \/ e \in processed \cup released \cup stranded \cup leftBehind \cup tooOld

\* "Polling uses cursor-based pagination saved to disk, the bot picks up every
\* event that occurred even if it was offline" (README.md:27-28): every event
\* offered on time is picked up.
EveryEventPickedUp ==
  \A e \in Events :
    offered[e] # NoTime
      ~> \/ Late(e)
         \/ e \in processed \cup held \cup released

\* "Delivery failed, will retry on next poll" (poller.js:152): between polls an
\* event whose broadcast threw was delivered since, is in hand again, or would
\* be returned by the next poll.
RetriedNextPoll ==
  poll.at = "idle" => \A e \in released : e \in processed \cup held \/ InReach(e)
=============================================================================
