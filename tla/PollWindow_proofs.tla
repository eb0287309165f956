------------------------- MODULE PollWindow_proofs -------------------------
(***************************************************************************)
(* What the windows and cursors of PollWindow guarantee, for any events,   *)
(* overlap, page size, clock and number of faults.                         *)
(***************************************************************************)
EXTENDS PollWindow, TLAPS

PollFields == {"at", "start", "end", "cursor", "pages", "page", "rest", "next"}

PollTyped(p) ==
  /\ p.at \in PollPlaces /\ p.start \in Times /\ p.end \in Times
  /\ p.cursor \in SUBSET Events /\ p.pages \in 0..MaxPages
  /\ p.page \in SUBSET Events /\ p.rest \in SUBSET Events /\ p.next \in SUBSET Events

LEMMA PollsElim == ASSUME NEW p \in Polls PROVE p = [f \in PollFields |-> p[f]] /\ PollTyped(p)
  BY DEF Polls, PollTyped, PollFields

LEMMA PollsIntro ==
  ASSUME NEW p, p = [f \in PollFields |-> p[f]], PollTyped(p)
  PROVE  p \in Polls
  BY DEF Polls, PollTyped, PollFields

LEMMA NoPollType ==
  /\ NoPoll \in Polls /\ NoPoll.at = "idle" /\ NoPoll.start = 0 /\ NoPoll.end = 0
  /\ NoPoll.cursor = {} /\ NoPoll.pages = 0 /\ NoPoll.page = {} /\ NoPoll.rest = {}
  /\ NoPoll.next = {}
  BY WindowAssumption DEF NoPoll, NoCursor, Polls, PollPlaces, Times

LEMMA FaultType ==
  ASSUME FaultsTypeOK, NEW kind, Fault(kind) \/ NoFault
  PROVE  FaultsTypeOK'
  BY FaultsAssumption DEF FaultsTypeOK, Fault, NoFault

LEMMA InitType == Init => TypeOK
  BY NoPollType, WindowAssumption, FaultsAssumption
     DEF Init, TypeOK, FaultsInit, FaultsTypeOK, Times, Marks, NoCursor

LEMMA StartType ==
  ASSUME NEW m \in Marks, now \in Times
  PROVE  /\ StartOf(m) \in Times
         /\ m # NoTime => StartOf(m) = IF m < Overlap THEN 0 ELSE m - Overlap
         /\ m = NoTime => StartOf(m) = IF now < Bootstrap THEN 0 ELSE now - Bootstrap
  BY WindowAssumption DEF StartOf, AtLeastZero, Marks, Times

LEMMA NextType == TypeOK /\ [Next]_vars => TypeOK'
<1> SUFFICES ASSUME TypeOK, [Next]_vars PROVE TypeOK'
  OBVIOUS
<1> USE WindowAssumption
<1>p. poll = [f \in PollFields |-> poll[f]] /\ PollTyped(poll)
  BY PollsElim DEF TypeOK
<1>1. CASE Tick
  BY <1>1 DEF Tick, TypeOK, Times, world, durable, memory, history, FaultsTypeOK
<1>2. ASSUME NEW e \in Events, Happen(e) PROVE TypeOK'
  BY <1>2 DEF Happen, TypeOK, Marks, durable, memory, history, FaultsTypeOK
<1>3. ASSUME NEW e \in Events, Offer(e) PROVE TypeOK'
  BY <1>3 DEF Offer, TypeOK, Marks, durable, memory, history, FaultsTypeOK
<1>4. CASE Expire
  <2>1. KnownCursor \in SUBSET Events
    BY DEF TypeOK, KnownCursor
  <2>2. FaultsTypeOK'
    BY <1>4, FaultType DEF TypeOK, Expire
  <2> QED
    BY <1>4, <2>1, <2>2 DEF Expire, TypeOK, world, durable, memory, history
<1>5. CASE StartPoll
  <2>1. KnownCursor \in SUBSET Events
    BY DEF TypeOK, KnownCursor
  <2>2. FaultsTypeOK'
    BY <1>5, FaultType DEF TypeOK, StartPoll
  <2>3. NoPoll = [f \in PollFields |-> NoPoll[f]] /\ PollTyped(NoPoll)
    BY NoPollType, PollsElim
  <2>4. /\ poll' = [f \in PollFields |-> poll'[f]] /\ PollTyped(poll')
        /\ poll'.at = "mark" /\ poll'.pages = 0
    <3>1. now \in Times
      BY DEF TypeOK
    <3>2. CASE poll' = [NoPoll EXCEPT !.at = "mark", !.end = now, !.cursor = KnownCursor]
      BY <2>1, <2>3, <3>1, <3>2, NoPollType DEF PollTyped, PollFields, PollPlaces
    <3>3. CASE poll' = [NoPoll EXCEPT !.at = "mark", !.end = now]
      BY <2>3, <3>1, <3>3, NoPollType DEF PollTyped, PollFields, PollPlaces
    <3> QED
      BY <1>5, <3>2, <3>3 DEF StartPoll
  <2>5. poll' \in Polls
    BY <2>4, PollsIntro
  <2>6. cursorCache' \in (SUBSET Events) \cup {Unread}
    BY <1>5, <2>1 DEF StartPoll, TypeOK
  <2> QED
    BY <1>5, <2>2, <2>4, <2>5, <2>6 DEF StartPoll, TypeOK, world, durable, history
<1>6. CASE ReadMark
  <2>1. FaultsTypeOK'
    BY <1>6, FaultType DEF TypeOK, ReadMark
  <2>2. PICK m \in Marks : Requested(m) /\ stateCache' \in Marks \cup {Unread} /\ mark' \in Marks
    BY <1>6 DEF ReadMark, TypeOK, Marks
  <2>3. StartOf(m) \in Times
    BY <2>2, StartType DEF TypeOK
  <2>4. /\ poll' = [f \in PollFields |-> poll'[f]] /\ PollTyped(poll')
        /\ poll'.at = "fetch" /\ poll'.pages = poll.pages
    BY <1>p, <2>2, <2>3 DEF Requested, PollTyped, PollFields, PollPlaces
  <2>5. poll' \in Polls
    BY <2>4, PollsIntro
  <2>6. tooOld' \in SUBSET Events
    BY <2>2 DEF Requested, TypeOK
  <2>7. poll.at = "mark"
    BY <1>6 DEF ReadMark
  <2> QED
    BY <1>6, <2>1, <2>2, <2>4, <2>5, <2>6, <2>7 DEF ReadMark, TypeOK, world, durable
<1>7. CASE Fetched
  <2>0. PICK page \in SUBSET Matching : \E next \in {poll.cursor \cup page, NoCursor} :
          poll' = [poll EXCEPT !.at = "scan", !.page = page,
                     !.rest = Matching \ page, !.next = next]
    BY <1>7 DEF Fetched
  <2>1. PICK next \in {poll.cursor \cup page, NoCursor} :
          poll' = [poll EXCEPT !.at = "scan", !.page = page,
                     !.rest = Matching \ page, !.next = next]
    BY <2>0
  <2>2. Matching \in SUBSET Events
    BY DEF Matching
  <2>3. next \in SUBSET Events
    BY <2>0, <2>1, <2>2, <1>p DEF NoCursor, PollTyped
  <2>4. /\ poll' = [f \in PollFields |-> poll'[f]] /\ PollTyped(poll')
        /\ poll'.at = "scan" /\ poll'.pages = poll.pages
    BY <1>p, <2>0, <2>1, <2>2, <2>3 DEF PollTyped, PollFields, PollPlaces
  <2>5. poll' \in Polls
    BY <2>4, PollsIntro
  <2>6. poll.at = "fetch"
    BY <1>7 DEF Fetched
  <2> QED
    BY <1>7, <2>4, <2>5, <2>6 DEF Fetched, TypeOK, world, durable, history, FaultsTypeOK
<1>8. CASE FetchFails \/ CursorRejected
  <2>1. FaultsTypeOK'
    BY <1>8, FaultType DEF TypeOK, FetchFails, CursorRejected
  <2> QED
    BY <1>8, <2>1, NoPollType
       DEF FetchFails, CursorRejected, TypeOK, world, durable, history, NoCursor
<1>q. poll.at = "scan" => poll.pages + 1 \in 0..MaxPages
  BY <1>p DEF TypeOK, PollTyped
<1>9. CASE Scan
  <2>1. /\ poll' = [f \in PollFields |-> poll'[f]] /\ PollTyped(poll') /\ poll'.at = "cursor"
    BY <1>p, <1>q, <1>9 DEF Scan, PollTyped, PollFields, PollPlaces
  <2>2. poll' \in Polls
    BY <2>1, PollsIntro
  <2>3. NewOnPage \in SUBSET Events
    BY <1>p DEF NewOnPage, PollTyped
  <2> QED
    BY <1>9, <2>1, <2>2, <2>3 DEF Scan, TypeOK, world, durable, history, FaultsTypeOK
<1>10. ASSUME NEW bad \in Events, ScanThrows(bad) PROVE TypeOK'
  <2>1. FaultsTypeOK'
    BY <1>10, FaultType DEF TypeOK, ScanThrows
  <2>2. NewOnPage \in SUBSET Events
    BY <1>p DEF NewOnPage, PollTyped
  <2>3. poll' \in Polls /\ poll'.at \in {"idle", "cursor"}
    <3>1. CASE poll' = NoPoll
      BY <3>1, NoPollType
    <3>2. CASE poll' = [poll EXCEPT !.at = "cursor", !.pages = @ + 1]
      <4>1. /\ poll' = [f \in PollFields |-> poll'[f]] /\ PollTyped(poll') /\ poll'.at = "cursor"
        BY <1>p, <1>q, <1>10, <3>2 DEF ScanThrows, PollTyped, PollFields, PollPlaces
      <4> QED
        BY <4>1, PollsIntro
    <3> QED
      BY <1>10, <3>1, <3>2 DEF ScanThrows
  <2>4. held' \in SUBSET Events /\ released' \in SUBSET Events /\ stranded' \in SUBSET held'
    BY <1>10, <2>2 DEF ScanThrows, TypeOK
  <2> QED
    BY <1>10, <2>1, <2>3, <2>4 DEF ScanThrows, TypeOK, world, durable
<1>11. CASE SaveCursor
  <2>1. FaultsTypeOK'
    BY <1>11, FaultType DEF TypeOK, SaveCursor
  <2>2. /\ poll' = [f \in PollFields |-> poll'[f]] /\ PollTyped(poll')
        /\ (poll'.at = "fetch" /\ poll'.pages < MaxPages) \/ poll'.at = "watermark"
    BY <1>p, <1>11 DEF SaveCursor, Continue, PollTyped, PollFields, PollPlaces
  <2>3. poll' \in Polls
    BY <2>2, PollsIntro
  <2>4. cursorCache' \in (SUBSET Events) \cup {Unread} /\ cursorStore' \in SUBSET Events
    BY <1>11, <1>p DEF SaveCursor, TypeOK, PollTyped
  <2> QED
    BY <1>11, <2>1, <2>2, <2>3, <2>4 DEF SaveCursor, TypeOK, world, history
<1>12. CASE SaveMark
  <2>1. FaultsTypeOK'
    BY <1>12, FaultType DEF TypeOK, SaveMark, RowWritten
  <2>2. poll.end \in Marks /\ poll.rest \in SUBSET Events
    BY <1>p DEF PollTyped, Marks
  <2> QED
    BY <1>12, <2>1, <2>2, NoPollType DEF SaveMark, RowWritten, TypeOK, world
<1>13. ASSUME NEW e \in Events, Deliver(e) PROVE TypeOK'
  BY <1>13 DEF Deliver, TypeOK, world, history, FaultsTypeOK
<1>14. ASSUME NEW e \in Events, DeliveryFails(e) PROVE TypeOK'
  <2>1. FaultsTypeOK'
    BY <1>14, FaultType DEF TypeOK, DeliveryFails
  <2> QED
    BY <1>14, <2>1 DEF DeliveryFails, TypeOK, world, durable
<1>15. CASE Crash
  <2>1. FaultsTypeOK'
    BY <1>15, FaultType DEF TypeOK, Crash
  <2> QED
    BY <1>15, <2>1, NoPollType DEF Crash, TypeOK, Marks, world, NoCursor
<1>16. CASE UNCHANGED vars
  BY <1>16 DEF vars, world, durable, memory, history, TypeOK, FaultsTypeOK
<1> QED
  BY <1>1, <1>2, <1>3, <1>4, <1>5, <1>6, <1>7, <1>8, <1>9, <1>10, <1>11, <1>12, <1>13, <1>14,
     <1>15, <1>16 DEF Next, PollStep

\* Every variable keeps its type, for every value of the constants.
THEOREM TypeCorrect == Spec => []TypeOK
  BY InitType, NextType, PTL DEF Spec

-----------------------------------------------------------------------------
(* pollStateCache tells the truth about the table                          *)

LEMMA CacheStep == TypeOK /\ CacheNeverAhead /\ [Next]_vars => CacheNeverAhead'
<1> SUFFICES ASSUME TypeOK, CacheNeverAhead, [Next]_vars PROVE CacheNeverAhead'
  OBVIOUS
<1> USE DEF CacheNeverAhead
<1>1. CASE StartPoll
  <2>1. KnownCursor = IF cursorCache = Unread THEN cursorStore ELSE cursorCache
    BY DEF KnownCursor
  <2> QED
    BY <1>1, <2>1 DEF StartPoll, durable, TypeOK
<1>2. CASE ReadMark
  BY <1>2 DEF ReadMark, durable
<1>3. CASE CursorRejected
  BY <1>3 DEF CursorRejected
<1>4. CASE SaveCursor
  BY <1>4, WindowAssumption DEF SaveCursor, TypeOK
<1>5. CASE SaveMark
  BY <1>5 DEF SaveMark, RowWritten
<1>6. CASE Crash
  BY <1>6 DEF Crash
<1>7. CASE Tick \/ Expire \/ Fetched \/ FetchFails \/ Scan \/ UNCHANGED vars
  BY <1>7 DEF Tick, Expire, Fetched, FetchFails, Scan, vars, durable, memory
<1>8. ASSUME NEW e \in Events, Happen(e) \/ Offer(e) \/ Deliver(e) \/ DeliveryFails(e) \/ ScanThrows(e)
      PROVE  CacheNeverAhead'
  BY <1>8 DEF Happen, Offer, Deliver, DeliveryFails, ScanThrows, durable, memory
<1> QED
  BY <1>1, <1>2, <1>3, <1>4, <1>5, <1>6, <1>7, <1>8 DEF Next, PollStep

\* The cache of samsara_poll_state never holds a value the table does not,
\* whatever reads and writes fail and wherever the process restarts.
THEOREM CacheIsHonest == Spec => []CacheNeverAhead
<1>1. Init => CacheNeverAhead
  BY DEF Init, CacheNeverAhead
<1> QED
  BY <1>1, CacheStep, TypeCorrect, PTL DEF Spec

-----------------------------------------------------------------------------
(* No cursor is past an event that was not picked up                       *)

CursorsBehind ==
  /\ cursorStore \subseteq PickedUp
  /\ cursorCache # Unread => cursorCache \subseteq PickedUp
  /\ poll.cursor \subseteq PickedUp
  /\ poll.at = "scan" => poll.next \subseteq PickedUp \cup poll.page
  /\ poll.at = "cursor" => poll.next \subseteq PickedUp

LEMMA PickedUpGrows ==
  ASSUME TypeOK, [Next]_vars
  PROVE  PickedUp \subseteq PickedUp' /\ leftBehind \subseteq leftBehind' /\ tooOld \subseteq tooOld'
<1> USE DEF PickedUp
<1>1. CASE Tick \/ Expire \/ StartPoll \/ Fetched \/ FetchFails \/ CursorRejected \/ Scan \/ SaveCursor
           \/ Crash \/ SaveMark \/ UNCHANGED vars
  BY <1>1 DEF Tick, Expire, StartPoll, Fetched, FetchFails, CursorRejected, Scan, SaveCursor,
              Crash, SaveMark, vars, durable, memory, history
<1>2. CASE ReadMark
  BY <1>2 DEF ReadMark, Requested, durable
<1>3. ASSUME NEW e \in Events, Happen(e) \/ Offer(e) \/ Deliver(e) \/ DeliveryFails(e) \/ ScanThrows(e)
      PROVE  PickedUp \subseteq PickedUp' /\ leftBehind \subseteq leftBehind' /\ tooOld \subseteq tooOld'
  BY <1>3 DEF Happen, Offer, Deliver, DeliveryFails, ScanThrows, durable, memory, history
<1> QED
  BY <1>1, <1>2, <1>3 DEF Next, PollStep

LEMMA CursorStep == TypeOK /\ CursorsBehind /\ [Next]_vars => CursorsBehind'
<1> SUFFICES ASSUME TypeOK, CursorsBehind, [Next]_vars PROVE CursorsBehind'
  OBVIOUS
<1>g. PickedUp \subseteq PickedUp'
  BY PickedUpGrows
<1>p. poll = [f \in PollFields |-> poll[f]] /\ PollTyped(poll)
  BY PollsElim DEF TypeOK
<1>n. NoPoll = [f \in PollFields |-> NoPoll[f]]
  BY NoPollType, PollsElim
<1>k. KnownCursor \subseteq PickedUp
  BY DEF CursorsBehind, KnownCursor
<1>1. CASE StartPoll
  <2>1. poll'.at = "mark" /\ (poll'.cursor = KnownCursor \/ poll'.cursor = {})
    BY <1>1, <1>n, NoPollType DEF StartPoll, PollFields
  <2> QED
    BY <1>1, <1>g, <1>k, <2>1 DEF StartPoll, CursorsBehind, durable
<1>2. CASE ReadMark
  <2>1. poll'.at = "fetch" /\ poll'.cursor = poll.cursor
    BY <1>2, <1>p DEF ReadMark, Requested, PollFields
  <2> QED
    BY <1>2, <1>g, <2>1 DEF ReadMark, CursorsBehind, durable
<1>3. CASE Fetched
  <2>1. /\ poll'.at = "scan" /\ poll'.cursor = poll.cursor
        /\ poll'.next \subseteq poll.cursor \cup poll'.page
    BY <1>3, <1>p DEF Fetched, PollFields, NoCursor
  <2> QED
    BY <1>3, <1>g, <2>1 DEF Fetched, CursorsBehind, durable
<1>4. CASE FetchFails \/ CursorRejected
  BY <1>4, <1>g, NoPollType DEF FetchFails, CursorRejected, CursorsBehind, durable, NoCursor
<1>5. CASE Scan
  <2>1. /\ poll.at = "scan" /\ poll'.at = "cursor" /\ poll'.cursor = poll.cursor
        /\ poll'.next = poll.next
    BY <1>5, <1>p DEF Scan, PollFields
  <2>2. poll.page \subseteq PickedUp'
    BY <1>5 DEF Scan, NewOnPage, PickedUp, durable, history
  <2> QED
    BY <1>5, <1>g, <2>1, <2>2 DEF Scan, CursorsBehind, durable
<1>6. ASSUME NEW bad \in Events, ScanThrows(bad) PROVE CursorsBehind'
  <2>1. CASE poller = "safety"
    BY <1>6, <1>g, <2>1, NoPollType DEF ScanThrows, CursorsBehind, durable
  <2>2. CASE poller # "safety"
    <3>1. /\ poll.at = "scan" /\ poll'.at = "cursor" /\ poll'.cursor = poll.cursor
          /\ poll'.next = poll.next
      BY <1>6, <2>2, <1>p DEF ScanThrows, PollFields
    <3>2. poll.page \subseteq PickedUp'
      BY <1>6, <2>2 DEF ScanThrows, NewOnPage, PickedUp, durable, history
    <3> QED
      BY <1>6, <1>g, <3>1, <3>2 DEF ScanThrows, CursorsBehind, durable
  <2> QED
    BY <2>1, <2>2
<1>7. CASE SaveCursor
  <2>1. poll'.at \in {"fetch", "watermark"} /\ poll'.cursor \in {poll.cursor, poll.next}
    BY <1>7, <1>p DEF SaveCursor, Continue, PollFields
  <2>2. poll.next \subseteq PickedUp /\ poll.cursor \subseteq PickedUp
    BY <1>7 DEF SaveCursor, CursorsBehind
  <2> QED
    BY <1>7, <1>g, <2>1, <2>2 DEF SaveCursor, CursorsBehind
<1>8. CASE SaveMark
  BY <1>8, <1>g, NoPollType DEF SaveMark, CursorsBehind
<1>9. CASE Crash
  BY <1>9, <1>g, NoPollType DEF Crash, CursorsBehind, NoCursor
<1>10. CASE Tick \/ Expire \/ UNCHANGED vars
  BY <1>10, <1>g DEF Tick, Expire, vars, durable, memory, CursorsBehind
<1>11. ASSUME NEW e \in Events, Happen(e) \/ Offer(e) \/ Deliver(e) \/ DeliveryFails(e)
       PROVE  CursorsBehind'
  BY <1>11, <1>g DEF Happen, Offer, Deliver, DeliveryFails, durable, memory, CursorsBehind
<1> QED
  BY <1>1, <1>2, <1>3, <1>4, <1>5, <1>6, <1>7, <1>8, <1>9, <1>10, <1>11 DEF Next, PollStep

\* The cursor is saved after the page it ends: neither the stored cursor nor
\* the one in memory is ever past an event that was not picked up.
THEOREM CursorsAreBehind == Spec => []CursorNotPastPickUp
<1>1. Init => CursorsBehind
  BY NoPollType DEF Init, CursorsBehind, NoCursor
<1>2. CursorsBehind => CursorNotPastPickUp
  BY DEF CursorsBehind, CursorNotPastPickUp, KnownCursor
<1> QED
  BY <1>1, <1>2, CursorStep, TypeCorrect, PTL DEF Spec

-----------------------------------------------------------------------------
(* Every event out of reach and out of hand is explained                   *)

\* Nothing more is owed to the event by the windows to come.
Clear(e)   == e \in PickedUp \cup leftBehind \cup tooOld \/ Late(e)
Waiting(e) == offered[e] # NoTime /\ ~Clear(e)

\* The watermarks a later window may start from.
KnownTimes == {mark, markRow, stateCache} \cap Times

ClockOrder ==
  /\ \A e \in Events : happened[e] # NoTime => happened[e] <= now
  /\ \A e \in Events : offered[e] # NoTime => happened[e] # NoTime
  /\ \A m \in KnownTimes : m <= now
  /\ poll.end <= now
  /\ poll.start = 0 \/ poll.start + Overlap <= now

\* Every watermark is at most one overlap past every waiting event.
MarksReach ==
  \A e \in Events : Waiting(e) => \A m \in KnownTimes : m <= happened[e] + Overlap

\* The window of the poll under way starts before every waiting event.
StartReaches ==
  poll.at \in {"fetch", "scan", "cursor", "watermark"} =>
    \A e \in Events : Waiting(e) => poll.start <= happened[e]

\* A waiting event inside the window is on the page, or past it.
AnswerComplete ==
  \A e \in Events :
    Waiting(e) /\ happened[e] <= poll.end =>
      /\ poll.at = "scan" => e \in poll.page \cup poll.rest
      /\ poll.at \in {"cursor", "watermark"} => e \in poll.rest

WindowInv ==
  TypeOK /\ CursorsBehind /\ ClockOrder /\ MarksReach /\ StartReaches /\ AnswerComplete

LEMMA WorldTimes ==
  ASSUME TypeOK, NEW e \in Events
  PROVE  /\ happened[e] \in Times \cup {NoTime} /\ offered[e] \in Times \cup {NoTime}
         /\ now \in Times /\ poll.end \in Times /\ poll.start \in Times
         /\ NoTime \notin Times /\ Unread \notin Times \cup {NoTime}
         /\ \A t \in Times : t \in Nat
  BY PollsElim, WindowAssumption DEF TypeOK, Marks, PollTyped, Times

\* What the world did to an event stays as it was.
LEMMA WorldKeeps ==
  ASSUME TypeOK, ClockOrder, [Next]_vars, NEW e \in Events, offered[e] # NoTime
  PROVE  happened'[e] = happened[e] /\ offered'[e] = offered[e] /\ (Late(e) => Late(e)')
<1>1. happened[e] # NoTime
  BY DEF ClockOrder
<1>2. CASE Tick \/ Expire \/ PollStep \/ Crash \/ UNCHANGED vars
  BY <1>2 DEF Tick, Expire, PollStep, StartPoll, ReadMark, Fetched, FetchFails, CursorRejected,
              Scan, ScanThrows, SaveCursor, SaveMark, Crash, vars, world, Late
<1>3. ASSUME NEW d \in Events, Happen(d) \/ Offer(d) \/ Deliver(d) \/ DeliveryFails(d)
      PROVE  happened'[e] = happened[e] /\ offered'[e] = offered[e]
  BY <1>1, <1>3 DEF Happen, Offer, Deliver, DeliveryFails, TypeOK, world
<1> QED
  BY <1>2, <1>3 DEF Next, Late

\* An event that waits after a step waited before it, or is offered by it.
LEMMA WaitingShrinks ==
  ASSUME TypeOK, ClockOrder, [Next]_vars, NEW e \in Events, Waiting(e)'
  PROVE  \/ Waiting(e) /\ happened'[e] = happened[e]
         \/ /\ Offer(e) /\ happened'[e] = happened[e] /\ happened[e] # NoTime
            /\ now <= happened[e] + Overlap
<1>1. CASE offered[e] # NoTime
  BY <1>1, WorldKeeps, PickedUpGrows DEF Waiting, Clear
<1>2. CASE offered[e] = NoTime
  <2>1. Offer(e)
    <3>1. CASE Tick \/ Expire \/ PollStep \/ Crash \/ UNCHANGED vars
      BY <1>2, <3>1 DEF Tick, Expire, PollStep, StartPoll, ReadMark, Fetched, FetchFails,
           CursorRejected, Scan, ScanThrows, SaveCursor, SaveMark, Crash, vars, world, Waiting
    <3>2. ASSUME NEW d \in Events, Happen(d) \/ Offer(d) \/ Deliver(d) \/ DeliveryFails(d)
          PROVE  Offer(e)
      BY <1>2, <3>2 DEF Happen, Offer, Deliver, DeliveryFails, world, TypeOK, Waiting
    <3> QED
      BY <3>1, <3>2 DEF Next
  <2>2. happened'[e] = happened[e] /\ happened[e] # NoTime /\ offered'[e] = now
    BY <2>1 DEF Offer, TypeOK
  <2>3. ~Late(e)'
    BY DEF Waiting, Clear
  <2> QED
    BY <2>1, <2>2, <2>3, WorldTimes, WindowAssumption DEF Late
<1> QED
  BY <1>1, <1>2
\* A watermark moves to the end of a window by SaveMark, and otherwise only
\* between the places it is kept in.
LEMMA MarksMove ==
  ASSUME TypeOK, [Next]_vars
  PROVE  \/ KnownTimes' \subseteq KnownTimes
         \/ SaveMark /\ KnownTimes' \subseteq KnownTimes \cup {poll.end}
<1> USE DEF KnownTimes
<1>1. CASE SaveMark
  BY <1>1 DEF SaveMark, RowWritten
<1>2. CASE ReadMark
  BY <1>2 DEF ReadMark, durable
<1>3. CASE Crash
  BY <1>3, WindowAssumption DEF Crash, Times
<1>4. CASE Tick \/ Expire \/ StartPoll \/ Fetched \/ FetchFails \/ CursorRejected \/ Scan \/ SaveCursor
           \/ UNCHANGED vars
  BY <1>4 DEF Tick, Expire, StartPoll, Fetched, FetchFails, CursorRejected, Scan, SaveCursor,
              vars, durable, memory
<1>5. ASSUME NEW e \in Events, Happen(e) \/ Offer(e) \/ Deliver(e) \/ DeliveryFails(e) \/ ScanThrows(e)
      PROVE  KnownTimes' \subseteq KnownTimes
  BY <1>5 DEF Happen, Offer, Deliver, DeliveryFails, ScanThrows, durable, memory
<1> QED
  BY <1>1, <1>2, <1>3, <1>4, <1>5 DEF Next, PollStep

\* The watermark a request is made from is one of the known ones, or none.
LEMMA ReadsKnownMark ==
  ASSUME TypeOK, ReadMark
  PROVE  \E m \in KnownTimes \cup {NoTime} : Requested(m) /\ m \in Marks
  BY WindowAssumption DEF ReadMark, KnownTimes, TypeOK, Marks

\* What a step does to the request under way.
LEMMA RequestKept ==
  ASSUME TypeOK, [Next]_vars
  PROVE  \/ poll' = poll
         \/ poll' = NoPoll
         \/ StartPoll /\ poll'.at = "mark" /\ poll'.start = 0 /\ poll'.end = now
         \/ ReadMark /\ poll.at = "mark" /\ poll'.at = "fetch" /\ poll'.end = poll.end
         \/ /\ poll.at \in {"fetch", "scan", "cursor"}
            /\ poll'.start = poll.start /\ poll'.end = poll.end
<1>p. poll = [f \in PollFields |-> poll[f]] /\ PollTyped(poll)
  BY PollsElim DEF TypeOK
<1>n. NoPoll = [f \in PollFields |-> NoPoll[f]]
  BY NoPollType, PollsElim
<1>1. CASE StartPoll
  BY <1>1, <1>n, NoPollType DEF StartPoll, PollFields
<1>2. CASE ReadMark
  BY <1>2, <1>p DEF ReadMark, Requested, PollFields
<1>3. CASE Fetched
  BY <1>3, <1>p DEF Fetched, PollFields
<1>4. CASE Scan
  BY <1>4, <1>p DEF Scan, PollFields
<1>5. CASE SaveCursor
  BY <1>5, <1>p DEF SaveCursor, Continue, PollFields
<1>6. ASSUME NEW bad \in Events, ScanThrows(bad)
      PROVE  \/ poll' = NoPoll
             \/ /\ poll.at \in {"fetch", "scan", "cursor"}
                /\ poll'.start = poll.start /\ poll'.end = poll.end
  BY <1>6, <1>p DEF ScanThrows, PollFields
<1>7. CASE FetchFails \/ CursorRejected \/ SaveMark \/ Crash
  BY <1>7 DEF FetchFails, CursorRejected, SaveMark, Crash
<1>8. CASE Tick \/ Expire \/ UNCHANGED vars
  BY <1>8 DEF Tick, Expire, vars, memory
<1>9. ASSUME NEW e \in Events, Happen(e) \/ Offer(e) \/ Deliver(e) \/ DeliveryFails(e)
      PROVE  poll' = poll
  BY <1>9 DEF Happen, Offer, Deliver, DeliveryFails, memory
<1> QED
  BY <1>1, <1>2, <1>3, <1>4, <1>5, <1>6, <1>7, <1>8, <1>9 DEF Next, PollStep

LEMMA ClockStep == TypeOK /\ ClockOrder /\ [Next]_vars => ClockOrder'
<1> SUFFICES ASSUME TypeOK, ClockOrder, [Next]_vars PROVE ClockOrder'
  OBVIOUS
<1>t. now \in Nat /\ now' \in Nat /\ now <= now'
  <2>1. TypeOK'
    BY NextType
  <2>2. now \in Nat /\ now' \in Nat
    BY <2>1, WindowAssumption DEF TypeOK, Times
  <2>3. now' = now \/ now' = now + 1
    BY DEF Next, PollStep, Tick, Expire, StartPoll, ReadMark, Fetched, FetchFails, CursorRejected,
         Scan, ScanThrows, SaveCursor, SaveMark, Crash, Happen, Offer, Deliver, DeliveryFails, vars
  <2> QED
    BY <2>2, <2>3
<1>w. \A e \in Events : /\ happened'[e] \in {happened[e], now}
                        /\ offered'[e] # NoTime => happened'[e] # NoTime
  <2>1. CASE Tick \/ Expire \/ PollStep \/ Crash \/ UNCHANGED vars
    BY <2>1 DEF Tick, Expire, PollStep, StartPoll, ReadMark, Fetched, FetchFails, CursorRejected,
                Scan, ScanThrows, SaveCursor, SaveMark, Crash, vars, world, ClockOrder
  <2>2. ASSUME NEW d \in Events, Happen(d) \/ Offer(d) \/ Deliver(d) \/ DeliveryFails(d),
               NEW e \in Events
        PROVE  /\ happened'[e] \in {happened[e], now}
               /\ offered'[e] # NoTime => happened'[e] # NoTime
    BY <2>2, WorldTimes DEF Happen, Offer, Deliver, DeliveryFails, world, TypeOK, ClockOrder
  <2> QED
    BY <2>1, <2>2 DEF Next
<1>1. \A e \in Events : happened'[e] # NoTime => happened'[e] <= now'
  BY <1>t, <1>w, WorldTimes DEF ClockOrder
<1>2. \A m \in KnownTimes' : m <= now'
  <2>1. \A m \in KnownTimes' : m \in Times /\ m <= now
    BY MarksMove, PollsElim DEF ClockOrder, KnownTimes, TypeOK, PollTyped
  <2> QED
    BY <1>t, <2>1, WindowAssumption DEF Times
<1>3. poll'.end <= now' /\ (poll'.start = 0 \/ poll'.start + Overlap <= now')
  <2>p. poll.start \in Nat /\ poll.end \in Nat
    BY PollsElim, WindowAssumption DEF TypeOK, PollTyped, Times
  <2>0. poll.end <= now /\ (poll.start = 0 \/ poll.start + Overlap <= now)
    BY DEF ClockOrder
  <2>1. CASE ReadMark
    <3>1. PICK m \in KnownTimes \cup {NoTime} : Requested(m) /\ m \in Marks
      BY <2>1, ReadsKnownMark
    <3>2. poll'.start = StartOf(m) /\ poll'.end = poll.end
      BY <3>1, PollsElim DEF Requested, PollFields, TypeOK
    <3>3. m # NoTime => m <= now /\ m \in Nat
      BY <3>1, WindowAssumption DEF ClockOrder, KnownTimes, Times
    <3>4. StartOf(m) = 0 \/ StartOf(m) + Overlap <= now
      BY <1>t, <3>1, <3>3, StartType, WindowAssumption DEF TypeOK
    <3> QED
      BY <1>t, <2>0, <2>p, <3>2, <3>4, StartType, <3>1, WindowAssumption DEF TypeOK, Times
  <2>2. CASE ~ReadMark
    BY <1>t, <2>0, <2>p, <2>2, RequestKept, NoPollType, WindowAssumption
  <2> QED
    BY <2>1, <2>2
<1> QED
  BY <1>w, <1>1, <1>2, <1>3 DEF ClockOrder

LEMMA MarksStep ==
  TypeOK /\ ClockOrder /\ MarksReach /\ AnswerComplete /\ [Next]_vars => MarksReach'
<1> SUFFICES ASSUME TypeOK, ClockOrder, MarksReach, AnswerComplete, [Next]_vars,
                    NEW e \in Events, Waiting(e)', NEW m \in KnownTimes'
             PROVE  m <= happened'[e] + Overlap
  BY DEF MarksReach
<1>t. m \in Nat /\ (happened[e] # NoTime => happened[e] \in Nat)
  BY WorldTimes DEF KnownTimes
<1>1. CASE m \in KnownTimes
  <2>1. m <= now /\ now \in Nat
    BY <1>1, WorldTimes DEF ClockOrder
  <2>2. CASE Waiting(e) /\ happened'[e] = happened[e]
    BY <1>1, <2>2 DEF MarksReach
  <2>3. CASE Offer(e) /\ happened'[e] = happened[e] /\ happened[e] # NoTime /\ now <= happened[e] + Overlap
    BY <1>t, <2>1, <2>3, WindowAssumption
  <2> QED
    BY <2>2, <2>3, WaitingShrinks
<1>2. CASE m \notin KnownTimes
  <2>1. SaveMark /\ m = poll.end /\ poll.end \in Nat
    BY <1>2, MarksMove, WorldTimes
  <2>2. Waiting(e) /\ happened'[e] = happened[e]
    <3>1. ~Offer(e)
      BY <2>1 DEF SaveMark, Offer, WorldMoves
    <3> QED
      BY <3>1, WaitingShrinks
  <2>3. e \notin poll.rest
    BY <2>1 DEF SaveMark, Waiting, Clear
  <2>4. ~(happened[e] <= poll.end)
    BY <2>1, <2>2, <2>3 DEF AnswerComplete, SaveMark
  <2>5. happened[e] \in Nat
    BY <1>t, <2>2 DEF Waiting, ClockOrder
  <2> QED
    BY <2>1, <2>2, <2>4, <2>5, WindowAssumption
<1> QED
  BY <1>1, <1>2
LEMMA StartStep ==
  TypeOK /\ ClockOrder /\ MarksReach /\ StartReaches /\ [Next]_vars => StartReaches'
<1> SUFFICES ASSUME TypeOK, ClockOrder, MarksReach, StartReaches, [Next]_vars,
                    poll'.at \in {"fetch", "scan", "cursor", "watermark"},
                    NEW e \in Events, Waiting(e)'
             PROVE  poll'.start <= happened'[e]
  BY DEF StartReaches
<1>t. /\ now \in Nat /\ poll.start \in Nat
      /\ offered[e] # NoTime \/ Offer(e) => happened[e] \in Nat
  BY WorldTimes DEF ClockOrder, Offer
<1>1. CASE ReadMark
  <2>1. PICK m \in KnownTimes \cup {NoTime} : Requested(m) /\ m \in Marks
    BY <1>1, ReadsKnownMark
  <2>2. poll'.start = StartOf(m)
    BY <2>1, PollsElim DEF Requested, PollFields, TypeOK
  <2>3. Waiting(e) /\ happened'[e] = happened[e] /\ happened[e] # NoTime
    <3>1. ~Offer(e)
      BY <1>1 DEF ReadMark, Offer, world, Waiting
    <3> QED
      BY <3>1, WaitingShrinks DEF Waiting, ClockOrder
  <2>4. CASE m = NoTime
    <3>1. e \notin tooOld'
      BY DEF Waiting, Clear
    <3>2. ~(happened[e] < StartOf(m))
      BY <2>1, <2>3, <2>4, <3>1 DEF Requested
    <3>3. StartOf(m) \in Nat
      BY <2>1, StartType, WorldTimes DEF TypeOK
    <3> QED
      BY <1>t, <2>2, <2>3, <3>2, <3>3 DEF Waiting
  <2>5. CASE m # NoTime
    <3>1. m \in Nat /\ m <= happened[e] + Overlap
      BY <2>1, <2>3, <2>5, WorldTimes DEF MarksReach, KnownTimes
    <3>2. StartOf(m) = IF m < Overlap THEN 0 ELSE m - Overlap
      BY <2>1, <2>5, StartType DEF TypeOK
    <3> QED
      BY <1>t, <2>2, <2>3, <3>1, <3>2, WindowAssumption DEF Waiting
  <2> QED
    BY <2>4, <2>5
<1>2. CASE ~ReadMark
  <2>1. poll.at \in {"fetch", "scan", "cursor", "watermark"} /\ poll'.start = poll.start
    BY <1>2, RequestKept, NoPollType
  <2>2. CASE Waiting(e) /\ happened'[e] = happened[e]
    BY <2>1, <2>2 DEF StartReaches
  <2>3. CASE Offer(e) /\ happened'[e] = happened[e] /\ now <= happened[e] + Overlap
    BY <1>t, <2>1, <2>3, WindowAssumption DEF ClockOrder
  <2> QED
    BY <2>2, <2>3, WaitingShrinks
<1> QED
  BY <1>1, <1>2

LEMMA AnswerStep ==
  TypeOK /\ CursorsBehind /\ ClockOrder /\ StartReaches /\ AnswerComplete /\ [Next]_vars
    => AnswerComplete'
<1> SUFFICES ASSUME TypeOK, CursorsBehind, ClockOrder, StartReaches, AnswerComplete, [Next]_vars,
                    NEW e \in Events, Waiting(e)', happened'[e] <= poll'.end,
                    poll'.at \in {"scan", "cursor", "watermark"}
             PROVE  e \in poll'.rest \/ (poll'.at = "scan" /\ e \in poll'.page)
  BY DEF AnswerComplete
<1>p. poll = [f \in PollFields |-> poll[f]] /\ PollTyped(poll)
  BY PollsElim DEF TypeOK
<1>w. Waiting(e) /\ happened'[e] = happened[e]
  <2>1. ~Offer(e)
    BY DEF Offer, WorldMoves, memory
  <2> QED
    BY <2>1, WaitingShrinks
<1>u. e \notin PickedUp'
  BY DEF Waiting, Clear
<1>1. CASE Fetched
  <2>1. poll'.at = "scan" /\ poll'.rest = Matching \ poll'.page /\ poll'.end = poll.end
    BY <1>1, <1>p DEF Fetched, PollFields
  <2>2. e \notin poll.cursor
    BY <1>w DEF Waiting, Clear, CursorsBehind
  <2>3. poll.start <= happened[e]
    BY <1>1, <1>w DEF StartReaches, Fetched
  <2>4. e \in Matching
    BY <1>w, <2>1, <2>2, <2>3 DEF Matching, InWindow, Waiting
  <2> QED
    BY <2>1, <2>4
<1>2. CASE Scan
  <2>1. /\ poll.at = "scan" /\ poll'.at = "cursor" /\ poll'.end = poll.end
        /\ poll'.rest = poll.rest
    BY <1>2, <1>p DEF Scan, PollFields
  <2>2. poll.page \subseteq PickedUp'
    BY <1>2 DEF Scan, NewOnPage, PickedUp, durable, history
  <2> QED
    BY <1>w, <1>u, <2>1, <2>2 DEF AnswerComplete
<1>3. ASSUME NEW bad \in Events, ScanThrows(bad)
      PROVE  e \in poll'.rest
  <2>1. CASE poller = "safety"
    BY <1>3, <2>1, NoPollType DEF ScanThrows
  <2>2. CASE poller # "safety"
    <3>1. /\ poll.at = "scan" /\ poll'.at = "cursor" /\ poll'.end = poll.end
          /\ poll'.rest = poll.rest
      BY <1>3, <2>2, <1>p DEF ScanThrows, PollFields
    <3>2. poll.page \subseteq PickedUp'
      BY <1>3, <2>2 DEF ScanThrows, NewOnPage, PickedUp, durable, history
    <3> QED
      BY <1>w, <1>u, <3>1, <3>2 DEF AnswerComplete
  <2> QED
    BY <2>1, <2>2
<1>4. CASE SaveCursor
  <2>1. /\ poll.at = "cursor" /\ poll'.end = poll.end /\ poll'.rest = poll.rest
    BY <1>4, <1>p DEF SaveCursor, Continue, PollFields
  <2> QED
    BY <1>w, <2>1 DEF AnswerComplete
<1>5. CASE poll' = poll
  BY <1>w, <1>5 DEF AnswerComplete
<1>6. CASE StartPoll \/ ReadMark
  BY <1>6, RequestKept, NoPollType, <1>p DEF StartPoll, ReadMark, Requested, PollFields
<1>7. CASE poll' = NoPoll
  BY <1>7, NoPollType
<1>8. CASE FetchFails \/ CursorRejected \/ SaveMark \/ Crash
  BY <1>7, <1>8 DEF FetchFails, CursorRejected, SaveMark, Crash
<1>9. CASE Tick \/ Expire \/ UNCHANGED vars
  BY <1>5, <1>9 DEF Tick, Expire, vars, memory
<1>10. ASSUME NEW d \in Events, Happen(d) \/ Offer(d) \/ Deliver(d) \/ DeliveryFails(d)
       PROVE  poll' = poll
  BY <1>10 DEF Happen, Offer, Deliver, DeliveryFails, memory
<1> QED
  BY <1>1, <1>2, <1>3, <1>4, <1>5, <1>6, <1>8, <1>9, <1>10 DEF Next, PollStep

LEMMA InitWindow == Init => WindowInv
<1> SUFFICES ASSUME Init PROVE WindowInv
  OBVIOUS
<1>1. TypeOK
  BY InitType
<1>2. \A e \in Events : happened[e] = NoTime /\ offered[e] = NoTime
  BY DEF Init
<1>3. KnownTimes = {}
  BY WindowAssumption DEF Init, KnownTimes, Times
<1>4. poll = NoPoll /\ now = 0 /\ cursorStore = {} /\ cursorCache = Unread
  BY DEF Init, NoCursor
<1> QED
  BY <1>1, <1>2, <1>3, <1>4, NoPollType
     DEF WindowInv, CursorsBehind, ClockOrder, MarksReach, StartReaches, AnswerComplete, Waiting

LEMMA NextWindow == WindowInv /\ [Next]_vars => WindowInv'
  BY NextType, CursorStep, ClockStep, MarksStep, StartStep, AnswerStep DEF WindowInv

\* A waiting event is within reach of the next poll.
LEMMA WindowImpliesExplained == WindowInv => LossExplained
<1> SUFFICES ASSUME WindowInv, NEW e \in Events, offered[e] # NoTime, ~Explained(e),
                    e \notin processed \cup held
             PROVE  InReach(e)
  BY DEF LossExplained
<1>1. Waiting(e) /\ happened[e] # NoTime
  BY DEF Waiting, Clear, PickedUp, Explained, Late, WindowInv, ClockOrder
<1>2. KnownMark \in KnownTimes /\ KnownMark \in Marks /\ KnownMark # NoTime
  BY DEF Explained, KnownMark, KnownTimes, WindowInv, TypeOK, Marks
<1>3. e \notin KnownCursor
  BY <1>1 DEF WindowInv, CursorsBehind, KnownCursor, Waiting, Clear
<1>4. KnownMark <= happened[e] + Overlap /\ happened[e] \in Nat /\ KnownMark \in Nat
  BY <1>1, <1>2, WorldTimes DEF WindowInv, MarksReach, KnownTimes
<1>5. StartOf(KnownMark) = IF KnownMark < Overlap THEN 0 ELSE KnownMark - Overlap
  BY <1>2, StartType DEF WindowInv, TypeOK
<1> QED
  BY <1>3, <1>4, <1>5, WindowAssumption DEF InReach

\* Between polls an event on offer is delivered, held or within reach of the
\* next poll, unless it came later than the overlap, was let go of, lay past
\* the last page read, or was older than a window that began with no watermark.
THEOREM LossesExplained == Spec => []LossExplained
<1>1. Spec => []WindowInv
  BY InitWindow, NextWindow, PTL DEF Spec
<1> QED
  BY <1>1, WindowImpliesExplained, PTL
=============================================================================
