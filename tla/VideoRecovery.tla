---------------------------- MODULE VideoRecovery ----------------------------
(***************************************************************************)
(* The durable recovery of missing videos: the rows of                     *)
(* samsara_video_recovery_jobs (src/videoRecoveryStore.js) and the workers *)
(* that claim and advance them (src/videoRecoveryWorker.js,                *)
(* src/videoBackfill.js).  A worker is one process; the code runs one.     *)
(*                                                                         *)
(* Every await that reaches the database, Samsara or Telegram is a step    *)
(* boundary.  What a worker holds across them is the copy of the row its   *)
(* claim returned, so rows may move on under a worker that is slow.        *)
(*                                                                         *)
(* Abstracted: the clock (a row comes due, and the mark of a claim goes    *)
(* stale, at some time after it is written); urls, windows and captions;   *)
(* the event re-read, the retrieval check and the media listing, which     *)
(* only read, are one look that finds the clip or does not; the music      *)
(* overlay, which falls back to the original clip.  The catch around       *)
(* processJob is unreachable: each of its calls catches its own errors.    *)
(***************************************************************************)
EXTENDS Faults, FiniteSets

CONSTANTS
  Jobs,         \* safety events that were delivered without video
  Chats,        \* Telegram chats
  TargetsOf,    \* TargetsOf[j]: the chats whose text waits for the video of j
  DriverGroups, \* the chats reached by the driver bot
  Dual,         \* jobs whose clip comes from both cameras
  Traceable,    \* jobs whose event names a vehicle and a time
  Workers,      \* processes running a worker
  Batch,        \* rows one tick may claim
  MaxAttempts,  \* cfg.videoRecoveryMaxAttempts
  NoJob, NoChat

ASSUME RecoveryAssumption ==
  /\ TargetsOf \in [Jobs -> (SUBSET Chats) \ {{}}]
  /\ DriverGroups \subseteq Chats
  /\ Dual \subseteq Jobs
  /\ Traceable \subseteq Jobs
  /\ Batch \in Nat \ {0}
  /\ MaxAttempts \in Nat \ {0}
  /\ NoJob \notin Jobs
  /\ NoChat \notin Chats

VARIABLES
  rows,         \* the table, by job
  work,         \* what each worker is doing
  footage,      \* jobs whose clip Samsara can be found to hold
  switchedOff,  \* driver groups switched off in Wenze
  videos,       \* history: how many videos of j chat c received
  text,         \* the chats that still show the text of j
  asks,         \* history: how many retrievals of j Samsara has accepted
  excuse,       \* history: how many faults explain a further video of j in c
  unrecorded,   \* history: how many requests for j its row does not show
  past,         \* history: driver groups that were at some time switched off
  outlived      \* history: jobs whose claim went stale while a worker held them

history == <<videos, text, asks, excuse, unrecorded, past, outlived>>
world   == <<footage, switchedOff>>
vars    == <<rows, work, world, history, faults>>

Open     == {"pending_recheck", "pending_retrieval", "video_available"}
Terminal == {"completed", "no_video", "failed"}

\* due: next_check_at has passed.  retrieval, asked: retrieval_id and
\* retrieval_requested_at are set.  lock: locked_at is null, recent, or older
\* than STALE_LOCK_MS.
Rows ==
  [status : Open \cup Terminal \cup {"absent"}, due : BOOLEAN, attempts : Nat,
   retrieval : BOOLEAN, asked : BOOLEAN, targets : SUBSET Chats,
   lock : {"free", "fresh", "stale"}]

NoRow == [status |-> "absent", due |-> FALSE, attempts |-> 0, retrieval |-> FALSE,
          asked |-> FALSE, targets |-> {}, lock |-> "free"]

\* claimed: the rows as the claim returned them.  queue: those not processed
\* yet.  job: the one in hand.  todo: chats still to send to; left: chats that
\* remain without video; posted: chats that got one from this step.  single:
\* the chat in hand has fallen back to one clip.  asking: the outcome of this
\* step's retrieval request.
Idle == [at |-> "idle", claimed |-> [j \in Jobs |-> NoRow], queue |-> {}, job |-> NoJob,
         found |-> FALSE, todo |-> {}, left |-> {}, posted |-> {}, chat |-> NoChat,
         single |-> FALSE, asking |-> "no"]

WorkStates == {"idle", "pick", "look", "ask", "switches", "send", "delete", "record"}

Asking == {"no", "refused", "unknown", "accepted", "named"}

Works ==
  [at : WorkStates, claimed : [Jobs -> Rows], queue : SUBSET Jobs, job : Jobs \cup {NoJob},
   found : BOOLEAN, todo : SUBSET Chats, left : SUBSET Chats, posted : SUBSET Chats,
   chat : Chats \cup {NoChat}, single : BOOLEAN, asking : Asking]

TypeOK ==
  /\ FaultsTypeOK
  /\ rows \in [Jobs -> Rows]
  /\ \A j \in Jobs : j \in outlived \/ rows[j].attempts < MaxAttempts
  /\ work \in [Workers -> Works]
  /\ footage \in SUBSET Jobs
  /\ switchedOff \in SUBSET DriverGroups
  /\ videos \in [Jobs -> [Chats -> Nat]]
  /\ text \in [Jobs -> SUBSET Chats]
  /\ asks \in [Jobs -> Nat]
  /\ excuse \in [Jobs -> [Chats -> Nat]]
  /\ unrecorded \in [Jobs -> Nat]
  /\ past \in SUBSET DriverGroups
  /\ outlived \in SUBSET Jobs

Init ==
  /\ FaultsInit
  /\ rows = [j \in Jobs |-> NoRow]
  /\ work = [w \in Workers |-> Idle]
  /\ footage = {}
  /\ switchedOff = {}
  /\ videos = [j \in Jobs |-> [c \in Chats |-> 0]]
  /\ text = TargetsOf
  /\ asks = [j \in Jobs |-> 0]
  /\ excuse = [j \in Jobs |-> [c \in Chats |-> 0]]
  /\ unrecorded = [j \in Jobs |-> 0]
  /\ past = {}
  /\ outlived = {}

-----------------------------------------------------------------------------
(* Around the workers                                                      *)

\* enqueueVideoRecovery after a clean delivery run; INSERT ... ON CONFLICT DO
\* NOTHING makes every later call for the event a no-op.
Enqueue(j) ==
  /\ rows[j].status = "absent"
  /\ rows' = [rows EXCEPT ![j].status = "pending_recheck", ![j].targets = TargetsOf[j]]
  /\ UNCHANGED <<work, world, history, faults>>

\* The initial delay, or the retry interval, passes.
ComesDue(j) ==
  /\ rows[j].status \in Open /\ ~rows[j].due
  /\ rows' = [rows EXCEPT ![j].due = TRUE]
  /\ UNCHANGED <<work, world, history, faults>>

Holds(w, j) == j \in work[w].queue \/ j = work[w].job

\* Ten minutes pass over a claim.  As long as a worker still holds it, this is
\* a fault: a batch that takes that long.
LockGoesStale(j) ==
  /\ rows[j].lock = "fresh"
  /\ IF \E w \in Workers : Holds(w, j)
     THEN Fault("slow") /\ outlived' = outlived \cup {j}
     ELSE NoFault /\ UNCHANGED outlived
  /\ rows' = [rows EXCEPT ![j].lock = "stale"]
  /\ UNCHANGED <<work, world, videos, text, asks, excuse, unrecorded, past>>

\* The camera uploads its clip, or Samsara produces the one it was asked for.
ClipAppears(j) ==
  /\ j \notin footage
  /\ footage' = footage \cup {j}
  /\ UNCHANGED <<rows, work, switchedOff, history, faults>>

FlipSwitch(c) ==
  /\ switchedOff' = IF c \in switchedOff THEN switchedOff \ {c} ELSE switchedOff \cup {c}
  /\ past' = past \cup {c}
  /\ UNCHANGED <<rows, work, footage, videos, text, asks, excuse, unrecorded, outlived, faults>>

-----------------------------------------------------------------------------
(* A tick                                                                  *)

ClaimableAnyStatus == {j \in Jobs : rows[j].due /\ rows[j].lock # "fresh"}
ClaimableIfFree    == {j \in Jobs : rows[j].status \in Open /\ rows[j].due /\ rows[j].lock = "free"}

\* The rows the claim may take.
Claimable == {j \in Jobs : rows[j].status \in Open /\ rows[j].due /\ rows[j].lock # "fresh"}

\* UPDATE ... WHERE id IN (SELECT ... LIMIT $1 FOR UPDATE SKIP LOCKED): the
\* marks of the claimed rows are renewed.
Claim(claimed) ==
  /\ claimed \subseteq Claimable /\ claimed # {}
  /\ \/ Cardinality(claimed) = Batch
     \/ claimed = Claimable /\ Cardinality(claimed) < Batch
  /\ rows' = [j \in Jobs |-> IF j \in claimed THEN [rows[j] EXCEPT !.lock = "fresh"] ELSE rows[j]]

\* A tick of a worker whose settings let it work; with recovery switched off,
\* the integration disabled or no key, a tick changes nothing.
Tick(w) ==
  /\ work[w].at = "idle"
  /\ \E claimed \in SUBSET Jobs :
       /\ Claim(claimed)
       /\ work' = [work EXCEPT ![w] =
            [Idle EXCEPT !.at = "pick", !.queue = claimed,
                         !.claimed = [j \in Jobs |-> IF j \in claimed THEN rows[j] ELSE NoRow]]]
  /\ UNCHANGED <<world, history, faults>>

\* The claim is committed and its answer lost: nobody works on those rows.
TickLost(w) ==
  /\ work[w].at = "idle"
  /\ \E claimed \in SUBSET Jobs : Claim(claimed)
  /\ Fault("lostAnswer")
  /\ UNCHANGED <<work, world, history>>

\* processJob.  A row without targets only has its end left to record.
Pick(w, j) ==
  /\ work[w].at = "pick" /\ j \in work[w].queue
  /\ work' = [work EXCEPT ![w].at = IF work[w].claimed[j].targets = {} THEN "record" ELSE "look",
                          ![w].queue = @ \ {j}, ![w].job = j]
  /\ UNCHANGED <<rows, world, history, faults>>

Job(w)     == work[w].job
Claimed(w) == work[w].claimed[Job(w)]

BudgetSpent(w) == Claimed(w).attempts + 1 >= MaxAttempts

AlreadyAskedById(w) == Claimed(w).retrieval

\* The guard of the request is the time it was made, not the id it returned.
AlreadyAsked(w) == Claimed(w).retrieval \/ Claimed(w).asked

\* Steps 1 and 2, and the decision of step 3: ask only if nothing was found,
\* nobody asked, the settings allow it and the event can be located.
Look(w) ==
  /\ work[w].at = "look"
  /\ \/ /\ Job(w) \in footage
        /\ work' = [work EXCEPT ![w].at = "switches", ![w].found = TRUE]
        /\ NoFault
     \/ /\ IF Job(w) \in footage THEN Fault("samsara") ELSE NoFault
        /\ \/ /\ ~AlreadyAsked(w) /\ Job(w) \in Traceable
              /\ work' = [work EXCEPT ![w].at = "ask"]
           \/ work' = [work EXCEPT ![w].at = "record"]
  /\ UNCHANGED <<rows, world, history>>

\* The request is accepted: with an id, without one, or with the clip itself.
AskAccepted(w) ==
  /\ work[w].at = "ask"
  /\ asks' = [asks EXCEPT ![Job(w)] = @ + 1]
  /\ \/ /\ \E answer \in {"accepted", "named"} :
             work' = [work EXCEPT ![w].at = "record", ![w].asking = answer]
        /\ UNCHANGED footage
     \/ /\ work' = [work EXCEPT ![w].at = "switches", ![w].found = TRUE, ![w].asking = "accepted"]
        /\ footage' = footage \cup {Job(w)}
  /\ UNCHANGED <<rows, switchedOff, videos, text, excuse, unrecorded, past, outlived, faults>>

\* It is refused with a status, or times out and may have arrived.
AskFails(w) ==
  /\ work[w].at = "ask"
  /\ \/ /\ Fault("refusal")
        /\ work' = [work EXCEPT ![w].at = "record", ![w].asking = "refused"]
        /\ UNCHANGED asks
     \/ /\ Fault("samsara")
        /\ work' = [work EXCEPT ![w].at = "record", ![w].asking = "unknown"]
        /\ \/ asks' = [asks EXCEPT ![Job(w)] = @ + 1]
           \/ UNCHANGED asks
  /\ UNCHANGED <<rows, world, videos, text, excuse, unrecorded, past, outlived>>

-----------------------------------------------------------------------------
(* Folding the video in                                                    *)

ReadSwitchesDropsHeld(w) ==
  /\ work[w].at = "switches"
  /\ \E held \in SUBSET (Claimed(w).targets \cap DriverGroups) :
       /\ IF held = {} THEN NoFault ELSE Fault("dbRead")
       /\ LET send == Claimed(w).targets \ (held \cup switchedOff)
          IN  work' = [work EXCEPT ![w].at = IF send = {} THEN "record" ELSE "send",
                                   ![w].todo = send]
  /\ UNCHANGED <<rows, world, history>>

\* sortTargetsBySwitch: a group that is off is done with; one whose switch
\* cannot be read is held for the next attempt.
ReadSwitches(w) ==
  /\ work[w].at = "switches"
  /\ \E held \in SUBSET (Claimed(w).targets \cap DriverGroups) :
       /\ IF held = {} THEN NoFault ELSE Fault("dbRead")
       /\ LET send == Claimed(w).targets \ (held \cup switchedOff)
          IN  work' = [work EXCEPT ![w].at = IF send = {} THEN "record" ELSE "send",
                                   ![w].todo = send, ![w].left = held]
  /\ UNCHANGED <<rows, world, history>>

\* What is left to do once chat c has been dealt with.
AfterChat(w, c) ==
  [work[w] EXCEPT !.at = IF work[w].todo \subseteq {c} THEN "record" ELSE "send",
                  !.todo = @ \ {c}, !.chat = NoChat, !.single = FALSE]

OneMore(f, w, c) == [f EXCEPT ![Job(w)][c] = @ + 1]

\* The chat whose message is in hand, or any that waits when none is.
InHand(w) == IF work[w].chat # NoChat THEN {work[w].chat} ELSE work[w].todo

\* Telegram accepts the video; the text is deleted in a call of its own.
VideoSent(w, c) ==
  /\ work[w].at = "send" /\ c \in InHand(w)
  /\ videos' = OneMore(videos, w, c)
  /\ work' = [work EXCEPT ![w].at = "delete", ![w].chat = c, ![w].posted = @ \cup {c}]
  /\ UNCHANGED <<rows, world, text, asks, excuse, unrecorded, past, outlived, faults>>

VideoFailsAfterDelete(w, c, arrived) ==
  /\ work[w].at = "send" /\ c \in InHand(w)
  /\ Fault(IF arrived THEN "lostAnswer" ELSE "telegram")
  /\ text' = [text EXCEPT ![Job(w)] = @ \ {c}]
  /\ work' = [work EXCEPT ![w] = [AfterChat(w, c) EXCEPT !.left = @ \cup {c}]]
  /\ UNCHANGED <<rows, world, videos, asks, excuse, unrecorded, past, outlived>>

\* It does not, or its answer is lost: two clips fall back to one, and a chat
\* that gets neither stays among the targets.
VideoFails(w, c, arrived) ==
  /\ work[w].at = "send" /\ c \in InHand(w)
  /\ Fault(IF arrived THEN "lostAnswer" ELSE "telegram")
  /\ videos' = IF arrived THEN OneMore(videos, w, c) ELSE videos
  /\ excuse' = IF arrived THEN OneMore(excuse, w, c) ELSE excuse
  /\ work' = [work EXCEPT ![w] =
                IF Job(w) \in Dual /\ ~work[w].single
                THEN [@ EXCEPT !.chat = c, !.single = TRUE]
                ELSE [AfterChat(w, c) EXCEPT !.left = @ \cup {c}]]
  /\ UNCHANGED <<rows, world, text, asks, unrecorded, past, outlived>>

\* The text message goes; a failed delete leaves a stray one.
DeleteText(w) ==
  /\ work[w].at = "delete"
  /\ \/ text' = [text EXCEPT ![Job(w)] = @ \ {work[w].chat}] /\ NoFault
     \/ UNCHANGED text /\ Fault("telegram")
  /\ work' = [work EXCEPT ![w] = AfterChat(w, work[w].chat)]
  /\ UNCHANGED <<rows, world, videos, asks, excuse, unrecorded, past, outlived>>

-----------------------------------------------------------------------------
(* Recording the step                                                      *)

AllServed(w) == Claimed(w).targets = {} \/ (work[w].found /\ work[w].left = {})

OutcomeOfAskUnbudgeted(w) ==
  IF AllServed(w) THEN "completed"
  ELSE IF work[w].found THEN IF BudgetSpent(w) THEN "failed" ELSE "video_available"
  ELSE IF work[w].asking # "no" THEN "pending_retrieval"
  ELSE IF BudgetSpent(w) THEN "no_video"
  ELSE IF Claimed(w).retrieval THEN "pending_retrieval" ELSE "pending_recheck"

\* The status a step of processJob ends with.
Outcome(w) ==
  IF AllServed(w) THEN "completed"
  ELSE IF work[w].found THEN IF BudgetSpent(w) THEN "failed" ELSE "video_available"
  ELSE IF BudgetSpent(w) THEN "no_video"
  ELSE IF work[w].asking # "no" \/ Claimed(w).retrieval
       THEN "pending_retrieval" ELSE "pending_recheck"

\* Only the reschedule that follows a request without a clip records it.
AskRecorded(w) ==
  Outcome(w) = "pending_retrieval" /\ work[w].asking \in {"unknown", "accepted", "named"}

WrittenWithoutTargets(w) ==
  LET row    == rows[Job(w)]
      status == Outcome(w)
  IN  [row EXCEPT !.status    = status,
                  !.due       = IF status \in Open THEN FALSE ELSE @,
                  !.attempts  = IF status \in Open THEN @ + 1 ELSE @,
                  !.retrieval = @ \/ (AskRecorded(w) /\ work[w].asking = "named"),
                  !.asked     = @ \/ AskRecorded(w),
                  !.lock      = "free"]

\* finish and reschedule write by id alone, whoever holds the claim by now.
\* The surviving targets go with the status; a step that found no clip leaves
\* them.
Written(w) ==
  LET row    == rows[Job(w)]
      status == Outcome(w)
  IN  [row EXCEPT !.status    = status,
                  !.due       = IF status \in Open THEN FALSE ELSE @,
                  !.attempts  = IF status \in Open THEN @ + 1 ELSE @,
                  !.retrieval = @ \/ (AskRecorded(w) /\ work[w].asking = "named"),
                  !.asked     = @ \/ AskRecorded(w),
                  !.targets   = IF work[w].found THEN work[w].left ELSE @,
                  !.lock      = "free"]

\* A request of this step that reached Samsara, as far as anybody can tell.
Asked(w) == work[w].asking \in {"unknown", "accepted", "named"}

\* What a step whose outcome is lost leaves unaccounted for.
Forgotten(w) ==
  /\ excuse' = [excuse EXCEPT ![Job(w)] =
                  [c \in Chats |-> @[c] + IF c \in work[w].posted THEN 1 ELSE 0]]
  /\ unrecorded' = IF Asked(w) THEN [unrecorded EXCEPT ![Job(w)] = @ + 1] ELSE unrecorded

\* The write of the outcome.  A failed one is logged and leaves the row as it
\* was, still claimed.  Then the next claimed row, or the end of the tick.
Record(w) ==
  /\ work[w].at = "record"
  /\ \/ /\ NoFault
        /\ rows' = [rows EXCEPT ![Job(w)] = Written(w)]
        /\ unrecorded' = IF Asked(w) /\ ~AskRecorded(w)
                         THEN [unrecorded EXCEPT ![Job(w)] = @ + 1] ELSE unrecorded
        /\ UNCHANGED excuse
     \/ /\ Fault("dbWrite")
        /\ UNCHANGED rows
        /\ Forgotten(w)
  /\ work' = [work EXCEPT ![w] =
                IF @.queue = {} THEN Idle
                ELSE [Idle EXCEPT !.at = "pick", !.queue = work[w].queue,
                                  !.claimed = work[w].claimed]]
  /\ UNCHANGED <<world, videos, text, asks, past, outlived>>

\* The process dies; another takes its place with an empty memory.
Crash(w) ==
  /\ work[w].at # "idle"
  /\ Fault("crash")
  /\ work' = [work EXCEPT ![w] = Idle]
  /\ IF Job(w) \in Jobs THEN Forgotten(w) ELSE UNCHANGED <<excuse, unrecorded>>
  /\ UNCHANGED <<rows, world, videos, text, asks, past, outlived>>

-----------------------------------------------------------------------------

WorkerStep(w) ==
  \/ Tick(w)
  \/ \E j \in Jobs : Pick(w, j)
  \/ Look(w)
  \/ AskAccepted(w) \/ AskFails(w)
  \/ ReadSwitches(w)
  \/ \E c \in Chats : VideoSent(w, c) \/ \E arrived \in BOOLEAN : VideoFails(w, c, arrived)
  \/ DeleteText(w)
  \/ Record(w)

Clock(j) == ComesDue(j) \/ LockGoesStale(j)

Next ==
  \/ \E w \in Workers : WorkerStep(w) \/ TickLost(w) \/ Crash(w)
  \/ \E j \in Jobs : Enqueue(j) \/ Clock(j) \/ ClipAppears(j)
  \/ \E c \in DriverGroups : FlipSwitch(c)

Spec == Init /\ [][Next]_vars

\* The ticks go on, every await is answered, and time passes; nothing says
\* that Samsara ever produces a clip.
Fairness ==
  /\ \A w \in Workers : WF_vars(WorkerStep(w))
  /\ \A j \in Jobs : WF_vars(Clock(j))

FairSpec == Spec /\ Fairness

-----------------------------------------------------------------------------
(* Properties                                                              *)

\* Every video of an event beyond the first in a chat is paid for by a fault
\* that hid the earlier one from the row: a lost answer, a write of the
\* outcome that failed, a death before it.  A partial failure alone retries
\* only where the video is missing.  A batch that outlives its claims is the
\* one exception: another process may then work on the same row.
VideosExplained ==
  \A j \in Jobs \ outlived, c \in Chats : videos[j][c] <= 1 + excuse[j][c]

\* A truck is asked for footage a second time only if the row does not show
\* an earlier request; a request without an id, or one that may have timed out
\* on its way, counts as made.  Again, a batch that outlives its claims
\* may cost a second one.
AsksExplained == \A j \in Jobs \ outlived : asks[j] <= 1 + unrecorded[j]

\* The alert is never lost: whatever fails between the post of the video and
\* the deletion of the text, a chat shows one of them.
AlertNeverLost ==
  \A j \in Jobs : \A c \in TargetsOf[j] : c \in text[j] \/ videos[j][c] > 0

\* A recovery that ends completed has brought the video to every chat that was
\* waiting for it, except driver groups somebody switched off.
CompletedReached ==
  \A j \in Jobs : rows[j].status = "completed" =>
    \A c \in TargetsOf[j] : videos[j][c] > 0 \/ c \in past

\* videoRecoveryStore.js: completed, no_video and failed are all terminal; only a
\* worker that outlived its claim can move a row out of one.
TerminalStays ==
  [][\A j \in Jobs \ outlived : rows[j].status \in Terminal => rows'[j].status = rows[j].status]_rows

\* Every recovery ends in a state that says what happened, across deaths,
\* failed writes and lost claims: nothing is abandoned silently.
JobEnds == \A j \in Jobs : rows[j].status \in Open ~> rows[j].status \in Terminal
=============================================================================
