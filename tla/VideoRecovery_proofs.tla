------------------------ MODULE VideoRecovery_proofs ------------------------
(***************************************************************************)
(* What the recovery of missing videos guarantees for any jobs, chats,     *)
(* workers, batches and number of faults: at most one video of an event in *)
(* a chat and one request for footage for which no fault accounts, no      *)
(* alert lost, and an end that means what it says.                         *)
(***************************************************************************)
EXTENDS VideoRecovery, FiniteSetTheorems, TLAPS

LEMMA FaultType ==
  ASSUME FaultsTypeOK, NEW kind, Fault(kind) \/ NoFault
  PROVE  FaultsTypeOK'
  BY FaultsAssumption DEF FaultsTypeOK, Fault, NoFault

-----------------------------------------------------------------------------
(* One worker                                                              *)

\* What a worker knows of the chats of the job in hand: the ones it still has
\* to serve, the ones that stay without video and the ones that got one.
ChatsInOrder(r) ==
  /\ r.at \notin {"send", "delete"} => r.todo = {} /\ r.chat = NoChat
  /\ r.at = "send" => r.todo \cap r.posted = {} /\ (r.chat = NoChat \/ r.chat \in r.todo)
  /\ r.at = "delete" => r.chat \in r.todo /\ r.todo \cap r.posted = {r.chat}
  /\ r.left \cap (r.posted \cup r.todo) = {}
  /\ ~r.found => r.left = {} /\ r.posted = {} /\ r.todo = {}

\* A worker between jobs remembers nothing of the last one, and asks only for a
\* job whose row shows no request.
HandInOrder(r) ==
  /\ r.at \in {"idle", "pick"} <=> r.job = NoJob
  /\ r.at = "idle" => r.queue = {}
  /\ r.job \notin r.queue
  /\ r.at \in {"idle", "pick", "look", "ask"} => ~r.found /\ r.asking = "no"
  /\ r.at = "ask" => ~r.claimed[r.job].asked /\ ~r.claimed[r.job].retrieval
  /\ r.at \in {"switches", "send", "delete"} => r.found
  /\ r.at = "switches" => r.left = {} /\ r.posted = {}
  /\ r.at \in {"send", "delete"} => r.todo \subseteq r.claimed[r.job].targets
  /\ r.found => r.left \subseteq r.claimed[r.job].targets

WorkOK(r) == r \in Works /\ ChatsInOrder(r) /\ HandInOrder(r)

WorkInv == \A w \in Workers : WorkOK(work[w])

BaseTyped ==
  /\ FaultsTypeOK
  /\ rows \in [Jobs -> Rows]
  /\ work \in [Workers -> Works]
  /\ footage \in SUBSET Jobs
  /\ switchedOff \in SUBSET DriverGroups
  /\ videos \in [Jobs -> [Chats -> Nat]]
  /\ text \in [Jobs -> SUBSET Chats]
  /\ asks \in [Jobs -> Nat]
  /\ excuse \in [Jobs -> [Chats -> Nat]]
  /\ unrecorded \in [Jobs -> Nat]
  /\ past \in SUBSET DriverGroups
  /\ outlived \in SUBSET Jobs

BaseInv == BaseTyped /\ WorkInv

WorkFields == {"at", "claimed", "queue", "job", "found", "todo", "left", "posted", "chat",
               "single", "asking"}

\* A record of these fields and no others.
Shaped(r) == r = [f \in WorkFields |-> r[f]]

WorkTyped(r) ==
  /\ r.at \in WorkStates /\ r.claimed \in [Jobs -> Rows] /\ r.queue \in SUBSET Jobs
  /\ r.job \in Jobs \cup {NoJob} /\ r.found \in BOOLEAN
  /\ r.todo \in SUBSET Chats /\ r.left \in SUBSET Chats /\ r.posted \in SUBSET Chats
  /\ r.chat \in Chats \cup {NoChat} /\ r.single \in BOOLEAN /\ r.asking \in Asking

LEMMA WorksElim == ASSUME NEW r \in Works PROVE Shaped(r) /\ WorkTyped(r)
  BY DEF Works, WorkTyped, WorkFields, Shaped

LEMMA WorksIntro ==
  ASSUME NEW r, Shaped(r), WorkTyped(r)
  PROVE  r \in Works
  BY DEF Works, WorkTyped, WorkFields, Shaped

LEMMA NoRowType == NoRow \in Rows
  BY DEF NoRow, Rows

LEMMA IdleOK == WorkOK(Idle)
<1>1. Idle \in Works
  BY NoRowType DEF Idle, Works, WorkStates, Asking
<1>2. Idle.job \notin Idle.queue
  BY DEF Idle
<1> QED
  BY <1>1, <1>2 DEF WorkOK, ChatsInOrder, HandInOrder, Idle

\* One worker changes, and the others do not.
LEMMA WorkChange ==
  ASSUME WorkInv, work \in [Workers -> Works], NEW w \in Workers, NEW r,
         work' = [work EXCEPT ![w] = r]
  PROVE  /\ work'[w] = r
         /\ \A u \in Workers \ {w} : work'[u] = work[u]
         /\ WorkOK(r) => WorkInv' /\ work' \in [Workers -> Works]
<1>1. work'[w] = r /\ \A u \in Workers \ {w} : work'[u] = work[u]
  OBVIOUS
<1>2. ASSUME WorkOK(r) PROVE WorkInv' /\ work' \in [Workers -> Works]
  BY <1>1, <1>2 DEF WorkInv, WorkOK
<1> QED
  BY <1>1, <1>2

LEMMA HandType ==
  ASSUME BaseInv, NEW w \in Workers
  PROVE  /\ WorkOK(work[w]) /\ work[w] \in Works /\ WorkTyped(work[w])
         /\ Shaped(work[w])
<1>1. WorkOK(work[w])
  BY DEF BaseInv, WorkInv
<1> QED
  BY <1>1, WorksElim DEF WorkOK

LEMMA JobInHand ==
  ASSUME BaseInv, NEW w \in Workers, work[w].at \notin {"idle", "pick"}
  PROVE  /\ Job(w) \in Jobs /\ work[w].job = Job(w)
         /\ Claimed(w) \in Rows /\ Claimed(w) = work[w].claimed[Job(w)]
         /\ Claimed(w).targets \in SUBSET Chats
         /\ Claimed(w).attempts \in Nat /\ Claimed(w).asked \in BOOLEAN
         /\ Claimed(w).retrieval \in BOOLEAN
         /\ rows[Job(w)] \in Rows
<1>1. WorkOK(work[w])
  BY DEF BaseInv, WorkInv
<1>2. Job(w) \in Jobs /\ work[w].claimed \in [Jobs -> Rows]
  BY <1>1 DEF WorkOK, HandInOrder, Works, Job
<1>3. Claimed(w) \in Rows /\ rows[Job(w)] \in Rows
  BY <1>2 DEF Claimed, BaseInv, BaseTyped
<1> QED
  BY <1>2, <1>3 DEF Claimed, Job, Rows

-----------------------------------------------------------------------------
(* What each step leaves in the hands of its worker                        *)

\* The other workers keep what they have.
Only(w) == \A u \in Workers \ {w} : work'[u] = work[u]

SameJob(r, s) == s.job = r.job /\ s.queue = r.queue /\ s.claimed = r.claimed

\* A worker that holds no job, and of the others what it claimed.
BetweenJobs(s) == s.job = NoJob /\ s.posted = {} /\ s.asking = "no" /\ ~s.found

\* Worker w sets out with the rows it has claimed.
Takes(w, claimed) ==
  work' = [work EXCEPT ![w] =
    [Idle EXCEPT !.at = "pick", !.queue = claimed,
                 !.claimed = [j \in Jobs |-> IF j \in claimed THEN rows[j] ELSE NoRow]]]

LEMMA TickWork ==
  ASSUME BaseInv, NEW w \in Workers, NEW claimed \in SUBSET Jobs, Takes(w, claimed)
  PROVE  LET s == work'[w] IN
         /\ Only(w) /\ WorkOK(s) /\ WorkInv' /\ work' \in [Workers -> Works]
         /\ s.queue = claimed /\ BetweenJobs(s) /\ s.at = "pick"
         /\ \A j \in claimed : s.claimed[j] = rows[j]
<1> DEFINE known == [j \in Jobs |-> IF j \in claimed THEN rows[j] ELSE NoRow]
           s == [Idle EXCEPT !.at = "pick", !.queue = claimed, !.claimed = known]
<1>1. known \in [Jobs -> Rows]
  BY NoRowType DEF BaseInv, BaseTyped
<1>2. \A j \in claimed : known[j] = rows[j]
  OBVIOUS
<1> HIDE DEF known
<1>3. /\ s.at = "pick" /\ s.claimed = known /\ s.queue = claimed /\ s.job = NoJob /\ ~s.found
      /\ s.found \in BOOLEAN /\ s.todo = {} /\ s.left = {} /\ s.posted = {} /\ s.chat = NoChat
      /\ s.single \in BOOLEAN /\ s.asking = "no"
      /\ Shaped(s)
  BY DEF Idle, WorkFields, Shaped
<1>4. work' = [work EXCEPT ![w] = s]
  BY DEF known, Takes
<1> HIDE DEF s
<1>5. WorkTyped(s)
  BY <1>1, <1>3 DEF WorkTyped, WorkStates, Asking
<1>6. s \in Works
  BY <1>3, <1>5, WorksIntro
<1>7. NoJob \notin claimed
  BY RecoveryAssumption
<1>8. WorkOK(s)
  BY <1>3, <1>6, <1>7 DEF WorkOK, ChatsInOrder, HandInOrder
<1>9. work'[w] = s /\ Only(w) /\ WorkInv' /\ work' \in [Workers -> Works]
  BY <1>4, <1>8, WorkChange DEF BaseInv, BaseTyped, Only
<1> QED
  BY <1>2, <1>3, <1>8, <1>9 DEF BetweenJobs

LEMMA PickWork ==
  ASSUME BaseInv, NEW w \in Workers, NEW j \in Jobs, Pick(w, j)
  PROVE  LET r == work[w]  s == work'[w] IN
         /\ Only(w) /\ WorkOK(s) /\ WorkInv' /\ work' \in [Workers -> Works]
         /\ j \in r.queue /\ r.job = NoJob
         /\ s.at \in {"look", "record"} /\ s.job = j /\ s.queue = r.queue \ {j}
         /\ s.claimed = r.claimed /\ s.posted = {} /\ ~s.found /\ s.asking = "no"
<1> DEFINE r == work[w]
           at == IF r.claimed[j].targets = {} THEN "record" ELSE "look"
           s == [r EXCEPT !.at = at, !.queue = @ \ {j}, !.job = j]
<1>1. WorkOK(r) /\ r.at = "pick" /\ j \in r.queue /\ r.job = NoJob
  BY HandType DEF Pick, WorkOK, HandInOrder
<1>2. r.posted = {} /\ r.left = {} /\ r.todo = {} /\ ~r.found /\ r.asking = "no" /\ r.chat = NoChat
  BY <1>1 DEF WorkOK, ChatsInOrder, HandInOrder
<1>3. work' = [work EXCEPT ![w] = s]
  BY DEF Pick, BaseInv, BaseTyped
<1>4. at \in {"look", "record"}
  OBVIOUS
<1> HIDE DEF at
<1>5. /\ s.at = at /\ s.claimed = r.claimed /\ s.queue = r.queue \ {j} /\ s.job = j
      /\ s.found = r.found /\ s.todo = r.todo /\ s.left = r.left /\ s.posted = r.posted
      /\ s.chat = r.chat /\ s.single = r.single /\ s.asking = r.asking
      /\ Shaped(s)
  BY HandType DEF WorkFields, Shaped
<1> HIDE DEF s
<1>6. s \in Works
  BY <1>4, <1>5, HandType, WorksIntro DEF WorkTyped, WorkStates
<1>7. j # NoJob
  BY RecoveryAssumption
<1>8. WorkOK(s)
  BY <1>2, <1>4, <1>5, <1>6, <1>7 DEF WorkOK, ChatsInOrder, HandInOrder
<1>9. work'[w] = s /\ Only(w) /\ WorkInv' /\ work' \in [Workers -> Works]
  BY <1>3, <1>8, WorkChange DEF BaseInv, BaseTyped, Only
<1> QED
  BY <1>1, <1>2, <1>4, <1>5, <1>8, <1>9

\* A worker that goes on with the same job and has done nothing about the chats.
Onwards(r, s) ==
  /\ SameJob(r, s)
  /\ s.todo = r.todo /\ s.left = r.left /\ s.posted = r.posted /\ s.chat = r.chat
  /\ s.single = r.single
  /\ Shaped(s)

LEMMA OnwardsOK ==
  ASSUME BaseInv, NEW w \in Workers, work[w].at \in {"look", "ask"},
         NEW s, Onwards(work[w], s), work' = [work EXCEPT ![w] = s],
         s.at \in {"ask", "switches", "record"}, s.found \in BOOLEAN, s.asking \in Asking,
         s.at = "ask" => ~s.found /\ s.asking = "no" /\ ~AlreadyAsked(w),
         s.at = "switches" => s.found
  PROVE  /\ Only(w) /\ WorkOK(s) /\ WorkInv' /\ work' \in [Workers -> Works]
         /\ work'[w] = s /\ SameJob(work[w], s) /\ s.posted = work[w].posted
<1> DEFINE r == work[w]
<1>1. /\ WorkOK(r) /\ r.posted = {} /\ r.left = {} /\ r.todo = {} /\ r.chat = NoChat
      /\ ~r.found /\ r.asking = "no"
  BY HandType DEF WorkOK, ChatsInOrder, HandInOrder
<1>2. s \in Works
  BY HandType, WorksIntro DEF WorkTyped, WorkStates, Onwards, SameJob
<1>3. r.job \in Jobs /\ r.job # NoJob /\ r.job \notin r.queue
  BY <1>1, JobInHand, RecoveryAssumption DEF WorkOK, HandInOrder
<1>4. s.at = "ask" => ~r.claimed[r.job].asked /\ ~r.claimed[r.job].retrieval
  BY JobInHand DEF AlreadyAsked
<1>5. ChatsInOrder(s)
  BY <1>1 DEF ChatsInOrder, Onwards
<1>6. HandInOrder(s)
  BY <1>1, <1>3, <1>4 DEF HandInOrder, Onwards, SameJob
<1>7. WorkOK(s)
  BY <1>2, <1>5, <1>6 DEF WorkOK
<1>8. work'[w] = s /\ Only(w) /\ WorkInv' /\ work' \in [Workers -> Works]
  BY <1>7, WorkChange DEF BaseInv, BaseTyped, Only
<1> QED
  BY <1>7, <1>8 DEF Onwards

LEMMA LookWork ==
  ASSUME BaseInv, NEW w \in Workers, Look(w)
  PROVE  LET r == work[w]  s == work'[w] IN
         /\ Only(w) /\ WorkOK(s) /\ WorkInv' /\ work' \in [Workers -> Works]
         /\ SameJob(r, s) /\ s.posted = r.posted /\ s.asking = r.asking
         /\ s.at \in {"ask", "switches", "record"} /\ (s.at = "record" => ~s.found)
<1> DEFINE r == work[w]
<1>1. r.at = "look" /\ r.found = FALSE /\ r.asking = "no" /\ r.posted = {}
  BY HandType DEF Look, WorkOK, WorkTyped, HandInOrder, ChatsInOrder
<1>2. CASE work' = [work EXCEPT ![w].at = "switches", ![w].found = TRUE]
  <2> DEFINE s == [r EXCEPT !.at = "switches", !.found = TRUE]
  <2>1. work' = [work EXCEPT ![w] = s]
    BY <1>2 DEF BaseInv, BaseTyped
  <2>2. Onwards(r, s) /\ s.at = "switches" /\ s.found = TRUE /\ s.asking = "no"
    BY <1>1, HandType DEF Onwards, SameJob, WorkFields, Shaped
  <2> HIDE DEF s
  <2> QED
    BY <1>1, <2>1, <2>2, OnwardsOK DEF Asking
<1>3. CASE ~AlreadyAsked(w) /\ work' = [work EXCEPT ![w].at = "ask"]
  <2> DEFINE s == [r EXCEPT !.at = "ask"]
  <2>1. work' = [work EXCEPT ![w] = s]
    BY <1>3 DEF BaseInv, BaseTyped
  <2>2. Onwards(r, s) /\ s.at = "ask" /\ s.found = FALSE /\ s.asking = "no"
    BY <1>1, HandType DEF Onwards, SameJob, WorkFields, Shaped
  <2> HIDE DEF s
  <2>3. /\ r.at \in {"look", "ask"} /\ s.at \in {"ask", "switches", "record"}
        /\ s.found \in BOOLEAN /\ s.asking \in Asking
    BY <1>1, <2>2 DEF Asking
  <2> QED
    BY <1>1, <1>3, <2>1, <2>2, <2>3, OnwardsOK
<1>4. CASE work' = [work EXCEPT ![w].at = "record"]
  <2> DEFINE s == [r EXCEPT !.at = "record"]
  <2>1. work' = [work EXCEPT ![w] = s]
    BY <1>4 DEF BaseInv, BaseTyped
  <2>2. Onwards(r, s) /\ s.at = "record" /\ s.found = FALSE /\ s.asking = "no"
    BY <1>1, HandType DEF Onwards, SameJob, WorkFields, Shaped
  <2> HIDE DEF s
  <2> QED
    BY <1>1, <2>1, <2>2, OnwardsOK DEF Asking
<1> QED
  BY <1>2, <1>3, <1>4 DEF Look

\* The answer to a request is noted.
LEMMA AskNoted ==
  ASSUME BaseInv, NEW w \in Workers, work[w].at = "ask", NEW answer \in Asking,
         work' = [work EXCEPT ![w].at = "record", ![w].asking = answer]
  PROVE  LET r == work[w]  s == work'[w] IN
         /\ Only(w) /\ WorkOK(s) /\ WorkInv' /\ work' \in [Workers -> Works]
         /\ SameJob(r, s) /\ s.posted = r.posted /\ s.asking = answer
         /\ s.at = "record" /\ ~s.found /\ r.asking = "no"
<1> DEFINE r == work[w]
           s == [r EXCEPT !.at = "record", !.asking = answer]
<1>1. r.at = "ask" /\ r.found = FALSE /\ r.asking = "no" /\ r.posted = {}
  BY HandType DEF WorkOK, WorkTyped, HandInOrder, ChatsInOrder
<1>2. work' = [work EXCEPT ![w] = s]
  BY DEF BaseInv, BaseTyped
<1>3. Onwards(r, s) /\ s.at = "record" /\ s.found = FALSE /\ s.asking = answer
  BY <1>1, HandType DEF Onwards, SameJob, WorkFields, Shaped
<1> HIDE DEF s
<1>4. r.at \in {"look", "ask"} /\ s.at # "ask" /\ s.at # "switches" /\ s.found \in BOOLEAN
  BY <1>1, <1>3
<1>5. /\ Only(w) /\ WorkOK(s) /\ WorkInv' /\ work' \in [Workers -> Works]
      /\ work'[w] = s /\ SameJob(r, s) /\ s.posted = r.posted
  BY <1>2, <1>3, <1>4, OnwardsOK
<1> QED
  BY <1>1, <1>3, <1>5

LEMMA AskAcceptedWork ==
  ASSUME BaseInv, NEW w \in Workers, AskAccepted(w)
  PROVE  LET r == work[w]  s == work'[w] IN
         /\ Only(w) /\ WorkOK(s) /\ WorkInv' /\ work' \in [Workers -> Works]
         /\ SameJob(r, s) /\ s.posted = r.posted /\ r.asking = "no"
         /\ s.asking \in {"accepted", "named"}
         /\ s.at \in {"switches", "record"} /\ (s.at = "record" => ~s.found)
<1> DEFINE r == work[w]
<1>1. r.at = "ask" /\ r.found = FALSE /\ r.asking = "no" /\ r.posted = {}
  BY HandType DEF AskAccepted, WorkOK, WorkTyped, HandInOrder, ChatsInOrder
<1>2. CASE \E answer \in {"accepted", "named"} :
             work' = [work EXCEPT ![w].at = "record", ![w].asking = answer]
  <2>1. PICK answer \in {"accepted", "named"} :
          work' = [work EXCEPT ![w].at = "record", ![w].asking = answer]
    BY <1>2
  <2>2. answer \in Asking
    BY DEF Asking
  <2> QED
    BY <1>1, <2>1, <2>2, AskNoted
<1>3. CASE work' = [work EXCEPT ![w].at = "switches", ![w].found = TRUE, ![w].asking = "accepted"]
  <2> DEFINE s == [r EXCEPT !.at = "switches", !.found = TRUE, !.asking = "accepted"]
  <2>1. work' = [work EXCEPT ![w] = s]
    BY <1>3 DEF BaseInv, BaseTyped
  <2>2. Onwards(r, s) /\ s.at = "switches" /\ s.found = TRUE /\ s.asking = "accepted"
    BY <1>1, HandType DEF Onwards, SameJob, WorkFields, Shaped
  <2> HIDE DEF s
  <2> QED
    BY <1>1, <2>1, <2>2, OnwardsOK DEF Asking
<1> QED
  BY <1>2, <1>3 DEF AskAccepted

LEMMA AskFailsWork ==
  ASSUME BaseInv, NEW w \in Workers, AskFails(w)
  PROVE  LET r == work[w]  s == work'[w] IN
         /\ Only(w) /\ WorkOK(s) /\ WorkInv' /\ work' \in [Workers -> Works]
         /\ SameJob(r, s) /\ s.posted = r.posted /\ r.asking = "no"
         /\ s.asking = "unknown" \/ (s.asking = "refused" /\ UNCHANGED asks)
         /\ s.at = "record" /\ ~s.found
<1>1. work[w].at = "ask"
  BY DEF AskFails
<1>2. CASE work' = [work EXCEPT ![w].at = "record", ![w].asking = "refused"] /\ UNCHANGED asks
  BY <1>1, <1>2, AskNoted DEF Asking
<1>3. CASE work' = [work EXCEPT ![w].at = "record", ![w].asking = "unknown"]
  BY <1>1, <1>3, AskNoted DEF Asking
<1> QED
  BY <1>2, <1>3 DEF AskFails

\* A worker that goes on with the chats of the same job.
Serving(r, s) ==
  /\ SameJob(r, s) /\ s.found = r.found /\ s.asking = r.asking
  /\ Shaped(s)

LEMMA ServingOK ==
  ASSUME BaseInv, NEW w \in Workers, work[w].at \in {"switches", "send", "delete"},
         NEW s, Serving(work[w], s), work' = [work EXCEPT ![w] = s],
         s.at \in {"send", "delete", "record"},
         s.todo \subseteq Claimed(w).targets, s.left \subseteq Claimed(w).targets,
         s.posted \in SUBSET Chats,
         s.chat \in Chats \cup {NoChat}, s.single \in BOOLEAN, ChatsInOrder(s)
  PROVE  /\ Only(w) /\ WorkOK(s) /\ WorkInv' /\ work' \in [Workers -> Works]
         /\ work'[w] = s /\ SameJob(work[w], s) /\ s.asking = work[w].asking
<1> DEFINE r == work[w]
<1>1. WorkOK(r) /\ WorkTyped(r) /\ r.found
  BY HandType DEF WorkOK, HandInOrder
<1>2. s.todo \in SUBSET Chats /\ s.left \in SUBSET Chats
  BY JobInHand
<1>3. s \in Works
  BY <1>1, <1>2, WorksIntro DEF WorkTyped, WorkStates, Serving, SameJob
<1>4. r.job \in Jobs /\ r.job # NoJob /\ r.job \notin r.queue /\ Claimed(w) = r.claimed[r.job]
  BY <1>1, JobInHand, RecoveryAssumption DEF WorkOK, HandInOrder
<1>5. HandInOrder(s)
  BY <1>1, <1>4 DEF HandInOrder, Serving, SameJob
<1>6. WorkOK(s)
  BY <1>3, <1>5 DEF WorkOK
<1>7. work'[w] = s /\ Only(w) /\ WorkInv' /\ work' \in [Workers -> Works]
  BY <1>6, WorkChange DEF BaseInv, BaseTyped, Only
<1> QED
  BY <1>6, <1>7 DEF Serving

\* The chats whose switch could not be read stay without video; the ones that
\* are off are dropped.
LEMMA SwitchesWork ==
  ASSUME BaseInv, NEW w \in Workers, ReadSwitches(w)
  PROVE  LET r == work[w]  s == work'[w] IN
         /\ Only(w) /\ WorkOK(s) /\ WorkInv' /\ work' \in [Workers -> Works]
         /\ SameJob(r, s) /\ s.posted = r.posted /\ s.asking = r.asking
         /\ s.at \in {"send", "record"}
         /\ r.claimed[r.job].targets \ (s.todo \cup s.left) \subseteq switchedOff
<1> DEFINE r == work[w]
<1>1. r.at = "switches" /\ r.todo = {} /\ r.left = {} /\ r.posted = {} /\ r.chat = NoChat /\ r.found
  BY HandType DEF ReadSwitches, WorkOK, ChatsInOrder, HandInOrder
<1>2. PICK held \in SUBSET (Claimed(w).targets \cap DriverGroups) :
        LET send == Claimed(w).targets \ (held \cup switchedOff)
        IN  work' = [work EXCEPT ![w].at = IF send = {} THEN "record" ELSE "send",
                                 ![w].todo = send, ![w].left = held]
  BY DEF ReadSwitches
<1> DEFINE send == Claimed(w).targets \ (held \cup switchedOff)
           at == IF send = {} THEN "record" ELSE "send"
<1>3. /\ Claimed(w).targets \in SUBSET Chats /\ Claimed(w) = r.claimed[r.job] /\ held \in SUBSET Chats
  BY <1>1, JobInHand
<1>4. /\ at \in {"record", "send"} /\ (at = "record" => send = {})
      /\ send \subseteq Claimed(w).targets /\ send \cap held = {}
      /\ Claimed(w).targets \ (send \cup held) \subseteq switchedOff
  OBVIOUS
<1>5. work' = [work EXCEPT ![w].at = at, ![w].todo = send, ![w].left = held]
  BY <1>2
<1> HIDE DEF send, at
<1> DEFINE s == [r EXCEPT !.at = at, !.todo = send, !.left = held]
<1>6. work' = [work EXCEPT ![w] = s]
  BY <1>5 DEF BaseInv, BaseTyped
<1>7. /\ Serving(r, s) /\ s.at = at /\ s.todo = send /\ s.left = held
      /\ s.posted = r.posted /\ s.chat = r.chat /\ s.single = r.single
  BY HandType DEF Serving, SameJob, WorkFields, Shaped
<1> HIDE DEF s
<1>8. ChatsInOrder(s)
  BY <1>1, <1>4, <1>7 DEF ChatsInOrder, Serving
<1>9. s.single \in BOOLEAN /\ s.chat \in Chats \cup {NoChat} /\ s.posted \in SUBSET Chats
  BY <1>7, HandType DEF WorkTyped
<1>10. /\ Only(w) /\ WorkOK(s) /\ WorkInv' /\ work' \in [Workers -> Works]
       /\ work'[w] = s /\ SameJob(r, s) /\ s.asking = r.asking
  BY <1>1, <1>3, <1>4, <1>6, <1>7, <1>8, <1>9, ServingOK
<1> QED
  BY <1>3, <1>4, <1>7, <1>10

\* The chat in hand is one that waits for its video, and has none of this step.
LEMMA InHandWaits ==
  ASSUME BaseInv, NEW w \in Workers, work[w].at = "send", NEW c \in InHand(w)
  PROVE  LET r == work[w] IN
         /\ c \in r.todo /\ c \in Chats /\ c # NoChat /\ c \notin r.posted /\ c \notin r.left
         /\ r.todo \cap r.posted = {} /\ r.found /\ r.todo \subseteq Claimed(w).targets
         /\ r.left \cap (r.posted \cup r.todo) = {} /\ r.left \subseteq Claimed(w).targets
<1>1. WorkOK(work[w]) /\ work[w].todo \in SUBSET Chats
  BY HandType DEF WorkTyped
<1>2. c \in work[w].todo
  BY <1>1 DEF InHand, WorkOK, ChatsInOrder
<1>3. c \in Chats /\ c # NoChat
  BY <1>1, <1>2, RecoveryAssumption
<1>4. Claimed(w) = work[w].claimed[work[w].job]
  BY JobInHand
<1> QED
  BY <1>1, <1>2, <1>3, <1>4 DEF WorkOK, ChatsInOrder, HandInOrder

LEMMA SentWork ==
  ASSUME BaseInv, NEW w \in Workers, NEW c \in Chats, VideoSent(w, c)
  PROVE  LET r == work[w]  s == work'[w] IN
         /\ Only(w) /\ WorkOK(s) /\ WorkInv' /\ work' \in [Workers -> Works]
         /\ SameJob(r, s) /\ s.posted = r.posted \cup {c} /\ s.asking = r.asking
         /\ s.at = "delete" /\ s.todo = r.todo /\ s.left = r.left
<1> DEFINE r == work[w]
           s == [r EXCEPT !.at = "delete", !.chat = c, !.posted = @ \cup {c}]
<1>1. r.at = "send" /\ c \in InHand(w)
  BY DEF VideoSent
<1>2. work' = [work EXCEPT ![w] = s]
  BY DEF VideoSent, BaseInv, BaseTyped
<1>3. /\ Serving(r, s) /\ s.at = "delete" /\ s.todo = r.todo /\ s.left = r.left
      /\ s.posted = r.posted \cup {c} /\ s.chat = c /\ s.single = r.single
  BY HandType DEF Serving, SameJob, WorkFields, Shaped
<1> HIDE DEF s
<1>4. /\ c \in r.todo /\ c \in Chats /\ c # NoChat /\ c \notin r.posted /\ c \notin r.left
      /\ r.todo \cap r.posted = {} /\ r.found /\ r.todo \subseteq Claimed(w).targets
      /\ r.left \cap (r.posted \cup r.todo) = {} /\ r.left \subseteq Claimed(w).targets
  BY <1>1, InHandWaits
<1>5. ChatsInOrder(s)
  BY <1>3, <1>4 DEF ChatsInOrder, Serving
<1>6. s.single \in BOOLEAN /\ s.posted \in SUBSET Chats
  BY <1>3, HandType DEF WorkTyped
<1>7. /\ s.at \in {"send", "delete", "record"} /\ Serving(r, s)
      /\ s.todo \subseteq Claimed(w).targets /\ s.left \subseteq Claimed(w).targets
      /\ s.chat \in Chats \cup {NoChat}
  BY <1>3, <1>4
<1>8. /\ Only(w) /\ WorkOK(s) /\ WorkInv' /\ work' \in [Workers -> Works]
      /\ work'[w] = s /\ SameJob(r, s) /\ s.asking = r.asking
  BY <1>1, <1>2, <1>5, <1>6, <1>7, ServingOK
<1> QED
  BY <1>3, <1>8

\* What AfterChat leaves of a worker that is done with a chat of its list.
LEMMA AfterChatFields ==
  ASSUME BaseInv, NEW w \in Workers, NEW c
  PROVE  LET r == work[w]  a == AfterChat(w, c) IN
         /\ Serving(r, a) /\ a.todo = r.todo \ {c} /\ a.left = r.left /\ a.posted = r.posted
         /\ a.chat = NoChat /\ a.single = FALSE
         /\ a.at = IF r.todo \subseteq {c} THEN "record" ELSE "send"
  BY HandType DEF AfterChat, Serving, SameJob, WorkFields, Shaped

LEMMA FailsWork ==
  ASSUME BaseInv, NEW w \in Workers, NEW c \in Chats, NEW arrived \in BOOLEAN,
         VideoFails(w, c, arrived)
  PROVE  LET r == work[w]  s == work'[w] IN
         /\ Only(w) /\ WorkOK(s) /\ WorkInv' /\ work' \in [Workers -> Works]
         /\ SameJob(r, s) /\ s.posted = r.posted /\ s.asking = r.asking
         /\ s.at \in {"send", "record"} /\ s.todo \cup s.left = r.todo \cup r.left
<1> DEFINE r == work[w]
<1>1. r.at = "send" /\ c \in InHand(w)
  BY DEF VideoFails
<1>2. /\ c \in r.todo /\ c \in Chats /\ c # NoChat /\ c \notin r.posted /\ c \notin r.left
      /\ r.todo \cap r.posted = {} /\ r.found /\ r.todo \subseteq Claimed(w).targets
      /\ r.left \cap (r.posted \cup r.todo) = {} /\ r.left \subseteq Claimed(w).targets
  BY <1>1, InHandWaits
<1>3. CASE work' = [work EXCEPT ![w] = [@ EXCEPT !.chat = c, !.single = TRUE]]
  <2> DEFINE s == [r EXCEPT !.chat = c, !.single = TRUE]
  <2>1. work' = [work EXCEPT ![w] = s]
    BY <1>3 DEF BaseInv, BaseTyped
  <2>2. /\ Serving(r, s) /\ s.at = r.at /\ s.todo = r.todo /\ s.left = r.left
        /\ s.posted = r.posted /\ s.chat = c /\ s.single = TRUE
    BY HandType DEF Serving, SameJob, WorkFields, Shaped
  <2> HIDE DEF s
  <2>3. ChatsInOrder(s)
    BY <1>1, <1>2, <2>2 DEF ChatsInOrder, Serving
  <2>4. s.posted \in SUBSET Chats
    BY <2>2, HandType DEF WorkTyped
  <2>5. /\ Only(w) /\ WorkOK(s) /\ WorkInv' /\ work' \in [Workers -> Works]
        /\ work'[w] = s /\ SameJob(r, s) /\ s.asking = r.asking
    BY <1>1, <1>2, <2>1, <2>2, <2>3, <2>4, ServingOK
  <2> QED
    BY <1>1, <2>2, <2>5
<1>4. CASE work' = [work EXCEPT ![w] = [AfterChat(w, c) EXCEPT !.left = @ \cup {c}]]
  <2> DEFINE a == AfterChat(w, c)
             s == [a EXCEPT !.left = @ \cup {c}]
  <2>1. /\ Serving(r, a) /\ a.todo = r.todo \ {c} /\ a.left = r.left /\ a.posted = r.posted
        /\ a.chat = NoChat /\ a.single = FALSE
        /\ a.at = IF r.todo \subseteq {c} THEN "record" ELSE "send"
    BY AfterChatFields
  <2>2. work' = [work EXCEPT ![w] = s]
    BY <1>4
  <2> HIDE DEF a
  <2>3. /\ Serving(r, s) /\ s.at = a.at /\ s.todo = a.todo /\ s.left = a.left \cup {c}
        /\ s.posted = a.posted /\ s.chat = a.chat /\ s.single = a.single
    BY <2>1 DEF Serving, SameJob, WorkFields, Shaped
  <2> HIDE DEF s
  <2>4. s.at \in {"send", "record"} /\ (s.at = "record" => s.todo = {})
    BY <2>1, <2>3
  <2>5. ChatsInOrder(s)
    BY <1>2, <2>1, <2>3, <2>4 DEF ChatsInOrder, Serving
  <2>6. s.left \subseteq Claimed(w).targets /\ s.posted \in SUBSET Chats
    BY <1>2, <2>1, <2>3, HandType DEF WorkTyped
  <2>7. /\ r.at = "send" /\ s.at \in {"send", "delete", "record"} /\ Serving(r, s)
        /\ s.todo \subseteq Claimed(w).targets
        /\ s.chat \in Chats \cup {NoChat} /\ s.single \in BOOLEAN
    BY <1>1, <1>2, <2>1, <2>3, <2>4
  <2>8. /\ Only(w) /\ WorkOK(s) /\ WorkInv' /\ work' \in [Workers -> Works]
        /\ work'[w] = s /\ SameJob(r, s) /\ s.asking = r.asking
    BY <2>2, <2>5, <2>6, <2>7, ServingOK
  <2>9. s.todo \cup s.left = r.todo \cup r.left
    BY <1>2, <2>1, <2>3
  <2> QED
    BY <2>1, <2>3, <2>4, <2>8, <2>9
<1> QED
  BY <1>3, <1>4 DEF VideoFails

LEMMA DeleteWork ==
  ASSUME BaseInv, NEW w \in Workers, DeleteText(w)
  PROVE  LET r == work[w]  s == work'[w] IN
         /\ Only(w) /\ WorkOK(s) /\ WorkInv' /\ work' \in [Workers -> Works]
         /\ SameJob(r, s) /\ s.posted = r.posted /\ s.asking = r.asking
         /\ s.at \in {"send", "record"} /\ s.left = r.left
         /\ s.todo = r.todo \ {r.chat} /\ r.chat \in r.posted /\ r.chat \in Chats
<1> DEFINE r == work[w]
           s == AfterChat(w, r.chat)
<1>1. r.at = "delete" /\ WorkOK(r) /\ WorkTyped(r) /\ work' = [work EXCEPT ![w] = s]
  BY HandType DEF DeleteText
<1>2. /\ r.chat \in r.todo /\ r.todo \cap r.posted = {r.chat} /\ r.found
      /\ r.left \cap (r.posted \cup r.todo) = {}
  BY <1>1 DEF WorkOK, ChatsInOrder, HandInOrder
<1>3. r.todo \subseteq Claimed(w).targets /\ r.left \subseteq Claimed(w).targets
  BY <1>1, JobInHand DEF WorkOK, HandInOrder
<1>4. /\ Serving(r, s) /\ s.todo = r.todo \ {r.chat} /\ s.left = r.left /\ s.posted = r.posted
      /\ s.chat = NoChat /\ s.single = FALSE
      /\ s.at = IF r.todo \subseteq {r.chat} THEN "record" ELSE "send"
  BY AfterChatFields
<1> HIDE DEF s
<1>5. s.at \in {"send", "record"} /\ (s.at = "record" => s.todo = {})
  BY <1>4
<1>6. ChatsInOrder(s)
  BY <1>2, <1>4, <1>5 DEF ChatsInOrder, Serving
<1>7. s.posted \in SUBSET Chats
  BY <1>1, <1>4 DEF WorkTyped
<1>8. /\ Only(w) /\ WorkOK(s) /\ WorkInv' /\ work' \in [Workers -> Works]
      /\ work'[w] = s /\ SameJob(r, s) /\ s.asking = r.asking
  BY <1>1, <1>2, <1>3, <1>4, <1>5, <1>6, <1>7, ServingOK
<1>9. r.chat \in r.posted /\ r.chat \in Chats
  BY <1>1, <1>2 DEF WorkTyped
<1> QED
  BY <1>4, <1>5, <1>8, <1>9

\* After an outcome is written the worker has the rest of its rows, or none.
LEMMA RecordWork ==
  ASSUME BaseInv, NEW w \in Workers, Record(w)
  PROVE  LET r == work[w]  s == work'[w] IN
         /\ Only(w) /\ WorkOK(s) /\ WorkInv' /\ work' \in [Workers -> Works]
         /\ s.queue = r.queue /\ BetweenJobs(s) /\ s.at \in {"idle", "pick"}
         /\ \A j \in s.queue : s.claimed[j] = r.claimed[j]
<1> DEFINE r == work[w]
<1>1. WorkOK(r) /\ WorkTyped(r)
  BY HandType
<1>2. NoJob \notin r.queue
  BY <1>1, RecoveryAssumption DEF WorkTyped
<1>3. CASE r.queue = {}
  <2>1. work' = [work EXCEPT ![w] = Idle]
    BY <1>3 DEF Record, BaseInv, BaseTyped
  <2>2. work'[w] = Idle /\ Only(w) /\ WorkInv' /\ work' \in [Workers -> Works]
    BY <2>1, IdleOK, WorkChange DEF BaseInv, BaseTyped, Only
  <2>3. Idle.queue = {} /\ BetweenJobs(Idle) /\ Idle.at = "idle"
    BY DEF Idle, BetweenJobs
  <2> QED
    BY <1>3, <2>2, <2>3, IdleOK
<1>4. CASE r.queue # {}
  <2> DEFINE s == [Idle EXCEPT !.at = "pick", !.queue = r.queue, !.claimed = r.claimed]
  <2>1. work' = [work EXCEPT ![w] = s]
    BY <1>4 DEF Record, BaseInv, BaseTyped
  <2>2. /\ s.at = "pick" /\ s.claimed = r.claimed /\ s.queue = r.queue /\ s.job = NoJob /\ ~s.found
        /\ s.found \in BOOLEAN /\ s.todo = {} /\ s.left = {} /\ s.posted = {} /\ s.chat = NoChat
        /\ s.single \in BOOLEAN /\ s.asking = "no"
        /\ Shaped(s)
    BY DEF Idle, WorkFields, Shaped
  <2> HIDE DEF s
  <2>3. s \in Works
    BY <1>1, <2>2, WorksIntro DEF WorkTyped, WorkStates, Asking
  <2>4. WorkOK(s)
    BY <1>2, <2>2, <2>3 DEF WorkOK, ChatsInOrder, HandInOrder
  <2>5. work'[w] = s /\ Only(w) /\ WorkInv' /\ work' \in [Workers -> Works]
    BY <2>1, <2>4, WorkChange DEF BaseInv, BaseTyped, Only
  <2> QED
    BY <2>2, <2>4, <2>5 DEF BetweenJobs
<1> QED
  BY <1>3, <1>4

LEMMA CrashWork ==
  ASSUME BaseInv, NEW w \in Workers, Crash(w)
  PROVE  LET s == work'[w] IN
         /\ Only(w) /\ WorkOK(s) /\ WorkInv' /\ work' \in [Workers -> Works]
         /\ s.queue = {} /\ BetweenJobs(s) /\ s.at = "idle"
<1>1. work'[w] = Idle /\ Only(w) /\ WorkInv' /\ work' \in [Workers -> Works]
  BY IdleOK, WorkChange DEF Crash, BaseInv, BaseTyped, Only
<1> QED
  BY <1>1, IdleOK DEF Idle, BetweenJobs

-----------------------------------------------------------------------------
(* The rows, and the types of every step                                   *)

RowFields == {"status", "due", "attempts", "retrieval", "asked", "targets", "lock"}

RowTyped(r) ==
  /\ r.status \in Open \cup Terminal \cup {"absent"} /\ r.due \in BOOLEAN /\ r.attempts \in Nat
  /\ r.retrieval \in BOOLEAN /\ r.asked \in BOOLEAN /\ r.targets \in SUBSET Chats
  /\ r.lock \in {"free", "fresh", "stale"}

LEMMA RowsElim == ASSUME NEW r \in Rows PROVE r = [f \in RowFields |-> r[f]] /\ RowTyped(r)
  BY DEF Rows, RowTyped, RowFields

LEMMA RowsIntro ==
  ASSUME NEW r, r = [f \in RowFields |-> r[f]], RowTyped(r)
  PROVE  r \in Rows
  BY DEF Rows, RowTyped, RowFields

\* How a step ends: open only while the budget lasts, completed only when no
\* chat is left.
LEMMA OutcomeMeans ==
  ASSUME NEW w
  PROVE  /\ Outcome(w) \in Open \cup Terminal
         /\ Outcome(w) \in Open => ~BudgetSpent(w)
         /\ Outcome(w) = "completed" =>
              Claimed(w).targets = {} \/ (work[w].found /\ work[w].left = {})
         /\ AskRecorded(w) => Asked(w)
  BY DEF Outcome, AllServed, Open, Terminal, AskRecorded, Asked

LEMMA WrittenFields ==
  ASSUME BaseInv, NEW w \in Workers, work[w].at = "record"
  PROVE  LET row == rows[Job(w)]  new == Written(w) IN
         /\ new \in Rows /\ new.status = Outcome(w) /\ new.lock = "free"
         /\ new.attempts = IF Outcome(w) \in Open THEN row.attempts + 1 ELSE row.attempts
         /\ new.asked = (row.asked \/ AskRecorded(w))
         /\ new.retrieval = (row.retrieval \/ (AskRecorded(w) /\ work[w].asking = "named"))
         /\ new.targets = IF work[w].found THEN work[w].left ELSE row.targets
<1> DEFINE row == rows[Job(w)]  new == Written(w)
<1>1. row \in Rows
  BY JobInHand
<1>2. row = [f \in RowFields |-> row[f]] /\ RowTyped(row)
  BY <1>1, RowsElim
<1>3. work[w].left \in SUBSET Chats
  BY HandType DEF WorkTyped
<1> DEFINE due == IF Outcome(w) \in Open THEN FALSE ELSE row.due
<1>4. /\ new.status = Outcome(w) /\ new.lock = "free"
      /\ new.attempts = IF Outcome(w) \in Open THEN row.attempts + 1 ELSE row.attempts
      /\ new.asked = (row.asked \/ AskRecorded(w))
      /\ new.retrieval = (row.retrieval \/ (AskRecorded(w) /\ work[w].asking = "named"))
      /\ new.targets = IF work[w].found THEN work[w].left ELSE row.targets
      /\ new.due = due
      /\ new = [f \in RowFields |-> new[f]]
  BY <1>2 DEF Written, RowFields
<1> HIDE DEF new
<1>5. Outcome(w) \in Open \cup Terminal
  BY OutcomeMeans
<1>6. RowTyped(new)
  <2>1. new.status \in Open \cup Terminal \cup {"absent"} /\ new.lock \in {"free", "fresh", "stale"}
    BY <1>4, <1>5
  <2>2. new.attempts \in Nat
    BY <1>2, <1>4 DEF RowTyped
  <2>3. new.targets \in SUBSET Chats
    BY <1>2, <1>3, <1>4 DEF RowTyped
  <2>4. new.asked \in BOOLEAN /\ new.retrieval \in BOOLEAN
    BY <1>4
  <2>5. new.due \in BOOLEAN
    BY <1>2, <1>4 DEF RowTyped
  <2> QED
    BY <2>1, <2>2, <2>3, <2>4, <2>5 DEF RowTyped
<1>7. new \in Rows
  BY <1>4, <1>6, RowsIntro
<1> QED
  BY <1>4, <1>7 DEF new

\* One more video, fault or request is still a count.
LEMMA OneMoreType ==
  ASSUME NEW f \in [Jobs -> [Chats -> Nat]], NEW w, Job(w) \in Jobs, NEW c \in Chats
  PROVE  /\ OneMore(f, w, c) \in [Jobs -> [Chats -> Nat]]
         /\ OneMore(f, w, c)[Job(w)][c] = f[Job(w)][c] + 1
         /\ \A j \in Jobs, d \in Chats :
              j # Job(w) \/ d # c => OneMore(f, w, c)[j][d] = f[j][d]
  BY DEF OneMore

LEMMA ForgottenFields ==
  ASSUME BaseTyped, NEW w, Job(w) \in Jobs, Forgotten(w)
  PROVE  /\ excuse' \in [Jobs -> [Chats -> Nat]] /\ unrecorded' \in [Jobs -> Nat]
         /\ \A j \in Jobs, c \in Chats :
              excuse'[j][c] = IF j = Job(w) /\ c \in work[w].posted
                              THEN excuse[j][c] + 1 ELSE excuse[j][c]
         /\ \A j \in Jobs :
              unrecorded'[j] = IF j = Job(w) /\ Asked(w) THEN unrecorded[j] + 1 ELSE unrecorded[j]
<1>1. unrecorded' \in [Jobs -> Nat] /\
      \A j \in Jobs :
        unrecorded'[j] = IF j = Job(w) /\ Asked(w) THEN unrecorded[j] + 1 ELSE unrecorded[j]
  BY DEF Forgotten, BaseTyped
<1> DEFINE e(c) == excuse[Job(w)][c] + IF c \in work[w].posted THEN 1 ELSE 0
<1>2. excuse' = [excuse EXCEPT ![Job(w)] = [c \in Chats |-> e(c)]]
  BY DEF Forgotten
<1>3. \A c \in Chats : e(c) \in Nat /\
        e(c) = IF c \in work[w].posted THEN excuse[Job(w)][c] + 1 ELSE excuse[Job(w)][c]
  BY DEF BaseTyped
<1> HIDE DEF e
<1>4. excuse' \in [Jobs -> [Chats -> Nat]] /\
      \A j \in Jobs, c \in Chats :
        excuse'[j][c] = IF j = Job(w) /\ c \in work[w].posted
                        THEN excuse[j][c] + 1 ELSE excuse[j][c]
  BY <1>2, <1>3 DEF BaseTyped
<1> QED
  BY <1>1, <1>4

\* The rows of a claim get a fresh mark and are otherwise as they were.
LEMMA ClaimRows ==
  ASSUME BaseTyped, NEW claimed \in SUBSET Jobs, Claim(claimed)
  PROVE  /\ rows' \in [Jobs -> Rows] /\ claimed \subseteq Claimable
         /\ \A j \in claimed :
              /\ rows'[j].lock = "fresh" /\ rows'[j].status = rows[j].status
              /\ rows'[j].attempts = rows[j].attempts /\ rows'[j].targets = rows[j].targets
              /\ rows'[j].asked = rows[j].asked /\ rows'[j].retrieval = rows[j].retrieval
         /\ \A j \in Jobs \ claimed : rows'[j] = rows[j]
<1>1. \A j \in Jobs \ claimed : rows'[j] = rows[j]
  BY DEF Claim
<1>2. ASSUME NEW j \in claimed
      PROVE  /\ rows'[j] \in Rows
             /\ rows'[j].lock = "fresh" /\ rows'[j].status = rows[j].status
             /\ rows'[j].attempts = rows[j].attempts /\ rows'[j].targets = rows[j].targets
             /\ rows'[j].asked = rows[j].asked /\ rows'[j].retrieval = rows[j].retrieval
  <2> DEFINE row == rows[j]  new == [row EXCEPT !.lock = "fresh"]
  <2>1. row = [f \in RowFields |-> row[f]] /\ RowTyped(row)
    BY RowsElim DEF BaseTyped
  <2>2. rows'[j] = new
    BY DEF Claim
  <2>3. /\ new.lock = "fresh" /\ new.status = row.status /\ new.attempts = row.attempts
        /\ new.targets = row.targets /\ new.asked = row.asked /\ new.retrieval = row.retrieval
        /\ new.due = row.due /\ new = [f \in RowFields |-> new[f]]
    BY <2>1 DEF RowFields
  <2> HIDE DEF new
  <2>4. new \in Rows
    BY <2>1, <2>3, RowsIntro DEF RowTyped
  <2> QED
    BY <2>2, <2>3, <2>4
<1>3. rows' = [j \in Jobs |-> rows'[j]]
  BY DEF Claim
<1>4. rows' \in [Jobs -> Rows]
  BY <1>1, <1>2, <1>3 DEF BaseTyped
<1> QED
  BY <1>1, <1>2, <1>4 DEF Claim

\* A change of one row that keeps what the workers rely on.
LEMMA RowChange ==
  ASSUME BaseTyped, NEW j \in Jobs, NEW new \in Rows, rows' = [rows EXCEPT ![j] = new]
  PROVE  rows' \in [Jobs -> Rows] /\ rows'[j] = new /\ \A i \in Jobs \ {j} : rows'[i] = rows[i]
  BY DEF BaseTyped

LEMMA EnqueueRow ==
  ASSUME BaseTyped, NEW j \in Jobs, Enqueue(j)
  PROVE  LET new == rows'[j] IN
         /\ rows' \in [Jobs -> Rows] /\ \A i \in Jobs \ {j} : rows'[i] = rows[i]
         /\ new.status = "pending_recheck" /\ new.targets = TargetsOf[j]
         /\ new.attempts = rows[j].attempts /\ new.asked = rows[j].asked
         /\ new.retrieval = rows[j].retrieval
<1> DEFINE row == rows[j]
           new == [row EXCEPT !.status = "pending_recheck", !.targets = TargetsOf[j]]
<1>1. row = [f \in RowFields |-> row[f]] /\ RowTyped(row)
  BY RowsElim DEF BaseTyped
<1>2. rows' = [rows EXCEPT ![j] = new]
  BY DEF Enqueue, BaseTyped
<1>3. /\ new.status = "pending_recheck" /\ new.targets = TargetsOf[j] /\ new.lock = row.lock
      /\ new.attempts = row.attempts /\ new.asked = row.asked /\ new.retrieval = row.retrieval
      /\ new.due = row.due /\ new = [f \in RowFields |-> new[f]]
  BY <1>1 DEF RowFields
<1> HIDE DEF new
<1>4. TargetsOf[j] \in SUBSET Chats
  BY RecoveryAssumption
<1>5. new \in Rows
  BY <1>1, <1>3, <1>4, RowsIntro DEF RowTyped, Open
<1> QED
  BY <1>2, <1>3, <1>5, RowChange

\* A row that comes due, or whose mark grows old.
LEMMA ClockRow ==
  ASSUME BaseTyped, NEW j \in Jobs, ComesDue(j) \/ LockGoesStale(j)
  PROVE  LET new == rows'[j] IN
         /\ rows' \in [Jobs -> Rows] /\ \A i \in Jobs \ {j} : rows'[i] = rows[i]
         /\ new.status = rows[j].status /\ new.targets = rows[j].targets
         /\ new.attempts = rows[j].attempts /\ new.asked = rows[j].asked
         /\ new.retrieval = rows[j].retrieval
         /\ ComesDue(j) => new.lock = rows[j].lock
<1> DEFINE row == rows[j]
<1>1. row = [f \in RowFields |-> row[f]] /\ RowTyped(row)
  BY RowsElim DEF BaseTyped
<1>2. CASE ComesDue(j)
  <2> DEFINE new == [row EXCEPT !.due = TRUE]
  <2>1. rows' = [rows EXCEPT ![j] = new]
    BY <1>2 DEF ComesDue, BaseTyped
  <2>2. /\ new.status = row.status /\ new.targets = row.targets /\ new.lock = row.lock
        /\ new.attempts = row.attempts /\ new.asked = row.asked /\ new.retrieval = row.retrieval
        /\ new.due = TRUE /\ new = [f \in RowFields |-> new[f]]
    BY <1>1 DEF RowFields
  <2> HIDE DEF new
  <2>3. new \in Rows
    BY <1>1, <2>2, RowsIntro DEF RowTyped
  <2> QED
    BY <2>1, <2>2, <2>3, RowChange
<1>3. CASE LockGoesStale(j)
  <2> DEFINE new == [row EXCEPT !.lock = "stale"]
  <2>1. rows' = [rows EXCEPT ![j] = new]
    BY <1>3 DEF LockGoesStale, BaseTyped
  <2>2. /\ new.status = row.status /\ new.targets = row.targets /\ new.lock = "stale"
        /\ new.attempts = row.attempts /\ new.asked = row.asked /\ new.retrieval = row.retrieval
        /\ new.due = row.due /\ new = [f \in RowFields |-> new[f]]
    BY <1>1 DEF RowFields
  <2> HIDE DEF new
  <2>3. new \in Rows
    BY <1>1, <2>2, RowsIntro DEF RowTyped
  <2>4. ~ComesDue(j) \/ new.lock = row.lock
    <3>1. ComesDue(j) => rows'[j].lock = row.lock
      BY <1>1, RowsElim DEF ComesDue, BaseTyped, RowFields
    <3>2. rows'[j] = new
      BY <2>1, <2>3, RowChange
    <3> QED
      BY <3>1, <3>2
  <2> QED
    BY <2>1, <2>2, <2>3, <2>4, RowChange
<1> QED
  BY <1>2, <1>3

LEMMA InitBase == Init => BaseInv
<1> SUFFICES ASSUME Init PROVE BaseInv
  OBVIOUS
<1>1. FaultsTypeOK
  BY FaultsAssumption DEF Init, FaultsInit, FaultsTypeOK
<1>2. work \in [Workers -> Works] /\ WorkInv
  BY IdleOK DEF Init, WorkInv, WorkOK
<1>3. rows \in [Jobs -> Rows]
  BY NoRowType DEF Init
<1>4. text \in [Jobs -> SUBSET Chats]
  BY RecoveryAssumption DEF Init
<1> QED
  BY <1>1, <1>2, <1>3, <1>4 DEF Init, BaseInv, BaseTyped

\* Every step keeps the types and what a worker knows of itself.
LEMMA StepBase ==
  ASSUME BaseInv, NEW w \in Workers, WorkerStep(w) \/ TickLost(w) \/ Crash(w)
  PROVE  BaseInv'
<1> USE DEF BaseInv
<1>1. CASE Tick(w)
  <2>1. PICK claimed \in SUBSET Jobs :
          Claim(claimed) /\ Takes(w, claimed)
    BY <1>1 DEF Tick, Takes
  <2>2. WorkInv' /\ work' \in [Workers -> Works] /\ rows' \in [Jobs -> Rows]
    BY <2>1, TickWork, ClaimRows
  <2> QED
    BY <1>1, <2>2 DEF Tick, BaseTyped, FaultsTypeOK, world, history
<1>2. CASE TickLost(w)
  <2>1. PICK claimed \in SUBSET Jobs : Claim(claimed)
    BY <1>2 DEF TickLost
  <2>2. rows' \in [Jobs -> Rows]
    BY <2>1, ClaimRows
  <2>3. FaultsTypeOK'
    BY <1>2, FaultType DEF TickLost, BaseTyped
  <2> QED
    BY <1>2, <2>2, <2>3 DEF TickLost, BaseTyped, WorkInv, world, history
<1>3. ASSUME NEW j \in Jobs, Pick(w, j) PROVE BaseInv'
  <2>1. WorkInv' /\ work' \in [Workers -> Works]
    BY <1>3, PickWork
  <2> QED
    BY <1>3, <2>1 DEF Pick, BaseTyped, FaultsTypeOK, world, history
<1>4. CASE Look(w)
  <2>1. WorkInv' /\ work' \in [Workers -> Works]
    BY <1>4, LookWork
  <2>2. FaultsTypeOK'
    BY <1>4, FaultType DEF Look, BaseTyped
  <2> QED
    BY <1>4, <2>1, <2>2 DEF Look, BaseTyped, world, history
<1>5. CASE AskAccepted(w)
  <2>1. WorkInv' /\ work' \in [Workers -> Works]
    BY <1>5, AskAcceptedWork
  <2>2. Job(w) \in Jobs
    BY <1>5, JobInHand DEF AskAccepted
  <2>3. footage' \in SUBSET Jobs /\ asks' \in [Jobs -> Nat]
    BY <1>5, <2>2 DEF AskAccepted, BaseTyped
  <2> QED
    BY <1>5, <2>1, <2>3 DEF AskAccepted, BaseTyped, FaultsTypeOK
<1>6. CASE AskFails(w)
  <2>1. WorkInv' /\ work' \in [Workers -> Works]
    BY <1>6, AskFailsWork
  <2>2. Job(w) \in Jobs
    BY <1>6, JobInHand DEF AskFails
  <2>3. asks' \in [Jobs -> Nat]
    <3>1. asks' = asks \/ asks' = [asks EXCEPT ![Job(w)] = @ + 1]
      BY <1>6 DEF AskFails
    <3> QED
      BY <2>2, <3>1 DEF BaseTyped
  <2>4. FaultsTypeOK'
    BY <1>6, FaultType DEF AskFails, BaseTyped
  <2> QED
    BY <1>6, <2>1, <2>3, <2>4 DEF AskFails, BaseTyped, world
<1>7. CASE ReadSwitches(w)
  <2>1. WorkInv' /\ work' \in [Workers -> Works]
    BY <1>7, SwitchesWork
  <2>2. FaultsTypeOK'
    BY <1>7, FaultType DEF ReadSwitches, BaseTyped
  <2> QED
    BY <1>7, <2>1, <2>2 DEF ReadSwitches, BaseTyped, world, history
<1>8. ASSUME NEW c \in Chats, VideoSent(w, c) PROVE BaseInv'
  <2>1. WorkInv' /\ work' \in [Workers -> Works]
    BY <1>8, SentWork
  <2>2. videos' \in [Jobs -> [Chats -> Nat]]
    BY <1>8, JobInHand, OneMoreType DEF VideoSent, BaseTyped
  <2> QED
    BY <1>8, <2>1, <2>2 DEF VideoSent, BaseTyped, FaultsTypeOK, world
<1>9. ASSUME NEW c \in Chats, NEW arrived \in BOOLEAN, VideoFails(w, c, arrived) PROVE BaseInv'
  <2>1. WorkInv' /\ work' \in [Workers -> Works]
    BY <1>9, FailsWork
  <2>2. videos' \in [Jobs -> [Chats -> Nat]] /\ excuse' \in [Jobs -> [Chats -> Nat]]
    BY <1>9, JobInHand, OneMoreType DEF VideoFails, BaseTyped
  <2>3. FaultsTypeOK'
    BY <1>9, FaultType DEF VideoFails, BaseTyped
  <2> QED
    BY <1>9, <2>1, <2>2, <2>3 DEF VideoFails, BaseTyped, world
<1>10. CASE DeleteText(w)
  <2>1. WorkInv' /\ work' \in [Workers -> Works]
    BY <1>10, DeleteWork
  <2>2. text' \in [Jobs -> SUBSET Chats]
    BY <1>10 DEF DeleteText, BaseTyped
  <2>3. FaultsTypeOK'
    BY <1>10, FaultType DEF DeleteText, BaseTyped
  <2> QED
    BY <1>10, <2>1, <2>2, <2>3 DEF DeleteText, BaseTyped, world
<1>11. CASE Record(w)
  <2>1. WorkInv' /\ work' \in [Workers -> Works]
    BY <1>11, RecordWork
  <2>2. Job(w) \in Jobs
    BY <1>11, JobInHand DEF Record
  <2>3. rows' \in [Jobs -> Rows]
    BY <1>11, <2>2, WrittenFields DEF Record, BaseTyped
  <2>4. excuse' \in [Jobs -> [Chats -> Nat]] /\ unrecorded' \in [Jobs -> Nat]
    <3>1. CASE Forgotten(w)
      BY <2>2, <3>1, ForgottenFields
    <3>2. CASE /\ unrecorded' = IF Asked(w) /\ ~AskRecorded(w)
                                THEN [unrecorded EXCEPT ![Job(w)] = @ + 1] ELSE unrecorded
               /\ UNCHANGED excuse
      BY <2>2, <3>2 DEF BaseTyped
    <3> QED
      BY <1>11, <3>1, <3>2 DEF Record
  <2>5. FaultsTypeOK'
    BY <1>11, FaultType DEF Record, BaseTyped
  <2> QED
    BY <1>11, <2>1, <2>3, <2>4, <2>5 DEF Record, BaseTyped, world
<1>12. CASE Crash(w)
  <2>1. WorkInv' /\ work' \in [Workers -> Works]
    BY <1>12, CrashWork
  <2>2. excuse' \in [Jobs -> [Chats -> Nat]] /\ unrecorded' \in [Jobs -> Nat]
    BY <1>12, ForgottenFields DEF Crash, BaseTyped
  <2>3. FaultsTypeOK'
    BY <1>12, FaultType DEF Crash, BaseTyped
  <2> QED
    BY <1>12, <2>1, <2>2, <2>3 DEF Crash, BaseTyped, world
<1> QED
  BY <1>1, <1>2, <1>3, <1>4, <1>5, <1>6, <1>7, <1>8, <1>9, <1>10, <1>11, <1>12 DEF WorkerStep

LEMMA NextBase == BaseInv /\ [Next]_vars => BaseInv'
<1> SUFFICES ASSUME BaseInv, [Next]_vars PROVE BaseInv'
  OBVIOUS
<1> USE DEF BaseInv
<1>1. CASE \E w \in Workers : WorkerStep(w) \/ TickLost(w) \/ Crash(w)
  BY <1>1, StepBase
<1>2. ASSUME NEW j \in Jobs, Enqueue(j) PROVE BaseInv'
  <2>1. rows' \in [Jobs -> Rows]
    BY <1>2, EnqueueRow
  <2> QED
    BY <1>2, <2>1 DEF Enqueue, BaseTyped, FaultsTypeOK, WorkInv, world, history
<1>3. ASSUME NEW j \in Jobs, ComesDue(j) PROVE BaseInv'
  <2>1. rows' \in [Jobs -> Rows]
    BY <1>3, ClockRow
  <2> QED
    BY <1>3, <2>1 DEF ComesDue, BaseTyped, FaultsTypeOK, WorkInv, world, history
<1>4. ASSUME NEW j \in Jobs, LockGoesStale(j) PROVE BaseInv'
  <2>1. rows' \in [Jobs -> Rows]
    BY <1>4, ClockRow
  <2>2. FaultsTypeOK' /\ outlived' \in SUBSET Jobs
    BY <1>4, FaultType DEF LockGoesStale, BaseTyped
  <2> QED
    BY <1>4, <2>1, <2>2 DEF LockGoesStale, BaseTyped, WorkInv, world
<1>5. ASSUME NEW j \in Jobs, ClipAppears(j) PROVE BaseInv'
  BY <1>5 DEF ClipAppears, BaseTyped, FaultsTypeOK, WorkInv, history
<1>6. ASSUME NEW c \in DriverGroups, FlipSwitch(c) PROVE BaseInv'
  BY <1>6 DEF FlipSwitch, BaseTyped, FaultsTypeOK, WorkInv
<1>7. CASE UNCHANGED vars
  BY <1>7 DEF vars, BaseTyped, FaultsTypeOK, WorkInv, world, history
<1> QED
  BY <1>1, <1>2, <1>3, <1>4, <1>5, <1>6, <1>7 DEF Next, Clock

LEMMA BaseAlways == Spec => []BaseInv
  BY InitBase, NextBase, PTL DEF Spec

-----------------------------------------------------------------------------
(* Claims                                                                  *)

\* What a worker read with its claim is what the row still says.
ClaimKept(w, j) ==
  LET row == rows[j]  known == work[w].claimed[j] IN
  /\ row.lock = "fresh" /\ row.status \in Open
  /\ row.attempts = known.attempts /\ row.targets = known.targets
  /\ row.asked = known.asked /\ row.retrieval = known.retrieval

\* Unless a claim has grown old under its worker, one worker at most holds a
\* row, what it knows of the row is true, and its attempts are not spent.
ClaimInv ==
  /\ \A j \in Jobs \ outlived, w \in Workers : Holds(w, j) => ClaimKept(w, j)
  /\ \A j \in Jobs \ outlived, u, w \in Workers : Holds(u, j) /\ Holds(w, j) => u = w
  /\ \A j \in Jobs \ outlived : rows[j].attempts < MaxAttempts

\* A worker that holds no more than it did.
HoldsOn(w) ==
  LET r == work[w]  s == work'[w] IN
  \A j \in Jobs : j \in s.queue \/ j = s.job =>
    (j \in r.queue \/ j = r.job) /\ s.claimed[j] = r.claimed[j]

LEMMA HoldsOnClaims ==
  ASSUME ClaimInv, NEW w \in Workers, Only(w), HoldsOn(w), rows' = rows, outlived' = outlived
  PROVE  ClaimInv'
<1>1. ASSUME NEW j \in Jobs, NEW u \in Workers, Holds(u, j)'
      PROVE  Holds(u, j) /\ work'[u].claimed[j] = work[u].claimed[j]
  <2>1. CASE u = w
    BY <1>1, <2>1 DEF HoldsOn, Holds
  <2>2. CASE u # w
    BY <1>1, <2>2 DEF Only, Holds
  <2> QED
    BY <2>1, <2>2
<1>2. ASSUME NEW j \in Jobs \ outlived', NEW u \in Workers, Holds(u, j)'
      PROVE  ClaimKept(u, j)'
  BY <1>1, <1>2 DEF ClaimInv, ClaimKept
<1>3. ASSUME NEW j \in Jobs \ outlived', NEW u \in Workers, NEW v \in Workers,
             Holds(u, j)', Holds(v, j)'
      PROVE  u = v
  BY <1>1, <1>3 DEF ClaimInv
<1>4. \A j \in Jobs \ outlived' : rows'[j].attempts < MaxAttempts
  BY DEF ClaimInv
<1> QED
  BY <1>2, <1>3, <1>4 DEF ClaimInv

\* The steps between a claim and its outcome leave the rows alone, and the
\* worker with what it holds.
HoldingStep(w) ==
  \/ \E j \in Jobs : Pick(w, j)
  \/ Look(w) \/ AskAccepted(w) \/ AskFails(w) \/ ReadSwitches(w)
  \/ \E c \in Chats : VideoSent(w, c) \/ \E arrived \in BOOLEAN : VideoFails(w, c, arrived)
  \/ DeleteText(w) \/ Crash(w)

LEMMA WorkHoldsOn ==
  ASSUME BaseInv, NEW w \in Workers, HoldingStep(w)
  PROVE  Only(w) /\ HoldsOn(w) /\ rows' = rows /\ outlived' = outlived
<1>1. ASSUME NEW i \in Jobs, Pick(w, i)
      PROVE  Only(w) /\ HoldsOn(w) /\ rows' = rows /\ outlived' = outlived
  <2>1. rows' = rows /\ outlived' = outlived
    BY <1>1 DEF Pick, history
  <2> DEFINE r == work[w]  s == work'[w]
  <2>2. /\ Only(w) /\ i \in r.queue /\ s.job = i /\ s.queue = r.queue \ {i}
        /\ s.claimed = r.claimed
    BY <1>1, PickWork
  <2>3. HoldsOn(w)
    BY <2>2 DEF HoldsOn
  <2> QED
    BY <2>1, <2>2, <2>3
<1>2. CASE Look(w)
  BY <1>2, LookWork DEF Look, HoldsOn, SameJob, history
<1>3. CASE AskAccepted(w)
  BY <1>3, AskAcceptedWork DEF AskAccepted, HoldsOn, SameJob
<1>4. CASE AskFails(w)
  BY <1>4, AskFailsWork DEF AskFails, HoldsOn, SameJob
<1>5. CASE ReadSwitches(w)
  BY <1>5, SwitchesWork DEF ReadSwitches, HoldsOn, SameJob, history
<1>6. ASSUME NEW c \in Chats, VideoSent(w, c)
      PROVE  Only(w) /\ HoldsOn(w) /\ rows' = rows /\ outlived' = outlived
  BY <1>6, SentWork DEF VideoSent, HoldsOn, SameJob
<1>7. ASSUME NEW c \in Chats, NEW arrived \in BOOLEAN, VideoFails(w, c, arrived)
      PROVE  Only(w) /\ HoldsOn(w) /\ rows' = rows /\ outlived' = outlived
  BY <1>7, FailsWork DEF VideoFails, HoldsOn, SameJob
<1>8. CASE DeleteText(w)
  BY <1>8, DeleteWork DEF DeleteText, HoldsOn, SameJob
<1>9. CASE Crash(w)
  BY <1>9, CrashWork, RecoveryAssumption DEF Crash, HoldsOn, BetweenJobs
<1> QED
  BY <1>1, <1>2, <1>3, <1>4, <1>5, <1>6, <1>7, <1>8, <1>9 DEF HoldingStep

LEMMA TickClaims ==
  ASSUME BaseInv, ClaimInv, NEW w \in Workers, Tick(w) \/ TickLost(w)
  PROVE  ClaimInv'
<1>1. PICK claimed \in SUBSET Jobs :
        /\ Claim(claimed)
        /\ work' = work \/ Takes(w, claimed)
  BY DEF Tick, TickLost, Takes
<1>2. outlived' = outlived
  BY DEF Tick, TickLost, history
<1>3. /\ rows' \in [Jobs -> Rows] /\ claimed \subseteq Claimable
      /\ \A j \in claimed :
           /\ rows'[j].lock = "fresh" /\ rows'[j].status = rows[j].status
           /\ rows'[j].attempts = rows[j].attempts /\ rows'[j].targets = rows[j].targets
           /\ rows'[j].asked = rows[j].asked /\ rows'[j].retrieval = rows[j].retrieval
      /\ \A j \in Jobs \ claimed : rows'[j] = rows[j]
  BY <1>1, ClaimRows DEF BaseInv
<1>4. \A j \in claimed : rows[j].lock # "fresh" /\ rows[j].status \in Open
  BY <1>3 DEF Claimable
\* Nobody held the rows of the claim before.
<1>5. \A j \in claimed \ outlived, u \in Workers : ~Holds(u, j)
  BY <1>4 DEF ClaimInv, ClaimKept
<1>6. ASSUME NEW j \in Jobs, NEW u \in Workers, Holds(u, j)'
      PROVE  \/ Holds(u, j) /\ work'[u].claimed[j] = work[u].claimed[j]
             \/ u = w /\ j \in claimed /\ work'[w].claimed[j] = rows[j]
  <2>1. CASE work' = work
    BY <1>6, <2>1 DEF Holds
  <2>2. CASE work' # work
    <3>1. /\ Only(w) /\ work'[w].queue = claimed /\ BetweenJobs(work'[w])
          /\ \A i \in claimed : work'[w].claimed[i] = rows[i]
      BY <1>1, <2>2, TickWork
    <3>2. CASE u = w
      BY <1>6, <3>1, <3>2, RecoveryAssumption DEF Holds, BetweenJobs
    <3>3. CASE u # w
      BY <1>6, <3>1, <3>3 DEF Holds, Only
    <3> QED
      BY <3>2, <3>3
  <2> QED
    BY <2>1, <2>2
<1>7. ASSUME NEW j \in Jobs \ outlived', NEW u \in Workers, Holds(u, j)'
      PROVE  ClaimKept(u, j)'
  <2>1. CASE Holds(u, j) /\ work'[u].claimed[j] = work[u].claimed[j]
    BY <1>2, <1>3, <1>5, <2>1 DEF ClaimInv, ClaimKept
  <2>2. CASE u = w /\ j \in claimed /\ work'[w].claimed[j] = rows[j]
    BY <1>3, <1>4, <2>2 DEF ClaimKept
  <2> QED
    BY <1>6, <1>7, <2>1, <2>2
<1>8. ASSUME NEW j \in Jobs \ outlived', NEW u \in Workers, NEW v \in Workers,
             Holds(u, j)', Holds(v, j)'
      PROVE  u = v
  BY <1>2, <1>5, <1>6, <1>8 DEF ClaimInv
<1>9. \A j \in Jobs \ outlived' : rows'[j].attempts < MaxAttempts
  BY <1>2, <1>3 DEF ClaimInv
<1> QED
  BY <1>7, <1>8, <1>9 DEF ClaimInv

LEMMA RecordClaims ==
  ASSUME BaseInv, ClaimInv, NEW w \in Workers, Record(w)
  PROVE  ClaimInv'
<1>1. /\ Only(w) /\ work'[w].queue = work[w].queue /\ BetweenJobs(work'[w])
      /\ \A j \in work[w].queue : work'[w].claimed[j] = work[w].claimed[j]
  BY RecordWork
<1>2. Job(w) \in Jobs /\ Holds(w, Job(w)) /\ Job(w) \notin work[w].queue
  BY JobInHand, HandType DEF Record, Holds, WorkOK, HandInOrder
<1>3. HoldsOn(w)
  BY <1>1, RecoveryAssumption DEF HoldsOn, BetweenJobs
<1>4. outlived' = outlived
  BY DEF Record
<1>5. CASE rows' = rows
  BY <1>1, <1>3, <1>4, <1>5, HoldsOnClaims
<1>6. CASE rows' = [rows EXCEPT ![Job(w)] = Written(w)]
  <2>1. Written(w) \in Rows
    BY WrittenFields DEF Record
  <2>2. rows'[Job(w)] = Written(w) /\ \A j \in Jobs \ {Job(w)} : rows'[j] = rows[j]
    BY <1>2, <1>6, <2>1, RowChange DEF BaseInv
  <2>3. ASSUME NEW j \in Jobs, NEW u \in Workers, Holds(u, j)'
        PROVE  Holds(u, j) /\ work'[u].claimed[j] = work[u].claimed[j]
    <3>1. CASE u = w
      BY <2>3, <3>1, <1>3 DEF HoldsOn, Holds
    <3>2. CASE u # w
      BY <2>3, <3>2, <1>1 DEF Only, Holds
    <3> QED
      BY <3>1, <3>2
  \* The row of the outcome is nobody's any more.
  <2>4. ASSUME NEW j \in Jobs \ outlived, j = Job(w) PROVE \A u \in Workers : ~Holds(u, j)'
    <3>1. ~Holds(w, j)'
      BY <1>1, <1>2, <2>4, RecoveryAssumption DEF Holds, BetweenJobs
    <3>2. \A u \in Workers \ {w} : ~Holds(u, j)'
      BY <1>2, <2>3, <2>4 DEF ClaimInv
    <3> QED
      BY <3>1, <3>2
  <2>5. ASSUME NEW j \in Jobs \ outlived', NEW u \in Workers, Holds(u, j)'
        PROVE  ClaimKept(u, j)'
    <3>1. j # Job(w)
      BY <1>4, <2>4, <2>5
    <3>2. rows'[j] = rows[j]
      BY <2>2, <3>1
    <3> QED
      BY <1>4, <2>3, <2>5, <3>2 DEF ClaimInv, ClaimKept
  <2>6. ASSUME NEW j \in Jobs \ outlived', NEW u \in Workers, NEW v \in Workers,
               Holds(u, j)', Holds(v, j)'
        PROVE  u = v
    BY <1>4, <2>3, <2>6 DEF ClaimInv
  <2>7. ASSUME NEW j \in Jobs \ outlived' PROVE rows'[j].attempts < MaxAttempts
    <3>1. CASE j # Job(w)
      BY <1>4, <2>2, <3>1 DEF ClaimInv
    <3>2. CASE j = Job(w)
      <4>1. /\ rows[j].attempts < MaxAttempts /\ rows[j].attempts = Claimed(w).attempts
            /\ Claimed(w).attempts \in Nat
        BY <1>2, <1>4, <3>2, JobInHand DEF ClaimInv, ClaimKept, Claimed, Record
      <4>2. rows'[j].attempts = IF Outcome(w) \in Open THEN rows[j].attempts + 1 ELSE rows[j].attempts
        BY <2>2, <3>2, WrittenFields DEF Record
      <4>3. Outcome(w) \in Open => Claimed(w).attempts + 1 < MaxAttempts
        BY <4>1, OutcomeMeans, RecoveryAssumption DEF BudgetSpent
      <4> QED
        BY <4>1, <4>2, <4>3
    <3> QED
      BY <3>1, <3>2
  <2> QED
    BY <2>5, <2>6, <2>7 DEF ClaimInv
<1> QED
  BY <1>5, <1>6 DEF Record

LEMMA InitClaims == Init => ClaimInv
  BY RecoveryAssumption DEF Init, ClaimInv, Holds, Idle, NoRow

LEMMA NextClaims == BaseInv /\ ClaimInv /\ [Next]_vars => ClaimInv'
<1> SUFFICES ASSUME BaseInv, ClaimInv, [Next]_vars PROVE ClaimInv'
  OBVIOUS
<1>1. ASSUME NEW w \in Workers, WorkerStep(w) \/ TickLost(w) \/ Crash(w) PROVE ClaimInv'
  <2>1. CASE Tick(w) \/ TickLost(w)
    BY <2>1, TickClaims
  <2>2. CASE Record(w)
    BY <2>2, RecordClaims
  <2>3. CASE ~Tick(w) /\ ~TickLost(w) /\ ~Record(w)
    BY <1>1, <2>3, WorkHoldsOn, HoldsOnClaims DEF WorkerStep, HoldingStep
  <2> QED
    BY <2>1, <2>2, <2>3
<1>2. ASSUME NEW j \in Jobs, Enqueue(j) PROVE ClaimInv'
  <2>1. rows[j].status \notin Open /\ work' = work /\ outlived' = outlived
    BY <1>2 DEF Enqueue, Open, history
  <2>2. /\ \A i \in Jobs \ {j} : rows'[i] = rows[i]
        /\ rows'[j].attempts = rows[j].attempts
    BY <1>2, EnqueueRow DEF BaseInv
  <2> QED
    BY <2>1, <2>2 DEF ClaimInv, ClaimKept, Holds
<1>3. ASSUME NEW j \in Jobs, ComesDue(j) PROVE ClaimInv'
  <2>1. work' = work /\ outlived' = outlived
    BY <1>3 DEF ComesDue, history
  <2>2. /\ \A i \in Jobs \ {j} : rows'[i] = rows[i]
        /\ rows'[j].status = rows[j].status /\ rows'[j].targets = rows[j].targets
        /\ rows'[j].attempts = rows[j].attempts /\ rows'[j].asked = rows[j].asked
        /\ rows'[j].retrieval = rows[j].retrieval /\ rows'[j].lock = rows[j].lock
    BY <1>3, ClockRow DEF BaseInv
  <2> QED
    BY <2>1, <2>2 DEF ClaimInv, ClaimKept, Holds
<1>4. ASSUME NEW j \in Jobs, LockGoesStale(j) PROVE ClaimInv'
  <2>1. /\ work' = work /\ outlived \subseteq outlived'
        /\ (\E w \in Workers : Holds(w, j)) => j \in outlived'
    BY <1>4 DEF LockGoesStale
  <2>2. /\ \A i \in Jobs \ {j} : rows'[i] = rows[i]
        /\ rows'[j].attempts = rows[j].attempts
    BY <1>4, ClockRow DEF BaseInv
  <2>3. \A i \in Jobs, w \in Workers : Holds(w, i)' = Holds(w, i)
    BY <2>1 DEF Holds
  <2>4. ASSUME NEW i \in Jobs \ outlived', NEW w \in Workers, Holds(w, i)'
        PROVE  ClaimKept(w, i)'
    <3>1. i # j /\ i \notin outlived /\ Holds(w, i)
      BY <2>1, <2>3, <2>4
    <3> QED
      BY <2>1, <2>2, <3>1 DEF ClaimInv, ClaimKept
  <2>5. \A i \in Jobs \ outlived', u, w \in Workers : Holds(u, i)' /\ Holds(w, i)' => u = w
    BY <2>1, <2>3 DEF ClaimInv
  <2>6. \A i \in Jobs \ outlived' : rows'[i].attempts < MaxAttempts
    BY <2>1, <2>2 DEF ClaimInv
  <2> QED
    BY <2>4, <2>5, <2>6 DEF ClaimInv
<1>5. CASE UNCHANGED <<rows, work, outlived>>
  BY <1>5 DEF ClaimInv, ClaimKept, Holds
<1>6. ASSUME NEW j \in Jobs, ClipAppears(j) PROVE UNCHANGED <<rows, work, outlived>>
  BY <1>6 DEF ClipAppears, history
<1>7. ASSUME NEW c \in DriverGroups, FlipSwitch(c) PROVE UNCHANGED <<rows, work, outlived>>
  BY <1>7 DEF FlipSwitch
<1>8. CASE UNCHANGED vars
  BY <1>5, <1>8 DEF vars, history
<1> QED
  BY <1>1, <1>2, <1>3, <1>4, <1>5, <1>6, <1>7, <1>8 DEF Next, Clock

LEMMA ClaimsAlways == Spec => []ClaimInv
<1>1. BaseInv /\ ClaimInv /\ [Next]_vars => ClaimInv'
  BY NextClaims
<1> QED
  BY InitClaims, BaseAlways, <1>1, PTL DEF Spec

\* Every variable keeps its type, and only a worker that outlived its claim can
\* take a row past its budget of attempts.
THEOREM TypeCorrect == Spec => []TypeOK
<1>1. BaseInv /\ ClaimInv => TypeOK
  BY DEF BaseInv, BaseTyped, ClaimInv, TypeOK
<1> QED
  BY BaseAlways, ClaimsAlways, <1>1, PTL

\* A recovery that has ended stays as it ended: who writes its row holds it, and
\* held rows are open.
THEOREM EndsStay == Spec => TerminalStays
<1>1. ASSUME BaseInv, ClaimInv, [Next]_vars, NEW j \in Jobs \ outlived,
             rows[j].status \in Terminal
      PROVE  rows'[j].status = rows[j].status
  <2>1. rows[j].status \notin Open /\ rows[j].status # "absent"
    BY <1>1 DEF Open, Terminal
  <2>2. ASSUME NEW w \in Workers, WorkerStep(w) \/ TickLost(w) \/ Crash(w)
        PROVE  rows'[j].status = rows[j].status
    <3>1. CASE Tick(w) \/ TickLost(w)
      <4>1. PICK claimed \in SUBSET Jobs : Claim(claimed)
        BY <3>1 DEF Tick, TickLost
      <4> QED
        BY <1>1, <4>1, ClaimRows DEF BaseInv
    <3>2. CASE Record(w)
      <4>1. Job(w) \in Jobs /\ Holds(w, Job(w))
        BY <1>1, <3>2, JobInHand DEF Record, Holds
      <4>2. j # Job(w)
        BY <1>1, <2>1, <4>1 DEF ClaimInv, ClaimKept
      <4>3. rows' = rows \/ rows' = [rows EXCEPT ![Job(w)] = Written(w)]
        BY <3>2 DEF Record
      <4> QED
        BY <1>1, <4>2, <4>3 DEF BaseInv, BaseTyped
    <3>3. CASE ~Tick(w) /\ ~TickLost(w) /\ ~Record(w)
      BY <1>1, <2>2, <3>3, WorkHoldsOn DEF WorkerStep, HoldingStep
    <3> QED
      BY <3>1, <3>2, <3>3
  <2>3. ASSUME NEW i \in Jobs, Enqueue(i) \/ Clock(i) \/ ClipAppears(i)
        PROVE  rows'[j].status = rows[j].status
    <3>1. CASE Enqueue(i)
      <4>1. j # i
        BY <2>1, <3>1 DEF Enqueue
      <4> QED
        BY <1>1, <3>1, <4>1, EnqueueRow DEF BaseInv
    <3>2. CASE Clock(i)
      BY <1>1, <3>2, ClockRow DEF Clock, BaseInv
    <3>3. CASE ClipAppears(i)
      BY <3>3 DEF ClipAppears
    <3> QED
      BY <2>3, <3>1, <3>2, <3>3
  <2>4. ASSUME NEW c \in DriverGroups, FlipSwitch(c) PROVE rows'[j].status = rows[j].status
    BY <2>4 DEF FlipSwitch
  <2>5. CASE UNCHANGED vars
    BY <2>5 DEF vars
  <2> QED
    BY <1>1, <2>2, <2>3, <2>4, <2>5 DEF Next
<1>2. BaseInv /\ ClaimInv /\ [Next]_vars =>
      [\A j \in Jobs \ outlived : rows[j].status \in Terminal => rows'[j].status = rows[j].status]_rows
  BY <1>1
<1> QED
  BY BaseAlways, ClaimsAlways, <1>2, PTL DEF Spec, TerminalStays

-----------------------------------------------------------------------------
(* At most one video for which no fault accounts                           *)

\* Some worker has sent the video to this chat and not recorded it yet.
Posted(j, c) == \E w \in Workers : work[w].job = j /\ c \in work[w].posted

\* A chat the row counts as waiting has only videos that faults account for,
\* unless the step that sent one is still to be recorded.
VideoInv ==
  \A j \in Jobs \ outlived, c \in Chats :
    /\ rows[j].status = "absent" => videos[j][c] = 0
    /\ c \in rows[j].targets /\ ~Posted(j, c) => videos[j][c] <= excuse[j][c]
    /\ videos[j][c] <= 1 + excuse[j][c]

LEMMA InitVideos == Init => VideoInv
  BY DEF Init, VideoInv, NoRow

\* Steps that send no video, forget none and settle no chat.
LEMMA VideosKept ==
  ASSUME VideoInv, UNCHANGED <<videos, excuse>>, outlived \subseteq outlived',
         \A j \in Jobs \ outlived :
           rows'[j].status = rows[j].status /\ rows'[j].targets = rows[j].targets,
         \A j \in Jobs, c \in Chats : Posted(j, c) => Posted(j, c)'
  PROVE  VideoInv'
<1> SUFFICES ASSUME NEW j \in Jobs \ outlived', NEW c \in Chats
             PROVE  /\ rows'[j].status = "absent" => videos'[j][c] = 0
                    /\ c \in rows'[j].targets /\ ~Posted(j, c)' => videos'[j][c] <= excuse'[j][c]
                    /\ videos'[j][c] <= 1 + excuse'[j][c]
  BY DEF VideoInv
<1>1. j \in Jobs \ outlived
  OBVIOUS
<1> QED
  BY <1>1 DEF VideoInv

LEMMA PostedKept ==
  ASSUME NEW w \in Workers, Only(w),
         LET r == work[w]  s == work'[w]
         IN  r.posted = {} \/ (s.job = r.job /\ r.posted \subseteq s.posted)
  PROVE  \A j \in Jobs, c \in Chats : Posted(j, c) => Posted(j, c)'
<1> SUFFICES ASSUME NEW j \in Jobs, NEW c \in Chats, NEW u \in Workers,
                    work[u].job = j, c \in work[u].posted
             PROVE  \E v \in Workers : work'[v].job = j /\ c \in work'[v].posted
  BY DEF Posted
<1> QED
  BY DEF Only

\* Who has sent a video is the one that holds the row.
LEMMA PosterHolds ==
  ASSUME BaseInv, ClaimInv, NEW w \in Workers, work[w].at \notin {"idle", "pick"}
  PROVE  LET j == Job(w) IN
         j \notin outlived =>
           /\ rows[j].status # "absent" /\ rows[j].targets = Claimed(w).targets
           /\ \A c \in Chats : Posted(j, c) <=> c \in work[w].posted
<1> DEFINE j == Job(w)
<1>1. j \in Jobs /\ work[w].job = j /\ Holds(w, j) /\ Claimed(w) = work[w].claimed[j]
  BY JobInHand DEF Holds
<1> HIDE DEF j
<1> SUFFICES ASSUME j \notin outlived
             PROVE  /\ rows[j].status # "absent" /\ rows[j].targets = Claimed(w).targets
                    /\ \A c \in Chats : Posted(j, c) <=> c \in work[w].posted
  BY DEF j
<1>2. ClaimKept(w, j) /\ \A u \in Workers : Holds(u, j) => u = w
  BY <1>1 DEF ClaimInv
<1>3. \A u \in Workers : work[u].job = j => u = w
  BY <1>2 DEF Holds
<1> QED
  BY <1>1, <1>2, <1>3 DEF Posted, ClaimKept, Open

LEMMA SentVideos ==
  ASSUME BaseInv, ClaimInv, VideoInv, NEW w \in Workers, NEW c \in Chats, VideoSent(w, c)
  PROVE  VideoInv'
<1>1. PICK k \in Jobs : k = Job(w) /\ work[w].job = k
  BY JobInHand DEF VideoSent
<1>2. /\ c \in InHand(w) /\ work[w].at = "send"
      /\ rows' = rows /\ excuse' = excuse /\ outlived' = outlived
  BY DEF VideoSent
<1>3. c \notin work[w].posted /\ c \in Claimed(w).targets
  BY <1>2, InHandWaits
<1>4. /\ videos'[k][c] = videos[k][c] + 1
      /\ \A j \in Jobs, d \in Chats : j # k \/ d # c => videos'[j][d] = videos[j][d]
  BY <1>1, OneMoreType DEF VideoSent, BaseInv, BaseTyped
<1>5. /\ Only(w) /\ work'[w].job = k /\ work'[w].posted = work[w].posted \cup {c}
  BY <1>1, SentWork DEF SameJob
<1>6. Posted(k, c)' /\ \A j \in Jobs, d \in Chats : Posted(j, d) => Posted(j, d)'
  BY <1>1, <1>5, PostedKept DEF Posted
<1>7. ASSUME NEW j \in Jobs \ outlived', NEW d \in Chats
      PROVE  /\ rows'[j].status = "absent" => videos'[j][d] = 0
             /\ d \in rows'[j].targets /\ ~Posted(j, d)' => videos'[j][d] <= excuse'[j][d]
             /\ videos'[j][d] <= 1 + excuse'[j][d]
  <2>1. CASE j = k /\ d = c
    <3>1. /\ rows[k].status # "absent" /\ c \in rows[k].targets /\ ~Posted(k, c)
      BY <1>1, <1>2, <1>3, <2>1, PosterHolds
    <3>2. videos[k][c] <= excuse[k][c] /\ videos[k][c] \in Nat /\ excuse[k][c] \in Nat
      BY <1>2, <2>1, <3>1 DEF VideoInv, BaseInv, BaseTyped
    <3> QED
      BY <1>2, <1>4, <1>6, <2>1, <3>1, <3>2
  <2>2. CASE j # k \/ d # c
    BY <1>2, <1>4, <1>6, <2>2 DEF VideoInv
  <2> QED
    BY <2>1, <2>2
<1> QED
  BY <1>7 DEF VideoInv

LEMMA FailedVideos ==
  ASSUME BaseInv, ClaimInv, VideoInv, NEW w \in Workers, NEW c \in Chats, NEW arrived \in BOOLEAN,
         VideoFails(w, c, arrived)
  PROVE  VideoInv'
<1>1. PICK k \in Jobs : k = Job(w) /\ work[w].job = k /\ work[w].at = "send"
  BY JobInHand DEF VideoFails
<1>2. rows' = rows /\ outlived' = outlived
  BY DEF VideoFails
<1>3. /\ Only(w) /\ work'[w].job = k /\ work'[w].posted = work[w].posted
  BY <1>1, FailsWork DEF SameJob
<1>4. \A j \in Jobs, d \in Chats : Posted(j, d) => Posted(j, d)'
  BY <1>1, <1>3, PostedKept
<1>5. CASE ~arrived
  <2>1. UNCHANGED <<videos, excuse>>
    BY <1>5 DEF VideoFails
  <2> QED
    BY <1>2, <1>4, <2>1, VideosKept
<1>6. CASE arrived
  <2>1. /\ videos'[k][c] = videos[k][c] + 1 /\ excuse'[k][c] = excuse[k][c] + 1
        /\ \A j \in Jobs, d \in Chats :
             j # k \/ d # c => videos'[j][d] = videos[j][d] /\ excuse'[j][d] = excuse[j][d]
    <3>1. videos' = OneMore(videos, w, c) /\ excuse' = OneMore(excuse, w, c)
      BY <1>6 DEF VideoFails
    <3>2. videos \in [Jobs -> [Chats -> Nat]] /\ excuse \in [Jobs -> [Chats -> Nat]]
      BY DEF BaseInv, BaseTyped
    <3>3. /\ OneMore(videos, w, c)[k][c] = videos[k][c] + 1
          /\ \A j \in Jobs, d \in Chats : j # k \/ d # c => OneMore(videos, w, c)[j][d] = videos[j][d]
      BY <1>1, <3>2, OneMoreType
    <3>4. /\ OneMore(excuse, w, c)[k][c] = excuse[k][c] + 1
          /\ \A j \in Jobs, d \in Chats : j # k \/ d # c => OneMore(excuse, w, c)[j][d] = excuse[j][d]
      BY <1>1, <3>2 DEF OneMore
    <3> QED
      BY <3>1, <3>3, <3>4
  <2>2. videos[k][c] \in Nat /\ excuse[k][c] \in Nat
    BY DEF BaseInv, BaseTyped
  <2>3. k \notin outlived => rows[k].status # "absent"
    BY <1>1, PosterHolds
  <2>4. ASSUME NEW j \in Jobs \ outlived', NEW d \in Chats
        PROVE  /\ rows'[j].status = "absent" => videos'[j][d] = 0
               /\ d \in rows'[j].targets /\ ~Posted(j, d)' => videos'[j][d] <= excuse'[j][d]
               /\ videos'[j][d] <= 1 + excuse'[j][d]
    <3>1. CASE j = k /\ d = c
      <4>1. /\ c \in rows[k].targets /\ ~Posted(k, c) => videos[k][c] <= excuse[k][c]
            /\ videos[k][c] <= 1 + excuse[k][c]
        BY <1>2, <3>1 DEF VideoInv
      <4> QED
        BY <1>2, <1>4, <2>1, <2>2, <2>3, <3>1, <4>1
    <3>2. CASE j # k \/ d # c
      BY <1>2, <1>4, <2>1, <3>2 DEF VideoInv
    <3> QED
      BY <3>1, <3>2
  <2> QED
    BY <2>4 DEF VideoInv
<1> QED
  BY <1>5, <1>6

\* A chat leaves the targets only with its video, or switched off; a step that
\* is forgotten is excused.
LEMMA RecordVideos ==
  ASSUME BaseInv, ClaimInv, VideoInv, NEW w \in Workers, Record(w)
  PROVE  VideoInv'
<1>1. PICK k \in Jobs : k = Job(w) /\ work[w].job = k /\ work[w].at = "record"
  BY JobInHand DEF Record
<1>2. videos' = videos /\ outlived' = outlived
  BY DEF Record
<1>3. /\ Only(w) /\ BetweenJobs(work'[w])
  BY RecordWork
<1>4. \A j \in Jobs \ {k}, d \in Chats : Posted(j, d) => Posted(j, d)'
  BY <1>1, <1>3 DEF Posted, Only
<1>5. k \notin outlived =>
        rows[k].status # "absent" /\ \A d \in Chats : Posted(k, d) <=> d \in work[w].posted
  BY <1>1, PosterHolds
<1>6. /\ work[w].left \cap work[w].posted = {} /\ (~work[w].found => work[w].posted = {})
      /\ work[w].found => work[w].left \subseteq Claimed(w).targets
  BY <1>1, HandType, JobInHand DEF WorkOK, ChatsInOrder, HandInOrder
<1>7. CASE rows' = [rows EXCEPT ![Job(w)] = Written(w)] /\ UNCHANGED excuse
  <2>1. /\ Written(w) \in Rows /\ Written(w).status # "absent"
        /\ Written(w).targets = IF work[w].found THEN work[w].left ELSE rows[k].targets
    BY <1>1, WrittenFields, OutcomeMeans DEF Open, Terminal
  <2>2. rows'[k] = Written(w) /\ \A j \in Jobs \ {k} : rows'[j] = rows[j]
    BY <1>1, <1>7, <2>1, RowChange DEF BaseInv
  <2>3. ASSUME NEW j \in Jobs \ outlived', NEW d \in Chats
        PROVE  /\ rows'[j].status = "absent" => videos'[j][d] = 0
               /\ d \in rows'[j].targets /\ ~Posted(j, d)' => videos'[j][d] <= excuse'[j][d]
               /\ videos'[j][d] <= 1 + excuse'[j][d]
    <3>1. CASE j = k
      <4>1. d \in Written(w).targets => d \notin work[w].posted
        BY <1>6, <2>1
      <4>2. d \in Written(w).targets => d \in rows[k].targets
        BY <1>1, <1>2, <1>6, <2>1, <3>1, PosterHolds
      <4> QED
        BY <1>2, <1>5, <1>7, <2>1, <2>2, <3>1, <4>1, <4>2 DEF VideoInv
    <3>2. CASE j # k
      BY <1>2, <1>4, <1>7, <2>2, <3>2 DEF VideoInv
    <3> QED
      BY <3>1, <3>2
  <2> QED
    BY <2>3 DEF VideoInv
<1>8. CASE rows' = rows /\ Forgotten(w)
  <2>1. \A j \in Jobs, d \in Chats :
          excuse'[j][d] = IF j = k /\ d \in work[w].posted THEN excuse[j][d] + 1 ELSE excuse[j][d]
    BY <1>1, <1>8, ForgottenFields DEF BaseInv
  <2>2. \A j \in Jobs, d \in Chats : videos[j][d] \in Nat /\ excuse[j][d] \in Nat
    BY DEF BaseInv, BaseTyped
  <2>3. ASSUME NEW j \in Jobs \ outlived', NEW d \in Chats
        PROVE  /\ rows'[j].status = "absent" => videos'[j][d] = 0
               /\ d \in rows'[j].targets /\ ~Posted(j, d)' => videos'[j][d] <= excuse'[j][d]
               /\ videos'[j][d] <= 1 + excuse'[j][d]
    <3>1. CASE j = k
      BY <1>2, <1>5, <1>8, <2>1, <2>2, <3>1 DEF VideoInv
    <3>2. CASE j # k
      BY <1>2, <1>4, <1>8, <2>1, <3>2 DEF VideoInv
    <3> QED
      BY <3>1, <3>2
  <2> QED
    BY <2>3 DEF VideoInv
<1> QED
  BY <1>7, <1>8 DEF Record

\* A death excuses what its worker had sent and not recorded.
LEMMA CrashVideos ==
  ASSUME BaseInv, ClaimInv, VideoInv, NEW w \in Workers, Crash(w)
  PROVE  VideoInv'
<1>1. rows' = rows /\ videos' = videos /\ outlived' = outlived
  BY DEF Crash
<1>2. /\ Only(w) /\ BetweenJobs(work'[w])
  BY CrashWork
<1>3. CASE Job(w) \in Jobs
  <2>1. PICK k \in Jobs : k = Job(w) /\ work[w].job = k /\ work[w].at \notin {"idle", "pick"}
    BY <1>3, HandType, RecoveryAssumption DEF Job, WorkOK, HandInOrder
  <2>2. \A j \in Jobs \ {k}, d \in Chats : Posted(j, d) => Posted(j, d)'
    BY <1>2, <2>1 DEF Posted, Only
  <2>3. k \notin outlived =>
          rows[k].status # "absent" /\ \A d \in Chats : Posted(k, d) <=> d \in work[w].posted
    BY <2>1, PosterHolds
  <2>4. \A j \in Jobs, d \in Chats :
          excuse'[j][d] = IF j = k /\ d \in work[w].posted THEN excuse[j][d] + 1 ELSE excuse[j][d]
    BY <2>1, ForgottenFields DEF Crash, BaseInv
  <2>5. \A j \in Jobs, d \in Chats : videos[j][d] \in Nat /\ excuse[j][d] \in Nat
    BY DEF BaseInv, BaseTyped
  <2>6. ASSUME NEW j \in Jobs \ outlived', NEW d \in Chats
        PROVE  /\ rows'[j].status = "absent" => videos'[j][d] = 0
               /\ d \in rows'[j].targets /\ ~Posted(j, d)' => videos'[j][d] <= excuse'[j][d]
               /\ videos'[j][d] <= 1 + excuse'[j][d]
    <3>1. CASE j = k
      BY <1>1, <2>3, <2>4, <2>5, <3>1 DEF VideoInv
    <3>2. CASE j # k
      BY <1>1, <2>2, <2>4, <3>2 DEF VideoInv
    <3> QED
      BY <3>1, <3>2
  <2> QED
    BY <2>6 DEF VideoInv
<1>4. CASE Job(w) \notin Jobs
  <2>1. UNCHANGED <<videos, excuse>> /\ work[w].job = NoJob
    BY <1>1, <1>4, HandType DEF Crash, Job, WorkTyped
  <2>2. \A j \in Jobs, d \in Chats : Posted(j, d) => Posted(j, d)'
    BY <1>2, <2>1, RecoveryAssumption DEF Posted, Only
  <2> QED
    BY <1>1, <2>1, <2>2, VideosKept
<1> QED
  BY <1>3, <1>4

\* The steps of a worker that send nothing and settle nothing.
UnsentStep(w) ==
  \/ \E j \in Jobs : Pick(w, j)
  \/ Look(w) \/ AskAccepted(w) \/ AskFails(w) \/ ReadSwitches(w) \/ DeleteText(w)

LEMMA OtherStepVideos ==
  ASSUME BaseInv, VideoInv, NEW w \in Workers, Tick(w) \/ TickLost(w) \/ UnsentStep(w)
  PROVE  VideoInv'
<1>1. CASE Tick(w) \/ TickLost(w)
  <2>1. PICK claimed \in SUBSET Jobs :
          /\ Claim(claimed)
          /\ work' = work \/ Takes(w, claimed)
    BY <1>1 DEF Tick, TickLost, Takes
  <2>2. UNCHANGED <<videos, excuse>> /\ outlived' = outlived
    BY <1>1 DEF Tick, TickLost, history
  <2>3. \A j \in Jobs : rows'[j].status = rows[j].status /\ rows'[j].targets = rows[j].targets
    BY <2>1, ClaimRows DEF BaseInv
  <2>4. \A j \in Jobs, c \in Chats : Posted(j, c) => Posted(j, c)'
    <3>1. CASE work' = work
      BY <3>1 DEF Posted
    <3>2. CASE work' # work
      <4>1. Only(w)
        BY <2>1, <3>2, TickWork
      <4>2. work[w].job = NoJob
        BY <1>1, <3>2, HandType DEF Tick, TickLost, WorkOK, HandInOrder
      <4> QED
        BY <4>1, <4>2, RecoveryAssumption DEF Posted, Only
    <3> QED
      BY <3>1, <3>2
  <2> QED
    BY <2>2, <2>3, <2>4, VideosKept
<1>2. CASE UnsentStep(w)
  <2>1. UNCHANGED <<videos, excuse>>
    BY <1>2, Zenon
       DEF UnsentStep, Pick, Look, AskAccepted, AskFails, ReadSwitches, DeleteText, history
  <2>2. Only(w) /\ rows' = rows /\ outlived' = outlived
    BY <1>2, WorkHoldsOn DEF UnsentStep, HoldingStep
  <2>3. work[w].posted = {} \/ (work'[w].job = work[w].job /\ work[w].posted \subseteq work'[w].posted)
    <3>1. CASE \E j \in Jobs : Pick(w, j)
      BY <3>1, HandType DEF Pick, WorkOK, ChatsInOrder, HandInOrder
    <3>2. CASE Look(w)
      BY <3>2, LookWork DEF SameJob
    <3>3. CASE AskAccepted(w)
      BY <3>3, AskAcceptedWork DEF SameJob
    <3>4. CASE AskFails(w)
      BY <3>4, AskFailsWork DEF SameJob
    <3>5. CASE ReadSwitches(w)
      BY <3>5, SwitchesWork DEF SameJob
    <3>6. CASE DeleteText(w)
      BY <3>6, DeleteWork DEF SameJob
    <3> QED
      BY <1>2, <3>1, <3>2, <3>3, <3>4, <3>5, <3>6 DEF UnsentStep
  <2>4. \A j \in Jobs, c \in Chats : Posted(j, c) => Posted(j, c)'
    BY <2>2, <2>3, PostedKept
  <2> QED
    BY <2>1, <2>2, <2>4, VideosKept
<1> QED
  BY <1>1, <1>2

LEMMA NextVideos == BaseInv /\ ClaimInv /\ VideoInv /\ [Next]_vars => VideoInv'
<1> SUFFICES ASSUME BaseInv, ClaimInv, VideoInv, [Next]_vars PROVE VideoInv'
  OBVIOUS
<1>1. ASSUME NEW w \in Workers, WorkerStep(w) \/ TickLost(w) \/ Crash(w) PROVE VideoInv'
  <2>1. ASSUME NEW c \in Chats, VideoSent(w, c) PROVE VideoInv'
    BY <2>1, SentVideos
  <2>2. ASSUME NEW c \in Chats, NEW arrived \in BOOLEAN, VideoFails(w, c, arrived) PROVE VideoInv'
    BY <2>2, FailedVideos
  <2>3. CASE Record(w)
    BY <2>3, RecordVideos
  <2>4. CASE Crash(w)
    BY <2>4, CrashVideos
  <2> QED
    BY <1>1, <2>1, <2>2, <2>3, <2>4, OtherStepVideos DEF WorkerStep, UnsentStep
<1>2. ASSUME NEW j \in Jobs, Enqueue(j) PROVE VideoInv'
  <2>1. /\ rows[j].status = "absent" /\ UNCHANGED <<work, videos, excuse, outlived>>
    BY <1>2 DEF Enqueue, history
  <2>2. /\ \A i \in Jobs \ {j} : rows'[i] = rows[i]
        /\ rows'[j].status # "absent"
    BY <1>2, EnqueueRow DEF BaseInv
  <2>3. \A i \in Jobs, c \in Chats : Posted(i, c)' = Posted(i, c)
    BY <2>1 DEF Posted
  <2>4. \A c \in Chats : excuse[j][c] \in Nat
    BY DEF BaseInv, BaseTyped
  <2> QED
    BY <2>1, <2>2, <2>3, <2>4 DEF VideoInv
<1>3. ASSUME NEW j \in Jobs, Clock(j) PROVE VideoInv'
  <2>1. UNCHANGED <<work, videos, excuse>> /\ outlived \subseteq outlived'
    BY <1>3 DEF Clock, ComesDue, LockGoesStale, history
  <2>2. \A i \in Jobs : rows'[i].status = rows[i].status /\ rows'[i].targets = rows[i].targets
    BY <1>3, ClockRow DEF Clock, BaseInv
  <2>3. \A i \in Jobs, c \in Chats : Posted(i, c) => Posted(i, c)'
    BY <2>1 DEF Posted
  <2> QED
    BY <2>1, <2>2, <2>3, VideosKept
<1>4. CASE UNCHANGED <<rows, work, videos, excuse, outlived>>
  BY <1>4 DEF VideoInv, Posted
<1>5. ASSUME NEW j \in Jobs, ClipAppears(j) PROVE UNCHANGED <<rows, work, videos, excuse, outlived>>
  BY <1>5 DEF ClipAppears, history
<1>6. ASSUME NEW c \in DriverGroups, FlipSwitch(c)
      PROVE  UNCHANGED <<rows, work, videos, excuse, outlived>>
  BY <1>6 DEF FlipSwitch
<1>7. CASE UNCHANGED vars
  BY <1>4, <1>7 DEF vars, history
<1> QED
  BY <1>1, <1>2, <1>3, <1>4, <1>5, <1>6, <1>7 DEF Next

\* A chat receives the video of an event once, and again only for a fault that
\* hid the earlier one from the row, or from a worker that outlived its claim.
THEOREM OneVideo == Spec => []VideosExplained
<1>1. BaseInv /\ ClaimInv /\ VideoInv /\ [Next]_vars => VideoInv'
  BY NextVideos
<1>2. VideoInv => VideosExplained
  BY DEF VideoInv, VideosExplained
<1> QED
  BY InitVideos, BaseAlways, ClaimsAlways, <1>1, <1>2, PTL DEF Spec

-----------------------------------------------------------------------------
(* At most one request for footage the row does not show                   *)

\* Some worker has asked and not recorded it yet.
InQuestion(j) == \E w \in Workers : work[w].job = j /\ Asked(w)

AskInv ==
  \A j \in Jobs \ outlived :
    /\ ~rows[j].asked /\ ~rows[j].retrieval /\ ~InQuestion(j) => asks[j] <= unrecorded[j]
    /\ asks[j] <= 1 + unrecorded[j]

LEMMA InitAsks == Init => AskInv
  BY DEF Init, AskInv

\* Steps that ask for nothing and record no request.
LEMMA AsksKept ==
  ASSUME AskInv, UNCHANGED <<asks, unrecorded>>, outlived \subseteq outlived',
         \A j \in Jobs \ outlived :
           rows'[j].asked = rows[j].asked /\ rows'[j].retrieval = rows[j].retrieval,
         \A j \in Jobs : InQuestion(j) => InQuestion(j)'
  PROVE  AskInv'
<1> SUFFICES ASSUME NEW j \in Jobs \ outlived'
             PROVE  /\ ~rows'[j].asked /\ ~rows'[j].retrieval /\ ~InQuestion(j)'
                         => asks'[j] <= unrecorded'[j]
                    /\ asks'[j] <= 1 + unrecorded'[j]
  BY DEF AskInv
<1>1. j \in Jobs \ outlived
  OBVIOUS
<1> QED
  BY <1>1 DEF AskInv

LEMMA QuestionKept ==
  ASSUME NEW w \in Workers, Only(w),
         LET r == work[w]  s == work'[w]
         IN  r.asking = "no" \/ (s.job = r.job /\ s.asking = r.asking)
  PROVE  \A j \in Jobs : InQuestion(j) => InQuestion(j)'
<1> SUFFICES ASSUME NEW j \in Jobs, NEW u \in Workers, work[u].job = j, Asked(u)
             PROVE  \E v \in Workers : work'[v].job = j /\ Asked(v)'
  BY DEF InQuestion
<1> QED
  BY DEF Only, Asked

\* Who has asked is the one that holds the row.
LEMMA AskerHolds ==
  ASSUME BaseInv, ClaimInv, NEW w \in Workers, work[w].at \notin {"idle", "pick"}
  PROVE  LET j == Job(w) IN
         j \notin outlived =>
           /\ rows[j].asked = Claimed(w).asked /\ rows[j].retrieval = Claimed(w).retrieval
           /\ InQuestion(j) <=> Asked(w)
<1> DEFINE j == Job(w)
<1>1. j \in Jobs /\ work[w].job = j /\ Holds(w, j) /\ Claimed(w) = work[w].claimed[j]
  BY JobInHand DEF Holds
<1> HIDE DEF j
<1> SUFFICES ASSUME j \notin outlived
             PROVE  /\ rows[j].asked = Claimed(w).asked /\ rows[j].retrieval = Claimed(w).retrieval
                    /\ InQuestion(j) <=> Asked(w)
  BY DEF j
<1>2. ClaimKept(w, j) /\ \A u \in Workers : Holds(u, j) => u = w
  BY <1>1 DEF ClaimInv
<1>3. \A u \in Workers : work[u].job = j => u = w
  BY <1>2 DEF Holds
<1>4. InQuestion(j) <=> Asked(w)
  BY <1>1, <1>3 DEF InQuestion, Asked
<1> QED
  BY <1>1, <1>2, <1>4 DEF ClaimKept

\* A worker asks only for a row that shows no request.
LEMMA AskingAsks ==
  ASSUME BaseInv, ClaimInv, AskInv, NEW w \in Workers, AskAccepted(w) \/ AskFails(w)
  PROVE  AskInv'
<1>1. PICK k \in Jobs : k = Job(w) /\ work[w].job = k /\ work[w].at = "ask"
  BY JobInHand DEF AskAccepted, AskFails
<1>2. /\ rows' = rows /\ unrecorded' = unrecorded /\ outlived' = outlived
      /\ asks' = asks \/ asks' = [asks EXCEPT ![k] = @ + 1]
  BY <1>1 DEF AskAccepted, AskFails
<1>3. Only(w) /\ work'[w].job = k
  BY <1>1, AskAcceptedWork, AskFailsWork DEF SameJob
<1>4. work[w].asking = "no"
  BY <1>1, HandType DEF WorkOK, HandInOrder
<1>5. \A j \in Jobs : InQuestion(j) => InQuestion(j)'
  BY <1>3, <1>4, QuestionKept
<1>6. asks' = asks \/ InQuestion(k)'
  <2>1. CASE AskAccepted(w)
    BY <1>3, <2>1, AskAcceptedWork DEF InQuestion, Asked
  <2>2. CASE AskFails(w)
    BY <1>3, <2>2, AskFailsWork DEF InQuestion, Asked
  <2> QED
    BY <2>1, <2>2
<1>7. k \notin outlived => asks[k] <= unrecorded[k]
  <2>1. ~Claimed(w).asked /\ ~Claimed(w).retrieval
    <3>1. HandInOrder(work[w])
      BY HandType DEF WorkOK
    <3>2. ~work[w].claimed[work[w].job].asked /\ ~work[w].claimed[work[w].job].retrieval
      BY <1>1, <3>1 DEF HandInOrder
    <3> QED
      BY <3>2 DEF Claimed, Job
  <2>2. ~Asked(w)
    BY <1>4 DEF Asked
  <2> QED
    BY <1>1, <2>1, <2>2, AskerHolds DEF AskInv
<1>8. asks \in [Jobs -> Nat] /\ unrecorded \in [Jobs -> Nat]
  BY DEF BaseInv, BaseTyped
<1>9. ASSUME NEW j \in Jobs \ outlived'
      PROVE  /\ ~rows'[j].asked /\ ~rows'[j].retrieval /\ ~InQuestion(j)'
                  => asks'[j] <= unrecorded'[j]
             /\ asks'[j] <= 1 + unrecorded'[j]
  <2>1. CASE asks' = asks \/ j # k
    BY <1>2, <1>5, <1>8, <2>1 DEF AskInv
  <2>2. CASE asks' # asks /\ j = k
    BY <1>2, <1>6, <1>7, <1>8, <2>2
  <2> QED
    BY <2>1, <2>2
<1> QED
  BY <1>9 DEF AskInv

LEMMA RecordAsks ==
  ASSUME BaseInv, ClaimInv, AskInv, NEW w \in Workers, Record(w)
  PROVE  AskInv'
<1>1. PICK k \in Jobs : k = Job(w) /\ work[w].job = k /\ work[w].at = "record"
  BY JobInHand DEF Record
<1>2. asks' = asks /\ outlived' = outlived
  BY DEF Record
<1>3. Only(w)
  BY RecordWork
<1>4. \A j \in Jobs \ {k} : InQuestion(j) => InQuestion(j)'
  BY <1>1, <1>3 DEF InQuestion, Only, Asked
<1>5. k \notin outlived => (InQuestion(k) <=> Asked(w))
  BY <1>1, AskerHolds
<1>6. asks \in [Jobs -> Nat] /\ unrecorded \in [Jobs -> Nat]
  BY DEF BaseInv, BaseTyped
<1>7. CASE /\ rows' = [rows EXCEPT ![Job(w)] = Written(w)]
           /\ unrecorded' = IF Asked(w) /\ ~AskRecorded(w)
                            THEN [unrecorded EXCEPT ![Job(w)] = @ + 1] ELSE unrecorded
  <2>1. /\ Written(w) \in Rows /\ Written(w).asked = (rows[k].asked \/ AskRecorded(w))
        /\ rows[k].retrieval => Written(w).retrieval
    BY <1>1, WrittenFields
  <2>2. rows'[k] = Written(w) /\ \A j \in Jobs \ {k} : rows'[j] = rows[j]
    BY <1>1, <1>7, <2>1, RowChange DEF BaseInv
  <2>3. /\ unrecorded'[k] = IF Asked(w) /\ ~AskRecorded(w) THEN unrecorded[k] + 1 ELSE unrecorded[k]
        /\ \A j \in Jobs \ {k} : unrecorded'[j] = unrecorded[j]
    BY <1>1, <1>6, <1>7
  <2>4. ASSUME NEW j \in Jobs \ outlived'
        PROVE  /\ ~rows'[j].asked /\ ~rows'[j].retrieval /\ ~InQuestion(j)'
                    => asks'[j] <= unrecorded'[j]
               /\ asks'[j] <= 1 + unrecorded'[j]
    <3>1. CASE j = k
      <4>1. /\ ~rows[k].asked /\ ~rows[k].retrieval /\ ~Asked(w) => asks[k] <= unrecorded[k]
            /\ asks[k] <= 1 + unrecorded[k]
        BY <1>2, <1>5, <3>1 DEF AskInv
      <4>2. asks'[k] <= 1 + unrecorded'[k]
        <5>1. unrecorded[k] <= unrecorded'[k] /\ unrecorded'[k] \in Nat /\ unrecorded[k] \in Nat
          BY <1>6, <2>3
        <5> QED
          BY <1>2, <1>6, <4>1, <5>1
      <4>3. ASSUME ~rows'[k].asked, ~rows'[k].retrieval PROVE asks'[k] <= unrecorded'[k]
        <5>1. ~rows[k].asked /\ ~AskRecorded(w)
          BY <2>1, <2>2, <4>3
        <5>2. ~rows[k].retrieval
          BY <2>1, <2>2, <4>3
        <5>3. CASE Asked(w)
          BY <1>2, <1>6, <2>3, <4>1, <5>1, <5>3
        <5>4. CASE ~Asked(w)
          BY <1>2, <1>6, <2>3, <4>1, <5>1, <5>2, <5>4
        <5> QED
          BY <5>3, <5>4
      <4> QED
        BY <3>1, <4>2, <4>3
    <3>2. CASE j # k
      BY <1>2, <1>4, <2>2, <2>3, <3>2 DEF AskInv
    <3> QED
      BY <3>1, <3>2
  <2> QED
    BY <2>4 DEF AskInv
<1>8. CASE rows' = rows /\ Forgotten(w)
  <2>1. \A j \in Jobs :
          unrecorded'[j] = IF j = k /\ Asked(w) THEN unrecorded[j] + 1 ELSE unrecorded[j]
    BY <1>1, <1>8, ForgottenFields DEF BaseInv
  <2>2. ASSUME NEW j \in Jobs \ outlived'
        PROVE  /\ ~rows'[j].asked /\ ~rows'[j].retrieval /\ ~InQuestion(j)'
                    => asks'[j] <= unrecorded'[j]
               /\ asks'[j] <= 1 + unrecorded'[j]
    <3>1. CASE j = k
      BY <1>2, <1>5, <1>6, <1>8, <2>1, <3>1 DEF AskInv
    <3>2. CASE j # k
      BY <1>2, <1>4, <1>8, <2>1, <3>2 DEF AskInv
    <3> QED
      BY <3>1, <3>2
  <2> QED
    BY <2>2 DEF AskInv
<1> QED
  BY <1>7, <1>8 DEF Record

LEMMA CrashAsks ==
  ASSUME BaseInv, ClaimInv, AskInv, NEW w \in Workers, Crash(w)
  PROVE  AskInv'
<1>1. rows' = rows /\ asks' = asks /\ outlived' = outlived
  BY DEF Crash
<1>2. Only(w)
  BY CrashWork
<1>3. CASE Job(w) \in Jobs
  <2>1. PICK k \in Jobs : k = Job(w) /\ work[w].job = k /\ work[w].at \notin {"idle", "pick"}
    BY <1>3, HandType, RecoveryAssumption DEF Job, WorkOK, HandInOrder
  <2>2. \A j \in Jobs \ {k} : InQuestion(j) => InQuestion(j)'
    BY <1>2, <2>1 DEF InQuestion, Only, Asked
  <2>3. k \notin outlived => (InQuestion(k) <=> Asked(w))
    BY <2>1, AskerHolds
  <2>4. \A j \in Jobs :
          unrecorded'[j] = IF j = k /\ Asked(w) THEN unrecorded[j] + 1 ELSE unrecorded[j]
    BY <2>1, ForgottenFields DEF Crash, BaseInv
  <2>5. asks \in [Jobs -> Nat] /\ unrecorded \in [Jobs -> Nat]
    BY DEF BaseInv, BaseTyped
  <2>6. ASSUME NEW j \in Jobs \ outlived'
        PROVE  /\ ~rows'[j].asked /\ ~rows'[j].retrieval /\ ~InQuestion(j)'
                    => asks'[j] <= unrecorded'[j]
               /\ asks'[j] <= 1 + unrecorded'[j]
    <3>1. CASE j = k
      BY <1>1, <2>3, <2>4, <2>5, <3>1 DEF AskInv
    <3>2. CASE j # k
      BY <1>1, <2>2, <2>4, <3>2 DEF AskInv
    <3> QED
      BY <3>1, <3>2
  <2> QED
    BY <2>6 DEF AskInv
<1>4. CASE Job(w) \notin Jobs
  <2>1. UNCHANGED <<asks, unrecorded>> /\ work[w].job = NoJob
    BY <1>1, <1>4, HandType DEF Crash, Job, WorkTyped
  <2>2. \A j \in Jobs : InQuestion(j) => InQuestion(j)'
    BY <1>2, <2>1, RecoveryAssumption DEF InQuestion, Only, Asked
  <2> QED
    BY <1>1, <2>1, <2>2, AsksKept
<1> QED
  BY <1>3, <1>4

\* The steps of a worker that ask for nothing.
UnaskingStep(w) ==
  \/ Tick(w) \/ TickLost(w)
  \/ \E j \in Jobs : Pick(w, j)
  \/ Look(w) \/ ReadSwitches(w) \/ DeleteText(w)
  \/ \E c \in Chats : VideoSent(w, c) \/ \E arrived \in BOOLEAN : VideoFails(w, c, arrived)

LEMMA OtherStepAsks ==
  ASSUME BaseInv, AskInv, NEW w \in Workers, UnaskingStep(w)
  PROVE  AskInv'
<1>1. CASE Tick(w) \/ TickLost(w)
  <2>1. PICK claimed \in SUBSET Jobs :
          /\ Claim(claimed)
          /\ work' = work \/ Takes(w, claimed)
    BY <1>1 DEF Tick, TickLost, Takes
  <2>2. UNCHANGED <<asks, unrecorded>> /\ outlived' = outlived
    BY <1>1 DEF Tick, TickLost, history
  <2>3. \A j \in Jobs : rows'[j].asked = rows[j].asked /\ rows'[j].retrieval = rows[j].retrieval
    BY <2>1, ClaimRows DEF BaseInv
  <2>4. \A j \in Jobs : InQuestion(j) => InQuestion(j)'
    <3>1. CASE work' = work
      BY <3>1 DEF InQuestion, Asked
    <3>2. CASE work' # work
      <4>1. Only(w)
        BY <2>1, <3>2, TickWork
      <4>2. work[w].job = NoJob
        BY <1>1, <3>2, HandType DEF Tick, TickLost, WorkOK, HandInOrder
      <4> QED
        BY <4>1, <4>2, RecoveryAssumption DEF InQuestion, Only, Asked
    <3> QED
      BY <3>1, <3>2
  <2> QED
    BY <2>2, <2>3, <2>4, AsksKept
<1>2. ASSUME Only(w), UNCHANGED <<asks, unrecorded, rows, outlived>>,
             work[w].asking = "no"
               \/ (work'[w].job = work[w].job /\ work'[w].asking = work[w].asking)
      PROVE  AskInv'
  <2>1. \A j \in Jobs : InQuestion(j) => InQuestion(j)'
    BY <1>2, QuestionKept
  <2> QED
    BY <1>2, <2>1, AsksKept
<1>3. ASSUME NEW j \in Jobs, Pick(w, j) PROVE AskInv'
  <2>1. UNCHANGED <<asks, unrecorded, rows, outlived>>
    BY <1>3 DEF Pick, history
  <2>2. work[w].asking = "no"
    BY <1>3, HandType DEF Pick, WorkOK, HandInOrder
  <2> QED
    BY <1>2, <1>3, <2>1, <2>2, PickWork
<1>4. CASE Look(w)
  <2>1. UNCHANGED <<asks, unrecorded, rows, outlived>>
    BY <1>4 DEF Look, history
  <2> QED
    BY <1>2, <1>4, <2>1, LookWork DEF SameJob
<1>5. CASE ReadSwitches(w)
  <2>1. UNCHANGED <<asks, unrecorded, rows, outlived>>
    BY <1>5 DEF ReadSwitches, history
  <2> QED
    BY <1>2, <1>5, <2>1, SwitchesWork DEF SameJob
<1>6. CASE DeleteText(w)
  <2>1. UNCHANGED <<asks, unrecorded, rows, outlived>>
    BY <1>6 DEF DeleteText
  <2> QED
    BY <1>2, <1>6, <2>1, DeleteWork DEF SameJob
<1>7. ASSUME NEW c \in Chats, VideoSent(w, c) PROVE AskInv'
  <2>1. UNCHANGED <<asks, unrecorded, rows, outlived>>
    BY <1>7 DEF VideoSent
  <2> QED
    BY <1>2, <1>7, <2>1, SentWork DEF SameJob
<1>8. ASSUME NEW c \in Chats, NEW arrived \in BOOLEAN, VideoFails(w, c, arrived) PROVE AskInv'
  <2>1. UNCHANGED <<asks, unrecorded, rows, outlived>>
    BY <1>8 DEF VideoFails
  <2> QED
    BY <1>2, <1>8, <2>1, FailsWork DEF SameJob
<1> QED
  BY <1>1, <1>3, <1>4, <1>5, <1>6, <1>7, <1>8 DEF UnaskingStep

LEMMA NextAsks == BaseInv /\ ClaimInv /\ AskInv /\ [Next]_vars => AskInv'
<1> SUFFICES ASSUME BaseInv, ClaimInv, AskInv, [Next]_vars PROVE AskInv'
  OBVIOUS
<1>1. ASSUME NEW w \in Workers, WorkerStep(w) \/ TickLost(w) \/ Crash(w) PROVE AskInv'
  <2>1. CASE AskAccepted(w) \/ AskFails(w)
    BY <2>1, AskingAsks
  <2>2. CASE Record(w)
    BY <2>2, RecordAsks
  <2>3. CASE Crash(w)
    BY <2>3, CrashAsks
  <2> QED
    BY <1>1, <2>1, <2>2, <2>3, OtherStepAsks DEF WorkerStep, UnaskingStep
<1>2. ASSUME NEW j \in Jobs, Enqueue(j) \/ Clock(j) PROVE AskInv'
  <2>1. UNCHANGED <<work, asks, unrecorded>> /\ outlived \subseteq outlived'
    BY <1>2 DEF Enqueue, Clock, ComesDue, LockGoesStale, history
  <2>2. \A i \in Jobs : rows'[i].asked = rows[i].asked /\ rows'[i].retrieval = rows[i].retrieval
    BY <1>2, ClockRow, EnqueueRow DEF Clock, BaseInv
  <2>3. \A i \in Jobs : InQuestion(i) => InQuestion(i)'
    BY <2>1 DEF InQuestion, Asked
  <2> QED
    BY <2>1, <2>2, <2>3, AsksKept
<1>3. CASE UNCHANGED <<rows, work, asks, unrecorded, outlived>>
  BY <1>3 DEF AskInv, InQuestion, Asked
<1>4. ASSUME NEW j \in Jobs, ClipAppears(j)
      PROVE  UNCHANGED <<rows, work, asks, unrecorded, outlived>>
  BY <1>4 DEF ClipAppears, history
<1>5. ASSUME NEW c \in DriverGroups, FlipSwitch(c)
      PROVE  UNCHANGED <<rows, work, asks, unrecorded, outlived>>
  BY <1>5 DEF FlipSwitch
<1>6. CASE UNCHANGED vars
  BY <1>3, <1>6 DEF vars, history
<1> QED
  BY <1>1, <1>2, <1>3, <1>4, <1>5, <1>6 DEF Next

\* A truck is asked for footage once, and again only when the row does not show
\* the earlier request, or a worker outlived its claim.
THEOREM OneRequest == Spec => []AsksExplained
<1>1. BaseInv /\ ClaimInv /\ AskInv /\ [Next]_vars => AskInv'
  BY NextAsks
<1>2. AskInv => AsksExplained
  BY DEF AskInv, AsksExplained
<1> QED
  BY InitAsks, BaseAlways, ClaimsAlways, <1>1, <1>2, PTL DEF Spec

-----------------------------------------------------------------------------
(* No alert lost, and an end that means what it says                       *)

\* Chat c has nothing more to expect of job j.
Served(j, c) == videos[j][c] > 0 \/ c \in past

\* The chats a claim no longer names, and those a worker has dropped from its
\* own list, have been served; the ones it says it posted to have the video.
KnownServed(w) ==
  \A j \in Jobs : Holds(w, j) =>
    /\ rows[j].status # "absent"
    /\ \A c \in TargetsOf[j] \ work[w].claimed[j].targets : Served(j, c)

PostedHasVideo(w) == \A j \in Jobs : work[w].job = j => \A c \in work[w].posted : videos[j][c] > 0

RestServed(w) ==
  \A j \in Jobs : work[w].job = j /\ work[w].found /\ work[w].at # "switches" =>
    \A c \in TargetsOf[j] \ (work[w].todo \cup work[w].left) : Served(j, c)

HandServed(w) == KnownServed(w) /\ PostedHasVideo(w) /\ RestServed(w)

RowServed(j) ==
  /\ rows[j].status # "absent" => \A c \in TargetsOf[j] \ rows[j].targets : Served(j, c)
  /\ rows[j].status = "completed" => \A c \in TargetsOf[j] : Served(j, c)

ServedInv ==
  /\ switchedOff \subseteq past
  /\ \A j \in Jobs : RowServed(j)
  /\ \A w \in Workers : HandServed(w)
  /\ AlertNeverLost

\* What no step takes back.
Grown ==
  /\ \A j \in Jobs, c \in Chats : videos[j][c] > 0 => videos'[j][c] > 0
  /\ past \subseteq past'
  /\ \A j \in Jobs : rows[j].status # "absent" => rows'[j].status # "absent"

LEMMA ServedKept ==
  ASSUME Grown, NEW j \in Jobs, NEW c \in TargetsOf[j], Served(j, c)
  PROVE  Served(j, c)'
  BY RecoveryAssumption DEF Grown, Served

LEMMA InitServed == Init => ServedInv
<1> SUFFICES ASSUME Init PROVE ServedInv
  OBVIOUS
<1>1. \A j \in Jobs : rows[j].status = "absent"
  BY DEF Init, NoRow
<1>2. \A w \in Workers : work[w].job = NoJob /\ work[w].queue = {}
  BY DEF Init, Idle
<1>3. \A w \in Workers, j \in Jobs : ~Holds(w, j) /\ work[w].job # j
  BY <1>2, RecoveryAssumption DEF Holds
<1>4. \A w \in Workers : HandServed(w)
  BY <1>3 DEF HandServed, KnownServed, PostedHasVideo, RestServed
<1>5. AlertNeverLost
  BY DEF Init, AlertNeverLost
<1>6. switchedOff \subseteq past /\ \A j \in Jobs : RowServed(j)
  BY <1>1 DEF Init, RowServed
<1> QED
  BY <1>4, <1>5, <1>6 DEF ServedInv

LEMMA OneMoreGrows ==
  ASSUME NEW f \in [Jobs -> [Chats -> Nat]], NEW w \in Workers, Job(w) \in Jobs, NEW c \in Chats
  PROVE  LET g == OneMore(f, w, c) IN
         /\ g[Job(w)][c] > 0
         /\ \A j \in Jobs, d \in Chats : f[j][d] > 0 => g[j][d] > 0
<1> DEFINE g == OneMore(f, w, c)
<1>1. g[Job(w)][c] = f[Job(w)][c] + 1 /\ f[Job(w)][c] \in Nat
  BY DEF OneMore
<1>2. \A j \in Jobs, d \in Chats : j # Job(w) \/ d # c => g[j][d] = f[j][d]
  BY DEF OneMore
<1> QED
  BY <1>1, <1>2

LEMMA StepGrows == BaseInv /\ [Next]_vars => Grown
<1> SUFFICES ASSUME BaseInv, [Next]_vars PROVE Grown
  OBVIOUS
<1>1. ASSUME UNCHANGED <<videos, past, rows>> PROVE Grown
  BY <1>1 DEF Grown
<1>2. ASSUME NEW w \in Workers, WorkerStep(w) \/ TickLost(w) \/ Crash(w) PROVE Grown
  <2>1. CASE Tick(w) \/ TickLost(w)
    <3>1. PICK claimed \in SUBSET Jobs : Claim(claimed)
      BY <2>1 DEF Tick, TickLost
    <3>2. UNCHANGED <<videos, past>>
      BY <2>1 DEF Tick, TickLost, history
    <3>3. \A j \in Jobs : rows'[j].status = rows[j].status
      BY <3>1, ClaimRows DEF BaseInv
    <3> QED
      BY <3>2, <3>3 DEF Grown
  <2>2. CASE UnsentStep(w) \/ Crash(w)
    <3>1. UNCHANGED <<videos, past>>
      BY <2>2, Zenon
         DEF UnsentStep, Pick, Look, AskAccepted, AskFails, ReadSwitches, DeleteText, Crash,
             world, history
    <3>2. rows' = rows
      BY <2>2, WorkHoldsOn DEF UnsentStep, HoldingStep
    <3> QED
      BY <1>1, <3>1, <3>2
  <2>3. ASSUME NEW c \in Chats,
               VideoSent(w, c) \/ \E arrived \in BOOLEAN : VideoFails(w, c, arrived)
        PROVE  Grown
    <3>1. UNCHANGED <<past, rows>> /\ (videos' = videos \/ videos' = OneMore(videos, w, c))
      BY <2>3 DEF VideoSent, VideoFails
    <3>2. Job(w) \in Jobs
      BY <2>3, JobInHand DEF VideoSent, VideoFails
    <3>3. videos \in [Jobs -> [Chats -> Nat]]
      BY DEF BaseInv, BaseTyped
    <3> QED
      BY <3>1, <3>2, <3>3, OneMoreGrows DEF Grown
  <2>4. CASE Record(w)
    <3>1. UNCHANGED <<videos, past>> /\ (rows' = rows \/ rows' = [rows EXCEPT ![Job(w)] = Written(w)])
      BY <2>4 DEF Record
    <3>2. /\ Job(w) \in Jobs /\ Written(w) \in Rows /\ Written(w).status # "absent"
      BY <2>4, JobInHand, WrittenFields, OutcomeMeans DEF Record, Open, Terminal
    <3>3. \A j \in Jobs : rows[j].status # "absent" => rows'[j].status # "absent"
      BY <3>1, <3>2, RowChange DEF BaseInv
    <3> QED
      BY <3>1, <3>3 DEF Grown
  <2> QED
    BY <1>2, <2>1, <2>2, <2>3, <2>4 DEF WorkerStep, UnsentStep
<1>3. ASSUME NEW j \in Jobs, Enqueue(j) \/ Clock(j) PROVE Grown
  <2>1. UNCHANGED <<videos, past>>
    BY <1>3 DEF Enqueue, Clock, ComesDue, LockGoesStale, history
  <2>2. \A i \in Jobs : rows'[i].status = rows[i].status \/ rows'[i].status = "pending_recheck"
    BY <1>3, ClockRow, EnqueueRow DEF Clock, BaseInv
  <2> QED
    BY <2>1, <2>2 DEF Grown
<1>4. ASSUME NEW j \in Jobs, ClipAppears(j) PROVE Grown
  BY <1>1, <1>4 DEF ClipAppears, history
<1>5. ASSUME NEW c \in DriverGroups, FlipSwitch(c) PROVE Grown
  BY <1>5 DEF FlipSwitch, Grown
<1>6. CASE UNCHANGED vars
  BY <1>1, <1>6 DEF vars, history
<1> QED
  BY <1>2, <1>3, <1>4, <1>5, <1>6 DEF Next

\* A worker that keeps what it has is as well served as before.
LEMMA IdleHandServed ==
  ASSUME Grown, NEW u \in Workers, work'[u] = work[u], HandServed(u), BaseInv
  PROVE  HandServed(u)'
<1>1. KnownServed(u)'
  BY ServedKept DEF HandServed, KnownServed, Holds, Grown
<1>2. PostedHasVideo(u)'
  <2>1. work[u].posted \in SUBSET Chats
    BY HandType DEF WorkTyped
  <2> QED
    BY <2>1 DEF HandServed, PostedHasVideo, Grown
<1>3. RestServed(u)'
  BY ServedKept DEF HandServed, RestServed
<1> QED
  BY <1>1, <1>2, <1>3 DEF HandServed

LEMMA HoldsOnServed ==
  ASSUME Grown, NEW w \in Workers, HoldsOn(w), KnownServed(w)
  PROVE  KnownServed(w)'
<1> SUFFICES ASSUME NEW j \in Jobs, Holds(w, j)'
             PROVE  /\ rows'[j].status # "absent"
                    /\ \A c \in TargetsOf[j] \ work'[w].claimed[j].targets : Served(j, c)'
  BY DEF KnownServed
<1>1. Holds(w, j) /\ work'[w].claimed[j] = work[w].claimed[j]
  BY DEF HoldsOn, Holds
<1> QED
  BY <1>1, ServedKept DEF KnownServed, Grown

\* Steps that serve nobody and drop nobody.
UnservedStep(w) ==
  \/ \E j \in Jobs : Pick(w, j)
  \/ Look(w) \/ AskAccepted(w) \/ AskFails(w) \/ Crash(w)

LEMMA OtherStepServed ==
  ASSUME BaseInv, NEW w \in Workers, Grown, HandServed(w), UnservedStep(w)
  PROVE  HandServed(w)'
<1> DEFINE r == work[w]  s == work'[w]
<1>1. KnownServed(w)'
  BY WorkHoldsOn, HoldsOnServed DEF HandServed, HoldingStep, UnservedStep
<1>2. s.posted = {} /\ WorkOK(s)
  <2>1. CASE \E j \in Jobs : Pick(w, j)
    BY <2>1, PickWork
  <2>2. CASE Look(w)
    BY <2>2, LookWork, HandType DEF Look, WorkOK, HandInOrder, ChatsInOrder
  <2>3. CASE AskAccepted(w)
    BY <2>3, AskAcceptedWork, HandType DEF AskAccepted, WorkOK, HandInOrder, ChatsInOrder
  <2>4. CASE AskFails(w)
    BY <2>4, AskFailsWork, HandType DEF AskFails, WorkOK, HandInOrder, ChatsInOrder
  <2>5. CASE Crash(w)
    BY <2>5, CrashWork DEF BetweenJobs
  <2> QED
    BY <2>1, <2>2, <2>3, <2>4, <2>5 DEF UnservedStep
<1>3. s.at = "switches" \/ ~s.found
  <2>1. CASE \E j \in Jobs : Pick(w, j)
    BY <2>1, PickWork
  <2>2. CASE Look(w)
    BY <1>2, <2>2, LookWork DEF WorkOK, HandInOrder
  <2>3. CASE AskAccepted(w)
    BY <2>3, AskAcceptedWork
  <2>4. CASE AskFails(w)
    BY <2>4, AskFailsWork
  <2>5. CASE Crash(w)
    BY <2>5, CrashWork DEF BetweenJobs
  <2> QED
    BY <2>1, <2>2, <2>3, <2>4, <2>5 DEF UnservedStep
<1>4. PostedHasVideo(w)'
  BY <1>2 DEF PostedHasVideo
<1>5. RestServed(w)'
  BY <1>3 DEF RestServed
<1> QED
  BY <1>1, <1>4, <1>5 DEF HandServed

LEMMA SwitchesServed ==
  ASSUME BaseInv, NEW w \in Workers, Grown, HandServed(w), switchedOff \subseteq past,
         ReadSwitches(w)
  PROVE  HandServed(w)'
<1> DEFINE r == work[w]  s == work'[w]
<1>1. KnownServed(w)'
  BY WorkHoldsOn, HoldsOnServed DEF HandServed, HoldingStep
<1>2. PICK k \in Jobs : k = Job(w) /\ r.job = k
  BY JobInHand DEF ReadSwitches
<1>3. /\ s.job = k /\ s.posted = r.posted
      /\ r.claimed[k].targets \ (s.todo \cup s.left) \subseteq switchedOff
  BY <1>2, SwitchesWork DEF SameJob
<1>4. r.posted = {}
  BY HandType DEF ReadSwitches, WorkOK, HandInOrder
<1>5. \A c \in TargetsOf[k] \ (s.todo \cup s.left) : Served(k, c)
  <2>1. \A c \in TargetsOf[k] \ r.claimed[k].targets : Served(k, c)
    BY <1>2 DEF HandServed, KnownServed, Holds
  <2> QED
    BY <1>3, <2>1 DEF Served
<1>6. RestServed(w)'
  BY <1>3, <1>5, ServedKept DEF RestServed
<1>7. PostedHasVideo(w)'
  BY <1>3, <1>4 DEF PostedHasVideo
<1> QED
  BY <1>1, <1>6, <1>7 DEF HandServed

\* The chats of the job in hand: one that is struck off the list has the video.
LEMMA ChatsServed ==
  ASSUME BaseInv, NEW w \in Workers, Grown, HandServed(w),
         \/ \E c \in Chats : VideoSent(w, c) \/ \E arrived \in BOOLEAN : VideoFails(w, c, arrived)
         \/ DeleteText(w)
  PROVE  HandServed(w)'
<1> DEFINE r == work[w]  s == work'[w]
<1>1. KnownServed(w)'
  BY WorkHoldsOn, HoldsOnServed DEF HandServed, HoldingStep
<1>2. r.at \in {"send", "delete"}
  BY DEF VideoSent, VideoFails, DeleteText
<1>3. PICK k \in Jobs : k = Job(w) /\ r.job = k
  BY <1>2, JobInHand
<1>4. r.found /\ r.posted \in SUBSET Chats
  BY <1>2, HandType DEF WorkOK, HandInOrder, WorkTyped
<1>5. /\ \A c \in r.posted : videos[k][c] > 0
      /\ \A c \in TargetsOf[k] \ (r.todo \cup r.left) : Served(k, c)
  BY <1>2, <1>3, <1>4 DEF HandServed, PostedHasVideo, RestServed
<1>6. \A c \in r.posted : videos'[k][c] > 0
  BY <1>4, <1>5 DEF Grown
<1>7. \A c \in TargetsOf[k] \ (r.todo \cup r.left) : Served(k, c)'
  BY <1>5, ServedKept
<1>8. ASSUME s.job = k, \A c \in s.posted : videos'[k][c] > 0,
             \A c \in TargetsOf[k] \ (s.todo \cup s.left) : Served(k, c)'
      PROVE  HandServed(w)'
  <2>1. PostedHasVideo(w)'
    BY <1>8 DEF PostedHasVideo
  <2>2. RestServed(w)'
    BY <1>8 DEF RestServed
  <2> QED
    BY <1>1, <2>1, <2>2 DEF HandServed
<1>9. ASSUME NEW c \in Chats, VideoSent(w, c) PROVE HandServed(w)'
  <2>1. s.job = k /\ s.posted = r.posted \cup {c} /\ s.todo = r.todo /\ s.left = r.left
    BY <1>3, <1>9, SentWork DEF SameJob
  <2>2. videos'[k][c] > 0
    BY <1>3, <1>9, OneMoreGrows DEF VideoSent, BaseInv, BaseTyped
  <2> QED
    BY <1>6, <1>7, <1>8, <2>1, <2>2
<1>10. ASSUME NEW c \in Chats, NEW arrived \in BOOLEAN, VideoFails(w, c, arrived)
       PROVE  HandServed(w)'
  <2>1. s.job = k /\ s.posted = r.posted /\ s.todo \cup s.left = r.todo \cup r.left
    BY <1>3, <1>10, FailsWork DEF SameJob
  <2> QED
    BY <1>6, <1>7, <1>8, <2>1
<1>11. CASE DeleteText(w)
  <2>1. PICK d \in r.posted : /\ s.job = k /\ s.posted = r.posted /\ s.left = r.left
                              /\ s.todo = r.todo \ {d}
    BY <1>3, <1>11, DeleteWork DEF SameJob
  <2>2. Served(k, d)'
    BY <1>6, <2>1 DEF Served
  <2> QED
    BY <1>6, <1>7, <1>8, <2>1, <2>2
<1> QED
  BY <1>9, <1>10, <1>11

LEMMA RecordServed ==
  ASSUME BaseInv, NEW w \in Workers, Grown, ServedInv, Record(w)
  PROVE  HandServed(w)' /\ \A j \in Jobs : RowServed(j)'
<1> DEFINE r == work[w]  s == work'[w]
<1>1. PICK k \in Jobs : k = Job(w) /\ r.job = k /\ r.at = "record" /\ Claimed(w) = r.claimed[k]
  BY JobInHand DEF Record
<1>2. HandServed(w)'
  <2>1. s.queue = r.queue /\ s.job = NoJob /\ \A j \in s.queue : s.claimed[j] = r.claimed[j]
    BY RecordWork DEF BetweenJobs
  <2>2. HoldsOn(w)
    BY <2>1, RecoveryAssumption DEF HoldsOn
  <2>3. KnownServed(w)'
    BY <2>2, HoldsOnServed DEF ServedInv, HandServed
  <2> QED
    BY <2>1, <2>3, RecoveryAssumption DEF HandServed, PostedHasVideo, RestServed
<1>3. ASSUME NEW j \in Jobs, rows'[j] = rows[j] PROVE RowServed(j)'
  BY <1>3, ServedKept DEF ServedInv, RowServed
<1>4. CASE rows' = rows
  BY <1>2, <1>3, <1>4
<1>5. CASE rows' = [rows EXCEPT ![Job(w)] = Written(w)]
  <2>1. /\ Written(w) \in Rows /\ Written(w).status = Outcome(w)
        /\ Written(w).targets = IF r.found THEN r.left ELSE rows[k].targets
    BY <1>1, WrittenFields
  <2>2. rows'[k] = Written(w) /\ \A j \in Jobs \ {k} : rows'[j] = rows[j]
    BY <1>1, <1>5, <2>1, RowChange DEF BaseInv
  <2>3. /\ rows[k].status # "absent"
        /\ \A c \in TargetsOf[k] \ r.claimed[k].targets : Served(k, c)
    BY <1>1 DEF ServedInv, HandServed, KnownServed, Holds
  <2>4. \A c \in TargetsOf[k] \ rows[k].targets : Served(k, c)
    BY <2>3 DEF ServedInv, RowServed
  <2>5. ASSUME r.found PROVE \A c \in TargetsOf[k] \ r.left : Served(k, c)
    <3>1. r.todo = {}
      BY <1>1, HandType DEF WorkOK, ChatsInOrder
    <3> QED
      BY <1>1, <2>5, <3>1 DEF ServedInv, HandServed, RestServed
  <2>6. \A c \in TargetsOf[k] \ rows'[k].targets : Served(k, c)
    BY <2>1, <2>2, <2>4, <2>5
  <2>7. ASSUME Outcome(w) = "completed" PROVE \A c \in TargetsOf[k] : Served(k, c)
    BY <1>1, <2>3, <2>5, <2>7, OutcomeMeans
  <2>8. RowServed(k)'
    BY <2>1, <2>2, <2>6, <2>7, ServedKept DEF RowServed
  <2> QED
    BY <1>2, <1>3, <2>2, <2>8
<1> QED
  BY <1>4, <1>5 DEF Record

LEMMA TickServed ==
  ASSUME BaseInv, NEW w \in Workers, Grown, ServedInv, Tick(w) \/ TickLost(w)
  PROVE  (\A u \in Workers : HandServed(u)') /\ \A j \in Jobs : RowServed(j)'
<1>1. PICK claimed \in SUBSET Jobs :
        /\ Claim(claimed)
        /\ work' = work \/ Takes(w, claimed)
  BY DEF Tick, TickLost, Takes
<1>2. /\ \A j \in Jobs : rows'[j].status = rows[j].status /\ rows'[j].targets = rows[j].targets
      /\ \A j \in claimed : rows[j].status # "absent"
  BY <1>1, ClaimRows DEF BaseInv, Claimable, Open
<1>3. \A j \in Jobs : RowServed(j)'
  BY <1>2, ServedKept DEF ServedInv, RowServed
<1>4. ASSUME NEW u \in Workers, work'[u] = work[u] PROVE HandServed(u)'
  BY <1>4, IdleHandServed DEF ServedInv
<1>5. CASE work' = work
  BY <1>3, <1>4, <1>5
<1>6. CASE work' # work
  <2> DEFINE s == work'[w]
  <2>1. /\ Only(w) /\ s.queue = claimed /\ s.job = NoJob
        /\ \A j \in claimed : s.claimed[j] = rows[j]
    BY <1>1, <1>6, TickWork DEF BetweenJobs
  <2>2. KnownServed(w)'
    <3> SUFFICES ASSUME NEW j \in Jobs, Holds(w, j)'
                 PROVE  /\ rows'[j].status # "absent"
                        /\ \A c \in TargetsOf[j] \ s.claimed[j].targets : Served(j, c)'
      BY DEF KnownServed
    <3>1. j \in claimed /\ s.claimed[j] = rows[j]
      BY <2>1, RecoveryAssumption DEF Holds
    <3>2. \A c \in TargetsOf[j] \ rows[j].targets : Served(j, c)
      BY <1>2, <3>1 DEF ServedInv, RowServed
    <3> QED
      BY <1>2, <3>1, <3>2, ServedKept
  <2>3. HandServed(w)'
    BY <2>1, <2>2, RecoveryAssumption DEF HandServed, PostedHasVideo, RestServed
  <2> QED
    BY <1>3, <1>4, <2>1, <2>3 DEF Only
<1> QED
  BY <1>5, <1>6

\* A chat keeps the text until it has the video.
LEMMA AlertKept ==
  ASSUME BaseInv, Grown, AlertNeverLost,
         text' = text \/ \E w \in Workers : DeleteText(w) /\ HandServed(w)
  PROVE  AlertNeverLost'
<1>1. \A j \in Jobs : TargetsOf[j] \subseteq Chats
  BY RecoveryAssumption
<1>2. CASE text' = text
  BY <1>1, <1>2 DEF AlertNeverLost, Grown
<1>3. ASSUME NEW w \in Workers, DeleteText(w), HandServed(w), text' # text PROVE AlertNeverLost'
  <2> DEFINE r == work[w]
  <2>1. PICK k \in Jobs : k = Job(w) /\ r.job = k
    BY <1>3, JobInHand DEF DeleteText
  <2>2. text' = [text EXCEPT ![k] = @ \ {r.chat}]
    BY <1>3, <2>1 DEF DeleteText
  <2>3. videos[k][r.chat] > 0
    BY <1>3, <2>1, DeleteWork DEF HandServed, PostedHasVideo
  <2>4. text \in [Jobs -> SUBSET Chats]
    BY DEF BaseInv, BaseTyped
  <2>5. ASSUME NEW j \in Jobs, NEW c \in TargetsOf[j] PROVE c \in text'[j] \/ videos[j][c] > 0
    <3>1. CASE j = k /\ c = r.chat
      BY <2>3, <3>1
    <3>2. CASE j # k \/ c # r.chat
      BY <2>2, <2>4, <3>2 DEF AlertNeverLost
    <3> QED
      BY <3>1, <3>2
  <2> QED
    BY <1>1, <2>5 DEF AlertNeverLost, Grown
<1> QED
  BY <1>2, <1>3

LEMMA StepServed ==
  ASSUME BaseInv, ServedInv, Grown, NEW w \in Workers, WorkerStep(w) \/ TickLost(w) \/ Crash(w)
  PROVE  ServedInv'
<1>1. UNCHANGED switchedOff /\ (text' = text \/ DeleteText(w))
  BY DEF WorkerStep, Tick, TickLost, Pick, Look, AskAccepted, AskFails, ReadSwitches, VideoSent,
         VideoFails, DeleteText, Record, Crash, world, history
<1>2. switchedOff' \subseteq past' /\ AlertNeverLost'
  BY <1>1, AlertKept DEF ServedInv, Grown
<1>3. CASE Tick(w) \/ TickLost(w)
  BY <1>2, <1>3, TickServed DEF ServedInv
<1>4. ASSUME Only(w), HandServed(w)' PROVE \A u \in Workers : HandServed(u)'
  BY <1>4, IdleHandServed DEF ServedInv, Only
<1>5. CASE Record(w)
  BY <1>2, <1>4, <1>5, RecordWork, RecordServed DEF ServedInv
<1>6. CASE HoldingStep(w)
  <2>1. Only(w) /\ rows' = rows
    BY <1>6, WorkHoldsOn
  <2>2. HandServed(w) /\ switchedOff \subseteq past
    BY DEF ServedInv
  <2>3. HandServed(w)'
    BY <1>6, <2>2, OtherStepServed, SwitchesServed, ChatsServed DEF HoldingStep, UnservedStep
  <2>4. \A j \in Jobs : RowServed(j)'
    BY <2>1, ServedKept DEF ServedInv, RowServed
  <2> QED
    BY <1>2, <1>4, <2>1, <2>3, <2>4 DEF ServedInv
<1> QED
  BY <1>3, <1>5, <1>6 DEF WorkerStep, HoldingStep

LEMMA NextServed == BaseInv /\ ServedInv /\ [Next]_vars => ServedInv'
<1> SUFFICES ASSUME BaseInv, ServedInv, [Next]_vars PROVE ServedInv'
  OBVIOUS
<1>1. Grown
  BY StepGrows
<1>2. ASSUME NEW w \in Workers, WorkerStep(w) \/ TickLost(w) \/ Crash(w) PROVE ServedInv'
  BY <1>1, <1>2, StepServed
<1>3. ASSUME UNCHANGED <<work, text>>, switchedOff' \subseteq past', \A j \in Jobs : RowServed(j)'
      PROVE  ServedInv'
  BY <1>1, <1>3, IdleHandServed, AlertKept DEF ServedInv
<1>4. ASSUME NEW j \in Jobs, Enqueue(j) PROVE ServedInv'
  <2>1. UNCHANGED <<work, text, switchedOff, past, videos>>
    BY <1>4 DEF Enqueue, world, history
  <2>2. /\ \A i \in Jobs \ {j} : rows'[i] = rows[i]
        /\ rows'[j].status = "pending_recheck" /\ rows'[j].targets = TargetsOf[j]
    BY <1>4, EnqueueRow DEF BaseInv
  <2>3. \A i \in Jobs : RowServed(i)'
    BY <1>1, <2>2, ServedKept DEF ServedInv, RowServed
  <2> QED
    BY <1>3, <2>1, <2>3 DEF ServedInv
<1>5. ASSUME NEW j \in Jobs, Clock(j) PROVE ServedInv'
  <2>1. UNCHANGED <<work, text, switchedOff, past>>
    BY <1>5 DEF Clock, ComesDue, LockGoesStale, world, history
  <2>2. \A i \in Jobs : rows'[i].status = rows[i].status /\ rows'[i].targets = rows[i].targets
    BY <1>5, ClockRow DEF Clock, BaseInv
  <2>3. \A i \in Jobs : RowServed(i)'
    BY <1>1, <2>2, ServedKept DEF ServedInv, RowServed
  <2> QED
    BY <1>3, <2>1, <2>3 DEF ServedInv
<1>6. ASSUME UNCHANGED rows PROVE \A i \in Jobs : RowServed(i)'
  BY <1>1, <1>6, ServedKept DEF ServedInv, RowServed
<1>7. ASSUME NEW j \in Jobs, ClipAppears(j) PROVE ServedInv'
  BY <1>3, <1>6, <1>7 DEF ClipAppears, ServedInv, history
<1>8. ASSUME NEW c \in DriverGroups, FlipSwitch(c) PROVE ServedInv'
  <2>1. UNCHANGED <<work, text, rows>> /\ switchedOff' \subseteq past'
    BY <1>8 DEF FlipSwitch, ServedInv
  <2> QED
    BY <1>3, <1>6, <2>1
<1>9. CASE UNCHANGED vars
  BY <1>3, <1>6, <1>9 DEF vars, world, history, ServedInv
<1> QED
  BY <1>2, <1>4, <1>5, <1>7, <1>8, <1>9 DEF Next

LEMMA ServedAlways == Spec => []ServedInv
  BY InitServed, BaseAlways, NextServed, PTL DEF Spec

\* Whatever fails between the post of a video and the deletion of its text, a
\* chat shows one of them, even where two processes work on the same row.
THEOREM NoAlertLost == Spec => []AlertNeverLost
<1>1. ServedInv => AlertNeverLost
  BY DEF ServedInv
<1> QED
  BY ServedAlways, <1>1, PTL

\* A recovery that ends completed has brought the video to every chat that was
\* waiting, except driver groups that were switched off at some time.
THEOREM EndIsTrue == Spec => []CompletedReached
<1>1. ServedInv => CompletedReached
  BY DEF ServedInv, RowServed, Served, CompletedReached
<1> QED
  BY ServedAlways, <1>1, PTL
=============================================================================
