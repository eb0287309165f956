------------------------- MODULE Subscribers_proofs -------------------------
(***************************************************************************)
(* What a broadcast may count on of the list of subscribers, for any       *)
(* chats, calls in flight and number of faults.                            *)
(***************************************************************************)
EXTENDS Subscribers, TLAPS

LEMMA FaultType ==
  ASSUME FaultsTypeOK, NEW kind, Fault(kind) \/ NoFault
  PROVE  FaultsTypeOK'
  BY FaultsAssumption DEF FaultsTypeOK, Fault, NoFault

RequestFields == {"op", "chat", "at", "alone", "list", "passed"}

RequestTyped(r) ==
  /\ r.op \in Writes \cup {"list", "none"} /\ r.chat \in Chats \cup {NoChat}
  /\ r.at \in {"sent", "done"} /\ r.alone \in BOOLEAN
  /\ r.list \in SUBSET Chats /\ r.passed \in SUBSET Chats

LEMMA RequestsElim ==
  ASSUME NEW r \in Requests
  PROVE  r = [f \in RequestFields |-> r[f]] /\ RequestTyped(r)
  BY DEF Requests, RequestTyped, RequestFields

LEMMA RequestsIntro ==
  ASSUME NEW r, r = [f \in RequestFields |-> r[f]], RequestTyped(r)
  PROVE  r \in Requests
  BY DEF Requests, RequestTyped, RequestFields

LEMMA IdleType ==
  /\ Idle \in Requests /\ Idle.op = "none" /\ Idle.chat = NoChat /\ Idle.at = "sent"
  /\ Idle.alone /\ Idle.list = {} /\ Idle.passed = {}
  BY DEF Idle, Requests

LEMMA InitType == Init => TypeOK
<1> SUFFICES ASSUME Init PROVE TypeOK
  OBVIOUS
<1>1. FaultsTypeOK
  BY FaultsAssumption DEF Init, FaultsInit, FaultsTypeOK
<1>2. /\ calls \in [Calls -> Requests]
      /\ \A c \in Calls : calls[c] = Idle /\ calls[c].chat = NoChat /\ calls[c].op = "none"
  BY IdleType DEF Init
<1>3. ready \in BOOLEAN /\ unread \in BOOLEAN /\ unsaved \in BOOLEAN
  BY DEF Init
<1>4. backend = "file" => ready
  BY DEF Init
<1> QED
  BY <1>1, <1>2, <1>3, <1>4 DEF Init, TypeOK, Writes

-----------------------------------------------------------------------------
(* What each step does to the calls in flight                              *)

LEMMA CommandCalls ==
  ASSUME TypeOK, NEW c \in Calls, NEW x \in Chats, NEW op \in Writes, Command(c, op, x)
  PROVE  /\ calls' \in [Calls -> Requests]
         /\ /\ calls'[c].op = op /\ calls'[c].chat = x /\ calls'[c].at = "sent"
            /\ calls'[c].alone = (WritesOf(x) = {})
         /\ \A d \in Calls \ {c} :
              /\ calls'[d].op = calls[d].op /\ calls'[d].chat = calls[d].chat
              /\ calls'[d].at = calls[d].at /\ calls'[d].list = calls[d].list
              /\ calls'[d].passed = calls[d].passed
              /\ calls'[d].alone = (calls[d].alone /\ d \notin WritesOf(x))
<1>1. ASSUME NEW d \in Calls \ {c}
      PROVE  /\ calls'[d] \in Requests
             /\ calls'[d].op = calls[d].op /\ calls'[d].chat = calls[d].chat
             /\ calls'[d].at = calls[d].at /\ calls'[d].list = calls[d].list
             /\ calls'[d].passed = calls[d].passed
             /\ calls'[d].alone = (calls[d].alone /\ d \notin WritesOf(x))
  <2>1. calls[d] = [f \in RequestFields |-> calls[d][f]] /\ RequestTyped(calls[d])
    BY <1>1, RequestsElim DEF TypeOK
  <2>2. CASE d \in WritesOf(x)
    <3>1. calls'[d] = [calls[d] EXCEPT !.alone = FALSE]
      BY <1>1, <2>2 DEF Command
    <3>2. calls'[d] = [f \in RequestFields |-> calls'[d][f]] /\ RequestTyped(calls'[d])
      BY <2>1, <3>1 DEF RequestTyped, RequestFields
    <3> QED
      BY <2>1, <2>2, <3>1, <3>2, RequestsIntro DEF RequestFields
  <2>3. CASE d \notin WritesOf(x)
    <3>1. calls'[d] = calls[d]
      BY <1>1, <2>3 DEF Command
    <3> QED
      BY <1>1, <2>1, <2>3, <3>1 DEF TypeOK, RequestTyped
  <2> QED
    BY <2>2, <2>3
<1>2. /\ calls'[c] \in Requests /\ calls'[c].op = op /\ calls'[c].chat = x
      /\ calls'[c].at = "sent" /\ calls'[c].alone = (WritesOf(x) = {})
  <2>1. calls'[c] = [Idle EXCEPT !.op = op, !.chat = x, !.alone = WritesOf(x) = {}]
    BY DEF Command
  <2> QED
    BY <2>1 DEF Idle, Requests
<1> QED
  BY <1>1, <1>2 DEF Command

\* The call c changes, or ends, alone.
LEMMA CallEnds ==
  ASSUME TypeOK, NEW c \in Calls, calls' = Ended(c)
  PROVE  /\ calls' \in [Calls -> Requests]
         /\ calls'[c] = Idle
         /\ \A d \in Calls \ {c} : calls'[d] = calls[d]
  BY IdleType DEF TypeOK, Ended

LEMMA WriteExecutesCalls ==
  ASSUME TypeOK, NEW c \in Calls, WriteExecutes(c)
  PROVE  /\ calls' \in [Calls -> Requests]
         /\ calls'[c].at = "done"
         /\ \A d \in Calls :
              /\ calls'[d].op = calls[d].op /\ calls'[d].chat = calls[d].chat
              /\ calls'[d].alone = calls[d].alone /\ calls'[d].list = calls[d].list
         /\ \A d \in Calls \ {c} :
              /\ calls'[d].at = calls[d].at
              /\ calls'[d].passed = IF calls[d].op = "list" /\ calls[d].at = "done"
                                    THEN calls[d].passed \cup {calls[c].chat}
                                    ELSE calls[d].passed
<1>1. calls[c].chat \in Chats
  BY SubscribersAssumption, RequestsElim DEF WriteExecutes, TypeOK, RequestTyped
<1>2. ASSUME NEW d \in Calls
      PROVE  /\ calls'[d] \in Requests
             /\ calls'[d].op = calls[d].op /\ calls'[d].chat = calls[d].chat
             /\ calls'[d].alone = calls[d].alone /\ calls'[d].list = calls[d].list
             /\ d = c => calls'[d].at = "done"
             /\ d # c => /\ calls'[d].at = calls[d].at
                         /\ calls'[d].passed = IF calls[d].op = "list" /\ calls[d].at = "done"
                                               THEN calls[d].passed \cup {calls[c].chat}
                                               ELSE calls[d].passed
  <2>1. calls[d] = [f \in RequestFields |-> calls[d][f]] /\ RequestTyped(calls[d])
    BY <1>2, RequestsElim DEF TypeOK
  <2>2. CASE d = c
    <3>1. calls'[d] = [calls[d] EXCEPT !.at = "done"]
      BY <1>2, <2>2 DEF WriteExecutes
    <3>2. calls'[d] = [f \in RequestFields |-> calls'[d][f]] /\ RequestTyped(calls'[d])
      BY <2>1, <3>1 DEF RequestTyped, RequestFields
    <3> QED
      BY <2>1, <2>2, <3>1, <3>2, RequestsIntro DEF RequestFields
  <2>3. CASE d # c /\ calls[d].op = "list" /\ calls[d].at = "done"
    <3>1. calls'[d] = [calls[d] EXCEPT !.passed = @ \cup {calls[c].chat}]
      BY <1>2, <2>3 DEF WriteExecutes
    <3>2. calls'[d] = [f \in RequestFields |-> calls'[d][f]] /\ RequestTyped(calls'[d])
      BY <1>1, <2>1, <3>1 DEF RequestTyped, RequestFields
    <3> QED
      BY <2>1, <2>3, <3>1, <3>2, RequestsIntro DEF RequestFields
  <2>4. CASE d # c /\ ~(calls[d].op = "list" /\ calls[d].at = "done")
    <3>1. calls'[d] = calls[d]
      BY <1>2, <2>4 DEF WriteExecutes
    <3> QED
      BY <1>2, <2>4, <3>1 DEF TypeOK
  <2> QED
    BY <2>2, <2>3, <2>4
<1> QED
  BY <1>2 DEF WriteExecutes

LEMMA ListExecutesCalls ==
  ASSUME TypeOK, NEW c \in Calls, ListExecutes(c)
  PROVE  /\ calls' \in [Calls -> Requests]
         /\ calls'[c].op = "list" /\ calls'[c].chat = calls[c].chat
         /\ calls'[c].at = "done" /\ calls'[c].list = redis
         /\ \A d \in Calls \ {c} : calls'[d] = calls[d]
<1>1. /\ calls[c] = [f \in RequestFields |-> calls[c][f]] /\ RequestTyped(calls[c])
      /\ calls[c].op = "list"
  BY RequestsElim DEF TypeOK, ListExecutes
<1>2. calls'[c] = [calls[c] EXCEPT !.at = "done", !.list = redis]
  BY DEF ListExecutes, TypeOK
<1>3. calls'[c] = [f \in RequestFields |-> calls'[c][f]] /\ RequestTyped(calls'[c])
  BY <1>1, <1>2 DEF RequestTyped, RequestFields, TypeOK
<1>4. calls'[c] \in Requests
  BY <1>3, RequestsIntro
<1>5. calls'[c].op = "list" /\ calls'[c].chat = calls[c].chat
        /\ calls'[c].at = "done" /\ calls'[c].list = redis
  BY <1>1, <1>2 DEF RequestFields
<1>6. calls' \in [Calls -> Requests] /\ \A d \in Calls \ {c} : calls'[d] = calls[d]
  BY <1>4 DEF ListExecutes, TypeOK
<1> QED
  BY <1>5, <1>6

LEMMA AskListCalls ==
  ASSUME TypeOK, NEW c \in Calls, AskList(c)
  PROVE  /\ calls' \in [Calls -> Requests]
         /\ calls'[c].op = "list" /\ calls'[c].chat = NoChat /\ calls'[c].at = "sent"
         /\ \A d \in Calls \ {c} : calls'[d] = calls[d]
<1>1. calls'[c] = [Idle EXCEPT !.op = "list"]
  BY DEF AskList, TypeOK
<1>2. calls'[c] \in Requests /\ calls'[c].op = "list" /\ calls'[c].chat = NoChat
        /\ calls'[c].at = "sent"
  BY <1>1 DEF Idle, Requests
<1> QED
  BY <1>2 DEF AskList, TypeOK

-----------------------------------------------------------------------------
(* Types                                                                   *)

LEMMA ObeyedType ==
  ASSUME TypeOK, NEW c \in Calls, calls[c].op \in Writes, Obeyed(c)
  PROVE  /\ calls[c].chat \in Chats
         /\ cache' \in SUBSET Chats /\ told' \in [Chats -> {"nothing", "in", "out"}]
         /\ overtaken' \in SUBSET Chats
         /\ calls' \in [Calls -> Requests]
         /\ \A d \in Calls : calls'[d].chat # NoChat <=> calls'[d].op \in Writes
<1>1. calls[c].chat \in Chats
  BY RequestsElim DEF TypeOK, RequestTyped
<1>2. calls' = Ended(c)
  BY DEF Obeyed
<1>3. /\ calls' \in [Calls -> Requests]
      /\ \A d \in Calls : calls'[d].chat # NoChat <=> calls'[d].op \in Writes
  BY <1>2, CallEnds, IdleType DEF TypeOK, Writes
<1>4. cache' \in SUBSET Chats /\ overtaken' \in SUBSET Chats
  BY <1>1 DEF Obeyed, Applied, TypeOK
<1>5. told' \in [Chats -> {"nothing", "in", "out"}]
  BY <1>1 DEF Obeyed, Reply, TypeOK
<1> QED
  BY <1>1, <1>3, <1>4, <1>5

LEMMA NextType == TypeOK /\ [Next]_vars => TypeOK'
<1> SUFFICES ASSUME TypeOK, [Next]_vars PROVE TypeOK'
  OBVIOUS
<1> USE SubscribersAssumption
<1>1. ASSUME NEW x \in Chats, NEW op \in Writes, FileCommand(op, x) PROVE TypeOK'
  <2>1. FaultsTypeOK'
    BY <1>1, FaultType DEF FileCommand, TypeOK
  <2>2. cache' \in SUBSET Chats /\ told' \in [Chats -> {"nothing", "in", "out"}]
    BY <1>1 DEF FileCommand, Applied, Reply, TypeOK
  <2>3. disk' \in SUBSET Chats /\ unsaved' \in BOOLEAN /\ doubted' \in SUBSET Chats
    BY <1>1, <2>2 DEF FileCommand, TypeOK
  <2> QED
    BY <1>1, <2>1, <2>2, <2>3 DEF FileCommand, TypeOK
<1>2. ASSUME NEW x \in Chats, NEW op \in Writes, NEW c \in Calls, Command(c, op, x)
      PROVE  TypeOK'
  <2>1. /\ calls' \in [Calls -> Requests]
        /\ \A d \in Calls : calls'[d].chat # NoChat <=> calls'[d].op \in Writes
    BY <1>2, CommandCalls DEF TypeOK
  <2>2. doubted' \in SUBSET Chats
    BY <1>2 DEF Command, TypeOK
  <2> QED
    BY <1>2, <2>1, <2>2 DEF Command, TypeOK, shared, FaultsTypeOK
<1>3. ASSUME NEW c \in Calls, AskList(c) PROVE TypeOK'
  <2>1. /\ calls' \in [Calls -> Requests]
        /\ \A d \in Calls : calls'[d].chat # NoChat <=> calls'[d].op \in Writes
    BY <1>3, AskListCalls DEF TypeOK, Writes
  <2> QED
    BY <1>3, <2>1 DEF AskList, TypeOK, shared, history, FaultsTypeOK
<1>4. ASSUME NEW c \in Calls, WriteExecutes(c) PROVE TypeOK'
  <2>1. /\ calls' \in [Calls -> Requests]
        /\ \A d \in Calls : calls'[d].chat # NoChat <=> calls'[d].op \in Writes
    BY <1>4, WriteExecutesCalls DEF TypeOK
  <2>2. redis' \in SUBSET Chats
    BY <1>4, RequestsElim DEF WriteExecutes, Applied, TypeOK, RequestTyped
  <2>3. backend = "upstash"
    BY <1>4, IdleType DEF WriteExecutes, TypeOK, Writes
  <2> QED
    BY <1>4, <2>1, <2>2, <2>3 DEF WriteExecutes, TypeOK, history, FaultsTypeOK
<1>5. ASSUME NEW c \in Calls, ListExecutes(c) PROVE TypeOK'
  <2>1. /\ calls' \in [Calls -> Requests]
        /\ \A d \in Calls : calls'[d].chat # NoChat <=> calls'[d].op \in Writes
    <3>1. /\ calls[c].op = "list"
          /\ \A d \in Calls : calls[d].chat # NoChat <=> calls[d].op \in Writes
      BY <1>5 DEF TypeOK, ListExecutes
    <3>2. /\ calls' \in [Calls -> Requests] /\ calls'[c].op = "list"
          /\ calls'[c].chat = calls[c].chat /\ \A d \in Calls \ {c} : calls'[d] = calls[d]
      BY <1>5, ListExecutesCalls
    <3> QED
      BY <3>1, <3>2
  <2>2. backend = "upstash"
    BY <1>5, IdleType DEF ListExecutes, TypeOK
  <2> QED
    BY <1>5, <2>1, <2>2 DEF ListExecutes, TypeOK, shared, history, FaultsTypeOK
<1>6. ASSUME NEW c \in Calls, WriteAnswered(c) \/ WriteFails(c) PROVE TypeOK'
  <2>1. calls[c].op \in Writes /\ Obeyed(c)
    BY <1>6 DEF WriteAnswered, WriteFails
  <2>2. FaultsTypeOK'
    BY <1>6, FaultType DEF WriteAnswered, WriteFails, TypeOK
  <2>3. doubted' \in SUBSET Chats /\ disk' = disk
    BY <1>6, <2>1, ObeyedType DEF WriteAnswered, WriteFails, TypeOK
  <2>4. backend = "upstash"
    BY <2>1, IdleType DEF TypeOK, Writes
  <2> QED
    BY <2>1, <2>2, <2>3, <2>4, ObeyedType DEF Obeyed, TypeOK
<1>7. ASSUME NEW c \in Calls, ListAnswered(c) \/ ListFails(c) PROVE TypeOK'
  <2>1. calls' = Ended(c) /\ calls[c].op = "list"
    BY <1>7 DEF ListAnswered, ListFails
  <2>2. /\ calls' \in [Calls -> Requests]
        /\ \A d \in Calls : calls'[d].chat # NoChat <=> calls'[d].op \in Writes
    BY <2>1, CallEnds, IdleType DEF TypeOK, Writes
  <2>3. calls[c].list \in SUBSET Chats /\ calls[c].passed \in SUBSET Chats
    BY RequestsElim DEF TypeOK, RequestTyped
  <2>4. FaultsTypeOK'
    BY <1>7, FaultType DEF ListAnswered, ListFails, TypeOK, FaultsTypeOK
  <2>5. backend = "upstash"
    BY <2>1, IdleType DEF TypeOK
  <2> QED
    BY <1>7, <2>2, <2>3, <2>4, <2>5 DEF ListAnswered, ListFails, TypeOK, shared, history
<1>8. CASE Restart
  <2>1. FaultsTypeOK'
    BY <1>8, FaultType DEF Restart, TypeOK
  <2>2. disk' \in SUBSET Chats /\ (backend = "upstash" => disk' = {})
    BY <1>8 DEF Restart, TypeOK
  <2>3. /\ calls' \in [Calls -> Requests]
        /\ \A d \in Calls : calls'[d] = Idle /\ (calls'[d].chat # NoChat <=> calls'[d].op \in Writes)
    BY <1>8, IdleType DEF Restart, Writes
  <2>4. doubted' \in SUBSET Chats /\ cache' \in SUBSET Chats
    BY <1>8, <2>2 DEF Restart, TypeOK
  <2>5. ready' \in BOOLEAN /\ unread' \in BOOLEAN /\ (backend = "file" => ready')
    BY <1>8 DEF Restart
  <2> QED
    BY <1>8, <2>1, <2>2, <2>3, <2>4, <2>5 DEF Restart, TypeOK
<1>9. CASE UNCHANGED vars
  BY <1>9 DEF vars, shared, history, TypeOK, FaultsTypeOK
<1> QED
  BY <1>1, <1>2, <1>3, <1>4, <1>5, <1>6, <1>7, <1>8, <1>9 DEF Next

\* Every variable keeps its type, and a call in flight is about a chat exactly
\* when it writes (src/store.js).
THEOREM TypeCorrect == Spec => []TypeOK
  BY InitType, NextType, PTL DEF Spec

-----------------------------------------------------------------------------
(* The calls in flight and the shared list                                 *)

\* A write that calls itself alone is the only one of its chat; the chat of
\* any other write is in doubt.
AloneIsAlone ==
  \A c \in Calls :
    calls[c].op \in Writes =>
      /\ calls[c].alone =>
           \A e \in Calls \ {c} : calls[e].op \in Writes => calls[e].chat # calls[c].chat
      /\ ~calls[c].alone => calls[c].chat \in doubted

\* What a lone write has done is still done when its answer is underway.
LoneWriteLasts ==
  \A c \in Calls :
    calls[c].op \in Writes /\ calls[c].alone /\ calls[c].at = "done" =>
      (calls[c].chat \in redis <=> calls[c].op = "add")

\* A list on its way shows the shared one, except for the chats written since.
ListsCurrent ==
  \A c \in Calls, x \in Chats :
    calls[c].op = "list" /\ calls[c].at = "done" /\ x \notin calls[c].passed =>
      (x \in calls[c].list <=> x \in redis)

FileIsCache == backend = "file" /\ ~unsaved => disk = cache

\* Nothing is read from Redis when the list is a file.
FileRead == backend = "file" => overtaken = {} /\ ~unread

\* The list a settled chat is to be found in, or not.
ToldApplies ==
  \A x \in Chats : Settled(x) =>
    /\ backend = "upstash" => (x \in redis <=> In(x))
    /\ (x \notin overtaken /\ ~unread) => (x \in cache <=> In(x))

ListInv ==
  TypeOK /\ AloneIsAlone /\ LoneWriteLasts /\ ListsCurrent
  /\ FileIsCache /\ FileRead /\ ToldApplies

LEMMA InitList == Init => ListInv
<1> SUFFICES ASSUME Init PROVE ListInv
  OBVIOUS
<1>1. \A c \in Calls : calls[c].op = "none"
  BY IdleType DEF Init
<1>2. \A x \in Chats : ~In(x)
  BY DEF Init, In
<1> QED
  BY <1>1, <1>2, InitType
     DEF Init, ListInv, AloneIsAlone, LoneWriteLasts, ListsCurrent, FileIsCache, FileRead,
         ToldApplies, Writes

LEMMA FileSteps ==
  ASSUME ListInv, TypeOK', NEW x \in Chats, NEW op \in Writes, FileCommand(op, x)
  PROVE  ListInv'
<1>1. backend = "file" /\ \A c \in Calls : calls[c].op = "none"
  BY IdleType DEF FileCommand, ListInv, TypeOK
<1>2. AloneIsAlone' /\ LoneWriteLasts' /\ ListsCurrent'
  BY <1>1 DEF FileCommand, AloneIsAlone, LoneWriteLasts, ListsCurrent, Writes
<1>3. FileIsCache' /\ FileRead'
  BY DEF FileCommand, ListInv, FileIsCache, FileRead
<1>4. ASSUME NEW y \in Chats, Settled(y)', (y \notin overtaken /\ ~unread)'
      PROVE  (y \in cache <=> In(y))'
  <2>1. CASE y = x
    BY <2>1 DEF FileCommand, Applied, Reply, In, ListInv, TypeOK, Writes
  <2>2. CASE y # x
    <3>1. Settled(y)
      BY <1>4, <2>2 DEF FileCommand, Settled, WritesOf
    <3> QED
      BY <1>4, <2>2, <3>1 DEF FileCommand, Applied, In, ListInv, TypeOK, ToldApplies, Writes
  <2> QED
    BY <2>1, <2>2
<1>5. ToldApplies'
  BY <1>1, <1>4 DEF FileCommand, ToldApplies
<1> QED
  BY <1>2, <1>3, <1>5 DEF ListInv

LEMMA CommandSteps ==
  ASSUME ListInv, TypeOK', NEW c \in Calls, NEW x \in Chats, NEW op \in Writes,
         Command(c, op, x)
  PROVE  ListInv'
<1>1. TypeOK /\ calls[c] = Idle /\ calls[c].op = "none"
  BY IdleType DEF Command, ListInv
<1>2. /\ calls'[c].op = op /\ calls'[c].chat = x /\ calls'[c].at = "sent"
      /\ calls'[c].alone = (WritesOf(x) = {})
      /\ \A d \in Calls \ {c} :
           /\ calls'[d].op = calls[d].op /\ calls'[d].chat = calls[d].chat
           /\ calls'[d].at = calls[d].at /\ calls'[d].list = calls[d].list
           /\ calls'[d].passed = calls[d].passed
           /\ calls'[d].alone = (calls[d].alone /\ d \notin WritesOf(x))
  BY <1>1, CommandCalls
<1>3. /\ WritesOf(x)' = WritesOf(x) \cup {c}
      /\ \A y \in Chats : y # x => WritesOf(y)' = WritesOf(y)
  BY <1>1, <1>2 DEF WritesOf, Writes
<1>4. ASSUME NEW d \in Calls, calls'[d].op \in Writes
      PROVE  /\ calls'[d].alone =>
                  \A e \in Calls \ {d} : calls'[e].op \in Writes => calls'[e].chat # calls'[d].chat
             /\ ~calls'[d].alone => calls'[d].chat \in doubted'
  <2>1. CASE d = c
    <3>1. calls'[d].alone => \A e \in Calls \ {d} : calls[e].op \in Writes => calls[e].chat # x
      BY <1>2, <2>1 DEF WritesOf
    <3>2. ~calls'[d].alone => x \in doubted'
      BY <1>2, <2>1 DEF Command
    <3> QED
      BY <1>2, <2>1, <3>1, <3>2
  <2>2. CASE d # c
    <3>1. calls[d].op \in Writes /\ calls'[d].chat = calls[d].chat
      BY <1>2, <1>4, <2>2
    <3>2. d \in WritesOf(x) <=> calls[d].chat = x
      BY <3>1 DEF WritesOf
    <3>3. calls[d].alone =>
            \A e \in Calls \ {d} : calls[e].op \in Writes => calls[e].chat # calls[d].chat
      BY <3>1 DEF ListInv, AloneIsAlone
    <3>4. ~calls[d].alone => calls[d].chat \in doubted
      BY <3>1 DEF ListInv, AloneIsAlone
    <3>5. doubted \subseteq doubted' /\ (WritesOf(x) # {} => x \in doubted')
      BY DEF Command
    <3>6. calls'[d].alone =>
            \A e \in Calls \ {d} : calls'[e].op \in Writes => calls'[e].chat # calls[d].chat
      BY <1>2, <2>2, <3>2, <3>3
    <3>7. ~calls'[d].alone => calls[d].chat \in doubted'
      BY <1>2, <2>2, <3>2, <3>4, <3>5
    <3> QED
      BY <3>1, <3>6, <3>7
  <2> QED
    BY <2>1, <2>2
<1>5. LoneWriteLasts'
  <2>1. ASSUME NEW d \in Calls, calls'[d].op \in Writes, calls'[d].alone, calls'[d].at = "done"
        PROVE  (calls'[d].chat \in redis' <=> calls'[d].op = "add")
    <3>1. d # c
      BY <1>2, <2>1
    <3> QED
      BY <1>2, <2>1, <3>1 DEF Command, ListInv, LoneWriteLasts, shared
  <2> QED
    BY <2>1 DEF LoneWriteLasts
<1>6. ListsCurrent'
  <2>1. ASSUME NEW d \in Calls, NEW y \in Chats,
               calls'[d].op = "list", calls'[d].at = "done", y \notin calls'[d].passed
        PROVE  (y \in calls'[d].list <=> y \in redis')
    <3>1. d # c
      BY <1>2, <2>1
    <3>2. redis' = redis /\ ListsCurrent
      BY DEF Command, ListInv, shared
    <3>3. /\ calls[d].op = "list" /\ calls[d].at = "done" /\ y \notin calls[d].passed
          /\ calls'[d].list = calls[d].list
      BY <1>2, <2>1, <3>1
    <3> QED
      BY <3>2, <3>3 DEF ListsCurrent
  <2> QED
    BY <2>1 DEF ListsCurrent
<1>7. ASSUME NEW y \in Chats, Settled(y)'
      PROVE  Settled(y)
  <2>1. y # x
    BY <1>3, <1>7 DEF Settled
  <2> QED
    BY <1>3, <1>7, <2>1 DEF Settled, Command
<1>8. FileIsCache' /\ FileRead'
  BY DEF Command, ListInv, FileIsCache, FileRead, shared
<1>9. ToldApplies'
  BY <1>7 DEF Command, ListInv, ToldApplies, In, shared
<1> QED
  BY <1>4, <1>5, <1>6, <1>8, <1>9 DEF ListInv, AloneIsAlone

\* A list sent, read, answered or failed: no write in flight changes.
LEMMA WritesKept ==
  ASSUME TypeOK, NEW c \in Calls, calls[c].op \notin Writes, calls'[c].op \notin Writes,
         \A d \in Calls \ {c} : calls'[d] = calls[d],
         AloneIsAlone, LoneWriteLasts, UNCHANGED <<redis, doubted>>
  PROVE  /\ AloneIsAlone' /\ LoneWriteLasts'
         /\ \A y \in Chats : Settled(y)' <=> Settled(y)
<1>1. \A y : WritesOf(y)' = WritesOf(y)
  BY DEF WritesOf
<1>2. AloneIsAlone'
  <2>1. ASSUME NEW d \in Calls, calls'[d].op \in Writes
        PROVE  /\ calls'[d].alone =>
                    \A e \in Calls \ {d} : calls'[e].op \in Writes => calls'[e].chat # calls'[d].chat
               /\ ~calls'[d].alone => calls'[d].chat \in doubted'
    <3>1. calls'[d] = calls[d] /\ calls[d].op \in Writes
      BY <2>1
    <3> QED
      BY <3>1 DEF AloneIsAlone
  <2> QED
    BY <2>1 DEF AloneIsAlone
<1>3. LoneWriteLasts'
  <2>1. ASSUME NEW d \in Calls, calls'[d].op \in Writes, calls'[d].alone, calls'[d].at = "done"
        PROVE  (calls'[d].chat \in redis' <=> calls'[d].op = "add")
    <3>1. calls'[d] = calls[d] /\ calls[d].op \in Writes
      BY <2>1
    <3> QED
      BY <2>1, <3>1 DEF LoneWriteLasts
  <2> QED
    BY <2>1 DEF LoneWriteLasts
<1> QED
  BY <1>1, <1>2, <1>3 DEF Settled

LEMMA AskListSteps ==
  ASSUME ListInv, TypeOK', NEW c \in Calls, AskList(c)
  PROVE  ListInv'
<1>1. /\ TypeOK /\ calls[c].op = "none" /\ calls'[c].op = "list" /\ calls'[c].at = "sent"
      /\ \A d \in Calls \ {c} : calls'[d] = calls[d]
  BY IdleType, AskListCalls DEF AskList, ListInv
<1>2. UNCHANGED <<backend, redis, disk, cache, told, doubted, overtaken, unread, unsaved>>
  BY DEF AskList, shared, history
<1>3. /\ AloneIsAlone' /\ LoneWriteLasts'
      /\ \A y \in Chats : Settled(y)' <=> Settled(y)
  BY <1>1, <1>2, WritesKept DEF ListInv, Writes
<1>4. ListsCurrent'
  BY <1>1, <1>2 DEF ListInv, ListsCurrent
<1>5. FileIsCache' /\ FileRead' /\ ToldApplies'
  BY <1>2, <1>3 DEF ListInv, FileIsCache, FileRead, ToldApplies, In
<1> QED
  BY <1>3, <1>4, <1>5 DEF ListInv

LEMMA ListExecutesSteps ==
  ASSUME ListInv, TypeOK', NEW c \in Calls, ListExecutes(c)
  PROVE  ListInv'
<1>1. /\ TypeOK /\ calls[c].op = "list" /\ calls'[c].op = "list" /\ calls'[c].list = redis
      /\ \A d \in Calls \ {c} : calls'[d] = calls[d]
  BY ListExecutesCalls DEF ListExecutes, ListInv
<1>2. UNCHANGED <<backend, redis, disk, cache, told, doubted, overtaken, unread, unsaved>>
  BY DEF ListExecutes, shared, history
<1>3. /\ AloneIsAlone' /\ LoneWriteLasts'
      /\ \A y \in Chats : Settled(y)' <=> Settled(y)
  BY <1>1, <1>2, WritesKept DEF ListInv, Writes
<1>4. ListsCurrent'
  BY <1>1, <1>2 DEF ListInv, ListsCurrent
<1>5. FileIsCache' /\ FileRead' /\ ToldApplies'
  BY <1>2, <1>3 DEF ListInv, FileIsCache, FileRead, ToldApplies, In
<1> QED
  BY <1>3, <1>4, <1>5 DEF ListInv

LEMMA ListEnds ==
  ASSUME ListInv, TypeOK', NEW c \in Calls, ListAnswered(c) \/ ListFails(c)
  PROVE  ListInv'
<1>1. TypeOK /\ calls[c].op = "list" /\ calls' = Ended(c)
  BY DEF ListAnswered, ListFails, ListInv
<1>2. calls'[c].op = "none" /\ \A d \in Calls \ {c} : calls'[d] = calls[d]
  BY <1>1, CallEnds, IdleType
<1>3. UNCHANGED <<backend, redis, disk, told, doubted, unsaved>>
  BY DEF ListAnswered, ListFails, shared, history
<1>4. backend # "file"
  BY <1>1, IdleType DEF TypeOK
<1>5. /\ AloneIsAlone' /\ LoneWriteLasts'
      /\ \A y \in Chats : Settled(y)' <=> Settled(y)
  BY <1>1, <1>2, <1>3, WritesKept DEF ListInv, Writes
<1>6. ListsCurrent'
  BY <1>2, <1>3 DEF ListInv, ListsCurrent
<1>7. \A y \in Chats : In(y)' <=> In(y)
  BY <1>3 DEF In
<1>8. ASSUME NEW y \in Chats, Settled(y), (y \notin overtaken /\ ~unread)'
      PROVE  (y \in cache <=> In(y))'
  <2>1. CASE ListAnswered(c)
    <3>1. /\ calls[c].at = "done" /\ cache' = calls[c].list /\ y \notin calls[c].passed
      BY <1>8, <2>1 DEF ListAnswered
    <3>2. y \in calls[c].list <=> y \in redis
      BY <1>1, <3>1 DEF ListInv, ListsCurrent
    <3>3. y \in redis <=> In(y)
      BY <1>1, <1>4, <1>8, SubscribersAssumption DEF ListInv, TypeOK, ToldApplies
    <3> QED
      BY <1>7, <3>1, <3>2, <3>3
  <2>2. CASE ListFails(c)
    BY <1>7, <1>8, <2>2 DEF ListFails, history, ListInv, ToldApplies
  <2> QED
    BY <2>1, <2>2
<1>9. ToldApplies'
  BY <1>3, <1>5, <1>7, <1>8 DEF ListInv, ToldApplies
<1> QED
  BY <1>3, <1>4, <1>5, <1>6, <1>9 DEF ListInv, FileIsCache, FileRead

\* The write of a lone call, and the lists it has passed.
LEMMA WriteExecutesSteps ==
  ASSUME ListInv, TypeOK', NEW c \in Calls, WriteExecutes(c)
  PROVE  ListInv'
<1> DEFINE x == calls[c].chat
<1>1. /\ TypeOK /\ calls[c].op \in Writes /\ calls[c].at = "sent"
      /\ redis' = Applied(calls[c].op, x, redis)
  BY DEF WriteExecutes, ListInv
<1>2. x \in Chats
  BY <1>1, RequestsElim DEF TypeOK, RequestTyped
<1>3. /\ \A d \in Calls :
           /\ calls'[d].op = calls[d].op /\ calls'[d].chat = calls[d].chat
           /\ calls'[d].alone = calls[d].alone /\ calls'[d].list = calls[d].list
      /\ \A d \in Calls \ {c} :
           /\ calls'[d].at = calls[d].at
           /\ calls'[d].passed = IF calls[d].op = "list" /\ calls[d].at = "done"
                                 THEN calls[d].passed \cup {x}
                                 ELSE calls[d].passed
  BY <1>1, WriteExecutesCalls
<1>4. UNCHANGED <<backend, disk, cache, told, doubted, overtaken, unread, unsaved>>
  BY DEF WriteExecutes, history
<1>5. \A y : WritesOf(y)' = WritesOf(y)
  BY <1>3 DEF WritesOf
<1>6. \A y \in Chats : (Settled(y)' <=> Settled(y)) /\ (In(y)' <=> In(y))
  BY <1>4, <1>5 DEF Settled, In
<1>7. c \in WritesOf(x) /\ ~Settled(x)
  BY <1>1 DEF WritesOf, Settled
<1>8. x \in redis' <=> calls[c].op = "add"
  BY <1>1 DEF Applied, Writes
<1>9. \A y : y # x => (y \in redis' <=> y \in redis)
  BY <1>1 DEF Applied
<1> HIDE DEF x
<1>10. AloneIsAlone'
  <2>1. ASSUME NEW d \in Calls, calls'[d].op \in Writes
        PROVE  /\ calls'[d].alone =>
                    \A e \in Calls \ {d} : calls'[e].op \in Writes => calls'[e].chat # calls'[d].chat
               /\ ~calls'[d].alone => calls'[d].chat \in doubted'
    <3>1. calls[d].op \in Writes /\ calls'[d].chat = calls[d].chat /\ calls'[d].alone = calls[d].alone
      BY <1>3, <2>1
    <3>2. /\ calls[d].alone =>
               \A e \in Calls \ {d} : calls[e].op \in Writes => calls[e].chat # calls[d].chat
          /\ ~calls[d].alone => calls[d].chat \in doubted
      BY <3>1 DEF ListInv, AloneIsAlone
    <3> QED
      BY <1>3, <1>4, <3>1, <3>2
  <2> QED
    BY <2>1 DEF AloneIsAlone
<1>11. LoneWriteLasts'
  <2>1. ASSUME NEW d \in Calls, calls'[d].op \in Writes, calls'[d].alone, calls'[d].at = "done"
        PROVE  (calls'[d].chat \in redis' <=> calls'[d].op = "add")
    <3>1. /\ calls[d].op \in Writes /\ calls[d].alone
          /\ calls'[d].op = calls[d].op /\ calls'[d].chat = calls[d].chat
      BY <1>3, <2>1
    <3>2. CASE d = c
      BY <1>8, <3>1, <3>2 DEF x
    <3>3. CASE d # c
      <4>2. calls[d].chat # x
        BY <1>1, <3>1, <3>3 DEF ListInv, AloneIsAlone, x
      <4>3. calls[d].at = "done"
        BY <1>3, <2>1, <3>3
      <4> QED
        BY <1>9, <3>1, <4>2, <4>3 DEF ListInv, LoneWriteLasts
    <3> QED
      BY <3>2, <3>3
  <2> QED
    BY <2>1 DEF LoneWriteLasts
<1>12. ListsCurrent'
  <2>1. ASSUME NEW d \in Calls, NEW y \in Chats,
               calls'[d].op = "list", calls'[d].at = "done", y \notin calls'[d].passed
        PROVE  (y \in calls'[d].list <=> y \in redis')
    <3>1. d # c /\ calls[d].op = "list" /\ calls'[d].list = calls[d].list
      BY <1>1, <1>3, <2>1 DEF Writes
    <3>2. calls[d].at = "done" /\ calls'[d].passed = calls[d].passed \cup {x}
      BY <1>3, <2>1, <3>1
    <3>3. y # x /\ y \notin calls[d].passed
      BY <2>1, <3>2
    <3> QED
      BY <1>9, <3>1, <3>2, <3>3 DEF ListInv, ListsCurrent
  <2> QED
    BY <2>1 DEF ListsCurrent
<1>13. ToldApplies'
  <2>1. ASSUME NEW y \in Chats, Settled(y)'
        PROVE  /\ backend' = "upstash" => (y \in redis' <=> In(y)')
               /\ (y \notin overtaken /\ ~unread)' => (y \in cache' <=> In(y)')
    <3>1. Settled(y) /\ y # x
      BY <1>6, <1>7, <2>1
    <3> QED
      BY <1>4, <1>6, <1>9, <3>1 DEF ListInv, ToldApplies
  <2> QED
    BY <2>1 DEF ToldApplies
<1>14. FileIsCache' /\ FileRead'
  BY <1>4 DEF ListInv, FileIsCache, FileRead
<1> QED
  BY <1>10, <1>11, <1>12, <1>13, <1>14 DEF ListInv

\* The end of a write: the chat's command is obeyed, and in doubt unless it was
\* alone and is answered.
LEMMA WriteEnds ==
  ASSUME ListInv, TypeOK', NEW c \in Calls, WriteAnswered(c) \/ WriteFails(c)
  PROVE  ListInv'
<1> DEFINE x == calls[c].chat
<1>1. TypeOK /\ calls[c].op \in Writes /\ Obeyed(c) /\ disk' = disk
  BY DEF WriteAnswered, WriteFails, ListInv
<1>2. x \in Chats
  BY <1>1, RequestsElim DEF TypeOK, RequestTyped
<1>3. calls'[c].op = "none" /\ \A d \in Calls \ {c} : calls'[d] = calls[d]
  BY <1>1, CallEnds, IdleType DEF Obeyed
<1>4. /\ UNCHANGED <<backend, redis, unread, unsaved>>
      /\ cache' = Applied(calls[c].op, x, cache)
      /\ told' = [told EXCEPT ![x] = Reply(calls[c].op)]
      /\ overtaken' = overtaken \ {x}
  BY <1>1 DEF Obeyed
<1>5. /\ \A y : y # x => (y \in doubted' <=> y \in doubted)
      /\ x \notin doubted' =>
           /\ (calls[c].alone \/ x \notin doubted)
           /\ calls[c].at = "done"
  BY DEF WriteAnswered, WriteFails
<1>6. ASSUME NEW y, y # x
      PROVE  WritesOf(y)' = WritesOf(y)
  <2>1. \A d \in Calls : calls'[d].op \in Writes /\ calls'[d].chat = y
                          <=> calls[d].op \in Writes /\ calls[d].chat = y
    BY <1>3, <1>6 DEF Writes
  <2> QED
    BY <2>1 DEF WritesOf
<1>7. /\ told'[x] = "in" <=> calls[c].op = "add"
      /\ \A y \in Chats : y # x => (In(y)' <=> In(y))
  BY <1>1, <1>2, <1>4 DEF TypeOK, In, Reply, Writes
<1>8. /\ x \in cache' <=> calls[c].op = "add"
      /\ \A y : y # x => (y \in cache' <=> y \in cache)
  BY <1>1, <1>4 DEF Applied, Writes
<1>9. /\ calls[c].alone =>
            \A e \in Calls \ {c} : calls[e].op \in Writes => calls[e].chat # x
      /\ ~calls[c].alone => x \in doubted
  BY <1>1 DEF ListInv, AloneIsAlone
<1>10. backend # "file"
  BY <1>1, IdleType DEF TypeOK, Writes
<1>11. calls[c].alone /\ calls[c].at = "done" => (x \in redis <=> calls[c].op = "add")
  BY <1>1 DEF ListInv, LoneWriteLasts
<1> HIDE DEF x
<1>12. AloneIsAlone'
  <2>1. ASSUME NEW d \in Calls, calls'[d].op \in Writes
        PROVE  /\ calls'[d].alone =>
                    \A e \in Calls \ {d} : calls'[e].op \in Writes => calls'[e].chat # calls'[d].chat
               /\ ~calls'[d].alone => calls'[d].chat \in doubted'
    <3>1. d # c /\ calls'[d] = calls[d] /\ calls[d].op \in Writes
      BY <1>3, <2>1 DEF Writes
    <3>2. /\ calls[d].alone =>
               \A e \in Calls \ {d} : calls[e].op \in Writes => calls[e].chat # calls[d].chat
          /\ ~calls[d].alone => calls[d].chat \in doubted
      BY <3>1 DEF ListInv, AloneIsAlone
    <3>3. calls'[d].alone =>
            \A e \in Calls \ {d} : calls'[e].op \in Writes => calls'[e].chat # calls'[d].chat
      BY <1>3, <3>1, <3>2 DEF Writes
    <3>4. ASSUME ~calls'[d].alone
          PROVE  calls[d].chat \in doubted'
      <4>1. CASE calls[d].chat # x
        BY <1>5, <3>1, <3>2, <3>4, <4>1
      <4>2. CASE calls[d].chat = x
        <5>1. ~calls[c].alone /\ x \in doubted
          BY <1>9, <3>1, <3>2, <3>4, <4>2
        <5> QED
          BY <1>5, <4>2, <5>1
      <4> QED
        BY <4>1, <4>2
    <3> QED
      BY <3>1, <3>3, <3>4
  <2> QED
    BY <2>1 DEF AloneIsAlone
<1>13. LoneWriteLasts'
  <2>1. ASSUME NEW d \in Calls, calls'[d].op \in Writes, calls'[d].alone, calls'[d].at = "done"
        PROVE  (calls'[d].chat \in redis' <=> calls'[d].op = "add")
    <3>1. calls'[d] = calls[d] /\ calls[d].op \in Writes
      BY <1>3, <2>1 DEF Writes
    <3> QED
      BY <1>4, <2>1, <3>1 DEF ListInv, LoneWriteLasts
  <2> QED
    BY <2>1 DEF LoneWriteLasts
<1>14. ListsCurrent'
  <2>1. ASSUME NEW d \in Calls, NEW y \in Chats,
               calls'[d].op = "list", calls'[d].at = "done", y \notin calls'[d].passed
        PROVE  (y \in calls'[d].list <=> y \in redis')
    <3>1. calls'[d] = calls[d]
      BY <1>3, <2>1
    <3> QED
      BY <1>4, <2>1, <3>1 DEF ListInv, ListsCurrent
  <2> QED
    BY <2>1 DEF ListsCurrent
<1>15. ASSUME NEW y \in Chats, Settled(y)'
       PROVE  /\ backend' = "upstash" => (y \in redis' <=> In(y)')
              /\ (y \notin overtaken /\ ~unread)' => (y \in cache' <=> In(y)')
  <2>1. CASE y = x
    <3>1. calls[c].alone /\ calls[c].at = "done"
      BY <1>5, <1>9, <1>15, <2>1 DEF Settled
    <3> QED
      BY <1>4, <1>7, <1>8, <1>11, <2>1, <3>1 DEF In
  <2>2. CASE y # x
    <3>1. Settled(y)
      BY <1>5, <1>6, <1>15, <2>2 DEF Settled
    <3>2. /\ backend = "upstash" => (y \in redis <=> In(y))
          /\ (y \notin overtaken /\ ~unread) => (y \in cache <=> In(y))
      BY <3>1 DEF ListInv, ToldApplies
    <3> QED
      BY <1>4, <1>7, <1>8, <2>2, <3>2
  <2> QED
    BY <2>1, <2>2
<1>16. ToldApplies'
  BY <1>15 DEF ToldApplies
<1>17. FileIsCache' /\ FileRead'
  BY <1>4, <1>10 DEF FileIsCache, FileRead
<1> QED
  BY <1>12, <1>13, <1>14, <1>16, <1>17 DEF ListInv

LEMMA RestartSteps ==
  ASSUME ListInv, TypeOK', Restart
  PROVE  ListInv'
<1>1. TypeOK /\ UNCHANGED <<backend, redis, told>> /\ cache' = disk' /\ ~unsaved'
  BY DEF Restart, ListInv
<1>2. \A c \in Calls : calls'[c].op = "none"
  BY IdleType DEF Restart
<1>3. AloneIsAlone' /\ LoneWriteLasts' /\ ListsCurrent'
  BY <1>2 DEF AloneIsAlone, LoneWriteLasts, ListsCurrent, Writes
<1>4. \A y \in Chats : In(y)' <=> In(y)
  BY <1>1 DEF In
<1>5. ASSUME NEW y \in Chats, Settled(y)'
      PROVE  Settled(y) /\ (backend = "file" => (y \in disk' <=> y \in cache))
  <2>1. y \notin doubted'
    BY <1>5 DEF Settled
  <2>2. y \notin doubted /\ WritesOf(y) = {}
    BY <2>1 DEF Restart
  <2>3. backend = "file" => y \notin (cache \cup disk') \ (cache \cap disk')
    BY <2>1 DEF Restart
  <2> QED
    BY <2>2, <2>3 DEF Settled
<1>6. ASSUME NEW y \in Chats, Settled(y)'
      PROVE  /\ backend' = "upstash" => (y \in redis' <=> In(y)')
             /\ (y \notin overtaken /\ ~unread)' => (y \in cache' <=> In(y)')
  <2>1. Settled(y) /\ (backend = "file" => (y \in disk' <=> y \in cache))
    BY <1>5, <1>6
  <2>2. unread' <=> backend = "upstash"
    BY DEF Restart
  <2>3. backend \in {"upstash", "file"}
    BY <1>1, SubscribersAssumption DEF TypeOK
  <2>4. backend = "file" => y \notin overtaken /\ ~unread
    BY DEF ListInv, FileRead
  <2> QED
    BY <1>1, <1>4, <2>1, <2>2, <2>3, <2>4 DEF ListInv, ToldApplies
<1>7. ToldApplies'
  BY <1>6 DEF ToldApplies
<1>8. FileIsCache' /\ FileRead'
  BY <1>1 DEF FileIsCache, FileRead, Restart
<1> QED
  BY <1>3, <1>7, <1>8 DEF ListInv

LEMMA NextList == ListInv /\ [Next]_vars => ListInv'
<1> SUFFICES ASSUME ListInv, [Next]_vars PROVE ListInv'
  OBVIOUS
<1>1. TypeOK'
  BY NextType DEF ListInv
<1>2. CASE UNCHANGED vars
  <2>1. /\ UNCHANGED <<backend, redis, disk, cache, calls, told>>
        /\ UNCHANGED <<doubted, overtaken, unread, unsaved>>
    BY <1>2 DEF vars, shared, history
  <2>2. \A y : WritesOf(y)' = WritesOf(y)
    BY <2>1 DEF WritesOf
  <2> QED
    BY <1>1, <2>1, <2>2 DEF ListInv, AloneIsAlone, LoneWriteLasts, ListsCurrent, FileIsCache,
                            FileRead, ToldApplies, Settled, In
<1> QED
  BY <1>1, <1>2, FileSteps, CommandSteps, AskListSteps, WriteExecutesSteps, WriteEnds,
     ListExecutesSteps, ListEnds, RestartSteps DEF Next

\* For any chats and calls in flight, a settled chat is listed as it was told
\* (src/store.js add, remove, getAll; the commands of src/index.js): in the
\* shared list; in each list answer it was not written under; in the cache, but
\* for one that came from a list it was written under or was never read; and in
\* the file, if that is the store and its last write succeeded.
THEOREM ListedAsTold == Spec => []ListedWhenTold
<1>1. ListInv => ListedWhenTold
  <2> SUFFICES ASSUME ListInv, NEW x \in Chats, Settled(x)
      PROVE  /\ backend = "upstash" => (x \in redis <=> In(x))
             /\ x \notin overtaken /\ ~unread => (x \in cache <=> In(x))
             /\ \A c \in Calls :
                  calls[c].op = "list" /\ calls[c].at = "done" /\ x \notin calls[c].passed =>
                    (x \in calls[c].list <=> In(x))
             /\ backend = "file" /\ ~unsaved => (x \in disk <=> In(x))
    BY DEF ListedWhenTold
  <2>1. /\ backend = "upstash" => (x \in redis <=> In(x))
        /\ (x \notin overtaken /\ ~unread) => (x \in cache <=> In(x))
    BY DEF ListInv, ToldApplies
  <2>2. \A c \in Calls : calls[c].op = "list" => backend = "upstash"
    BY SubscribersAssumption, IdleType DEF ListInv, TypeOK
  <2>3. \A c \in Calls :
          calls[c].op = "list" /\ calls[c].at = "done" /\ x \notin calls[c].passed =>
            (x \in calls[c].list <=> In(x))
    BY <2>1, <2>2 DEF ListInv, ListsCurrent
  <2>4. backend = "file" /\ ~unsaved => (x \in disk <=> In(x))
    BY <2>1 DEF ListInv, FileIsCache, FileRead
  <2> QED
    BY <2>1, <2>3, <2>4
<1> QED
  BY <1>1, InitList, NextList, PTL DEF Spec
=============================================================================
