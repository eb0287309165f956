---------------------------- MODULE Subscribers -----------------------------
(***************************************************************************)
(* Who has subscribed (src/store.js): a list shared in Upstash Redis or a  *)
(* file on this host, and the in-memory cache beside it, under the chat    *)
(* commands /start and /stop (index.js), the read at startup and the read  *)
(* before every broadcast.  Calls to Redis overlap: the handlers of two    *)
(* commands and the broadcasts of two pollers may all be awaiting one.     *)
(*                                                                         *)
(* External: Redis executes a call some time after it is sent, or never,   *)
(* and answers it some time after that, or never.                          *)
(*                                                                         *)
(* Abstracted: the wording of the replies, kept as what the chat was last  *)
(* told: that it is subscribed, or that it is not.                         *)
(***************************************************************************)
EXTENDS Faults, FiniteSets

CONSTANTS
  Chats,        \* the chats that talk to the bot
  Backends,     \* the backends to consider: "upstash", "file"
  Calls,        \* bound: the calls to Redis in flight at once
  NoChat        \* a call that is about the whole list

ASSUME SubscribersAssumption ==
  /\ Backends \subseteq {"upstash", "file"}
  /\ NoChat \notin Chats

VARIABLES
  backend,      \* USE_REDIS
  redis,        \* the set samsara_bot_subscribers
  disk,         \* data/subscribers.json
  cache,        \* the in-memory set
  ready,        \* store.init has returned: broadcasts may begin
  calls,        \* the calls to Redis in flight
  told,         \* what each chat was last told
  doubted,      \* history: its command failed, overlapped another or died
  overtaken,    \* history: written while the list the cache came from was read
  unread,       \* history: this process has not read the shared list yet
  unsaved       \* history: the last write of the file failed

shared  == <<redis, disk>>
history == <<doubted, overtaken, unread, unsaved>>
vars    == <<backend, shared, cache, ready, calls, told, history, faults>>

Idle == [op |-> "none", chat |-> NoChat, at |-> "sent", alone |-> TRUE,
         list |-> {}, passed |-> {}]

Writes == {"add", "remove"}

\* at: not executed yet, or executed and to be answered.  alone: no other write
\* of the chat was in flight with it.  list, passed: what Redis answers with,
\* and the chats it has written since.
Requests ==
  [op : Writes \cup {"list", "none"}, chat : Chats \cup {NoChat},
   at : {"sent", "done"}, alone : BOOLEAN, list : SUBSET Chats, passed : SUBSET Chats]

TypeOK ==
  /\ FaultsTypeOK
  /\ backend \in Backends
  /\ redis \in SUBSET Chats /\ disk \in SUBSET Chats /\ cache \in SUBSET Chats
  /\ backend = "upstash" => disk = {}
  /\ backend = "file" => redis = {} /\ ready /\ \A c \in Calls : calls[c] = Idle
  /\ ready \in BOOLEAN
  /\ calls \in [Calls -> Requests]
  /\ \A c \in Calls : calls[c].chat # NoChat <=> calls[c].op \in Writes
  /\ told \in [Chats -> {"nothing", "in", "out"}]
  /\ doubted \in SUBSET Chats /\ overtaken \in SUBSET Chats
  /\ unread \in BOOLEAN /\ unsaved \in BOOLEAN

Init ==
  /\ FaultsInit
  /\ backend \in Backends
  /\ redis = {} /\ disk = {} /\ cache = {}
  /\ ready = (backend = "file")
  /\ calls = [c \in Calls |-> Idle]
  /\ told = [x \in Chats |-> "nothing"]
  /\ doubted = {} /\ overtaken = {}
  /\ unread = (backend = "upstash") /\ unsaved = FALSE

-----------------------------------------------------------------------------
(* The sets and the replies                                                *)

Applied(op, x, set)  == IF op = "add" THEN set \cup {x} ELSE set \ {x}
Reply(op)            == IF op = "add" THEN "in" ELSE "out"

WritesOf(x) == {c \in Calls : calls[c].op \in Writes /\ calls[c].chat = x}

Ended(c) == [calls EXCEPT ![c] = Idle]

-----------------------------------------------------------------------------
(* The local file                                                          *)

\* add and remove without Redis are synchronous.  A chat that is already as it
\* asks to be is told so, and nothing is written; a write that fails is
\* swallowed.
FileCommand(op, x) ==
  /\ backend = "file"
  /\ told' = [told EXCEPT ![x] = Reply(op)]
  /\ cache' = Applied(op, x, cache)
  /\ doubted' = doubted \ {x}
  /\ \/ cache' = cache /\ UNCHANGED <<disk, unsaved>> /\ NoFault
     \/ cache' # cache /\ disk' = cache' /\ unsaved' = FALSE /\ NoFault
     \/ cache' # cache /\ UNCHANGED disk /\ unsaved' = TRUE /\ Fault("disk")
  /\ UNCHANGED <<backend, redis, ready, calls, overtaken, unread>>

-----------------------------------------------------------------------------
(* Upstash                                                                 *)

\* /start or /stop: sadd or srem is sent.  Nothing keeps the commands of a
\* chat in turn.
Command(c, op, x) ==
  /\ backend = "upstash"
  /\ calls[c] = Idle
  /\ calls' = [d \in Calls |->
                 IF d = c THEN [Idle EXCEPT !.op = op, !.chat = x, !.alone = WritesOf(x) = {}]
                 ELSE IF d \in WritesOf(x) THEN [calls[d] EXCEPT !.alone = FALSE]
                 ELSE calls[d]]
  /\ doubted' = IF WritesOf(x) = {} THEN doubted ELSE doubted \cup {x}
  /\ UNCHANGED <<backend, shared, cache, ready, told, overtaken, unread, unsaved, faults>>

\* smembers is sent: store.init once, then store.getAll for every broadcast.
AskList(c) ==
  /\ backend = "upstash"
  /\ calls[c] = Idle
  /\ ready \/ \A d \in Calls : calls[d].op # "list"
  /\ calls' = [calls EXCEPT ![c].op = "list"]
  /\ UNCHANGED <<backend, shared, cache, ready, told, history, faults>>

\* Redis executes a write; the lists it has already read do not show it.
WriteExecutes(c) ==
  /\ calls[c].op \in Writes /\ calls[c].at = "sent"
  /\ redis' = Applied(calls[c].op, calls[c].chat, redis)
  /\ calls' = [d \in Calls |->
                 IF d = c THEN [calls[d] EXCEPT !.at = "done"]
                 ELSE IF calls[d].op = "list" /\ calls[d].at = "done"
                 THEN [calls[d] EXCEPT !.passed = @ \cup {calls[c].chat}]
                 ELSE calls[d]]
  /\ UNCHANGED <<backend, disk, cache, ready, told, history, faults>>

ListExecutes(c) ==
  /\ calls[c].op = "list" /\ calls[c].at = "sent"
  /\ calls' = [calls EXCEPT ![c] = [@ EXCEPT !.at = "done", !.list = redis]]
  /\ UNCHANGED <<backend, shared, cache, ready, told, history, faults>>

\* The cache and the reply follow the command, whatever Redis said.
Obeyed(c) ==
  LET op == calls[c].op
      x  == calls[c].chat
  IN  /\ cache' = Applied(op, x, cache)
      /\ told' = [told EXCEPT ![x] = Reply(op)]
      /\ overtaken' = overtaken \ {x}
      /\ calls' = Ended(c)
      /\ UNCHANGED <<backend, redis, ready, unread, unsaved>>

\* A write that was executed is answered, or its answer is lost: the same
\* happens in both branches.
WriteAnswered(c) ==
  /\ calls[c].op \in Writes /\ calls[c].at = "done"
  /\ Obeyed(c)
  /\ doubted' = IF calls[c].alone THEN doubted \ {calls[c].chat} ELSE doubted
  /\ UNCHANGED disk /\ NoFault

\* A write that was not executed fails: the chat is told it succeeded.
WriteFails(c) ==
  /\ calls[c].op \in Writes /\ calls[c].at = "sent"
  /\ Fault("redis")
  /\ Obeyed(c)
  /\ doubted' = doubted \cup {calls[c].chat}
  /\ UNCHANGED disk

\* The answer replaces the cache.
ListAnswered(c) ==
  /\ calls[c].op = "list" /\ calls[c].at = "done"
  /\ cache' = calls[c].list
  /\ overtaken' = calls[c].passed
  /\ unread' = FALSE
  /\ ready' = TRUE
  /\ calls' = Ended(c)
  /\ UNCHANGED <<backend, shared, told, doubted, unsaved, faults>>

CacheEmptied(c) ==
  /\ calls[c].op = "list"
  /\ Fault("redis")
  /\ ready' = TRUE
  /\ cache' = {}
  /\ calls' = Ended(c)
  /\ UNCHANGED <<backend, shared, told, history>>

\* The read fails: whoever asked works with the cache as it is.
ListFails(c) ==
  /\ calls[c].op = "list"
  /\ Fault("redis")
  /\ ready' = TRUE
  /\ calls' = Ended(c)
  /\ UNCHANGED <<backend, shared, cache, told, history>>

-----------------------------------------------------------------------------
(* Restarts                                                                *)

\* A command in flight dies unanswered; the new process begins with the file,
\* which may have gone with the host, and reads the shared list.
Restart ==
  /\ \/ Fault("crash") /\ UNCHANGED disk
     \/ backend = "file" /\ Fault("host") /\ disk' = {}
  /\ cache' = disk'
  /\ ready' = (backend = "file")
  /\ calls' = [c \in Calls |-> Idle]
  /\ doubted' = doubted \cup {x \in Chats : WritesOf(x) # {}}
                  \cup (IF backend = "file" THEN (cache \cup disk') \ (cache \cap disk') ELSE {})
  /\ overtaken' = {}
  /\ unread' = (backend = "upstash") /\ unsaved' = FALSE
  /\ UNCHANGED <<backend, redis, told>>

Next ==
  \/ \E x \in Chats, op \in Writes :
       FileCommand(op, x) \/ \E c \in Calls : Command(c, op, x)
  \/ \E c \in Calls :
       \/ AskList(c)
       \/ WriteExecutes(c) \/ WriteAnswered(c) \/ WriteFails(c)
       \/ ListExecutes(c) \/ ListAnswered(c) \/ ListFails(c)
  \/ Restart

Spec == Init /\ [][Next]_vars

-----------------------------------------------------------------------------
(* Properties                                                              *)

\* The chat has its answer, and nothing put its command in doubt.
Settled(x) == WritesOf(x) = {} /\ x \notin doubted

In(x) == told[x] = "in"

\* A broadcast reaches exactly the chats that were told they are subscribed,
\* and /status agrees with it: the shared list, every list read from it, and
\* the cache that stands in for it hold them, unless a command failed,
\* overlapped another or died, a list was read while the chat was being
\* written, or this process never read the shared list.
ListedWhenTold ==
  \A x \in Chats : Settled(x) =>
    /\ backend = "upstash" => (x \in redis <=> In(x))
    /\ x \notin overtaken /\ ~unread => (x \in cache <=> In(x))
    /\ \A c \in Calls :
         calls[c].op = "list" /\ calls[c].at = "done" /\ x \notin calls[c].passed =>
           (x \in calls[c].list <=> In(x))
    /\ backend = "file" /\ ~unsaved => (x \in disk <=> In(x))
=============================================================================
