---------------------------- MODULE AlertContract ----------------------------
(***************************************************************************)
(* What the alert path promises, with no queue, ledger or process in it.   *)
(* A chat answers an alert once, with a copy or with a refusal for good,   *)
(* and once more for each fault that hid an earlier answer; an event       *)
(* counts as handled only when the notifications group has it or has       *)
(* refused it; and nothing is ever un-sent, un-refused or un-handled.      *)
(***************************************************************************)
EXTENDS Naturals

CONSTANTS Events, Chats, Forced

VARIABLES
  copies,   \* copies[e][c]: how many copies of e chat c received
  hidden,   \* hidden[e][c]: how many times a fault hid an answer of c to e
  refused,  \* <<e, c>>: chat c refused e for good
  handled   \* the events that are finished with

vars == <<copies, hidden, refused, handled>>

Init ==
  /\ copies = [e \in Events |-> [c \in Chats |-> 0]]
  /\ hidden = [e \in Events |-> [c \in Chats |-> 0]]
  /\ refused = {}
  /\ handled = {}

Answers(e, c) == copies[e][c] + (IF <<e, c>> \in refused THEN 1 ELSE 0)

\* The chat has given no answer that somebody still knows of.
MayAnswer(e, c) == Answers(e, c) <= hidden[e][c]

Receive(e, c) ==
  /\ MayAnswer(e, c)
  /\ copies' = [copies EXCEPT ![e][c] = @ + 1]
  /\ UNCHANGED <<hidden, refused, handled>>

\* The copy arrives and nobody learns of it.
ReceiveUnnoticed(e, c) ==
  /\ MayAnswer(e, c)
  /\ copies' = [copies EXCEPT ![e][c] = @ + 1]
  /\ hidden' = [hidden EXCEPT ![e][c] = @ + 1]
  /\ UNCHANGED <<refused, handled>>

Refuse(e, c) ==
  /\ MayAnswer(e, c)
  /\ refused' = refused \cup {<<e, c>>}
  /\ UNCHANGED <<copies, hidden, handled>>

\* A fault makes the system forget answers it was given earlier.
Forget(e) ==
  /\ \E S \in SUBSET {c \in Chats : Answers(e, c) > 0} :
       hidden' = [hidden EXCEPT ![e] = [c \in Chats |-> @[c] + IF c \in S THEN 1 ELSE 0]]
  /\ UNCHANGED <<copies, refused, handled>>

Handle(e) ==
  /\ copies[e][Forced] > 0 \/ <<e, Forced>> \in refused
  /\ handled' = handled \cup {e}
  /\ UNCHANGED <<copies, hidden, refused>>

Next ==
  \E e \in Events :
    \/ \E c \in Chats : Receive(e, c) \/ ReceiveUnnoticed(e, c) \/ Refuse(e, c)
    \/ Forget(e)
    \/ Handle(e)

Spec == Init /\ [][Next]_vars
=============================================================================
