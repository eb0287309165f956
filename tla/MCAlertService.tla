--------------------------- MODULE MCAlertService ---------------------------
(* Values for model-checking AlertService: pages of one event or of two      *)
(* events in some order; the first event's driver has a group.               *)
EXTENDS AlertService, TLC

CONSTANTS notifications, driver, e1

MCChats  == {notifications, driver}
MCDriver == [e \in Events |-> IF e = e1 THEN driver ELSE NoChat]
Pages    == [1..1 -> Events]
              \cup {p \in [1..2 -> Events] : p[1] # p[2]}
=============================================================================
