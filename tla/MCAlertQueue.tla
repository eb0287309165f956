---------------------------- MODULE MCAlertQueue ----------------------------
(* Bounds for model-checking AlertQueue: pages of one or two events.        *)
EXTENDS AlertQueue

Pages == [1..1 -> Events] \cup [1..2 -> Events]
=============================================================================
