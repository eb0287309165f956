-------------------------- MODULE MCVideoRecovery --------------------------
(* Values for model-checking VideoRecovery: one or two events, whose texts   *)
(* wait in the notifications group and in one driver's group.                *)
EXTENDS VideoRecovery, TLC

CONSTANTS notifications, driver, j1

MCChats   == {notifications, driver}
MCTargets == [j \in Jobs |-> MCChats]

\* The first event reaches both chats, any other the notifications group only.
MCFewTargets == [j \in Jobs |-> IF j = j1 THEN MCChats ELSE {notifications}]
=============================================================================
