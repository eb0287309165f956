---------------------------- MODULE MCBroadcast ----------------------------
(* Values for model-checking Broadcast: one alert, routed to a driver group  *)
(* whose members may also subscribe.                                         *)
EXTENDS Broadcast, TLC

CONSTANTS alert, notifications, subscriber, driver

MCEvents == {alert}
MCChats  == {notifications, subscriber, driver}
MCDriver == [e \in MCEvents |-> driver]
=============================================================================
