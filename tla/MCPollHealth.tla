----------------------------- MODULE MCPollHealth -----------------------------
(* Instance of PollHealth for TLC: three rows that differ in everything a     *)
(* poll looks at, and a deployment whose key is in the panel only.            *)
EXTENDS PollHealth

CONSTANTS on, off, foreign

MCRows  == {on, off, foreign}
MCPanel == [r \in MCRows |->
  CASE r = on      -> [enabled |-> TRUE,  speeding |-> "unset", key |-> "opens"]
    [] r = off     -> [enabled |-> FALSE, speeding |-> "on",    key |-> "opens"]
    [] r = foreign -> [enabled |-> TRUE,  speeding |-> "off",   key |-> "foreign"]]
=============================================================================
