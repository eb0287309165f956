---------------------------- MODULE MCPollWindow ----------------------------
(* Model-checking instance of PollWindow; the values are in the cfg.        *)
EXTENDS PollWindow
=============================================================================
