--------------------------- MODULE MCSubscribers ----------------------------
(* Model-checking instance of Subscribers.  Chats and calls are            *)
(* interchangeable, so their permutations are a symmetry.                   *)
EXTENDS Subscribers, TLC

Symmetry == Permutations(Chats) \cup Permutations(Calls)
=============================================================================
