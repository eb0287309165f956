----------------------------- MODULE MCRuntime ------------------------------
(* Model-checking instance of Runtime: the environments Coolify may hold.   *)
EXTENDS Runtime

Normal     == [off |-> FALSE, pin |-> 0, keyed |-> TRUE, standby |-> FALSE]
Standby    == [Normal EXCEPT !.standby = TRUE]
Pinned     == [Normal EXCEPT !.pin = 1]
SecretsOff == [Normal EXCEPT !.off = TRUE]
Keyless    == [Normal EXCEPT !.keyed = FALSE]

MCDeployments == {Normal, Standby, Pinned, SecretsOff, Keyless}
=============================================================================
