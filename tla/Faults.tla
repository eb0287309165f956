------------------------------- MODULE Faults -------------------------------
(***************************************************************************)
(* The budget of environment faults shared by the components: a query that *)
(* fails, a Telegram call that errors, a process that dies.  Every fault   *)
(* action of a component is guarded by Fault(kind), so that a run chooses  *)
(* which kinds may happen and how many of them.                            *)
(***************************************************************************)
EXTENDS Naturals

CONSTANTS
  FaultKinds,   \* the kinds of fault the environment may inject
  MaxFaults     \* bound: how many faults a behaviour may contain

ASSUME FaultsAssumption == MaxFaults \in Nat

VARIABLE faults \* how many faults have happened so far

FaultsTypeOK == faults \in 0..MaxFaults

FaultsInit == faults = 0

Fault(kind) ==
  /\ kind \in FaultKinds
  /\ faults < MaxFaults
  /\ faults' = faults + 1

NoFault == UNCHANGED faults
=============================================================================
