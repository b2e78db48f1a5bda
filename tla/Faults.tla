------------------------------- MODULE Faults -------------------------------
(* The bound on what goes wrong.  A failed call, a lost answer or a restart  *)
(* of main is a fault; the models that extend this one count their faults,   *)
(* and MaxFaults ends them.                                                  *)
EXTENDS Naturals

CONSTANT MaxFaults

ASSUME FaultsAssumption == MaxFaults \in Nat

VARIABLE faults    \* ghost: faults so far

Fault == faults < MaxFaults /\ faults' = faults + 1
NoFault == UNCHANGED faults

=============================================================================
