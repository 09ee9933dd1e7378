-------------------------------- MODULE Faults --------------------------------
(***************************************************************************)
(* Failures of the infrastructure: a Redis, database or HTTP call that     *)
(* raises, or the service process dying.  The code meets them in its       *)
(* except clauses; MaxFaults bounds how many a behaviour contains.         *)
(***************************************************************************)
EXTENDS Naturals

CONSTANT MaxFaults
ASSUME FaultsAssumption == MaxFaults \in Nat

VARIABLE faults

Fault == faults < MaxFaults /\ faults' = faults + 1
NoFault == UNCHANGED faults
===============================================================================
