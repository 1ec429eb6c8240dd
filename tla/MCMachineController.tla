------------------------ MODULE MCMachineController ------------------------
(* Instances of MachineController for TLC. *)
EXTENDS MachineController, TLC

ServerSymmetry == Permutations(Servers)
=============================================================================
