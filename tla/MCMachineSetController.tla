------------------------ MODULE MCMachineSetController ------------------------
(* Instances of MachineSetController for TLC. *)
EXTENDS MachineSetController, TLC

CONSTANTS ms1, ms2, c1, c2

OneCloud == [x \in MachineSets |-> c1]
TwoClouds == (ms1 :> c1) @@ (ms2 :> c2)

=============================================================================
