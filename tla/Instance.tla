------------------------------ MODULE Instance ------------------------------
(***************************************************************************)
(* What the machine API promises of one Machine and its instance, and what *)
(* the two detailed models of this project have to agree on:               *)
(* MachineController looks at the Machine's object and sees a server,      *)
(* InstanceResources looks at what a server is made of and sees a Machine. *)
(*                                                                         *)
(* An instance is a server and its root volume.  It is made while there is *)
(* a Machine, taken down only for a Machine that is being deleted, and the *)
(* Machine goes when nothing is left of it.                                *)
(***************************************************************************)
VARIABLES machine,      \* "present", "deleting" or "gone"
          server,       \* "none", "BUILD", "ACTIVE", "ERROR" or "DELETING"
          volume        \* does the root volume exist?

vars == <<machine, server, volume>>

Init == machine = "present" /\ server = "none" /\ volume = FALSE

(* Creation: first the volume, then the server on it. *)
MakeVolume ==
  /\ machine # "gone" /\ server = "none"
  /\ volume' = TRUE
  /\ UNCHANGED <<machine, server>>

Request ==
  /\ machine # "gone" /\ server = "none"
  /\ server' = "BUILD" /\ volume' \in {volume, TRUE}
  /\ UNCHANGED machine

Build == server = "BUILD" /\ server' \in {"ACTIVE", "ERROR"} /\ UNCHANGED <<machine, volume>>

(* The server ends, and its volume with it: it was deleted, for the Machine or
   behind the machine API's back. *)
End ==
  /\ server # "none" /\ server' = "none"
  /\ volume' = FALSE
  /\ UNCHANGED machine

Delete == machine = "present" /\ machine' = "deleting" /\ UNCHANGED <<server, volume>>

(* Deletion: of the server, or of the volume if there is no server. *)
Remove ==
  /\ machine = "deleting" /\ server # "none"
  /\ server' = "DELETING"
  /\ UNCHANGED <<machine, volume>>

RemoveVolume ==
  /\ machine = "deleting" /\ server = "none"
  /\ volume' = FALSE
  /\ UNCHANGED <<machine, server>>

(* The Machine goes; one that was never worked on may go at once. *)
Release ==
  /\ machine # "gone" /\ server = "none" /\ ~ volume
  /\ machine' = "gone"
  /\ UNCHANGED <<server, volume>>

Next ==
  \/ MakeVolume \/ Request \/ Build \/ End
  \/ Delete \/ Remove \/ RemoveVolume \/ Release

Safety == Init /\ [][Next]_vars

(* Who deletes a Machine gets rid of it. *)
Progress == machine = "deleting" ~> machine = "gone"

Spec == Safety /\ Progress
=============================================================================
