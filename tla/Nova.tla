-------------------------------- MODULE Nova --------------------------------
(***************************************************************************)
(* The servers of one Machine in OpenStack's compute service, and the      *)
(* cluster Node that a running server registers.  Nova is external; the    *)
(* lookups are those of CAPO's compute service (instance.go), which        *)
(* getInstanceStatus of the actuator chooses between.                      *)
(*                                                                         *)
(* A server is "absent" before it is requested, "BUILD" once Nova has      *)
(* accepted the request, then "ACTIVE" or "ERROR"; "DELETING" once a       *)
(* delete was accepted and "gone" when Nova answers 404.  UUIDs are never  *)
(* reused.  Names are assumed unique in the project, as the actuator does: *)
(* every server here carries the Machine's name.                           *)
(***************************************************************************)
EXTENDS KubeAPI

CONSTANT Tampering      \* may servers be deleted behind the machine API's back?

ASSUME TamperingAssumption == Tampering \in BOOLEAN

VARIABLES servers,      \* state of every server
          node          \* is there a Node object for the Machine's server?

novaVars == <<servers, node>>

ServerStates == {"absent", "BUILD", "ACTIVE", "ERROR", "DELETING", "gone"}

NovaInit ==
  /\ servers = [s \in Servers |-> "absent"]
  /\ node = FALSE

(* Servers that GET and list requests still return. *)
Visible(s) == servers[s] \in {"BUILD", "ACTIVE", "ERROR", "DELETING"}

(* Mutant: the list is restricted to running servers. *)
ByName_ActiveOnly(s) ==
  IF \E t \in Servers : servers[t] = "ACTIVE" THEN s \in Servers /\ servers[s] = "ACTIVE"
                                              ELSE s = None

(* GetInstanceStatusByName: the first of the servers with the name, in
   whatever order Nova lists them, or nil. *)
ByName(s) ==
  IF \E t \in Servers : Visible(t) THEN s \in Servers /\ Visible(s)
                                   ELSE s = None

(* GetInstanceStatus: the server with that UUID; a 404 is nil, not an error. *)
ByID(id, s) == IF Visible(id) THEN s = id ELSE s = None

(* getInstanceStatus(machine) may answer s. *)
LookupAnswer(machine, s) ==
  IF machine.providerID = None THEN ByName(s) ELSE ByID(machine.providerID, s)

(* Nova finishes building a server, well or badly. *)
NovaBuild ==
  \E s \in Servers, result \in {"ACTIVE", "ERROR"} :
    /\ servers[s] = "BUILD"
    /\ servers' = [servers EXCEPT ![s] = result]
    /\ UNCHANGED node

(* Nova finishes deleting a server. *)
NovaReap ==
  \E s \in Servers :
    /\ servers[s] = "DELETING"
    /\ servers' = [servers EXCEPT ![s] = "gone"]
    /\ UNCHANGED node

(* The kubelet of a running server registers its Node. *)
NodeRegister ==
  /\ ~ node
  /\ \E s \in Servers : servers[s] = "ACTIVE"
  /\ node' = TRUE
  /\ UNCHANGED servers

(* A server is deleted outside the machine API. *)
ExternalDelete ==
  \E s \in Servers :
    /\ Tampering
    /\ servers[s] \in {"BUILD", "ACTIVE", "ERROR"}
    /\ servers' = [servers EXCEPT ![s] = "gone"]
    /\ UNCHANGED node
=============================================================================
