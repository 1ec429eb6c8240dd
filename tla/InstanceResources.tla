------------------------- MODULE InstanceResources -------------------------
(***************************************************************************)
(* What a server is made of: the ports, trunks and volumes that CAPO's     *)
(* createInstanceImpl makes before it asks Nova for the server, and that   *)
(* DeleteInstance has to find again, with only the Machine's name and the  *)
(* provider spec to go by.                                                 *)
(*                                                                         *)
(* Actuator leaves these resources out and follows the Machine object;     *)
(* here the Machine is only present, deleting or gone, as the controller's *)
(* one worker sees it, and every request about a resource is a step.       *)
(* Nobody else touches the resources: each name exists at most once, so a  *)
(* port is its index in the InstanceSpec and a volume is 0 (root) or the   *)
(* index of its additional block device.                                   *)
(***************************************************************************)
EXTENDS Integers, FiniteSets, FiniteSetsExt

CONSTANTS NPorts,       \* ports of the InstanceSpec
          Trunk,        \* providerSpec.trunk
          RootVolume,   \* does the instance boot from a volume?
          NExtra,       \* additional block devices that are volumes
          FaultKinds,   \* what may go wrong
          MaxFaults     \* bound: how often each of them

Kinds == {"error", "lost", "crash"}

ASSUME ResourcesAssumption ==
  /\ NPorts \in Nat \ {0} /\ NExtra \in Nat /\ MaxFaults \in Nat
  /\ Trunk \in BOOLEAN /\ RootVolume \in BOOLEAN
  /\ FaultKinds \subseteq Kinds

Ports == 1 .. NPorts
Root == IF RootVolume THEN {0} ELSE {}
Extra == 1 .. NExtra
Volumes == Root \cup Extra

VARIABLES machine,      \* the Machine: "present", "deleting", "gone"
          server,       \* state of its server in Nova
          ports,        \* "absent", "free" or "bound" to the server
          trunks,       \* ports that are the parent of a trunk
          volumes,      \* volumes that exist
          pc,           \* the worker's next request
          todo,         \* what the loop it is in has still to handle
          portList,     \* createInstanceImpl's local of that name
          seen,         \* the InstanceStatus DeleteInstance was given
          job,          \* why ports are being removed
          faults        \* what has gone wrong, of every kind

resources == <<server, ports, trunks, volumes>>
worker == <<pc, todo, portList, seen, job>>
vars == <<machine, resources, worker, faults>>

Init ==
  /\ machine = "present" /\ server = "none"
  /\ ports = [i \in Ports |-> "absent"] /\ trunks = {} /\ volumes = {}
  /\ pc = "idle" /\ todo = {} /\ portList = {} /\ seen = "none" /\ job = "none"
  /\ faults = [kind \in Kinds |-> 0]

Fault(kind) ==
  /\ kind \in FaultKinds /\ faults[kind] < MaxFaults
  /\ faults' = [faults EXCEPT ![kind] = @ + 1]

NoFault == UNCHANGED faults

(* A request succeeds, fails, or is carried out while its answer is lost. *)
Request(effect, noEffect, next, failed) ==
  \/ effect /\ next /\ NoFault
  \/ noEffect /\ failed /\ Fault("error")
  \/ effect /\ failed /\ Fault("lost")

(* A read succeeds or fails. *)
Read(next, failed) == (next /\ NoFault) \/ (failed /\ Fault("error"))

EndPass ==
  pc' = "idle" /\ todo' = {} /\ portList' = {} /\ seen' = "none" /\ job' = "none"

GoTo(label, rest) == pc' = label /\ todo' = rest /\ UNCHANGED <<portList, seen, job>>

(***************************************************************************)
(* createInstanceImpl.                                                     *)
(***************************************************************************)
(* Its deferred function, when no server was returned: deletePorts of
   portList.  A port whose creation did not run to its end is not in it. *)
Fail ==
  IF portList = {}
  THEN EndPass
  ELSE /\ pc' = "removeTrunk" /\ todo' = portList /\ job' = "cleanup"
       /\ UNCHANGED <<portList, seen>>

(* The pass finds no instance: image, flavor, networks and security groups
   are read first. *)
BeginCreate ==
  /\ pc = "idle" /\ machine = "present" /\ server = "none"
  /\ Read(GoTo("ensurePort", Ports), EndPass)
  /\ UNCHANGED <<machine, resources>>

(* Mutant: the ports are counted from one too many. *)
Listed_OffByOne(i) ==
  /\ portList' = portList \cup {i + 1}
  /\ IF todo = {i}
     THEN pc' = "ensureVolume" /\ todo' = Volumes
     ELSE pc' = "ensurePort" /\ todo' = todo \ {i}
  /\ UNCHANGED <<seen, job>>

(* Port i joins portList; the block devices follow the last one. *)
Listed(i) ==
  /\ portList' = portList \cup {i}
  /\ IF todo = {i}
     THEN pc' = "ensureVolume" /\ todo' = Volumes
     ELSE pc' = "ensurePort" /\ todo' = todo \ {i}
  /\ UNCHANGED <<seen, job>>

(* GetOrCreatePort: a port of the name is taken as it is, trunk or not. *)
EnsurePort ==
  LET i == Min(todo) IN
  /\ pc = "ensurePort"
  /\ IF ports[i] # "absent"
     THEN Read(Listed(i), Fail) /\ UNCHANGED ports
     ELSE Request(ports' = [ports EXCEPT ![i] = "free"],
                  UNCHANGED ports,
                  GoTo("tagPort", todo),
                  Fail)
  /\ UNCHANGED <<machine, server, trunks, volumes>>

(* A new port is tagged, put on a trunk, and the trunk is tagged; a failure of
   any of these leaves a port that is not in portList. *)
Tag ==
  /\ \/ pc = "tagPort" /\ Read(IF Trunk THEN GoTo("ensureTrunk", todo) ELSE Listed(Min(todo)), Fail)
     \/ pc = "tagTrunk" /\ Read(Listed(Min(todo)), Fail)
  /\ UNCHANGED <<machine, resources>>

EnsureTrunk ==
  /\ pc = "ensureTrunk"
  /\ Request(trunks' = trunks \cup {Min(todo)}, UNCHANGED trunks,
             GoTo("tagTrunk", todo), Fail)
  /\ UNCHANGED <<machine, server, ports, volumes>>

(* Mutant: only the root volume goes with the server. *)
DeleteOnTermination_RootOnly == Root

(* The block devices that are marked to go with the server: all of them. *)
DeleteOnTermination == Volumes

(* getBlockDevices: the volumes one after the other, by name.  Nothing
   removes them again when the server is not created. *)
EnsureVolume ==
  /\ pc = "ensureVolume"
  /\ IF todo = {}
     THEN Read(GoTo("createServer", {}), Fail) /\ UNCHANGED volumes   \* waitForVolume
     ELSE LET v == Min(todo) IN
          IF v \in volumes
          THEN Read(GoTo("ensureVolume", todo \ {v}), Fail) /\ UNCHANGED volumes
          ELSE Request(volumes' = volumes \cup {v}, UNCHANGED volumes,
                       GoTo("ensureVolume", todo \ {v}), Fail)
  /\ UNCHANGED <<machine, server, ports, trunks>>

CreateServer ==
  /\ pc = "createServer"
  /\ Request(server' = "BUILD", UNCHANGED server, GoTo("awaitActive", {}), Fail)
  /\ UNCHANGED <<machine, ports, trunks, volumes>>

(* Mutant: ports are cleaned up whenever the creation ends with an error. *)
AwaitActive_Cleanup ==
  /\ pc = "awaitActive"
  /\ \/ server = "ACTIVE" /\ EndPass /\ NoFault
     \/ server = "ERROR" /\ Fail /\ NoFault
     \/ Fail /\ Fault("error")
  /\ UNCHANGED <<machine, resources>>

(* From here on "server" is set and the deferred function does nothing. *)
AwaitActive ==
  /\ pc = "awaitActive"
  /\ Read(server \in {"ACTIVE", "ERROR"} /\ EndPass, EndPass)
  /\ UNCHANGED <<machine, resources>>

(***************************************************************************)
(* DeleteInstance.                                                         *)
(***************************************************************************)
(* Mutant: without an instance there is nothing to delete. *)
BeginDelete_NoVolumes ==
  /\ pc = "idle" /\ machine = "deleting"
  /\ \/ EndPass /\ Fault("error")
     \/ /\ NoFault
        /\ pc' = IF server = "none" THEN "deleted" ELSE "listInterfaces"
        /\ seen' = server
        /\ UNCHANGED <<todo, portList, job>>
  /\ UNCHANGED <<machine, resources>>

(* Delete of the actuator looks the instance up.  The InstanceSpec it builds
   lists the ports and the root volume, but no additional block devices. *)
BeginDelete ==
  /\ pc = "idle" /\ machine = "deleting"
  /\ \/ EndPass /\ Fault("error")
     \/ /\ NoFault
        /\ IF server = "none"
           THEN pc' = "deleteVolume" /\ todo' = Root
           ELSE pc' = "listInterfaces" /\ todo' = {}
        /\ seen' = server
        /\ UNCHANGED <<portList, job>>
  /\ UNCHANGED <<machine, resources>>

(* deleteVolumes, when there is no instance. *)
DeleteVolume ==
  /\ pc = "deleteVolume"
  /\ IF todo = {}
     THEN NoFault /\ GoTo("deleted", {}) /\ UNCHANGED volumes
     ELSE Request(volumes' = volumes \ todo, UNCHANGED volumes,
                  GoTo("deleteVolume", {}), EndPass)
  /\ UNCHANGED <<machine, server, ports, trunks>>

(* Mutant: ports of a server in ERROR are left alone. *)
AfterInterfaces_NoCollect == pc' = "deleteServer" /\ todo' = {} /\ job' = "none"

(* Once the attached ports are gone: GarbageCollectErrorInstancesPort finds
   the ports of a server in ERROR by their names. *)
AfterInterfaces ==
  IF seen = "ERROR" /\ \E i \in Ports : ports'[i] # "absent"
  THEN pc' = "removeTrunk" /\ todo' = {i \in Ports : ports'[i] # "absent"} /\ job' = "collect"
  ELSE pc' = "deleteServer" /\ todo' = {} /\ job' = "none"

(* ListAttachedInterfaces; it answers 404 for a server that has just gone. *)
ListInterfaces ==
  LET attached == {i \in Ports : ports[i] = "bound"} IN
  /\ pc = "listInterfaces"
  /\ UNCHANGED <<machine, resources>>
  /\ \/ /\ server # "none" /\ NoFault
        /\ IF attached # {}
           THEN pc' = "detach" /\ todo' = attached /\ job' = "attached"
           ELSE AfterInterfaces
        /\ UNCHANGED <<portList, seen>>
     \/ EndPass /\ IF server = "none" THEN NoFault ELSE Fault("error")

(* Mutant: a conflict is an error like any other. *)
Detach_ConflictFails ==
  LET i == Min(todo) IN
  /\ pc = "detach"
  /\ IF server = "ACTIVE"
     THEN Request(ports' = [ports EXCEPT ![i] = IF @ = "bound" THEN "free" ELSE @],
                  UNCHANGED ports, GoTo("removeTrunk", todo), EndPass)
     ELSE EndPass /\ NoFault /\ UNCHANGED ports
  /\ UNCHANGED <<machine, server, trunks, volumes>>

(* deleteAttachInterface: only a running server lets go of a port; the
   conflict that any other answers with is ignored, as is a 404. *)
Detach ==
  LET i == Min(todo) IN
  /\ pc = "detach"
  /\ Request(ports' = IF server = "ACTIVE" /\ ports[i] = "bound"
                      THEN [ports EXCEPT ![i] = "free"] ELSE ports,
             UNCHANGED ports, GoTo("removeTrunk", todo), EndPass)
  /\ UNCHANGED <<machine, server, trunks, volumes>>

(* Mutant: the trunk is not deleted with its port. *)
RemoveTrunk_Skipped ==
  /\ pc = "removeTrunk"
  /\ Read(GoTo("removePort", todo), EndPass)
  /\ UNCHANGED <<machine, server, ports, trunks, volumes>>

(* DeleteTrunk, then DeletePort, in the three loops that remove ports.  A
   failure ends the loop: that of a cleanup is only logged.  Neutron may refuse
   to delete a trunk while its parent is bound; the conflict is retried until
   timeoutTrunkDelete, and then it is a failure like any other. *)
RemoveTrunk ==
  LET i == Min(todo) IN
  /\ pc = "removeTrunk"
  /\ \/ Request(trunks' = trunks \ {i}, UNCHANGED trunks, GoTo("removePort", todo), EndPass)
     \/ /\ i \in trunks /\ ports[i] = "bound"
        /\ EndPass /\ NoFault /\ UNCHANGED trunks
  /\ UNCHANGED <<machine, server, ports, volumes>>

(* The loop goes on, or what follows it does. *)
Removed(i) ==
  \/ todo # {i} /\ GoTo(IF job = "attached" THEN "detach" ELSE "removeTrunk", todo \ {i})
  \/ todo = {i} /\ job = "cleanup" /\ EndPass
  \/ todo = {i} /\ job = "attached" /\ AfterInterfaces /\ UNCHANGED <<portList, seen>>
  \/ /\ todo = {i} /\ job = "collect"
     /\ pc' = "deleteServer" /\ todo' = {} /\ job' = "none" /\ UNCHANGED <<portList, seen>>

RemovePort ==
  LET i == Min(todo) IN
  /\ pc = "removePort"
  /\ Request(ports' = [ports EXCEPT ![i] = "absent"], UNCHANGED ports, Removed(i), EndPass)
  /\ UNCHANGED <<machine, server, trunks, volumes>>

(* deleteInstance: a 404 counts as done. *)
DeleteServer ==
  /\ pc = "deleteServer"
  /\ Request(server' = IF server = "none" THEN server ELSE "DELETING", UNCHANGED server,
             GoTo(IF server = "none" THEN "deleted" ELSE "awaitDelete", {}), EndPass)
  /\ UNCHANGED <<machine, ports, trunks, volumes>>

AwaitDelete ==
  /\ pc = "awaitDelete"
  /\ Read(server = "none" /\ GoTo("deleted", {}), EndPass)
  /\ UNCHANGED <<machine, resources>>

(* Reconcile asks Exists once more before it lets go of the Machine. *)
RemoveFinalizer ==
  /\ pc = "deleted"
  /\ Read(machine' = IF server = "none" THEN "gone" ELSE machine, UNCHANGED machine)
  /\ EndPass
  /\ UNCHANGED resources

(***************************************************************************)
(* The process, the user, and Nova.                                        *)
(***************************************************************************)
Crash == pc # "idle" /\ Fault("crash") /\ EndPass /\ UNCHANGED <<machine, resources>>

UserDelete ==
  /\ machine = "present" /\ machine' = "deleting"
  /\ UNCHANGED <<resources, worker, faults>>

(* Nova builds in two steps: it binds the ports it was given ("SPAWN", to its
   clients still BUILD), if they are all there, and starts the server. *)
NovaAllocate ==
  /\ server = "BUILD" /\ server' = "SPAWN"
  /\ \A i \in Ports : ports[i] # "absent"
  /\ ports' = [i \in Ports |-> "bound"]
  /\ UNCHANGED <<trunks, volumes>>

NovaStart == server = "SPAWN" /\ server' = "ACTIVE" /\ UNCHANGED <<ports, trunks, volumes>>

Unbound == [i \in Ports |-> IF ports[i] = "bound" THEN "free" ELSE ports[i]]

(* It may fail at any time, with or without giving the ports back. *)
NovaFail ==
  /\ server \in {"BUILD", "SPAWN"} /\ server' = "ERROR"
  /\ ports' \in {ports, Unbound}
  /\ UNCHANGED <<trunks, volumes>>

(* A deleted server takes its volumes with it (DeleteOnTermination), but not
   the ports it was given. *)
NovaReap ==
  /\ server = "DELETING" /\ server' = "none"
  /\ ports' = Unbound
  /\ volumes' = volumes \ DeleteOnTermination
  /\ UNCHANGED trunks

NovaStep ==
  /\ NovaAllocate \/ NovaStart \/ NovaFail \/ NovaReap
  /\ UNCHANGED <<machine, worker, faults>>

WorkerStep ==
  \/ BeginCreate \/ EnsurePort \/ Tag \/ EnsureTrunk \/ EnsureVolume \/ CreateServer \/ AwaitActive
  \/ BeginDelete \/ DeleteVolume \/ ListInterfaces \/ Detach \/ RemoveTrunk \/ RemovePort
  \/ DeleteServer \/ AwaitDelete \/ RemoveFinalizer

Next == WorkerStep \/ Crash \/ UserDelete \/ NovaStep

Spec == Init /\ [][Next]_vars

(* The worker and Nova go on, and Neutron does not refuse for ever to delete a
   trunk (DeleteInstance has no way past one that it never lets go). *)
FairSpec ==
  /\ Spec /\ WF_vars(WorkerStep) /\ WF_vars(NovaStep)
  /\ SF_vars(RemoveTrunk /\ pc' = "removePort")

(***************************************************************************)
(* Properties.                                                             *)
(***************************************************************************)
(* Types of the resources and of the worker's state. *)
TypeOK ==
  /\ machine \in {"present", "deleting", "gone"}
  /\ server \in {"none", "BUILD", "SPAWN", "ACTIVE", "ERROR", "DELETING"}
  /\ ports \in [Ports -> {"absent", "free", "bound"}]
  /\ trunks \subseteq Ports /\ volumes \subseteq Volumes
  /\ pc \in {"idle", "ensurePort", "tagPort", "ensureTrunk", "tagTrunk", "ensureVolume",
             "createServer", "awaitActive", "deleteVolume", "listInterfaces", "detach", "removeTrunk",
             "removePort", "deleteServer", "awaitDelete", "deleted"}
  /\ todo \subseteq Ports \cup Volumes /\ portList \subseteq Ports
  /\ seen \in {"none", "BUILD", "SPAWN", "ACTIVE", "ERROR", "DELETING"}
  /\ job \in {"none", "cleanup", "attached", "collect"}
  /\ faults \in [Kinds -> 0 .. MaxFaults]

(* However creation and deletion were interrupted, neither the root volume nor
   the server is left when the Machine is gone: deleteVolumes runs when there is
   no instance, DeleteOnTermination when there was one. *)
RootVolumeGone == machine = "gone" => server = "none" /\ volumes \cap Root = {}

(* The worker is in DeleteInstance with an instance, or past it. *)
Deleting ==
  \/ pc \in {"listInterfaces", "detach", "deleteServer", "awaitDelete", "deleted"}
  \/ pc \in {"removeTrunk", "removePort"} /\ job # "cleanup"

(* Why RootVolumeGone holds.  The volume can only be left without a server to
   take it along while a create pass runs or before a deletion pass has looked:
   a pass of DeleteInstance that has seen a server, and a DeleteVolume loop that
   is through, know that there is none, and a gone Machine has no pass. *)
RootInv ==
  /\ machine = "gone" => server = "none" /\ volumes \cap Root = {} /\ pc = "idle"
  /\ Deleting /\ server = "none" => volumes \cap Root = {}
  /\ pc = "deleteVolume" => todo = Root \/ volumes \cap Root = {}
  /\ pc = "detach" => job = "attached"

(* A trunk never outlives its parent port, whichever of the three loops that
   remove ports is interrupted between DeleteTrunk and DeletePort. *)
TrunksHaveParents == \A i \in trunks : ports[i] # "absent"

(* A server that was found in ERROR is deleted only when all the ports of its
   spec are gone, attached or not (OCPBUGS-33806): afterwards nothing would
   look for them. *)
ErrorPortsCollected ==
  pc = "deleteServer" /\ seen = "ERROR" => \A i \in Ports : ports[i] = "absent"

(* As long as nobody deletes the Machine, the ports a running server was
   created with stay: the cleanup of createInstanceImpl is for servers that were
   not created.  It does take the ports of a server whose create request was
   carried out without an answer. *)
ServerHasPorts ==
  server \in {"SPAWN", "ACTIVE"} /\ machine = "present" /\ faults["lost"] = 0
    => \A i \in Ports : ports[i] = "bound"

(* No volume outlives the Machine: "we never remove a machine finalizer until
   all resources associated with the instance, including volumes, have been
   deleted" (DeleteInstance). *)
NoDanglingVolumes == machine = "gone" => volumes = {}

(* It holds of every Machine that is let go by a pass of DeleteInstance that has
   found a server: the server took all its volumes along, the additional block
   devices included, whatever failed before. *)
VolumesGoWithServer ==
  [][machine # "gone" /\ machine' = "gone" /\ seen # "none" => volumes' = {}]_vars

(* When nothing goes wrong but Nova's building, the server is on the trunks the
   provider spec asks for (GetOrCreatePort), and no port or volume is left of
   the instance when the Machine is gone (DeleteInstance). *)
CleanWithoutFaults ==
  (\A kind \in Kinds : faults[kind] = 0)
  => /\ server = "ACTIVE" /\ machine = "present" /\ Trunk => trunks = Ports
     /\ machine = "gone" => volumes = {} /\ \A i \in Ports : ports[i] = "absent"

(* The instance of module Instance: the server as its clients see it, and the
   root volume. *)
I == INSTANCE Instance WITH
       server <- IF server = "SPAWN" THEN "BUILD" ELSE server,
       volume <- volumes \cap Root # {}

(* createInstanceImpl and DeleteInstance, interrupted anywhere, do to the server
   and its root volume only what module Instance allows, in an order it allows:
   nothing is made for a Machine that is gone, no server is taken down before the
   Machine is deleted, the Machine goes last.  And it does go: no failed detach,
   port, trunk or volume stops later passes from getting further. *)
ImplementsInstance == I!Spec
=============================================================================
