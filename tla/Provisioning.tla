---------------------------- MODULE Provisioning ----------------------------
(***************************************************************************)
(* Several Machines, one manager.  What createInstance does before it asks *)
(* CAPO for a server (validateMachine, getUserData, the server group) and  *)
(* what reconcile does with the floating IP afterwards: the parts in which *)
(* Machines meet, in the server groups of their project and in the process *)
(* that a panic ends for all of them.                                      *)
(*                                                                         *)
(* MachineController follows one of these Machines through its life; here  *)
(* it only has a server or none, and a phase.  Requests whose answers      *)
(* nobody changes meanwhile are one step with the one that follows them.   *)
(***************************************************************************)
EXTENDS Naturals, Sequences, FiniteSets, SequencesExt

CONSTANTS Machines,
          Groups,       \* server group UUIDs that Nova can hand out
          Names,        \* server group names
          None,         \* no group, no name
          Specs,        \* the provider specs that Machines may have
          Secrets,      \* what the user data secret may be
          InitialNames, \* the groups that there may be at first
          MaxFaults,    \* bound: failed requests, lost answers, crashes
          MaxOutside    \* bound: edits of secrets, work on groups by others

(* Of a provider spec: its server group by UUID and by name; whether it names
   the user data secret; whether image, flavor and zone check out; whether its
   block devices have known types; whether it has networks or ports; whether it
   asks for a floating IP. *)
SpecType == [groupID : Groups \cup {None}, groupName : Names \cup {None}, userData : BOOLEAN,
             valid : BOOLEAN, devices : BOOLEAN, ports : BOOLEAN, floatingIP : BOOLEAN]

(* Of the user data secret, which Machines share: its text under the key userData,
   disableTemplating, the postprocessor, and whether the text is a Container
   Linux config. *)
SecretType == [text : {"missing", "keyless", "script", "malformed", "undefined"},
               templating : BOOLEAN, post : {"none", "ct", "other"}, config : BOOLEAN]

ASSUME ProvisioningAssumption ==
  /\ IsFiniteSet(Machines) /\ Machines # {} /\ None \notin Groups \cup Names \cup Machines
  /\ IsFiniteSet(Groups) /\ "absent" \notin Groups \cup {None}
  /\ Specs \subseteq SpecType /\ Secrets \subseteq SecretType
  /\ InitialNames \subseteq [Groups -> Names \cup {None}]
  /\ MaxFaults \in Nat /\ MaxOutside \in Nat

VARIABLES spec,         \* the provider spec of every Machine
          secret,       \* the user data secret
          phase,        \* "Provisioning", "Provisioned" or "Failed"
          server,       \* "absent", or the group its server was created in
          attached,     \* Machines whose server has their floating IP
          name,         \* of every server group, None before it is created
          deleted, ours,\* groups that are gone; groups that the manager created
          queue,        \* the controller's work queue
          delayed,      \* Machines that will be added to it
          pc, cur,      \* the worker's next request, and its Machine
          target,       \* instanceSpec.ServerGroupID
          faults, outside

machines == <<phase, server, attached>>
groups == <<name, deleted, ours>>
worker == <<queue, delayed, pc, cur, target>>
vars == <<spec, secret, machines, groups, worker, faults, outside>>

Orders == {q \in [1 .. Cardinality(Machines) -> Machines] : IsInjective(q)}

Init ==
  /\ spec \in [Machines -> Specs] /\ secret \in Secrets
  /\ phase = [m \in Machines |-> "Provisioning"]
  /\ server = [m \in Machines |-> "absent"] /\ attached = {}
  /\ name \in InitialNames /\ deleted = {} /\ ours = {}
  /\ queue \in Orders /\ delayed = {}
  /\ pc = "idle" /\ cur = None /\ target = None
  /\ faults = 0 /\ outside = 0

Fault == faults < MaxFaults /\ faults' = faults + 1
NoFault == UNCHANGED faults

Existing == {g \in Groups : name[g] # None /\ g \notin deleted}

GoTo(label) == pc' = label /\ UNCHANGED <<queue, delayed, cur, target>>

(* Mutants: the request is not forgotten; an error is only logged. *)
EndPass_KeepsRequest(again) ==
  /\ pc' = "idle" /\ target' = None
  /\ delayed' = IF again THEN delayed \cup {cur} ELSE delayed
  /\ UNCHANGED <<queue, cur>>
EndPass_DropsError(again) ==
  /\ pc' = "idle" /\ cur' = None /\ target' = None
  /\ UNCHANGED <<queue, delayed>>

(* Reconcile returns, with an error if the Machine is to be tried again: the
   rate limiter adds it to the queue after a while. *)
EndPass(again) ==
  /\ pc' = "idle" /\ cur' = None /\ target' = None
  /\ delayed' = IF again THEN delayed \cup {cur} ELSE delayed
  /\ UNCHANGED queue

Retry == EndPass(TRUE)

(* The process ends, for a panic too: RecoverPanic is not set.  The next one lists
   the Machines, in whatever order, and starts over. *)
Restart ==
  /\ pc' = "idle" /\ cur' = None /\ target' = None
  /\ queue' \in Orders /\ delayed' = {}

(***************************************************************************)
(* The pass over a Machine.                                                *)
(***************************************************************************)
Due(m) ==
  /\ m \in delayed
  /\ delayed' = delayed \ {m} /\ queue' = Append(queue, m)
  /\ UNCHANGED <<spec, secret, machines, groups, pc, cur, target, faults, outside>>

(* The worker takes the next Machine and looks its instance up.  A Machine that
   is Failed is left alone. *)
Take ==
  /\ pc = "idle" /\ queue # <<>>
  /\ queue' = Tail(queue) /\ target' = None
  /\ LET m == Head(queue) IN
     \/ /\ phase[m] = "Failed"
        /\ cur' = None /\ UNCHANGED <<pc, delayed>> /\ NoFault
     \/ /\ phase[m] # "Failed"
        /\ cur' = m /\ UNCHANGED delayed /\ NoFault
        /\ pc' = IF server[m] = "absent" THEN "validate" ELSE "floatingIP"
     \/ /\ phase[m] # "Failed"
        /\ delayed' = delayed \cup {m} /\ cur' = None /\ UNCHANGED pc /\ Fault
  /\ UNCHANGED <<spec, secret, machines, groups, outside>>

(* GetServerGroupsByName: every group of the project is listed. *)
GetServerGroupsByName(n) == {g \in Existing : name[g] = n}

(* Mutant: a group given by UUID is only looked up. *)
GroupChecksOut_AnyName(sp) ==
  IF sp.groupID # None
  THEN sp.groupID \in Existing
  ELSE sp.groupName = None \/ Cardinality(GetServerGroupsByName(sp.groupName)) <= 1

(* The last part of validateMachine: a group given by UUID exists and has the
   name that may be given too; of a name there is one group at most. *)
GroupChecksOut(sp) ==
  IF sp.groupID # None
  THEN sp.groupID \in Existing /\ sp.groupName \in {None, name[sp.groupID]}
  ELSE sp.groupName = None \/ Cardinality(GetServerGroupsByName(sp.groupName)) <= 1

(* validateMachine.  Whatever it complains of, the Machine is Failed for good;
   if that cannot be written, it is tried again. *)
Validate ==
  /\ pc = "validate"
  /\ LET ok == spec[cur].valid /\ GroupChecksOut(spec[cur]) IN
     \/ ok /\ NoFault /\ GoTo("convert") /\ UNCHANGED phase
     \/ /\ IF ok THEN Fault ELSE NoFault
        /\ phase' = [phase EXCEPT ![cur] = "Failed"] /\ EndPass(FALSE)
     \/ ~ ok /\ Fault /\ Retry /\ UNCHANGED phase
  /\ UNCHANGED <<spec, secret, server, attached, groups, outside>>

(* The text of the secret goes through text/template. *)
Templated == secret.text \in {"script", "malformed", "undefined"} /\ secret.templating

(* masterStartupScript: template.Must of a script that does not parse. *)
RenderingPanics(sp) == sp.userData /\ Templated /\ secret.text = "malformed"

(* getUserData: the secret or its key is missing, the template uses what there
   is not, or the postprocessor is unknown or has complaints. *)
RenderingFails(sp) ==
  /\ sp.userData
  /\ \/ secret.text \in {"missing", "keyless"}
     \/ Templated /\ secret.text = "undefined"
     \/ secret.post = "other"
     \/ secret.post = "ct" /\ ~ secret.config

(* Mutant: the group is seen to before the block devices. *)
Convert_GroupFirst ==
  /\ pc = "convert"
  /\ \/ RenderingPanics(spec[cur]) /\ Restart /\ NoFault
     \/ /\ ~ RenderingPanics(spec[cur])
        /\ IF RenderingFails(spec[cur]) THEN Retry
           ELSE IF spec[cur].groupID = None /\ spec[cur].groupName # None
                THEN GoTo("listGroups")
                ELSE pc' = "createServer" /\ target' = spec[cur].groupID
                     /\ UNCHANGED <<queue, delayed, cur>>
        /\ NoFault
     \/ Fault /\ Retry
  /\ UNCHANGED <<spec, secret, machines, groups, outside>>

(* convertMachineToCapoInstanceSpec up to the server group: the Infrastructure
   object, the user data, the block devices. *)
Convert ==
  /\ pc = "convert"
  /\ \/ RenderingPanics(spec[cur]) /\ Restart /\ NoFault
     \/ /\ ~ RenderingPanics(spec[cur])
        /\ IF RenderingFails(spec[cur]) \/ ~ spec[cur].devices THEN Retry
           ELSE IF spec[cur].groupID = None /\ spec[cur].groupName # None
                THEN GoTo("listGroups")
                ELSE pc' = "createServer" /\ target' = spec[cur].groupID
                     /\ UNCHANGED <<queue, delayed, cur>>
        /\ NoFault
     \/ Fault /\ Retry
  /\ UNCHANGED <<spec, secret, machines, groups, outside>>

(* Mutant: of several groups the first one is taken. *)
ListGroups_TakesAny ==
  /\ pc = "listGroups"
  /\ LET found == GetServerGroupsByName(spec[cur].groupName) IN
     \/ /\ found # {} /\ NoFault
        /\ target' \in found /\ pc' = "createServer"
        /\ UNCHANGED <<queue, delayed, cur>>
     \/ found = {} /\ NoFault /\ GoTo("createGroup")
     \/ Fault /\ Retry
  /\ UNCHANGED <<spec, secret, machines, groups, outside>>

(* Mutant: a list that fails is taken for an empty one. *)
ListGroups_ErrorIsNone ==
  /\ pc = "listGroups"
  /\ LET found == GetServerGroupsByName(spec[cur].groupName) IN
     \/ /\ Cardinality(found) = 1 /\ NoFault
        /\ target' \in found /\ pc' = "createServer"
        /\ UNCHANGED <<queue, delayed, cur>>
     \/ found = {} /\ NoFault /\ GoTo("createGroup")
     \/ Cardinality(found) > 1 /\ NoFault /\ Retry
     \/ Fault /\ GoTo("createGroup")
  /\ UNCHANGED <<spec, secret, machines, groups, outside>>

(* MachineToInstanceSpec looks for the group of the name once more: since the
   validation others may have created or deleted groups. *)
ListGroups ==
  /\ pc = "listGroups"
  /\ LET found == GetServerGroupsByName(spec[cur].groupName) IN
     \/ /\ Cardinality(found) = 1 /\ NoFault
        /\ target' \in found /\ pc' = "createServer"
        /\ UNCHANGED <<queue, delayed, cur>>
     \/ found = {} /\ NoFault /\ GoTo("createGroup")
     \/ Cardinality(found) > 1 /\ NoFault /\ Retry
     \/ Fault /\ Retry
  /\ UNCHANGED <<spec, secret, machines, groups, outside>>

(* Nova creates group g. *)
NewGroup(g, n) == name[g] = None /\ name' = [name EXCEPT ![g] = n] /\ UNCHANGED deleted

(* CreateServerGroup: the answer may be lost. *)
CreateServerGroup ==
  /\ pc = "createGroup"
  /\ \/ \E g \in Groups :
          /\ NewGroup(g, spec[cur].groupName) /\ ours' = ours \cup {g}
          /\ \/ /\ pc' = "createServer" /\ target' = g
                /\ UNCHANGED <<queue, delayed, cur>> /\ NoFault
             \/ Retry /\ Fault
     \/ Retry /\ Fault /\ UNCHANGED groups
  /\ UNCHANGED <<spec, secret, machines, outside>>

(* CreateInstance.  Without any port constructPorts reads Status.Network of an
   empty OpenStackCluster; Nova refuses a group that does not exist. *)
CreateServer ==
  /\ pc = "createServer"
  /\ \/ ~ spec[cur].ports /\ Restart /\ NoFault /\ UNCHANGED server
     \/ /\ spec[cur].ports /\ target \in {None} \cup Existing
        /\ server' = [server EXCEPT ![cur] = target]
        /\ \/ GoTo("floatingIP") /\ NoFault
           \/ Retry /\ Fault
     \/ /\ Retry /\ UNCHANGED server
        /\ IF spec[cur].ports /\ target \notin {None} \cup Existing THEN NoFault ELSE Fault
  /\ UNCHANGED <<spec, secret, phase, attached, groups, outside>>

(* Mutant: a floating IP that cannot be associated is only logged. *)
ReconcileFloatingIP_Skips ==
  /\ pc = "floatingIP"
  /\ GoTo("patch") /\ NoFault
  /\ UNCHANGED <<spec, secret, machines, groups, outside>>

(* reconcileFloatingIP: a floating IP that the server does not have yet cannot
   be associated, as GetOrCreateFloatingIP and GetManagementPort read the
   status of an empty OpenStackCluster. *)
ReconcileFloatingIP ==
  /\ pc = "floatingIP"
  /\ \/ (spec[cur].floatingIP => cur \in attached) /\ GoTo("patch") /\ NoFault
     \/ spec[cur].floatingIP /\ cur \notin attached /\ Restart /\ NoFault
     \/ Retry /\ Fault
  /\ UNCHANGED <<spec, secret, machines, groups, outside>>

(* Labels, status and phase are written. *)
Patch ==
  /\ pc = "patch"
  /\ \/ phase' = [phase EXCEPT ![cur] = "Provisioned"] /\ EndPass(FALSE) /\ NoFault
     \/ Retry /\ Fault /\ UNCHANGED phase
  /\ UNCHANGED <<spec, secret, server, attached, groups, outside>>

Step ==
  \/ Take \/ Validate \/ Convert \/ ListGroups \/ CreateServerGroup
  \/ CreateServer \/ ReconcileFloatingIP \/ Patch

(***************************************************************************)
(* Others.                                                                 *)
(***************************************************************************)
Crash ==
  /\ pc # "idle" /\ Fault /\ Restart
  /\ UNCHANGED <<spec, secret, machines, groups, outside>>

Outside == outside < MaxOutside /\ outside' = outside + 1

EditSecret ==
  /\ Outside
  /\ secret' \in Secrets \ {secret}
  /\ UNCHANGED <<spec, machines, groups, worker, faults>>

(* The project is used by others too, another cluster's manager perhaps. *)
OthersGroup ==
  /\ Outside
  /\ \/ \E g \in Groups, n \in Names : NewGroup(g, n)
     \/ \E g \in Existing : deleted' = deleted \cup {g} /\ UNCHANGED name
  /\ UNCHANGED <<spec, secret, machines, ours, worker, faults>>

(* Somebody associates the floating IP of a server by hand. *)
AttachFloatingIP ==
  /\ \E m \in Machines :
       /\ spec[m].floatingIP /\ server[m] # "absent" /\ m \notin attached
       /\ attached' = attached \cup {m}
  /\ UNCHANGED <<spec, secret, phase, server, groups, worker, faults, outside>>

Others == Crash \/ EditSecret \/ OthersGroup \/ AttachFloatingIP

Next == Step \/ (\E m \in Machines : Due(m)) \/ Others

Spec == Init /\ [][Next]_vars

(* The worker goes on and delays end. *)
FairSpec == Spec /\ WF_vars(Step) /\ \A m \in Machines : WF_vars(Due(m))

-----------------------------------------------------------------------------
(* Types of the Machines, the groups and the worker. *)
TypeOK ==
  /\ spec \in [Machines -> Specs] /\ secret \in Secrets
  /\ phase \in [Machines -> {"Provisioning", "Provisioned", "Failed"}]
  /\ server \in [Machines -> Groups \cup {None, "absent"}] /\ attached \subseteq Machines
  /\ name \in [Groups -> Names \cup {None}]
  /\ deleted \subseteq Groups /\ ours \subseteq Groups
  /\ queue \in Seq(Machines) /\ delayed \subseteq Machines
  /\ pc \in {"idle", "validate", "convert", "listGroups", "createGroup", "createServer",
             "floatingIP", "patch"}
  /\ cur \in Machines \cup {None} /\ (pc = "idle") = (cur = None)
  /\ target \in Groups \cup {None}
  /\ faults \in 0 .. MaxFaults /\ outside \in 0 .. MaxOutside

(* Machines that name the same server group are spread by the same group: their
   servers are never in two groups that exist side by side, whatever others in
   the project do between validation, lookup and creation. *)
SameGroup ==
  \A m, k \in Machines :
    LET g == server[m]  h == server[k] IN
    /\ {g, h} \subseteq Existing /\ spec[m].groupName = spec[k].groupName
    /\ spec[m].groupID = None /\ spec[k].groupID = None
    => g = h

(* The manager never has two groups of one name of its own, although the answer
   to a create request may get lost and the process may end before the group is
   used (CreateServerGroup comes after a list that found none). *)
OwnGroupsUnique ==
  \A g, h \in ours \cap Existing : name[g] = name[h] => g = h

(* "If both ServerGroupID and ServerGroupName are non-empty, they must refer to
   the same OpenStack resource": a server is in the group of that UUID and of
   that name, and in none if none is asked for. *)
GroupAsSpecified ==
  \A m \in Machines : server[m] # "absent" =>
    LET sp == spec[m]  g == server[m] IN
    /\ (sp.groupID = None /\ sp.groupName = None) = (g = None)
    /\ sp.groupID \in {None, g}
    /\ g = None \/ sp.groupName \in {None, name[g]}

(* Nothing is created in OpenStack, not even a server group, on behalf of a
   Machine whose provider spec is refused (createInstance's order). *)
NothingForBadSpecs ==
  [][ours' # ours \/ server' # server => spec[cur].valid /\ spec[cur].devices]_vars

(* A Machine is Provisioned only with the floating IP that it asks for, although
   the actuator cannot associate one. *)
ProvisionedHasFloatingIP ==
  \A m \in Machines :
    phase[m] = "Provisioned" /\ spec[m].floatingIP => m \in attached

(* The next pass over the Machine, if it gets that far, ends the manager. *)
Poisonous(m) ==
  /\ phase[m] = "Provisioning"
  /\ IF server[m] = "absent" THEN RenderingPanics(spec[m]) \/ ~ spec[m].ports
                           ELSE spec[m].floatingIP /\ m \notin attached

(* Its passes end with an error that is not held against the Machine. *)
Erroneous(m) == server[m] = "absent" /\ (RenderingFails(spec[m]) \/ ~ spec[m].devices)

(* Once no Machine makes the manager panic, every Machine that can be created is
   Provisioned or Failed in the end: repaired user data is picked up, and neither
   others' groups nor others' errors keep a Machine waiting. *)
EventuallyDecided ==
  <>[](\A m \in Machines : ~ Poisonous(m))
  => \A m \in Machines : <>(phase[m] # "Provisioning") \/ []<>Erroneous(m)
=============================================================================
