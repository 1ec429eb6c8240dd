------------------------- MODULE ProvisioningProofs -------------------------
(***************************************************************************)
(* Theorems about Provisioning, for any set of Machines, provider specs,   *)
(* secrets and server groups, and any number of faults and of acts of      *)
(* others in the project.                                                  *)
(*                                                                         *)
(* First the types.  Then GroupInv: what the worker knows, between its     *)
(* requests, of the groups that its last request told it about.  The       *)
(* properties of server groups follow from it.                             *)
(***************************************************************************)
EXTENDS Provisioning, FiniteSetTheorems, SequenceTheorems, TLAPS

USE ProvisioningAssumption

(* The Machines in whatever order are a sequence of Machines. *)
LEMMA OrdersType == Orders \subseteq Seq(Machines)
<1>1. Cardinality(Machines) \in Nat
  BY FS_CardinalityType
<1>2. ASSUME NEW q \in Orders PROVE q \in Seq(Machines)
  BY <1>1, <1>2, IsASeq DEF Orders
<1> QED BY <1>2

(* The parts of TypeOK that actions disturb separately: the worker with its queue,
   the counters, and the rest. *)
WorkerType ==
  /\ queue \in Seq(Machines) /\ delayed \subseteq Machines
  /\ pc \in {"idle", "validate", "convert", "listGroups", "createGroup", "createServer",
             "floatingIP", "patch"}
  /\ cur \in Machines \cup {None} /\ (pc = "idle") = (cur = None)
  /\ target \in Groups \cup {None}

CountersType == faults \in 0 .. MaxFaults /\ outside \in 0 .. MaxOutside

WorldType ==
  /\ spec \in [Machines -> Specs] /\ secret \in Secrets
  /\ phase \in [Machines -> {"Provisioning", "Provisioned", "Failed"}]
  /\ server \in [Machines -> Groups \cup {None, "absent"}] /\ attached \subseteq Machines
  /\ name \in [Groups -> Names \cup {None}]
  /\ deleted \subseteq Groups /\ ours \subseteq Groups

(* TypeOK is their conjunction. *)
LEMMA TypeParts ==
  /\ TypeOK <=> WorkerType /\ CountersType /\ WorldType
  /\ TypeOK' <=> WorkerType' /\ CountersType' /\ WorldType'
BY DEF TypeOK, WorkerType, CountersType, WorldType

(* A provider spec has the fields of one. *)
LEMMA SpecFields ==
  ASSUME WorldType, NEW m \in Machines
  PROVE  /\ spec[m].groupID \in Groups \cup {None} /\ spec[m].groupName \in Names \cup {None}
         /\ spec[m] \in SpecType
BY DEF WorldType, SpecType

(* The end of a pass, with or without a retry, leaves an idle worker. *)
LEMMA EndPassType ==
  ASSUME WorkerType, pc # "idle", NEW again, EndPass(again)
  PROVE  WorkerType'
BY DEF WorkerType, EndPass

(* So does the end of the process. *)
LEMMA RestartType == ASSUME Restart PROVE WorkerType'
BY OrdersType DEF Restart, WorkerType

(* Going to another request keeps the worker well typed. *)
LEMMA GoToType ==
  ASSUME WorkerType, pc # "idle",
         NEW label \in {"validate", "convert", "listGroups", "createGroup", "createServer",
                        "floatingIP", "patch"},
         GoTo(label)
  PROVE  WorkerType'
BY DEF WorkerType, GoTo

(* Every action keeps the types. *)
LEMMA InitType == Init => TypeOK
<1> SUFFICES ASSUME Init PROVE TypeOK
  OBVIOUS
<1>1. WorkerType
  BY OrdersType DEF Init, WorkerType
<1>2. CountersType
  BY DEF Init, CountersType
<1>3. WorldType
  BY DEF Init, WorldType
<1> QED BY <1>1, <1>2, <1>3, TypeParts

LEMMA CountersStep ==
  ASSUME CountersType, Fault \/ NoFault, Outside \/ UNCHANGED outside
  PROVE  CountersType'
BY DEF CountersType, Fault, NoFault, Outside

LEMMA TypeStep == TypeOK /\ [Next]_vars => TypeOK'
<1> SUFFICES ASSUME TypeOK, [Next]_vars PROVE TypeOK'
  OBVIOUS
<1> USE DEF Retry
<1>t. WorkerType /\ CountersType /\ WorldType
  BY TypeParts
<1>1. ASSUME NEW m \in Machines, Due(m) PROVE TypeOK'
  <2>1. WorkerType'
    BY <1>t, <1>1, AppendProperties DEF Due, WorkerType
  <2>2. CountersType' /\ WorldType'
    BY <1>t, <1>1 DEF Due, CountersType, WorldType, machines, groups
  <2> QED BY <2>1, <2>2, TypeParts
<1>2. CASE Take
  <2>0. Head(queue) \in Machines /\ Tail(queue) \in Seq(Machines) /\ Head(queue) # None
    BY <1>t, <1>2, HeadTailProperties DEF Take, WorkerType
  <2>1. WorkerType'
    BY <1>t, <1>2, <2>0 DEF Take, WorkerType
  <2>2. CountersType'
    BY <1>t, <1>2, CountersStep DEF Take
  <2>3. WorldType'
    BY <1>t, <1>2 DEF Take, WorldType, machines, groups
  <2> QED BY <2>1, <2>2, <2>3, TypeParts
<1>3. CASE Validate
  <2>1. WorkerType'
    BY <1>t, <1>3, EndPassType, GoToType DEF Validate
  <2>2. CountersType'
    BY <1>t, <1>3, CountersStep DEF Validate
  <2>3. WorldType'
    BY <1>t, <1>3 DEF Validate, WorldType, groups
  <2> QED BY <2>1, <2>2, <2>3, TypeParts
<1>4. CASE Convert
  <2>0. cur \in Machines
    BY <1>t, <1>4 DEF Convert, WorkerType
  <2>1. WorkerType'
    <3>1. CASE pc' = "createServer" /\ target' = spec[cur].groupID
                 /\ UNCHANGED <<queue, delayed, cur>>
      BY <1>t, <1>4, <2>0, <3>1, SpecFields DEF Convert, WorkerType
    <3> QED BY <1>t, <1>4, <3>1, EndPassType, GoToType, RestartType DEF Convert
  <2>2. CountersType'
    BY <1>t, <1>4, CountersStep DEF Convert
  <2>3. WorldType'
    BY <1>t, <1>4 DEF Convert, WorldType, machines, groups
  <2> QED BY <2>1, <2>2, <2>3, TypeParts
<1>5. CASE ListGroups
  <2>1. WorkerType'
    <3>1. CASE /\ target' \in GetServerGroupsByName(spec[cur].groupName)
               /\ pc' = "createServer" /\ UNCHANGED <<queue, delayed, cur>>
      BY <1>t, <1>5, <3>1 DEF ListGroups, WorkerType, GetServerGroupsByName, Existing
    <3> QED BY <1>t, <1>5, <3>1, EndPassType, GoToType DEF ListGroups
  <2>2. CountersType'
    BY <1>t, <1>5, CountersStep DEF ListGroups
  <2>3. WorldType'
    BY <1>t, <1>5 DEF ListGroups, WorldType, machines, groups
  <2> QED BY <2>1, <2>2, <2>3, TypeParts
<1>6. CASE CreateServerGroup
  <2>0. cur \in Machines
    BY <1>t, <1>6 DEF CreateServerGroup, WorkerType
  <2>1. WorkerType'
    <3>1. CASE Retry
      BY <1>t, <1>6, <3>1, EndPassType DEF CreateServerGroup
    <3>2. CASE ~ Retry
      BY <1>t, <1>6, <3>2 DEF CreateServerGroup, WorkerType
    <3> QED BY <3>1, <3>2
  <2>2. CountersType'
    BY <1>t, <1>6, CountersStep DEF CreateServerGroup
  <2>3. WorldType'
    <3>1. CASE UNCHANGED groups
      BY <1>t, <1>6, <3>1 DEF CreateServerGroup, WorldType, machines, groups
    <3>2. ASSUME NEW g \in Groups, NewGroup(g, spec[cur].groupName), ours' = ours \cup {g}
          PROVE  WorldType'
      BY <1>t, <1>6, <2>0, <3>2, SpecFields DEF CreateServerGroup, WorldType, machines, NewGroup
    <3> QED BY <1>6, <3>1, <3>2 DEF CreateServerGroup
  <2> QED BY <2>1, <2>2, <2>3, TypeParts
<1>7. CASE CreateServer
  <2>1. WorkerType'
    BY <1>t, <1>7, EndPassType, GoToType, RestartType DEF CreateServer
  <2>2. CountersType'
    BY <1>t, <1>7, CountersStep DEF CreateServer
  <2>3. WorldType'
    <3>1. server' \in [Machines -> Groups \cup {None, "absent"}]
      BY <1>t, <1>7 DEF CreateServer, WorldType, WorkerType
    <3> QED BY <1>t, <1>7, <3>1 DEF CreateServer, WorldType, groups
  <2> QED BY <2>1, <2>2, <2>3, TypeParts
<1>8. CASE ReconcileFloatingIP
  <2>1. WorkerType'
    BY <1>t, <1>8, EndPassType, GoToType, RestartType DEF ReconcileFloatingIP
  <2>2. CountersType'
    BY <1>t, <1>8, CountersStep DEF ReconcileFloatingIP
  <2>3. WorldType'
    BY <1>t, <1>8 DEF ReconcileFloatingIP, WorldType, machines, groups
  <2> QED BY <2>1, <2>2, <2>3, TypeParts
<1>9. CASE Patch
  <2>1. WorkerType'
    BY <1>t, <1>9, EndPassType DEF Patch
  <2>2. CountersType'
    BY <1>t, <1>9, CountersStep DEF Patch
  <2>3. WorldType'
    BY <1>t, <1>9 DEF Patch, WorldType, groups
  <2> QED BY <2>1, <2>2, <2>3, TypeParts
<1>10. CASE Crash
  <2>1. WorkerType'
    BY <1>10, RestartType DEF Crash
  <2>2. CountersType'
    BY <1>t, <1>10, CountersStep DEF Crash
  <2>3. WorldType'
    BY <1>t, <1>10 DEF Crash, WorldType, machines, groups
  <2> QED BY <2>1, <2>2, <2>3, TypeParts
<1>11. CASE EditSecret
  BY <1>11 DEF EditSecret, TypeOK, Outside, machines, groups, worker
<1>12. CASE OthersGroup
  <2>1. name' \in [Groups -> Names \cup {None}] /\ deleted' \subseteq Groups
    BY <1>t, <1>12 DEF OthersGroup, NewGroup, Existing, WorldType
  <2> QED BY <1>12, <2>1 DEF OthersGroup, TypeOK, Outside, machines, worker
<1>13. CASE AttachFloatingIP
  BY <1>13 DEF AttachFloatingIP, TypeOK, groups, worker
<1>14. CASE UNCHANGED vars
  BY <1>14 DEF TypeOK, vars, machines, groups, worker
<1> QED
  BY <1>1, <1>2, <1>3, <1>4, <1>5, <1>6, <1>7, <1>8, <1>9, <1>10, <1>11, <1>12, <1>13, <1>14
     DEF Next, Step, Others

(* TypeOK holds in every reachable state. *)
THEOREM TypeCorrect == Spec => []TypeOK
BY InitType, TypeStep, PTL DEF Spec

(* The inductive invariant.  Groups that the manager counts as its own or has put a
   server into have been created. *)
GroupsCreated ==
  /\ \A g \in ours : name[g] # None
  /\ \A m \in Machines : server[m] \in Groups => name[server[m]] # None

(* What validateMachine has shown of the Machine at hand, as long as the worker
   relies on it. *)
Validated ==
  pc \in {"convert", "listGroups", "createGroup", "createServer"} =>
    LET sp == spec[cur] IN
    /\ sp.valid
    /\ sp.groupID # None => name[sp.groupID] # None /\ sp.groupName \in {None, name[sp.groupID]}

(* What the conversion has shown. *)
Converted ==
  /\ pc \in {"listGroups", "createGroup", "createServer"} => spec[cur].devices
  /\ pc \in {"listGroups", "createGroup"} => spec[cur].groupID = None /\ spec[cur].groupName # None

(* What the list of the groups has shown: no group of ours and no group with a
   server of ours has the name, and none gets it until the worker creates one. *)
Listed ==
  pc = "createGroup" =>
    LET n == spec[cur].groupName IN
    /\ \A g \in ours \cap Existing : name[g] # n
    /\ \A m \in Machines : server[m] \in Existing => name[server[m]] # n

(* The group that the server will be created in. *)
Chosen ==
  pc = "createServer" =>
    LET sp == spec[cur] IN
    /\ sp.groupID # None => target = sp.groupID
    /\ sp.groupID = None /\ sp.groupName # None =>
         /\ target # None /\ name[target] = sp.groupName
         /\ \A m \in Machines :
              server[m] \in Existing /\ name[server[m]] = sp.groupName => server[m] = target
    /\ sp.groupID = None /\ sp.groupName = None => target = None

(* What holds of servers and groups, and what the worker knows of them. *)
Placed == GroupsCreated /\ GroupAsSpecified /\ OwnGroupsUnique /\ SameGroup
Known == Validated /\ Converted /\ Listed /\ Chosen
GroupInv == Placed /\ Known

(* The worker patches only what has its floating IP. *)
FloatingInv ==
  /\ pc = "patch" => (spec[cur].floatingIP => cur \in attached)
  /\ ProvisionedHasFloatingIP

(* Steps that leave specs, servers and groups alone. *)
Steady == UNCHANGED <<spec, server, name, deleted, ours>>

LEMMA PlacedSteady == Placed /\ Steady => Placed'
BY DEF Placed, Steady, GroupsCreated, GroupAsSpecified, OwnGroupsUnique, SameGroup, Existing

LEMMA KnownSteady == Known /\ Steady /\ UNCHANGED <<pc, cur, target>> => Known'
BY DEF Known, Steady, Validated, Converted, Listed, Chosen, Existing

(* Elsewhere in a pass the worker relies on nothing. *)
LEMMA KnownVacuous == pc' \in {"idle", "validate", "floatingIP", "patch"} => Known'
BY DEF Known, Validated, Converted, Listed, Chosen

LEMMA PassOver ==
  /\ Restart => pc' = "idle"
  /\ Retry => pc' = "idle"
  /\ EndPass(FALSE) => pc' = "idle"
BY DEF Restart, Retry, EndPass

LEMMA InitGroup == Init => GroupInv
BY DEF Init, GroupInv, Placed, Known, GroupsCreated, GroupAsSpecified, OwnGroupsUnique, SameGroup,
       Existing, Validated, Converted, Listed, Chosen

LEMMA ValidateKnown == TypeOK /\ Validate => Known'
<1> SUFFICES ASSUME TypeOK, Validate PROVE Known'
  OBVIOUS
<1>1. CASE pc' = "convert"
  <2>1. spec[cur].valid /\ GroupChecksOut(spec[cur]) /\ UNCHANGED <<spec, cur, name>>
    BY <1>1, PassOver DEF Validate, GoTo, groups
  <2> QED BY <1>1, <2>1
          DEF Known, Validated, Converted, Listed, Chosen, GroupChecksOut, Existing
<1>2. CASE pc' # "convert"
  BY <1>2, PassOver, KnownVacuous DEF Validate, GoTo
<1> QED BY <1>1, <1>2

LEMMA ConvertKnown == TypeOK /\ Known /\ Convert => Known'
<1> SUFFICES ASSUME TypeOK, Known, Convert PROVE Known'
  OBVIOUS
<1>0. UNCHANGED <<spec, name>> /\ cur \in Machines /\ Validated /\ pc = "convert"
  BY DEF Convert, groups, TypeOK, Known
<1>1. CASE pc' = "listGroups"
  <2>1. /\ spec[cur].devices /\ spec[cur].groupID = None /\ spec[cur].groupName # None
        /\ UNCHANGED cur
    BY <1>1, PassOver DEF Convert, GoTo
  <2> QED BY <1>0, <1>1, <2>1 DEF Known, Validated, Converted, Listed, Chosen
<1>2. CASE pc' = "createServer"
  <2>1. /\ spec[cur].devices /\ ~ (spec[cur].groupID = None /\ spec[cur].groupName # None)
        /\ target' = spec[cur].groupID /\ UNCHANGED cur
    BY <1>2, PassOver DEF Convert, GoTo
  <2> QED BY <1>0, <1>2, <2>1 DEF Known, Validated, Converted, Listed, Chosen
<1>3. CASE pc' \notin {"listGroups", "createServer"}
  BY <1>3, PassOver, KnownVacuous DEF Convert, GoTo
<1> QED BY <1>1, <1>2, <1>3

(* One group was found: every server in a group of that name is in it. *)
LEMMA ListGroupsKnown == TypeOK /\ Known /\ ListGroups => Known'
<1> SUFFICES ASSUME TypeOK, Known, ListGroups PROVE Known'
  OBVIOUS
<1> DEFINE found == GetServerGroupsByName(spec[cur].groupName)
<1>0. /\ UNCHANGED <<spec, name, server, deleted, ours>> /\ cur \in Machines
      /\ Validated /\ Converted /\ pc = "listGroups"
  BY DEF ListGroups, groups, machines, TypeOK, Known
<1>1. CASE pc' = "createGroup"
  <2>1. found = {} /\ UNCHANGED cur
    BY <1>1, PassOver DEF ListGroups, GoTo
  <2> QED BY <1>0, <1>1, <2>1
          DEF Known, Validated, Converted, Listed, Chosen, GetServerGroupsByName, Existing
<1>2. CASE pc' = "createServer"
  <2>1. Cardinality(found) = 1 /\ target' \in found /\ UNCHANGED cur
    BY <1>2, PassOver DEF ListGroups, GoTo
  <2>2. \A g \in found : g = target'
    <3>1. found \subseteq Groups
      BY DEF GetServerGroupsByName, Existing
    <3> HIDE DEF found
    <3>2. IsFiniteSet(found)
      BY <3>1, FS_Subset
    <3> QED BY <2>1, <3>2, FS_Singleton
  <2> HIDE DEF found
  <2>3. target' \in Groups /\ name[target'] = spec[cur].groupName
    BY <2>1 DEF found, GetServerGroupsByName, Existing
  <2>4. \A m \in Machines :
          server[m] \in Existing /\ name[server[m]] = spec[cur].groupName => server[m] = target'
    BY <2>2 DEF found, GetServerGroupsByName
  <2> QED BY <1>0, <1>2, <2>1, <2>3, <2>4
          DEF Known, Validated, Converted, Listed, Chosen, Existing
<1>3. CASE pc' \notin {"createGroup", "createServer"}
  BY <1>3, PassOver, KnownVacuous DEF ListGroups, GoTo
<1> QED BY <1>1, <1>2, <1>3

(* The new group is the only one of ours with its name, and no server is in it. *)
LEMMA CreateServerGroupKeeps == TypeOK /\ GroupInv /\ CreateServerGroup => GroupInv'
<1> SUFFICES ASSUME TypeOK, GroupInv, CreateServerGroup PROVE GroupInv'
  OBVIOUS
<1> USE DEF GroupInv
<1>0. /\ UNCHANGED <<spec, server>> /\ cur \in Machines /\ pc = "createGroup"
      /\ spec[cur] \in SpecType
  BY SpecFields, TypeParts DEF CreateServerGroup, machines, TypeOK
<1>1. CASE UNCHANGED groups
  <2>1. Steady
    BY <1>0, <1>1 DEF Steady, groups
  <2>2. spec[cur].groupName # None
    BY <1>0 DEF Known, Converted
  <2>3. ASSUME NEW g \in Groups, NewGroup(g, spec[cur].groupName) PROVE FALSE
    BY <1>1, <2>2, <2>3 DEF NewGroup, groups, TypeOK
  <2>4. pc' = "idle"
    BY <2>3, PassOver DEF CreateServerGroup
  <2> QED BY <2>1, <2>4, PlacedSteady, KnownVacuous
<1>2. ASSUME NEW g \in Groups, NewGroup(g, spec[cur].groupName), ours' = ours \cup {g},
             \/ pc' = "createServer" /\ target' = g /\ UNCHANGED cur
             \/ pc' = "idle"
      PROVE  GroupInv'
  <2> DEFINE n == spec[cur].groupName
  <2>1. /\ name[g] = None /\ name'[g] = n /\ n # None /\ spec[cur].groupID = None
        /\ UNCHANGED deleted /\ \A h \in Groups \ {g} : name'[h] = name[h]
    BY <1>0, <1>2 DEF NewGroup, TypeOK, Known, Converted
  <2>2. /\ g \notin Existing /\ g \notin ours /\ \A m \in Machines : server[m] # g
        /\ Existing' \subseteq Existing \cup {g}
    BY <1>2, <2>1 DEF Existing, Placed, GroupsCreated, TypeOK
  <2>3. /\ \A h \in ours \cap Existing : name[h] # n
        /\ \A m \in Machines : server[m] \in Existing => name[server[m]] # n
    BY <1>0 DEF Known, Listed
  <2> HIDE DEF n
  <2>4. GroupsCreated'
    BY <1>0, <1>2, <2>1, <2>2 DEF Placed, GroupsCreated, TypeOK
  <2>5. GroupAsSpecified'
    BY <1>0, <1>2, <2>1, <2>2 DEF Placed, GroupAsSpecified, TypeOK
  <2>6. OwnGroupsUnique'
    <3> SUFFICES ASSUME NEW h \in (ours \cap Existing)', NEW k \in (ours \cap Existing)',
                        name'[h] = name'[k]
                 PROVE  h = k
      BY DEF OwnGroupsUnique
    <3>1. h \in Groups /\ k \in Groups
      BY DEF Existing
    <3> QED BY <1>2, <2>1, <2>2, <2>3, <3>1 DEF Placed, OwnGroupsUnique
  <2>7. SameGroup'
    BY <1>0, <2>2 DEF Placed, SameGroup
  <2>8. Known'
    <3>1. CASE pc' = "idle"
      BY <3>1, KnownVacuous
    <3>2. CASE pc' = "createServer" /\ target' = g /\ UNCHANGED cur
      <4>1. Validated' /\ Converted' /\ Listed'
        BY <1>0, <2>1, <3>2 DEF Known, Validated, Converted, Listed
      <4>2. \A m \in Machines : server[m] \in Existing' => name'[server[m]] # n
        BY <2>1, <2>2, <2>3 DEF Existing
      <4>3. Chosen'
        BY <1>0, <1>2, <2>1, <3>2, <4>2 DEF Chosen, n
      <4> QED BY <4>1, <4>3 DEF Known
    <3> QED BY <1>2, <3>1, <3>2
  <2> QED BY <2>4, <2>5, <2>6, <2>7, <2>8 DEF Placed
<1> QED BY <1>1, <1>2, PassOver DEF CreateServerGroup

(* The server is created in the group that the Machine asks for, and where other
   servers are that share its name. *)
LEMMA CreateServerPlaced == TypeOK /\ GroupInv /\ CreateServer => Placed'
<1> SUFFICES ASSUME TypeOK, GroupInv, CreateServer PROVE Placed'
  OBVIOUS
<1> USE DEF GroupInv
<1>0. /\ UNCHANGED <<spec, name, deleted, ours>> /\ cur \in Machines /\ pc = "createServer"
      /\ spec[cur].groupID \in Groups \cup {None} /\ spec[cur].groupName \in Names \cup {None}
      /\ UNCHANGED Existing
  BY SpecFields, TypeParts DEF CreateServer, groups, TypeOK, Existing
<1>1. CASE UNCHANGED server
  BY <1>0, <1>1, PlacedSteady DEF Steady
<1>2. CASE target \in {None} \cup Existing /\ server' = [server EXCEPT ![cur] = target]
  <2>1. /\ server'[cur] = target /\ target # "absent"
        /\ \A m \in Machines \ {cur} : server'[m] = server[m]
    BY <1>0, <1>2 DEF TypeOK, Existing
  <2>2. Validated /\ Chosen
    BY DEF Known
  <2>3. /\ (spec[cur].groupID = None /\ spec[cur].groupName = None) = (target = None)
        /\ spec[cur].groupID \in {None, target}
        /\ target = None \/ spec[cur].groupName \in {None, name[target]}
    BY <1>0, <2>2 DEF Validated, Chosen
  <2>4. GroupsCreated'
    BY <1>0, <1>2, <2>1 DEF Placed, GroupsCreated, Existing
  <2>5. GroupAsSpecified'
    BY <1>0, <2>1, <2>3 DEF Placed, GroupAsSpecified
  <2>6. OwnGroupsUnique'
    BY <1>0 DEF Placed, OwnGroupsUnique
  <2>7. ASSUME NEW k \in Machines \ {cur}, server[k] \in Existing, target \in Existing,
               spec[k].groupName = spec[cur].groupName,
               spec[k].groupID = None, spec[cur].groupID = None
        PROVE  server[k] = target
    <3>1. target # None /\ server[k] # None /\ server[k] # "absent"
      BY <2>7 DEF Existing
    <3>2. name[server[k]] = spec[cur].groupName /\ spec[cur].groupName # None
      BY <2>3, <2>7, <3>1 DEF Placed, GroupAsSpecified
    <3> QED BY <1>0, <2>2, <2>7, <3>2 DEF Chosen
  <2>8. SameGroup'
    <3> SUFFICES ASSUME NEW m \in Machines, NEW k \in Machines,
                        server'[m] \in Existing, server'[k] \in Existing,
                        spec[m].groupName = spec[k].groupName,
                        spec[m].groupID = None, spec[k].groupID = None
                 PROVE  server'[m] = server'[k]
      BY <1>0 DEF SameGroup
    <3>1. CASE m # cur /\ k # cur
      BY <2>1, <3>1 DEF Placed, SameGroup
    <3>2. CASE m = cur \/ k = cur
      BY <2>1, <2>7, <3>2
    <3> QED BY <3>1, <3>2
  <2> QED BY <2>4, <2>5, <2>6, <2>8 DEF Placed
<1> QED BY <1>1, <1>2 DEF CreateServer

(* Others create groups without servers of ours in them, and delete groups. *)
LEMMA OthersGroupKeeps == TypeOK /\ GroupInv /\ OthersGroup => GroupInv'
<1> SUFFICES ASSUME TypeOK, GroupInv, OthersGroup PROVE GroupInv'
  OBVIOUS
<1> USE DEF GroupInv
<1>0. /\ UNCHANGED <<spec, server, ours, pc, cur, target>>
      /\ pc # "idle" => spec[cur] \in SpecType
  BY SpecFields, TypeParts DEF OthersGroup, machines, worker, TypeOK
<1>1. /\ \A h \in Groups : name[h] # None => name'[h] = name[h]
      /\ \A h \in Existing' : h \in Existing \/ name[h] = None
      /\ Existing' \subseteq Groups
  BY DEF OthersGroup, NewGroup, Existing, TypeOK
<1>2. /\ \A h \in ours : name'[h] = name[h] /\ (h \in Existing' => h \in Existing)
      /\ \A m \in Machines : server[m] \in Groups =>
           name'[server[m]] = name[server[m]] /\ (server[m] \in Existing' => server[m] \in Existing)
  BY <1>1 DEF Placed, GroupsCreated, TypeOK
<1>3. GroupsCreated'
  BY <1>0, <1>2 DEF Placed, GroupsCreated, TypeOK
<1>4. GroupAsSpecified'
  BY <1>0, <1>2 DEF Placed, GroupAsSpecified, TypeOK
<1>5. OwnGroupsUnique'
  BY <1>0, <1>2 DEF Placed, OwnGroupsUnique
<1>6. SameGroup'
  BY <1>0, <1>1, <1>2 DEF Placed, SameGroup
<1>7. Validated' /\ Converted'
  BY <1>0, <1>1 DEF Known, Validated, Converted, SpecType
<1>8. Listed'
  BY <1>0, <1>1, <1>2 DEF Known, Listed
<1>9. Chosen'
  BY <1>0, <1>1, <1>2 DEF Known, Chosen, TypeOK
<1> QED BY <1>3, <1>4, <1>5, <1>6, <1>7, <1>8, <1>9 DEF Placed, Known

LEMMA GroupStep == TypeOK /\ GroupInv /\ [Next]_vars => GroupInv'
<1> SUFFICES ASSUME TypeOK, GroupInv, [Next]_vars PROVE GroupInv'
  OBVIOUS
<1> USE DEF GroupInv, Steady
<1>1. ASSUME NEW m \in Machines, Due(m) PROVE GroupInv'
  BY <1>1, PlacedSteady, KnownSteady DEF Due, machines, groups
<1>2. CASE Take
  BY <1>2, PlacedSteady, KnownVacuous DEF Take, machines, groups
<1>3. CASE Validate
  BY <1>3, PlacedSteady, ValidateKnown DEF Validate, groups
<1>4. CASE Convert
  BY <1>4, PlacedSteady, ConvertKnown DEF Convert, machines, groups
<1>5. CASE ListGroups
  BY <1>5, PlacedSteady, ListGroupsKnown DEF ListGroups, machines, groups
<1>6. CASE CreateServerGroup
  BY <1>6, CreateServerGroupKeeps
<1>7. CASE CreateServer
  BY <1>7, CreateServerPlaced, KnownVacuous, PassOver DEF CreateServer, GoTo
<1>8. CASE ReconcileFloatingIP
  BY <1>8, PlacedSteady, KnownVacuous, PassOver DEF ReconcileFloatingIP, GoTo, machines, groups
<1>9. CASE Patch
  BY <1>9, PlacedSteady, KnownVacuous, PassOver DEF Patch, groups
<1>10. CASE Crash
  BY <1>10, PlacedSteady, KnownVacuous, PassOver DEF Crash, machines, groups
<1>11. CASE EditSecret
  BY <1>11, PlacedSteady, KnownSteady DEF EditSecret, machines, groups, worker
<1>12. CASE OthersGroup
  BY <1>12, OthersGroupKeeps
<1>13. CASE AttachFloatingIP
  BY <1>13, PlacedSteady, KnownSteady DEF AttachFloatingIP, groups, worker
<1>14. CASE UNCHANGED vars
  BY <1>14, PlacedSteady, KnownSteady DEF vars, machines, groups, worker
<1> QED
  BY <1>1, <1>2, <1>3, <1>4, <1>5, <1>6, <1>7, <1>8, <1>9, <1>10, <1>11, <1>12, <1>13, <1>14
     DEF Next, Step, Others

LEMMA GroupInvariant == Spec => [](TypeOK /\ GroupInv)
BY InitType, TypeStep, InitGroup, GroupStep, PTL DEF Spec

(* Machines that name the same server group are never spread by two groups that
   exist side by side, whatever others do between validation, lookup and creation. *)
THEOREM GroupsShared == Spec => []SameGroup
<1>1. GroupInv => SameGroup
  BY DEF GroupInv, Placed
<1> QED BY <1>1, GroupInvariant, PTL

(* The manager never has two groups of one name of its own, whatever answers are
   lost and whenever the process ends. *)
THEOREM OwnGroupsStayUnique == Spec => []OwnGroupsUnique
<1>1. GroupInv => OwnGroupsUnique
  BY DEF GroupInv, Placed
<1> QED BY <1>1, GroupInvariant, PTL

(* A server is in the group that its Machine's UUID and name both refer to. *)
THEOREM GroupsRespectSpecs == Spec => []GroupAsSpecified
<1>1. GroupInv => GroupAsSpecified
  BY DEF GroupInv, Placed
<1> QED BY <1>1, GroupInvariant, PTL

(* Nothing is created for a Machine whose provider spec is refused. *)
THEOREM BadSpecsCreateNothing == Spec => NothingForBadSpecs
<1>1. TypeOK /\ GroupInv /\ [Next]_vars =>
        [ours' # ours \/ server' # server => spec[cur].valid /\ spec[cur].devices]_vars
  <2> SUFFICES ASSUME TypeOK, GroupInv, Next, ours' # ours \/ server' # server
               PROVE  spec[cur].valid /\ spec[cur].devices
    OBVIOUS
  <2>1. CreateServerGroup \/ CreateServer
    BY DEF Next, Step, Others, Due, Take, Validate, Convert, ListGroups, ReconcileFloatingIP, Patch,
           Crash, EditSecret, OthersGroup, AttachFloatingIP, machines, groups
  <2>2. pc \in {"createGroup", "createServer"}
    BY <2>1 DEF CreateServerGroup, CreateServer
  <2> QED BY <2>2 DEF GroupInv, Known, Validated, Converted
<1> QED BY <1>1, GroupInvariant, PTL DEF Spec, NothingForBadSpecs

LEMMA FloatingStep == TypeOK /\ FloatingInv /\ [Next]_vars => FloatingInv'
<1> SUFFICES ASSUME TypeOK, FloatingInv, [Next]_vars PROVE FloatingInv'
  OBVIOUS
<1>0. UNCHANGED spec /\ attached \subseteq attached'
  BY DEF Next, Step, Others, Due, Take, Validate, Convert, ListGroups, CreateServerGroup,
         CreateServer, ReconcileFloatingIP, Patch, Crash, EditSecret, OthersGroup,
         AttachFloatingIP, machines, vars
<1>1. CASE UNCHANGED <<phase, pc, cur>>
  BY <1>0, <1>1 DEF FloatingInv, ProvisionedHasFloatingIP
<1>2. CASE UNCHANGED phase /\ pc' # "patch"
  BY <1>0, <1>2 DEF FloatingInv, ProvisionedHasFloatingIP
<1>3. CASE Validate
  <2>1. pc' # "patch" /\ \A m \in Machines : phase'[m] = "Provisioned" => phase[m] = "Provisioned"
    BY <1>3, PassOver DEF Validate, GoTo, TypeOK
  <2> QED BY <1>0, <2>1 DEF FloatingInv, ProvisionedHasFloatingIP
<1>4. CASE Patch
  <2>1. /\ pc = "patch" /\ pc' # "patch"
        /\ \A m \in Machines \ {cur} : phase'[m] = "Provisioned" => phase[m] = "Provisioned"
    BY <1>4, PassOver DEF Patch, TypeOK
  <2> QED BY <1>0, <2>1 DEF FloatingInv, ProvisionedHasFloatingIP
<1>5. CASE ReconcileFloatingIP
  BY <1>0, <1>2, <1>5, PassOver
     DEF ReconcileFloatingIP, GoTo, machines, FloatingInv, ProvisionedHasFloatingIP
<1>6. CASE Take
  BY <1>2, <1>6 DEF Take, machines
<1>7. CASE Convert \/ ListGroups \/ CreateServerGroup \/ CreateServer \/ Crash
  <2>1. UNCHANGED phase /\ pc' # "patch"
    BY <1>7, PassOver DEF Convert, ListGroups, CreateServerGroup, CreateServer, Crash, GoTo, machines
  <2> QED BY <1>2, <2>1
<1>8. CASE (\E m \in Machines : Due(m)) \/ EditSecret \/ OthersGroup \/ AttachFloatingIP
  BY <1>1, <1>8 DEF Due, EditSecret, OthersGroup, AttachFloatingIP, machines, worker
<1>9. CASE UNCHANGED vars
  BY <1>1, <1>9 DEF vars, machines, worker
<1> QED BY <1>3, <1>4, <1>5, <1>6, <1>7, <1>8, <1>9 DEF Next, Step, Others

(* A Machine is Provisioned only with the floating IP that it asks for. *)
THEOREM FloatingIPFirst == Spec => []ProvisionedHasFloatingIP
<1>1. Init => FloatingInv
  BY DEF Init, FloatingInv, ProvisionedHasFloatingIP
<1>2. FloatingInv => ProvisionedHasFloatingIP
  BY DEF FloatingInv
<1> QED BY <1>1, <1>2, FloatingStep, TypeCorrect, PTL DEF Spec

=============================================================================
