------------------------- MODULE MachineStatusProofs -------------------------
(***************************************************************************)
(* The last layers over IndInv, DeletionInv and ServersInv of the modules  *)
(* before: StatusInv, what the phases of a Machine and of its copies say   *)
(* about the servers; LostInv, which older copies can still be acted on    *)
(* once the Machine has been given a server; NodeInv, what the worker      *)
(* knows about the Node when it removes the finalizer; and RecreateInv,    *)
(* what keeps a deleted server from being created again.                   *)
(***************************************************************************)
EXTENDS MachineLifeProofs

(* Every version of the Machine that a pass can start from has a phase, if only "". *)
Underway == cached.phase # "nil" /\ api.phase # "nil" /\ \A w \in watch : w.phase # "nil"

(* What the fields of one version of the Machine say of each other. *)
ObjectOK(o) ==
  /\ o.nodeRef => o.addresses
  /\ o.addresses => o.providerID # None
  /\ o.providerID # None => o.phase # "nil"

ObjectsOK == ObjectOK(api) /\ ObjectOK(cached) /\ ObjectOK(m) /\ \A w \in watch : ObjectOK(w)

(* The worker looks for a server or waits for one. *)
Searching == {"exists", "missing", "validate", "createServer", "awaitActive", "setProviderID"}

(* What the worker knows: it looks for servers of Machines that have not Failed; it has
   found one for a Machine whose status it reports; it creates one only once the phase is set. *)
StatusKnown ==
  /\ pc \in Searching => m.phase # "Failed"
  /\ pc \in {"patchLabels", "patchStatus", "updated"} =>
       api.phase # "Failed" /\ api.providerID # None
  /\ pc = "awaitActive" => m.providerID = None
  /\ pc = "setProviderID" /\ m.providerID # None => api.phase # "Failed"
  /\ pc \in {"fetched", "missing"} /\ m.phase # "nil" => Underway
  /\ pc \in {"validate", "createServer"} => Underway /\ m.phase # "nil"
  /\ pc = "exists" => Requested
  /\ pc = "failMissing" => m.providerID # None
  /\ pc \in {"missing", "failMissing"} /\ m.providerID # None => servers[m.providerID] = "gone"

(* A server is requested when the phase has reached every copy. *)
Begun == Requested => Underway /\ (pc # "idle" => m.phase # "nil")

StatusInv == ObjectsOK /\ StatusKnown /\ Begun /\ MissingMeansGone

(* Everything proved so far, before and after a step. *)
Layers == IndInv /\ DeletionInv /\ ServersInv

LEMMA StepFacts ==
  ASSUME IndInv, [Next]_vars
  PROVE  ServersOnward /\ (api.providerID # None => api'.providerID = api.providerID)
  BY Onward, ProviderIDStep DEF IndInv

LEMMA SilentWrote == Silent => Wrote
  BY DEF Silent, Wrote

LEMMA NoMachineOK == ObjectOK(NoMachine)
  BY DEF ObjectOK, NoMachine

LEMMA ObjectsWrote ==
  ASSUME ObjectsOK, Wrote, ObjectOK(api'),
         m' = m \/ m' = cached \/ m' = api' \/ m' = NoMachine \/ ObjectOK(m')
  PROVE  ObjectsOK'
  BY NoMachineOK DEF ObjectsOK, Wrote

LEMMA UnderwayWrote ==
  ASSUME Underway, Wrote, api'.phase # "nil"
  PROVE  Underway'
  BY DEF Underway, Wrote

(* A write of fields that the object's consistency does not depend on. *)
LEMMA ObjectKeep ==
  ASSUME ObjectOK(api), api'.phase = api.phase, api'.providerID = api.providerID,
         api'.nodeRef => api'.addresses, api'.addresses => api.addresses \/ api.providerID # None
  PROVE  ObjectOK(api')
  BY DEF ObjectOK

(* Between passes, during a deletion and after a failure the worker relies on no status. *)
LEMMA KnownElsewhere ==
  ASSUME pc' \in {"idle", "invalid", "failInvalid", "reportError"} \union DeletePath
  PROVE  StatusKnown'
  BY DEF StatusKnown, Searching, DeletePath

LEMMA KnownOver == PassOver \/ Aborted => StatusKnown'
  BY KnownElsewhere DEF PassOver, Aborted

(* What the worker knows stays true when others act. *)
LEMMA KnownOthers ==
  ASSUME IndInv, StatusKnown, UNCHANGED <<pc, m>>, api'.phase = api.phase,
         api.providerID # None => api'.providerID # None, Underway => Underway', ServersOnward
  PROVE  StatusKnown'
  <1>1. m.providerID \in Servers \union {None}
    BY DEF IndInv, TypeOK, Machine
  <1>2. Requested => Requested'
    BY DEF Requested, ServersOnward
  <1> QED BY <1>1, <1>2 DEF StatusKnown, ServersOnward

(* Steps that keep phase and providerID. *)
LEMMA StatusKeep ==
  ASSUME IndInv, StatusInv, ServersOnward, Wrote, ObjectOK(api'),
         api'.phase = api.phase, api'.providerID = api.providerID,
         Requested' => Requested \/ pc = "createServer",
         m' = m \/ m' = api' \/ m' = NoMachine \/ Refreshed,
         pc' = "idle" \/ (pc # "idle" /\ m' = m) \/ m'.phase = api'.phase,
         StatusKnown'
  PROVE  StatusInv'
  <1>1. ObjectsOK'
    <2>1. ObjectOK(m) /\ (m.providerID # None => api.phase # "nil")
      BY DEF StatusInv, ObjectsOK, ObjectOK, IndInv, CopiesOK, IsCopy
    <2>2. Refreshed => ObjectOK(m')
      BY <2>1 DEF Refreshed, ObjectOK
    <2> QED BY <2>2, ObjectsWrote DEF StatusInv
  <1>2. Begun'
    <2>1. Requested' => Underway /\ (pc # "idle" => m.phase # "nil")
      BY DEF StatusInv, Begun, StatusKnown
    <2>2. Underway => Underway'
      BY UnderwayWrote DEF Underway
    <2> QED BY <2>1, <2>2 DEF Begun, Underway
  <1>3. api.providerID \in Servers \union {None}
    BY DEF IndInv, TypeOK, Machine
  <1>4. MissingMeansGone'
    BY <1>3 DEF StatusInv, MissingMeansGone, ServersOnward
  <1> QED BY <1>1, <1>2, <1>4 DEF StatusInv

(* The same when nothing is written. *)
LEMMA StatusSilent ==
  ASSUME IndInv, StatusInv, ServersOnward, Silent,
         Requested' => Requested \/ pc = "createServer",
         PassOver \/ (m' = m /\ (pc # "idle" \/ pc' = "idle")), StatusKnown'
  PROVE  StatusInv'
  <1>1. ObjectOK(api') /\ Wrote
    BY SilentWrote DEF Silent, StatusInv, ObjectsOK
  <1> QED BY <1>1, StatusKeep DEF Silent, PassOver

LEMMA SameRequested == KeepNova => (Requested' => Requested)
  BY DEF KeepNova, Requested

LEMMA StatusInit == Init => StatusInv
  <1> SUFFICES ASSUME Init PROVE StatusInv
    OBVIOUS
  <1>1. /\ cached = NoMachine /\ m = NoMachine /\ watch = {api} /\ pc = "idle"
        /\ api.phase = "nil" /\ api.providerID = None /\ ~ api.nodeRef /\ ~ api.addresses
    BY DEF Init, KubeInit, NewMachine, NoMachine
  <1>2. ObjectsOK
    BY <1>1, NoMachineOK DEF ObjectsOK, ObjectOK
  <1>3. ~ Requested
    BY DEF Init, NovaInit, Requested
  <1> QED BY <1>1, <1>2, <1>3 DEF StatusInv, StatusKnown, Searching, Begun, MissingMeansGone

LEMMA StatusActuator ==
  ASSUME Layers, StatusInv, [Next]_vars, ActuatorStep
  PROVE  StatusInv'
  <1>0. IndInv /\ DeletionInv /\ ServersInv /\ ServersOnward
    BY StepFacts DEF Layers
  <1>1. CASE ValidateMachine
    <2>1. Silent /\ KeepNova /\ pc = "validate"
      BY <1>1 DEF ValidateMachine, Silent, KeepNova, novaVars
    <2>2. Aborted \/ (m' = m /\ pc' \in {"createServer", "invalid"})
      BY <1>1, AbortOver DEF ValidateMachine, GoTo, frame
    <2>3. Underway => Underway'
      BY <2>1 DEF Silent, Underway
    <2>4. StatusKnown'
      BY <2>1, <2>2, <2>3, KnownOver DEF StatusInv, StatusKnown, Searching
    <2> QED BY <1>0, <2>1, <2>2, <2>4, StatusSilent, SameRequested DEF Aborted
  <1>2. CASE CreateServer
    <2>1. Silent /\ pc = "createServer"
      BY <1>2 DEF CreateServer, Silent
    <2>2. Aborted \/ (m' = m /\ pc' = "awaitActive")
      BY <1>2, AbortOver DEF CreateServer
    <2>3. m.providerID = None
      BY <1>0, <2>1 DEF ServersInv, ServersKnown
    <2>4. StatusKnown'
      BY <2>1, <2>2, <2>3, KnownOver DEF StatusInv, StatusKnown, Searching
    <2> QED BY <1>0, <2>1, <2>2, <2>4, StatusSilent DEF Aborted
  <1>3. CASE AwaitActive
    <2>1. Silent /\ KeepNova /\ pc = "awaitActive"
      BY <1>3 DEF AwaitActive, Silent, KeepNova, novaVars
    <2>2. Aborted \/ (m' = m /\ pc' = "setProviderID")
      BY <1>3, AbortOver DEF AwaitActive, GoTo, frame
    <2>3. StatusKnown'
      BY <2>1, <2>2, KnownOver DEF StatusInv, StatusKnown, Searching
    <2> QED BY <1>0, <2>1, <2>2, <2>3, StatusSilent, SameRequested DEF Aborted
  <1>4. CASE SetProviderID
    <2>0. pc = "setProviderID" /\ KeepNova
      BY <1>0, <1>4, SetProviderIDEffect
    <2>1. CASE Silent /\ Aborted
      BY <1>0, <2>0, <2>1, KnownOver, StatusSilent, SameRequested DEF Aborted
    <2>2. CASE Silent /\ m.providerID # None /\ pc' = "patchLabels" /\ m' = m
      <3>1. api.phase # "Failed" /\ api.providerID # None
        BY <1>0, <2>0, <2>2 DEF StatusInv, StatusKnown, IndInv, CopiesOK, IsCopy
      <3>2. StatusKnown'
        BY <2>2, <3>1 DEF StatusKnown, Searching, Silent
      <3> QED BY <1>0, <2>0, <2>2, <3>2, StatusSilent, SameRequested
    <2>3. CASE /\ m = api /\ Wrote /\ api'.providerID = st /\ KeepStatus /\ KeepNode
               /\ Aborted \/ (pc' = "patchLabels" /\ m' = api')
      <3>1. st \in Servers /\ st # None /\ Requested
        BY <1>0, <2>0, NoneAssumption DEF IndInv, WorkerOK, Requested
      <3>2. Underway /\ api.phase \notin {"Failed", "nil"}
        BY <2>0, <2>3, <3>1 DEF StatusInv, Begun, StatusKnown, Searching, Underway
      <3>3. ObjectOK(api')
        BY <2>3, <3>1, <3>2 DEF StatusInv, ObjectsOK, ObjectOK, KeepStatus, KeepNode
      <3>4. ObjectsOK'
        BY <2>3, <3>3, ObjectsWrote DEF StatusInv, Aborted, PassOver
      <3>5. Underway'
        BY <2>3, <3>2, UnderwayWrote DEF KeepStatus
      <3>6. StatusKnown'
        BY <2>3, <3>1, <3>2, KnownOver DEF StatusKnown, Searching, KeepStatus
      <3>7. Begun' /\ MissingMeansGone'
        BY <2>3, <3>2, <3>5 DEF Begun, MissingMeansGone, KeepStatus, Aborted, PassOver
      <3> QED BY <3>4, <3>6, <3>7 DEF StatusInv
    <2> QED BY <1>0, <1>4, <2>1, <2>2, <2>3, SetProviderIDEffect
  <1>5. CASE PatchLabels \/ PatchStatus
    <2>0. pc \in {"patchLabels", "patchStatus"} /\ KeepNova
      BY <1>0, <1>5, PatchLabelsEffect, PatchStatusEffect
    <2>1. CASE Silent /\ Aborted
      BY <1>0, <2>0, <2>1, KnownOver, StatusSilent, SameRequested DEF Aborted
    <2>2. CASE /\ Wrote /\ KeepMeta /\ KeepStatus /\ api'.nodeRef = api.nodeRef
               /\ api'.addresses = api.addresses \/ api'.addresses
               /\ \/ Aborted
                  \/ pc' \in {"patchStatus", "updated"} /\ m' = api'
      <3>1. api.phase # "Failed" /\ api.providerID # None
        BY <2>0 DEF StatusInv, StatusKnown
      <3>2. ObjectOK(api')
        BY <2>2, <3>1, ObjectKeep DEF StatusInv, ObjectsOK, ObjectOK, KeepMeta, KeepStatus
      <3>3. StatusKnown'
        BY <2>2, <3>1, KnownOver DEF StatusKnown, Searching, KeepMeta, KeepStatus
      <3> QED BY <1>0, <2>0, <2>2, <3>2, <3>3, StatusKeep, SameRequested
              DEF Aborted, PassOver, KeepMeta, KeepStatus
    <2> QED BY <1>0, <1>5, <2>1, <2>2, PatchLabelsEffect, PatchStatusEffect DEF KeepNode
  <1>6. CASE DeleteLookup \/ DeleteServer \/ AwaitDelete
    <2>1. Silent /\ pc \in {"delete", "deleteServer", "awaitDelete"}
      BY <1>6 DEF DeleteLookup, DeleteServer, AwaitDelete, Silent
    <2>2. PassOver \/ (m' = m /\ pc' \in {"deleteServer", "awaitDelete", "deleted"})
      BY <1>6, EndPassOver DEF DeleteLookup, DeleteServer, AwaitDelete, GoTo, frame
    <2>3. StatusKnown'
      BY <2>2, KnownElsewhere DEF PassOver, DeletePath
    <2>4. Requested' => Requested
      <3>1. servers \in [Servers -> ServerStates]
        BY <1>0 DEF IndInv, TypeOK
      <3>2. servers' = servers \/ (pc = "deleteServer" /\ Terminate(st))
        BY <1>6 DEF DeleteLookup, DeleteServer, AwaitDelete, novaVars
      <3>3. pc = "deleteServer" => Requested
        BY <1>0 DEF ServersInv, ServersKnown, Requested
      <3> QED BY <3>2, <3>3 DEF Requested
    <2> QED BY <1>0, <2>1, <2>2, <2>3, <2>4, StatusSilent
  <1> QED BY <1>1, <1>2, <1>3, <1>4, <1>5, <1>6 DEF ActuatorStep

(* updateStatus of a pass that ends with it. *)
LEMMA StatusFinish ==
  ASSUME IndInv, StatusInv, ServersOnward, KeepNova, PassOver, Wrote, KeepMeta, KeepNode,
         api.phase # "nil" => api'.phase # "nil",
         api'.phase = "Failed" /\ api.providerID # None => servers[api.providerID] = "gone"
  PROVE  StatusInv'
  <1>1. ObjectOK(api')
    BY DEF StatusInv, ObjectsOK, ObjectOK, KeepMeta, KeepNode
  <1>2. ObjectsOK'
    BY <1>1, ObjectsWrote DEF StatusInv, PassOver
  <1>3. StatusKnown'
    BY KnownOver
  <1>4. Underway => Underway'
    BY UnderwayWrote DEF Underway
  <1>5. Begun'
    BY <1>4, SameRequested DEF StatusInv, Begun, PassOver
  <1>6. MissingMeansGone'
    BY DEF MissingMeansGone, KeepMeta, KeepNova
  <1> QED BY <1>2, <1>3, <1>5, <1>6 DEF StatusInv

LEMMA StatusController ==
  ASSUME Layers, StatusInv, [Next]_vars, ControllerStep
  PROVE  StatusInv'
  <1>0. IndInv /\ DeletionInv /\ ServersInv /\ ServersOnward
    BY StepFacts DEF Layers
  <1>1. CASE Fetch
    <2>1. Silent /\ KeepNova /\ pc' = "fetched" /\ m' = cached
      BY <1>1 DEF Fetch, Silent, KeepNova, novaVars
    <2>2. ObjectsOK'
      BY <2>1, ObjectsWrote, SilentWrote DEF StatusInv, ObjectsOK, Silent
    <2>3. cached.phase # "nil" => Underway
      BY <1>0 DEF DeletionInv, InOrder, Later, Underway
    <2>4. Underway' = Underway /\ Requested' = Requested
      BY <2>1 DEF Silent, KeepNova, Underway, Requested
    <2>5. StatusKnown' /\ Begun'
      BY <2>1, <2>3, <2>4 DEF StatusInv, StatusKnown, Begun, Searching, Underway, Silent
    <2>6. MissingMeansGone'
      BY <2>1 DEF StatusInv, MissingMeansGone, Silent, KeepNova
    <2> QED BY <2>2, <2>5, <2>6 DEF StatusInv
  <1>2. CASE NotFound \/ StayFailed
    <2>1. Silent /\ KeepNova /\ PassOver
      BY <1>2, EndPassOver DEF NotFound, StayFailed, Silent, KeepNova, novaVars
    <2> QED BY <1>0, <2>1, KnownOver, StatusSilent, SameRequested
  <1>3. CASE AddFinalizer \/ RemoveFinalizer
    <2>1. /\ Wrote /\ KeepNova /\ PassOver /\ KeepStatus /\ KeepNode
          /\ api'.providerID = api.providerID
      BY <1>0, <1>3, AddFinalizerEffect, RemoveFinalizerEffect, SilentWrote
         DEF Silent, KeepStatus, KeepNode
    <2>2. ObjectOK(api')
      BY <2>1, ObjectKeep DEF StatusInv, ObjectsOK, ObjectOK, KeepStatus, KeepNode
    <2> QED BY <1>0, <2>1, <2>2, KnownOver, StatusKeep, SameRequested DEF PassOver, KeepStatus
  <1>4. CASE MarkDeleting
    <2>1. pc = "fetched" /\ m.deleting /\ KeepNova
      BY <1>0, <1>4, MarkDeletingEffect
    <2>2. CASE Silent /\ PassOver
      BY <1>0, <2>1, <2>2, KnownOver, StatusSilent, SameRequested
    <2>3. CASE /\ Wrote /\ KeepMeta /\ KeepNode
               /\ api'.phase = IF m.phase = "Deleting" THEN api.phase ELSE "Deleting"
               /\ PassOver \/ (pc' = "delete" /\ m' = api')
      <3>1. api'.phase = "Deleting"
        BY <1>0, <2>1, <2>3 DEF DeletionInv, InOrder, Later
      <3>2. ObjectOK(api')
        BY <2>3, <3>1 DEF StatusInv, ObjectsOK, ObjectOK, KeepMeta, KeepNode
      <3>3. ObjectsOK'
        BY <2>3, <3>2, ObjectsWrote DEF StatusInv, PassOver
      <3>4. StatusKnown'
        BY <2>3, KnownElsewhere DEF PassOver, DeletePath
      <3>5. Underway => Underway'
        BY <2>3, <3>1, UnderwayWrote
      <3>6. Begun'
        BY <2>1, <2>3, <3>1, <3>5, SameRequested DEF StatusInv, Begun, PassOver
      <3> QED BY <3>1, <3>3, <3>4, <3>6 DEF StatusInv, MissingMeansGone
    <2> QED BY <1>0, <1>4, <2>2, <2>3, MarkDeletingEffect
  <1>5. CASE CheckDeleted \/ DeleteNode
    <2>1. Silent /\ servers' = servers /\ pc \in {"deleted", "deleteNode"}
      BY <1>5 DEF CheckDeleted, DeleteNode, Silent, novaVars
    <2>2. PassOver \/ (m' = m /\ pc' \in {"deleteNode", "removeFinalizer"})
      BY <1>5, EndPassOver DEF CheckDeleted, DeleteNode, GoTo, frame
    <2>3. StatusKnown' /\ (Requested' => Requested)
      BY <2>1, <2>2, KnownElsewhere DEF PassOver, DeletePath, Requested
    <2> QED BY <1>0, <2>1, <2>2, <2>3, StatusSilent
  <1>6. CASE CheckExists
    <2>1. /\ Silent /\ KeepNova /\ m' = m /\ pc = "fetched" /\ m.phase # "Failed"
          /\ \/ pc' = "exists" /\ \E s \in Servers : LookupReturns(s)
             \/ pc' = "missing" /\ LookupReturns(None)
             \/ pc' = "reportError"
      BY <1>6 DEF CheckExists, Exists, Silent, KeepNova, novaVars, frame
    <2>2. Underway' = Underway /\ Requested' = Requested /\ servers' = servers
      BY <2>1 DEF Silent, KeepNova, Underway, Requested
    <2>3. ASSUME NEW s \in Servers, LookupReturns(s) PROVE Requested
      BY <1>0, <2>3, LookupSome DEF ServersInv, Requested, Visible
    <2>4. ASSUME LookupReturns(None), m.providerID # None PROVE servers[m.providerID] = "gone"
      <3>1. m.providerID \in Servers /\ ~ Visible(m.providerID)
        BY <1>0, <2>4 DEF LookupReturns, LookupAnswer, ByID, IndInv, TypeOK, Machine
      <3>2. servers[m.providerID] # "absent" /\ servers[m.providerID] \in ServerStates
        BY <1>0, <2>4, <3>1 DEF IndInv, TypeOK, CopiesOK, IsCopy, ProviderOK
      <3> QED BY <3>1, <3>2 DEF Visible, ServerStates
    <2>5. StatusKnown'
      BY <2>1, <2>2, <2>3, <2>4 DEF StatusInv, StatusKnown, Searching
    <2> QED BY <1>0, <2>1, <2>2, <2>5, StatusSilent
  <1>7. CASE Update \/ Create
    <2>1. /\ Silent /\ KeepNova /\ pc \in {"exists", "missing"}
          /\ pc = "missing" => m.phase # "nil"
      BY <1>7 DEF Update, Create, Reconcile, Deref, Silent, KeepNova, novaVars
    <2>2. \/ Aborted
          \/ m' = m /\ pc' = "setProviderID" /\ \E s \in Servers : LookupReturns(s)
          \/ m' = m /\ pc' = "validate"
      BY <1>7, AbortOver DEF Update, Create, Reconcile
    <2>3. Underway' = Underway
      BY <2>1 DEF Silent, Underway
    <2>4. StatusKnown'
      <3>1. CASE Aborted
        BY <3>1, KnownOver
      <3>2. CASE m' = m /\ pc' = "setProviderID" /\ \E s \in Servers : LookupReturns(s)
        <4>1. ASSUME m.providerID # None PROVE api.phase # "Failed"
          <5>1. api.providerID = m.providerID /\ Visible(m.providerID)
            BY <1>0, <3>2, <4>1, NoneAssumption
               DEF LookupReturns, LookupAnswer, ByID, IndInv, CopiesOK, IsCopy
          <5> QED BY <4>1, <5>1 DEF StatusInv, MissingMeansGone, Visible
        <4> QED BY <2>1, <3>2, <4>1 DEF StatusInv, StatusKnown, Searching, Silent
      <3>3. CASE m' = m /\ pc' = "validate"
        <4>1. Underway /\ m.phase # "nil"
          BY <2>1 DEF StatusInv, StatusKnown, Begun
        <4> QED BY <2>1, <2>3, <3>3, <4>1 DEF StatusInv, StatusKnown, Searching
      <3> QED BY <2>2, <3>1, <3>2, <3>3
    <2> QED BY <1>0, <2>1, <2>2, <2>4, StatusSilent, SameRequested DEF Aborted
  <1>s. Silent /\ PassOver /\ KeepNova => StatusInv'
    BY <1>0, KnownOver, StatusSilent, SameRequested
  <1>8. CASE MarkProvisioned \/ MarkProvisioning
    <2>1. pc \in {"updated", "missing"} /\ KeepNova
      BY <1>8 DEF MarkProvisioned, MarkProvisioning, KeepNova, novaVars
    <2>2. PICK phase \in {"Running", "Provisioned", "Provisioning"}, again \in BOOLEAN :
            FinishWithStatus(phase, "none", again)
      BY <1>8, Zenon DEF MarkProvisioned, MarkProvisioning
    <2>3. phase \in Phases /\ "none" \in Reasons
      BY <2>2 DEF Phases, Reasons
    <2>4. CASE /\ PassOver /\ Wrote /\ KeepMeta /\ KeepNode
               /\ api'.phase = IF m.phase = phase THEN api.phase ELSE phase
      <3>1. api'.phase = "Failed" => api.phase = "Failed"
        BY <2>2, <2>4
      <3>2. api'.phase = "Failed" /\ api.providerID # None => servers[api.providerID] = "gone"
        BY <3>1 DEF StatusInv, MissingMeansGone
      <3> QED BY <1>0, <2>1, <2>2, <2>4, <3>2, StatusFinish
    <2> QED BY <1>0, <1>s, <2>1, <2>2, <2>3, <2>4, FinishEffect
  <1>9. CASE ReportError
    <2>1. KeepNova /\ FinishWithStatus(Deref(m.phase), "none", TRUE)
      BY <1>9 DEF ReportError, KeepNova, novaVars
    <2>2. Deref(m.phase) \in Phases /\ "none" \in Reasons
      BY <1>0, DerefType DEF IndInv, TypeOK, Machine, Reasons
    <2>3. CASE /\ PassOver /\ Wrote /\ KeepMeta /\ KeepNode
               /\ api'.phase = IF m.phase = Deref(m.phase) THEN api.phase ELSE Deref(m.phase)
      <3>1. api'.phase = api.phase \/ api'.phase = ""
        BY <2>3 DEF Deref
      <3>2. api'.phase = "Failed" /\ api.providerID # None => servers[api.providerID] = "gone"
        BY <3>1 DEF StatusInv, MissingMeansGone
      <3> QED BY <1>0, <2>1, <2>3, <3>1, <3>2, StatusFinish
    <2> QED BY <1>0, <1>s, <2>1, <2>2, <2>3, FinishEffect
  <1>10. CASE MarkMissing \/ MarkInvalid
    <2>1. /\ KeepNova /\ pc # "idle"
          /\ \/ AnnotateFailed("failMissing") /\ pc = "missing" /\ IsProvisioned(m)
             \/ AnnotateFailed("failInvalid")
      BY <1>10 DEF MarkMissing, MarkInvalid, KeepNova, novaVars
    <2>2. pc = "missing" /\ IsProvisioned(m) => m.providerID # None /\ servers[m.providerID] = "gone"
      BY DEF StatusInv, StatusKnown, ObjectsOK, ObjectOK, IsProvisioned
    <2>3. \/ Silent /\ PassOver
          \/ /\ Wrote /\ KeepMeta /\ KeepStatus /\ KeepNode
             /\ \/ PassOver
                \/ pc' = "failMissing" /\ Refreshed /\ pc = "missing" /\ IsProvisioned(m)
                \/ pc' = "failInvalid" /\ Refreshed
      BY <1>0, <2>1, AnnotateEffect
    <2>4. CASE /\ Wrote /\ KeepMeta /\ KeepStatus /\ KeepNode
               /\ \/ PassOver
                  \/ pc' = "failMissing" /\ Refreshed /\ pc = "missing" /\ IsProvisioned(m)
                  \/ pc' = "failInvalid" /\ Refreshed
      <3>1. StatusKnown'
        BY <2>1, <2>2, <2>4, KnownElsewhere, KnownOver DEF StatusKnown, Searching, Refreshed, KeepNova
      <3>2. ObjectOK(api')
        BY <2>4, ObjectKeep DEF StatusInv, ObjectsOK, ObjectOK, KeepMeta, KeepStatus, KeepNode
      <3> QED BY <1>0, <2>1, <2>4, <3>1, <3>2, StatusKeep, SameRequested
              DEF PassOver, KeepMeta, KeepStatus, Refreshed
    <2> QED BY <1>s, <2>1, <2>3, <2>4
  <1>11. CASE MarkFailed
    <2>1. /\ pc \in {"failMissing", "failInvalid"} /\ KeepNova
          /\ \E reason \in Reasons : FinishWithStatus("Failed", reason, FALSE)
      BY <1>11 DEF MarkFailed, KeepNova, novaVars, Reasons
    <2>2. PICK reason \in Reasons : FinishWithStatus("Failed", reason, FALSE)
      BY <2>1
    <2>3. "Failed" \in Phases
      BY DEF Phases
    <2>4. api.providerID # None => servers[api.providerID] = "gone"
      <3>1. CASE pc = "failMissing"
        BY <1>0, <3>1 DEF StatusInv, StatusKnown, IndInv, CopiesOK, IsCopy
      <3>2. CASE pc = "failInvalid" /\ api.providerID # None
        <4>1. api.providerID \in Servers /\ NoneVisible
          BY <1>0, <3>2 DEF IndInv, TypeOK, Machine, ServersInv, ServersKnown
        <4> QED BY <1>0, <3>2, <4>1
                DEF NoneVisible, Visible, ServerStates, IndInv, TypeOK, ProviderOK
      <3> QED BY <2>1, <3>1, <3>2
    <2>5. CASE PassOver /\ Wrote /\ KeepMeta /\ KeepNode /\ api'.phase \in {api.phase, "Failed"}
      BY <1>0, <2>1, <2>4, <2>5, StatusFinish
    <2> QED BY <1>0, <1>s, <2>1, <2>2, <2>3, <2>5, FinishEffect
  <1> QED BY <1>1, <1>2, <1>3, <1>4, <1>5, <1>6, <1>7, <1>8, <1>9, <1>10, <1>11 DEF ControllerStep

LEMMA StatusOthers ==
  ASSUME Layers, StatusInv, [Next]_vars, ~ Worker
  PROVE  StatusInv'
  <1>0. /\ IndInv /\ DeletionInv /\ ServersInv /\ ServersOnward
        /\ api.providerID # None => api'.providerID = api.providerID
    BY StepFacts DEF Layers
  <1>1. CASE Drainer \/ User \/ Editor \/ HookOwner \/ NodeLink
    <2>1. /\ KeepWorker /\ KeepNova /\ Wrote /\ KeepStatus /\ api'.providerID = api.providerID
          /\ KeepNode \/ (api.addresses /\ api'.addresses = api.addresses)
      BY <1>0, <1>1, DrainerEffect, UserEffect, EditorEffect, HookOwnerEffect, NodeLinkEffect,
         SilentWrote DEF Silent, KeepMeta, KeepStatus, KeepNode
    <2>2. ObjectOK(api')
      BY <2>1, ObjectKeep DEF StatusInv, ObjectsOK, ObjectOK, KeepStatus, KeepNode
    <2>3. Underway => Underway'
      BY <2>1, UnderwayWrote DEF KeepStatus, Underway
    <2>4. StatusKnown'
      BY <1>0, <2>1, <2>3, KnownOthers DEF StatusInv, KeepWorker, KeepStatus
    <2> QED BY <1>0, <2>1, <2>2, <2>4, StatusKeep, SameRequested DEF KeepWorker, KeepStatus
  <1>2. CASE Informer
    <2>1. PICK v \in watch : cached' = v /\ watch' = watch \ {v}
      BY <1>2 DEF Informer, Deliver
    <2>2. KeepWorker /\ KeepNova /\ api' = api
      BY <1>2 DEF Informer, Deliver, KeepWorker, KeepNova, novaVars, frame
    <2>3. ObjectsOK' /\ (Underway => Underway') /\ (Requested' => Requested)
      BY <2>1, <2>2, SameRequested DEF StatusInv, ObjectsOK, Underway, KeepWorker
    <2>4. StatusKnown'
      BY <1>0, <2>2, <2>3, KnownOthers DEF StatusInv, KeepWorker
    <2>5. Begun' /\ MissingMeansGone'
      BY <2>2, <2>3 DEF StatusInv, Begun, MissingMeansGone, KeepWorker, KeepNova
    <2> QED BY <2>3, <2>4, <2>5 DEF StatusInv
  <1>3. CASE NovaWorks \/ Kubelet \/ Tamper \/ Finished \/ UNCHANGED vars
    <2>1. Calm /\ Silent /\ KeepWorker
      BY <1>0, <1>3, OthersCalm
    <2>2. (Requested' => Requested) /\ (Underway => Underway')
      BY <2>1 DEF Calm, Requested, Underway, Silent
    <2>3. StatusKnown'
      BY <1>0, <2>1, <2>2, KnownOthers DEF StatusInv, KeepWorker, Silent
    <2> QED BY <1>0, <2>1, <2>2, <2>3, StatusSilent DEF KeepWorker
  <1>4. CASE Crash \/ Panic
    <2>1. /\ UNCHANGED api /\ cached' = api /\ watch' = {} /\ m' = NoMachine /\ pc' = "idle"
          /\ KeepNova
      BY <1>4 DEF Crash, Panic, Restart, KeepNova, novaVars
    <2>2. ObjectsOK' /\ StatusKnown'
      BY <2>1, NoMachineOK, KnownElsewhere DEF StatusInv, ObjectsOK
    <2>3. Begun'
      BY <2>1, SameRequested DEF StatusInv, Begun, Underway
    <2>4. MissingMeansGone'
      BY <2>1 DEF StatusInv, MissingMeansGone, KeepNova
    <2> QED BY <2>2, <2>3, <2>4 DEF StatusInv
  <1> QED BY <1>1, <1>2, <1>3, <1>4 DEF Next

LEMMA StatusStep == Layers /\ StatusInv /\ [Next]_vars => StatusInv'
  BY StatusActuator, StatusController, StatusOthers DEF Worker

LEMMA StatusInvariant == Spec => [](Layers /\ StatusInv)
  <1>1. Spec => []Layers
    BY ServersInvariant, PTL DEF Layers
  <1> QED BY <1>1, StatusInit, StatusStep, PTL DEF Spec

(* A Machine that was given an instance and has Failed has lost it for good, although
   the verdict is written by a patch without a lock from a copy that may be outdated. *)
THEOREM MissingIsGone == Spec => []MissingMeansGone
  BY StatusInvariant, PTL DEF StatusInv

-----------------------------------------------------------------------------
(* The worker works on the copy that it has fetched. *)
Early == Searching \union {"fetched"}

(* What a step does to the phase, to the providerID and to the worker's copy. *)
LEMMA StepShape ==
  ASSUME IndInv, DeletionInv, [Next]_vars
  PROVE  /\ api.phase = "Deleting" => api'.phase = "Deleting"
         /\ api'.phase = api.phase \/ pc' = "idle" \/ m' = api'
         /\ \/ api'.providerID = api.providerID
            \/ /\ pc = "setProviderID" /\ m.providerID = None
               /\ api'.providerID = st /\ KeepNova
               /\ Aborted \/ m' = api'
         /\ Wrote \/ (Deliver /\ KeepWorker) \/ Restart
         /\ pc' \in DeletePath => pc \in DeletePath \/ api'.phase = "Deleting"
         /\ \/ pc' = "idle"
            \/ pc # "idle" /\ (m' = m \/ m' = api' \/ Refreshed)
            \/ InformerSynced /\ Silent /\ m' = cached
         /\ pc' \in Early => (m' = m /\ pc \in Early) \/ (m' = cached /\ Silent)
  <1>1. CASE Fetch
    BY <1>1, SilentWrote DEF Fetch, Silent, DeletePath
  <1>2. CASE NotFound \/ StayFailed \/ AddFinalizer \/ RemoveFinalizer
    BY <1>2, EndPassOver, AddFinalizerEffect, RemoveFinalizerEffect, SilentWrote
       DEF NotFound, StayFailed, Silent, PassOver, KeepStatus, DeletePath, Early, Searching
  <1>3. CASE MarkDeleting
    BY <1>3, MarkDeletingEffect, SilentWrote
       DEF Silent, PassOver, KeepMeta, DeletePath, DeletionInv, InOrder, Later, Early, Searching
  <1>4. CASE CheckDeleted \/ DeleteNode
    <2>1. pc \in DeletePath /\ Silent
      BY <1>4 DEF CheckDeleted, DeleteNode, DeletePath, Silent
    <2>2. PassOver \/ (pc # "idle" /\ m' = m /\ pc' \in {"deleteNode", "removeFinalizer"})
      BY <1>4, EndPassOver DEF CheckDeleted, DeleteNode, GoTo, frame
    <2> QED BY <2>1, <2>2, SilentWrote DEF Silent, PassOver, Early, Searching
  <1>5. CASE CheckExists \/ Update \/ Create
    <2>1. Silent /\ pc # "idle" /\ pc \in Early /\ (Aborted \/ (m' = m /\ pc' \notin DeletePath))
      BY <1>5, AbortOver
         DEF CheckExists, Update, Create, Reconcile, Silent, frame, DeletePath, Early, Searching
    <2> QED BY <2>1, SilentWrote DEF Silent, Aborted, PassOver, DeletePath, Early, Searching
  <1>6. CASE MarkProvisioned \/ ReportError \/ MarkProvisioning \/ MarkFailed
    <2>1. pc \in CreatePath
      BY <1>6 DEF MarkProvisioned, ReportError, MarkProvisioning, MarkFailed, CreatePath
    <2>2. /\ Deref(m.phase) \in Phases
          /\ {"Running", "Provisioned", "Provisioning", "Failed"} \subseteq Phases
      BY DerefType DEF IndInv, TypeOK, Machine, Phases
    <2>3. \E phase \in Phases, reason \in Reasons, again \in BOOLEAN :
            FinishWithStatus(phase, reason, again)
      BY <1>6, <2>2, Zenon
         DEF MarkProvisioned, ReportError, MarkProvisioning, MarkFailed, Reasons
    <2>4. PassOver /\ api'.providerID = api.providerID /\ Wrote
      BY <2>3, FinishEffect, SilentWrote DEF Silent, KeepMeta
    <2> QED BY <2>1, <2>4 DEF PassOver, DeletePath, DeletionInv, Creating, Early, Searching
  <1>7. CASE MarkMissing \/ MarkInvalid
    <2>1. PICK label \in {"failMissing", "failInvalid"} : AnnotateFailed(label) /\ pc # "idle"
      BY <1>7 DEF MarkMissing, MarkInvalid
    <2>2. /\ Wrote /\ KeepStatus /\ api'.providerID = api.providerID
          /\ PassOver \/ (pc' = label /\ Refreshed)
      BY <2>1, AnnotateEffect, SilentWrote DEF Silent, KeepMeta, KeepStatus
    <2> QED BY <2>1, <2>2 DEF PassOver, KeepStatus, DeletePath, Early, Searching
  <1>8. CASE ValidateMachine \/ CreateServer \/ AwaitActive
    <2>1. Silent /\ pc # "idle" /\ pc \in Early /\ (Aborted \/ (m' = m /\ pc' \notin DeletePath))
      BY <1>8, AbortOver
         DEF ValidateMachine, CreateServer, AwaitActive, GoTo, Silent, frame, DeletePath, Early, Searching
    <2> QED BY <2>1, SilentWrote DEF Silent, Aborted, PassOver, DeletePath, Early, Searching
  <1>9. CASE SetProviderID \/ PatchLabels \/ PatchStatus
    <2>1. /\ Wrote /\ KeepStatus /\ pc \notin {"idle", "fetched"}
          /\ Aborted \/ (pc' \in {"patchLabels", "patchStatus", "updated"} /\ m' \in {m, api'})
      BY <1>9, SetProviderIDEffect, PatchLabelsEffect, PatchStatusEffect, SilentWrote
         DEF Silent, KeepStatus
    <2>2. \/ api'.providerID = api.providerID
          \/ /\ pc = "setProviderID" /\ m.providerID = None
             /\ api'.providerID = st /\ KeepNova /\ (Aborted \/ m' = api')
      BY <1>9, SetProviderIDEffect, PatchLabelsEffect, PatchStatusEffect DEF Silent, KeepMeta
    <2> QED BY <2>1, <2>2 DEF Aborted, PassOver, KeepStatus, DeletePath, Early, Searching
  <1>10. CASE DeleteLookup \/ DeleteServer \/ AwaitDelete
    <2>1. /\ Silent /\ pc \in DeletePath /\ pc # "idle"
          /\ PassOver \/ (m' = m /\ pc' \in {"deleteServer", "awaitDelete", "deleted"})
      BY <1>10, EndPassOver DEF DeleteLookup, DeleteServer, AwaitDelete, GoTo, Silent, frame, DeletePath
    <2> QED BY <2>1, SilentWrote DEF Silent, PassOver, Early, Searching
  <1>11. CASE Drainer \/ User \/ Editor \/ HookOwner \/ NodeLink
    BY <1>11, DrainerEffect, UserEffect, EditorEffect, HookOwnerEffect, NodeLinkEffect, SilentWrote
       DEF Silent, KeepWorker, KeepMeta, KeepStatus
  <1>12. CASE Informer \/ NovaWorks \/ Kubelet \/ Tamper \/ Finished \/ UNCHANGED vars
    BY <1>12, SilentWrote
       DEF Informer, Deliver, NovaWorks, Kubelet, Tamper, Finished, vars, kubeVars, frame, Silent,
           KeepWorker
  <1>13. CASE Crash \/ Panic
    BY <1>13 DEF Crash, Panic, Restart, DeletePath, Early, Searching
  <1> QED BY <1>1, <1>2, <1>3, <1>4, <1>5, <1>6, <1>7, <1>8, <1>9, <1>10, <1>11, <1>12, <1>13
          DEF Next, Worker, ControllerStep, ActuatorStep

-----------------------------------------------------------------------------
(* When Failed is final.  updateStatus writes the phase of a pass over whatever is stored,
   so an older copy may revive a Machine that has Failed (FailedIsFinal).  It cannot once
   the Machine has been given a server: the providerID is written under the lock, hence
   from the version that the informer has, and that is the last version without one that a
   pass can start from.  If its phase is blank, no pass from it creates anything, so none
   makes the Machine Fail; if it is not, no pass from it starts provisioning again. *)

(* The informer's versions come one by one, and the worker's is no newer until it writes. *)
Versions ==
  /\ \A w \in watch : cached.rv < w.rv
  /\ \A v, w \in watch : v.rv = w.rv => v = w
  /\ pc \in Early => m.rv <= cached.rv

(* A pass from this version would set the phase Provisioning, or "". *)
Blank(o) == o.providerID = None /\ Deref(o.phase) = ""

(* Labels up to which the worker's copy is the one that it has fetched, unchanged. *)
FromCache == {"fetched", "exists", "missing", "validate", "invalid"}

(* What the worker knows of the versions that the next passes can start from. *)
GivenKnown ==
  /\ api.providerID # None => \A w \in watch : w.providerID # None
  /\ pc \in {"fetched", "exists", "missing", "failMissing"} /\ m.providerID # None =>
       cached.providerID # None
  /\ pc \in FromCache /\ api.providerID # None /\ m.providerID = None /\ cached.providerID = None =>
       cached.phase = m.phase
  /\ (pc = "validate" /\ via = "create") \/ pc = "invalid" => ~ Blank(m)
  /\ pc = "failInvalid" /\ api.providerID # None => ~ Blank(cached)

(* No pass under way or to come starts again on a Machine that has lost its server. *)
LostKnown ==
  api.phase = "Failed" /\ api.providerID # None =>
    /\ ~ Blank(cached)
    /\ pc \in Early \union {"invalid", "reportError"} => ~ Blank(m)

LostInv == Versions /\ GivenKnown /\ LostKnown

(* The step of LostIsFinal. *)
LostStays ==
  api.phase = "Failed" /\ api.providerID # None => api'.phase \in {"Failed", "Deleting"}

LEMMA VersionsStep ==
  ASSUME IndInv, DeletionInv, Versions, [Next]_vars
  PROVE  Versions'
  <1>1. /\ cached.rv \in Nat /\ m.rv \in Nat /\ api.rv \in Nat /\ cached.rv <= api.rv
        /\ \A w \in watch : w.rv \in Nat /\ w.rv <= api.rv
    BY DEF IndInv, TypeOK, CopiesOK, IsCopy, Machine
  <1>2. CASE Wrote
    <2>1. \A w \in watch' : w \in watch \/ (w = api' /\ w.rv = api.rv + 1)
      BY <1>2 DEF Wrote
    <2>2. cached' = cached
      BY <1>2 DEF Wrote
    <2>3. pc' \in Early => m'.rv <= cached.rv
      BY <1>1, StepShape DEF Versions
    <2> QED BY <1>1, <2>1, <2>2, <2>3 DEF Versions
  <1>3. CASE Deliver /\ KeepWorker
    <2>1. PICK v \in watch : /\ \A w \in watch : v.rv <= w.rv
                             /\ cached' = v /\ watch' = watch \ {v}
      BY <1>3 DEF Deliver
    <2>2. \A w \in watch' : v.rv < w.rv
      BY <1>1, <2>1 DEF Versions
    <2> QED BY <1>1, <1>3, <2>1, <2>2 DEF Versions, KeepWorker
  <1>4. CASE Restart
    BY <1>4 DEF Restart, Versions, Early, Searching
  <1> QED BY <1>2, <1>3, <1>4, StepShape

(* A pass is over. *)
LEMMA LostOver ==
  ASSUME LostInv, Wrote, PassOver, api'.providerID = api.providerID,
         api'.phase = "Failed" /\ api.providerID # None => api.phase = "Failed" \/ ~ Blank(cached)
  PROVE  GivenKnown' /\ LostKnown'
  BY DEF LostInv, GivenKnown, LostKnown, Wrote, PassOver, Blank, FromCache, Early, Searching

(* The worker goes on with the copy that it has, or another process writes. *)
LEMMA LostMoves ==
  ASSUME LostInv, Wrote, m' = m, api'.providerID = api.providerID, api'.phase = api.phase,
         pc' \in {"fetched", "exists", "missing"} => pc \in {"fetched", "exists", "missing"},
         pc' \in FromCache => pc \in FromCache,
         pc' \in Early \union {"invalid", "reportError"} =>
           pc \in Early \union {"invalid", "reportError"},
         (pc' = "validate" /\ via' = "create") \/ pc' = "invalid" => ~ Blank(m),
         pc' \in {"failMissing", "failInvalid"} => pc' = pc
  PROVE  GivenKnown' /\ LostKnown'
  <1>1. cached' = cached /\ (api.providerID # None => \A w \in watch' : w.providerID # None)
    BY DEF LostInv, GivenKnown, Wrote
  <1>2. GivenKnown'
    BY <1>1 DEF LostInv, GivenKnown, Blank
  <1>3. LostKnown'
    BY <1>1 DEF LostInv, LostKnown, Blank
  <1> QED BY <1>2, <1>3

LEMMA LostAborted ==
  ASSUME LostInv, Wrote, Aborted, pc \in Early, api'.providerID = api.providerID,
         api'.phase = api.phase
  PROVE  GivenKnown' /\ LostKnown'
  <1>1. CASE PassOver
    BY <1>1, LostOver
  <1>2. CASE pc' = "reportError" /\ m' = m
    BY <1>2, LostMoves DEF FromCache, Early, Searching
  <1> QED BY <1>1, <1>2 DEF Aborted

LEMMA LostActuator ==
  ASSUME Layers, StatusInv, LostInv, ActuatorStep
  PROVE  GivenKnown' /\ LostKnown' /\ LostStays
  <1>0. IndInv /\ DeletionInv /\ ServersInv
    BY DEF Layers
  <1>1. CASE ValidateMachine \/ CreateServer \/ AwaitActive
    <2>1. Silent /\ Wrote /\ pc \in {"validate", "createServer", "awaitActive"} /\ pc \in Early
      BY <1>1, SilentWrote DEF ValidateMachine, CreateServer, AwaitActive, Silent, Early, Searching
    <2>2. \/ Aborted
          \/ m' = m /\ pc' \in {"createServer", "awaitActive", "setProviderID"}
          \/ m' = m /\ pc' = "invalid" /\ pc = "validate" /\ via = "create"
      BY <1>1, AbortOver DEF ValidateMachine, CreateServer, AwaitActive, GoTo, frame
    <2>3. LostStays
      BY <2>1 DEF Silent, LostStays
    <2>4. CASE Aborted
      BY <2>1, <2>3, <2>4, LostAborted DEF Silent
    <2>5. CASE \/ m' = m /\ pc' \in {"createServer", "awaitActive", "setProviderID"}
               \/ m' = m /\ pc' = "invalid" /\ pc = "validate" /\ via = "create"
      <3>1. pc' = "invalid" => ~ Blank(m)
        BY <2>5 DEF LostInv, GivenKnown
      <3> QED BY <2>1, <2>3, <2>5, <3>1, LostMoves DEF Silent, FromCache, Early, Searching
    <2> QED BY <2>2, <2>4, <2>5
  <1>2. CASE SetProviderID
    <2>0. pc = "setProviderID" /\ pc \in Early
      BY <1>2 DEF SetProviderID, Early, Searching
    <2>1. CASE Silent /\ Aborted
      BY <2>0, <2>1, LostAborted, SilentWrote DEF Silent, LostStays
    <2>2. CASE Silent /\ pc' = "patchLabels" /\ m' = m
      BY <2>0, <2>2, LostMoves, SilentWrote DEF Silent, LostStays, FromCache, Early, Searching
    <2>3. CASE /\ m = api /\ Wrote /\ KeepStatus /\ m.providerID = None
               /\ Aborted \/ (pc' = "patchLabels" /\ m' = api')
      <3>1. watch = {}
        <4>1. \A w \in watch : w.rv \in Nat /\ w.rv <= api.rv /\ cached.rv \in Nat /\ api.rv \in Nat
          BY <1>0 DEF IndInv, TypeOK, CopiesOK, IsCopy, Machine
        <4> QED BY <2>0, <2>3, <4>1 DEF LostInv, Versions
      <3>2. api'.providerID # None => \A w \in watch' : w.providerID # None
        BY <2>3, <3>1 DEF Wrote
      <3>3. api.phase # "Failed"
        BY <2>0, <2>3 DEF StatusInv, StatusKnown, Searching
      <3> QED BY <2>3, <3>2, <3>3
              DEF GivenKnown, LostKnown, LostStays, KeepStatus, Aborted, PassOver, FromCache
    <2> QED BY <1>0, <1>2, <2>1, <2>2, <2>3, SetProviderIDEffect
  <1>3. CASE PatchLabels \/ PatchStatus
    <2>1. /\ Wrote /\ KeepStatus /\ api'.providerID = api.providerID
          /\ pc \in {"patchLabels", "patchStatus"}
          /\ Aborted \/ pc' \in {"patchStatus", "updated"}
      BY <1>0, <1>3, PatchLabelsEffect, PatchStatusEffect, SilentWrote DEF Silent, KeepMeta, KeepStatus
    <2>2. api.phase # "Failed"
      BY <2>1 DEF StatusInv, StatusKnown
    <2>3. pc' \in {"idle", "reportError", "patchStatus", "updated"}
      BY <2>1 DEF Aborted, PassOver
    <2>4. GivenKnown'
      BY <2>1, <2>3 DEF LostInv, GivenKnown, FromCache, Wrote
    <2> QED BY <2>1, <2>2, <2>4 DEF LostKnown, LostStays, KeepStatus
  <1>4. CASE DeleteLookup \/ DeleteServer \/ AwaitDelete
    <2>1. Silent /\ Wrote /\ pc \in {"delete", "deleteServer", "awaitDelete"}
      BY <1>4, SilentWrote DEF DeleteLookup, DeleteServer, AwaitDelete, Silent
    <2>2. PassOver \/ (m' = m /\ pc' \in {"deleteServer", "awaitDelete", "deleted"})
      BY <1>4, EndPassOver DEF DeleteLookup, DeleteServer, AwaitDelete, GoTo, frame
    <2> QED BY <2>1, <2>2, LostOver, LostMoves DEF Silent, LostStays, FromCache, Early, Searching
  <1> QED BY <1>1, <1>2, <1>3, <1>4 DEF ActuatorStep

LEMMA LostController ==
  ASSUME Layers, StatusInv, LostInv, ControllerStep
  PROVE  GivenKnown' /\ LostKnown' /\ LostStays
  <1>0. IndInv /\ DeletionInv /\ ServersInv
    BY DEF Layers
  <1>s. Silent /\ PassOver => GivenKnown' /\ LostKnown' /\ LostStays
    BY LostOver, SilentWrote DEF Silent, LostStays
  <1>1. CASE Fetch
    <2>1. Silent /\ pc' = "fetched" /\ m' = cached
      BY <1>1 DEF Fetch, Silent
    <2>2. GivenKnown' /\ LostKnown'
      BY <2>1 DEF LostInv, GivenKnown, LostKnown, Silent, Blank
    <2> QED BY <2>1, <2>2 DEF LostStays, Silent
  <1>2. CASE NotFound \/ StayFailed
    BY <1>2, <1>s, EndPassOver DEF NotFound, StayFailed, Silent
  <1>3. CASE AddFinalizer \/ RemoveFinalizer
    <2>1. Wrote /\ PassOver /\ KeepStatus /\ api'.providerID = api.providerID
      BY <1>0, <1>3, AddFinalizerEffect, RemoveFinalizerEffect, SilentWrote DEF Silent, KeepStatus
    <2> QED BY <2>1, LostOver DEF KeepStatus, LostStays
  <1>4. CASE MarkDeleting
    <2>1. CASE /\ Wrote /\ KeepMeta
               /\ api'.phase = IF m.phase = "Deleting" THEN api.phase ELSE "Deleting"
               /\ PassOver \/ (pc' = "delete" /\ m' = api')
      <3>1. api'.phase = "Deleting"
        BY <1>0, <2>1 DEF DeletionInv, InOrder, Later
      <3>2. GivenKnown'
        BY <2>1 DEF LostInv, GivenKnown, FromCache, Wrote, KeepMeta, PassOver
      <3> QED BY <3>1, <3>2 DEF LostKnown, LostStays
    <2> QED BY <1>0, <1>4, <1>s, <2>1, MarkDeletingEffect
  <1>5. CASE CheckDeleted \/ DeleteNode
    <2>1. Silent /\ Wrote /\ pc \in {"deleted", "deleteNode"}
      BY <1>5, SilentWrote DEF CheckDeleted, DeleteNode, Silent
    <2>2. PassOver \/ (m' = m /\ pc' \in {"deleteNode", "removeFinalizer"})
      BY <1>5, EndPassOver DEF CheckDeleted, DeleteNode, GoTo, frame
    <2> QED BY <1>s, <2>1, <2>2, LostMoves DEF Silent, LostStays, FromCache, Early, Searching
  <1>6. CASE CheckExists
    <2>1. /\ Silent /\ Wrote /\ m' = m /\ pc = "fetched"
          /\ pc' \in {"exists", "missing", "reportError"}
      BY <1>6, SilentWrote DEF CheckExists, Silent, frame
    <2> QED BY <2>1, LostMoves DEF Silent, LostStays, FromCache, Early, Searching
  <1>7. CASE Update \/ Create
    <2>1. Silent /\ Wrote /\ pc \in {"exists", "missing"} /\ pc \in Early
      BY <1>7, SilentWrote DEF Update, Create, Reconcile, Silent, Early, Searching
    <2>2. \/ Aborted
          \/ m' = m /\ pc' = "setProviderID"
          \/ m' = m /\ pc' = "validate" /\ (via' = "update" \/ Deref(m.phase) # "")
      BY <1>7, AbortOver DEF Update, Create, Reconcile
    <2>3. CASE Aborted
      BY <2>1, <2>3, LostAborted DEF Silent, LostStays
    <2>4. CASE m' = m /\ pc' = "setProviderID"
      BY <2>1, <2>4, LostMoves DEF Silent, LostStays, FromCache, Early, Searching
    <2>5. CASE m' = m /\ pc' = "validate" /\ (via' = "update" \/ Deref(m.phase) # "")
      BY <2>1, <2>5, LostMoves DEF Silent, LostStays, FromCache, Early, Searching, Blank
    <2> QED BY <2>2, <2>3, <2>4, <2>5
  <1>8. CASE MarkProvisioned
    <2>1. pc = "updated" /\ api.phase # "Failed"
      BY <1>8 DEF MarkProvisioned, StatusInv, StatusKnown
    <2>2. PICK phase \in {"Running", "Provisioned"}, again \in BOOLEAN :
            FinishWithStatus(phase, "none", again)
      BY <1>8, Zenon DEF MarkProvisioned
    <2>3. phase \in Phases /\ "none" \in Reasons
      BY <2>2 DEF Phases, Reasons
    <2>4. CASE PassOver /\ Wrote /\ KeepMeta /\ api'.phase \in {api.phase, phase}
      BY <2>1, <2>2, <2>4, LostOver DEF KeepMeta, LostStays
    <2> QED BY <1>0, <1>s, <2>2, <2>3, <2>4, FinishEffect
  <1>9. CASE ReportError
    <2>1. pc = "reportError" /\ FinishWithStatus(Deref(m.phase), "none", TRUE)
      BY <1>9 DEF ReportError
    <2>2. Deref(m.phase) \in Phases /\ "none" \in Reasons
      BY <1>0, DerefType DEF IndInv, TypeOK, Machine, Reasons
    <2>3. api.phase = "Failed" /\ api.providerID # None => m.phase # "nil"
      BY <2>1 DEF LostInv, LostKnown, Blank, Deref, StatusInv, ObjectsOK, ObjectOK
    <2>4. CASE /\ PassOver /\ Wrote /\ KeepMeta
               /\ api'.phase = IF m.phase = Deref(m.phase) THEN api.phase ELSE Deref(m.phase)
      <3>1. api'.phase = api.phase \/ (m.phase = "nil" /\ api'.phase = "")
        BY <2>4 DEF Deref
      <3> QED BY <2>3, <2>4, <3>1, LostOver DEF KeepMeta, LostStays
    <2> QED BY <1>0, <1>s, <2>1, <2>2, <2>4, FinishEffect
  <1>10. CASE MarkProvisioning
    <2>1. /\ pc = "missing" /\ m.providerID = None /\ Deref(m.phase) = ""
          /\ FinishWithStatus("Provisioning", "none", FALSE)
      BY <1>10 DEF MarkProvisioning, IsProvisioned
    <2>2. "Provisioning" \in Phases /\ "none" \in Reasons
      BY DEF Phases, Reasons
    <2>3. ~ (api.phase = "Failed" /\ api.providerID # None)
      BY <2>1 DEF LostInv, LostKnown, Blank, Early, Searching
    <2>4. CASE PassOver /\ Wrote /\ KeepMeta /\ api'.phase \in {api.phase, "Provisioning"}
      BY <2>3, <2>4, LostOver DEF KeepMeta, LostStays
    <2> QED BY <1>0, <1>s, <2>1, <2>2, <2>4, FinishEffect
  <1>11. CASE MarkMissing \/ MarkInvalid
    <2>1. \/ AnnotateFailed("failMissing") /\ pc = "missing"
          \/ AnnotateFailed("failInvalid") /\ pc = "invalid"
      BY <1>11 DEF MarkMissing, MarkInvalid
    <2>2. CASE /\ Wrote /\ KeepMeta /\ KeepStatus /\ Refreshed
               /\ \/ pc' = "failMissing" /\ pc = "missing"
                  \/ pc' = "failInvalid" /\ pc = "invalid"
      <3>1. pc = "invalid" /\ api.providerID # None => ~ Blank(cached)
        <4>1. pc = "invalid" => m.providerID = None
          BY <1>0 DEF ServersInv, ServersKnown
        <4> QED BY <4>1 DEF LostInv, GivenKnown, Blank, FromCache
      <3>2. GivenKnown'
        BY <2>2, <3>1 DEF LostInv, GivenKnown, FromCache, Wrote, KeepMeta, Refreshed, Blank
      <3>3. LostKnown'
        BY <2>2 DEF LostInv, LostKnown, Wrote, KeepMeta, KeepStatus, Blank, Early, Searching
      <3> QED BY <2>2, <3>2, <3>3 DEF LostStays, KeepStatus
    <2>3. CASE Wrote /\ KeepMeta /\ KeepStatus /\ PassOver
      BY <2>3, LostOver DEF KeepMeta, KeepStatus, LostStays
    <2> QED BY <1>0, <1>s, <2>1, <2>2, <2>3, AnnotateEffect
  <1>12. CASE MarkFailed
    <2>1. /\ pc \in {"failMissing", "failInvalid"}
          /\ \E reason \in Reasons : FinishWithStatus("Failed", reason, FALSE)
      BY <1>12 DEF MarkFailed, Reasons
    <2>2. PICK reason \in Reasons : FinishWithStatus("Failed", reason, FALSE)
      BY <2>1
    <2>3. "Failed" \in Phases
      BY DEF Phases
    <2>4. api.providerID # None => ~ Blank(cached)
      BY <2>1 DEF LostInv, GivenKnown, Blank, StatusInv, StatusKnown
    <2>5. CASE PassOver /\ Wrote /\ KeepMeta /\ api'.phase \in {api.phase, "Failed"}
      BY <2>4, <2>5, LostOver DEF KeepMeta, LostStays
    <2> QED BY <1>0, <1>s, <2>2, <2>3, <2>5, FinishEffect
  <1> QED BY <1>1, <1>2, <1>3, <1>4, <1>5, <1>6, <1>7, <1>8, <1>9, <1>10, <1>11, <1>12
          DEF ControllerStep

LEMMA LostOthers ==
  ASSUME Layers, LostInv, [Next]_vars, ~ Worker
  PROVE  GivenKnown' /\ LostKnown' /\ LostStays
  <1>0. IndInv
    BY DEF Layers
  <1>1. CASE Drainer \/ User \/ Editor \/ HookOwner \/ NodeLink
    <2>1. KeepWorker /\ Wrote /\ KeepStatus /\ api'.providerID = api.providerID /\ via' = via
      BY <1>0, <1>1, DrainerEffect, UserEffect, EditorEffect, HookOwnerEffect, NodeLinkEffect,
         SilentWrote
         DEF Silent, KeepMeta, KeepStatus, Drainer, User, Editor, HookOwner, NodeLink, frame
    <2>2. (pc = "validate" /\ via = "create") \/ pc = "invalid" => ~ Blank(m)
      BY DEF LostInv, GivenKnown
    <2> QED BY <2>1, <2>2, LostMoves DEF KeepWorker, KeepStatus, LostStays
  <1>2. CASE Informer
    <2>1. PICK v \in watch : cached' = v /\ watch' = watch \ {v}
      BY <1>2 DEF Informer, Deliver
    <2>2. UNCHANGED <<pc, m, via, api>>
      BY <1>2 DEF Informer, Deliver, frame
    <2>3. /\ api.providerID # None => v.providerID # None
          /\ m.providerID # None => api.providerID # None
      BY <1>0, <2>1 DEF LostInv, GivenKnown, IndInv, CopiesOK, IsCopy
    <2>4. GivenKnown' /\ LostKnown'
      BY <2>1, <2>2, <2>3 DEF LostInv, GivenKnown, LostKnown, Blank
    <2> QED BY <2>2, <2>4 DEF LostStays
  <1>3. CASE NovaWorks \/ Kubelet \/ Tamper \/ Finished \/ UNCHANGED vars
    <2>1. UNCHANGED <<api, cached, watch, pc, m, via>>
      BY <1>3 DEF NovaWorks, Kubelet, Tamper, Finished, vars, kubeVars, frame
    <2> QED BY <2>1 DEF LostInv, GivenKnown, LostKnown, LostStays, Blank
  <1>4. CASE Crash \/ Panic
    <2>1. UNCHANGED api /\ cached' = api /\ watch' = {} /\ pc' = "idle"
      BY <1>4 DEF Crash, Panic, Restart
    <2> QED BY <2>1 DEF GivenKnown, LostKnown, LostStays, Blank, FromCache, Early, Searching
  <1> QED BY <1>1, <1>2, <1>3, <1>4 DEF Next

LEMMA LostStep == Layers /\ StatusInv /\ LostInv /\ [Next]_vars => LostInv' /\ LostStays
  BY VersionsStep, LostActuator, LostController, LostOthers DEF LostInv, Layers, Worker

LEMMA LostInit == Init => LostInv
  <1> SUFFICES ASSUME Init PROVE LostInv
    OBVIOUS
  <1>1. /\ cached = NoMachine /\ watch = {api} /\ pc = "idle"
        /\ api.phase = "nil" /\ api.providerID = None /\ api.rv = 1 /\ NoMachine.rv = 0
    BY DEF Init, KubeInit, NewMachine, NoMachine
  <1> QED BY <1>1 DEF LostInv, Versions, GivenKnown, LostKnown, FromCache, Early, Searching

LEMMA LostInvariant == Spec => [](Layers /\ StatusInv /\ LostInv)
  BY StatusInvariant, LostInit, LostStep, PTL DEF Spec

(* Failed is final for a Machine that was given an instance: no pass that started from an
   older copy, however late, writes another phase over it than Deleting. *)
THEOREM LostForGood == Spec => LostIsFinal
  <1>1. Layers /\ StatusInv /\ LostInv /\ [Next]_vars
          => [api.phase = "Failed" /\ api.providerID # None
                => api'.phase \in {"Failed", "Deleting"}]_vars
    BY LostStep DEF LostStays
  <1> QED BY <1>1, LostInvariant, PTL DEF Spec, LostIsFinal

-----------------------------------------------------------------------------
(* The Node: when the finalizer of a Machine with a Node goes, the Node is gone.  Only a
   recreated server can have registered it again. *)
NodeInv ==
  pc = "removeFinalizer" /\ m.nodeRef => ~ node \/ \E s \in Servers : Recreated(s)

(* A server stays recreated. *)
LEMMA RecreatedStays ==
  ASSUME IndInv, [Next]_vars, NEW s \in Servers, Recreated(s)
  PROVE  Recreated(s)'
  <1>1. ServersOnward /\ api'.providerID = api.providerID
    BY StepFacts DEF Recreated
  <1> QED BY <1>1 DEF Recreated, ServersOnward

(* Nobody but the kubelet of a running server registers a Node. *)
LEMMA OnlyKubelet ==
  ASSUME IndInv, [Next]_vars, ~ node, node'
  PROVE  KeepWorker /\ api' = api /\ \E s \in Servers : servers[s] = "ACTIVE"
  <1>1. CASE ActuatorStep
    BY <1>1
       DEF ActuatorStep, ValidateMachine, CreateServer, AwaitActive, SetProviderID, PatchLabels,
           PatchStatus, DeleteLookup, DeleteServer, AwaitDelete, novaVars
  <1>2. CASE ControllerStep
    BY <1>2
       DEF ControllerStep, Fetch, NotFound, StayFailed, AddFinalizer, MarkDeleting, CheckDeleted,
           DeleteNode, RemoveFinalizer, CheckExists, Update, MarkProvisioned, ReportError, MarkMissing,
           MarkProvisioning, Create, MarkInvalid, MarkFailed, Reconcile, novaVars
  <1>3. CASE Kubelet
    BY <1>3 DEF Kubelet, NodeRegister, KeepWorker, kubeVars, frame
  <1>4. CASE Drainer \/ Informer \/ User \/ Editor \/ HookOwner \/ NovaWorks \/ NodeLink \/ Tamper
    BY <1>4 DEF Drainer, Informer, User, Editor, HookOwner, NovaWorks, NovaBuild, NovaReap, NodeLink, Tamper,
                ExternalDelete, novaVars
  <1>5. CASE Crash \/ Panic \/ Finished \/ UNCHANGED vars
    BY <1>5 DEF Crash, Panic, Restart, Finished, vars, novaVars
  <1> QED BY <1>1, <1>2, <1>3, <1>4, <1>5 DEF Next, Worker

(* How the worker gets to the removal of the finalizer. *)
LEMMA ToRemoveFinalizer ==
  ASSUME IndInv, [Next]_vars, pc' = "removeFinalizer"
  PROVE  m' = m /\ (pc = "removeFinalizer" \/ ~ m.nodeRef \/ ~ node')
  <1>1. CASE CheckDeleted
    BY <1>1 DEF CheckDeleted, EndPass
  <1>2. CASE DeleteNode
    BY <1>2 DEF DeleteNode, EndPass, GoTo, frame
  <1>3. CASE ActuatorStep
    BY <1>3
       DEF ActuatorStep, ValidateMachine, CreateServer, AwaitActive, SetProviderID, PatchLabels,
           PatchStatus, DeleteLookup, DeleteServer, AwaitDelete, GoTo, EndPass, Abort, Write, Answered
  <1>4. CASE Fetch \/ NotFound \/ StayFailed \/ AddFinalizer \/ RemoveFinalizer \/ MarkDeleting
             \/ CheckExists
    BY <1>4 DEF Fetch, NotFound, StayFailed, AddFinalizer, RemoveFinalizer, MarkDeleting, CheckExists, EndPass,
                Write, Answered
  <1>5. CASE Update \/ Create
    BY <1>5 DEF Update, Create, Reconcile, Abort, EndPass
  <1>6. CASE MarkProvisioned \/ ReportError \/ MarkMissing \/ MarkProvisioning \/ MarkInvalid
             \/ MarkFailed
    BY <1>6 DEF MarkProvisioned, ReportError, MarkMissing, MarkProvisioning, MarkInvalid, MarkFailed,
                FinishWithStatus, AnnotateFailed, Write, EndPass
  <1>7. CASE Drainer \/ Informer \/ User \/ Editor \/ HookOwner \/ NovaWorks \/ Kubelet \/ NodeLink \/ Tamper
    BY <1>7 DEF Drainer, Informer, User, Editor, HookOwner, NovaWorks, Kubelet, NodeLink, Tamper, frame
  <1>8. CASE Crash \/ Panic \/ Finished \/ UNCHANGED vars
    BY <1>8 DEF Crash, Panic, Restart, Finished, vars, frame
  <1> QED BY <1>1, <1>2, <1>3, <1>4, <1>5, <1>6, <1>7, <1>8 DEF Next, Worker, ControllerStep

LEMMA NodeStep == Layers /\ StatusInv /\ NodeInv /\ [Next]_vars => NodeInv'
  <1> SUFFICES ASSUME Layers, StatusInv, NodeInv, [Next]_vars,
                      pc' = "removeFinalizer", m'.nodeRef, node'
               PROVE  \E s \in Servers : Recreated(s)'
    BY DEF NodeInv
  <1>0. IndInv
    BY DEF Layers
  <1>1. m' = m /\ pc = "removeFinalizer"
    BY <1>0, ToRemoveFinalizer
  <1>2. CASE node
    BY <1>0, <1>1, <1>2, RecreatedStays DEF NodeInv
  <1>3. CASE ~ node
    <2>1. PICK s \in Servers : servers[s] = "ACTIVE"
      BY <1>0, <1>3, OnlyKubelet
    <2>2. m.providerID # None
      BY <1>1 DEF StatusInv, ObjectsOK, ObjectOK
    <2>3. servers[m.providerID] = "gone" /\ api.providerID = m.providerID
      BY <1>0, <1>1, <2>2 DEF IndInv, WorkerOK, CopiesOK, IsCopy
    <2>4. Recreated(s)
      BY <2>1, <2>2, <2>3 DEF Recreated
    <2> QED BY <1>0, <2>4, RecreatedStays
  <1> QED BY <1>2, <1>3

LEMMA NodeInvariant == Spec => [](Layers /\ StatusInv /\ NodeInv)
  <1>1. Init => NodeInv
    BY DEF Init, NodeInv
  <1> QED BY <1>1, StatusInvariant, NodeStep, PTL DEF Spec

(* The Machine disappears by the removal of its finalizer, from the current version of the
   object, or by a user's request, if it has no finalizer. *)
LEMMA OnlyRelease ==
  ASSUME IndInv, [Next]_vars, api.exists, ~ api'.exists
  PROVE  (pc = "removeFinalizer" /\ m = api) \/ ~ api.finalizer
  <1>1. CASE RemoveFinalizer
    BY <1>1, RemoveFinalizerEffect DEF Silent
  <1>2. CASE User
    BY <1>2, UserEffect
  <1>3. CASE AddFinalizer \/ MarkDeleting \/ SetProviderID \/ PatchLabels \/ PatchStatus
    BY <1>3, AddFinalizerEffect, MarkDeletingEffect, SetProviderIDEffect, PatchLabelsEffect,
       PatchStatusEffect DEF Silent, KeepMeta
  <1>4. CASE Drainer \/ Editor \/ HookOwner \/ NodeLink \/ MarkMissing \/ MarkInvalid
    BY <1>4, DrainerEffect, EditorEffect, HookOwnerEffect, NodeLinkEffect, AnnotateEffect
       DEF MarkMissing, MarkInvalid, Silent, KeepMeta
  <1>5. CASE MarkProvisioned \/ ReportError \/ MarkProvisioning \/ MarkFailed
    <2>1. /\ Deref(m.phase) \in Phases
          /\ {"Running", "Provisioned", "Provisioning", "Failed"} \subseteq Phases
      BY DerefType DEF IndInv, TypeOK, Machine, Phases
    <2>2. \E phase \in Phases, reason \in Reasons, again \in BOOLEAN :
            FinishWithStatus(phase, reason, again)
      BY <1>5, <2>1, Zenon
         DEF MarkProvisioned, ReportError, MarkProvisioning, MarkFailed, Reasons
    <2> QED BY <2>2, FinishEffect DEF Silent, KeepMeta
  <1>6. CASE ValidateMachine \/ CreateServer \/ AwaitActive \/ DeleteLookup \/ DeleteServer \/ AwaitDelete
    BY <1>6 DEF ValidateMachine, CreateServer, AwaitActive, DeleteLookup, DeleteServer, AwaitDelete
  <1>7. CASE Fetch \/ NotFound \/ StayFailed \/ CheckDeleted \/ DeleteNode \/ CheckExists \/ Update \/ Create
    BY <1>7 DEF Fetch, NotFound, StayFailed, CheckDeleted, DeleteNode, CheckExists, Update, Create,
                Reconcile
  <1>8. CASE Informer \/ NovaWorks \/ Kubelet \/ Tamper \/ Crash \/ Panic \/ Finished \/ UNCHANGED vars
    BY <1>8 DEF Informer, Deliver, NovaWorks, Kubelet, Tamper, Crash, Panic, Restart, Finished, vars,
                kubeVars
  <1> QED BY <1>1, <1>2, <1>3, <1>4, <1>5, <1>6, <1>7, <1>8
          DEF Next, Worker, ControllerStep, ActuatorStep

(* The Machine disappears after its Node: a Node linked while the deletion was under way
   makes the locked update fail, and the next pass deletes it. *)
THEOREM NodeGoesFirst == Spec => NodeDeletedFirst
  <1>1. ASSUME Layers, StatusInv, NodeInv, [Next]_vars, api.exists, ~ api'.exists, api.nodeRef
        PROVE  ~ node \/ \E s \in Servers : Recreated(s)
    <2>1. api.finalizer
      BY <1>1 DEF StatusInv, ObjectsOK, ObjectOK, Layers, IndInv, ProviderOK
    <2>2. pc = "removeFinalizer" /\ m = api
      BY <1>1, <2>1, OnlyRelease DEF Layers
    <2> QED BY <1>1, <2>2 DEF NodeInv
  <1>2. Layers /\ StatusInv /\ NodeInv /\ [Next]_vars
          => [api.exists /\ ~ api'.exists /\ api.nodeRef
                => ~ node \/ \E s \in Servers : Recreated(s)]_vars
    BY <1>1
  <1> QED BY <1>2, NodeInvariant, PTL DEF Spec, NodeDeletedFirst

-----------------------------------------------------------------------------
(* When a server is recreated.  The finding about NeverRecreated takes an outdated copy
   and a deletion behind the machine API's back; each alone does no harm. *)

(* What happens to the servers, action by action. *)
LEMMA ServerSteps ==
  ASSUME IndInv, [Next]_vars
  PROVE  \/ servers' = servers
         \/ pc = "createServer" /\ api' = api /\ \E s \in Servers : Boot(s)
         \/ pc = "deleteServer" /\ api' = api /\ Terminate(st)
         \/ NovaBuild /\ api' = api
         \/ NovaReap /\ api' = api
         \/ Tampering /\ ExternalDelete /\ api' = api
  <1>1. CASE ActuatorStep
    BY <1>1
       DEF ActuatorStep, ValidateMachine, CreateServer, AwaitActive, SetProviderID, PatchLabels,
           PatchStatus, DeleteLookup, DeleteServer, AwaitDelete, novaVars
  <1>2. CASE ControllerStep
    BY <1>2
       DEF ControllerStep, Fetch, NotFound, StayFailed, AddFinalizer, MarkDeleting, CheckDeleted,
           DeleteNode, RemoveFinalizer, CheckExists, Update, MarkProvisioned, ReportError, MarkMissing,
           MarkProvisioning, Create, MarkInvalid, MarkFailed, Reconcile, novaVars
  <1>3. CASE NovaWorks \/ Tamper
    BY <1>3 DEF NovaWorks, Tamper, ExternalDelete, kubeVars
  <1>4. CASE Drainer \/ Informer \/ User \/ Editor \/ HookOwner \/ Kubelet \/ NodeLink
    BY <1>4 DEF Drainer, Informer, User, Editor, HookOwner, Kubelet, NodeRegister, NodeLink, novaVars
  <1>5. CASE Crash \/ Panic \/ Finished \/ UNCHANGED vars
    BY <1>5 DEF Crash, Panic, Restart, Finished, vars, novaVars
  <1> QED BY <1>1, <1>2, <1>3, <1>4, <1>5 DEF Next, Worker

(* Only a create request makes a server. *)
LEMMA OnlyCreateServer ==
  ASSUME IndInv, ServersInv, [Next]_vars,
         NEW s \in Servers, servers[s] = "absent", servers'[s] # "absent"
  PROVE  pc = "createServer" /\ api' = api
  <1>1. servers \in [Servers -> ServerStates]
    BY DEF IndInv, TypeOK
  <1>2. CASE pc = "deleteServer" /\ Terminate(st)
    BY <1>1, <1>2 DEF Terminate, ServersInv, ServersKnown
  <1>3. CASE NovaBuild \/ NovaReap \/ ExternalDelete
    BY <1>1, <1>3 DEF NovaBuild, NovaReap, ExternalDelete
  <1> QED BY <1>2, <1>3, ServerSteps

(* Unless servers are deleted behind its back, the controller sees one end only when it
   has started the deletion. *)
OnlyWhenDeleting ==
  /\ \A s \in Servers : servers[s] \in {"DELETING", "gone"} => api.phase = "Deleting"
  /\ pc \in DeletePath => api.phase = "Deleting"

(* Unless passes start from outdated copies, the worker sees a providerID that is set, until
   it fails to see its own write of it, and the phase. *)
UpToDate ==
  /\ api \in watch \/ (watch = {} /\ cached = api)
  /\ pc \notin {"idle", "reportError"} /\ m.providerID = None => api.providerID = None
  /\ pc # "idle" => m.phase = api.phase

(* Either is enough for the servers that exist to be the Machine's. *)
RecreateInv ==
  /\ ~ Tampering => OnlyWhenDeleting
  /\ ~ CacheLag => UpToDate
  /\ ~ Tampering \/ ~ CacheLag => \A s \in Servers : Visible(s) => ~ Recreated(s)

LEMMA RecreateInit == Init => RecreateInv
  <1> SUFFICES ASSUME Init PROVE RecreateInv
    OBVIOUS
  <1>1. pc = "idle" /\ watch = {api} /\ \A s \in Servers : servers[s] = "absent"
    BY DEF Init, KubeInit, NovaInit
  <1> QED BY <1>1 DEF RecreateInv, OnlyWhenDeleting, UpToDate, DeletePath, Visible

LEMMA DeletingStep ==
  ASSUME IndInv, DeletionInv, ServersInv, OnlyWhenDeleting, ~ Tampering, [Next]_vars
  PROVE  OnlyWhenDeleting'
  <1>1. /\ api.phase = "Deleting" => api'.phase = "Deleting"
        /\ pc' \in DeletePath => pc \in DeletePath \/ api'.phase = "Deleting"
    BY StepShape
  <1>2. servers \in [Servers -> ServerStates]
    BY DEF IndInv, TypeOK
  <1>3. ASSUME NEW s \in Servers, servers'[s] \in {"DELETING", "gone"}
        PROVE  api.phase = "Deleting" \/ servers[s] \in {"DELETING", "gone"}
    <2>1. CASE pc = "createServer" /\ \E t \in Servers : Boot(t)
      BY <1>2, <1>3, <2>1 DEF Boot
    <2>2. CASE pc = "deleteServer"
      BY <2>2 DEF OnlyWhenDeleting, DeletePath
    <2>3. CASE NovaBuild \/ NovaReap
      BY <1>2, <1>3, <2>3 DEF NovaBuild, NovaReap
    <2> QED BY <1>3, <2>1, <2>2, <2>3, ServerSteps
  <1> QED BY <1>1, <1>3 DEF OnlyWhenDeleting

(* Reporting an error ends the pass. *)
LEMMA FromReportError ==
  ASSUME [Next]_vars, pc = "reportError"
  PROVE  pc' \in {"idle", "reportError"}
  <1>1. CASE ActuatorStep
    BY <1>1
       DEF ActuatorStep, ValidateMachine, CreateServer, AwaitActive, SetProviderID, PatchLabels,
           PatchStatus, DeleteLookup, DeleteServer, AwaitDelete
  <1>2. CASE ControllerStep
    BY <1>2
       DEF ControllerStep, Fetch, NotFound, StayFailed, AddFinalizer, MarkDeleting, CheckDeleted,
           DeleteNode, RemoveFinalizer, CheckExists, Update, MarkProvisioned, ReportError, MarkMissing,
           MarkProvisioning, Create, MarkInvalid, MarkFailed, FinishWithStatus, Write, EndPass
  <1>3. CASE Drainer \/ Informer \/ User \/ Editor \/ HookOwner \/ NovaWorks \/ Kubelet \/ NodeLink
             \/ Tamper
    BY <1>3 DEF Drainer, Informer, User, Editor, HookOwner, NovaWorks, Kubelet, NodeLink, Tamper
  <1>4. CASE Crash \/ Panic \/ Finished \/ UNCHANGED vars
    BY <1>4 DEF Crash, Panic, Restart, Finished, vars
  <1> QED BY <1>1, <1>2, <1>3, <1>4 DEF Next, Worker

LEMMA UpToDateStep ==
  ASSUME IndInv, DeletionInv, UpToDate, ~ CacheLag, [Next]_vars
  PROVE  UpToDate'
  <1>1. api' \in watch' \/ (watch' = {} /\ cached' = api')
    <2>1. CASE Wrote
      BY <2>1 DEF Wrote, UpToDate
    <2>2. CASE Restart
      BY <2>2 DEF Restart
    <2>3. CASE Deliver
      <3>1. PICK v \in watch : /\ \A w \in watch : v.rv <= w.rv
                               /\ cached' = v /\ watch' = watch \ {v} /\ api' = api
        BY <2>3 DEF Deliver
      <3>2. CASE v = api
        <4>1. \A w \in watch : w.rv \in Nat /\ w.rv <= api.rv /\ (w.rv = api.rv => w = api)
          BY DEF IndInv, TypeOK, Machine, CopiesOK, IsCopy
        <4>2. \A w \in watch : w = api
          BY <3>1, <3>2, <4>1 DEF IndInv, TypeOK, Machine
        <4> QED BY <3>1, <3>2, <4>2
      <3>3. CASE v # api
        BY <3>1, <3>3 DEF UpToDate
      <3> QED BY <3>2, <3>3
    <2> QED BY <2>1, <2>2, <2>3, StepShape
  <1>2. ASSUME pc' # "idle" PROVE m'.phase = api'.phase
    <2>1. CASE InformerSynced /\ Silent /\ m' = cached
      BY <2>1 DEF InformerSynced, Silent, UpToDate
    <2>2. CASE pc # "idle" /\ m' = m /\ api'.phase = api.phase
      BY <2>2 DEF UpToDate
    <2> QED BY <1>2, <2>1, <2>2, StepShape DEF Refreshed
  <1>3. ASSUME pc' \notin {"idle", "reportError"}, m'.providerID = None PROVE api'.providerID = None
    <2>1. CASE pc # "idle" /\ m'.providerID = m.providerID
      <3>1. pc # "reportError"
        BY <1>3, FromReportError
      <3>2. CASE api'.providerID = api.providerID
        BY <1>3, <2>1, <3>1, <3>2 DEF UpToDate
      <3>3. CASE Aborted \/ m' = api'
        BY <1>3, <3>3 DEF Aborted, PassOver
      <3> QED BY <3>2, <3>3, StepShape
    <2>2. CASE m' = api'
      BY <1>3, <2>2
    <2>3. CASE InformerSynced /\ Silent /\ m' = cached
      <3>1. watch = {} /\ m' = api /\ api' = api
        BY <2>3 DEF InformerSynced, Silent, UpToDate
      <3> QED BY <1>3, <3>1
    <2> QED BY <1>3, <2>1, <2>2, <2>3, StepShape DEF Refreshed
  <1> QED BY <1>1, <1>2, <1>3 DEF UpToDate

(* The decision to create a server is right. *)
LEMMA CreatesForNone ==
  ASSUME IndInv, DeletionInv, ServersInv, RecreateInv, ~ Tampering \/ ~ CacheLag,
         pc = "createServer"
  PROVE  api.providerID = None
  <1>0. NoneVisible /\ m.providerID = None /\ api.phase # "Deleting"
    BY DEF ServersInv, ServersKnown, DeletionInv, Creating, CreatePath
  <1>1. CASE ~ CacheLag
    BY <1>0, <1>1 DEF RecreateInv, UpToDate
  <1>2. CASE ~ Tampering /\ api.providerID # None
    <2>1. api.providerID \in Servers /\ servers[api.providerID] \in ServerStates \ {"absent"}
      BY <1>2 DEF IndInv, TypeOK, Machine, ProviderOK
    <2>2. servers[api.providerID] = "gone"
      BY <1>0, <2>1 DEF NoneVisible, Visible, ServerStates
    <2> QED BY <1>0, <1>2, <2>1, <2>2 DEF RecreateInv, OnlyWhenDeleting
  <1> QED BY <1>1, <1>2

LEMMA RecreateStep == Layers /\ RecreateInv /\ [Next]_vars => RecreateInv'
  <1> SUFFICES ASSUME Layers, RecreateInv, [Next]_vars PROVE RecreateInv'
    OBVIOUS
  <1>0. IndInv /\ DeletionInv /\ ServersInv
    BY DEF Layers
  <1>1. (~ Tampering => OnlyWhenDeleting') /\ (~ CacheLag => UpToDate')
    BY <1>0, DeletingStep, UpToDateStep DEF RecreateInv
  <1>2. ASSUME ~ Tampering \/ ~ CacheLag, NEW s \in Servers, Visible(s)' PROVE ~ Recreated(s)'
    <2>1. servers \in [Servers -> ServerStates]
      BY <1>0 DEF IndInv, TypeOK
    <2>2. CASE api'.providerID = api.providerID
      <3>1. CASE Visible(s)
        BY <1>2, <2>2, <3>1 DEF RecreateInv, Recreated, Visible
      <3>2. CASE ~ Visible(s)
        <4>1. servers[s] = "absent" \/ servers[s] = "gone"
          BY <2>1, <3>2 DEF Visible, ServerStates
        <4>2. servers[s] = "absent"
          BY <1>0, <1>2, <4>1, StepFacts DEF ServersOnward, Visible
        <4>3. pc = "createServer"
          BY <1>0, <1>2, <4>2, OnlyCreateServer DEF Visible
        <4>4. api.providerID = None
          BY <1>0, <1>2, <4>3, CreatesForNone
        <4> QED BY <2>2, <4>4 DEF Recreated
      <3> QED BY <3>1, <3>2
    <2>3. CASE pc = "setProviderID" /\ m.providerID = None /\ api'.providerID = st /\ KeepNova
      <3>1. Visible(s)
        BY <1>2, <2>3 DEF Visible, KeepNova
      <3>2. s = st
        BY <1>0, <2>3, <3>1 DEF ServersInv, ServersKnown
      <3> QED BY <2>3, <3>2 DEF Recreated
    <2> QED BY <1>0, <2>2, <2>3, StepShape
  <1> QED BY <1>1, <1>2 DEF RecreateInv

LEMMA RecreateInvariant == Spec => [](Layers /\ RecreateInv)
  BY StatusInvariant, RecreateInit, RecreateStep, PTL DEF Spec

(* "We definitely don't want to recreate a deleted machine": it takes both an outdated copy
   and a deletion behind the machine API's back for reconcile to do it. *)
THEOREM RecreationTakesBoth == ASSUME ~ Tampering \/ ~ CacheLag PROVE Spec => NeverRecreated
  <1>1. Layers /\ RecreateInv /\ [Next]_vars
          => [\A s \in Servers :
                servers[s] = "absent" /\ servers'[s] # "absent" => api.providerID = None]_vars
    BY OnlyCreateServer, CreatesForNone DEF Layers
  <1> QED BY <1>1, RecreateInvariant, PTL DEF Spec, NeverRecreated

(* Without one of the two, no server at all outlives its Machine. *)
THEOREM NothingLeaks ==
  ASSUME ~ Tampering \/ ~ CacheLag PROVE Spec => [](api.exists \/ NoneVisible)
  <1>1. Layers /\ RecreateInv => api.exists \/ NoneVisible
    BY DEF Layers, ServersInv, NoLeakedServer, RecreateInv, NoneVisible
  <1> QED BY <1>1, RecreateInvariant, PTL

-----------------------------------------------------------------------------
(* Who writes a phase over Failed: a pass whose copy says otherwise. *)
LEMMA OverFailed ==
  ASSUME Layers, StatusInv, [Next]_vars, api.phase = "Failed", api'.phase \notin {"Failed", "Deleting"}
  PROVE  pc # "idle" /\ m.phase # "Failed"
  <1>0. IndInv /\ DeletionInv
    BY DEF Layers
  <1>1. CASE MarkProvisioned
    BY <1>1 DEF MarkProvisioned, StatusInv, StatusKnown
  <1>2. CASE MarkProvisioning
    BY <1>2 DEF MarkProvisioning, StatusInv, StatusKnown, Searching
  <1>3. CASE ReportError
    <2>1. pc = "reportError" /\ FinishWithStatus(Deref(m.phase), "none", TRUE)
      BY <1>3 DEF ReportError
    <2>2. Deref(m.phase) \in Phases /\ "none" \in Reasons
      BY <1>0, DerefType DEF IndInv, TypeOK, Machine, Reasons
    <2>3. m.phase # Deref(m.phase)
      BY <1>0, <2>1, <2>2, FinishEffect DEF Silent
    <2> QED BY <2>1, <2>3 DEF Deref
  <1>4. CASE MarkFailed
    <2>1. PICK reason \in Reasons : FinishWithStatus("Failed", reason, FALSE)
      BY <1>4 DEF MarkFailed, Reasons
    <2> QED BY <1>0, <2>1, FinishEffect DEF Phases, Silent
  <1>5. CASE AddFinalizer \/ RemoveFinalizer \/ MarkDeleting \/ MarkMissing \/ MarkInvalid
    BY <1>0, <1>5, AddFinalizerEffect, RemoveFinalizerEffect, MarkDeletingEffect, AnnotateEffect
       DEF MarkMissing, MarkInvalid, Silent, KeepStatus
  <1>6. CASE SetProviderID \/ PatchLabels \/ PatchStatus
    BY <1>0, <1>6, SetProviderIDEffect, PatchLabelsEffect, PatchStatusEffect DEF Silent, KeepStatus
  <1>7. CASE Drainer \/ User \/ Editor \/ HookOwner \/ NodeLink
    BY <1>0, <1>7, DrainerEffect, UserEffect, EditorEffect, HookOwnerEffect, NodeLinkEffect
       DEF Silent, KeepStatus
  <1>8. CASE ValidateMachine \/ CreateServer \/ AwaitActive \/ DeleteLookup \/ DeleteServer \/ AwaitDelete
    BY <1>8 DEF ValidateMachine, CreateServer, AwaitActive, DeleteLookup, DeleteServer, AwaitDelete
  <1>9. CASE Fetch \/ NotFound \/ StayFailed \/ CheckDeleted \/ DeleteNode \/ CheckExists \/ Update
             \/ Create
    BY <1>9 DEF Fetch, NotFound, StayFailed, CheckDeleted, DeleteNode, CheckExists, Update, Create,
                Reconcile
  <1>10. CASE Informer \/ NovaWorks \/ Kubelet \/ Tamper \/ Crash \/ Panic \/ Finished \/ UNCHANGED vars
    BY <1>10 DEF Informer, Deliver, NovaWorks, Kubelet, Tamper, Crash, Panic, Restart, Finished, vars,
                 kubeVars
  <1> QED BY <1>1, <1>2, <1>3, <1>4, <1>5, <1>6, <1>7, <1>8, <1>9, <1>10
          DEF Next, Worker, ControllerStep, ActuatorStep

(* It takes an outdated copy to revive a Machine that has Failed: if every pass starts from
   the stored object, Failed is final, through lost answers, edits and crashes. *)
THEOREM FailedForGood == ASSUME ~ CacheLag PROVE Spec => FailedIsFinal
  <1>1. Layers /\ StatusInv /\ RecreateInv /\ [Next]_vars
          => [api.phase = "Failed" => api'.phase \in {"Failed", "Deleting"}]_vars
    BY OverFailed DEF RecreateInv, UpToDate
  <1> QED BY <1>1, StatusInvariant, RecreateInvariant, PTL DEF Spec, FailedIsFinal

-----------------------------------------------------------------------------
(* When a valid Machine is declared invalid.  The finding about InvalidMeansInvalid takes a
   failed request: validateMachine reports it as an invalid configuration. *)
VerdictInv ==
  SpecValid /\ faults = 0 =>
    pc \notin {"invalid", "failInvalid"} /\ api.reason # "InvalidConfiguration"

(* Faults are only ever counted up. *)
LEMMA FaultsCount ==
  ASSUME IndInv, [Next]_vars
  PROVE  faults' = faults \/ Fault
  <1>1. CASE ActuatorStep
    BY <1>1
       DEF ActuatorStep, ValidateMachine, CreateServer, AwaitActive, SetProviderID, PatchLabels,
           PatchStatus, DeleteLookup, DeleteServer, AwaitDelete, LookupFails, LookupReturns, Write, NoFault
  <1>2. CASE Fetch \/ NotFound \/ StayFailed \/ AddFinalizer \/ RemoveFinalizer \/ DeleteNode
    BY <1>2 DEF Fetch, NotFound, StayFailed, AddFinalizer, RemoveFinalizer, DeleteNode, Write, NoFault
  <1>3. CASE CheckDeleted \/ CheckExists
    BY <1>3 DEF CheckDeleted, CheckExists, Exists, LookupFails, LookupReturns, NoFault
  <1>4. CASE Update \/ Create
    BY <1>4 DEF Update, Create, Reconcile, LookupFails, LookupReturns, NoFault
  <1>5. CASE MarkDeleting
    BY <1>5 DEF MarkDeleting, Write, NoFault
  <1>6. CASE MarkProvisioned \/ ReportError \/ MarkMissing \/ MarkProvisioning \/ MarkInvalid
             \/ MarkFailed
    BY <1>6 DEF MarkProvisioned, ReportError, MarkMissing, MarkProvisioning, MarkInvalid, MarkFailed,
                FinishWithStatus, AnnotateFailed, Write, NoFault
  <1>7. CASE Drainer
    BY <1>7 DEF Drainer, DrainStart, DrainFinish, Write, NoFault
  <1>8. CASE Informer \/ User \/ Editor \/ HookOwner \/ NovaWorks \/ Kubelet \/ NodeLink
    BY <1>8 DEF Informer, User, Editor, HookOwner, NovaWorks, Kubelet, NodeLink
  <1>9. CASE Tamper \/ Crash \/ Panic \/ Finished \/ UNCHANGED vars
    BY <1>9 DEF Tamper, Crash, Panic, Finished, vars, NoFault
  <1> QED BY <1>1, <1>2, <1>3, <1>4, <1>5, <1>6, <1>7, <1>8, <1>9 DEF Next, Worker, ControllerStep

(* The verdict is reached in validateMachine, for a spec that is invalid or after a fault. *)
LEMMA ToInvalid ==
  ASSUME IndInv, [Next]_vars, pc' \in {"invalid", "failInvalid"}
  PROVE  pc \in {"invalid", "failInvalid"} \/ ~ SpecValid \/ Fault
  <1>1. CASE ValidateMachine
    BY <1>1 DEF ValidateMachine, GoTo, Abort, EndPass
  <1>2. CASE CreateServer \/ AwaitActive \/ SetProviderID \/ PatchLabels \/ PatchStatus
             \/ DeleteLookup \/ DeleteServer \/ AwaitDelete
    BY <1>2
       DEF CreateServer, AwaitActive, SetProviderID, PatchLabels, PatchStatus, DeleteLookup,
           DeleteServer, AwaitDelete, GoTo, EndPass, Abort, Write, Answered
  <1>3. CASE Fetch \/ NotFound \/ StayFailed \/ AddFinalizer \/ RemoveFinalizer \/ MarkDeleting
             \/ CheckExists
    BY <1>3 DEF Fetch, NotFound, StayFailed, AddFinalizer, RemoveFinalizer, MarkDeleting, CheckExists, EndPass,
                Write, Answered
  <1>4. CASE CheckDeleted \/ DeleteNode
    BY <1>4 DEF CheckDeleted, DeleteNode, EndPass, GoTo
  <1>5. CASE Update \/ Create
    BY <1>5 DEF Update, Create, Reconcile, Abort, EndPass
  <1>6. CASE MarkProvisioned \/ ReportError \/ MarkMissing \/ MarkProvisioning \/ MarkInvalid
             \/ MarkFailed
    BY <1>6 DEF MarkProvisioned, ReportError, MarkMissing, MarkProvisioning, MarkInvalid, MarkFailed,
                FinishWithStatus, AnnotateFailed, Write, EndPass
  <1>7. CASE Drainer \/ Informer \/ User \/ Editor \/ HookOwner \/ NovaWorks \/ Kubelet \/ NodeLink \/ Tamper
    BY <1>7 DEF Drainer, Informer, User, Editor, HookOwner, NovaWorks, Kubelet, NodeLink, Tamper
  <1>8. CASE Crash \/ Panic \/ Finished \/ UNCHANGED vars
    BY <1>8 DEF Crash, Panic, Restart, Finished, vars
  <1> QED BY <1>1, <1>2, <1>3, <1>4, <1>5, <1>6, <1>7, <1>8
          DEF Next, Worker, ControllerStep, ActuatorStep

(* Only a verdict of MarkInvalid writes a reason other than the stored one or none. *)
LEMMA ToReason ==
  ASSUME IndInv, [Next]_vars
  PROVE  api'.reason \in {api.reason, "none"} \/ pc = "failInvalid"
  <1>1. CASE AddFinalizer \/ MarkDeleting \/ RemoveFinalizer
    BY <1>1, AddFinalizerEffect, MarkDeletingEffect, RemoveFinalizerEffect DEF Silent, KeepStatus
  <1>2. CASE SetProviderID \/ PatchLabels \/ PatchStatus
    BY <1>2, SetProviderIDEffect, PatchLabelsEffect, PatchStatusEffect DEF Silent, KeepStatus
  <1>3. CASE Drainer \/ User \/ Editor \/ HookOwner \/ NodeLink
    BY <1>3, DrainerEffect, UserEffect, EditorEffect, HookOwnerEffect, NodeLinkEffect
       DEF Silent, KeepStatus
  <1>4. CASE MarkProvisioned \/ ReportError \/ MarkProvisioning \/ (MarkFailed /\ pc = "failMissing")
    <2>1. /\ Deref(m.phase) \in Phases
          /\ {"Running", "Provisioned", "Provisioning", "Failed"} \subseteq Phases
      BY DerefType DEF IndInv, TypeOK, Machine, Phases
    <2>2. \E phase \in Phases, again \in BOOLEAN : FinishWithStatus(phase, "none", again)
      BY <1>4, <2>1, Zenon DEF MarkProvisioned, ReportError, MarkProvisioning, MarkFailed
    <2>3. "none" \in Reasons
      BY DEF Reasons
    <2> QED BY <2>2, <2>3, FinishEffect DEF Silent
  <1>5. CASE MarkMissing \/ MarkInvalid \/ (MarkFailed /\ pc # "failMissing")
    BY <1>5, AnnotateEffect DEF MarkMissing, MarkInvalid, MarkFailed, Silent, KeepStatus
  <1>6. CASE ValidateMachine \/ CreateServer \/ AwaitActive \/ DeleteLookup \/ DeleteServer \/ AwaitDelete
    BY <1>6 DEF ValidateMachine, CreateServer, AwaitActive, DeleteLookup, DeleteServer, AwaitDelete
  <1>7. CASE Fetch \/ NotFound \/ StayFailed \/ CheckDeleted \/ DeleteNode \/ CheckExists \/ Update \/ Create
    BY <1>7 DEF Fetch, NotFound, StayFailed, CheckDeleted, DeleteNode, CheckExists, Update, Create,
                Reconcile
  <1>8. CASE Informer \/ NovaWorks \/ Kubelet \/ Tamper \/ Crash \/ Panic \/ Finished \/ UNCHANGED vars
    BY <1>8 DEF Informer, Deliver, NovaWorks, Kubelet, Tamper, Crash, Panic, Restart, Finished, vars,
                kubeVars
  <1> QED BY <1>1, <1>2, <1>3, <1>4, <1>5, <1>6, <1>7, <1>8
          DEF Next, Worker, ControllerStep, ActuatorStep

LEMMA VerdictStep == IndInv /\ VerdictInv /\ [Next]_vars => VerdictInv'
  <1> SUFFICES ASSUME IndInv, VerdictInv, [Next]_vars, SpecValid, faults' = 0
               PROVE  /\ pc' \notin {"invalid", "failInvalid"}
                      /\ api'.reason # "InvalidConfiguration"
    BY DEF VerdictInv
  <1>1. faults \in Nat /\ faults' # faults + 1
    BY DEF IndInv, TypeOK
  <1>2. faults = 0 /\ ~ Fault
    BY <1>1, FaultsCount DEF Fault
  <1> QED BY <1>2, ToInvalid, ToReason DEF VerdictInv

(* A Machine whose provider spec is valid is declared invalid only after something has gone
   wrong outside it: validateMachine turns a failed request into the verdict. *)
THEOREM InvalidTakesAFault == Spec => [](faults = 0 => InvalidMeansInvalid)
  <1>1. Init => VerdictInv
    BY DEF Init, KubeInit, NewMachine, NoMachine, VerdictInv
  <1>2. VerdictInv => (faults = 0 => InvalidMeansInvalid)
    BY DEF VerdictInv, InvalidMeansInvalid
  <1> QED BY <1>1, <1>2, StatusInvariant, VerdictStep, PTL DEF Spec, Layers
=============================================================================
