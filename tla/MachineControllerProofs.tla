----------------------- MODULE MachineControllerProofs -----------------------
(***************************************************************************)
(* Proofs about the machine controller and the actuator, for every set of  *)
(* servers, every number of failures, and with or without informer lag and *)
(* external deletions.                                                     *)
(*                                                                         *)
(* First TypeOK.  Then IndInv, which says what an outdated copy of the     *)
(* Machine still guarantees (CopiesOK), what the stored providerID         *)
(* promises about Nova (ProviderOK) and what the worker has seen before    *)
(* its next request (WorkerOK).  From it follow ProviderServerGone and     *)
(* ProviderIDFixed.                                                        *)
(***************************************************************************)
EXTENDS MachineController, TLAPS

USE NoneAssumption, TamperingAssumption, SpecAssumption, MaxFaultsAssumption,
    CacheLagAssumption, HooksAssumption, MaxEditsAssumption

(* The parts of TypeOK: the worker's call frame, the store and its copies, Nova. *)
FrameOK == /\ pc \in Labels /\ m \in Machine /\ st \in Servers \union {None}
           /\ via \in {"none", "create", "update"} /\ queued \in BOOLEAN
StoreOK == api \in Machine /\ cached \in Machine /\ watch \subseteq Machine
CloudOK == servers \in [Servers -> ServerStates] /\ node \in BOOLEAN

(* The Machine that an idle worker and an empty cache hold is a Machine. *)
LEMMA NoMachineType == NoMachine \in Machine
  BY DEF NoMachine, Machine, Phases, Reasons

(* Whatever hooks it has, the Machine that is created is one. *)
LEMMA NewMachineType == NewMachine \in Machine
  BY HooksAssumption, NoMachineType DEF NewMachine, Machine

(* A Machine that others have edited once more is a Machine. *)
LEMMA EditedType ==
  ASSUME api \in Machine, api.edits < MaxEdits
  PROVE  /\ [api EXCEPT !.edits = @ + 1] \in Machine
         /\ [api EXCEPT !.edits = @ + 1].providerID = api.providerID
  <1>1. api.edits + 1 \in 0..MaxEdits
    BY DEF Machine
  <1> QED BY <1>1 DEF Machine

(* A Machine without one of its hooks is a Machine. *)
LEMMA UnhookedType ==
  ASSUME api \in Machine, NEW h
  PROVE  [api EXCEPT !.hooks = @ \ {h}] \in Machine
  BY DEF Machine

(* A write to the store (Put) keeps the store, the cache and the watch well typed. *)
LEMMA PutType ==
  ASSUME StoreOK, NEW obj \in Machine, Put(obj)
  PROVE  StoreOK'
  <1>1. Stored(obj) \in Machine
    BY DEF StoreOK, Stored, Machine
  <1> QED BY <1>1 DEF StoreOK, Put

(* The end of a pass leaves a well-typed, idle worker. *)
LEMMA EndPassType ==
  ASSUME queued \in BOOLEAN, NEW again \in BOOLEAN, EndPass(again)
  PROVE  FrameOK'
  <1>1. queued' \in BOOLEAN
    BY Zenon DEF EndPass
  <1> QED BY <1>1, NoMachineType DEF EndPass, FrameOK, Labels

(* A failed Create or Update leaves a well-typed worker. *)
LEMMA AbortType ==
  ASSUME FrameOK, NEW call, Abort(call)
  PROVE  FrameOK'
  <1>1. CASE call = "update"
    BY <1>1 DEF Abort, FrameOK, Labels
  <1>2. CASE call # "update"
    BY <1>2, EndPassType DEF Abort, FrameOK
  <1> QED BY <1>1, <1>2

(* Counting a fault never exceeds the bound. *)
LEMMA FaultType ==
  ASSUME faults \in 0..MaxFaults, Fault \/ NoFault
  PROVE  faults' \in 0..MaxFaults
  BY DEF Fault, NoFault

(* A jump to another request keeps the call frame well typed. *)
LEMMA GoToType ==
  ASSUME FrameOK, NEW label \in Labels, GoTo(label)
  PROVE  FrameOK'
  BY DEF GoTo, FrameOK, frame

(* So does going on with the answer of a write. *)
LEMMA AnsweredType ==
  ASSUME FrameOK, StoreOK', NEW label \in Labels, Answered(label)
  PROVE  FrameOK'
  BY DEF Answered, FrameOK, StoreOK

(* Labels and annotations patched from the worker's copy leave a Machine. *)
LEMMA RelabelledType ==
  ASSUME StoreOK
  PROVE  /\ [api EXCEPT !.labels = IF m.labels = "set" THEN @ ELSE "set"] \in Machine
         /\ [api EXCEPT !.labels = IF m.labels = "unknown" THEN @ ELSE "unknown"] \in Machine
  BY DEF StoreOK, Machine

(* An absent phase is written as the empty one. *)
LEMMA DerefType == ASSUME NEW phase \in Phases PROVE Deref(phase) \in Phases
  BY DEF Deref, Phases

(* TypeOK, cut into the parts that the actions disturb separately. *)
LEMMA TypeParts ==
  TypeOK <=> /\ StoreOK /\ FrameOK /\ CloudOK
             /\ drainQueued \in BOOLEAN
             /\ faults \in 0..MaxFaults
             /\ drain \in Nat
  BY DEF TypeOK, StoreOK, FrameOK, CloudOK

(* The same, for the state after a step. *)
LEMMA TypePrimed ==
  ASSUME StoreOK', FrameOK', CloudOK', drainQueued' \in BOOLEAN,
         faults' \in 0..MaxFaults, drain' \in Nat
  PROVE  TypeOK'
  BY DEF TypeOK, StoreOK, FrameOK, CloudOK

(* Every request of the actuator's Create, Update and Delete keeps the state well typed. *)
LEMMA ActuatorType ==
  ASSUME TypeOK, ActuatorStep, UNCHANGED drain
  PROVE  TypeOK'
  <1> USE TypeParts, TypePrimed
  <1>f. Fault \/ NoFault
    BY DEF ActuatorStep, ValidateMachine, CreateServer, AwaitActive, SetProviderID,
           PatchLabels, PatchStatus, DeleteLookup, DeleteServer, AwaitDelete,
           LookupFails, LookupReturns, Write
  <1>g. faults' \in 0..MaxFaults /\ drain' \in Nat
    BY <1>f, FaultType DEF TypeOK
  <1>1. CASE ValidateMachine
    <2>1. FrameOK'
      BY <1>1, AbortType, GoToType DEF ValidateMachine, Labels
    <2> QED BY <1>1, <1>g, <2>1 DEF ValidateMachine, StoreOK, CloudOK, novaVars
  <1>2. CASE CreateServer
    <2>1. FrameOK'
      BY <1>2, AbortType DEF CreateServer, FrameOK, Labels
    <2>2. CloudOK'
      BY <1>2 DEF CreateServer, Boot, CloudOK, ServerStates
    <2> QED BY <1>2, <1>g, <2>1, <2>2 DEF CreateServer, StoreOK
  <1>3. CASE AwaitActive
    <2>1. FrameOK'
      BY <1>3, AbortType, GoToType DEF AwaitActive, Labels
    <2> QED BY <1>3, <1>g, <2>1 DEF AwaitActive, StoreOK, CloudOK, novaVars
  <1>4. CASE SetProviderID
    <2>1. CASE m.providerID # None
      <3>1. FrameOK'
        BY <1>4, <2>1, GoToType DEF SetProviderID, Labels
      <3> QED BY <1>4, <1>g, <2>1, <3>1 DEF SetProviderID, StoreOK, CloudOK, novaVars
    <2>2. CASE m.providerID = None
      <3>1. [api EXCEPT !.providerID = st] \in Machine
        BY DEF StoreOK, FrameOK, Machine
      <3>2. StoreOK'
        BY <1>4, <2>2, <3>1, PutType DEF SetProviderID, Write, StoreOK
      <3>3. FrameOK'
        BY <1>4, <2>2, <3>2, AbortType, AnsweredType DEF SetProviderID, Write, Labels
      <3> QED BY <1>4, <1>g, <3>2, <3>3 DEF SetProviderID, CloudOK, novaVars
    <2> QED BY <2>1, <2>2
  <1>5. CASE PatchLabels
    <2>1. StoreOK'
      BY <1>5, RelabelledType, PutType DEF PatchLabels, Write, StoreOK
    <2>2. FrameOK'
      BY <1>5, <2>1, AbortType, AnsweredType DEF PatchLabels, Write, Labels
    <2> QED BY <1>5, <1>g, <2>1, <2>2 DEF PatchLabels, CloudOK, novaVars
  <1>6. CASE PatchStatus
    <2>1. [api EXCEPT !.addresses = TRUE] \in Machine
      BY DEF StoreOK, Machine
    <2>2. StoreOK'
      BY <1>6, <2>1, PutType DEF PatchStatus, Write, StoreOK
    <2>3. CASE Abort(via)
      BY <1>6, <1>g, <2>2, <2>3, AbortType DEF PatchStatus, CloudOK, novaVars
    <2>4. CASE EndPass(TRUE)
      <3>1. FrameOK'
        BY <2>4, EndPassType DEF FrameOK
      <3> QED BY <1>6, <1>g, <2>2, <3>1 DEF PatchStatus, CloudOK, novaVars
    <2>5. CASE pc' = "updated" /\ m' = api' /\ st' = None /\ via' = "none" /\ queued' = queued
      <3>1. FrameOK'
        BY <2>2, <2>5 DEF FrameOK, StoreOK, Labels
      <3> QED BY <1>6, <1>g, <2>2, <3>1 DEF PatchStatus, CloudOK, novaVars
    <2> QED BY <1>6, <2>3, <2>4, <2>5 DEF PatchStatus, Write
  <1>7. CASE DeleteLookup
    <2>1. FrameOK'
      BY <1>7, EndPassType, GoToType DEF DeleteLookup, FrameOK, Labels
    <2> QED BY <1>7, <1>g, <2>1 DEF DeleteLookup, StoreOK, CloudOK, novaVars
  <1>8. CASE DeleteServer
    <2>1. FrameOK'
      BY <1>8, EndPassType, GoToType DEF DeleteServer, FrameOK, Labels
    <2>2. CloudOK'
      BY <1>8 DEF DeleteServer, Terminate, CloudOK, ServerStates
    <2> QED BY <1>8, <1>g, <2>1, <2>2 DEF DeleteServer, StoreOK
  <1>9. CASE AwaitDelete
    <2>1. FrameOK'
      BY <1>9, EndPassType, GoToType DEF AwaitDelete, FrameOK, Labels
    <2> QED BY <1>9, <1>g, <2>1 DEF AwaitDelete, StoreOK, CloudOK, novaVars
  <1> QED BY <1>1, <1>2, <1>3, <1>4, <1>5, <1>6, <1>7, <1>8, <1>9 DEF ActuatorStep

(* The object that updateStatus asks for is a Machine. *)
LEMMA WithStatusType ==
  ASSUME StoreOK, FrameOK, NEW phase \in Phases, NEW reason \in Reasons,
         NEW rewrite \in BOOLEAN
  PROVE  WithStatus(phase, reason, rewrite) \in Machine
  <1> DEFINE p == IF m.phase = phase THEN api.phase ELSE phase
             r == IF m.reason = reason THEN api.reason ELSE reason
             h == IF rewrite THEN m.hooks ELSE api.reported
             d == IF rewrite THEN m.drained ELSE api.drained
  <1>1. p \in Phases /\ r \in Reasons
    BY DEF StoreOK, Machine
  <1>2. h \in (SUBSET HookKinds) \union {Unreported}
    BY DEF StoreOK, FrameOK, Machine
  <1>3. d \in BOOLEAN
    BY DEF StoreOK, FrameOK, Machine
  <1>4. WithStatus(phase, reason, rewrite)
          = [api EXCEPT !.phase = p, !.reason = r, !.reported = h, !.drained = d]
    BY DEF WithStatus
  <1> HIDE DEF p, r, h, d
  <1> QED BY <1>1, <1>2, <1>3, <1>4 DEF StoreOK, Machine

(* updateStatus at the end of a pass keeps the state well typed. *)
LEMMA FinishType ==
  ASSUME StoreOK, FrameOK, faults \in 0..MaxFaults,
         NEW phase \in Phases, NEW reason \in Reasons, NEW again \in BOOLEAN,
         FinishWithStatus(phase, reason, again)
  PROVE  StoreOK' /\ FrameOK' /\ faults' \in 0..MaxFaults
  <1>1. StoreOK'
    BY PutType, WithStatusType DEF FinishWithStatus, Write, StoreOK
  <1>2. FrameOK'
    BY EndPassType DEF FinishWithStatus, Write, FrameOK
  <1>3. faults' \in 0..MaxFaults
    BY FaultType DEF FinishWithStatus, Write
  <1> QED BY <1>1, <1>2, <1>3

(* The worker's copy with the phase and the reason of another Machine is one. *)
LEMMA RefreshedType ==
  ASSUME m \in Machine, NEW a \in Machine
  PROVE  [m EXCEPT !.phase = a.phase, !.reason = a.reason] \in Machine
  BY DEF Machine

(* The annotation of a Failed Machine keeps the state well typed. *)
LEMMA AnnotateType ==
  ASSUME StoreOK, FrameOK, faults \in 0..MaxFaults, NEW label \in Labels, AnnotateFailed(label)
  PROVE  StoreOK' /\ FrameOK' /\ faults' \in 0..MaxFaults
  <1>1. StoreOK'
    BY RelabelledType, PutType DEF AnnotateFailed, Write, StoreOK
  <1>2. faults' \in 0..MaxFaults
    BY FaultType DEF AnnotateFailed, Write
  <1>3. CASE EndPass(TRUE)
    BY <1>1, <1>2, <1>3, EndPassType DEF FrameOK
  <1>4. CASE /\ pc' = label
             /\ m' = [m EXCEPT !.phase = api'.phase, !.reason = api'.reason]
             /\ UNCHANGED <<st, via, queued>>
    <2>1. m' \in Machine
      BY <1>1, <1>4, RefreshedType DEF StoreOK, FrameOK
    <2> QED BY <1>1, <1>2, <1>4, <2>1 DEF FrameOK
  <1> QED BY <1>1, <1>2, <1>3, <1>4 DEF AnnotateFailed, Write

(* The lookup at the start of Create and Update keeps the state well typed. *)
LEMMA ReconcileType ==
  ASSUME TypeOK, NEW call \in {"create", "update"}, Reconcile(call), UNCHANGED drain
  PROVE  TypeOK'
  <1> USE TypeParts, TypePrimed
  <1>1. FrameOK'
    BY AbortType DEF Reconcile, FrameOK, Labels
  <1>2. faults' \in 0..MaxFaults
    BY FaultType DEF Reconcile, LookupFails, LookupReturns
  <1> QED BY <1>1, <1>2 DEF Reconcile, StoreOK, CloudOK, novaVars

(* Every branch of the machine controller's Reconcile keeps the state well typed. *)
LEMMA ControllerType ==
  ASSUME TypeOK, ControllerStep, UNCHANGED drain
  PROVE  TypeOK'
  <1> USE TypeParts, TypePrimed
  <1>1. CASE Fetch
    BY <1>1 DEF Fetch, StoreOK, FrameOK, CloudOK, novaVars, Labels
  <1>2. CASE NotFound \/ StayFailed
    BY <1>2, EndPassType DEF NotFound, StayFailed, StoreOK, FrameOK, CloudOK, novaVars
  <1>3. CASE AddFinalizer
    <2>1. [api EXCEPT !.finalizer = TRUE] \in Machine
      BY DEF StoreOK, Machine
    <2>2. StoreOK'
      BY <1>3, <2>1, PutType DEF AddFinalizer, Write, StoreOK
    <2>3. FrameOK' /\ faults' \in 0..MaxFaults
      BY <1>3, EndPassType, FaultType DEF AddFinalizer, Write, FrameOK
    <2> QED BY <1>3, <2>2, <2>3 DEF AddFinalizer, CloudOK, novaVars
  <1>4. CASE MarkDeleting
    <2>1. WithStatus("Deleting", "none", m.reported # m.hooks) \in Machine
      <3>1. (m.reported # m.hooks) \in BOOLEAN
        BY Zenon
      <3> QED BY <3>1, WithStatusType DEF Phases, Reasons
    <2>2. StoreOK'
      BY <1>4, <2>1, PutType DEF MarkDeleting, Write, StoreOK
    <2>3. FrameOK'
      <3>1. EndPass(TRUE) \/ EndPass(FALSE) \/ Answered("delete")
        BY <1>4 DEF MarkDeleting, Write
      <3> QED BY <2>2, <3>1, EndPassType, AnsweredType DEF FrameOK, Labels
    <2>4. faults' \in 0..MaxFaults
      BY <1>4, FaultType DEF MarkDeleting, Write
    <2> QED BY <1>4, <2>2, <2>3, <2>4 DEF MarkDeleting, CloudOK, novaVars
  <1>5. CASE CheckDeleted
    <2>1. FrameOK'
      BY <1>5, EndPassType DEF CheckDeleted, FrameOK, Labels
    <2>2. faults' \in 0..MaxFaults
      BY <1>5, FaultType DEF CheckDeleted, Exists, LookupFails, LookupReturns
    <2> QED BY <1>5, <2>1, <2>2 DEF CheckDeleted, StoreOK, CloudOK, novaVars
  <1>6. CASE DeleteNode
    <2>1. FrameOK'
      BY <1>6, EndPassType, GoToType DEF DeleteNode, FrameOK, Labels
    <2>2. faults' \in 0..MaxFaults
      BY <1>6, FaultType DEF DeleteNode
    <2> QED BY <1>6, <2>1, <2>2 DEF DeleteNode, StoreOK, CloudOK
  <1>7. CASE RemoveFinalizer
    <2>1. [api EXCEPT !.finalizer = FALSE, !.exists = FALSE] \in Machine
      BY DEF StoreOK, Machine
    <2>2. StoreOK'
      BY <1>7, <2>1, PutType DEF RemoveFinalizer, Write, StoreOK
    <2>3. FrameOK' /\ faults' \in 0..MaxFaults
      BY <1>7, EndPassType, FaultType DEF RemoveFinalizer, Write, FrameOK
    <2> QED BY <1>7, <2>2, <2>3 DEF RemoveFinalizer, CloudOK, novaVars
  <1>8. CASE CheckExists
    <2>1. FrameOK'
      BY <1>8 DEF CheckExists, FrameOK, frame, Labels
    <2>2. faults' \in 0..MaxFaults
      BY <1>8, FaultType DEF CheckExists, Exists, LookupFails, LookupReturns
    <2> QED BY <1>8, <2>1, <2>2 DEF CheckExists, StoreOK, CloudOK, novaVars
  <1>9. CASE Update
    BY <1>9, ReconcileType DEF Update
  <1>10. CASE Create
    BY <1>10, ReconcileType DEF Create
  <1>11. CASE MarkProvisioned
    BY <1>11, FinishType DEF MarkProvisioned, CloudOK, novaVars, Phases, Reasons
  <1>12. CASE ReportError
    <2>1. Deref(m.phase) \in Phases
      BY DerefType DEF FrameOK, Machine
    <2> QED BY <1>12, <2>1, FinishType DEF ReportError, CloudOK, novaVars, Reasons
  <1>13. CASE MarkMissing \/ MarkInvalid
    BY <1>13, AnnotateType DEF MarkMissing, MarkInvalid, CloudOK, novaVars, Labels
  <1>14. CASE MarkProvisioning
    BY <1>14, FinishType DEF MarkProvisioning, CloudOK, novaVars, Phases, Reasons
  <1>15. CASE MarkFailed
    BY <1>15, FinishType DEF MarkFailed, CloudOK, novaVars, Phases, Reasons
  <1> QED BY <1>1, <1>2, <1>3, <1>4, <1>5, <1>6, <1>7, <1>8, <1>9, <1>10, <1>11,
             <1>12, <1>13, <1>14, <1>15 DEF ControllerStep

(* A restart of the process leaves a well-typed state. *)
LEMMA RestartType ==
  ASSUME TypeOK, Restart, faults' \in 0..MaxFaults
  PROVE  TypeOK'
  <1> USE TypeParts, TypePrimed
  <1>1. queued' \in BOOLEAN /\ drainQueued' \in BOOLEAN
    BY DEF Restart, StoreOK, Machine
  <1> QED BY <1>1, NoMachineType DEF Restart, StoreOK, FrameOK, CloudOK, novaVars, Labels

(* The drain controller, the informer, Nova, users and failures keep the state well typed. *)
LEMMA OthersType ==
  ASSUME TypeOK, Next, ~ Worker
  PROVE  TypeOK'
  <1> USE TypeParts, TypePrimed
  <1>1. CASE DrainStart /\ UNCHANGED <<novaVars, pc, frame>>
    <2>1. cached.rv \in Nat
      BY DEF StoreOK, Machine
    <2>2. drain' \in Nat
      BY <1>1, <2>1 DEF DrainStart
    <2> QED BY <1>1, <2>2 DEF DrainStart, StoreOK, FrameOK, CloudOK, novaVars, frame
  <1>2. CASE DrainFinish /\ UNCHANGED <<novaVars, pc, frame>>
    <2>1. [api EXCEPT !.drained = TRUE] \in Machine
      BY DEF StoreOK, Machine
    <2>2. StoreOK'
      BY <1>2, <2>1, PutType DEF DrainFinish, Write, StoreOK
    <2>3. faults' \in 0..MaxFaults /\ drainQueued' \in BOOLEAN
      <3>1. faults' \in 0..MaxFaults
        BY <1>2, FaultType DEF DrainFinish, Write
      <3>2. drainQueued' \in BOOLEAN
        BY <1>2, Zenon DEF DrainFinish, Write
      <3> QED BY <3>1, <3>2
    <2> QED BY <1>2, <2>2, <2>3 DEF DrainFinish, FrameOK, CloudOK, novaVars, frame
  <1>3. CASE Informer
    BY <1>3 DEF Informer, Deliver, StoreOK, FrameOK, CloudOK, novaVars, frame
  <1>4. CASE User
    <2>1. [api EXCEPT !.deleting = TRUE] \in Machine /\ [api EXCEPT !.exists = FALSE] \in Machine
      BY DEF StoreOK, Machine
    <2>2. StoreOK'
      BY <1>4, <2>1, PutType DEF User, UserDelete
    <2> QED BY <1>4, <2>2 DEF User, UserDelete, FrameOK, CloudOK, novaVars, frame
  <1>4e. CASE Editor
    <2>1. StoreOK'
      BY <1>4e, EditedType, PutType DEF Editor, UserEdit, StoreOK
    <2> QED BY <1>4e, <2>1 DEF Editor, UserEdit, FrameOK, CloudOK, novaVars, frame
  <1>4h. CASE HookOwner
    <2>1. StoreOK'
      BY <1>4h, UnhookedType, PutType DEF HookOwner, RemoveHook, StoreOK
    <2> QED BY <1>4h, <2>1 DEF HookOwner, RemoveHook, FrameOK, CloudOK, novaVars, frame
  <1>5. CASE NovaWorks
    <2>1. CloudOK'
      BY <1>5 DEF NovaWorks, NovaBuild, NovaReap, CloudOK, ServerStates
    <2> QED BY <1>5, <2>1 DEF NovaWorks, StoreOK, FrameOK, kubeVars, frame
  <1>6. CASE Kubelet
    BY <1>6 DEF Kubelet, NodeRegister, StoreOK, FrameOK, CloudOK, kubeVars, frame
  <1>7. CASE NodeLink
    <2>1. [api EXCEPT !.nodeRef = TRUE] \in Machine
      BY DEF StoreOK, Machine
    <2>2. StoreOK'
      BY <1>7, <2>1, PutType DEF NodeLink
    <2> QED BY <1>7, <2>2 DEF NodeLink, FrameOK, CloudOK, novaVars, frame
  <1>8. CASE Tamper
    <2>1. CloudOK'
      BY <1>8 DEF Tamper, ExternalDelete, CloudOK, ServerStates
    <2> QED BY <1>8, <2>1, FaultType DEF Tamper, StoreOK, FrameOK, kubeVars, frame
  <1>9. CASE Crash
    BY <1>9, RestartType, FaultType DEF Crash
  <1>10. CASE Panic
    BY <1>10, RestartType, FaultType DEF Panic
  <1>11. CASE Finished
    BY <1>11 DEF Finished, vars, StoreOK, FrameOK, CloudOK, kubeVars, novaVars, frame
  <1> QED BY <1>1, <1>2, <1>3, <1>4, <1>4e, <1>4h, <1>5, <1>6, <1>7, <1>8, <1>9, <1>10, <1>11
          DEF Next, Drainer

(* TypeOK is inductive. *)
LEMMA Typing ==
  ASSUME TypeOK, [Next]_vars
  PROVE  TypeOK'
  <1>1. CASE Worker
    BY <1>1, ControllerType, ActuatorType DEF Worker
  <1>2. CASE Next /\ ~ Worker
    BY <1>2, OthersType
  <1>3. CASE UNCHANGED vars
    BY <1>3 DEF TypeOK, vars, kubeVars, novaVars, frame
  <1> QED BY <1>1, <1>2, <1>3

(* TypeOK holds initially. *)
LEMMA InitType == Init => TypeOK
  <1> SUFFICES ASSUME Init PROVE TypeOK
    OBVIOUS
  <1>1. StoreOK
    BY NoMachineType, NewMachineType DEF Init, KubeInit, StoreOK
  <1>2. FrameOK
    <2>1. queued \in BOOLEAN
      BY Zenon DEF Init, KubeInit
    <2> QED BY <2>1, NoMachineType DEF Init, FrameOK, Labels
  <1>3. CloudOK
    <2>1. node \in BOOLEAN
      BY Zenon DEF Init, NovaInit
    <2> QED BY <2>1 DEF Init, NovaInit, CloudOK, ServerStates
  <1>4. drainQueued \in BOOLEAN
    BY Zenon DEF Init, KubeInit
  <1>5. faults \in 0..MaxFaults /\ drain \in Nat
    BY DEF Init
  <1> QED BY <1>1, <1>2, <1>3, <1>4, <1>5, TypeParts

(* Type correctness of the manager, Nova and the API server, for any set of servers
   and any number of failures. *)
THEOREM TypeCorrect == Spec => []TypeOK
  BY InitType, Typing, PTL DEF Spec

-----------------------------------------------------------------------------
(* Servers only move forward. *)
ServersOnward ==
  \A s \in Servers : /\ servers[s] # "absent" => servers'[s] # "absent"
                     /\ servers[s] = "gone" => servers'[s] = "gone"

(* What a write may ask for without invalidating an older copy. *)
Successor(obj) ==
  /\ obj \in Machine
  /\ obj.rv = api.rv
  /\ obj.exists => api.exists
  /\ obj.exists /\ api.finalizer => obj.finalizer
  /\ api.providerID # None => obj.providerID = api.providerID

(* A copy of the stored object is still a copy of its successor. *)
LEMMA CopyStored ==
  ASSUME api \in Machine, NEW o \in Machine, IsCopy(o, api),
         NEW obj, Successor(obj)
  PROVE  IsCopy(o, Stored(obj))
  <1>1. CASE obj = api
    BY <1>1 DEF Stored
  <1>2. CASE obj # api
    <2>1. /\ Stored(obj).rv = api.rv + 1
          /\ Stored(obj).exists = obj.exists
          /\ Stored(obj).finalizer = obj.finalizer
          /\ Stored(obj).providerID = obj.providerID
      BY <1>2 DEF Stored, Successor, Machine
    <2>2. o.rv \in Nat /\ api.rv \in Nat
      BY DEF Machine
    <2> QED BY <2>1, <2>2 DEF IsCopy, Successor
  <1> QED BY <1>1, <1>2

(* The stored object is a copy of itself. *)
LEMMA CopySelf == ASSUME NEW o \in Machine PROVE IsCopy(o, o)
  BY DEF IsCopy, Machine

(* The empty copy of an idle worker is a copy of anything that was ever stored. *)
LEMMA CopyNone ==
  ASSUME NEW a \in Machine, a.rv > 0
  PROVE  IsCopy(NoMachine, a)
  <1>1. NoMachine.rv = 0 /\ NoMachine.finalizer = FALSE /\ NoMachine.providerID = None
    BY DEF NoMachine
  <1>2. a.rv \in Nat /\ NoMachine # a
    BY <1>1 DEF Machine
  <1> QED BY <1>1, <1>2 DEF IsCopy

(* A step that writes nothing and at most fetches from the cache keeps all copies copies. *)
LEMMA CopiesKeep ==
  ASSUME TypeOK, CopiesOK, UNCHANGED <<api, cached, watch>>,
         m' = m \/ m' = cached \/ m' = NoMachine
  PROVE  CopiesOK'
  BY CopyNone DEF TypeOK, CopiesOK

(* A write of a successor keeps all copies copies, the response included. *)
LEMMA CopiesPut ==
  ASSUME TypeOK, TypeOK', CopiesOK, NEW obj, Successor(obj), Put(obj),
         m' = m \/ m' = api' \/ m' = NoMachine \/ IsCopy(m', api')
  PROVE  CopiesOK'
  <1>1. api' = Stored(obj) /\ cached' = cached
    BY DEF Put
  <1>2. api'.rv \in Nat /\ api'.rv > 0
    BY <1>1 DEF Stored, Successor, CopiesOK, TypeOK, Machine
  <1>3. IsCopy(cached, api') /\ IsCopy(m, api')
    BY <1>1, CopyStored DEF TypeOK, CopiesOK
  <1>4. IsCopy(api', api') /\ IsCopy(NoMachine, api')
    <2>1. api' \in Machine
      BY DEF TypeOK
    <2> QED BY <1>2, <2>1, CopySelf, CopyNone
  <1>5. \A w \in watch' : IsCopy(w, api')
    <2> SUFFICES ASSUME NEW w \in watch' PROVE IsCopy(w, api')
      OBVIOUS
    <2>1. CASE w \in watch
      BY <1>1, <2>1, CopyStored DEF TypeOK, CopiesOK
    <2>2. CASE w = api'
      BY <2>2, <1>4
    <2> QED BY <1>1, <2>1, <2>2 DEF Put
  <1> QED BY <1>1, <1>2, <1>3, <1>4, <1>5 DEF CopiesOK

(* A step that writes nothing keeps what the providerID promises. *)
LEMMA ProviderKeep ==
  ASSUME TypeOK, ProviderOK, ServersOnward, UNCHANGED api
  PROVE  ProviderOK'
  BY DEF TypeOK, ProviderOK, ServersOnward, Machine

(* So does a write that leaves providerID and existence alone and drops no finalizer. *)
LEMMA ProviderPut ==
  ASSUME TypeOK, ProviderOK, ServersOnward, NEW obj \in Machine, Put(obj),
         obj.providerID = api.providerID, obj.exists = api.exists,
         api.finalizer => obj.finalizer
  PROVE  ProviderOK'
  <1>1. /\ api'.providerID = api.providerID
        /\ api'.exists = api.exists
        /\ api.finalizer => api'.finalizer
    BY DEF Put, Stored, Machine
  <1> QED BY <1>1 DEF TypeOK, ProviderOK, ServersOnward, Machine

(* Servers that do not change do not go back. *)
LEMMA OnwardKeep == ASSUME UNCHANGED servers PROVE ServersOnward
  BY DEF ServersOnward

(* No step brings a server back, or makes a requested one unrequested: UUIDs are not
   reused and no request undoes a deletion. *)
LEMMA Onward == ASSUME TypeOK, [Next]_vars PROVE ServersOnward
  <1>1. CASE CreateServer
    BY <1>1 DEF CreateServer, Boot, ServersOnward, TypeOK
  <1>2. CASE DeleteServer
    BY <1>2 DEF DeleteServer, Terminate, ServersOnward, TypeOK
  <1>3. CASE NovaWorks
    BY <1>3 DEF NovaWorks, NovaBuild, NovaReap, ServersOnward, TypeOK
  <1>4. CASE Tamper
    BY <1>4 DEF Tamper, ExternalDelete, ServersOnward, TypeOK
  <1>5. CASE UNCHANGED servers
    BY <1>5, OnwardKeep
  <1>6. ActuatorStep => CreateServer \/ DeleteServer \/ UNCHANGED servers
    BY DEF ActuatorStep, ValidateMachine, AwaitActive, SetProviderID, PatchLabels,
           PatchStatus, DeleteLookup, AwaitDelete, novaVars
  <1>7. ControllerStep => UNCHANGED servers
    BY DEF ControllerStep, Fetch, NotFound, StayFailed, AddFinalizer, MarkDeleting,
           CheckDeleted, DeleteNode, RemoveFinalizer, CheckExists, Update,
           MarkProvisioned, ReportError, MarkMissing, MarkProvisioning, Create,
           MarkInvalid, MarkFailed, Reconcile, novaVars
  <1>8. Drainer \/ Informer \/ User \/ Editor \/ HookOwner \/ Kubelet \/ NodeLink \/ Crash \/ Panic \/ Finished
          => UNCHANGED servers
    BY DEF Drainer, Informer, User, Editor, HookOwner, Kubelet, NodeRegister, NodeLink, Crash, Panic,
           Restart, Finished, vars, novaVars
  <1>9. UNCHANGED vars => UNCHANGED servers
    BY DEF vars, novaVars
  <1> QED BY <1>1, <1>2, <1>3, <1>4, <1>5, <1>6, <1>7, <1>8, <1>9 DEF Next, Worker

-----------------------------------------------------------------------------
(* Steps of others do not disturb what the worker relies on, as servers only move on. *)
LEMMA WorkerKeep ==
  ASSUME TypeOK, WorkerOK, ServersOnward, UNCHANGED <<pc, m, st>>
  PROVE  WorkerOK'
  BY DEF TypeOK, WorkerOK, ServersOnward, Machine

(* Labels at which WorkerOK asks for nothing. *)
Relaxed == {"idle", "fetched", "delete", "deleteServer", "awaitDelete", "deleted",
            "patchLabels", "patchStatus", "updated", "invalid", "failMissing", "failInvalid",
            "reportError"}

(* The worker relies on nothing at the remaining labels. *)
LEMMA WorkerRelaxed == ASSUME pc' \in Relaxed PROVE WorkerOK'
  BY DEF Relaxed, WorkerOK

(* What the end of a pass does to the worker. *)
LEMMA EndPassEffect ==
  ASSUME NEW again, EndPass(again)
  PROVE  m' = NoMachine /\ pc' \in Relaxed
  BY DEF EndPass, Relaxed

(* What a failed Create or Update does to the worker. *)
LEMMA AbortEffect ==
  ASSUME NEW call, Abort(call)
  PROVE  (m' = m \/ m' = NoMachine) /\ pc' \in Relaxed
  BY EndPassEffect DEF Abort, Relaxed

(* A step without a write preserves IndInv if it preserves what the worker relies on. *)
LEMMA QuietStep ==
  ASSUME IndInv, [Next]_vars, UNCHANGED <<api, cached, watch>>,
         m' = m \/ m' = cached \/ m' = NoMachine, WorkerOK'
  PROVE  IndInv'
  BY Typing, Onward, CopiesKeep, ProviderKeep DEF IndInv

(* So does a write that leaves providerID and existence alone and drops no finalizer. *)
LEMMA PutStep ==
  ASSUME IndInv, [Next]_vars, NEW obj \in Machine, Put(obj),
         obj.rv = api.rv, obj.providerID = api.providerID, obj.exists = api.exists,
         api.finalizer => obj.finalizer,
         m' = m \/ m' = api' \/ m' = NoMachine \/ IsCopy(m', api'), WorkerOK'
  PROVE  IndInv'
  <1>1. Successor(obj)
    BY DEF Successor
  <1> QED BY <1>1, Typing, Onward, CopiesPut, ProviderPut DEF IndInv

(* The optimistic lock: a copy that passes it is the stored object. *)
LEMMA CurrentCopy ==
  ASSUME IndInv, Locked(m)
  PROVE  m = api /\ api.exists
  BY DEF IndInv, CopiesOK, IsCopy, Locked

(* updateStatus touches neither version, providerID, existence nor finalizer. *)
LEMMA StatusEffect ==
  ASSUME IndInv, NEW phase, NEW reason, NEW rewrite
  PROVE  LET obj == WithStatus(phase, reason, rewrite)
         IN  /\ obj.rv = api.rv /\ obj.providerID = api.providerID
             /\ obj.exists = api.exists /\ obj.finalizer = api.finalizer
  BY DEF IndInv, TypeOK, Machine, WithStatus

(* updateStatus at the end of a pass preserves IndInv. *)
LEMMA FinishStep ==
  ASSUME IndInv, [Next]_vars, NEW phase \in Phases, NEW reason \in Reasons, NEW again,
         FinishWithStatus(phase, reason, again)
  PROVE  IndInv'
  <1>1. m' = NoMachine /\ WorkerOK'
    BY EndPassEffect, WorkerRelaxed DEF FinishWithStatus, Write
  <1>2. CASE UNCHANGED <<api, cached, watch>>
    BY <1>1, <1>2, QuietStep
  <1>3. ASSUME NEW rewrite \in BOOLEAN, Put(WithStatus(phase, reason, rewrite))
        PROVE  IndInv'
    <2>1. WithStatus(phase, reason, rewrite) \in Machine
      BY WithStatusType, TypeParts DEF IndInv
    <2> QED BY <1>1, <1>3, <2>1, StatusEffect, PutStep
  <1> QED BY <1>2, <1>3 DEF FinishWithStatus, Write

(* The annotation of a Failed Machine preserves IndInv: the refreshed copy is one. *)
LEMMA AnnotateStep ==
  ASSUME IndInv, [Next]_vars, NEW label \in Relaxed, AnnotateFailed(label)
  PROVE  IndInv'
  <1> DEFINE obj == [api EXCEPT !.labels = IF m.labels = "unknown" THEN @ ELSE "unknown"]
             fresh == [m EXCEPT !.phase = api'.phase, !.reason = api'.reason]
  <1>1. /\ obj \in Machine /\ obj.rv = api.rv /\ obj.providerID = api.providerID
        /\ obj.exists = api.exists /\ obj.finalizer = api.finalizer
    BY RelabelledType, TypeParts DEF IndInv, TypeOK, Machine
  <1>2. pc' \in Relaxed /\ WorkerOK' /\ (m' = NoMachine \/ (m' = fresh /\ Put(obj)))
    BY EndPassEffect, WorkerRelaxed DEF AnnotateFailed, Write
  <1>3. CASE UNCHANGED <<api, cached, watch>> /\ m' = NoMachine
    BY <1>2, <1>3, QuietStep
  <1>4. CASE Put(obj) /\ m' = NoMachine
    <2> HIDE DEF obj
    <2> QED BY <1>1, <1>2, <1>4, PutStep
  <1>5. CASE Put(obj) /\ m' = fresh
    <2>1. IsCopy(m, api) /\ m \in Machine /\ api \in Machine
      BY DEF IndInv, TypeOK, CopiesOK
    <2>2. Successor(obj) /\ api' = Stored(obj)
      BY <1>1, <1>5 DEF Successor, Put
    <2>3. IsCopy(m, api')
      BY <2>1, <2>2, CopyStored
    <2>4. api' \in Machine
      BY Typing DEF IndInv, TypeOK
    <2>5. /\ fresh.rv = m.rv /\ fresh.finalizer = m.finalizer
          /\ fresh.providerID = m.providerID
          /\ m = api' => fresh = api'
      BY <2>1, <2>4 DEF Machine
    <2>6. IsCopy(fresh, api')
      BY <2>3, <2>5 DEF IsCopy
    <2> HIDE DEF obj, fresh
    <2> QED BY <1>1, <1>2, <1>5, <2>6, PutStep
  <1> QED BY <1>3, <1>4, <1>5, EndPassEffect DEF AnnotateFailed, Write

(* The lookup of Create and Update preserves IndInv: a server it answers was created. *)
LEMMA ReconcileInd ==
  ASSUME IndInv, [Next]_vars, NEW call, Reconcile(call), pc \in {"exists", "missing"}
  PROVE  IndInv'
  <1>1. UNCHANGED <<api, cached, watch, servers>> /\ (m' = m \/ m' = NoMachine)
    BY AbortEffect DEF Reconcile, novaVars
  <1>2. m.finalizer
    BY DEF IndInv, WorkerOK
  <1>3. CASE Abort(call)
    BY <1>1, <1>3, AbortEffect, WorkerRelaxed, QuietStep
  <1>4. ASSUME NEW s \in Servers, LookupReturns(s),
               pc' = "setProviderID", st' = s, m' = m
        PROVE  IndInv'
    <2>1. servers[s] # "absent"
      BY <1>4 DEF LookupReturns, LookupAnswer, ByName, ByID, Visible
    <2>2. WorkerOK'
      BY <1>1, <1>2, <1>4, <2>1 DEF WorkerOK
    <2> QED BY <1>1, <2>2, QuietStep
  <1>5. CASE pc' = "validate" /\ m' = m
    <2>1. WorkerOK'
      BY <1>2, <1>5 DEF WorkerOK
    <2> QED BY <1>1, <2>1, QuietStep
  <1> QED BY <1>3, <1>4, <1>5 DEF Reconcile

(* Every request of the actuator preserves IndInv; setProviderID because of its lock. *)
LEMMA ActuatorInd == ASSUME IndInv, [Next]_vars, ActuatorStep PROVE IndInv'
  <1>1. CASE ValidateMachine
    <2>1. UNCHANGED <<api, cached, watch>> /\ (m' = m \/ m' = NoMachine)
      BY <1>1, AbortEffect DEF ValidateMachine, GoTo, frame
    <2>2. WorkerOK'
      <3>1. CASE GoTo("createServer")
        BY <1>1, <3>1 DEF ValidateMachine, GoTo, frame, IndInv, WorkerOK
      <3>2. CASE GoTo("invalid")
        BY <3>2, WorkerRelaxed DEF GoTo, Relaxed
      <3>3. CASE Abort(via)
        BY <3>3, AbortEffect, WorkerRelaxed
      <3> QED BY <1>1, <3>1, <3>2, <3>3 DEF ValidateMachine
    <2> QED BY <2>1, <2>2, QuietStep
  <1>2. CASE CreateServer
    <2>1. UNCHANGED <<api, cached, watch>> /\ (m' = m \/ m' = NoMachine)
      BY <1>2, AbortEffect DEF CreateServer
    <2>2. WorkerOK'
      <3>1. CASE Abort(via)
        BY <3>1, AbortEffect, WorkerRelaxed
      <3>2. ASSUME NEW s \in Servers, Boot(s), pc' = "awaitActive", st' = s, m' = m
            PROVE  WorkerOK'
        <4>1. servers'[s] # "absent"
          BY <3>2 DEF Boot, IndInv, TypeOK
        <4> QED BY <1>2, <3>2, <4>1 DEF CreateServer, IndInv, WorkerOK
      <3> QED BY <1>2, <3>1, <3>2 DEF CreateServer
    <2> QED BY <2>1, <2>2, QuietStep
  <1>3. CASE AwaitActive
    <2>1. UNCHANGED <<api, cached, watch>> /\ (m' = m \/ m' = NoMachine)
      BY <1>3, AbortEffect DEF AwaitActive, GoTo, frame
    <2>2. WorkerOK'
      <3>1. CASE GoTo("setProviderID")
        BY <1>3, <3>1 DEF AwaitActive, GoTo, frame, novaVars, IndInv, WorkerOK
      <3>2. CASE Abort(via)
        BY <3>2, AbortEffect, WorkerRelaxed
      <3> QED BY <1>3, <3>1, <3>2 DEF AwaitActive
    <2> QED BY <2>1, <2>2, QuietStep
  <1>4. CASE SetProviderID
    <2>1. CASE GoTo("patchLabels") /\ UNCHANGED <<api, cached, watch>>
      BY <2>1, WorkerRelaxed, QuietStep DEF GoTo, frame, Relaxed
    <2>2. CASE UNCHANGED <<api, cached, watch>> /\ Abort(via)
      BY <2>2, AbortEffect, WorkerRelaxed, QuietStep
    <2>3. CASE /\ m.providerID = None /\ Locked(m) /\ Put([api EXCEPT !.providerID = st])
               /\ Answered("patchLabels") \/ Abort(via)
      <3> DEFINE obj == [api EXCEPT !.providerID = st]
      <3>1. /\ m = api /\ api.exists /\ api.finalizer /\ api.providerID = None
            /\ st \in Servers /\ servers[st] # "absent" /\ servers' = servers
        BY <1>4, <2>3, CurrentCopy DEF SetProviderID, IndInv, WorkerOK, novaVars
      <3>2. /\ obj \in Machine /\ obj.rv = api.rv /\ obj.exists /\ obj.finalizer
            /\ obj.providerID = st
        BY <3>1 DEF IndInv, TypeOK, Machine
      <3>3. Successor(obj) /\ Put(obj) /\ (m' = api' \/ m' = m \/ m' = NoMachine)
        BY <2>3, <3>1, <3>2, AbortEffect DEF Successor, Answered
      <3>4. TypeOK' /\ CopiesOK'
        BY <3>3, Typing, CopiesPut DEF IndInv
      <3>5. api'.providerID = st /\ api'.exists /\ api'.finalizer
        BY <3>2, <3>3 DEF Put, Stored, Machine
      <3>6. ProviderOK'
        BY <3>1, <3>5 DEF ProviderOK
      <3>7. WorkerOK'
        BY <2>3, WorkerRelaxed, AbortEffect DEF Relaxed, Answered
      <3> QED BY <3>4, <3>6, <3>7 DEF IndInv
    <2> QED BY <1>4, <2>1, <2>2, <2>3 DEF SetProviderID, Write
  <1>5. CASE PatchLabels
    <2> DEFINE obj == [api EXCEPT !.labels = IF m.labels = "set" THEN @ ELSE "set"]
    <2>1. CASE UNCHANGED <<api, cached, watch>> /\ Abort(via)
      BY <2>1, AbortEffect, WorkerRelaxed, QuietStep
    <2>2. CASE Put(obj) /\ (Answered("patchStatus") \/ Abort(via))
      <3>1. /\ obj \in Machine /\ obj.rv = api.rv /\ obj.providerID = api.providerID
            /\ obj.exists = api.exists /\ obj.finalizer = api.finalizer
        BY RelabelledType, TypeParts DEF IndInv, TypeOK, Machine
      <3>2. Put(obj) /\ (m' = api' \/ m' = m \/ m' = NoMachine) /\ WorkerOK'
        BY <2>2, WorkerRelaxed, AbortEffect DEF Answered, Relaxed
      <3> HIDE DEF obj
      <3> QED BY <3>1, <3>2, PutStep
    <2> QED BY <1>5, <2>1, <2>2 DEF PatchLabels, Write
  <1>6. CASE PatchStatus
    <2>1. CASE UNCHANGED <<api, cached, watch>> /\ Abort(via)
      BY <2>1, AbortEffect, WorkerRelaxed, QuietStep
    <2>2. CASE Put([api EXCEPT !.addresses = TRUE])
               /\ (EndPass(TRUE) \/ Abort(via) \/ (pc' = "updated" /\ m' = api'))
      <3> DEFINE obj == [api EXCEPT !.addresses = TRUE]
      <3>1. /\ obj \in Machine /\ obj.rv = api.rv /\ obj.providerID = api.providerID
            /\ obj.exists = api.exists /\ obj.finalizer = api.finalizer
        BY DEF IndInv, TypeOK, Machine
      <3>2. Put(obj) /\ (m' = api' \/ m' = m \/ m' = NoMachine) /\ WorkerOK'
        BY <2>2, EndPassEffect, AbortEffect, WorkerRelaxed DEF Relaxed
      <3> HIDE DEF obj
      <3> QED BY <3>1, <3>2, PutStep
    <2> QED BY <1>6, <2>1, <2>2 DEF PatchStatus, Write
  <1>7. CASE DeleteLookup
    <2>1. (m' = m \/ m' = NoMachine) /\ pc' \in Relaxed
      BY <1>7, EndPassEffect DEF DeleteLookup, GoTo, frame, Relaxed
    <2> QED BY <1>7, <2>1, WorkerRelaxed, QuietStep DEF DeleteLookup
  <1>8. CASE DeleteServer
    <2>1. (m' = m \/ m' = NoMachine) /\ pc' \in Relaxed
      BY <1>8, EndPassEffect DEF DeleteServer, GoTo, frame, Relaxed
    <2> QED BY <1>8, <2>1, WorkerRelaxed, QuietStep DEF DeleteServer
  <1>9. CASE AwaitDelete
    <2>1. (m' = m \/ m' = NoMachine) /\ pc' \in Relaxed
      BY <1>9, EndPassEffect DEF AwaitDelete, GoTo, frame, Relaxed
    <2> QED BY <1>9, <2>1, WorkerRelaxed, QuietStep DEF AwaitDelete
  <1> QED BY <1>1, <1>2, <1>3, <1>4, <1>5, <1>6, <1>7, <1>8, <1>9 DEF ActuatorStep

(* Every branch of Reconcile preserves IndInv; the finalizer goes only after Exists
   answered no for the providerID of the very version that is updated. *)
LEMMA ControllerInd == ASSUME IndInv, [Next]_vars, ControllerStep PROVE IndInv'
  <1>1. CASE Fetch
    BY <1>1, WorkerRelaxed, QuietStep DEF Fetch, Relaxed
  <1>2. CASE NotFound \/ StayFailed
    BY <1>2, EndPassEffect, WorkerRelaxed, QuietStep DEF NotFound, StayFailed
  <1>3. CASE AddFinalizer
    <2>1. m' = NoMachine /\ WorkerOK'
      BY <1>3, EndPassEffect, WorkerRelaxed DEF AddFinalizer, Write
    <2>2. CASE UNCHANGED <<api, cached, watch>>
      BY <2>1, <2>2, QuietStep
    <2>3. CASE Put([api EXCEPT !.finalizer = TRUE])
      <3> DEFINE obj == [api EXCEPT !.finalizer = TRUE]
      <3>1. /\ obj \in Machine /\ obj.rv = api.rv /\ obj.providerID = api.providerID
            /\ obj.exists = api.exists /\ obj.finalizer
        BY DEF IndInv, TypeOK, Machine
      <3>2. Put(obj)
        BY <2>3
      <3> HIDE DEF obj
      <3> QED BY <2>1, <3>1, <3>2, PutStep
    <2> QED BY <1>3, <2>2, <2>3 DEF AddFinalizer, Write
  <1>4. CASE MarkDeleting
    <2>1. CASE UNCHANGED <<api, cached, watch>> /\ EndPass(TRUE)
      BY <2>1, EndPassEffect, WorkerRelaxed, QuietStep
    <2>2. CASE /\ Put(WithStatus("Deleting", "none", m.reported # m.hooks))
               /\ EndPass(TRUE) \/ EndPass(FALSE) \/ Answered("delete")
      <3>1. WithStatus("Deleting", "none", m.reported # m.hooks) \in Machine
        <4>1. (m.reported # m.hooks) \in BOOLEAN
          BY Zenon
        <4> QED BY <4>1, WithStatusType, TypeParts DEF IndInv, Phases, Reasons
      <3>2. (m' = api' \/ m' = NoMachine) /\ WorkerOK'
        BY <2>2, EndPassEffect, WorkerRelaxed DEF Answered, Relaxed
      <3> QED BY <2>2, <3>1, <3>2, StatusEffect, PutStep
    <2> QED BY <1>4, <2>1, <2>2 DEF MarkDeleting, Write
  <1>5. CASE CheckDeleted
    <2>1. UNCHANGED <<api, cached, watch, servers>>
      BY <1>5 DEF CheckDeleted, novaVars
    <2>2. CASE EndPass(TRUE)
      BY <2>1, <2>2, EndPassEffect, WorkerRelaxed, QuietStep
    <2>3. CASE /\ LookupReturns(None) /\ m' = m
               /\ pc' = IF m.nodeRef THEN "deleteNode" ELSE "removeFinalizer"
      <3>1. m.providerID # None => servers[m.providerID] = "gone"
        <4> SUFFICES ASSUME m.providerID # None PROVE servers[m.providerID] = "gone"
          OBVIOUS
        <4>1. m.providerID \in Servers
          BY DEF IndInv, TypeOK, Machine
        <4>2. ~ Visible(m.providerID)
          BY <2>3, <4>1 DEF LookupReturns, LookupAnswer, ByID
        <4>3. servers[m.providerID] # "absent"
          BY DEF IndInv, CopiesOK, IsCopy, ProviderOK
        <4> QED BY <4>1, <4>2, <4>3 DEF Visible, IndInv, TypeOK, ServerStates
      <3>2. WorkerOK'
        BY <2>1, <2>3, <3>1 DEF WorkerOK
      <3> QED BY <2>1, <2>3, <3>2, QuietStep
    <2>4. CASE \E answer \in {"yes", "no", "error"} :
                 /\ Exists(answer)
                 /\ answer = "no"
                 /\ pc' = IF m.nodeRef THEN "deleteNode" ELSE "removeFinalizer"
                 /\ m' = m
      BY <2>3, <2>4 DEF Exists
    <2> QED BY <1>5, <2>2, <2>4 DEF CheckDeleted
  <1>6. CASE DeleteNode
    <2>1. UNCHANGED <<api, cached, watch, servers>>
      BY <1>6 DEF DeleteNode
    <2>2. CASE EndPass(TRUE)
      BY <2>1, <2>2, EndPassEffect, WorkerRelaxed, QuietStep
    <2>3. CASE GoTo("removeFinalizer")
      <3>1. WorkerOK'
        BY <1>6, <2>1, <2>3 DEF DeleteNode, GoTo, frame, IndInv, WorkerOK
      <3> QED BY <2>1, <2>3, <3>1, QuietStep DEF GoTo, frame
    <2> QED BY <1>6, <2>2, <2>3 DEF DeleteNode
  <1>7. CASE RemoveFinalizer
    <2>1. m' = NoMachine /\ WorkerOK' /\ servers' = servers
      BY <1>7, EndPassEffect, WorkerRelaxed DEF RemoveFinalizer, Write, novaVars
    <2>2. CASE UNCHANGED <<api, cached, watch>>
      BY <2>1, <2>2, QuietStep
    <2>3. CASE Locked(m) /\ Put([api EXCEPT !.finalizer = FALSE, !.exists = FALSE])
      <3> DEFINE obj == [api EXCEPT !.finalizer = FALSE, !.exists = FALSE]
      <3>1. m = api
        BY <2>3, CurrentCopy
      <3>2. /\ obj \in Machine /\ obj.rv = api.rv /\ obj.exists = FALSE
            /\ obj.providerID = api.providerID
        BY DEF IndInv, TypeOK, Machine
      <3>3. Successor(obj) /\ Put(obj)
        BY <2>3, <3>2 DEF Successor
      <3>4. TypeOK' /\ CopiesOK'
        BY <2>1, <3>3, Typing, CopiesPut DEF IndInv
      <3>5. api'.providerID = api.providerID /\ api'.exists = FALSE
        <4>1. obj # api
          BY <2>3, <3>2 DEF Locked
        <4> QED BY <3>2, <3>3, <4>1 DEF Put, Stored, Machine
      <3>6. api.providerID # None => servers[api.providerID] = "gone"
        BY <1>7, <3>1 DEF RemoveFinalizer, IndInv, WorkerOK
      <3>7. ProviderOK'
        BY <2>1, <3>5, <3>6 DEF ProviderOK
      <3> QED BY <2>1, <3>4, <3>7 DEF IndInv
    <2> QED BY <1>7, <2>2, <2>3 DEF RemoveFinalizer, Write
  <1>8. CASE CheckExists
    <2>1. UNCHANGED <<api, cached, watch, m>> /\ m.finalizer
      BY <1>8 DEF CheckExists, frame
    <2>2. pc' \in {"exists", "missing", "reportError"}
      BY <1>8 DEF CheckExists
    <2>3. WorkerOK'
      BY <2>1, <2>2 DEF WorkerOK
    <2> QED BY <2>1, <2>3, QuietStep
  <1>9. CASE Update \/ Create
    BY <1>9, ReconcileInd DEF Update, Create
  <1>10. CASE MarkProvisioned \/ MarkProvisioning \/ MarkFailed
    BY <1>10, FinishStep
       DEF MarkProvisioned, MarkProvisioning, MarkFailed, Phases, Reasons
  <1>11. CASE ReportError
    <2>1. Deref(m.phase) \in Phases /\ "none" \in Reasons
      BY DerefType DEF IndInv, TypeOK, Machine, Reasons
    <2> QED BY <1>11, <2>1, FinishStep DEF ReportError
  <1>12. CASE MarkMissing \/ MarkInvalid
    BY <1>12, AnnotateStep DEF MarkMissing, MarkInvalid, Relaxed
  <1> QED BY <1>1, <1>2, <1>3, <1>4, <1>5, <1>6, <1>7, <1>8, <1>9, <1>10, <1>11, <1>12
          DEF ControllerStep

(* A crash or panic preserves IndInv: all that matters is stored. *)
LEMMA RestartInd == ASSUME IndInv, [Next]_vars, Restart PROVE IndInv'
  <1>1. TypeOK' /\ ServersOnward
    BY Typing, Onward DEF IndInv
  <1>2. CopiesOK'
    <2>1. api \in Machine /\ api.rv > 0
      BY DEF IndInv, TypeOK, CopiesOK
    <2>2. IsCopy(api, api) /\ IsCopy(NoMachine, api)
      BY <2>1, CopySelf, CopyNone
    <2> QED BY <2>1, <2>2 DEF Restart, CopiesOK
  <1>3. ProviderOK'
    BY <1>1, ProviderKeep DEF Restart, IndInv
  <1>4. WorkerOK'
    BY WorkerRelaxed DEF Restart, Relaxed
  <1> QED BY <1>1, <1>2, <1>3, <1>4 DEF IndInv

(* The other processes preserve IndInv. *)
LEMMA OthersInd == ASSUME IndInv, Next, ~ Worker PROVE IndInv'
  <1>1. TypeOK' /\ ServersOnward
    BY Typing, Onward DEF IndInv
  <1>2. ASSUME UNCHANGED <<pc, m, st>> PROVE WorkerOK'
    BY <1>1, <1>2, WorkerKeep DEF IndInv
  <1>3. CASE Drainer
    <2>1. UNCHANGED <<pc, m, st>> /\ WorkerOK'
      BY <1>2, <1>3 DEF Drainer, frame
    <2>2. CASE UNCHANGED <<api, cached, watch>>
      BY <2>1, <2>2, QuietStep
    <2>3. CASE Put([api EXCEPT !.drained = TRUE])
      <3> DEFINE obj == [api EXCEPT !.drained = TRUE]
      <3>1. /\ obj \in Machine /\ obj.rv = api.rv /\ obj.providerID = api.providerID
            /\ obj.exists = api.exists /\ obj.finalizer = api.finalizer
        BY DEF IndInv, TypeOK, Machine
      <3>2. Put(obj)
        BY <2>3
      <3> HIDE DEF obj
      <3> QED BY <2>1, <3>1, <3>2, PutStep
    <2> QED BY <1>3, <2>2, <2>3 DEF Drainer, DrainStart, DrainFinish, Write
  <1>4. CASE Informer
    <2>1. CopiesOK'
      BY <1>4 DEF Informer, Deliver, frame, IndInv, CopiesOK
    <2>2. ProviderOK'
      BY <1>1, <1>4, ProviderKeep DEF Informer, Deliver, IndInv
    <2>3. WorkerOK'
      BY <1>2, <1>4 DEF Informer, frame
    <2> QED BY <1>1, <2>1, <2>2, <2>3 DEF IndInv
  <1>5. CASE User
    <2>1. UNCHANGED <<pc, m, st>> /\ WorkerOK'
      BY <1>2, <1>5 DEF User, frame
    <2>2. CASE api.finalizer
      <3> DEFINE obj == [api EXCEPT !.deleting = TRUE]
      <3>1. /\ obj \in Machine /\ obj.rv = api.rv /\ obj.providerID = api.providerID
            /\ obj.exists = api.exists /\ obj.finalizer = api.finalizer
        BY DEF IndInv, TypeOK, Machine
      <3>2. Put(obj)
        BY <1>5, <2>2 DEF User, UserDelete
      <3> HIDE DEF obj
      <3> QED BY <2>1, <3>1, <3>2, PutStep
    <2>3. CASE ~ api.finalizer
      <3> DEFINE obj == [api EXCEPT !.exists = FALSE]
      <3>1. /\ obj \in Machine /\ obj.rv = api.rv /\ obj.providerID = api.providerID
            /\ obj.exists = FALSE /\ Put(obj)
        BY <1>5, <2>3 DEF User, UserDelete, IndInv, TypeOK, Machine
      <3>2. api.providerID = None
        BY <1>5, <2>3 DEF User, UserDelete, IndInv, ProviderOK
      <3>3. Successor(obj)
        BY <3>1, <3>2 DEF Successor
      <3>4. CopiesOK'
        BY <1>1, <2>1, <3>1, <3>3, CopiesPut DEF IndInv
      <3>5. api'.providerID = None
        BY <3>1, <3>2 DEF Put, Stored, Machine
      <3> QED BY <1>1, <2>1, <3>4, <3>5 DEF IndInv, ProviderOK
    <2> QED BY <2>2, <2>3
  <1>5e. CASE Editor
    <2> DEFINE obj == [api EXCEPT !.edits = @ + 1]
    <2>1. obj \in Machine
      BY <1>5e, EditedType DEF Editor, UserEdit, IndInv, TypeOK
    <2>2. /\ obj.rv = api.rv /\ obj.providerID = api.providerID
          /\ obj.exists = api.exists /\ obj.finalizer = api.finalizer
      BY DEF IndInv, TypeOK, Machine
    <2>3. Put(obj) /\ UNCHANGED <<pc, m, st>>
      BY <1>5e DEF Editor, UserEdit, frame
    <2> HIDE DEF obj
    <2> QED BY <1>2, <2>1, <2>2, <2>3, PutStep
  <1>6. CASE NovaWorks \/ Kubelet \/ Tamper
    <2>1. UNCHANGED <<api, cached, watch, pc, m, st>>
      BY <1>6 DEF NovaWorks, Kubelet, Tamper, kubeVars, frame
    <2> QED BY <1>2, <2>1, QuietStep
  <1>7. CASE NodeLink
    <2> DEFINE obj == [api EXCEPT !.nodeRef = TRUE]
    <2>1. /\ obj \in Machine /\ obj.rv = api.rv /\ obj.providerID = api.providerID
          /\ obj.exists = api.exists /\ obj.finalizer = api.finalizer
      BY DEF IndInv, TypeOK, Machine
    <2>2. Put(obj) /\ UNCHANGED <<pc, m, st>>
      BY <1>7 DEF NodeLink, frame
    <2> HIDE DEF obj
    <2> QED BY <1>2, <2>1, <2>2, PutStep
  <1>7h. CASE HookOwner
    <2>1. PICK h \in api.hooks : Put([api EXCEPT !.hooks = @ \ {h}])
      BY <1>7h DEF HookOwner, RemoveHook
    <2> DEFINE obj == [api EXCEPT !.hooks = @ \ {h}]
    <2>2. /\ obj \in Machine /\ obj.rv = api.rv /\ obj.providerID = api.providerID
          /\ obj.exists = api.exists /\ obj.finalizer = api.finalizer
      BY UnhookedType DEF IndInv, TypeOK, Machine
    <2>3. Put(obj) /\ UNCHANGED <<pc, m, st>>
      BY <1>7h, <2>1 DEF HookOwner, frame
    <2> HIDE DEF obj
    <2> QED BY <1>2, <2>2, <2>3, PutStep
  <1>8. CASE Crash \/ Panic
    BY <1>8, RestartInd DEF Crash, Panic
  <1>9. CASE Finished
    BY <1>2, <1>9, QuietStep DEF Finished, vars, kubeVars, frame
  <1> QED BY <1>3, <1>4, <1>5, <1>5e, <1>6, <1>7, <1>7h, <1>8, <1>9 DEF Next

(* IndInv is inductive. *)
LEMMA Induction == ASSUME IndInv, [Next]_vars PROVE IndInv'
  <1>1. CASE Worker
    BY <1>1, ControllerInd, ActuatorInd DEF Worker
  <1>2. CASE Next /\ ~ Worker
    BY <1>2, OthersInd
  <1>3. CASE UNCHANGED vars
    <2>1. UNCHANGED <<api, cached, watch, pc, m, st, servers>>
      BY <1>3 DEF vars, kubeVars, novaVars, frame
    <2>2. WorkerOK'
      BY <2>1, OnwardKeep, WorkerKeep DEF IndInv
    <2> QED BY <2>1, <2>2, QuietStep
  <1> QED BY <1>1, <1>2, <1>3

(* IndInv holds initially. *)
LEMMA InitInd == Init => IndInv
  <1> SUFFICES ASSUME Init PROVE IndInv
    OBVIOUS
  <1>1. TypeOK /\ WorkerOK
    BY InitType DEF Init, WorkerOK
  <1>2. cached = NoMachine /\ m = NoMachine /\ watch = {api}
    BY DEF Init, KubeInit
  <1>3. api \in Machine /\ api.rv = 1 /\ api.providerID = None
    BY NewMachineType DEF Init, KubeInit, NewMachine, NoMachine
  <1>4. CopiesOK
    BY <1>2, <1>3, CopySelf, CopyNone DEF CopiesOK
  <1>5. ProviderOK
    BY <1>2, <1>3 DEF ProviderOK
  <1> QED BY <1>1, <1>4, <1>5 DEF IndInv

(* The inductive invariant holds throughout, with outdated caches, lost responses,
   crashes and servers deleted behind the controller's back. *)
THEOREM InvariantHolds == Spec => []IndInv
  BY InitInd, Induction, PTL DEF Spec

(* When the Machine is gone, the server its providerID names is gone: the Exists check
   before the finalizer is removed and the lock of that update are enough for it. *)
THEOREM ServerGoneWithMachine == Spec => []ProviderServerGone
  <1>1. IndInv => ProviderServerGone
    BY DEF IndInv, ProviderOK, ProviderServerGone, Visible
  <1> QED BY <1>1, InvariantHolds, PTL

(* A write that asks for the same providerID keeps it. *)
LEMMA PutKeeps ==
  ASSUME TypeOK, NEW obj, obj.providerID = api.providerID, Put(obj), obj \in Machine
  PROVE  api'.providerID = api.providerID
  BY DEF Put, Stored, Machine

(* updateStatus keeps the providerID. *)
LEMMA StatusKeeps ==
  ASSUME IndInv, NEW phase \in Phases, NEW reason \in Reasons, NEW rewrite \in BOOLEAN,
         Put(WithStatus(phase, reason, rewrite))
  PROVE  api'.providerID = api.providerID
  BY StatusEffect, WithStatusType, TypeParts, PutKeeps DEF IndInv

(* So does updateStatus at the end of a pass. *)
LEMMA FinishKeeps ==
  ASSUME IndInv, NEW phase \in Phases, NEW reason \in Reasons, NEW again,
         FinishWithStatus(phase, reason, again)
  PROVE  api'.providerID = api.providerID
  BY StatusKeeps DEF FinishWithStatus, Write

(* No step changes a providerID that is set; the one action that writes it does so with
   a copy that must be current and has none. *)
LEMMA ProviderIDStep ==
  ASSUME IndInv, [Next]_vars, api.providerID # None
  PROVE  api'.providerID = api.providerID
  <1>1. TypeOK /\ api \in Machine /\ m \in Machine
    BY DEF IndInv, TypeOK
  <1>2. CASE SetProviderID
    BY <1>2, CurrentCopy DEF SetProviderID, Write
  <1>3. CASE PatchLabels
    BY <1>1, <1>3, PutKeeps DEF PatchLabels, Write, Machine
  <1>4. CASE PatchStatus
    BY <1>1, <1>4, PutKeeps DEF PatchStatus, Write, Machine
  <1>5. CASE AddFinalizer
    BY <1>1, <1>5, PutKeeps DEF AddFinalizer, Write, Machine
  <1>6. CASE RemoveFinalizer
    BY <1>1, <1>6, PutKeeps DEF RemoveFinalizer, Write, Machine
  <1>7. CASE MarkDeleting
    <2>1. (m.reported # m.hooks) \in BOOLEAN
      BY Zenon
    <2> QED BY <1>7, <2>1, StatusKeeps DEF MarkDeleting, Write, Phases, Reasons
  <1>8. CASE MarkProvisioned \/ MarkProvisioning \/ MarkFailed
    BY <1>8, FinishKeeps
       DEF MarkProvisioned, MarkProvisioning, MarkFailed, Phases, Reasons
  <1>8a. CASE MarkMissing \/ MarkInvalid
    BY <1>1, <1>8a, PutKeeps DEF MarkMissing, MarkInvalid, AnnotateFailed, Write, Machine
  <1>9. CASE ReportError
    <2>1. Deref(m.phase) \in Phases /\ "none" \in Reasons
      BY <1>1, DerefType DEF Machine, Reasons
    <2> QED BY <1>9, <2>1, FinishKeeps DEF ReportError
  <1>10. CASE Drainer
    BY <1>1, <1>10, PutKeeps DEF Drainer, DrainStart, DrainFinish, Write, Machine
  <1>11. CASE User
    BY <1>1, <1>11, PutKeeps DEF User, UserDelete, Machine
  <1>11e. CASE Editor
    BY <1>1, <1>11e, EditedType, PutKeeps DEF Editor, UserEdit
  <1>12. CASE NodeLink
    BY <1>1, <1>12, PutKeeps DEF NodeLink, Machine
  <1>12h. CASE HookOwner
    <2>1. PICK h \in api.hooks : Put([api EXCEPT !.hooks = @ \ {h}])
      BY <1>12h DEF HookOwner, RemoveHook
    <2>2. [api EXCEPT !.hooks = @ \ {h}].providerID = api.providerID
      BY <1>1 DEF Machine
    <2> QED BY <1>1, <2>1, <2>2, UnhookedType, PutKeeps
  <1>13. CASE UNCHANGED api
    BY <1>13
  <1>14. ActuatorStep => SetProviderID \/ PatchLabels \/ PatchStatus \/ UNCHANGED api
    BY DEF ActuatorStep, ValidateMachine, CreateServer, AwaitActive, DeleteLookup,
           DeleteServer, AwaitDelete
  <1>15. ControllerStep =>
           \/ AddFinalizer \/ RemoveFinalizer \/ MarkDeleting \/ ReportError
           \/ MarkProvisioned \/ MarkMissing \/ MarkProvisioning \/ MarkInvalid
           \/ MarkFailed \/ UNCHANGED api
    BY DEF ControllerStep, Fetch, NotFound, StayFailed, CheckDeleted, DeleteNode, CheckExists,
           Update, Create, Reconcile
  <1>16. Informer \/ NovaWorks \/ Kubelet \/ Tamper \/ Crash \/ Panic \/ Finished
           \/ UNCHANGED vars => UNCHANGED api
    BY DEF Informer, Deliver, NovaWorks, Kubelet, Tamper, Crash, Panic, Restart,
           Finished, vars, kubeVars
  <1> QED BY <1>2, <1>3, <1>4, <1>5, <1>6, <1>7, <1>8, <1>8a, <1>9, <1>10, <1>11, <1>11e, <1>12, <1>12h,
             <1>13, <1>14, <1>15, <1>16 DEF Next, Worker

(* setProviderID gives a Machine at most one server in its life, whatever copies the
   controller works on. *)
THEOREM ProviderIDNeverChanges == Spec => ProviderIDFixed
  <1>1. IndInv /\ [Next]_vars
          => [api.providerID # None => api'.providerID = api.providerID]_vars
    BY ProviderIDStep
  <1> QED BY <1>1, InvariantHolds, PTL DEF Spec, ProviderIDFixed

=============================================================================
