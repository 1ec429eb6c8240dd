-------------------------- MODULE MachineController --------------------------
(***************************************************************************)
(* The manager process of cmd/manager: the machine controller's Reconcile  *)
(* (machine-api-operator, vendored) driving the OpenStack actuator, and    *)
(* the drain controller beside it, over one Machine.  Both controllers run *)
(* one worker (MaxConcurrentReconciles is 1) and read the Machine from the *)
(* informer cache; what they do in between is interleaved with each other, *)
(* with Nova, with users of the cluster and with crashes of the process.   *)
(***************************************************************************)
EXTENDS Actuator

CONSTANT CacheLag       \* may a pass start from a copy older than the object?

ASSUME CacheLagAssumption == CacheLag \in BOOLEAN

VARIABLE drain          \* resourceVersion of the copy being drained; 0: idle

vars == <<kubeVars, novaVars, pc, frame, faults, drain>>

Init ==
  /\ KubeInit
  /\ NovaInit
  /\ pc = "idle" /\ m = NoMachine /\ st = None /\ via = "none"
  /\ faults = 0
  /\ drain = 0

InformerSynced == CacheLag \/ watch = {}

(* machineIsProvisioned *)
IsProvisioned(machine) == machine.addresses \/ machine.providerID # None

(***************************************************************************)
(* ReconcileMachine.Reconcile, branch by branch.                           *)
(***************************************************************************)
Fetch ==
  /\ pc = "idle" /\ queued /\ InformerSynced
  /\ pc' = "fetched" /\ m' = cached /\ queued' = FALSE
  /\ UNCHANGED <<api, cached, watch, drainQueued, novaVars, st, via, faults>>

(* The Machine is gone. *)
NotFound ==
  /\ pc = "fetched" /\ ~ m.exists
  /\ EndPass(FALSE)
  /\ UNCHANGED <<api, cached, watch, drainQueued, novaVars, faults>>

(* "machine has gone Failed phase.  It won't reconcile" *)
StayFailed ==
  /\ pc = "fetched" /\ m.exists /\ ~ m.deleting /\ m.finalizer
  /\ m.phase = "Failed"
  /\ EndPass(FALSE)
  /\ UNCHANGED <<api, cached, watch, drainQueued, novaVars, faults>>

AddFinalizer ==
  /\ pc = "fetched" /\ m.exists /\ ~ m.deleting /\ ~ m.finalizer
  /\ Write(Locked(m), [api EXCEPT !.finalizer = TRUE], EndPass(FALSE), EndPass(TRUE))
  /\ UNCHANGED <<drainQueued, novaVars>>

(* updateStatus: a merge patch of what differs from the worker's copy, in which
   an absent phase differs from every phase, "" included.  The
   conditions are one list: when one of them changes, the whole list of the
   worker's copy, with what setLifecycleHookConditions reports of the hooks in
   it, replaces the stored one. *)
WithStatus(phase, reason, rewrite) ==
  [api EXCEPT !.phase   = IF m.phase = phase THEN @ ELSE phase,
              !.reason  = IF m.reason = reason THEN @ ELSE reason,
              !.reported = IF rewrite THEN m.hooks ELSE @,
              !.drained = IF rewrite THEN m.drained ELSE @]

(* updateStatus(phase) after which Reconcile returns.  The condition list
   changes if the hooks did, and may change because
   InstanceExists did. *)
FinishWithStatus(phase, reason, again) ==
  \E rewrite \in BOOLEAN :
    /\ rewrite \/ m.reported = m.hooks
    /\ Write(api.exists, WithStatus(phase, reason, rewrite), EndPass(again), EndPass(TRUE))

(* Mutant: the instance is deleted without waiting for the drain. *)
MarkDeleting_NoDrain ==
  /\ pc = "fetched" /\ m.exists /\ m.deleting
  /\ Write(api.exists, WithStatus("Deleting", "none", m.reported # m.hooks),
           IF api'.finalizer
           THEN Answered("delete") ELSE EndPass(FALSE),
           EndPass(TRUE))
  /\ UNCHANGED <<drainQueued, novaVars>>

(* Mutant: pre-terminate hooks are not looked at. *)
MarkDeleting_NoHooks ==
  /\ pc = "fetched" /\ m.exists /\ m.deleting
  /\ Write(api.exists, WithStatus("Deleting", "none", m.reported # m.hooks),
           IF api'.finalizer /\ api'.drained
           THEN Answered("delete") ELSE EndPass(FALSE),
           EndPass(TRUE))
  /\ UNCHANGED <<drainQueued, novaVars>>

(* Deletion starts with phase Deleting; the response is the copy that the
   rest of the pass works on.  Without the finalizer there is nothing to do,
   without the Drained condition the drain controller comes first, and so does
   the owner of a pre-terminate hook. *)
MarkDeleting ==
  /\ pc = "fetched" /\ m.exists /\ m.deleting
  /\ Write(api.exists, WithStatus("Deleting", "none", m.reported # m.hooks),
           IF api'.finalizer /\ api'.drained /\ "preTerminate" \notin api'.hooks
           THEN Answered("delete") ELSE EndPass(FALSE),
           EndPass(TRUE))
  /\ UNCHANGED <<drainQueued, novaVars>>

(* Mutant: no requeue when the instance is still there or cannot be checked. *)
CheckDeleted_NoRequeue ==
  /\ pc = "deleted"
  /\ \E answer \in {"yes", "no", "error"} :
       /\ Exists(answer)
       /\ IF answer = "no"
          THEN /\ pc' = IF m.nodeRef THEN "deleteNode" ELSE "removeFinalizer"
               /\ st' = None
               /\ UNCHANGED <<m, via, queued>>
          ELSE EndPass(FALSE)
  /\ UNCHANGED <<api, cached, watch, drainQueued, novaVars>>

(* After Delete: is the instance really gone? *)
CheckDeleted ==
  /\ pc = "deleted"
  /\ \E answer \in {"yes", "no", "error"} :
       /\ Exists(answer)
       /\ IF answer = "no"
          THEN /\ pc' = IF m.nodeRef THEN "deleteNode" ELSE "removeFinalizer"
               /\ st' = None
               /\ UNCHANGED <<m, via, queued>>
          ELSE EndPass(TRUE)
  /\ UNCHANGED <<api, cached, watch, drainQueued, novaVars>>

DeleteNode ==
  /\ pc = "deleteNode"
  /\ \/ node' = FALSE /\ GoTo("removeFinalizer") /\ NoFault
     \/ (UNCHANGED node \/ node' = FALSE) /\ EndPass(TRUE) /\ Fault
  /\ UNCHANGED <<api, cached, watch, drainQueued, servers>>

(* The Machine's last finalizer: the object disappears with it. *)
RemoveFinalizer ==
  /\ pc = "removeFinalizer"
  /\ Write(Locked(m), [api EXCEPT !.finalizer = FALSE, !.exists = FALSE],
           EndPass(FALSE), EndPass(TRUE))
  /\ UNCHANGED <<drainQueued, novaVars>>

(* Mutant: a Failed Machine is reconciled like any other. *)
CheckExists_RetriesFailed ==
  /\ pc = "fetched" /\ m.exists /\ ~ m.deleting /\ m.finalizer
  /\ \E answer \in {"yes", "no", "error"} :
       /\ Exists(answer)
       /\ pc' = CASE answer = "yes"   -> "exists"
                  [] answer = "no"    -> "missing"
                  [] answer = "error" -> "reportError"
  /\ UNCHANGED <<api, cached, watch, queued, drainQueued, novaVars, frame>>

CheckExists ==
  /\ pc = "fetched" /\ m.exists /\ ~ m.deleting /\ m.finalizer
  /\ m.phase # "Failed"
  /\ \E answer \in {"yes", "no", "error"} :
       /\ Exists(answer)
       /\ pc' = CASE answer = "yes"   -> "exists"
                  [] answer = "no"    -> "missing"
                  [] answer = "error" -> "reportError"
  /\ UNCHANGED <<api, cached, watch, queued, drainQueued, novaVars, frame>>

Update == pc = "exists" /\ Reconcile("update")

(* Update succeeded.  Without a node the pass is repeated until there is one. *)
MarkProvisioned ==
  /\ pc = "updated"
  /\ IF m.nodeRef THEN FinishWithStatus("Running", "none", FALSE)
                  ELSE FinishWithStatus("Provisioned", "none", TRUE)
  /\ UNCHANGED <<drainQueued, novaVars>>

(* Exists or Update failed: the status is patched with the phase that the copy
   has, "" when it has none, and a failure to do so is only logged. *)
ReportError ==
  /\ pc = "reportError"
  /\ FinishWithStatus(Deref(m.phase), "none", TRUE)
  /\ UNCHANGED <<drainQueued, novaVars>>

(* patchFailedMachineInstanceAnnotation, with which updateStatus(Failed) begins.
   The answer replaces the worker's copy, but the status patch that follows is
   still the difference to the conditions of the old one. *)
AnnotateFailed(label) ==
  Write(api.exists,
        [api EXCEPT !.labels = IF m.labels = "unknown" THEN @ ELSE "unknown"],
        /\ pc' = label
        /\ m' = [m EXCEPT !.phase = api'.phase, !.reason = api'.reason]
        /\ UNCHANGED <<st, via, queued>>,
        EndPass(TRUE))

(* The instance of a provisioned Machine was deleted outside the machine API. *)
MarkMissing ==
  /\ pc = "missing" /\ IsProvisioned(m)
  /\ AnnotateFailed("failMissing")
  /\ UNCHANGED <<drainQueued, novaVars>>

MarkProvisioning ==
  /\ pc = "missing" /\ ~ IsProvisioned(m) /\ Deref(m.phase) = ""
  /\ FinishWithStatus("Provisioning", "none", FALSE)
  /\ UNCHANGED <<drainQueued, novaVars>>

Create ==
  /\ pc = "missing" /\ ~ IsProvisioned(m) /\ Deref(m.phase) # ""
  /\ Reconcile("create")

(* Create returned InvalidConfiguration. *)
MarkInvalid ==
  /\ pc = "invalid"
  /\ AnnotateFailed("failInvalid")
  /\ UNCHANGED <<drainQueued, novaVars>>

(* Mutant: a phase that the API does not know. *)
MarkFailed_UnknownPhase ==
  /\ \/ pc = "failMissing" /\ FinishWithStatus("Error", "none", FALSE)
     \/ pc = "failInvalid" /\ FinishWithStatus("Error", "InvalidConfiguration", FALSE)
  /\ UNCHANGED <<drainQueued, novaVars>>

(* The rest of updateStatus(Failed). *)
MarkFailed ==
  /\ \/ pc = "failMissing" /\ FinishWithStatus("Failed", "none", FALSE)
     \/ pc = "failInvalid" /\ FinishWithStatus("Failed", "InvalidConfiguration", FALSE)
  /\ UNCHANGED <<drainQueued, novaVars>>

ControllerStep ==
  \/ Fetch \/ NotFound \/ StayFailed \/ AddFinalizer
  \/ MarkDeleting \/ CheckDeleted \/ DeleteNode \/ RemoveFinalizer
  \/ CheckExists \/ Update \/ MarkProvisioned \/ ReportError
  \/ MarkMissing \/ MarkProvisioning \/ Create \/ MarkInvalid \/ MarkFailed

Worker == (ControllerStep \/ ActuatorStep) /\ UNCHANGED drain

(***************************************************************************)
(* The drain controller.  A pre-drain hook stops it only if there is a     *)
(* node to drain; its Update carries the resourceVersion of the copy it    *)
(* read before the drain.                                                  *)
(***************************************************************************)
DrainStart ==
  /\ drain = 0 /\ drainQueued /\ InformerSynced
  /\ drainQueued' = FALSE
  /\ drain' = IF /\ cached.exists /\ cached.deleting
                 /\ cached.phase = "Deleting" /\ ~ cached.drained
                 /\ cached.nodeRef => "preDrain" \notin cached.hooks
              THEN cached.rv ELSE 0
  /\ UNCHANGED <<api, cached, watch, queued, faults>>

DrainFinish ==
  /\ drain # 0
  /\ drain' = 0
  /\ Write(api.exists /\ drain = api.rv, [api EXCEPT !.drained = TRUE],
           UNCHANGED drainQueued, drainQueued' = TRUE)
  /\ UNCHANGED queued

Drainer == (DrainStart \/ DrainFinish) /\ UNCHANGED <<novaVars, pc, frame>>

(***************************************************************************)
(* The environment.                                                        *)
(***************************************************************************)
Informer == Deliver /\ UNCHANGED <<novaVars, pc, frame, faults, drain>>

HookOwner == RemoveHook /\ UNCHANGED <<novaVars, pc, frame, faults, drain>>

User == UserDelete /\ UNCHANGED <<novaVars, pc, frame, faults, drain>>

Editor == UserEdit /\ UNCHANGED <<novaVars, pc, frame, faults, drain>>

NovaWorks ==
  /\ NovaBuild \/ NovaReap
  /\ UNCHANGED <<kubeVars, pc, frame, faults, drain>>

Kubelet == NodeRegister /\ UNCHANGED <<kubeVars, pc, frame, faults, drain>>

(* The nodelink controller (another process) finds the Node of the Machine. *)
NodeLink ==
  /\ node /\ api.exists /\ api.addresses
  /\ Put([api EXCEPT !.nodeRef = TRUE])
  /\ UNCHANGED <<queued, drainQueued, novaVars, pc, frame, faults, drain>>

Tamper ==
  /\ Fault
  /\ ExternalDelete
  /\ UNCHANGED <<kubeVars, pc, frame, drain>>

(* The process ends and starts again: nothing it kept in memory survives, and
   the informer lists the objects that exist. *)
Restart ==
  /\ pc' = "idle" /\ m' = NoMachine /\ st' = None /\ via' = "none"
  /\ cached' = api /\ watch' = {}
  /\ queued' = api.exists /\ drainQueued' = api.exists
  /\ drain' = 0
  /\ UNCHANGED <<api, novaVars>>

Crash == Fault /\ Restart

(* The poll of a server that has just been created is answered with 404 and
   createInstanceImpl dereferences a nil InstanceStatus. *)
Panic ==
  /\ pc = "awaitActive" /\ servers[st] = "gone"
  /\ NoFault
  /\ Restart

(* The Machine is gone and everybody has noticed. *)
Finished ==
  /\ ~ api.exists
  /\ pc = "idle" /\ ~ queued /\ drain = 0 /\ ~ drainQueued /\ watch = {}
  /\ UNCHANGED vars

Next ==
  \/ Worker \/ Drainer
  \/ Informer \/ User \/ Editor \/ HookOwner \/ NovaWorks \/ Kubelet \/ NodeLink
  \/ Tamper \/ Crash \/ Panic \/ Finished

(* The work queues hand out every request, the informer delivers every event
   and Nova completes what it has accepted; owners of hooks remove them; nobody
   has to delete a Machine, link a Node or make anything fail. *)
Fairness ==
  /\ WF_vars(Worker)
  /\ WF_vars(Drainer)
  /\ WF_vars(Informer)
  /\ WF_vars(NovaWorks)
  /\ WF_vars(HookOwner)
  /\ WF_vars(Panic)

Spec == Init /\ [][Next]_vars

FairSpec == Spec /\ Fairness

-----------------------------------------------------------------------------
Labels == {"idle", "fetched", "delete", "deleteServer", "awaitDelete",
           "deleted", "deleteNode", "removeFinalizer", "exists", "missing",
           "validate", "createServer", "awaitActive", "setProviderID",
           "patchLabels", "patchStatus", "updated", "invalid", "failMissing",
           "failInvalid", "reportError"}

(* Type invariant of the Machine's copies, Nova's servers and the worker. *)
TypeOK ==
  /\ api \in Machine /\ cached \in Machine /\ m \in Machine
  /\ watch \subseteq Machine
  /\ queued \in BOOLEAN /\ drainQueued \in BOOLEAN
  /\ servers \in [Servers -> ServerStates] /\ node \in BOOLEAN
  /\ pc \in Labels
  /\ st \in Servers \union {None}
  /\ via \in {"none", "create", "update"}
  /\ faults \in 0..MaxFaults
  /\ drain \in Nat

(* What an older copy o of the Machine still says of the stored object a: they
   are equal when their versions are, a finalizer stays while the object does,
   and a providerID is never changed. *)
IsCopy(o, a) ==
  /\ o.rv <= a.rv
  /\ o.rv = a.rv => o = a
  /\ o.finalizer /\ a.exists => a.finalizer
  /\ o.providerID # None => a.providerID = o.providerID

(* Every copy the controllers can act on is a copy in that sense (the informer,
   updateStatus, setProviderID). *)
CopiesOK ==
  /\ api.rv > 0
  /\ IsCopy(cached, api) /\ IsCopy(m, api)
  /\ \A w \in watch : IsCopy(w, api)

(* The stored providerID names a server that was really created, and protects
   the Machine by its finalizer until that server is gone. *)
ProviderOK ==
  api.providerID # None =>
    /\ servers[api.providerID] # "absent"
    /\ api.exists => api.finalizer
    /\ ~ api.exists => servers[api.providerID] = "gone"

(* What the worker relies on between its requests: the finalizer and the server
   it has seen on the way to setProviderID, and the server it has seen gone on
   the way to removing the finalizer. *)
WorkerOK ==
  /\ pc \in {"exists", "missing", "validate", "createServer", "awaitActive",
            "setProviderID"} => m.finalizer
  /\ pc \in {"awaitActive", "setProviderID"} =>
       st \in Servers /\ servers[st] # "absent"
  /\ pc \in {"deleteNode", "removeFinalizer"} /\ m.providerID # None =>
       servers[m.providerID] = "gone"

(* The inductive invariant of the proofs about the providerID. *)
IndInv == TypeOK /\ CopiesOK /\ ProviderOK /\ WorkerOK

(* A server that was created beside the one the stored providerID names; see
   NeverRecreated. *)
Recreated(s) == servers[s] # "absent" /\ api.providerID \notin {None, s}

(* No server outlives its Machine: once the finalizer is removed every server
   the actuator requested is gone, also one whose create request seemed to
   fail (Delete and the Exists check before the finalizer goes).  The one
   exception is a server that should not have been created at all. *)
NoLeakedServer ==
  api.exists \/ \A s \in Servers : Visible(s) => Recreated(s)

(* The server named by spec.providerID never outlives the Machine, whatever
   copies the controllers worked on. *)
ProviderServerGone ==
  ~ api.exists /\ api.providerID # None => ~ Visible(api.providerID)

(* At most one server of the Machine exists at a time. *)
OneServer ==
  \A s, t \in Servers : Visible(s) /\ Visible(t) => s = t

(* A Failed Machine that was given an instance has lost it for good: the verdict
   is never drawn from a failed lookup or an outdated copy. *)
MissingMeansGone ==
  api.phase = "Failed" /\ api.providerID # None => servers[api.providerID] = "gone"

(* A Machine given to a server is never given another one (setProviderID). *)
ProviderIDFixed ==
  [][api.providerID # None => api'.providerID = api.providerID]_vars

(* "Failed machines have encountered a terminal error and must be deleted": the
   only way out of the phase is deletion.  Outdated copies refute it: an error path
   of Reconcile may write "" over Provisioning, and from there Provisioning is
   written over Failed. *)
FailedIsFinal ==
  [][api.phase = "Failed" => api'.phase \in {"Failed", "Deleting"}]_vars

(* It is for a Machine that was given an instance, which it has then lost: no
   late patch from an older copy revives it (updateStatus has no lock). *)
LostIsFinal ==
  [][api.phase = "Failed" /\ api.providerID # None
       => api'.phase \in {"Failed", "Deleting"}]_vars

(* "We definitely don't want to recreate a deleted machine" (reconcile): no
   server is created for a Machine that has a providerID. *)
NeverRecreated ==
  [][\A s \in Servers :
       servers[s] = "absent" /\ servers'[s] # "absent" => api.providerID = None]_vars

(* A server is only taken down for a Machine that is being deleted and whose
   node has been drained. *)
DrainedFirst ==
  [][\A s \in Servers :
       servers[s] # "DELETING" /\ servers'[s] = "DELETING"
         => api.deleting /\ api.drained]_vars

(* "PreTerminate hooks prevent the machine from being terminated": although the
   controller works on copies and its patches overwrite conditions, no server is
   taken down under a hook. *)
HooksRespected ==
  [][\A s \in Servers :
       servers[s] # "DELETING" /\ servers'[s] = "DELETING"
         => "preTerminate" \notin api.hooks]_vars

(* The Machine disappears after its Node, even when the Node was linked while
   the deletion was under way (deleteNode, and the locked update that removes
   the finalizer), unless a recreated server registered it again. *)
NodeDeletedFirst ==
  [][api.exists /\ ~ api'.exists /\ api.nodeRef
       => ~ node \/ \E s \in Servers : Recreated(s)]_vars

(* A Machine marked InvalidConfiguration really is misconfigured. *)
InvalidMeansInvalid ==
  api.reason = "InvalidConfiguration" => ~ SpecValid

(* A deleted Machine eventually disappears. *)
DeletionCompletes == api.deleting ~> ~ api.exists

(* The instance of module Instance: here a server stands for its root volume as
   well.  A server that should not have been created does not count. *)
Own == {s \in Servers : Visible(s) /\ ~ Recreated(s)}

I == INSTANCE Instance WITH
       machine <- IF ~ api.exists THEN "gone" ELSE IF api.deleting THEN "deleting" ELSE "present",
       server  <- IF Own = {} THEN "none" ELSE servers[CHOOSE s \in Own : TRUE],
       volume  <- Own # {}

(* Through lagging copies, races with the drain controller and with users,
   failed requests and crashes, the controllers do to the Machine and its server
   what module Instance allows, in that order, and a deletion always ends. *)
ImplementsInstance == I!Spec

(* A Machine with a valid spec is eventually provisioned, unless it Fails or
   is deleted first. *)
EventuallyProvisioned ==
  <>(\/ api.phase \in {"Provisioned", "Running", "Failed", "Deleting"}
     \/ ~ api.exists \/ api.deleting)
=============================================================================
