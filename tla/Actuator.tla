------------------------------ MODULE Actuator ------------------------------
(***************************************************************************)
(* OpenstackClient of pkg/machine/actuator.go: Exists, Create, Update and  *)
(* Delete as the machine controller calls them, with the parts of CAPO's   *)
(* compute service (instance.go) that change Nova's state.  Every request  *)
(* to the API server or to Nova is a step of its own; the computation      *)
(* between two requests belongs to the step before it.                     *)
(*                                                                         *)
(* "pc" says which request the controller's single worker makes next.  The *)
(* call frame is the worker's copy m of the Machine, the InstanceStatus st *)
(* it holds, and the actuator method it is in ("via").                     *)
(*                                                                         *)
(* The provider spec has no floating IP here.  Ports and volumes are in    *)
(* InstanceResources: a server stands for all of its instance's resources. *)
(***************************************************************************)
EXTENDS Nova

CONSTANTS SpecParsable, \* spec.providerSpec unmarshals
          SpecValid,    \* image, flavor, zone and server group check out
          MaxFaults     \* bound: failed requests, crashes, external deletions

ASSUME SpecAssumption == SpecParsable \in BOOLEAN /\ SpecValid \in BOOLEAN
ASSUME MaxFaultsAssumption == MaxFaults \in Nat

VARIABLES pc, m, st, via,
          faults        \* how many of them have happened

frame == <<m, st, via>>

(* One more thing goes wrong, or nothing does. *)
Fault == faults < MaxFaults /\ faults' = faults + 1
NoFault == UNCHANGED faults

(* Reconcile returns; "again" when it asks for another pass, by an error
   (rate-limited requeue) or by RequeueAfter. *)
EndPass(again) ==
  /\ pc' = "idle"
  /\ m' = NoMachine
  /\ st' = None
  /\ via' = "none"
  /\ queued' = (queued \/ again)

(* Mutant: a failed Create is not requeued. *)
Abort_NoRequeue(call) ==
  IF call = "update"
  THEN pc' = "reportError" /\ m' = m /\ st' = None /\ via' = "none" /\ queued' = queued
  ELSE EndPass(FALSE)

(* Create or Update returns an error that is not InvalidConfiguration: after
   Create the pass is requeued, after Update the status is patched first. *)
Abort(call) ==
  IF call = "update"
  THEN pc' = "reportError" /\ m' = m /\ st' = None /\ via' = "none" /\ queued' = queued
  ELSE EndPass(TRUE)

GoTo(label) == pc' = label /\ UNCHANGED <<frame, queued>>

(* getScope and getInstanceStatus for the worker's copy: GetCloud needs the
   provider spec, so an unparsable one fails here with a plain error. *)
LookupFails == IF SpecParsable THEN Fault ELSE NoFault

(* Mutant: a failed lookup is taken for an instance that does not exist. *)
LookupReturns_ErrorIsNil(s) ==
  /\ SpecParsable
  /\ \/ LookupAnswer(m, s) /\ NoFault
     \/ s = None /\ Fault

LookupReturns(s) == SpecParsable /\ LookupAnswer(m, s) /\ NoFault

Exists(answer) ==
  \/ answer = "error" /\ LookupFails
  \/ answer = "yes" /\ \E s \in Servers : LookupReturns(s)
  \/ answer = "no" /\ LookupReturns(None)

(***************************************************************************)
(* Create and Update: both are reconcile.                                  *)
(***************************************************************************)
(* Mutant: the instance is created whenever it is not found. *)
Reconcile_AlwaysCreates(call) ==
  /\ \/ LookupFails /\ Abort(call)
     \/ \E s \in Servers :
          /\ LookupReturns(s)
          /\ pc' = "setProviderID" /\ st' = s /\ via' = call
          /\ UNCHANGED <<m, queued>>
     \/ /\ LookupReturns(None)
        /\ pc' = "validate" /\ via' = call /\ UNCHANGED <<m, st, queued>>
  /\ UNCHANGED <<api, cached, watch, drainQueued, novaVars>>

(* An unparsable providerSpec does not get here: Exists has failed on it. *)
Reconcile(call) ==
  /\ \/ LookupFails /\ Abort(call)
     \/ \E s \in Servers :
          /\ LookupReturns(s)
          /\ pc' = "setProviderID" /\ st' = s /\ via' = call
          /\ UNCHANGED <<m, queued>>
     \/ /\ LookupReturns(None)
        /\ IF m.providerID = None
           THEN pc' = "validate" /\ via' = call /\ UNCHANGED <<m, st, queued>>
           ELSE Abort(call)           \* RequeueAfterError
  /\ UNCHANGED <<api, cached, watch, drainQueued, novaVars>>

(* validateMachine: whatever goes wrong, a failed request included, becomes
   InvalidMachineConfiguration. *)
ValidateMachine ==
  /\ pc = "validate"
  /\ \/ SpecValid /\ NoFault /\ GoTo("createServer")
     \/ /\ IF SpecValid THEN Fault ELSE NoFault
        /\ IF via = "create" THEN GoTo("invalid") ELSE Abort(via)
  /\ UNCHANGED <<api, cached, watch, drainQueued, novaVars>>

Boot(s) == servers[s] = "absent" /\ servers' = [servers EXCEPT ![s] = "BUILD"]

(* convertMachineToCapoInstanceSpec and CreateInstance up to the create
   request.  It may fail before the request, at Nova, or after Nova acted. *)
CreateServer ==
  /\ pc = "createServer"
  /\ \/ \E s \in Servers :
          /\ Boot(s)
          /\ pc' = "awaitActive" /\ st' = s
          /\ UNCHANGED <<m, via, queued>>
          /\ NoFault
     \/ /\ Fault
        /\ Abort(via)
        /\ UNCHANGED servers \/ \E s \in Servers : Boot(s)
  /\ UNCHANGED <<api, cached, watch, drainQueued, node>>

(* CreateInstance polls the server until it is ACTIVE; a server in ERROR, the
   timeout and a failed poll are errors.  A poll that is answered with 404
   dereferences nil: see Panic in MachineController. *)
AwaitActive ==
  /\ pc = "awaitActive"
  /\ \/ servers[st] = "ACTIVE" /\ NoFault /\ GoTo("setProviderID")
     \/ servers[st] = "ERROR" /\ NoFault /\ Abort(via)
     \/ Fault /\ Abort(via)
  /\ UNCHANGED <<api, cached, watch, drainQueued, novaVars>>

(* A write to the API server: obj is stored and the caller goes on with the
   answer, or the caller sees an error, because the write is not allowed, the
   request failed, or obj was stored and the answer is lost. *)
Write(allowed, obj, done, failed) ==
  \/ allowed /\ Put(obj) /\ NoFault /\ done
  \/ allowed /\ Put(obj) /\ Fault /\ failed
  \/ /\ UNCHANGED <<api, cached, watch>>
     /\ IF allowed THEN Fault ELSE NoFault
     /\ failed

(* The answer, the stored object, becomes the worker's copy. *)
Answered(label) == pc' = label /\ m' = api' /\ UNCHANGED <<st, via, queued>>

(* setProviderID: never touches one that is set; the patch carries the
   worker's resourceVersion. *)
SetProviderID ==
  /\ pc = "setProviderID"
  /\ IF m.providerID # None
     THEN NoFault /\ GoTo("patchLabels") /\ UNCHANGED <<api, cached, watch>>
     ELSE Write(Locked(m), [api EXCEPT !.providerID = st],
                Answered("patchLabels"), Abort(via))
  /\ UNCHANGED <<drainQueued, novaVars>>

(* setMachineLabels and setMachineAnnotations, patched without a lock. *)
PatchLabels ==
  /\ pc = "patchLabels"
  /\ Write(api.exists,
           [api EXCEPT !.labels = IF m.labels = "set" THEN @ ELSE "set"],
           Answered("patchStatus"), Abort(via))
  /\ UNCHANGED <<drainQueued, novaVars>>

(* setMachineStatus: the host name is always among the addresses.  After
   Create the pass is requeued, after Update Reconcile sets the phase. *)
PatchStatus ==
  /\ pc = "patchStatus"
  /\ Write(api.exists, [api EXCEPT !.addresses = TRUE],
           IF via = "create"
           THEN EndPass(TRUE)
           ELSE pc' = "updated" /\ m' = api' /\ st' = None /\ via' = "none" /\ queued' = queued,
           Abort(via))
  /\ UNCHANGED <<drainQueued, novaVars>>

(***************************************************************************)
(* Delete.                                                                 *)
(***************************************************************************)
DeleteLookup ==
  /\ pc = "delete"
  /\ \/ LookupFails /\ EndPass(TRUE)
     \/ LookupReturns(None) /\ GoTo("deleted")
     \/ \E s \in Servers :
          /\ LookupReturns(s)
          /\ pc' = "deleteServer" /\ st' = s
          /\ UNCHANGED <<m, via, queued>>
  /\ UNCHANGED <<api, cached, watch, drainQueued, novaVars>>

Terminate(s) ==
  servers' = [servers EXCEPT ![s] = IF @ = "gone" THEN @ ELSE "DELETING"]

(* deleteInstance: a 404 counts as done.  A failed request may have been
   carried out. *)
DeleteServer ==
  /\ pc = "deleteServer"
  /\ \/ /\ Terminate(st)
        /\ GoTo(IF servers[st] = "gone" THEN "deleted" ELSE "awaitDelete")
        /\ NoFault
     \/ /\ Fault
        /\ EndPass(TRUE)
        /\ UNCHANGED servers \/ Terminate(st)
  /\ UNCHANGED <<api, cached, watch, drainQueued, node>>

(* It then polls until Nova answers 404, or gives up. *)
AwaitDelete ==
  /\ pc = "awaitDelete"
  /\ \/ servers[st] = "gone" /\ NoFault /\ GoTo("deleted")
     \/ Fault /\ EndPass(TRUE)
  /\ UNCHANGED <<api, cached, watch, drainQueued, novaVars>>

ActuatorStep ==
  \/ ValidateMachine \/ CreateServer \/ AwaitActive
  \/ SetProviderID \/ PatchLabels \/ PatchStatus
  \/ DeleteLookup \/ DeleteServer \/ AwaitDelete
=============================================================================
