------------------------------- MODULE KubeAPI -------------------------------
(***************************************************************************)
(* The Machine object in the Kubernetes API server and the informer cache  *)
(* the controllers of the manager read it from.  Neither is code of the    *)
(* repository; they are modelled from how controller-runtime's client and  *)
(* the machine controllers use them:                                       *)
(*   - every change of the object gives it a new resourceVersion ("rv"); a *)
(*     write that changes nothing leaves it alone;                         *)
(*   - Update, and Patch with MergeFromWithOptimisticLock, succeed only    *)
(*     when the writer's copy has the current resourceVersion; a plain     *)
(*     MergeFrom Patch needs only that the object exists, and writes the   *)
(*     fields in which the writer's copy was changed;                      *)
(*   - the response of every write replaces the writer's copy;             *)
(*   - watch events reach the cache late but in order, and each one        *)
(*     enqueues a request in both controllers' work queues.                *)
(***************************************************************************)
EXTENDS Naturals

CONSTANTS Servers,      \* server UUIDs Nova can hand out
          None,         \* no server: a nil ProviderID or InstanceStatus
          Hooks,        \* the lifecycle hooks that the Machine is created with
          MaxEdits,     \* bound: edits of the Machine by others
          LateEdits     \* bound: whether they also edit one that is being deleted

HookKinds == {"preDrain", "preTerminate"}

ASSUME HooksAssumption == Hooks \subseteq HookKinds
ASSUME NoneAssumption == None \notin Servers
ASSUME MaxEditsAssumption == MaxEdits \in Nat
ASSUME LateEditsAssumption == LateEdits \in BOOLEAN

VARIABLES api,          \* the stored object
          cached,       \* the informer's copy
          watch,        \* versions the informer has not been told of yet
          queued,       \* the machine controller has a request pending
          drainQueued   \* the drain controller has a request pending

kubeVars == <<api, cached, watch, queued, drainQueued>>

(* status.phase is a *string: "nil" when the field is absent, which is not the
   same as a phase that was written as "". *)
Phases == {"nil", "", "Provisioning", "Provisioned", "Running", "Failed", "Deleting"}
Reasons == {"none", "InvalidConfiguration"}

(* ptr.Deref(status.phase, "") *)
Deref(phase) == IF phase = "nil" THEN "" ELSE phase

Unreported == {"unset"}

(* What the controllers look at in a Machine: metadata (deletion timestamp,
   the machine finalizer, "labels": "set" once region, zone, flavor, resource ID
   and instance state have been written, "unknown" once the instance state has
   been overwritten with that; what others edit is a count), spec.providerID,
   spec.lifecycleHooks and status (phase, errorReason, addresses, nodeRef; of the
   conditions Drained and the pair Drainable/Terminable, as the set of hooks that
   they report). *)
Machine == [exists : BOOLEAN, deleting : BOOLEAN, finalizer : BOOLEAN,
            labels : {"none", "set", "unknown"}, edits : 0..MaxEdits,
            providerID : Servers \union {None},
            phase : Phases, reason : Reasons, addresses : BOOLEAN,
            nodeRef : BOOLEAN, drained : BOOLEAN, rv : Nat,
            hooks : SUBSET HookKinds, reported : (SUBSET HookKinds) \union {Unreported}]

NoMachine == [exists |-> FALSE, deleting |-> FALSE, finalizer |-> FALSE,
              labels |-> "none", edits |-> 0, providerID |-> None,
              phase |-> "nil", reason |-> "none", addresses |-> FALSE,
              nodeRef |-> FALSE, drained |-> FALSE, rv |-> 0,
              hooks |-> {}, reported |-> Unreported]

NewMachine == [NoMachine EXCEPT !.exists = TRUE, !.rv = 1, !.hooks = Hooks]

(* A MachineSet or a user has just created the Machine; the informer is about
   to hear of it. *)
KubeInit ==
  /\ api = NewMachine
  /\ cached = NoMachine
  /\ watch = {api}
  /\ queued = FALSE
  /\ drainQueued = FALSE

(* The stored object after a write that asks for the field values in obj. *)
Stored(obj) == IF obj = api THEN api ELSE [obj EXCEPT !.rv = api.rv + 1]

(* The store accepts obj: readers of the watch will be told if it changed. *)
Put(obj) ==
  /\ api' = Stored(obj)
  /\ watch' = IF obj = api THEN watch ELSE watch \union {Stored(obj)}
  /\ UNCHANGED cached

(* Mutant: the writer's resourceVersion is not sent. *)
Locked_AnyVersion(copy) == api.exists

(* The optimistic lock of Update and of MergeFromWithOptimisticLock. *)
Locked(copy) == api.exists /\ copy.rv = api.rv

(* The informer applies the oldest event it has not seen. *)
Deliver ==
  /\ \E v \in watch :
       /\ \A w \in watch : v.rv <= w.rv
       /\ cached' = v
       /\ watch' = watch \ {v}
  /\ queued' = TRUE
  /\ drainQueued' = TRUE
  /\ UNCHANGED api

(* Somebody deletes the Machine: at once when no finalizer holds it. *)
UserDelete ==
  /\ api.exists
  /\ ~ api.deleting
  /\ IF api.finalizer THEN Put([api EXCEPT !.deleting = TRUE])
                      ELSE Put([api EXCEPT !.exists = FALSE])
  /\ UNCHANGED <<queued, drainQueued>>

(* Somebody else edits the Machine: metadata that no controller here looks at,
   but the object gets a new version. *)
UserEdit ==
  /\ api.exists
  /\ api.deleting => LateEdits
  /\ api.edits < MaxEdits
  /\ Put([api EXCEPT !.edits = @ + 1])
  /\ UNCHANGED <<queued, drainQueued>>

(* The owner of a lifecycle hook does what the deletion waits for: PreTerminate
   hooks are "actioned after the Machine has been drained".  Hooks cannot be added
   to a Machine that is being deleted. *)
RemoveHook ==
  /\ api.exists /\ api.phase = "Deleting"
  /\ \E h \in api.hooks :
       /\ h = "preTerminate" => api.drained
       /\ Put([api EXCEPT !.hooks = @ \ {h}])
  /\ UNCHANGED <<queued, drainQueued>>
=============================================================================
