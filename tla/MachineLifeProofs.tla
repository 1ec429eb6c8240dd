-------------------------- MODULE MachineLifeProofs --------------------------
(***************************************************************************)
(* More theorems about MachineController, on top of IndInv: what keeps a   *)
(* single worker with outdated copies from deleting too early, creating    *)
(* twice, leaking a server or waking up a Machine that has Failed.         *)
(*                                                                         *)
(* What every action does to the stored object, to the copies and to the   *)
(* worker is stated once (the lemmas named ...Effect).  Over it there are  *)
(* layers, each inductive relative to the ones before: DeletionInv and     *)
(* ServersInv here, which also give the refinement of module Instance, and *)
(* StatusInv, LostInv, NodeInv and RecreateInv in MachineStatusProofs.     *)
(***************************************************************************)
EXTENDS MachineControllerProofs

(* The stored object is left alone, or changed and told to the informer. *)
Silent == UNCHANGED <<api, cached, watch>>

Wrote ==
  /\ cached' = cached
  /\ \/ api' = api /\ watch' = watch
     \/ api'.rv = api.rv + 1 /\ watch' = watch \union {api'}

(* Parts of the object that a write may keep. *)
KeepMeta ==
  /\ api'.exists = api.exists /\ api'.deleting = api.deleting
  /\ api'.finalizer = api.finalizer /\ api'.providerID = api.providerID
KeepDrain == api'.drained = api.drained /\ api'.hooks = api.hooks
KeepStatus == api'.phase = api.phase /\ api'.reason = api.reason
KeepNode == api'.addresses = api.addresses /\ api'.nodeRef = api.nodeRef

(* The worker's pass is over; Create or Update has failed. *)
PassOver == pc' = "idle" /\ m' = NoMachine
Aborted == PassOver \/ (pc' = "reportError" /\ m' = m)

(* The worker's copy has been refreshed with the stored phase and reason. *)
Refreshed ==
  /\ m'.phase = api'.phase /\ m'.reason = api'.reason
  /\ m'.deleting = m.deleting /\ m'.finalizer = m.finalizer /\ m'.providerID = m.providerID
  /\ m'.addresses = m.addresses /\ m'.nodeRef = m.nodeRef

KeepWorker == UNCHANGED <<pc, m, st>>
KeepNova == UNCHANGED <<servers, node>>

(* A write stores the fields that it asks for, with a new version. *)
LEMMA PutEffect ==
  ASSUME IndInv, NEW obj \in Machine, Put(obj)
  PROVE  /\ Wrote
         /\ api'.exists = obj.exists /\ api'.deleting = obj.deleting
         /\ api'.finalizer = obj.finalizer /\ api'.providerID = obj.providerID
         /\ api'.drained = obj.drained /\ api'.hooks = obj.hooks
         /\ api'.phase = obj.phase /\ api'.reason = obj.reason
         /\ api'.addresses = obj.addresses /\ api'.nodeRef = obj.nodeRef
  <1>1. api \in Machine
    BY DEF IndInv, TypeOK
  <1>2. CASE obj = api
    BY <1>2 DEF Put, Stored, Wrote
  <1>3. CASE obj # api
    <2>1. api' = [obj EXCEPT !.rv = api.rv + 1] /\ watch' = watch \union {api'} /\ cached' = cached
      BY <1>3 DEF Put, Stored
    <2> QED BY <1>1, <2>1 DEF Wrote, Machine
  <1> QED BY <1>2, <1>3

LEMMA EndPassOver == \A again : EndPass(again) => PassOver
  BY DEF EndPass, PassOver

LEMMA AbortOver == \A call : Abort(call) => Aborted
  BY EndPassOver DEF Abort, Aborted

LEMMA AddFinalizerEffect ==
  ASSUME IndInv, AddFinalizer
  PROVE  /\ pc = "fetched" /\ ~ m.deleting /\ PassOver /\ KeepNova
         /\ \/ Silent
            \/ /\ api.exists /\ Wrote /\ api'.exists /\ api'.finalizer
               /\ api'.deleting = api.deleting /\ api'.providerID = api.providerID
               /\ KeepDrain /\ KeepStatus /\ KeepNode
  <1>1. pc = "fetched" /\ ~ m.deleting /\ PassOver /\ KeepNova
    BY EndPassOver DEF AddFinalizer, Write, KeepNova, novaVars
  <1>2. CASE Put([api EXCEPT !.finalizer = TRUE]) /\ api.exists
    <2> DEFINE obj == [api EXCEPT !.finalizer = TRUE]
    <2>1. /\ obj \in Machine /\ obj.exists = api.exists /\ obj.finalizer
          /\ obj.deleting = api.deleting /\ obj.providerID = api.providerID
          /\ obj.drained = api.drained /\ obj.hooks = api.hooks
          /\ obj.phase = api.phase /\ obj.reason = api.reason
          /\ obj.addresses = api.addresses /\ obj.nodeRef = api.nodeRef
      BY DEF IndInv, TypeOK, Machine
    <2>2. Put(obj)
      BY <1>2
    <2> HIDE DEF obj
    <2> QED BY <1>1, <1>2, <2>1, <2>2, PutEffect DEF KeepDrain, KeepStatus, KeepNode
  <1> QED BY <1>1, <1>2 DEF AddFinalizer, Write, Locked, Silent

LEMMA RemoveFinalizerEffect ==
  ASSUME IndInv, RemoveFinalizer
  PROVE  /\ pc = "removeFinalizer" /\ PassOver /\ KeepNova
         /\ \/ Silent
            \/ /\ m = api /\ api.exists /\ Wrote /\ ~ api'.exists /\ ~ api'.finalizer
               /\ api'.deleting = api.deleting /\ api'.providerID = api.providerID
               /\ KeepDrain /\ KeepStatus /\ KeepNode
  <1>1. pc = "removeFinalizer" /\ PassOver /\ KeepNova
    BY EndPassOver DEF RemoveFinalizer, Write, KeepNova, novaVars
  <1>2. CASE Put([api EXCEPT !.finalizer = FALSE, !.exists = FALSE]) /\ Locked(m)
    <2> DEFINE obj == [api EXCEPT !.finalizer = FALSE, !.exists = FALSE]
    <2>1. /\ obj \in Machine /\ ~ obj.exists /\ ~ obj.finalizer
          /\ obj.deleting = api.deleting /\ obj.providerID = api.providerID
          /\ obj.drained = api.drained /\ obj.hooks = api.hooks
          /\ obj.phase = api.phase /\ obj.reason = api.reason
          /\ obj.addresses = api.addresses /\ obj.nodeRef = api.nodeRef
      BY DEF IndInv, TypeOK, Machine
    <2>2. Put(obj) /\ m = api /\ api.exists
      BY <1>2, CurrentCopy
    <2> HIDE DEF obj
    <2> QED BY <1>1, <2>1, <2>2, PutEffect DEF KeepDrain, KeepStatus, KeepNode
  <1> QED BY <1>1, <1>2 DEF RemoveFinalizer, Write, Silent

(* updateStatus changes the phase and the reason if they differ from the worker's copy. *)
LEMMA WithStatusEffect ==
  ASSUME IndInv, NEW phase \in Phases, NEW reason \in Reasons, NEW rewrite \in BOOLEAN,
         Put(WithStatus(phase, reason, rewrite))
  PROVE  /\ Wrote /\ KeepMeta /\ KeepNode /\ api'.hooks = api.hooks
         /\ api'.phase = IF m.phase = phase THEN api.phase ELSE phase
         /\ api'.reason = IF m.reason = reason THEN api.reason ELSE reason
  <1> DEFINE obj == WithStatus(phase, reason, rewrite)
  <1>1. obj \in Machine
    BY WithStatusType, TypeParts DEF IndInv
  <1>2. /\ obj.exists = api.exists /\ obj.finalizer = api.finalizer
        /\ obj.deleting = api.deleting /\ obj.providerID = api.providerID
        /\ obj.hooks = api.hooks /\ obj.addresses = api.addresses /\ obj.nodeRef = api.nodeRef
        /\ obj.phase = (IF m.phase = phase THEN api.phase ELSE phase)
        /\ obj.reason = (IF m.reason = reason THEN api.reason ELSE reason)
    BY DEF IndInv, TypeOK, Machine, WithStatus
  <1> HIDE DEF obj
  <1>3. Put(obj)
    BY DEF obj
  <1> QED BY <1>1, <1>2, <1>3, PutEffect DEF KeepMeta, KeepNode

LEMMA FinishEffect ==
  ASSUME IndInv, NEW phase \in Phases, NEW reason \in Reasons, NEW again,
         FinishWithStatus(phase, reason, again)
  PROVE  /\ PassOver
         /\ \/ Silent
            \/ /\ Wrote /\ KeepMeta /\ KeepNode /\ api'.hooks = api.hooks
               /\ api'.phase = IF m.phase = phase THEN api.phase ELSE phase
               /\ api'.reason = IF m.reason = reason THEN api.reason ELSE reason
  <1>1. PassOver
    BY EndPassOver DEF FinishWithStatus, Write
  <1>2. CASE \E rewrite \in BOOLEAN : Put(WithStatus(phase, reason, rewrite))
    BY <1>1, <1>2, WithStatusEffect
  <1> QED BY <1>1, <1>2 DEF FinishWithStatus, Write, Silent

LEMMA MarkDeletingEffect ==
  ASSUME IndInv, MarkDeleting
  PROVE  /\ pc = "fetched" /\ m.deleting /\ KeepNova
         /\ \/ Silent /\ PassOver
            \/ /\ api.exists /\ Wrote /\ KeepMeta /\ KeepNode /\ api'.hooks = api.hooks
               /\ api'.phase = (IF m.phase = "Deleting" THEN api.phase ELSE "Deleting")
               /\ api'.reason = (IF m.reason = "none" THEN api.reason ELSE "none")
               /\ \/ PassOver
                  \/ /\ pc' = "delete" /\ m' = api'
                     /\ api'.finalizer /\ api'.drained /\ "preTerminate" \notin api'.hooks
  <1>1. pc = "fetched" /\ m.deleting /\ KeepNova
    BY DEF MarkDeleting, KeepNova, novaVars
  <1>2. CASE Put(WithStatus("Deleting", "none", m.reported # m.hooks)) /\ api.exists
    <2>1. (m.reported # m.hooks) \in BOOLEAN
      BY Zenon
    <2>2. /\ Wrote /\ KeepMeta /\ KeepNode /\ api'.hooks = api.hooks
          /\ api'.phase = IF m.phase = "Deleting" THEN api.phase ELSE "Deleting"
          /\ api'.reason = IF m.reason = "none" THEN api.reason ELSE "none"
      BY <1>2, <2>1, WithStatusEffect DEF Phases, Reasons
    <2>3. \/ PassOver
          \/ /\ pc' = "delete" /\ m' = api'
             /\ api'.finalizer /\ api'.drained /\ "preTerminate" \notin api'.hooks
      BY EndPassOver DEF MarkDeleting, Write, Answered
    <2> QED BY <1>1, <1>2, <2>2, <2>3
  <1> QED BY <1>1, <1>2, EndPassOver DEF MarkDeleting, Write, Silent

LEMMA SetProviderIDEffect ==
  ASSUME IndInv, SetProviderID
  PROVE  /\ pc = "setProviderID" /\ KeepNova
         /\ \/ Silent /\ m.providerID # None /\ pc' = "patchLabels" /\ m' = m
            \/ Silent /\ Aborted
            \/ /\ m = api /\ api.exists /\ m.providerID = None /\ Wrote /\ api'.providerID = st
               /\ api'.exists = api.exists /\ api'.deleting = api.deleting
               /\ api'.finalizer = api.finalizer
               /\ KeepDrain /\ KeepStatus /\ KeepNode
               /\ Aborted \/ (pc' = "patchLabels" /\ m' = api')
  <1>1. pc = "setProviderID" /\ KeepNova
    BY DEF SetProviderID, KeepNova, novaVars
  <1>2. CASE /\ m.providerID = None /\ Locked(m) /\ Put([api EXCEPT !.providerID = st])
             /\ Aborted \/ (pc' = "patchLabels" /\ m' = api')
    <2> DEFINE obj == [api EXCEPT !.providerID = st]
    <2>1. /\ obj \in Machine /\ obj.exists = api.exists /\ obj.finalizer = api.finalizer
          /\ obj.deleting = api.deleting /\ obj.providerID = st
          /\ obj.drained = api.drained /\ obj.hooks = api.hooks
          /\ obj.phase = api.phase /\ obj.reason = api.reason
          /\ obj.addresses = api.addresses /\ obj.nodeRef = api.nodeRef
      BY DEF IndInv, TypeOK, Machine
    <2>2. Put(obj) /\ m = api /\ api.exists
      BY <1>2, CurrentCopy
    <2> HIDE DEF obj
    <2> QED BY <1>1, <1>2, <2>1, <2>2, PutEffect DEF KeepDrain, KeepStatus, KeepNode
  <1>3. CASE UNCHANGED <<api, cached, watch>> /\ Abort(via)
    BY <1>1, <1>3, AbortOver DEF Silent
  <1>4. CASE m.providerID # None /\ GoTo("patchLabels") /\ UNCHANGED <<api, cached, watch>>
    BY <1>1, <1>4 DEF GoTo, frame, Silent
  <1> QED BY <1>2, <1>3, <1>4, AbortOver DEF SetProviderID, Write, Answered

LEMMA PatchLabelsEffect ==
  ASSUME IndInv, PatchLabels
  PROVE  /\ pc = "patchLabels" /\ KeepNova
         /\ \/ Silent /\ Aborted
            \/ /\ api.exists /\ Wrote /\ KeepMeta /\ KeepDrain /\ KeepStatus /\ KeepNode
               /\ Aborted \/ (pc' = "patchStatus" /\ m' = api')
  <1>1. pc = "patchLabels" /\ KeepNova
    BY DEF PatchLabels, KeepNova, novaVars
  <1> DEFINE obj == [api EXCEPT !.labels = IF m.labels = "set" THEN @ ELSE "set"]
  <1>2. CASE /\ api.exists /\ Put(obj)
             /\ Aborted \/ (pc' = "patchStatus" /\ m' = api')
    <2>1. /\ obj \in Machine /\ obj.exists = api.exists /\ obj.finalizer = api.finalizer
          /\ obj.deleting = api.deleting /\ obj.providerID = api.providerID
          /\ obj.drained = api.drained /\ obj.hooks = api.hooks
          /\ obj.phase = api.phase /\ obj.reason = api.reason
          /\ obj.addresses = api.addresses /\ obj.nodeRef = api.nodeRef
      BY RelabelledType, TypeParts DEF IndInv, TypeOK, Machine
    <2> HIDE DEF obj
    <2> QED BY <1>1, <1>2, <2>1, PutEffect DEF KeepMeta, KeepDrain, KeepStatus, KeepNode
  <1>3. CASE UNCHANGED <<api, cached, watch>> /\ Abort(via)
    BY <1>1, <1>3, AbortOver DEF Silent
  <1> QED BY <1>2, <1>3, AbortOver DEF PatchLabels, Write, Answered

(* What the annotation with which updateStatus(Failed) begins does. *)
LEMMA AnnotateEffect ==
  ASSUME IndInv, NEW label, AnnotateFailed(label)
  PROVE  \/ Silent /\ PassOver
         \/ /\ api.exists /\ Wrote /\ KeepMeta /\ KeepDrain /\ KeepStatus /\ KeepNode
            /\ PassOver \/ (pc' = label /\ st' = st /\ Refreshed)
  <1> DEFINE obj == [api EXCEPT !.labels = IF m.labels = "unknown" THEN @ ELSE "unknown"]
             fresh == [m EXCEPT !.phase = api'.phase, !.reason = api'.reason]
  <1>1. CASE api.exists /\ Put(obj) /\ (PassOver \/ (pc' = label /\ st' = st /\ m' = fresh))
    <2>1. /\ obj \in Machine /\ obj.exists = api.exists /\ obj.finalizer = api.finalizer
          /\ obj.deleting = api.deleting /\ obj.providerID = api.providerID
          /\ obj.drained = api.drained /\ obj.hooks = api.hooks
          /\ obj.phase = api.phase /\ obj.reason = api.reason
          /\ obj.addresses = api.addresses /\ obj.nodeRef = api.nodeRef
      BY RelabelledType, TypeParts DEF IndInv, TypeOK, Machine
    <2>2. m' = fresh => Refreshed
      <3>1. m \in Machine
        BY DEF IndInv, TypeOK
      <3> QED BY <3>1 DEF Refreshed, Machine
    <2> HIDE DEF obj, fresh
    <2> QED BY <1>1, <2>1, <2>2, PutEffect DEF KeepMeta, KeepDrain, KeepStatus, KeepNode
  <1>2. CASE UNCHANGED <<api, cached, watch>> /\ EndPass(TRUE)
    BY <1>2, EndPassOver DEF Silent
  <1> QED BY <1>1, <1>2, EndPassOver DEF AnnotateFailed, Write

LEMMA PatchStatusEffect ==
  ASSUME IndInv, PatchStatus
  PROVE  /\ pc = "patchStatus" /\ KeepNova
         /\ \/ Silent /\ Aborted
            \/ /\ api.exists /\ Wrote /\ KeepMeta /\ KeepDrain /\ KeepStatus
               /\ api'.addresses /\ api'.nodeRef = api.nodeRef
               /\ Aborted \/ (pc' = "updated" /\ m' = api')
  <1>1. pc = "patchStatus" /\ KeepNova
    BY DEF PatchStatus, KeepNova, novaVars
  <1>2. CASE /\ api.exists /\ Put([api EXCEPT !.addresses = TRUE])
             /\ Aborted \/ (pc' = "updated" /\ m' = api')
    <2> DEFINE obj == [api EXCEPT !.addresses = TRUE]
    <2>1. /\ obj \in Machine /\ obj.exists = api.exists /\ obj.finalizer = api.finalizer
          /\ obj.deleting = api.deleting /\ obj.providerID = api.providerID
          /\ obj.drained = api.drained /\ obj.hooks = api.hooks
          /\ obj.phase = api.phase /\ obj.reason = api.reason
          /\ obj.addresses /\ obj.nodeRef = api.nodeRef
      BY DEF IndInv, TypeOK, Machine
    <2>2. Put(obj)
      BY <1>2
    <2> HIDE DEF obj
    <2> QED BY <1>1, <1>2, <2>1, <2>2, PutEffect DEF KeepMeta, KeepDrain, KeepStatus
  <1>3. CASE UNCHANGED <<api, cached, watch>> /\ Abort(via)
    BY <1>1, <1>3, AbortOver DEF Silent
  <1> QED BY <1>2, <1>3, EndPassOver, AbortOver DEF PatchStatus, Write, Aborted

LEMMA DrainerEffect ==
  ASSUME IndInv, Drainer
  PROVE  /\ KeepWorker /\ KeepNova
         /\ \/ Silent
            \/ /\ api.exists /\ Wrote /\ KeepMeta /\ KeepStatus /\ KeepNode
               /\ api'.drained /\ api'.hooks = api.hooks
  <1>1. KeepWorker /\ KeepNova
    BY DEF Drainer, KeepWorker, KeepNova, novaVars, frame
  <1>2. CASE Put([api EXCEPT !.drained = TRUE]) /\ api.exists
    <2> DEFINE obj == [api EXCEPT !.drained = TRUE]
    <2>1. /\ obj \in Machine /\ obj.exists = api.exists /\ obj.finalizer = api.finalizer
          /\ obj.deleting = api.deleting /\ obj.providerID = api.providerID
          /\ obj.drained /\ obj.hooks = api.hooks
          /\ obj.phase = api.phase /\ obj.reason = api.reason
          /\ obj.addresses = api.addresses /\ obj.nodeRef = api.nodeRef
      BY DEF IndInv, TypeOK, Machine
    <2>2. Put(obj)
      BY <1>2
    <2> HIDE DEF obj
    <2> QED BY <1>1, <1>2, <2>1, <2>2, PutEffect DEF KeepMeta, KeepStatus, KeepNode
  <1> QED BY <1>1, <1>2 DEF Drainer, DrainStart, DrainFinish, Write, Silent

LEMMA UserEffect ==
  ASSUME IndInv, User
  PROVE  /\ KeepWorker /\ KeepNova /\ api.exists /\ ~ api.deleting /\ Wrote
         /\ api'.finalizer = api.finalizer /\ api'.providerID = api.providerID
         /\ KeepDrain /\ KeepStatus /\ KeepNode
         /\ IF api.finalizer THEN api'.exists /\ api'.deleting
                             ELSE ~ api'.exists /\ api'.deleting = api.deleting
  <1>1. KeepWorker /\ KeepNova /\ api.exists /\ ~ api.deleting
    BY DEF User, UserDelete, KeepWorker, KeepNova, novaVars, frame
  <1> DEFINE obj == IF api.finalizer THEN [api EXCEPT !.deleting = TRUE]
                                     ELSE [api EXCEPT !.exists = FALSE]
  <1>2. /\ obj \in Machine /\ obj.finalizer = api.finalizer /\ obj.providerID = api.providerID
        /\ obj.drained = api.drained /\ obj.hooks = api.hooks
        /\ obj.phase = api.phase /\ obj.reason = api.reason
        /\ obj.addresses = api.addresses /\ obj.nodeRef = api.nodeRef
        /\ IF api.finalizer THEN obj.exists = api.exists /\ obj.deleting
                            ELSE ~ obj.exists /\ obj.deleting = api.deleting
    BY DEF IndInv, TypeOK, Machine
  <1>3. Put(obj)
    BY DEF User, UserDelete
  <1> HIDE DEF obj
  <1> QED BY <1>1, <1>2, <1>3, PutEffect DEF KeepDrain, KeepStatus, KeepNode

LEMMA EditorEffect ==
  ASSUME IndInv, Editor
  PROVE  /\ KeepWorker /\ KeepNova /\ api.exists /\ Wrote
         /\ KeepMeta /\ KeepDrain /\ KeepStatus /\ KeepNode
  <1>1. KeepWorker /\ KeepNova /\ api.exists /\ api.edits < MaxEdits
    BY DEF Editor, UserEdit, KeepWorker, KeepNova, novaVars, frame
  <1> DEFINE obj == [api EXCEPT !.edits = @ + 1]
  <1>2. /\ obj \in Machine
    BY <1>1, EditedType DEF IndInv, TypeOK
  <1>3. /\ obj.exists = api.exists /\ obj.finalizer = api.finalizer
        /\ obj.deleting = api.deleting /\ obj.providerID = api.providerID
        /\ obj.drained = api.drained /\ obj.hooks = api.hooks
        /\ obj.phase = api.phase /\ obj.reason = api.reason
        /\ obj.addresses = api.addresses /\ obj.nodeRef = api.nodeRef
    BY DEF IndInv, TypeOK, Machine
  <1>4. Put(obj)
    BY DEF Editor, UserEdit
  <1> HIDE DEF obj
  <1> QED BY <1>1, <1>2, <1>3, <1>4, PutEffect DEF KeepMeta, KeepDrain, KeepStatus, KeepNode

LEMMA HookOwnerEffect ==
  ASSUME IndInv, HookOwner
  PROVE  /\ KeepWorker /\ KeepNova /\ api.exists /\ Wrote
         /\ KeepMeta /\ KeepStatus /\ KeepNode
         /\ api'.drained = api.drained /\ api'.hooks \subseteq api.hooks
  <1>1. KeepWorker /\ KeepNova /\ api.exists
    BY DEF HookOwner, RemoveHook, KeepWorker, KeepNova, novaVars, frame
  <1>2. PICK h \in api.hooks : Put([api EXCEPT !.hooks = @ \ {h}])
    BY DEF HookOwner, RemoveHook
  <1> DEFINE obj == [api EXCEPT !.hooks = @ \ {h}]
  <1>3. /\ obj \in Machine /\ obj.exists = api.exists /\ obj.finalizer = api.finalizer
        /\ obj.deleting = api.deleting /\ obj.providerID = api.providerID
        /\ obj.drained = api.drained /\ obj.hooks \subseteq api.hooks
        /\ obj.phase = api.phase /\ obj.reason = api.reason
        /\ obj.addresses = api.addresses /\ obj.nodeRef = api.nodeRef
    BY UnhookedType DEF IndInv, TypeOK, Machine
  <1>4. Put(obj)
    BY <1>2
  <1> HIDE DEF obj
  <1> QED BY <1>1, <1>3, <1>4, PutEffect DEF KeepMeta, KeepStatus, KeepNode

LEMMA NodeLinkEffect ==
  ASSUME IndInv, NodeLink
  PROVE  /\ KeepWorker /\ KeepNova /\ api.exists /\ Wrote
         /\ KeepMeta /\ KeepDrain /\ KeepStatus
         /\ api.addresses /\ api'.addresses = api.addresses
  <1>1. KeepWorker /\ KeepNova /\ api.exists /\ api.addresses
    BY DEF NodeLink, KeepWorker, KeepNova, novaVars, frame
  <1> DEFINE obj == [api EXCEPT !.nodeRef = TRUE]
  <1>2. /\ obj \in Machine /\ obj.exists = api.exists /\ obj.finalizer = api.finalizer
        /\ obj.deleting = api.deleting /\ obj.providerID = api.providerID
        /\ obj.drained = api.drained /\ obj.hooks = api.hooks
        /\ obj.phase = api.phase /\ obj.reason = api.reason
        /\ obj.addresses = api.addresses
    BY DEF IndInv, TypeOK, Machine
  <1>3. Put(obj)
    BY DEF NodeLink
  <1> HIDE DEF obj
  <1> QED BY <1>1, <1>2, <1>3, PutEffect DEF KeepMeta, KeepDrain, KeepStatus

-----------------------------------------------------------------------------
(* Layer 1: deletion.  What an earlier version o of the Machine says of a later
   one p. *)
Later(o, p) ==
  /\ o.deleting => p.deleting
  /\ o.phase # "nil" => p.phase # "nil"
  /\ o.phase = "Deleting" => p.phase = "Deleting"

(* The versions that are under way are told to the informer in order. *)
InOrder ==
  /\ Later(cached, api) /\ Later(m, api)
  /\ \A w \in watch : Later(cached, w) /\ Later(w, api)
  /\ \A v, w \in watch : v.rv <= w.rv => Later(v, w)

(* Everything that a pass can start from says that the Machine is being deleted. *)
AllDeleting == cached.deleting /\ api.deleting /\ \A w \in watch : w.deleting

(* The worker's way to a server, and its way to get rid of it. *)
CreatePath == {"exists", "missing", "validate", "createServer", "awaitActive", "setProviderID",
               "patchLabels", "patchStatus", "updated", "invalid", "failMissing", "failInvalid",
               "reportError"}
DeletePath == {"delete", "deleteServer", "awaitDelete", "deleted", "deleteNode", "removeFinalizer"}

(* A pass that creates works on a Machine that is there; its deletion has not been
   started by this controller. *)
Creating == pc \in CreatePath => api.exists /\ m.finalizer /\ api.phase # "Deleting"

(* A pass that deletes works on a drained Machine without pre-terminate hooks. *)
Deleting ==
  pc \in DeletePath =>
    /\ AllDeleting /\ api.exists /\ m.finalizer /\ m.deleting
    /\ api.drained /\ "preTerminate" \notin api.hooks

(* A fetched copy is no newer than the cache. *)
Fetched == pc = "fetched" /\ m.deleting => AllDeleting

(* Once the controller has started the deletion, every pass knows of it. *)
DeletionKnown ==
  api.phase = "Deleting" => AllDeleting /\ (pc # "idle" => m.deleting)

(* Of a Machine that is gone no pass finds a finalizer, or every pass finds the
   deletion. *)
GoneKnown ==
  ~ api.exists =>
    \/ ~ cached.finalizer /\ ~ m.finalizer /\ ~ api.finalizer /\ \A w \in watch : ~ w.finalizer
    \/ AllDeleting /\ (pc # "idle" => m.deleting)

DeletionInv == InOrder /\ Creating /\ Deleting /\ Fetched /\ DeletionKnown /\ GoneKnown

(* A write that only moves on keeps the versions in order. *)
LEMMA OrderWrote ==
  ASSUME IndInv, InOrder, Wrote, Later(api, api'),
         m' = m \/ m' = api' \/ m' = NoMachine \/ Later(m', api')
  PROVE  InOrder'
  <1>1. Later(cached, api') /\ Later(m, api') /\ \A w \in watch : Later(w, api')
    <2>1. ASSUME NEW o, Later(o, api) PROVE Later(o, api')
      BY <2>1 DEF Later
    <2> QED BY <2>1 DEF InOrder
  <1>2. Later(api', api') /\ Later(NoMachine, api')
    BY DEF Later, NoMachine
  <1>3. \A w \in watch' : w \in watch \/ (w = api' /\ api'.rv = api.rv + 1)
    BY DEF Wrote
  <1>4. \A w \in watch' : Later(cached, w) /\ Later(w, api')
    BY <1>1, <1>2, <1>3 DEF InOrder
  <1>5. ASSUME NEW v \in watch', NEW w \in watch', v.rv <= w.rv PROVE Later(v, w)
    <2>1. CASE w = api'
      BY <1>4, <2>1
    <2>2. CASE w \in watch /\ v \in watch
      BY <1>5, <2>2 DEF InOrder
    <2>3. CASE w \in watch /\ v = api' /\ api'.rv = api.rv + 1
      <3>1. w.rv <= api.rv /\ w.rv \in Nat /\ api.rv \in Nat
        BY <2>3 DEF IndInv, TypeOK, CopiesOK, IsCopy, Machine
      <3> QED BY <1>5, <2>3, <3>1
    <2> QED BY <1>3, <2>1, <2>2, <2>3
  <1> QED BY <1>1, <1>2, <1>4, <1>5 DEF InOrder, Wrote

LEMMA OrderSilent ==
  ASSUME InOrder, Silent, m' = m \/ m' = cached \/ m' = NoMachine
  PROVE  InOrder'
  <1>1. Later(NoMachine, api)
    BY DEF Later, NoMachine
  <1> QED BY <1>1 DEF InOrder, Silent

(* The rest of DeletionInv, when nothing is written. *)
DeletionKnowledge == Creating /\ Deleting /\ Fetched /\ DeletionKnown /\ GoneKnown

LEMMA DeletionParts ==
  /\ DeletionInv <=> InOrder /\ DeletionKnowledge
  /\ DeletionInv' <=> InOrder' /\ DeletionKnowledge'
  BY DEF DeletionInv, DeletionKnowledge

(* A pass ends without a write, or Nova changes, or nothing does. *)
LEMMA DeletionSilent ==
  ASSUME DeletionInv, Silent, PassOver \/ UNCHANGED <<pc, m>>
  PROVE  DeletionInv'
  <1>1. InOrder'
    BY OrderSilent DEF DeletionInv, PassOver
  <1>2. DeletionKnowledge'
    <2>1. CASE UNCHANGED <<pc, m>>
      BY <2>1 DEF Silent, DeletionInv, DeletionKnowledge, Creating, Deleting, Fetched, DeletionKnown,
                  GoneKnown, AllDeleting
    <2>2. CASE PassOver
      BY <2>2 DEF Silent, PassOver, DeletionInv, DeletionKnowledge, Creating, Deleting, Fetched,
                  DeletionKnown, GoneKnown, AllDeleting, CreatePath, DeletePath, NoMachine
    <2> QED BY <2>1, <2>2
  <1> QED BY <1>1, <1>2, DeletionParts

(* The worker goes on, on the path it is on. *)
LEMMA DeletionGoesOn ==
  ASSUME DeletionInv, Silent, m' = m, pc # "idle", pc' # "idle", pc' # "fetched",
         pc' \in CreatePath => pc \in CreatePath,
         pc' \in DeletePath => pc \in DeletePath
  PROVE  DeletionInv'
  <1>1. InOrder'
    BY OrderSilent DEF DeletionInv
  <1>2. DeletionKnowledge'
    BY DEF Silent, DeletionInv, DeletionKnowledge, Creating, Deleting, Fetched, DeletionKnown,
           GoneKnown, AllDeleting
  <1> QED BY <1>1, <1>2, DeletionParts

(* A write by others or at the end of a pass, to a Machine that is there, that keeps
   phase and finalizer. *)
LEMMA DeletionWrote ==
  ASSUME IndInv, DeletionInv, Wrote, api.exists, KeepMeta, api'.phase = api.phase,
         api.drained => api'.drained, api'.hooks \subseteq api.hooks,
         UNCHANGED <<pc, m>> \/ PassOver
  PROVE  DeletionInv'
  <1>1. InOrder'
    BY OrderWrote DEF DeletionInv, KeepMeta, Later, PassOver
  <1>2. AllDeleting => AllDeleting'
    BY DEF AllDeleting, Wrote, KeepMeta
  <1>3. CASE UNCHANGED <<pc, m>>
    BY <1>1, <1>2, <1>3, DeletionParts
       DEF KeepMeta, DeletionInv, DeletionKnowledge, Creating, Deleting, Fetched, DeletionKnown, GoneKnown
  <1>4. CASE PassOver
    BY <1>1, <1>2, <1>4, DeletionParts
       DEF PassOver, KeepMeta, DeletionInv, DeletionKnowledge, Creating, Deleting, Fetched, DeletionKnown,
           GoneKnown, CreatePath, DeletePath
  <1> QED BY <1>3, <1>4

(* A write on the way to a server, after which Create or Update goes on or fails. *)
LEMMA DeletionCreates ==
  ASSUME IndInv, DeletionInv, Wrote, api.exists, pc \in CreatePath,
         api'.exists = api.exists, api'.deleting = api.deleting, api'.finalizer = api.finalizer,
         KeepStatus, KeepDrain,
         Aborted \/ (pc' \in CreatePath /\ m' = api') \/ (pc' \in CreatePath /\ Refreshed)
  PROVE  DeletionInv'
  <1>1. Later(api, api')
    BY DEF Later, KeepStatus
  <1>2. m.finalizer /\ api.finalizer /\ api.phase # "Deleting"
    BY DEF DeletionInv, Creating, IndInv, CopiesOK, IsCopy
  <1>3. m.deleting => api.deleting
    BY DEF DeletionInv, InOrder, Later
  <1>4. InOrder'
    BY <1>1, <1>3, OrderWrote DEF DeletionInv, Later, Aborted, PassOver, Refreshed
  <1>5. AllDeleting => AllDeleting'
    BY DEF AllDeleting, Wrote
  <1>6. pc' \in CreatePath \/ PassOver
    BY DEF Aborted, CreatePath
  <1>7. pc' \in CreatePath => m'.finalizer
    BY <1>2 DEF Aborted, PassOver, CreatePath, Refreshed
  <1> QED BY <1>2, <1>4, <1>5, <1>6, <1>7
          DEF DeletionInv, Creating, Deleting, Fetched, DeletionKnown, GoneKnown, CreatePath,
              DeletePath, PassOver, KeepStatus

LEMMA DeletionInit == Init => DeletionInv
  <1> SUFFICES ASSUME Init PROVE DeletionInv
    OBVIOUS
  <1>1. /\ cached = NoMachine /\ m = NoMachine /\ watch = {api} /\ pc = "idle"
        /\ api.exists /\ ~ api.deleting /\ api.phase = "nil"
    BY DEF Init, KubeInit, NewMachine, NoMachine
  <1>2. Later(NoMachine, api) /\ Later(api, api)
    BY DEF Later, NoMachine
  <1> QED BY <1>1, <1>2 DEF DeletionInv, InOrder, Creating, Deleting, Fetched, DeletionKnown, GoneKnown,
                           CreatePath, DeletePath

(* Every request of the actuator. *)
LEMMA DeletionActuator == ASSUME IndInv, DeletionInv, ActuatorStep PROVE DeletionInv'
  <1>a. Silent /\ Aborted /\ pc \in CreatePath => DeletionInv'
    <2>1. CASE Silent /\ PassOver
      BY <2>1, DeletionSilent
    <2>2. CASE Silent /\ pc' = "reportError" /\ m' = m /\ pc \in CreatePath
      BY <2>2, DeletionGoesOn DEF CreatePath, DeletePath
    <2> QED BY <2>1, <2>2 DEF Aborted
  <1>1. CASE ValidateMachine \/ CreateServer \/ AwaitActive
    <2>1. Silent /\ pc \in {"validate", "createServer", "awaitActive"}
      BY <1>1 DEF ValidateMachine, CreateServer, AwaitActive, Silent
    <2>2. \/ Aborted
          \/ m' = m /\ pc' \in {"createServer", "invalid", "awaitActive", "setProviderID"}
      BY <1>1, AbortOver DEF ValidateMachine, CreateServer, AwaitActive, GoTo, frame
    <2> QED BY <1>a, <2>1, <2>2, DeletionGoesOn DEF CreatePath, DeletePath
  <1>2. CASE SetProviderID
    <2>1. CASE Silent /\ pc' = "patchLabels" /\ m' = m
      BY <1>2, <2>1, SetProviderIDEffect, DeletionGoesOn DEF CreatePath, DeletePath
    <2>2. CASE Silent /\ Aborted
      BY <1>2, <1>a, <2>2, SetProviderIDEffect DEF CreatePath
    <2>3. CASE /\ m = api /\ api.exists /\ Wrote
               /\ api'.exists = api.exists /\ api'.deleting = api.deleting
               /\ api'.finalizer = api.finalizer /\ KeepStatus /\ KeepDrain
               /\ Aborted \/ (pc' = "patchLabels" /\ m' = api')
      <3>1. pc \in CreatePath
        BY <1>2 DEF SetProviderID, CreatePath
      <3> QED BY <2>3, <3>1, DeletionCreates DEF CreatePath
    <2> QED BY <1>2, <2>1, <2>2, <2>3, SetProviderIDEffect
  <1>3. CASE PatchLabels \/ PatchStatus
    <2>0. pc \in CreatePath
      BY <1>3 DEF PatchLabels, PatchStatus, CreatePath
    <2>1. CASE Silent /\ Aborted
      BY <1>a, <2>0, <2>1
    <2>2. CASE /\ api.exists /\ Wrote /\ KeepMeta /\ KeepDrain /\ KeepStatus
               /\ Aborted \/ (pc' \in {"patchStatus", "updated"} /\ m' = api')
      BY <2>0, <2>2, DeletionCreates DEF CreatePath, KeepMeta
    <2> QED BY <1>3, <2>1, <2>2, PatchLabelsEffect, PatchStatusEffect
  <1>4. CASE DeleteLookup \/ DeleteServer \/ AwaitDelete
    <2>1. Silent /\ pc \in {"delete", "deleteServer", "awaitDelete"}
      BY <1>4 DEF DeleteLookup, DeleteServer, AwaitDelete, Silent
    <2>2. PassOver \/ (m' = m /\ pc' \in {"deleteServer", "awaitDelete", "deleted"})
      BY <1>4, EndPassOver DEF DeleteLookup, DeleteServer, AwaitDelete, GoTo, frame
    <2> QED BY <2>1, <2>2, DeletionSilent, DeletionGoesOn DEF CreatePath, DeletePath
  <1> QED BY <1>1, <1>2, <1>3, <1>4 DEF ActuatorStep

(* updateStatus with another phase than Deleting. *)
LEMMA DeletionFinish ==
  ASSUME IndInv, DeletionInv, NEW phase \in Phases, NEW reason \in Reasons, NEW again,
         FinishWithStatus(phase, reason, again), pc \in CreatePath,
         phase \in {Deref(m.phase), "Provisioning", "Provisioned", "Running", "Failed"}
  PROVE  DeletionInv'
  <1>1. CASE Silent /\ PassOver
    BY <1>1, DeletionSilent
  <1>2. CASE /\ Wrote /\ KeepMeta /\ PassOver
             /\ api'.phase = IF m.phase = phase THEN api.phase ELSE phase
    <2>1. api.exists /\ api.phase # "Deleting"
      BY DEF DeletionInv, Creating
    <2>2. api'.phase # "Deleting" /\ (api.phase # "nil" => api'.phase # "nil")
      BY <1>2, <2>1 DEF Deref
    <2>3. InOrder'
      BY <1>2, <2>1, <2>2, OrderWrote DEF DeletionInv, Later, KeepMeta, PassOver
    <2> QED BY <1>2, <2>1, <2>2, <2>3
            DEF DeletionInv, Creating, Deleting, Fetched, DeletionKnown, GoneKnown, CreatePath,
                DeletePath, KeepMeta, PassOver
  <1> QED BY <1>1, <1>2, FinishEffect

(* Every branch of Reconcile. *)
LEMMA DeletionController == ASSUME IndInv, DeletionInv, ControllerStep PROVE DeletionInv'
  <1>1. CASE Fetch
    <2>1. Silent /\ pc' = "fetched" /\ m' = cached /\ pc = "idle"
      BY <1>1 DEF Fetch, Silent
    <2>2. InOrder'
      BY <2>1, OrderSilent DEF DeletionInv
    <2>3. cached.deleting => AllDeleting
      BY DEF DeletionInv, InOrder, Later, AllDeleting
    <2>4. AllDeleting' = AllDeleting
      BY <2>1 DEF Silent, AllDeleting
    <2> QED BY <2>1, <2>2, <2>3, <2>4
            DEF Silent, DeletionInv, Creating, Deleting, Fetched, DeletionKnown, GoneKnown, CreatePath,
                DeletePath, AllDeleting
  <1>2. CASE NotFound \/ StayFailed
    BY <1>2, EndPassOver, DeletionSilent DEF NotFound, StayFailed, Silent
  <1>3. CASE AddFinalizer
    <2>1. CASE Silent
      BY <1>3, <2>1, AddFinalizerEffect, DeletionSilent
    <2>2. CASE /\ api.exists /\ Wrote /\ api'.exists /\ api'.finalizer
               /\ api'.deleting = api.deleting /\ KeepStatus /\ PassOver
      <3>1. InOrder'
        BY <2>2, OrderWrote DEF DeletionInv, Later, KeepStatus, PassOver
      <3>2. AllDeleting => AllDeleting'
        BY <2>2 DEF AllDeleting, Wrote
      <3> QED BY <2>2, <3>1, <3>2
              DEF DeletionInv, Creating, Deleting, Fetched, DeletionKnown, GoneKnown, CreatePath,
                  DeletePath, KeepStatus, PassOver
    <2> QED BY <1>3, <2>1, <2>2, AddFinalizerEffect
  <1>4. CASE MarkDeleting
    <2>1. CASE Silent /\ PassOver
      BY <2>1, DeletionSilent
    <2>2. CASE /\ api.exists /\ Wrote /\ KeepMeta
               /\ api'.phase = IF m.phase = "Deleting" THEN api.phase ELSE "Deleting"
               /\ \/ PassOver
                  \/ /\ pc' = "delete" /\ m' = api'
                     /\ api'.finalizer /\ api'.drained /\ "preTerminate" \notin api'.hooks
      <3>1. AllDeleting /\ Later(m, api)
        BY <1>4, MarkDeletingEffect DEF DeletionInv, Fetched, InOrder
      <3>2. api'.phase = "Deleting" /\ AllDeleting'
        BY <2>2, <3>1 DEF Later, AllDeleting, Wrote, KeepMeta
      <3>3. InOrder'
        BY <2>2, <3>2, OrderWrote DEF DeletionInv, Later, KeepMeta, PassOver
      <3> QED BY <2>2, <3>2, <3>3
              DEF DeletionInv, Creating, Deleting, Fetched, DeletionKnown, GoneKnown, CreatePath,
                  DeletePath, KeepMeta, PassOver, AllDeleting
    <2> QED BY <1>4, <2>1, <2>2, MarkDeletingEffect
  <1>5. CASE CheckDeleted \/ DeleteNode
    <2>1. Silent /\ pc \in {"deleted", "deleteNode"}
      BY <1>5 DEF CheckDeleted, DeleteNode, Silent
    <2>2. PassOver \/ (m' = m /\ pc' \in {"deleteNode", "removeFinalizer"})
      BY <1>5, EndPassOver DEF CheckDeleted, DeleteNode, GoTo, frame
    <2> QED BY <2>1, <2>2, DeletionSilent, DeletionGoesOn DEF CreatePath, DeletePath
  <1>6. CASE RemoveFinalizer
    <2>1. CASE Silent
      BY <1>6, <2>1, RemoveFinalizerEffect, DeletionSilent
    <2>2. CASE /\ Wrote /\ ~ api'.exists /\ api'.deleting = api.deleting /\ KeepStatus /\ PassOver
      <3>1. InOrder'
        BY <2>2, OrderWrote DEF DeletionInv, Later, KeepStatus, PassOver
      <3>2. AllDeleting
        BY <1>6 DEF RemoveFinalizer, DeletionInv, Deleting, DeletePath
      <3>3. AllDeleting'
        BY <2>2, <3>2 DEF AllDeleting, Wrote
      <3> QED BY <2>2, <3>1, <3>3
              DEF DeletionInv, Creating, Deleting, Fetched, DeletionKnown, GoneKnown, CreatePath,
                  DeletePath, KeepStatus, PassOver
    <2> QED BY <1>6, <2>1, <2>2, RemoveFinalizerEffect
  <1>7. CASE CheckExists
    <2>1. /\ Silent /\ m' = m /\ pc' \in {"exists", "missing", "reportError"}
          /\ pc = "fetched" /\ ~ m.deleting /\ m.finalizer
      BY <1>7 DEF CheckExists, Silent, frame
    <2>2. InOrder'
      BY <2>1, OrderSilent DEF DeletionInv
    <2>3. api.exists /\ api.phase # "Deleting"
      BY <2>1 DEF DeletionInv, DeletionKnown, GoneKnown
    <2> QED BY <2>1, <2>2, <2>3
            DEF Silent, DeletionInv, Creating, Deleting, Fetched, DeletionKnown, GoneKnown, CreatePath,
                DeletePath
  <1>8. CASE Update \/ Create
    <2>1. Silent /\ pc \in {"exists", "missing"}
      BY <1>8 DEF Update, Create, Reconcile, Silent
    <2>2. Aborted \/ (m' = m /\ pc' \in {"setProviderID", "validate"})
      BY <1>8, AbortOver DEF Update, Create, Reconcile
    <2> QED BY <2>1, <2>2, DeletionSilent, DeletionGoesOn DEF Aborted, CreatePath, DeletePath
  <1>9. CASE MarkProvisioned \/ MarkProvisioning \/ MarkFailed
    BY <1>9, DeletionFinish
       DEF MarkProvisioned, MarkProvisioning, MarkFailed, Phases, Reasons, CreatePath
  <1>10. CASE ReportError
    <2>1. Deref(m.phase) \in Phases /\ "none" \in Reasons
      BY DerefType DEF IndInv, TypeOK, Machine, Reasons
    <2> QED BY <1>10, <2>1, DeletionFinish DEF ReportError, CreatePath
  <1>11. CASE MarkMissing \/ MarkInvalid
    <2>1. PICK label \in {"failMissing", "failInvalid"} : AnnotateFailed(label)
      BY <1>11 DEF MarkMissing, MarkInvalid
    <2>2. pc \in CreatePath
      BY <1>11 DEF MarkMissing, MarkInvalid, CreatePath
    <2>3. CASE Silent /\ PassOver
      BY <2>3, DeletionSilent
    <2>4. CASE /\ api.exists /\ Wrote /\ KeepMeta /\ KeepDrain /\ KeepStatus
               /\ PassOver \/ (pc' = label /\ Refreshed)
      BY <2>2, <2>4, DeletionCreates DEF CreatePath, KeepMeta, Aborted
    <2> QED BY <2>1, <2>3, <2>4, AnnotateEffect
  <1> QED BY <1>1, <1>2, <1>3, <1>4, <1>5, <1>6, <1>7, <1>8, <1>9, <1>10, <1>11 DEF ControllerStep

(* The next process starts from the stored object. *)
LEMMA DeletionRestart == ASSUME IndInv, DeletionInv, Restart PROVE DeletionInv'
  <1>1. /\ UNCHANGED api /\ cached' = api /\ watch' = {} /\ m' = NoMachine /\ pc' = "idle"
    BY DEF Restart
  <1>2. InOrder'
    BY <1>1 DEF InOrder, Later, NoMachine
  <1>3. AllDeleting => AllDeleting'
    BY <1>1 DEF AllDeleting
  <1>4. NoMachine.finalizer = FALSE
    BY DEF NoMachine
  <1> QED BY <1>1, <1>2, <1>3, <1>4
          DEF DeletionInv, Creating, Deleting, Fetched, DeletionKnown, GoneKnown, CreatePath, DeletePath

(* The others. *)
LEMMA DeletionOthers == ASSUME IndInv, DeletionInv, Next, ~ Worker PROVE DeletionInv'
  <1>1. CASE Drainer
    <2>1. CASE Silent
      BY <1>1, <2>1, DrainerEffect, DeletionSilent DEF KeepWorker
    <2>2. CASE ~ Silent
      BY <1>1, <2>2, DrainerEffect, DeletionWrote DEF KeepWorker, KeepStatus
    <2> QED BY <2>1, <2>2
  <1>2. CASE Informer
    <2>1. PICK v \in watch : /\ \A w \in watch : v.rv <= w.rv
                            /\ cached' = v /\ watch' = watch \ {v}
      BY <1>2 DEF Informer, Deliver
    <2>2. UNCHANGED <<api, pc, m>>
      BY <1>2 DEF Informer, Deliver, frame
    <2>3. InOrder'
      BY <2>1, <2>2 DEF DeletionInv, InOrder
    <2>4. AllDeleting => AllDeleting'
      BY <2>1, <2>2 DEF AllDeleting
    <2> QED BY <2>1, <2>2, <2>3, <2>4
            DEF DeletionInv, Creating, Deleting, Fetched, DeletionKnown, GoneKnown
  <1>3. CASE User
    <2>1. /\ UNCHANGED <<pc, m>> /\ Wrote /\ api.exists /\ ~ api.deleting
          /\ api'.finalizer = api.finalizer /\ KeepStatus
          /\ IF api.finalizer THEN api'.exists /\ api'.deleting
                              ELSE ~ api'.exists /\ api'.deleting = api.deleting
      BY <1>3, UserEffect DEF KeepWorker
    <2>2. InOrder'
      BY <2>1, OrderWrote DEF DeletionInv, Later, KeepStatus
    <2>3. /\ pc \notin DeletePath /\ ~ (pc = "fetched" /\ m.deleting) /\ api.phase # "Deleting"
      BY <2>1 DEF DeletionInv, Deleting, Fetched, DeletionKnown, AllDeleting
    <2>4. CASE api.finalizer
      BY <2>1, <2>2, <2>3, <2>4
         DEF DeletionInv, Creating, Deleting, Fetched, DeletionKnown, GoneKnown, KeepStatus
    <2>5. CASE ~ api.finalizer
      <3>1. ~ cached.finalizer /\ ~ m.finalizer /\ \A w \in watch' : ~ w.finalizer
        BY <2>1, <2>5 DEF IndInv, CopiesOK, IsCopy, Wrote
      <3> QED BY <2>1, <2>2, <2>3, <2>5, <3>1
              DEF DeletionInv, Creating, Deleting, Fetched, DeletionKnown, GoneKnown, KeepStatus, Wrote
    <2> QED BY <2>4, <2>5
  <1>4. CASE HookOwner \/ Editor
    BY <1>4, HookOwnerEffect, EditorEffect, DeletionWrote DEF KeepWorker, KeepStatus, KeepDrain
  <1>5. CASE NodeLink
    BY <1>5, NodeLinkEffect, DeletionWrote DEF KeepWorker, KeepStatus, KeepDrain
  <1>6. CASE NovaWorks \/ Kubelet \/ Tamper \/ Finished
    BY <1>6, DeletionSilent DEF NovaWorks, Kubelet, Tamper, Finished, vars, kubeVars, frame, Silent
  <1>7. CASE Crash \/ Panic
    BY <1>7, DeletionRestart DEF Crash, Panic
  <1> QED BY <1>1, <1>2, <1>3, <1>4, <1>5, <1>6, <1>7 DEF Next

LEMMA DeletionStep == IndInv /\ DeletionInv /\ [Next]_vars => DeletionInv'
  <1> SUFFICES ASSUME IndInv, DeletionInv, [Next]_vars PROVE DeletionInv'
    OBVIOUS
  <1>1. CASE UNCHANGED vars
    BY <1>1, DeletionSilent DEF vars, kubeVars, frame, Silent
  <1> QED BY <1>1, DeletionActuator, DeletionController, DeletionOthers DEF Worker

LEMMA DeletionInvariant == Spec => [](IndInv /\ DeletionInv)
  BY InvariantHolds, DeletionInit, DeletionStep, PTL DEF Spec

(* The only action that takes a server down. *)
LEMMA OnlyDeleteServer ==
  ASSUME IndInv, Next, NEW s \in Servers, servers[s] # "DELETING", servers'[s] = "DELETING"
  PROVE  pc = "deleteServer"
  <1>1. servers \in [Servers -> ServerStates]
    BY DEF IndInv, TypeOK
  <1>2. CASE ActuatorStep
    BY <1>1, <1>2
       DEF ActuatorStep, ValidateMachine, CreateServer, Boot, AwaitActive, SetProviderID, PatchLabels,
           PatchStatus, DeleteLookup, DeleteServer, AwaitDelete, novaVars
  <1>3. CASE ControllerStep
    BY <1>1, <1>3
       DEF ControllerStep, Fetch, NotFound, StayFailed, AddFinalizer, MarkDeleting, CheckDeleted,
           DeleteNode, RemoveFinalizer, CheckExists, Update, MarkProvisioned, ReportError,
           MarkMissing, MarkProvisioning, Create, MarkInvalid, MarkFailed, Reconcile, novaVars
  <1>4. CASE ~ Worker
    BY <1>1, <1>4
       DEF Next, Drainer, Informer, User, Editor, HookOwner, NovaWorks, NovaBuild, NovaReap, Kubelet,
           NodeRegister, NodeLink, Tamper, ExternalDelete, Crash, Panic, Restart, Finished, vars,
           novaVars
  <1> QED BY <1>2, <1>3, <1>4 DEF Worker

(* A server is only taken down for a Machine that is being deleted and drained, although
   patches of the conditions may withdraw a Drained that others have set. *)
THEOREM DrainComesFirst == Spec => DrainedFirst
  <1>1. IndInv /\ DeletionInv /\ [Next]_vars =>
          [\A s \in Servers : servers[s] # "DELETING" /\ servers'[s] = "DELETING"
             => api.deleting /\ api.drained]_vars
    BY OnlyDeleteServer DEF DeletionInv, Deleting, DeletePath, AllDeleting
  <1> QED BY <1>1, DeletionInvariant, PTL DEF Spec, DrainedFirst

(* No server is taken down under a pre-terminate hook. *)
THEOREM HooksAreRespected == Spec => HooksRespected
  <1>1. IndInv /\ DeletionInv /\ [Next]_vars =>
          [\A s \in Servers : servers[s] # "DELETING" /\ servers'[s] = "DELETING"
             => "preTerminate" \notin api.hooks]_vars
    BY OnlyDeleteServer DEF DeletionInv, Deleting, DeletePath
  <1> QED BY <1>1, DeletionInvariant, PTL DEF Spec, HooksRespected

-----------------------------------------------------------------------------
(* Layer 2: servers.  No server is left that Nova would list, and whether one was
   ever requested. *)
NoneVisible == \A s \in Servers : ~ Visible(s)
Requested == \E s \in Servers : servers[s] # "absent"

(* What the worker's last lookup still says about the servers. *)
ServersKnown ==
  /\ pc \in {"validate", "createServer", "invalid", "failInvalid"} => NoneVisible /\ m.providerID = None
  /\ pc \in {"awaitActive", "setProviderID"} /\ m.providerID = None =>
       \A s \in Servers : Visible(s) => s = st
  /\ pc = "deleteServer" => st \in Servers /\ servers[st] # "absent"
  /\ pc \in {"deleteNode", "removeFinalizer"} /\ m.providerID = None => NoneVisible

ServersInv ==
  /\ ServersKnown /\ OneServer /\ NoLeakedServer
  /\ Requested /\ api.exists => api.finalizer

(* No server appears. *)
Calm ==
  \A s \in Servers : /\ Visible(s)' => Visible(s)
                     /\ servers[s] = "absent" <=> servers'[s] = "absent"

(* Labels at which the worker relies on no lookup. *)
Careless == {"idle", "fetched", "delete", "awaitDelete", "deleted", "exists", "missing",
             "patchLabels", "patchStatus", "updated", "failMissing", "reportError"}

LEMMA CarelessKnown == ASSUME pc' \in Careless PROVE ServersKnown'
  BY DEF Careless, ServersKnown

LEMMA OverCareless == (PassOver => pc' \in Careless) /\ (Aborted => pc' \in Careless)
  BY DEF PassOver, Aborted, Careless

LEMMA KeepNovaCalm == KeepNova => Calm
  BY DEF KeepNova, Calm, Visible

(* A lookup that returns nothing has seen that nothing is there, and one by name that
   returns a server has seen the only one. *)
LEMMA LookupNone ==
  ASSUME LookupReturns(None), m.providerID = None
  PROVE  NoneVisible
  BY NoneAssumption DEF LookupReturns, LookupAnswer, ByName, NoneVisible

LEMMA LookupSome ==
  ASSUME OneServer, NEW s \in Servers, LookupReturns(s)
  PROVE  Visible(s) /\ (m.providerID = None => \A t \in Servers : Visible(t) => t = s)
  <1>1. Visible(s)
    BY NoneAssumption DEF LookupReturns, LookupAnswer, ByName, ByID
  <1> QED BY <1>1 DEF OneServer

(* What the worker knows stays true while no server appears. *)
LEMMA KnownKeep ==
  ASSUME ServersKnown, Calm, UNCHANGED <<pc, m, st>>
  PROVE  ServersKnown'
  <1>1. NoneVisible => NoneVisible'
    BY DEF NoneVisible, Calm
  <1> QED BY <1>1 DEF ServersKnown, Calm

(* Steps that neither request a server nor release the Machine. *)
LEMMA ServersCalm ==
  ASSUME IndInv, ServersInv, Calm, api'.exists = api.exists,
         api'.providerID = api.providerID \/ api.exists,
         api.finalizer => api'.finalizer, ServersKnown'
  PROVE  ServersInv'
  <1>1. OneServer'
    BY DEF ServersInv, OneServer, Calm
  <1>2. NoLeakedServer'
    <2>1. CASE api.exists
      BY <2>1 DEF NoLeakedServer
    <2>2. CASE ~ api.exists
      <3>1. ASSUME NEW s \in Servers, Visible(s)' PROVE Recreated(s)'
        <4>1. Visible(s) /\ Recreated(s)
          BY <2>2, <3>1 DEF Calm, ServersInv, NoLeakedServer
        <4> QED BY <2>2, <4>1 DEF Recreated, Calm
      <3> QED BY <3>1 DEF NoLeakedServer
    <2> QED BY <2>1, <2>2
  <1>3. Requested' => Requested
    BY DEF Requested, Calm
  <1> QED BY <1>1, <1>2, <1>3 DEF ServersInv

LEMMA ServersInit == Init => ServersInv
  <1> SUFFICES ASSUME Init PROVE ServersInv
    OBVIOUS
  <1>1. pc = "idle" /\ \A s \in Servers : servers[s] = "absent"
    BY DEF Init, NovaInit
  <1> QED BY <1>1 DEF ServersInv, ServersKnown, OneServer, NoLeakedServer, Requested, Visible

LEMMA ServersActuator == ASSUME IndInv, DeletionInv, ServersInv, ActuatorStep PROVE ServersInv'
  <1>1. CASE ValidateMachine \/ AwaitActive
    <2>1. Silent /\ KeepNova
      BY <1>1 DEF ValidateMachine, AwaitActive, Silent, KeepNova, novaVars
    <2>2. \/ Aborted
          \/ m' = m /\ pc = "validate" /\ pc' \in {"createServer", "invalid"}
          \/ m' = m /\ st' = st /\ pc = "awaitActive" /\ pc' = "setProviderID"
      BY <1>1, AbortOver DEF ValidateMachine, AwaitActive, GoTo, frame
    <2>3. ServersKnown'
      BY <2>1, <2>2, OverCareless, CarelessKnown
         DEF ServersInv, ServersKnown, NoneVisible, Visible, KeepNova
    <2> QED BY <2>1, <2>3, KeepNovaCalm, ServersCalm DEF Silent
  <1>2. CASE CreateServer
    <2>1. Silent /\ pc = "createServer"
      BY <1>2 DEF CreateServer, Silent
    <2>2. api.exists /\ api.finalizer
      BY <2>1 DEF DeletionInv, Creating, CreatePath, IndInv, CopiesOK, IsCopy
    <2>3. NoneVisible /\ servers \in [Servers -> ServerStates]
      BY <2>1 DEF ServersInv, ServersKnown, IndInv, TypeOK
    <2>4. CASE servers' = servers /\ Aborted
      <3>1. Calm
        BY <2>4 DEF Calm, Visible
      <3> QED BY <2>1, <2>4, <3>1, OverCareless, CarelessKnown, ServersCalm DEF Silent
    <2>5. CASE \E s \in Servers : Boot(s) /\ (Aborted \/ (pc' = "awaitActive" /\ st' = s))
      <3>1. PICK s \in Servers : Boot(s) /\ (Aborted \/ (pc' = "awaitActive" /\ st' = s))
        BY <2>5
      <3>2. \A t \in Servers : Visible(t)' => t = s
        BY <2>3, <3>1 DEF Boot, NoneVisible, Visible
      <3>3. OneServer' /\ NoLeakedServer' /\ (Requested' /\ api'.exists => api'.finalizer)
        BY <2>1, <2>2, <3>2 DEF OneServer, NoLeakedServer, Silent
      <3>4. ServersKnown'
        BY <3>1, <3>2, OverCareless, CarelessKnown DEF ServersKnown
      <3> QED BY <3>3, <3>4 DEF ServersInv
    <2> QED BY <1>2, <2>4, <2>5, AbortOver DEF CreateServer
  <1>3. CASE SetProviderID
    <2>1. /\ KeepNova /\ api'.exists = api.exists /\ api'.finalizer = api.finalizer
          /\ api'.providerID = api.providerID \/ api.exists
          /\ pc' \in Careless
      BY <1>3, SetProviderIDEffect, OverCareless DEF Silent, Careless
    <2> QED BY <2>1, KeepNovaCalm, CarelessKnown, ServersCalm
  <1>4. CASE PatchLabels \/ PatchStatus
    <2>1. /\ KeepNova /\ api'.exists = api.exists /\ api'.finalizer = api.finalizer
          /\ api'.providerID = api.providerID
          /\ pc' \in Careless
      BY <1>4, PatchLabelsEffect, PatchStatusEffect, OverCareless DEF Silent, KeepMeta, Careless
    <2> QED BY <2>1, KeepNovaCalm, CarelessKnown, ServersCalm
  <1>5. CASE DeleteLookup
    <2>1. Silent /\ KeepNova
      BY <1>5 DEF DeleteLookup, Silent, KeepNova, novaVars
    <2>2. pc' \in Careless \/ (pc' = "deleteServer" /\ \E s \in Servers : LookupReturns(s) /\ st' = s)
      BY <1>5, EndPassOver, OverCareless DEF DeleteLookup, GoTo, Careless
    <2>3. ServersKnown'
      <3>1. CASE pc' \in Careless
        BY <3>1, CarelessKnown
      <3>2. CASE pc' = "deleteServer" /\ \E s \in Servers : LookupReturns(s) /\ st' = s
        <4>1. st' \in Servers /\ Visible(st')
          BY <3>2, LookupSome DEF ServersInv
        <4> QED BY <2>1, <3>2, <4>1 DEF ServersKnown, Visible, KeepNova
      <3> QED BY <2>2, <3>1, <3>2
    <2> QED BY <2>1, <2>3, KeepNovaCalm, ServersCalm DEF Silent
  <1>6. CASE DeleteServer
    <2>1. Silent /\ pc' \in Careless /\ st \in Servers /\ servers[st] # "absent"
      BY <1>6, EndPassOver, OverCareless
         DEF DeleteServer, GoTo, Careless, Silent, ServersInv, ServersKnown
    <2>2. servers \in [Servers -> ServerStates] /\ (servers' = servers \/ Terminate(st))
      BY <1>6 DEF DeleteServer, IndInv, TypeOK
    <2>3. Calm
      BY <2>1, <2>2 DEF Calm, Terminate, Visible, ServerStates
    <2> QED BY <2>1, <2>3, CarelessKnown, ServersCalm DEF Silent
  <1>7. CASE AwaitDelete
    <2>1. Silent /\ KeepNova /\ pc' \in Careless
      BY <1>7, EndPassOver, OverCareless DEF AwaitDelete, GoTo, Careless, Silent, KeepNova, novaVars
    <2> QED BY <2>1, KeepNovaCalm, CarelessKnown, ServersCalm DEF Silent
  <1> QED BY <1>1, <1>2, <1>3, <1>4, <1>5, <1>6, <1>7 DEF ActuatorStep

(* updateStatus does not touch what ServersInv is about. *)
LEMMA ServersFinish ==
  ASSUME IndInv, ServersInv, NEW phase \in Phases, NEW reason \in Reasons, NEW again,
         FinishWithStatus(phase, reason, again), KeepNova
  PROVE  ServersInv'
  <1>1. /\ api'.exists = api.exists /\ api'.finalizer = api.finalizer
        /\ api'.providerID = api.providerID /\ pc' \in Careless
    BY FinishEffect, OverCareless DEF Silent, KeepMeta
  <1> QED BY <1>1, KeepNovaCalm, CarelessKnown, ServersCalm

LEMMA ServersController == ASSUME IndInv, DeletionInv, ServersInv, ControllerStep PROVE ServersInv'
  <1>1. CASE Fetch \/ NotFound \/ StayFailed \/ CheckExists
    <2>1. Silent /\ KeepNova /\ pc' \in Careless
      BY <1>1, EndPassOver, OverCareless
         DEF Fetch, NotFound, StayFailed, CheckExists, Careless, Silent, KeepNova, novaVars
    <2> QED BY <2>1, KeepNovaCalm, CarelessKnown, ServersCalm DEF Silent
  <1>2. CASE AddFinalizer
    <2>1. /\ KeepNova /\ api'.exists = api.exists /\ (api.finalizer => api'.finalizer)
          /\ api'.providerID = api.providerID /\ pc' \in Careless
      BY <1>2, AddFinalizerEffect, OverCareless DEF Silent
    <2> QED BY <2>1, KeepNovaCalm, CarelessKnown, ServersCalm
  <1>3. CASE MarkDeleting
    <2>1. /\ KeepNova /\ api'.exists = api.exists /\ api'.finalizer = api.finalizer
          /\ api'.providerID = api.providerID /\ pc' \in Careless
      BY <1>3, MarkDeletingEffect, OverCareless DEF Silent, KeepMeta, Careless
    <2> QED BY <2>1, KeepNovaCalm, CarelessKnown, ServersCalm
  <1>4. CASE CheckDeleted
    <2>1. Silent /\ KeepNova
      BY <1>4 DEF CheckDeleted, Silent, KeepNova, novaVars
    <2>2. \/ pc' \in Careless
          \/ pc' \in {"deleteNode", "removeFinalizer"} /\ m' = m /\ LookupReturns(None)
      BY <1>4, EndPassOver, OverCareless DEF CheckDeleted, Exists
    <2>3. ServersKnown'
      <3>1. CASE pc' \in Careless
        BY <3>1, CarelessKnown
      <3>2. CASE pc' \in {"deleteNode", "removeFinalizer"} /\ m' = m /\ LookupReturns(None)
        BY <2>1, <3>2, LookupNone DEF ServersKnown, NoneVisible, Visible, KeepNova
      <3> QED BY <2>2, <3>1, <3>2
    <2> QED BY <2>1, <2>3, KeepNovaCalm, ServersCalm DEF Silent
  <1>5. CASE DeleteNode
    <2>1. Silent /\ servers' = servers /\ pc = "deleteNode"
      BY <1>5 DEF DeleteNode, Silent
    <2>2. pc' \in Careless \/ (pc' = "removeFinalizer" /\ m' = m)
      BY <1>5, EndPassOver, OverCareless DEF DeleteNode, GoTo, frame
    <2>3. Calm
      BY <2>1 DEF Calm, Visible
    <2>4. ServersKnown'
      BY <2>1, <2>2, CarelessKnown DEF ServersInv, ServersKnown, NoneVisible, Visible
    <2> QED BY <2>1, <2>3, <2>4, ServersCalm DEF Silent
  <1>6. CASE RemoveFinalizer
    <2>1. pc = "removeFinalizer" /\ KeepNova /\ pc' \in Careless
      BY <1>6, RemoveFinalizerEffect, OverCareless
    <2>2. CASE Silent
      BY <2>1, <2>2, KeepNovaCalm, CarelessKnown, ServersCalm DEF Silent
    <2>3. CASE m = api /\ ~ api'.exists /\ api'.providerID = api.providerID
      <3>1. OneServer'
        BY <2>1 DEF ServersInv, OneServer, Visible, KeepNova
      <3>2. ASSUME NEW s \in Servers, Visible(s) PROVE Recreated(s)
        <4>1. api.providerID # None
          BY <2>1, <2>3, <3>2 DEF ServersInv, ServersKnown, NoneVisible
        <4>2. servers[api.providerID] = "gone"
          BY <2>1, <2>3, <4>1 DEF IndInv, WorkerOK
        <4> QED BY <3>2, <4>1, <4>2 DEF Recreated, Visible
      <3>3. NoLeakedServer'
        BY <2>1, <2>3, <3>2 DEF NoLeakedServer, Recreated, Visible, KeepNova
      <3> QED BY <2>1, <2>3, <3>1, <3>3, CarelessKnown DEF ServersInv
    <2> QED BY <1>6, <2>2, <2>3, RemoveFinalizerEffect
  <1>7. CASE Update \/ Create
    <2>1. Silent /\ KeepNova
      BY <1>7 DEF Update, Create, Reconcile, Silent, KeepNova, novaVars
    <2>2. \/ pc' \in Careless
          \/ pc' = "setProviderID" /\ m' = m /\ \E s \in Servers : LookupReturns(s) /\ st' = s
          \/ pc' = "validate" /\ m' = m /\ m.providerID = None /\ LookupReturns(None)
      BY <1>7, AbortOver, OverCareless DEF Update, Create, Reconcile
    <2>3. ServersKnown'
      <3>1. CASE pc' \in Careless
        BY <3>1, CarelessKnown
      <3>2. CASE pc' = "setProviderID" /\ m' = m /\ \E s \in Servers : LookupReturns(s) /\ st' = s
        BY <2>1, <3>2, LookupSome DEF ServersKnown, ServersInv, Visible, KeepNova
      <3>3. CASE pc' = "validate" /\ m' = m /\ m.providerID = None /\ LookupReturns(None)
        BY <2>1, <3>3, LookupNone DEF ServersKnown, NoneVisible, Visible, KeepNova
      <3> QED BY <2>2, <3>1, <3>2, <3>3
    <2> QED BY <2>1, <2>3, KeepNovaCalm, ServersCalm DEF Silent
  <1>8. CASE MarkProvisioned \/ MarkProvisioning \/ MarkFailed
    BY <1>8, ServersFinish
       DEF MarkProvisioned, MarkProvisioning, MarkFailed, Phases, Reasons, KeepNova, novaVars
  <1>9. CASE ReportError
    <2>1. Deref(m.phase) \in Phases /\ "none" \in Reasons
      BY DerefType DEF IndInv, TypeOK, Machine, Reasons
    <2> QED BY <1>9, <2>1, ServersFinish DEF ReportError, KeepNova, novaVars
  <1>10. CASE MarkMissing \/ MarkInvalid
    <2>1. /\ KeepNova /\ api'.exists = api.exists /\ api'.finalizer = api.finalizer
          /\ api'.providerID = api.providerID
          /\ \/ pc' \in Careless
             \/ pc = "invalid" /\ pc' = "failInvalid" /\ m'.providerID = m.providerID
      BY <1>10, AnnotateEffect, OverCareless
         DEF MarkMissing, MarkInvalid, KeepNova, novaVars, Silent, KeepMeta, Careless, Refreshed
    <2>2. ServersKnown'
      BY <2>1, CarelessKnown DEF ServersInv, ServersKnown, NoneVisible, Visible, KeepNova
    <2> QED BY <2>1, <2>2, KeepNovaCalm, ServersCalm
  <1> QED BY <1>1, <1>2, <1>3, <1>4, <1>5, <1>6, <1>7, <1>8, <1>9, <1>10 DEF ControllerStep

(* What Nova and the people behind the machine API's back do. *)
LEMMA OthersCalm ==
  ASSUME IndInv, NovaWorks \/ Kubelet \/ Tamper \/ Finished \/ UNCHANGED vars
  PROVE  Calm /\ Silent /\ KeepWorker
  <1>1. servers \in [Servers -> ServerStates]
    BY DEF IndInv, TypeOK
  <1>2. Calm
    BY <1>1 DEF NovaWorks, NovaBuild, NovaReap, Kubelet, NodeRegister, Tamper, ExternalDelete, Finished,
                vars, novaVars, Calm, Visible
  <1> QED BY <1>2 DEF NovaWorks, Kubelet, Tamper, Finished, vars, kubeVars, frame, Silent, KeepWorker

LEMMA ServersOthers == ASSUME IndInv, DeletionInv, ServersInv, Next, ~ Worker PROVE ServersInv'
  <1>1. CASE Drainer \/ Editor \/ HookOwner \/ NodeLink
    <2>1. /\ KeepWorker /\ KeepNova /\ api'.exists = api.exists /\ api'.finalizer = api.finalizer
          /\ api'.providerID = api.providerID
      BY <1>1, DrainerEffect, EditorEffect, HookOwnerEffect, NodeLinkEffect DEF Silent, KeepMeta
    <2> QED BY <2>1, KeepNovaCalm, KnownKeep, ServersCalm DEF KeepWorker, ServersInv
  <1>2. CASE Informer
    <2>1. KeepWorker /\ KeepNova /\ api' = api
      BY <1>2 DEF Informer, Deliver, KeepWorker, KeepNova, novaVars, frame
    <2> QED BY <2>1, KeepNovaCalm, KnownKeep, ServersCalm DEF KeepWorker, ServersInv
  <1>3. CASE User
    <2>1. /\ KeepWorker /\ KeepNova /\ api.exists /\ api'.finalizer = api.finalizer
          /\ api'.providerID = api.providerID /\ (api.finalizer => api'.exists = api.exists)
          /\ (~ api.finalizer => ~ api'.exists)
      BY <1>3, UserEffect
    <2>2. ServersKnown'
      BY <2>1, KeepNovaCalm, KnownKeep DEF KeepWorker, ServersInv
    <2>3. CASE api.finalizer
      BY <2>1, <2>2, <2>3, KeepNovaCalm, ServersCalm
    <2>4. CASE ~ api.finalizer
      <3>1. \A s \in Servers : servers[s] = "absent"
        BY <2>1, <2>4 DEF ServersInv, Requested
      <3>2. \A s \in Servers : ~ Visible(s)'
        BY <2>1, <3>1 DEF Visible, KeepNova
      <3> QED BY <2>1, <2>2, <2>4, <3>2 DEF ServersInv, OneServer, NoLeakedServer
    <2> QED BY <2>3, <2>4
  <1>4. CASE NovaWorks \/ Kubelet \/ Tamper \/ Finished
    BY <1>4, OthersCalm, KnownKeep, ServersCalm DEF Silent, KeepWorker, ServersInv
  <1>5. CASE Crash \/ Panic
    <2>1. KeepNova /\ api' = api /\ pc' \in Careless
      BY <1>5 DEF Crash, Panic, Restart, KeepNova, novaVars, Careless
    <2> QED BY <2>1, KeepNovaCalm, CarelessKnown, ServersCalm
  <1> QED BY <1>1, <1>2, <1>3, <1>4, <1>5 DEF Next

LEMMA ServersStep == IndInv /\ DeletionInv /\ ServersInv /\ [Next]_vars => ServersInv'
  <1> SUFFICES ASSUME IndInv, DeletionInv, ServersInv, [Next]_vars PROVE ServersInv'
    OBVIOUS
  <1>1. CASE UNCHANGED vars
    BY <1>1, OthersCalm, KnownKeep, ServersCalm DEF Silent, KeepWorker, ServersInv
  <1> QED BY <1>1, ServersActuator, ServersController, ServersOthers DEF Worker

LEMMA ServersInvariant == Spec => [](IndInv /\ DeletionInv /\ ServersInv)
  BY DeletionInvariant, ServersInit, ServersStep, PTL DEF Spec

(* Although create requests fail after Nova acted, passes start from outdated copies and
   the process crashes, no two servers of the Machine exist at a time: the lookup by name
   before a create request has seen none, and only this worker requests servers. *)
THEOREM NeverTwoServers == Spec => []OneServer
  BY ServersInvariant, PTL DEF ServersInv

(* When the Machine is gone, every server that was requested for it is gone, unless it was
   created beside the one the Machine was given to. *)
THEOREM NoServerLeaks == Spec => []NoLeakedServer
  BY ServersInvariant, PTL DEF ServersInv

-----------------------------------------------------------------------------
(* The refinement of module Instance: its view of the Machine and of the server. *)
MachineView == IF ~ api.exists THEN "gone" ELSE IF api.deleting THEN "deleting" ELSE "present"
ServerView == IF Own = {} THEN "none" ELSE servers[CHOOSE s \in Own : TRUE]

(* The steps of Instance that this system takes. *)
LEMMA InstanceSteps ==
  /\ MachineView = "present" /\ Own = {} => I!Init
  /\ UNCHANGED <<MachineView, ServerView, Own>> => [I!Next]_(I!vars)
  /\ /\ MachineView # "gone" /\ ServerView = "none" /\ ServerView' = "BUILD"
     /\ Own' # {} /\ UNCHANGED MachineView
     => I!Next
  /\ /\ ServerView = "BUILD" /\ ServerView' \in {"ACTIVE", "ERROR"}
     /\ UNCHANGED <<MachineView, Own>>
     => I!Next
  /\ /\ ServerView # "none" /\ ServerView' = "none" /\ Own' = {} /\ UNCHANGED MachineView
     => I!Next
  /\ /\ MachineView = "deleting" /\ ServerView # "none" /\ ServerView' = "DELETING"
     /\ UNCHANGED <<MachineView, Own>>
     => I!Next
  /\ /\ MachineView = "present" /\ MachineView' = "deleting" /\ UNCHANGED <<ServerView, Own>>
     => I!Next
  /\ /\ MachineView # "gone" /\ MachineView' = "gone" /\ Own = {} /\ UNCHANGED <<ServerView, Own>>
     => I!Next
  <1>1. MachineView = "present" /\ Own = {} => I!Init
    BY DEF I!Init, MachineView
  <1>2. UNCHANGED <<MachineView, ServerView, Own>> => [I!Next]_(I!vars)
    BY DEF I!vars, MachineView, ServerView
  <1>3. /\ MachineView # "gone" /\ ServerView = "none" /\ ServerView' = "BUILD"
        /\ Own' # {} /\ UNCHANGED MachineView
        => I!Request
    BY DEF I!Request, MachineView, ServerView
  <1>4. /\ ServerView = "BUILD" /\ ServerView' \in {"ACTIVE", "ERROR"}
        /\ UNCHANGED <<MachineView, Own>>
        => I!Build
    BY DEF I!Build, MachineView, ServerView
  <1>5. /\ ServerView # "none" /\ ServerView' = "none" /\ Own' = {} /\ UNCHANGED MachineView
        => I!End
    BY DEF I!End, MachineView, ServerView
  <1>6. /\ MachineView = "deleting" /\ ServerView # "none" /\ ServerView' = "DELETING"
        /\ UNCHANGED <<MachineView, Own>>
        => I!Remove
    BY DEF I!Remove, MachineView, ServerView
  <1>7. /\ MachineView = "present" /\ MachineView' = "deleting" /\ UNCHANGED <<ServerView, Own>>
        => I!Delete
    BY DEF I!Delete, MachineView, ServerView
  <1>8. /\ MachineView # "gone" /\ MachineView' = "gone" /\ Own = {} /\ UNCHANGED <<ServerView, Own>>
        => I!Release
    BY DEF I!Release, MachineView, ServerView
  <1> QED BY <1>1, <1>2, <1>3, <1>4, <1>5, <1>6, <1>7, <1>8 DEF I!Next

(* Since there is one server at most, the view of it is its state. *)
LEMMA ServerViewIs ==
  ASSUME OneServer
  PROVE  /\ Own = {} => ServerView = "none"
         /\ \A s \in Own : Own = {s} /\ ServerView = servers[s]
  <1>1. Own = {} => ServerView = "none"
    BY DEF ServerView
  <1>2. ASSUME NEW s \in Own PROVE Own = {s} /\ ServerView = servers[s]
    <2>1. Own = {s}
      BY <1>2 DEF Own, OneServer
    <2>2. (CHOOSE t \in Own : TRUE) = s
      BY <2>1
    <2> QED BY <2>1, <2>2 DEF ServerView
  <1> QED BY <1>1, <1>2

LEMMA ServerViewNext ==
  ASSUME OneServer'
  PROVE  /\ Own' = {} => ServerView' = "none"
         /\ \A s \in Own' : Own' = {s} /\ ServerView' = servers'[s]
  <1>1. Own' = {} => ServerView' = "none"
    BY DEF ServerView
  <1>2. ASSUME NEW s \in Own' PROVE Own' = {s} /\ ServerView' = servers'[s]
    <2>1. Own' = {s}
      BY <1>2 DEF Own, OneServer
    <2>2. (CHOOSE t \in Own' : TRUE) = s
      BY <2>1
    <2> QED BY <2>1, <2>2 DEF ServerView
  <1> QED BY <1>1, <1>2

(* Servers and providerID are left alone. *)
LEMMA OwnKeep ==
  ASSUME UNCHANGED servers, api'.providerID = api.providerID
  PROVE  UNCHANGED <<ServerView, Own>>
  <1>1. \A s \in Servers : Visible(s)' = Visible(s) /\ Recreated(s)' = Recreated(s)
    BY DEF Visible, Recreated
  <1>2. Own' = Own
    BY <1>1 DEF Own
  <1> QED BY <1>2 DEF ServerView

(* Steps that leave the servers and the Machine's identity alone are no steps of Instance. *)
LEMMA StutterStep ==
  ASSUME UNCHANGED servers, api'.providerID = api.providerID,
         api'.exists = api.exists, api'.deleting = api.deleting
  PROVE  [I!Next]_(I!vars)
  <1>1. MachineView' = MachineView
    BY DEF MachineView
  <1> QED BY <1>1, OwnKeep, InstanceSteps

(* One server goes to another state. *)
LEMMA OwnChange ==
  ASSUME IndInv, OneServer, OneServer', api' = api, NEW s \in Servers, NEW state \in ServerStates \ {"absent"},
         Visible(s), servers' = [servers EXCEPT ![s] = state]
  PROVE  /\ s \in Own =>
              /\ ServerView = servers[s]
              /\ IF state = "gone" THEN Own' = {} /\ ServerView' = "none"
                                   ELSE Own' = Own /\ ServerView' = state
         /\ s \notin Own => UNCHANGED <<ServerView, Own>>
  <1>1. /\ servers'[s] = state
        /\ \A t \in Servers \ {s} : servers'[t] = servers[t]
    BY DEF IndInv, TypeOK
  <1>2. \A t \in Servers : Recreated(t)' = Recreated(t)
    BY <1>1 DEF Recreated, Visible
  <1>3. \A t \in Servers \ {s} : ~ Visible(t) /\ ~ Visible(t)'
    BY <1>1 DEF OneServer, Visible
  <1>4. CASE s \in Own
    <2>1. ~ Recreated(s) /\ Own = {s} /\ ServerView = servers[s]
      BY <1>4, ServerViewIs DEF Own
    <2>2. CASE state = "gone"
      <3>1. Own' = {}
        BY <1>1, <1>3, <2>2 DEF Own, Visible
      <3> QED BY <1>4, <2>1, <2>2, <3>1, ServerViewNext
    <2>3. CASE state # "gone"
      <3>1. s \in Own'
        BY <1>1, <1>2, <2>1, <2>3 DEF Own, Visible, ServerStates
      <3> QED BY <1>1, <1>4, <2>1, <2>3, <3>1, ServerViewNext
    <2> QED BY <2>2, <2>3
  <1>5. CASE s \notin Own
    <2>1. Own = {} /\ Own' = {}
      BY <1>2, <1>3, <1>5 DEF Own
    <2> QED BY <1>5, <2>1, ServerViewIs, ServerViewNext
  <1> QED BY <1>4, <1>5

(* The Machine is let go when nothing that counts is left of its server. *)
LEMMA ReleaseStep ==
  ASSUME ServersInv, ServersInv', api.exists, ~ api'.exists, UNCHANGED servers,
         api'.providerID = api.providerID
  PROVE  [I!Next]_(I!vars)
  <1>1. Own' = {}
    BY DEF ServersInv, NoLeakedServer, Own
  <1>2. Own = {} /\ UNCHANGED <<ServerView, Own>>
    BY <1>1, OwnKeep
  <1>3. MachineView # "gone" /\ MachineView' = "gone"
    BY DEF MachineView
  <1> QED BY <1>2, <1>3, InstanceSteps

LEMMA RefinementInit == Init => I!Init
  <1> SUFFICES ASSUME Init PROVE I!Init
    OBVIOUS
  <1>1. MachineView = "present"
    BY DEF Init, KubeInit, NewMachine, NoMachine, MachineView
  <1>2. Own = {}
    BY DEF Init, NovaInit, Own, Visible
  <1> QED BY <1>1, <1>2, InstanceSteps

LEMMA RefinementActuator ==
  ASSUME IndInv, DeletionInv, ServersInv, ServersInv', ActuatorStep
  PROVE  [I!Next]_(I!vars)
  <1>1. CASE ValidateMachine \/ AwaitActive \/ DeleteLookup \/ AwaitDelete
    <2>1. UNCHANGED <<servers, api>>
      BY <1>1 DEF ValidateMachine, AwaitActive, DeleteLookup, AwaitDelete, novaVars
    <2> QED BY <2>1, StutterStep
  <1>2. CASE PatchLabels \/ PatchStatus
    <2>1. /\ UNCHANGED servers /\ api'.providerID = api.providerID
          /\ api'.exists = api.exists /\ api'.deleting = api.deleting
      BY <1>2, PatchLabelsEffect, PatchStatusEffect DEF KeepNova, KeepMeta, Silent
    <2> QED BY <2>1, StutterStep
  <1>3. CASE SetProviderID
    <2>1. UNCHANGED servers /\ pc = "setProviderID"
      BY <1>3, SetProviderIDEffect DEF KeepNova
    <2>2. CASE Silent
      BY <2>1, <2>2, StutterStep DEF Silent
    <2>3. CASE /\ m = api /\ m.providerID = None /\ api'.providerID = st
               /\ api'.exists = api.exists /\ api'.deleting = api.deleting
      <3>1. \A s \in Servers : ~ Recreated(s)
        BY <2>3 DEF Recreated
      <3>2. \A s \in Servers : Visible(s)' => s = st
        BY <2>1, <2>3 DEF ServersInv, ServersKnown, Visible
      <3>3. Own' = Own
        BY <2>1, <2>3, <3>1, <3>2 DEF Own, Recreated, Visible
      <3>4. UNCHANGED <<MachineView, ServerView, Own>>
        BY <2>1, <2>3, <3>3 DEF MachineView, ServerView
      <3> QED BY <3>4, InstanceSteps
    <2> QED BY <1>3, <2>2, <2>3, SetProviderIDEffect
  <1>4. CASE CreateServer
    <2>1. UNCHANGED api /\ pc = "createServer"
      BY <1>4 DEF CreateServer
    <2>2. CASE UNCHANGED servers
      BY <2>1, <2>2, StutterStep
    <2>3. CASE \E s \in Servers : Boot(s)
      <3>1. PICK s \in Servers : Boot(s)
        BY <2>3
      <3>2. /\ servers[s] = "absent" /\ servers'[s] = "BUILD"
            /\ \A t \in Servers \ {s} : servers'[t] = servers[t]
        BY <3>1 DEF Boot, IndInv, TypeOK
      <3>3. NoneVisible /\ api.exists
        BY <2>1 DEF ServersInv, ServersKnown, DeletionInv, Creating, CreatePath
      <3>4. Own = {} /\ UNCHANGED MachineView /\ MachineView # "gone" /\ ServerView = "none"
        BY <2>1, <3>3, ServerViewIs DEF NoneVisible, Own, MachineView, ServersInv
      <3>5. \A t \in Servers : Visible(t)' => t = s
        BY <3>2, <3>3 DEF NoneVisible, Visible
      <3>6. CASE api.providerID = None
        <4>1. s \in Own'
          BY <2>1, <3>2, <3>6 DEF Own, Visible, Recreated
        <4>2. Own' # {} /\ ServerView' = "BUILD"
          BY <3>2, <4>1, ServerViewNext DEF ServersInv
        <4> QED BY <3>4, <4>2, InstanceSteps
      <3>7. CASE api.providerID # None
        <4>1. api.providerID # s
          BY <3>2, <3>7 DEF IndInv, ProviderOK
        <4>2. Own' = {}
          BY <2>1, <3>2, <3>5, <3>7, <4>1 DEF Own, Recreated
        <4>3. ServerView' = "none"
          BY <4>2, ServerViewNext DEF ServersInv
        <4> QED BY <3>4, <4>2, <4>3, InstanceSteps
      <3> QED BY <3>6, <3>7
    <2> QED BY <1>4, <2>2, <2>3 DEF CreateServer
  <1>5. CASE DeleteServer
    <2>1. UNCHANGED api /\ pc = "deleteServer" /\ (UNCHANGED servers \/ Terminate(st))
      BY <1>5 DEF DeleteServer
    <2>2. servers \in [Servers -> ServerStates] /\ st \in Servers /\ servers[st] # "absent"
      BY <2>1 DEF IndInv, TypeOK, ServersInv, ServersKnown
    <2>3. CASE UNCHANGED servers \/ servers[st] = "gone"
      <3>1. UNCHANGED servers
        BY <2>1, <2>2, <2>3 DEF Terminate
      <3> QED BY <2>1, <3>1, StutterStep
    <2>4. CASE Terminate(st) /\ servers[st] # "gone"
      <3>1. Visible(st) /\ servers' = [servers EXCEPT ![st] = "DELETING"]
        BY <2>2, <2>4 DEF Terminate, Visible, ServerStates
      <3>2. MachineView = "deleting" /\ UNCHANGED MachineView
        BY <2>1 DEF DeletionInv, Deleting, DeletePath, AllDeleting, MachineView
      <3>3. servers[st] # "none" /\ "DELETING" \in ServerStates \ {"absent"}
        BY <2>2 DEF ServerStates
      <3>4. CASE st \in Own
        <4>1. ServerView = servers[st] /\ Own' = Own /\ ServerView' = "DELETING"
          BY <2>1, <2>2, <3>1, <3>3, <3>4, OwnChange DEF ServersInv
        <4> QED BY <3>2, <3>3, <4>1, InstanceSteps
      <3>5. CASE st \notin Own
        <4>1. UNCHANGED <<ServerView, Own>>
          BY <2>1, <2>2, <3>1, <3>3, <3>5, OwnChange DEF ServersInv
        <4> QED BY <3>2, <4>1, InstanceSteps
      <3> QED BY <3>4, <3>5
    <2> QED BY <2>1, <2>3, <2>4
  <1> QED BY <1>1, <1>2, <1>3, <1>4, <1>5 DEF ActuatorStep

LEMMA RefinementController ==
  ASSUME IndInv, ServersInv, ServersInv', ControllerStep
  PROVE  [I!Next]_(I!vars)
  <1>1. CASE Fetch \/ NotFound \/ StayFailed \/ CheckDeleted \/ DeleteNode \/ CheckExists \/ Update
             \/ Create
    <2>1. UNCHANGED <<servers, api>>
      BY <1>1 DEF Fetch, NotFound, StayFailed, CheckDeleted, DeleteNode, CheckExists, Update, Create,
                  Reconcile, novaVars
    <2> QED BY <2>1, StutterStep
  <1>2. CASE AddFinalizer \/ MarkDeleting
    <2>1. /\ UNCHANGED servers /\ api'.providerID = api.providerID
          /\ api'.exists = api.exists /\ api'.deleting = api.deleting
      BY <1>2, AddFinalizerEffect, MarkDeletingEffect DEF KeepNova, KeepMeta, Silent
    <2> QED BY <2>1, StutterStep
  <1>3. CASE RemoveFinalizer
    <2>1. UNCHANGED servers
      BY <1>3, RemoveFinalizerEffect DEF KeepNova
    <2>2. CASE Silent
      BY <2>1, <2>2, StutterStep DEF Silent
    <2>3. CASE ~ Silent
      BY <1>3, <2>1, <2>3, RemoveFinalizerEffect, ReleaseStep
    <2> QED BY <2>2, <2>3
  <1>4. CASE MarkProvisioned \/ ReportError \/ MarkProvisioning \/ MarkFailed
    <2>1. UNCHANGED servers
      BY <1>4 DEF MarkProvisioned, ReportError, MarkProvisioning, MarkFailed, novaVars
    <2>2. /\ Deref(m.phase) \in Phases
          /\ {"Running", "Provisioned", "Provisioning", "Failed"} \subseteq Phases
      BY DerefType DEF IndInv, TypeOK, Machine, Phases
    <2>3. \E phase \in Phases, reason \in Reasons, again \in BOOLEAN :
            FinishWithStatus(phase, reason, again)
      BY <1>4, <2>2, Zenon
         DEF MarkProvisioned, ReportError, MarkProvisioning, MarkFailed, Reasons
    <2>4. /\ api'.providerID = api.providerID
          /\ api'.exists = api.exists /\ api'.deleting = api.deleting
      BY <2>3, FinishEffect DEF Silent, KeepMeta
    <2> QED BY <2>1, <2>4, StutterStep
  <1>5. CASE MarkMissing \/ MarkInvalid
    <2>1. /\ UNCHANGED servers /\ api'.providerID = api.providerID
          /\ api'.exists = api.exists /\ api'.deleting = api.deleting
      BY <1>5, AnnotateEffect DEF MarkMissing, MarkInvalid, novaVars, Silent, KeepMeta
    <2> QED BY <2>1, StutterStep
  <1> QED BY <1>1, <1>2, <1>3, <1>4, <1>5 DEF ControllerStep

LEMMA RefinementOthers ==
  ASSUME IndInv, ServersInv, ServersInv', Next, ~ Worker
  PROVE  [I!Next]_(I!vars)
  <1>1. CASE Drainer \/ Editor \/ HookOwner \/ NodeLink
    <2>1. /\ UNCHANGED servers /\ api'.providerID = api.providerID
          /\ api'.exists = api.exists /\ api'.deleting = api.deleting
      BY <1>1, DrainerEffect, EditorEffect, HookOwnerEffect, NodeLinkEffect DEF Silent, KeepMeta, KeepNova
    <2> QED BY <2>1, StutterStep
  <1>2. CASE Informer \/ Kubelet \/ Crash \/ Panic \/ Finished
    <2>1. UNCHANGED <<servers, api>>
      BY <1>2 DEF Informer, Deliver, Kubelet, NodeRegister, Crash, Panic, Restart, Finished, vars,
                  kubeVars, novaVars
    <2> QED BY <2>1, StutterStep
  <1>3. CASE User
    <2>1. /\ UNCHANGED servers /\ api'.providerID = api.providerID
          /\ api.exists /\ ~ api.deleting
          /\ IF api.finalizer THEN api'.exists /\ api'.deleting ELSE ~ api'.exists
      BY <1>3, UserEffect DEF KeepNova
    <2>2. CASE api.finalizer
      <3>1. MachineView = "present" /\ MachineView' = "deleting"
        BY <2>1, <2>2 DEF MachineView
      <3> QED BY <2>1, <3>1, OwnKeep, InstanceSteps
    <2>3. CASE ~ api.finalizer
      BY <2>1, <2>3, ReleaseStep
    <2> QED BY <2>2, <2>3
  <1>4. CASE NovaWorks \/ Tamper
    <2>1. UNCHANGED <<api, MachineView>>
      BY <1>4 DEF NovaWorks, Tamper, kubeVars, MachineView
    <2>2. PICK s \in Servers, state \in {"ACTIVE", "ERROR", "gone"} :
            /\ Visible(s) /\ servers' = [servers EXCEPT ![s] = state]
            /\ state # "gone" => servers[s] = "BUILD"
      BY <1>4, Zenon DEF NovaWorks, NovaBuild, NovaReap, Tamper, ExternalDelete, Visible
    <2>3. servers[s] # "none" /\ state \in ServerStates \ {"absent"}
      BY <2>2 DEF Visible, ServerStates
    <2>4. CASE s \in Own
      <3>1. /\ ServerView = servers[s]
            /\ IF state = "gone" THEN Own' = {} /\ ServerView' = "none"
                                 ELSE Own' = Own /\ ServerView' = state
        BY <2>1, <2>2, <2>3, <2>4, OwnChange DEF ServersInv
      <3> QED BY <2>1, <2>2, <2>3, <3>1, InstanceSteps
    <2>5. CASE s \notin Own
      <3>1. UNCHANGED <<ServerView, Own>>
        BY <2>1, <2>2, <2>3, <2>5, OwnChange DEF ServersInv
      <3> QED BY <2>1, <3>1, InstanceSteps
    <2> QED BY <2>4, <2>5
  <1> QED BY <1>1, <1>2, <1>3, <1>4 DEF Next

LEMMA RefinementStep ==
  IndInv /\ DeletionInv /\ ServersInv /\ ServersInv' /\ [Next]_vars => [I!Next]_(I!vars)
  <1> SUFFICES ASSUME IndInv, DeletionInv, ServersInv, ServersInv', [Next]_vars
               PROVE  [I!Next]_(I!vars)
    OBVIOUS
  <1>1. CASE UNCHANGED vars
    BY <1>1, StutterStep DEF vars, kubeVars, novaVars
  <1> QED BY <1>1, RefinementActuator, RefinementController, RefinementOthers DEF Worker

(* The safety part of ImplementsInstance: with outdated copies, races with the drain
   controller, the users and Nova, failed requests and crashes, the controllers do to the
   Machine and its server only what module Instance allows. *)
THEOREM RefinesInstance == Spec => I!Safety
  BY RefinementInit, RefinementStep, ServersInvariant, PTL DEF Spec, I!Safety
=============================================================================
