------------------------- MODULE MachineSetController -------------------------
(***************************************************************************)
(* pkg/machineset: the controller that keeps the machine.openshift.io/vCPU *)
(* and memoryMb annotations of MachineSets (one value "ann" here) in line  *)
(* with their flavor, over the shared flavor cache.  Requests to a cloud   *)
(* and to the API server are steps; the cache's mutex is held from the     *)
(* first lookup of a refresh to its last, that is while some pass is at    *)
(* "resolve" or "describe".                                                *)
(***************************************************************************)
EXTENDS FlavorCache, FiniteSets

CONSTANTS MachineSets,
          CloudOf,      \* the cloud that a MachineSet's cloudsSecret names
          NoFlavor,     \* spec.flavor is ""
          MaxConcurrentReconciles,
          MaxFaults,    \* bound: failed requests and crashes
          MaxEdits      \* bound: edits of MachineSets

ASSUME CloudOfAssumption == CloudOf \in [MachineSets -> Clouds]
ASSUME NoFlavorAssumption == NoFlavor \notin Flavors
ASSUME BoundsAssumption == MaxFaults \in Nat /\ MaxEdits \in Nat

VARIABLES sets,         \* the MachineSets in the API server
          seen,         \* the informer's copies
          queued,       \* MachineSets with a request pending
          pc,           \* where the pass over each MachineSet is
          copy,         \* the MachineSet as that pass read it
          result,       \* what the pass got from the cache
          faults, edits

setVars == <<sets, seen, queued>>
passVars == <<pc, copy, result>>
vars == <<cacheVars, setVars, passVars, faults, edits>>

Objects == [flavor : Flavors \union {NoFlavor}, ann : Infos \union {Missing},
            deleting : BOOLEAN]

(* The copy between passes. *)
NoCopy == [flavor |-> NoFlavor, ann |-> Missing, deleting |-> FALSE]

Init ==
  /\ CacheInit
  /\ sets \in [MachineSets ->
                [flavor : Flavors, ann : {Missing}, deleting : {FALSE}]]
  /\ seen = sets
  /\ queued = MachineSets
  /\ pc = [x \in MachineSets |-> "idle"]
  /\ copy = [x \in MachineSets |-> NoCopy]
  /\ result = [x \in MachineSets |-> Missing]
  /\ faults = 0 /\ edits = 0

Fault == faults < MaxFaults /\ faults' = faults + 1
NoFault == UNCHANGED faults

MutexFree == \A x \in MachineSets : pc[x] \notin {"resolve", "describe"}

(* Reconcile up to the cache: a deleted MachineSet is ignored; an empty flavor
   and a failure to build the instance service are errors, after which the
   (unchanged) object is patched all the same. *)
Begin(x) ==
  /\ x \in queued /\ pc[x] = "idle"
  /\ Cardinality({y \in MachineSets : pc[y] # "idle"}) < MaxConcurrentReconciles
  /\ queued' = queued \ {x}
  /\ \/ /\ seen[x].deleting
        /\ NoFault /\ UNCHANGED <<pc, copy>>
     \/ /\ ~ seen[x].deleting /\ copy' = [copy EXCEPT ![x] = seen[x]]
        /\ \/ seen[x].flavor # NoFlavor /\ NoFault /\ pc' = [pc EXCEPT ![x] = "get"]
           \/ /\ IF seen[x].flavor = NoFlavor THEN NoFault ELSE Fault
              /\ pc' = [pc EXCEPT ![x] = "patch"]
  /\ UNCHANGED <<cacheVars, sets, seen, result, edits>>

Got(x, answer) ==
  /\ pc' = [pc EXCEPT ![x] = "patch"]
  /\ result' = [result EXCEPT ![x] = answer]

(* Get finds a fresh entry, valid or errored. *)
CacheHit(x) ==
  /\ pc[x] = "get" /\ MutexFree
  /\ ~ NeedsRefresh(copy[x].flavor)
  /\ Got(x, cache[copy[x].flavor].info)
  /\ UNCHANGED <<cacheVars, setVars, copy, faults, edits>>

(* Get has to refresh: the mutex stays locked. *)
CacheMiss(x) ==
  /\ pc[x] = "get" /\ MutexFree
  /\ NeedsRefresh(copy[x].flavor)
  /\ pc' = [pc EXCEPT ![x] = "resolve"]
  /\ UNCHANGED <<cacheVars, setVars, copy, result, faults, edits>>

LookupFailed(x) == StoreError(copy[x].flavor) /\ Got(x, Missing)

(* GetFlavorID with the credentials of the MachineSet. *)
ResolveFlavor(x) ==
  LET found == cloud[CloudOf[x]][copy[x].flavor] IN
  /\ pc[x] = "resolve"
  /\ Ask(copy[x].flavor)
  /\ \/ /\ found # Missing
        /\ pc' = [pc EXCEPT ![x] = "describe"]
        /\ result' = [result EXCEPT ![x] = found]     \* the flavor's ID
        /\ NoFault /\ UNCHANGED cache
     \/ /\ IF found = Missing THEN NoFault ELSE Fault
        /\ LookupFailed(x)
  /\ UNCHANGED <<cloud, changes, unseen, setVars, copy, edits>>

(* GetFlavorInfo: the flavor with that ID may be gone by now.  The step is the
   arrival of the response, which refresh stamps with the time at once. *)
DescribeFlavor(x) ==
  LET id == result[x]
      there == cloud[CloudOf[x]][copy[x].flavor] = id IN
  /\ pc[x] = "describe"
  /\ Ask(copy[x].flavor)
  /\ \/ /\ there
        /\ StoreInfo(copy[x].flavor, id) /\ Got(x, id)
        /\ NoFault
     \/ /\ IF there THEN Fault ELSE NoFault
        /\ LookupFailed(x)
  /\ UNCHANGED <<cloud, changes, unseen, setVars, copy, edits>>

PassEnds(x) ==
  /\ pc' = [pc EXCEPT ![x] = "idle"]
  /\ copy' = [copy EXCEPT ![x] = NoCopy]
  /\ result' = [result EXCEPT ![x] = Missing]

(* Mutant: annotations are only added, never brought up to date. *)
PatchSet_FirstOnly(x) ==
  /\ pc[x] = "patch"
  /\ PassEnds(x)
  /\ \/ /\ sets' = IF result[x] = Missing \/ copy[x].ann # Missing THEN sets
                   ELSE [sets EXCEPT ![x].ann = result[x]]
        /\ queued' = IF result[x] = Missing THEN queued \union {x} ELSE queued
        /\ NoFault
     \/ Fault /\ queued' = queued \union {x} /\ UNCHANGED sets
  /\ UNCHANGED <<cacheVars, seen, edits>>

(* The merge patch carries the annotations if they differ from the copy's.  An
   error of reconcile or of the patch is returned, and then the RequeueAfter
   that reconcile asked for is ignored: the request is rate limited. *)
PatchSet(x) ==
  /\ pc[x] = "patch"
  /\ PassEnds(x)
  /\ \/ /\ sets' = IF result[x] \in {Missing, copy[x].ann} THEN sets
                   ELSE [sets EXCEPT ![x].ann = result[x]]
        /\ queued' = IF result[x] = Missing THEN queued \union {x} ELSE queued
        /\ NoFault
     \/ Fault /\ queued' = queued \union {x} /\ UNCHANGED sets
  /\ UNCHANGED <<cacheVars, seen, edits>>

Pass(x) ==
  \/ Begin(x) \/ CacheHit(x) \/ CacheMiss(x)
  \/ ResolveFlavor(x) \/ DescribeFlavor(x) \/ PatchSet(x)

(* The informer catches up with a MachineSet. *)
Deliver(x) ==
  /\ seen[x] # sets[x]
  /\ seen' = [seen EXCEPT ![x] = sets[x]]
  /\ queued' = queued \union {x}
  /\ UNCHANGED <<cacheVars, sets, passVars, faults, edits>>

(* A user changes the flavor of a MachineSet, or deletes it. *)
Edit ==
  /\ edits < MaxEdits
  /\ edits' = edits + 1
  /\ \E x \in MachineSets :
       /\ ~ sets[x].deleting
       /\ \/ \E f \in Flavors \union {NoFlavor} :
               f # sets[x].flavor /\ sets' = [sets EXCEPT ![x].flavor = f]
          \/ sets' = [sets EXCEPT ![x].deleting = TRUE]
  /\ UNCHANGED <<cacheVars, seen, queued, passVars, faults>>

(* The manager ends and another one is set up, with an empty cache; its informer
   lists the MachineSets and queues them all.  The history of requests starts
   again with the process. *)
SetupWithManager ==
  /\ Fault
  /\ CacheReset /\ asked' = [f \in Flavors |-> Never]
  /\ seen' = sets /\ queued' = MachineSets
  /\ pc' = [x \in MachineSets |-> "idle"]
  /\ copy' = [x \in MachineSets |-> NoCopy]
  /\ result' = [x \in MachineSets |-> Missing]
  /\ UNCHANGED <<cloud, changes, unseen, sets, edits>>

Environment ==
  Tick \/ FlavorChange

Next ==
  \/ \E x \in MachineSets : Pass(x) \/ Deliver(x)
  \/ Environment /\ UNCHANGED <<setVars, passVars, faults, edits>>
  \/ Edit \/ SetupWithManager

Spec == Init /\ [][Next]_vars

(* Time passes, the queue hands out every request, a mutex that is released
   again and again is obtained in the end, and events arrive. *)
FairSpec ==
  /\ Spec
  /\ WF_vars(Tick /\ UNCHANGED <<setVars, passVars, faults, edits>>)
  /\ \A x \in MachineSets :
       /\ WF_vars(Begin(x)) /\ WF_vars(Deliver(x)) /\ WF_vars(PatchSet(x))
       /\ WF_vars(ResolveFlavor(x)) /\ WF_vars(DescribeFlavor(x))
       /\ SF_vars(CacheHit(x) \/ CacheMiss(x))

-----------------------------------------------------------------------------
(* Type invariant of the cache, the MachineSets and the passes over them. *)
TypeOK ==
  /\ cloud \in [Clouds -> [Flavors -> Infos \union {Missing}]]
  /\ changes \in 0..MaxChanges
  /\ unseen \in [Clouds -> [Flavors -> [Infos -> Ages \union {Never}]]]
  /\ asked \in [Flavors -> Ages \union {Never}]
  /\ cache \in [Flavors -> Entries]
  /\ sets \in [MachineSets -> Objects] /\ seen \in [MachineSets -> Objects]
  /\ queued \subseteq MachineSets
  /\ pc \in [MachineSets -> {"idle", "get", "resolve", "describe", "patch"}]
  /\ copy \in [MachineSets -> Objects]
  /\ result \in [MachineSets -> Infos \union {Missing}]
  /\ faults \in 0..MaxFaults /\ edits \in 0..MaxEdits

(* Get "returns flavor information [...] as retrieved less than ${cache-ttl}
   ago": an info that reaches a MachineSet was, within the last StaledTime,
   what its flavor meant in the cloud its providerSpec names. *)
FreshFlavor ==
  [][\A x \in MachineSets :
       pc[x] # "patch" /\ pc'[x] = "patch" /\ result'[x] # Missing
         => unseen[CloudOf[x]][copy[x].flavor][result'[x]] \in 0..StaledTime]_vars

(* However often failing MachineSets are retried (the RequeueAfter of reconcile
   is ignored), one process asks for a flavor again only RefreshFailureTime
   after its last request about it, in whichever pass that was.  A restart
   forgets the cached failures, and may ask at once. *)
LookupsSpaced ==
  [][\A x \in MachineSets :
       pc[x] = "get" /\ pc'[x] = "resolve"
         => asked[copy[x].flavor] = Never \/ asked[copy[x].flavor] > RefreshFailureTime]_vars

(* A MachineSet that is there, with a flavor that its cloud has. *)
Settled(x) ==
  IF sets[x].deleting \/ sets[x].flavor = NoFlavor THEN FALSE
  ELSE cloud[CloudOf[x]][sets[x].flavor] # Missing

(* Its annotations describe a flavor that its cloud has had under that name. *)
Described(x) ==
  IF sets[x].ann = Missing \/ sets[x].flavor = NoFlavor THEN FALSE
  ELSE unseen[CloudOf[x]][sets[x].flavor][sets[x].ann] # Never

(* Once a MachineSet and its flavor stay as they are, its annotations come to
   describe a flavor that had that name in its cloud (Reconcile; not always
   the one that has it now: nothing refreshes a MachineSet that succeeded). *)
AnnotationsConverge ==
  \A x \in MachineSets : <>[]Settled(x) => <>[]Described(x)
=============================================================================
