# A TLA+ model of machine-api-provider-openstack

The repository is the OpenStack provider of OpenShift's machine API: one
manager process (`cmd/manager`) that turns `Machine` objects into Nova servers
and keeps capacity annotations on `MachineSet` objects. This directory holds
TLA+ modules for its controllers, the TLC configurations that check them on
small instances, and proofs that TLAPS checks for all instances.

## 1. The system

| Part | Source | State it keeps | Operations |
|---|---|---|---|
| Machine controller | `vendor/.../machine-api-operator/pkg/controller/machine/controller.go` | a work queue, the copy of the Machine it works on | `Reconcile`, `updateStatus`, `deleteNode` |
| Drain controller | `.../machine/drain_controller.go` | a work queue, the copy it drains | `Reconcile` |
| Actuator | `pkg/machine/actuator.go` | none: everything is in the Machine and in Nova | `Exists`, `Create`, `Update`, `Delete` |
| CAPO compute service | `vendor/.../cluster-api-provider-openstack/pkg/cloud/services/compute/instance.go` | none | `CreateInstance`, `DeleteInstance`, lookups by name and ID |
| MachineSet controller | `pkg/machineset/controller.go` | a work queue | `Reconcile` |
| Flavor cache | `pkg/machineset/flavorcache/cache.go` | a map from flavor name to info or error with a time, a mutex | `Get` |
| Clients | `pkg/clients` | none | credentials, flavors, images, zones, server groups |
| Conversion | `pkg/machine/convert.go` | none | provider spec to CAPO `InstanceSpec`, server group got or created |
| User data, bootstrap | `pkg/machine/machineScript.go`, `pkg/bootstrap` | none | `getUserData`: secret, template, postprocessor; tokens |
| Manager | `cmd/manager/main.go` | the process: informer caches, queues, leader lease | start, stop |

How they interact: the controllers read Machines from the informer's cache and
write them to the API server; every write comes back as a watch event that
enqueues the object again. The machine controller calls the actuator, which
calls Nova through CAPO and patches the Machine three times (providerID with an
optimistic lock, labels and status without). The machine controller and the
drain controller never talk to each other: the one sets phase Deleting, the
other the Drained condition, and each waits for the other's write. The nodelink
controller, another process, sets `status.nodeRef`. Users delete Machines, and
somebody may delete servers behind everybody's back.

What is hard here: every decision is made on a copy that may be out of date;
requests can fail after they were carried out; the process can die between any
two of them (once by its own nil dereference, in the creation poll); several
branches of `Reconcile` return without asking for another pass and rely on an
event; a Machine that is Failed is never looked at again; an instance is made of
ports, trunks and volumes that only their names connect to the Machine; the cache
is shared by MachineSets of different clouds; server groups are shared with
everybody in the project; and a Machine on which the code panics takes the passes
of all others with it. `PROJECT.json` lists these hazards with
their lines and the properties that watch over them.

What makes the parts correct:

* machine controller and actuator: one server per Machine, none after it, a
  fixed providerID, no verdict (`Failed`) from a failed or outdated lookup and
  none taken back by a late patch,
  drain before deletion, Node before Machine, nothing past a lifecycle hook, and
  progress;
* provisioning: Machines that name a server group share it, nothing is created
  for a spec that is refused, and every Machine is decided in the end;
* compute service: whatever was created for an instance is found again when it
  is deleted, and a retry completes what an earlier attempt began;
* conversion: the ports, in order, with the subnets and tags the spec asks for;
* flavor cache: no info older than `StaledTime`, no flavor asked for more often than
  every `RefreshFailureTime` by one process;
* MachineSet controller: the annotations converge.

## 2. The modules

| Module | Models | Uses |
|---|---|---|
| `KubeAPI` | the Machine object in the API server, the informer, the queues (external) | |
| `Nova` | the servers of the Machine (external) and the lookups of `GetInstanceStatus`, `GetInstanceStatusByName`, `getInstanceStatus` | `KubeAPI` |
| `Actuator` | `Exists`, `Create`, `Update`, `Delete` request by request | `Nova` |
| `MachineController` | `ReconcileMachine.Reconcile`, the drain controller, crashes, the environment; specification and properties | `Actuator`, `Instance` |
| `MachineControllerProofs` | theorems: types, `IndInv`, the providerID | `MachineController` |
| `MachineLifeProofs` | theorems: drain and hooks, servers, the refinement of `Instance` | `MachineControllerProofs` |
| `MachineStatusProofs` | theorems: phases, the Node, when a server is recreated, when a Machine is declared invalid | `MachineLifeProofs` |
| `Instance` | abstract: a Machine and its instance, seen from outside | |
| `Provisioning` | several Machines in one manager: `validateMachine`, `getUserData`, the server group, `reconcileFloatingIP` | |
| `ProvisioningProofs` | theorems | `Provisioning` |
| `InstanceResources` | `createInstanceImpl` and `DeleteInstance` over ports, trunks and volumes | `Instance` |
| `InstanceResourcesProofs` | theorems | `InstanceResources` |
| `Conversion` | `createCAPOPorts` and the functions it calls, with Go's slices | |
| `ConversionProofs` | theorems: the ports and their tags | `Conversion`, `Recursion` |
| `Recursion` | lemmas: induction and recursion over the natural numbers, what `FlattenSeq` computes | |
| `FlavorCache` | the cache, time and the clouds' flavors | |
| `MachineSetController` | `Reconcile` of the MachineSet controller over the cache | `FlavorCache` |
| `MachineSetControllerProofs` | theorems | `MachineSetController` |
| `MCMachineController`, `MCMachineSetController`, `MCProvisioning` | instances for TLC | |

**State of the machine model.** `api` is the stored Machine, reduced to the
fields the controllers look at; `cached` the informer's copy and `watch` the
versions it has not been told of; `queued` and `drainQueued` say whether a
request is pending (a work queue holds an object at most once). `servers` gives
every UUID its state in Nova, `node` says whether the Node object exists. The
worker (there is one: `MaxConcurrentReconciles` is 1) is a program counter `pc`
naming the request it makes next, its copy `m` of the Machine, the instance `st`
it holds and the actuator method `via` it is in. `drain` is the version the
drain controller read. `faults` counts what went wrong, up to `MaxFaults`.
`status.phase` is a `*string`: `"nil"` when absent, which a patch tells apart from
`""` and `ptr.Deref` does not. Others edit the Machine too (`UserEdit`, up to
`MaxEdits`): no controller looks at what they change, but there is one more version
for the informer to deliver late.

**Granularity.** Every request to the API server or to Nova is one action; the
Go code between two requests belongs to the action before it. A failing request
is a disjunct of its action; for the create and the delete request to Nova and for
every write to the API server (`Write`) there are two such disjuncts, because the
request may have been carried out and only its answer lost. A patch without a lock is applied to
the object as stored at that moment and writes only the fields in which the
worker's copy was changed, except that the list of conditions is replaced as a
whole (`WithStatus`). `updateStatus` always sets the phase, so from a copy without
one the error paths of `Reconcile` write `""` over whatever is stored. For phase
Failed it makes two patches, and there are two actions: the annotation first
(`MarkMissing`, `MarkInvalid`), whose answer becomes the base of the status patch
(`MarkFailed`) except for the conditions, which are still compared with the ones the
pass began with. Polling is an action that waits: it can succeed, see
ERROR, or give up.

**Abstractions.** Labels and annotations of the Machine are one value (`none`,
`set`, and `unknown` once the instance state has been overwritten with that); of the
conditions, `Drained` and the pair `Drainable`/`Terminable` are kept.
`status.lastUpdated` is left out: it changes only together with another field of the
status. Names are unique in
the project, as the actuator assumes: every server in `servers` carries the
Machine's name. Reads of a Node are up to date. The provider spec does not
change; it is parsable or not and valid or not by constants. The floating IP is
in `Provisioning`; the migration feature gate is absent.

**Lifecycle hooks.** `Hooks` is what the Machine is created with, a constant: `preDrain`,
`preTerminate`, both or none. The drain controller leaves a Machine with a
pre-drain hook alone (but only looks if there is a `nodeRef`, as the code does),
the machine controller does not go on to the instance while there is a
pre-terminate hook. What is left of the hooks after a pass is in the conditions
`Drainable` and `Terminable`; `reported` is that pair as it was written last, and
because `updateStatus` compares before it patches, it decides whether there is a
new version and with it another pass. `HookOwner` takes a hook away once its time
has come: while the phase is Deleting, and a pre-terminate hook after the drain, as
`types_machine.go` tells the owners to.

**The abstraction.** `Instance` says what a Machine promises to somebody who only
looks at the Machine (present, deleting, gone), its server and its root volume:
they are made only for a Machine that is not gone and one at a time, taken down by
the controllers only for a Machine that is being deleted, the Machine leaves only
when neither exists, and a deletion ends. Two models of very different detail implement it. `MachineController` has
every patch and every stale copy but knows nothing of ports; `InstanceResources`
has every port, trunk and volume but reads the Machine as it is. Both state
`ImplementsInstance == I!Spec`, fairness included, so the two agree on what an
instance is. The mapping of the former takes the server that carries the Machine's
name and is not `Recreated` (finding 1); that of the latter takes Nova's `SPAWN`
for `BUILD` and the root device's volume for the volume.

**State of the provisioning model.** `Provisioning` puts several Machines into one
manager and follows what `createInstance` does before CAPO is asked for a server.
`spec` is each Machine's provider spec reduced to what decides its fate (server
group by UUID and by name, user data or not, valid or not, block devices of known
types or not, any port or none, floating IP or not); `secret` the user data secret
they share; `phase` and `server` (the group the server was created in) what has
become of a Machine; `attached` whose floating IP is associated. `name`, `deleted`
and `ours` are the server groups of the project, `queue` and `delayed` the work
queue and the requests that the rate limiter holds back, `pc`, `cur` and `target`
the worker's next request, its Machine and the group chosen. A panic and a crash
are the same `Restart`, for all Machines: controller-runtime does not recover
panics unless told to, and the manager does not tell it. Others in the project
create and delete groups, edit the secret and associate floating IPs.

**State of the resource model.** `InstanceResources` looks at the same worker from
the other side: the Machine is only present, deleting or gone (what the informer
shows of it), and `ports`, `trunks`, `volumes` and `server` are what exists in
OpenStack. `pc` names the next request, `todo` what is left of the loop it is in,
`portList` is the local of `createInstanceImpl` that its deferred cleanup uses,
`seen` the `InstanceStatus` `DeleteInstance` was called with and `job` which of
the three loops removes ports (cleanup, attached interfaces, collection by name).
A failing request is one of three things: it failed (`error`), it was carried out
and its answer was lost (`lost`), or the process died (`crash`); `FaultKinds`
selects among them. Nova binds the ports it was given before it starts a server,
may fail before or after that, and deletes volumes, but not ports, with the
server. Neutron may refuse to delete the trunk of a bound port; `DeleteTrunk` retries
that until a timeout and then fails, which ends the pass without counting as a fault.
Volume sizes and two resources of the same name are left out: with one
worker the second cannot come about.

**State of the conversion model.** `ps` is the decoded provider spec, `capoPorts`
the result, `heap` the arrays behind the tag slices; a slice is an array and a
length. The decoder of `encoding/json` doubles capacities, so that three tags
sit in an array of four. One step is one loop iteration.

**State of the MachineSet model.** `cloud` maps each cloud's flavor names to
contents, `unseen` how long ago a name last meant a content and `asked` how long ago
this process asked for it (both are history, for the properties); `cache` is the map
of the cache with ages instead of times. A lookup is the arrival of its response,
which the code stamps with the time as soon as it has it; `sets`, `seen`, `queued` are the stored
MachineSets, the informer's copies and the queue; `pc`, `copy`, `result` belong
to the pass over each MachineSet. The mutex is held while some pass is between
the two requests of a refresh. `SetupWithManager` is the start of a new process: an
empty cache, every MachineSet in the queue. The manager starts this controller with default
options, that is one pass at a time; the options are the caller's, and the
cache is written for concurrent callers, so the model and the proofs allow any number.

## 3. Runs

| Run | Instance | Checks | Shows |
|---|---|---|---|
| `full` | 3 servers, 2 faults, 1 edit by others before the deletion, no hooks | `TypeOK`, `IndInv`, `ProviderServerGone`, `OneServer`, `NoLeakedServer`, `MissingMeansGone`, `ProviderIDFixed`, `LostIsFinal`, `DrainedFirst`, `NodeDeletedFirst` | what holds under all of it together |
| `live` | 2 servers, 1 fault, a pre-terminate hook, fairness | `HooksRespected`, `ImplementsInstance`, `EventuallyProvisioned` | no wake-up is missing, and the Machine behaves as `Instance` says |
| `recreate` | 2 servers, 1 external deletion, lag | `NeverRecreated` | **violated**, finding 1 |
| `transient` | 1 failed request, no lag | `InvalidMeansInvalid` | **violated**, finding 2 |
| `unparsable` | unreadable providerSpec, fairness | `DeletionCompletes` | **violated**, finding 3 |
| `resources` | 3 ports with trunks, root and 1 more volume, 2 faults of each kind, fairness | `TypeOK`, `RootInv`, `RootVolumeGone`, `TrunksHaveParents`, `ErrorPortsCollected`, `ServerHasPorts`, `CleanWithoutFaults`, `ImplementsInstance`, `VolumesGoWithServer` | what interrupted creations and deletions never leave behind or take away, and that the instance is the one of `Instance` |
| `dangling_volume` | 1 failed request | `NoDanglingVolumes` | **violated**, finding 5 |
| `port_tags` | up to 2 networks of up to 2 subnets, 1 port; 0 to 3 tags on a network | `SubnetsAsSpecified`, `TagsUnlessShared` | the loops agree with a definition without them, tags included unless two subnets are put into the same place |
| `shared_tags` | 1 network with 3 tags, 2 subnets | `TagsAsSpecified` | **violated**, finding 6 |
| `groups` | 2 Machines, 3 groups, 1 fault, 1 act of others, fairness | `TypeOK`, `SameGroup`, `OwnGroupsUnique`, `GroupAsSpecified`, `NothingForBadSpecs`, `ProvisionedHasFloatingIP`, `EventuallyDecided` | what Machines that share a project and a process can rely on |
| `flavors` | 1 MachineSet, 2 flavors, 2 contents, 2 edits, a change in the cloud, a failed request or restart, fairness | `TypeOK`, `FreshFlavor`, `LookupsSpaced`, `AnnotationsConverge` | the cache keeps both lifetimes; the annotations follow the flavor through edits, and failures, cached errors and restarts do not stall a MachineSet |
| `two_clouds` | 2 MachineSets in 2 clouds | `FreshFlavor` | **violated**, finding 4 |

**Bounds.** `Servers`: each fault can cost at most one server whose creation
seemed to fail or that was deleted externally, so `MaxFaults + 1` servers are
never exhausted. `MaxFaults` bounds failed requests, crashes and external
deletions together; two let a failure hit the recovery from another one, and
every scenario in the findings needs one. The stored version number needs no
bound because the object changes a bounded number of times: a write that changes
nothing makes no new version, and a phase is taken back only by way of a fault or an
edit. One edit by others, in `full`, makes a pass start between two writes of the
controller that would otherwise follow each other; together with two faults (an external
deletion and a failed lookup or a lost answer) that is what `LostIsFinal` has to survive.
It comes before the deletion of the Machine (`LateEdits` is FALSE): afterwards the drain
controller is a second writer anyway, and the theorems hold for edits at any time. In the
other machine runs `MaxEdits` is 0. In the resource runs three ports give every loop a
first, a middle and a last iteration, and two faults of each kind let the retry of a retry
fail again; the finding needs one. In the conversion runs the tag counts are what
matters: with 0, 1 or 2
tags the array is full, with 3 it has room for one more, so `port_tags` has specs on
both sides of the condition of `TagsUnlessShared`. The resource
and conversion models stop when the Machine is gone and when the conversion is
done, so these runs do not check for deadlock. In `flavors` the lifetimes 1 and 0 (an
entry lives until the next tick) keep the order of the real 300 s and 60 s; one change in
the cloud and one failed request or restart can happen at every point of a pass. There
are two flavors, which may mean different things, and two edits, so that the flavor of
an annotated MachineSet can change, and change back, while a pass is under way. (The
safety properties also hold with two MachineSets and two concurrent passes over one
flavor, lifetimes 2 and 1 and one edit.) In `groups` two Machines are the least that can disagree; three groups are
one that was there, one of the manager's and one of others'; one fault and one act
of others let either come between any two requests. (The safety properties also
hold with two faults and three acts of others for specs that differ only in their
groups.) It stops when every Machine is decided, so deadlock is not checked there.
In `live` the pre-terminate hook is the one whose removal has to wake the machine
controller up. (`live` also passes with both hooks, and `full` with the edit at any time, or with both
hooks and without the edit; they take longer.) Servers are interchangeable, so the safety runs use symmetry; the
liveness runs do not.

**Fairness.** Weak fairness of the worker and the drain controller (the queues
hand out every pending request and rate limiting only delays), of the informer
(events arrive) and of Nova (it completes what it accepted). Nothing is assumed
of users, of the kubelet, of nodelink or of faults. Owners of hooks remove them, as
without that no deletion need end. `Panic` is fair because the
process has no other step there. In the resource model the worker and Nova are
fair, with the same reasons; faults are bounded and never owed. The success of
`RemoveTrunk` is strongly fair: Neutron may answer with a conflict again and again while
a port is bound, but not for ever. That is an assumption on Neutron, and the deletion of
a server in ERROR needs it: its ports stay bound until it is deleted, and `DeleteInstance`
deletes it only after their trunks. In `Provisioning` the
worker goes on and every delay ends. In the MachineSet model time passes, and
obtaining the mutex is strongly fair: Go's mutex hands over to a starving waiter.

**Findings.**

1. `recreate`: a Machine whose providerID is stored gets a second server when its
   instance was deleted externally and the pass starts from a copy older than the
   providerID. In that execution the new server carries the Machine's name but
   the Machine names the old one, so the new one, and a Node it registers, may
   stay behind. `NoLeakedServer` and `NodeDeletedFirst` except precisely such
   servers (`Recreated`) and hold for all others.
2. `transient`: one failed list request during validation makes a valid Machine
   Failed with reason InvalidConfiguration, and the controller leaves it at that.
3. `unparsable`: a Machine whose providerSpec cannot be read is neither reported
   nor deletable, as `Exists` and `Delete` fail with ordinary errors.
4. `two_clouds`: the cache's key leaves out the cloud.
5. `dangling_volume`: `Delete` builds an InstanceSpec without additional block
   devices, so their volumes are not found when there is no server. When there is one,
   `VolumesGoWithServer` says that they go with it.
6. `shared_tags`: `append` to a slice with spare capacity in a loop; the ports of a
   network given by subnets share one array of tags. `TagsUnlessShared` says that this
   is the only thing that can happen to tags.

The properties of `resources` also mark where CAPO's code stops short, and each
condition can be dropped to see it. Without `faults["lost"] = 0`,
`ServerHasPorts` fails: the cleanup takes "no server returned" for "no server
created" and deletes the ports of a server whose create request was carried out
without an answer. Without its condition the first part of `CleanWithoutFaults`
fails: a port left by a creation that failed before its trunk (or tags) is reused
as it is. So does the second part: ports are found only through the server, and
those of a failed creation, of a server still being built, or detached but not
deleted are not looked for.

Remarks on the conditions of other properties:

* `LostIsFinal` speaks of Machines that have a providerID. `types_machine.go` says of all
  that "Failed machines have encountered a terminal error and must be deleted"
  (`FailedIsFinal`), and for a Machine that never had an instance this is not quite so.
  Somebody edits a new Machine while it is being set to Provisioning; the pass on the
  version of the edit, which has no phase, cannot reach the cloud and writes `""` over
  Provisioning (`updateStatus` sets the phase without a lock, whatever it is); the pass on the
  version with Provisioning finds the spec invalid and writes Failed; the pass on the
  version with `""` writes Provisioning over that. TLC finds this for `SpecValid = FALSE`,
  one edit and one failed request. The next pass fails the Machine again.
* `EventuallyDecided` speaks of executions in which at last no Machine is
  `Poisonous`. The condition cannot be dropped: user data that does not parse as a
  template, a spec without networks and ports and a floating IP that is not
  associated yet each make the manager panic, the next manager lists the Machine
  again, and other Machines are only looked at in between.
* `SameGroup` and `OwnGroupsUnique` rest on there being one manager. The list and
  the create request are not atomic, and `--leader-elect` is false unless set.
* `HooksRespected` is about pre-terminate hooks. `types_machine.go` says of pre-drain
  hooks that they also block "further lifecycle events, such as termination"; for a
  Machine without a `nodeRef` they do not, as the drain controller then skips
  hooks and drain, reports the Machine as drained, and it is terminated.

## 4. Proofs

`MachineControllerProofs` proves, for every set of servers, every `MaxFaults`
and all values of the flags (assumptions: `None` is no server, the flags are
Boolean, `MaxFaults` and `MaxEdits` are natural numbers, `Hooks` are hooks):

* `TypeCorrect`: `Spec => []TypeOK`;
* `InvariantHolds`: `Spec => []IndInv`;
* `ServerGoneWithMachine`: `Spec => []ProviderServerGone`;
* `ProviderIDNeverChanges`: `Spec => ProviderIDFixed`.

`ProviderServerGone` is not inductive: the finalizer is removed with a copy that
was read several requests earlier. `IndInv` adds three things.

* `CopiesOK`: a copy with the stored version is the stored object; an older copy
  that shows the finalizer or a providerID is right about it (finalizers leave
  only with the object, providerIDs never change). Preserved by every write that
  is a `Successor` of the stored object.
* `ProviderOK`: a stored providerID names a server that was created, keeps the
  finalizer on while the Machine exists, and after that names a server that is gone.
* `WorkerOK`: on the way to `setProviderID` the worker has seen the finalizer and
  a created server; on the way to removing the finalizer it has seen the server
  of its copy's providerID gone. Both stay true while others act because servers
  never come back (`Onward`).

The two locked writes close the argument: where `Locked(m)` holds, `m` is the
stored object, so what the worker saw of its copy is true of the object it
overwrites. Actions fall into steps without a write (`QuietStep`), writes that
leave providerID, existence and finalizer alone (`PutStep`) and three that do
not: `SetProviderID`, `RemoveFinalizer` and `UserDelete`.

`MachineLifeProofs` and `MachineStatusProofs` go on from there, under the same
assumptions. What every action does to the stored object, the copies and the
worker is stated once (the lemmas `...Effect`); over it there are layers, each
inductive relative to the ones before.

| Layer | Says | Theorems |
|---|---|---|
| `DeletionInv` | versions of the Machine reach the informer in the order of their deletion and phase (`InOrder`); a pass that creates works on a Machine that exists and whose deletion this controller has not started; a pass that deletes works on a drained one without pre-terminate hooks; once the phase is Deleting, or the Machine is gone, every pass knows it | `DrainComesFirst`: `DrainedFirst`; `HooksAreRespected`: `HooksRespected` |
| `ServersInv` | what the last lookup saw is still so: before a create request no server is visible, on the way to `setProviderID` none but the one in hand, before the finalizer goes none; a Machine for which one was requested has the finalizer | `NeverTwoServers`: `[]OneServer`; `NoServerLeaks`: `[]NoLeakedServer`; `RefinesInstance`: `I!Safety` |
| `StatusInv` | the fields of each version agree (`ObjectOK`); servers are requested only when every version a pass can start from has a phase, if only `""` (`Begun`); a pass that looks for a server does not work on a copy that is Failed, and one that reports a status has found the server of a Machine that is not (`StatusKnown`) | `MissingIsGone`: `[]MissingMeansGone` |
| `LostInv` | versions reach the informer one by one (`Versions`); once a providerID is stored, at most the informer's own version is without it, and the worker knows its phase (`GivenKnown`); a Machine that has lost its server has no copy from which a pass would start provisioning (`LostKnown`) | `LostForGood`: `LostIsFinal`; `FailedForGood`: `FailedIsFinal` if `~ CacheLag` |
| `NodeInv` | at the removal of the finalizer of a Machine with a `nodeRef`, the Node is gone or a recreated server has registered it again | `NodeGoesFirst`: `NodeDeletedFirst` |
| `RecreateInv` | without external deletions servers only end in phase Deleting; without lagging copies the worker sees a providerID that is set | `RecreationTakesBoth`: `NeverRecreated` if `~ Tampering \/ ~ CacheLag`; `NothingLeaks`: then also `[](api.exists \/ NoneVisible)` |
| `VerdictInv` | while nothing has failed, a valid Machine is neither at the verdict nor has its reason | `InvalidTakesAFault`: `[](faults = 0 => InvalidMeansInvalid)` |

The drain theorem is less obvious than it looks: `updateStatus` may write an old
list of conditions over a newer one and withdraw `Drained`. What saves it is that the
response of that very patch is what the pass decides on, and that the only other
writers of the list, the passes that create, cannot run any more.
`NeverTwoServers` rests on there being one worker: between the lookup by name and the
create request only Nova and users act, and neither makes servers. `LostForGood`
is about a pass that starts from a copy which does not show the verdict yet, since
patches of the phase carry no lock. To Running and Provisioned such a pass must get past
`setProviderID`: its lock fails, or the server that a set providerID names was found,
which contradicts `MissingMeansGone`. Provisioning and `""` are only written from a copy
whose phase is blank (`nil` or `""`). The providerID is written under the lock, that is
from the version the informer has at that moment, which is then the last one without a
providerID that a pass can start from. If that version is blank, a pass from it neither
creates nor validates anything, so it makes no Machine Fail; by the time another pass can,
the informer has moved on to a version with the providerID. If it is not blank, no pass
from it writes Provisioning. Without a providerID the argument has nothing to start from,
and the remark on `LostIsFinal` in section 3 shows what can happen; `FailedForGood` says
that this takes an outdated copy.

`RecreationTakesBoth` delimits the finding of the run `recreate`: reconcile recreates
a server only if its copy lags behind the stored providerID **and** the server was
deleted behind the machine API's back. The hypothesis is a condition on two constants
of the model, the instances of which with `Tampering = FALSE` or `CacheLag = FALSE` TLC
has confirmed too. `InvalidTakesAFault` does the same for the run `transient`: as long as
no request has failed, only a spec that is invalid is declared so, whatever the copies
and the user do; one failed request is enough for the contrary, as the run shows.

`RefinesInstance` proves the safety part of `ImplementsInstance`. `Own` has at most one
element by `OneServer`; `SetProviderID` keeps it because every visible server is the one
in hand; `CreateServer` is `Request`, or a stutter when the server is a recreated one;
`DeleteServer` is `Remove` and needs `DeletionInv`; `RemoveFinalizer`, and the deletion
of a Machine without a finalizer, are `Release` and need `ServersInv`.

`InstanceResourcesProofs` proves, for any number of ports, volumes and faults of
every kind:

* `TypeCorrect`: `[]TypeOK`, with what each label says of the loop's rest (`PassOK`);
* `RootInvariant`, `RootVolumeGoneWithMachine`: `[]RootInv`, `[]RootVolumeGone`;
* `TrunksAlwaysHaveParents`, `ErrorPortsAlwaysCollected`: `[]TrunksHaveParents`,
  `[]ErrorPortsCollected`, from `PortsInv` (the port at hand exists while its trunk
  is made, its trunk is gone when the port is removed, and a collection that has
  listed the ports still has every one of them to do);
* `ServerKeepsPorts`: `[]ServerHasPorts`, from `BoundInv` (a pass that cleans up after
  a failed create request is without a server unless an answer was lost);
* `CleanWhenNothingFails`: `[]CleanWithoutFaults`, from `Straight`, which follows a pass
  without faults through its loops (a conflict over a trunk interrupts only the deletion of
  a server in ERROR: one that runs has let go of the port before);
* `VolumesAlwaysGoWithServer`: `VolumesGoWithServer`, from `FoundInv` (a pass that has
  found a server has no volume left once the server is gone, as only the creation adds
  volumes and only a pass that found no server deletes them itself); it delimits the
  finding of `dangling_volume`;
* `RefinesInstance`: `I!Safety`.

`RootVolumeGone` speaks of the last step of a deletion; `RootInv` says what the
pass knows on the way there. A pass that found a server keeps "if the server has
gone, so has the root volume" (only Nova removes the server, and it takes the
volume along; only a creation pass adds volumes); a pass that found none has
deleted the volume once its loop is through; and a gone Machine has no pass.

`ProvisioningProofs` proves, for any finite sets of Machines and groups, all provider
specs and every number of faults (`ProvisioningAssumption`; the state "absent" of a
server is no group):

* `TypeCorrect`: `[]TypeOK`;
* `GroupsShared`, `OwnGroupsStayUnique`, `GroupsRespectSpecs`: `[]SameGroup`,
  `[]OwnGroupsUnique`, `[]GroupAsSpecified`;
* `BadSpecsCreateNothing`: `NothingForBadSpecs`;
* `FloatingIPFirst`: `[]ProvisionedHasFloatingIP`.

The three about groups are one induction, `GroupInv`: to keep a created group unique
the worker must still be right about the list it has read (`Listed`), to put a server
into the group of its siblings it must have chosen that one (`Chosen`), and both need
what validation and conversion have shown of the spec (`Validated`, `Converted`).
Others create and delete groups meanwhile; a group of theirs with the name is harmless
because it is neither one of ours nor has a server of ours.

`MachineSetControllerProofs` proves, for any MachineSets, flavors, clouds and lifetimes:

* `TypeCorrect`: `[]TypeOK`, with `AgesBounded`;
* `LookupsAreSpaced`: `LookupsSpaced`, within the life of one process, from the mutex (`MutexHeldOnce`) and "the entry is
  as old as the last request" for flavors that are not being refreshed;
* `FlavorsAreFresh`: `FreshFlavor`, **if all MachineSets name one cloud** (`SharedCloud`).
  `EntryMeantThen`, what an entry says the name meant when it was stored, holds for
  each MachineSet's cloud only then; the run `two_clouds` is the counterexample.

`ConversionProofs` proves, for provider specs of any size (`ConversionAssumption`: the
bounds are natural numbers and so are the tag counts):

* `PortsAsSpecified`: `[]SubnetsAsSpecified`;
* `TagsSafe`: `[]TagsUnlessShared`;
* `ConvInvariant`: `[]ConvInv`, from which both follow.

`ConvInv` compares the ports so far with the part of the reference definition that the
loops have got to (`ExpectedAt(n, i)`): their subnets always (`ShapeInv`), their tags if
no two subnets of a network are put into the same place (`TagsInv`). An append can spoil
tags that were right before it, so the invariant has to say who shares arrays with whom:

* `AheadInv`: arrays of networks and ports still to come are as the decoder left them;
* `LocalInv`: the local `tags` shows the network's tags and, for a network that is given,
  those of the subnets so far; it is in the network's own array or in one made by append;
* `PortsInv`: no port's slice points into an array still to come. A port has the array of
  the current network only if it shows the network's tags alone, which end where append
  begins to write, or if a subnet's tags have been put in place there: the next subnet to be put
  in place is then the second one, and the condition of `TagsUnlessShared` fails.

That `Capacity` leaves room for what was decoded, and that the reference for one more
network is the reference so far and that network's ports, are inductions over data. The
library's induction theorems take an operator as a parameter and cannot be used here.
`Recursion` derives what is needed from the first-order `WFMin` (a well-founded relation
has minimal elements): `SetInduction` has a set where they have a predicate,
`PrimitiveRecursion` a function where they have a definition, and `FlattenNext` says what
`FlattenSeq` adds for one more sequence.

Only model-checked: liveness (`EventuallyProvisioned`, `EventuallyDecided`,
`AnnotationsConverge` and the progress part of `ImplementsInstance`), as the prover
handles neither fairness nor ENABLED. Every invariant and every action property of a
passing run is proved (`FreshFlavor` for one cloud); the properties of the runs that expect a violation are false as they
stand, and five of the six findings have a theorem that says what they take:
`RecreationTakesBoth`, `InvalidTakesAFault`, `FlavorsAreFresh`,
`VolumesAlwaysGoWithServer` and `TagsSafe`.

## 5. Not modelled, and the plan

Not modelled:

* authentication, TLS and the construction of clients: requests that succeed or fail;
* text: what templates render to, host names, event messages, logs;
* bootstrap tokens: `getUserData` asks for one only for a Machine whose name is
  empty (`machineScript.go:131`), and the API server has no such Machine;
* label values: nothing in this repository reads the flavor and zone labels;
  `status.lastUpdated`;
* the `MachineAPIMigration` feature gate, which pauses Machines, and the annotation
  that excludes a Node from draining;
* metrics, probes and flags; leader election (one active manager is assumed);
* edits of a provider spec, and the utilities and version packages.

Further work:

1. The counterpart for the finding of `unparsable`: that deletions of Machines with a readable
   providerSpec end is known from the run `live` alone, as it is a liveness property.
2. Two managers at once (`--leader-elect=false`), for which `SameGroup`, `OwnGroupsUnique`
   and `OneServer` are not expected to hold.
