----------------------------- MODULE FlavorCache -----------------------------
(***************************************************************************)
(* pkg/machineset/flavorcache: what the MachineSet controller remembers of *)
(* the flavors it looked up, valid results for StaledTime and failures for *)
(* RefreshFailureTime.  Time is kept as the age of every entry, counted up *)
(* to the first value at which nothing more can change.                    *)
(*                                                                         *)
(* The clouds themselves are external: flavors are immutable in Nova, so a *)
(* flavor is identified with its contents ("info"), and a name is made to  *)
(* mean something else by deleting the flavor and creating another.        *)
(***************************************************************************)
EXTENDS Integers

CONSTANTS Clouds,       \* what a clouds.yaml entry can lead to
          Flavors,      \* flavor names
          Infos,        \* contents (and IDs) of flavors
          Missing,      \* no flavor of that name
          StaledTime, RefreshFailureTime,
          MaxChanges    \* bound: how often flavors change in the clouds

ASSUME FlavorAssumption == Missing \notin Infos
ASSUME TimeAssumption ==
  /\ StaledTime \in Nat /\ RefreshFailureTime \in Nat
  /\ RefreshFailureTime <= StaledTime
ASSUME MaxChangesAssumption == MaxChanges \in Nat

VARIABLES cloud,        \* the flavors of every cloud
          changes,      \* how often they have changed
          unseen,       \* how long ago a name last meant an info, or Never
          asked,        \* how long ago this process last asked for a name, or Never
          cache         \* Cache.cache; "none" where the map has no key

cacheVars == <<cloud, changes, unseen, asked, cache>>

Ages == 0 .. StaledTime + 1
Never == -1
Entries == [state : {"none", "ok", "err"}, info : Infos \union {Missing}, age : Ages]

EmptyCache == [f \in Flavors |-> [state |-> "none", info |-> Missing, age |-> 0]]

CacheInit ==
  /\ cloud \in [Clouds -> [Flavors -> Infos \union {Missing}]]
  /\ changes = 0
  /\ unseen = [c \in Clouds |-> [f \in Flavors |-> [i \in Infos |->
                 IF cloud[c][f] = i THEN 0 ELSE Never]]]
  /\ asked = [f \in Flavors |-> Never]
  /\ cache = EmptyCache

(* New *)
CacheReset == cache' = EmptyCache

(* Mutant: valid entries never become stale. *)
NeedsRefresh_ErrorsOnly(f) ==
  \/ cache[f].state = "none"
  \/ cache[f].state = "err" /\ cache[f].age > RefreshFailureTime

(* needsRefresh *)
NeedsRefresh(f) ==
  \/ cache[f].state = "none"
  \/ cache[f].state = "ok" /\ cache[f].age > StaledTime
  \/ cache[f].state = "err" /\ cache[f].age > RefreshFailureTime

(* Mutants: an entry is stored without the time of the lookup. *)
StoreInfo_NoTime(f, i) ==
  cache' = [cache EXCEPT ![f] = [state |-> "ok", info |-> i, age |-> Never]]
StoreError_NoTime(f) ==
  cache' = [cache EXCEPT ![f] =
              [state |-> "err", info |-> Missing, age |-> RefreshFailureTime + 1]]

(* The two ways refresh stores an entry, stamped with the current time. *)
StoreInfo(f, i) ==
  cache' = [cache EXCEPT ![f] = [state |-> "ok", info |-> i, age |-> 0]]
StoreError(f) ==
  cache' = [cache EXCEPT ![f] = [state |-> "err", info |-> Missing, age |-> 0]]

(* A request about a flavor goes out (history, for LookupsSpaced). *)
Ask(f) == asked' = [asked EXCEPT ![f] = 0]

Older(age, limit) == IF age \in {Never, limit + 1} THEN age ELSE age + 1

(* Time passes. *)
Tick ==
  /\ cache' = [f \in Flavors |-> [cache[f] EXCEPT
                 !.age = CASE cache[f].state = "none" -> 0
                           [] cache[f].state = "ok"   -> Older(@, StaledTime)
                           [] cache[f].state = "err"  -> Older(@, RefreshFailureTime)]]
  /\ unseen' = [c \in Clouds |-> [f \in Flavors |-> [i \in Infos |->
                 IF cloud[c][f] = i THEN 0 ELSE Older(unseen[c][f][i], StaledTime)]]]
  /\ asked' = [f \in Flavors |-> Older(asked[f], RefreshFailureTime)]
  /\ UNCHANGED <<cloud, changes>>

(* Somebody deletes a flavor of a cloud or gives its name to another one. *)
FlavorChange ==
  /\ changes < MaxChanges
  /\ changes' = changes + 1
  /\ \E c \in Clouds, f \in Flavors, i \in Infos \union {Missing} :
       /\ i # cloud[c][f]
       /\ cloud' = [cloud EXCEPT ![c][f] = i]
       /\ unseen' = IF i = Missing THEN unseen ELSE [unseen EXCEPT ![c][f][i] = 0]
  /\ UNCHANGED <<asked, cache>>
=============================================================================
