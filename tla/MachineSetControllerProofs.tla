--------------------- MODULE MachineSetControllerProofs ---------------------
(***************************************************************************)
(* Theorems about MachineSetController over its FlavorCache, for any       *)
(* number of MachineSets, clouds, flavors and concurrent passes, any two   *)
(* times to live and any number of faults, edits and changes of flavors.   *)
(*                                                                         *)
(* That clouds are asked sparingly holds for any number of clouds.  That   *)
(* an info is fresh is proved for MachineSets that share a cloud: the      *)
(* cache is indexed by the name of the flavor alone, and the run           *)
(* two_clouds shows what happens otherwise.                                *)
(***************************************************************************)
EXTENDS MachineSetController, TLAPS

USE FlavorAssumption, TimeAssumption, MaxChangesAssumption, CloudOfAssumption,
    NoFlavorAssumption, BoundsAssumption

(* Ages are counted up to the first value at which nothing more can change, so
   those of failures end earlier than the type says. *)
AgesBounded ==
  \A f \in Flavors :
    /\ cache[f].state = "err" => cache[f].age <= RefreshFailureTime + 1
    /\ asked[f] <= RefreshFailureTime + 1

(* What a pass has in its hands: a flavor when it turns to the cache, the ID of a
   flavor when it asks for the description, nothing between passes. *)
PassOK ==
  \A x \in MachineSets :
    /\ pc[x] \in {"get", "resolve", "describe"} => copy[x].flavor \in Flavors
    /\ pc[x] = "describe" => result[x] # Missing
    /\ pc[x] \in {"idle", "get", "resolve"} => result[x] = Missing

TypeInv == TypeOK /\ AgesBounded /\ PassOK

(* The cache's mutex. *)
Refreshing(x) == pc[x] \in {"resolve", "describe"}
MutexHeldOnce == \A x, y \in MachineSets : Refreshing(x) /\ Refreshing(y) => x = y

(* Unless a refresh of the flavor is under way, its entry is as old as the last
   request about it. *)
EntryAsOldAsRequest ==
  \A f \in Flavors :
    (\A x \in MachineSets : Refreshing(x) => copy[x].flavor # f) =>
      IF cache[f].state = "none" THEN asked[f] = Never
      ELSE asked[f] # Never /\ (asked[f] >= cache[f].age \/ asked[f] > RefreshFailureTime)

SpacedInv == MutexHeldOnce /\ EntryAsOldAsRequest

(* What a name means now it has meant just now; what a valid entry says, the name
   meant when the entry was stored.  The second holds of every cloud only because
   there is one. *)
NowIsUnseenZero ==
  \A c \in Clouds, f \in Flavors : cloud[c][f] # Missing => unseen[c][f][cloud[c][f]] = 0

EntryMeantThen ==
  \A f \in Flavors :
    /\ cache[f].state = "err" => cache[f].info = Missing
    /\ cache[f].state = "ok" =>
         /\ cache[f].info # Missing
         /\ \A x \in MachineSets : unseen[CloudOf[x]][f][cache[f].info] \in 0 .. cache[f].age

FreshInv == NowIsUnseenZero /\ EntryMeantThen

(* The next age is an age. *)
LEMMA OlderType ==
  ASSUME NEW limit \in Nat, NEW age \in -1 .. limit + 1
  PROVE  /\ Older(age, limit) \in -1 .. limit + 1
         /\ age # Never => Older(age, limit) \in 0 .. limit + 1
         /\ Older(age, limit) = Never <=> age = Never
         /\ age # Never => Older(age, limit) >= age
         /\ age \in 0 .. limit => Older(age, limit) = age + 1
         /\ age = limit + 1 => Older(age, limit) = age
BY DEF Older, Never

(* What the cache may hold: no entry, a failure, an answer. *)
LEMMA EntryType ==
  /\ EmptyCache \in [Flavors -> Entries]
  /\ [state |-> "err", info |-> Missing, age |-> 0] \in Entries
  /\ \A i \in Infos : [state |-> "ok", info |-> i, age |-> 0] \in Entries
BY DEF EmptyCache, Entries, Ages

(* The types of the cache, and of what the controller keeps. *)
CacheType ==
  /\ cloud \in [Clouds -> [Flavors -> Infos \union {Missing}]]
  /\ changes \in 0..MaxChanges
  /\ unseen \in [Clouds -> [Flavors -> [Infos -> Ages \union {Never}]]]
  /\ asked \in [Flavors -> Ages \union {Never}]
  /\ cache \in [Flavors -> Entries]

ControllerType ==
  /\ sets \in [MachineSets -> Objects] /\ seen \in [MachineSets -> Objects]
  /\ queued \subseteq MachineSets
  /\ pc \in [MachineSets -> {"idle", "get", "resolve", "describe", "patch"}]
  /\ copy \in [MachineSets -> Objects]
  /\ result \in [MachineSets -> Infos \union {Missing}]
  /\ faults \in 0..MaxFaults /\ edits \in 0..MaxEdits

LEMMA TypeParts ==
  /\ TypeOK <=> CacheType /\ ControllerType
  /\ TypeOK' <=> CacheType' /\ ControllerType'
BY DEF TypeOK, CacheType, ControllerType

LEMMA InitTypeInv == Init => TypeInv
<1> SUFFICES ASSUME Init PROVE TypeInv
  OBVIOUS
<1>1. TypeOK
  <2>1. CacheType
    BY EntryType DEF Init, CacheInit, CacheType, Ages, Never
  <2>2. sets \in [MachineSets -> Objects] /\ NoCopy \in Objects
    BY DEF Init, Objects, NoCopy
  <2>3. ControllerType
    BY <2>2 DEF Init, ControllerType
  <2> QED BY <2>1, <2>3, TypeParts
<1>2. AgesBounded
  BY DEF Init, CacheInit, AgesBounded, EmptyCache, Never
<1>3. PassOK
  BY DEF Init, PassOK
<1> QED BY <1>1, <1>2, <1>3 DEF TypeInv

(* An answer that is stored is stamped with the current time. *)
LEMMA StoreType ==
  ASSUME CacheType, AgesBounded, NEW f \in Flavors, Ask(f), UNCHANGED <<cloud, changes, unseen>>,
         \/ UNCHANGED cache
         \/ StoreError(f)
         \/ \E i \in Infos : StoreInfo(f, i)
  PROVE  CacheType' /\ AgesBounded'
<1>1. asked' \in [Flavors -> Ages \union {Never}] /\ \A g \in Flavors : asked'[g] <= RefreshFailureTime + 1
  BY DEF CacheType, Ask, AgesBounded, Ages
<1>2. cache' \in [Flavors -> Entries]
  <2>1. CASE UNCHANGED cache
    BY <2>1 DEF CacheType
  <2>2. CASE StoreError(f)
    BY <2>2, EntryType DEF CacheType, StoreError
  <2>3. ASSUME NEW i \in Infos, StoreInfo(f, i) PROVE cache' \in [Flavors -> Entries]
    BY <2>3, EntryType DEF CacheType, StoreInfo
  <2> QED BY <2>1, <2>2, <2>3
<1>3. \A g \in Flavors : cache'[g].state = "err" => cache'[g].age <= RefreshFailureTime + 1
  BY DEF CacheType, StoreError, StoreInfo, Entries, Ages, AgesBounded
<1> QED BY <1>1, <1>2, <1>3 DEF CacheType, AgesBounded

(* Time passes. *)
LEMMA TickType ==
  ASSUME CacheType, AgesBounded, Tick
  PROVE  CacheType' /\ AgesBounded'
<1>1. ASSUME NEW f \in Flavors
      PROVE  /\ cache'[f] \in Entries
             /\ cache'[f].state = "err" => cache'[f].age <= RefreshFailureTime + 1
  <2>1. cache[f] \in Entries /\ (cache[f].state = "err" => cache[f].age <= RefreshFailureTime + 1)
    BY DEF CacheType, AgesBounded
  <2>2. CASE cache[f].state = "none"
    <3>1. cache'[f] = [cache[f] EXCEPT !.age = 0]
      BY <2>2 DEF Tick
    <3> QED BY <2>1, <2>2, <3>1 DEF Entries, Ages
  <2>3. CASE cache[f].state = "ok"
    <3>1. cache'[f] = [cache[f] EXCEPT !.age = Older(cache[f].age, StaledTime)]
      BY <2>3 DEF Tick
    <3>2. Older(cache[f].age, StaledTime) \in Ages
      <4>1. cache[f].age \in -1 .. StaledTime + 1 /\ cache[f].age # Never
        BY <2>1 DEF Entries, Ages, Never
      <4> QED BY <4>1, OlderType DEF Ages
    <3> QED BY <2>1, <2>3, <3>1, <3>2 DEF Entries
  <2>4. CASE cache[f].state = "err"
    <3>1. cache'[f] = [cache[f] EXCEPT !.age = Older(cache[f].age, RefreshFailureTime)]
      BY <2>4 DEF Tick
    <3>2. Older(cache[f].age, RefreshFailureTime) \in 0 .. RefreshFailureTime + 1
      BY <2>1, <2>4, OlderType DEF Entries, Ages, Never
    <3> QED BY <2>1, <2>4, <3>1, <3>2 DEF Entries, Ages
  <2> QED BY <2>1, <2>2, <2>3, <2>4 DEF Entries
<1>2. cache' \in [Flavors -> Entries]
  BY <1>1 DEF Tick
<1>3. ASSUME NEW f \in Flavors
      PROVE  Older(asked[f], RefreshFailureTime) \in -1 .. RefreshFailureTime + 1
  <2>1. asked[f] \in -1 .. RefreshFailureTime + 1
    BY DEF CacheType, AgesBounded, Ages, Never
  <2> QED BY <2>1, OlderType
<1>4. asked' \in [Flavors -> Ages \union {Never}] /\ \A f \in Flavors : asked'[f] <= RefreshFailureTime + 1
  BY <1>3 DEF Tick, Ages, Never
<1>5. ASSUME NEW c \in Clouds, NEW f \in Flavors, NEW i \in Infos
      PROVE  Older(unseen[c][f][i], StaledTime) \in Ages \union {Never}
  <2>1. unseen[c][f][i] \in Ages \union {Never}
    BY DEF CacheType
  <2>2. unseen[c][f][i] \in -1 .. StaledTime + 1
    BY <2>1 DEF Ages, Never
  <2>3. Older(unseen[c][f][i], StaledTime) \in -1 .. StaledTime + 1
    BY <2>2, OlderType
  <2> QED BY <2>3 DEF Ages, Never
<1>6. unseen' \in [Clouds -> [Flavors -> [Infos -> Ages \union {Never}]]]
  BY <1>5 DEF Tick, Ages
<1> QED BY <1>1, <1>2, <1>4, <1>6 DEF CacheType, AgesBounded, Tick

(* A flavor changes in a cloud. *)
LEMMA FlavorChangeType == CacheType /\ FlavorChange => CacheType'
<1> SUFFICES ASSUME CacheType, FlavorChange PROVE CacheType'
  OBVIOUS
<1>1. PICK c \in Clouds, f \in Flavors, i \in Infos \union {Missing} :
        /\ cloud' = [cloud EXCEPT ![c][f] = i]
        /\ unseen' = IF i = Missing THEN unseen ELSE [unseen EXCEPT ![c][f][i] = 0]
  BY DEF FlavorChange
<1>2. cloud' \in [Clouds -> [Flavors -> Infos \union {Missing}]]
  BY <1>1 DEF CacheType
<1>3. unseen' \in [Clouds -> [Flavors -> [Infos -> Ages \union {Never}]]]
  BY <1>1 DEF CacheType, Ages
<1> QED BY <1>2, <1>3 DEF CacheType, FlavorChange

LEMMA TypeInvStep == TypeInv /\ [Next]_vars => TypeInv'
<1> SUFFICES ASSUME TypeInv, [Next]_vars PROVE TypeInv'
  OBVIOUS
<1>t. CacheType /\ ControllerType /\ AgesBounded /\ PassOK
  BY TypeParts DEF TypeInv
<1>c. UNCHANGED cacheVars => CacheType' /\ AgesBounded'
  BY <1>t DEF cacheVars, CacheType, AgesBounded
<1> USE DEF TypeInv
<1>1. ASSUME NEW x \in MachineSets, Begin(x) PROVE TypeInv'
  <2>1. ControllerType'
    BY <1>t, <1>1 DEF Begin, ControllerType, Fault, NoFault
  <2>2. PassOK'
    BY <1>t, <1>1 DEF Begin, PassOK, ControllerType, Objects
  <2> QED BY <1>c, <1>1, <2>1, <2>2, TypeParts DEF Begin
<1>2. ASSUME NEW x \in MachineSets, CacheHit(x) PROVE TypeInv'
  <2>0. cache[copy[x].flavor].info \in Infos \union {Missing}
    BY <1>t, <1>2 DEF CacheHit, PassOK, CacheType, Entries
  <2>1. ControllerType'
    BY <1>t, <1>2, <2>0 DEF CacheHit, ControllerType, Got, setVars
  <2>2. PassOK'
    BY <1>t, <1>2 DEF CacheHit, PassOK, ControllerType, Got
  <2> QED BY <1>c, <1>2, <2>1, <2>2, TypeParts DEF CacheHit
<1>3. ASSUME NEW x \in MachineSets, CacheMiss(x) PROVE TypeInv'
  <2>1. ControllerType'
    BY <1>t, <1>3 DEF CacheMiss, ControllerType, setVars
  <2>2. PassOK'
    BY <1>t, <1>3 DEF CacheMiss, PassOK, ControllerType
  <2> QED BY <1>c, <1>3, <2>1, <2>2, TypeParts DEF CacheMiss
<1>4. ASSUME NEW x \in MachineSets, ResolveFlavor(x) PROVE TypeInv'
  <2>0. copy[x].flavor \in Flavors /\ CloudOf[x] \in Clouds
        /\ cloud[CloudOf[x]][copy[x].flavor] \in Infos \union {Missing}
    BY <1>t, <1>4 DEF ResolveFlavor, PassOK, CacheType
  <2>1. CacheType' /\ AgesBounded'
    BY <1>t, <1>4, <2>0, StoreType DEF ResolveFlavor, LookupFailed
  <2>2. ControllerType'
    BY <1>t, <1>4, <2>0 DEF ResolveFlavor, LookupFailed, Got, ControllerType, setVars, Fault, NoFault
  <2>3. PassOK'
    BY <1>t, <1>4, <2>0 DEF ResolveFlavor, LookupFailed, Got, ControllerType, PassOK
  <2> QED BY <2>1, <2>2, <2>3, TypeParts
<1>5. ASSUME NEW x \in MachineSets, DescribeFlavor(x) PROVE TypeInv'
  <2>0. copy[x].flavor \in Flavors /\ result[x] \in Infos
    BY <1>t, <1>5 DEF DescribeFlavor, PassOK, ControllerType
  <2>1. CacheType' /\ AgesBounded'
    BY <1>t, <1>5, <2>0, StoreType DEF DescribeFlavor, LookupFailed
  <2>2. ControllerType'
    BY <1>t, <1>5, <2>0 DEF DescribeFlavor, LookupFailed, Got, ControllerType, setVars, Fault, NoFault
  <2>3. PassOK'
    BY <1>t, <1>5, <2>0 DEF DescribeFlavor, LookupFailed, Got, ControllerType, PassOK
  <2> QED BY <2>1, <2>2, <2>3, TypeParts
<1>6. ASSUME NEW x \in MachineSets, PatchSet(x) PROVE TypeInv'
  <2>1. sets' \in [MachineSets -> Objects]
    <3>1. sets[x] \in Objects /\ result[x] \in Infos \union {Missing}
      BY <1>t DEF ControllerType
    <3>2. [sets[x] EXCEPT !.ann = result[x]] \in Objects
      BY <3>1 DEF Objects
    <3> QED BY <1>t, <1>6, <3>2 DEF PatchSet, ControllerType
  <2>2. ControllerType'
    <3>1. NoCopy \in Objects
      BY DEF NoCopy, Objects
    <3>2. /\ pc' \in [MachineSets -> {"idle", "get", "resolve", "describe", "patch"}]
          /\ copy' \in [MachineSets -> Objects]
          /\ result' \in [MachineSets -> Infos \union {Missing}]
      BY <1>t, <1>6, <3>1 DEF PatchSet, PassEnds, ControllerType
    <3>3. queued' \subseteq MachineSets /\ faults' \in 0 .. MaxFaults
      BY <1>t, <1>6 DEF PatchSet, ControllerType, Fault, NoFault
    <3> QED BY <1>t, <1>6, <2>1, <3>2, <3>3 DEF PatchSet, ControllerType
  <2>3. PassOK'
    BY <1>t, <1>6 DEF PatchSet, PassEnds, ControllerType, PassOK
  <2> QED BY <1>c, <1>6, <2>2, <2>3, TypeParts DEF PatchSet
<1>7. ASSUME NEW x \in MachineSets, Deliver(x) PROVE TypeInv'
  <2>1. ControllerType' /\ PassOK'
    BY <1>t, <1>7 DEF Deliver, ControllerType, PassOK, passVars
  <2> QED BY <1>c, <1>7, <2>1, TypeParts DEF Deliver
<1>8. CASE Environment /\ UNCHANGED <<setVars, passVars, faults, edits>>
  <2>1. ControllerType' /\ PassOK'
    BY <1>t, <1>8 DEF ControllerType, PassOK, setVars, passVars
  <2>2. CASE Tick
    BY <1>t, <2>1, <2>2, TickType, TypeParts
  <2>3. CASE FlavorChange
    BY <1>t, <2>1, <2>3, FlavorChangeType, TypeParts DEF FlavorChange, AgesBounded
  <2> QED BY <1>8, <2>2, <2>3 DEF Environment
<1>9. CASE Edit
  <2>1. sets' \in [MachineSets -> Objects]
    <3>1. PICK x \in MachineSets :
            \/ \E f \in Flavors \union {NoFlavor} : sets' = [sets EXCEPT ![x].flavor = f]
            \/ sets' = [sets EXCEPT ![x].deleting = TRUE]
      BY <1>9 DEF Edit
    <3>2. sets[x] \in Objects
      BY <1>t DEF ControllerType
    <3>3. \A f \in Flavors \union {NoFlavor} : [sets[x] EXCEPT !.flavor = f] \in Objects
      BY <3>2 DEF Objects
    <3>4. [sets[x] EXCEPT !.deleting = TRUE] \in Objects
      BY <3>2 DEF Objects
    <3> QED BY <1>t, <3>1, <3>3, <3>4 DEF ControllerType
  <2>2. ControllerType' /\ PassOK'
    BY <1>t, <1>9, <2>1 DEF Edit, ControllerType, PassOK, passVars
  <2> QED BY <1>c, <1>9, <2>2, TypeParts DEF Edit
<1>10. CASE SetupWithManager
  <2>1. ControllerType' /\ PassOK'
    BY <1>t, <1>10 DEF SetupWithManager, ControllerType, PassOK, Fault, NoCopy, Objects
  <2>2. CacheType' /\ AgesBounded'
    BY <1>t, <1>10
       DEF SetupWithManager, CacheReset, CacheType, AgesBounded, EmptyCache, Entries, Ages, Never
  <2> QED BY <2>1, <2>2, TypeParts
<1>11. CASE UNCHANGED vars
  <2>1. ControllerType' /\ PassOK'
    BY <1>t, <1>11 DEF vars, ControllerType, PassOK, setVars, passVars
  <2> QED BY <1>c, <1>11, <2>1, TypeParts DEF vars
<1> QED
  BY <1>1, <1>2, <1>3, <1>4, <1>5, <1>6, <1>7, <1>8, <1>9, <1>10, <1>11 DEF Next, Pass

LEMMA TypeInvariant == Spec => []TypeInv
BY InitTypeInv, TypeInvStep, PTL DEF Spec

(* TypeOK holds in every reachable state. *)
THEOREM TypeCorrect == Spec => []TypeOK
<1>1. TypeInv => TypeOK
  BY DEF TypeInv
<1> QED BY <1>1, TypeInvariant, PTL

LEMMA InitSpaced == Init => SpacedInv
BY DEF Init, CacheInit, SpacedInv, MutexHeldOnce, EntryAsOldAsRequest, Refreshing, EmptyCache

(* A pass that does not hold the mutex before or after neither locks it nor
   touches the cache. *)
LEMMA SpacedQuiet ==
  ASSUME SpacedInv, UNCHANGED <<asked, cache>>,
         \A y \in MachineSets : /\ Refreshing(y)' <=> Refreshing(y)
                                /\ Refreshing(y) => copy'[y] = copy[y]
  PROVE  SpacedInv'
<1>1. MutexHeldOnce'
  BY DEF SpacedInv, MutexHeldOnce
<1>2. EntryAsOldAsRequest'
  <2> SUFFICES ASSUME NEW f \in Flavors,
                      \A x \in MachineSets : Refreshing(x)' => copy'[x].flavor # f
               PROVE  IF cache[f].state = "none" THEN asked[f] = Never
                      ELSE /\ asked[f] # Never
                           /\ asked[f] >= cache[f].age \/ asked[f] > RefreshFailureTime
    BY DEF EntryAsOldAsRequest
  <2>1. \A x \in MachineSets : Refreshing(x) => copy[x].flavor # f
    OBVIOUS
  <2> QED BY <2>1 DEF SpacedInv, EntryAsOldAsRequest
<1> QED BY <1>1, <1>2 DEF SpacedInv

(* The pass that holds the mutex has stored the answer. *)
LEMMA SpacedStored ==
  ASSUME TypeInv, SpacedInv, NEW x \in MachineSets, Refreshing(x), Ask(copy[x].flavor),
         UNCHANGED copy, pc' = [pc EXCEPT ![x] = "patch"],
         StoreError(copy[x].flavor) \/ \E i \in Infos : StoreInfo(copy[x].flavor, i)
  PROVE  SpacedInv'
<1> DEFINE f == copy[x].flavor
<1>1. f \in Flavors
  BY DEF TypeInv, PassOK, Refreshing
<1>2. /\ asked'[f] = 0 /\ cache'[f].age = 0 /\ cache'[f].state # "none"
      /\ \A g \in Flavors \ {f} : asked'[g] = asked[g] /\ cache'[g] = cache[g]
  <2>1. asked'[f] = 0 /\ \A g \in Flavors \ {f} : asked'[g] = asked[g]
    BY <1>1 DEF TypeInv, TypeOK, Ask
  <2>2. PICK e \in {[state |-> "err", info |-> Missing, age |-> 0]}
                    \union {[state |-> "ok", info |-> i, age |-> 0] : i \in Infos} :
          cache' = [cache EXCEPT ![f] = e]
    BY DEF StoreError, StoreInfo
  <2>3. cache'[f] = e /\ \A g \in Flavors \ {f} : cache'[g] = cache[g]
    BY <1>1, <2>2 DEF TypeInv, TypeOK
  <2>4. e.age = 0 /\ e.state # "none"
    OBVIOUS
  <2> QED BY <2>1, <2>3, <2>4
<1>3. \A y \in MachineSets : (Refreshing(y)' <=> Refreshing(y) /\ y # x)
  BY DEF TypeInv, TypeOK, Refreshing
<1>4. \A y \in MachineSets : Refreshing(y) => y = x
  BY DEF SpacedInv, MutexHeldOnce
<1> HIDE DEF f
<1>5. MutexHeldOnce'
  BY <1>3 DEF SpacedInv, MutexHeldOnce
<1>6. ASSUME NEW g \in Flavors
      PROVE  IF cache'[g].state = "none" THEN asked'[g] = Never
             ELSE asked'[g] # Never /\ (asked'[g] >= cache'[g].age \/ asked'[g] > RefreshFailureTime)
  <2>1. CASE g = f
    BY <1>2, <2>1 DEF Never
  <2>2. CASE g # f
    BY <1>2, <1>4, <2>2 DEF SpacedInv, EntryAsOldAsRequest, f
  <2> QED BY <2>1, <2>2
<1> QED BY <1>5, <1>6 DEF SpacedInv, EntryAsOldAsRequest

(* Entries and requests grow older together. *)
LEMMA SpacedTick ==
  ASSUME TypeInv, SpacedInv, Tick, UNCHANGED <<pc, copy>>
  PROVE  SpacedInv'
<1>1. MutexHeldOnce'
  BY DEF SpacedInv, MutexHeldOnce, Refreshing
<1>2. ASSUME NEW f \in Flavors, \A x \in MachineSets : Refreshing(x) => copy[x].flavor # f
      PROVE  IF cache'[f].state = "none" THEN asked'[f] = Never
             ELSE asked'[f] # Never /\ (asked'[f] >= cache'[f].age \/ asked'[f] > RefreshFailureTime)
  <2>1. /\ cache[f].state = "none" => asked[f] = Never
        /\ cache[f].state # "none" =>
             asked[f] # Never /\ (asked[f] >= cache[f].age \/ asked[f] > RefreshFailureTime)
    BY <1>2 DEF SpacedInv, EntryAsOldAsRequest
  <2>2. /\ cache[f] \in Entries /\ asked[f] \in -1 .. RefreshFailureTime + 1
        /\ cache[f].state = "err" => cache[f].age <= RefreshFailureTime + 1
        /\ asked'[f] = Older(asked[f], RefreshFailureTime)
    BY DEF TypeInv, TypeOK, AgesBounded, Ages, Never, Tick
  <2>3. CASE cache[f].state = "none"
    <3>1. cache'[f] = [cache[f] EXCEPT !.age = 0]
      BY <2>3 DEF Tick
    <3> QED BY <2>1, <2>2, <2>3, <3>1, OlderType DEF Entries
  <2>4. CASE cache[f].state = "ok"
    <3>1. cache'[f] = [cache[f] EXCEPT !.age = Older(cache[f].age, StaledTime)]
      BY <2>4 DEF Tick
    <3>2. cache'[f].state = "ok" /\ cache'[f].age = Older(cache[f].age, StaledTime)
      BY <2>2, <2>4, <3>1 DEF Entries
    <3>3. cache[f].age \in 0 .. StaledTime + 1
      BY <2>2 DEF Entries, Ages
    <3> QED BY <2>1, <2>2, <2>4, <3>2, <3>3 DEF Older, Never
  <2>5. CASE cache[f].state = "err"
    <3>1. cache'[f] = [cache[f] EXCEPT !.age = Older(cache[f].age, RefreshFailureTime)]
      BY <2>5 DEF Tick
    <3>2. cache'[f].state = "err" /\ cache'[f].age = Older(cache[f].age, RefreshFailureTime)
      BY <2>2, <2>5, <3>1 DEF Entries
    <3>3. cache[f].age \in 0 .. RefreshFailureTime + 1
      BY <2>2, <2>5 DEF Entries, Ages
    <3> QED BY <2>1, <2>2, <2>5, <3>2, <3>3 DEF Older, Never
  <2> QED BY <2>2, <2>3, <2>4, <2>5 DEF Entries
<1> QED BY <1>1, <1>2 DEF SpacedInv, EntryAsOldAsRequest, Refreshing

LEMMA SpacedStep == TypeInv /\ SpacedInv /\ [Next]_vars => SpacedInv'
<1> SUFFICES ASSUME TypeInv, SpacedInv, [Next]_vars PROVE SpacedInv'
  OBVIOUS
<1>t. pc \in [MachineSets -> {"idle", "get", "resolve", "describe", "patch"}]
      /\ copy \in [MachineSets -> Objects]
  BY DEF TypeInv, TypeOK
<1>1. ASSUME NEW x \in MachineSets, Begin(x) \/ CacheHit(x) \/ PatchSet(x) PROVE SpacedInv'
  <2>1. /\ UNCHANGED <<asked, cache>>
        /\ \A y \in MachineSets : /\ Refreshing(y)' <=> Refreshing(y)
                                  /\ Refreshing(y) => copy'[y] = copy[y]
    BY <1>t, <1>1 DEF Begin, CacheHit, PatchSet, PassEnds, Got, cacheVars, Refreshing
  <2> QED BY <2>1, SpacedQuiet
<1>2. ASSUME NEW x \in MachineSets, CacheMiss(x) PROVE SpacedInv'
  <2>1. /\ UNCHANGED <<asked, cache, copy>> /\ \A y \in MachineSets : ~ Refreshing(y)
        /\ \A y \in MachineSets : Refreshing(y)' <=> y = x
    BY <1>t, <1>2 DEF CacheMiss, cacheVars, MutexFree, Refreshing
  <2> QED BY <2>1 DEF SpacedInv, MutexHeldOnce, EntryAsOldAsRequest
<1>3. ASSUME NEW x \in MachineSets, ResolveFlavor(x) PROVE SpacedInv'
  <2>1. CASE LookupFailed(x)
    BY <1>3, <2>1, SpacedStored DEF ResolveFlavor, LookupFailed, Got, Refreshing
  <2>2. CASE pc' = [pc EXCEPT ![x] = "describe"] /\ UNCHANGED cache
    <3>1. /\ \A y \in MachineSets : Refreshing(y)' <=> Refreshing(y)
          /\ Refreshing(x) /\ UNCHANGED <<cache, copy>>
      BY <1>t, <1>3, <2>2 DEF ResolveFlavor, Refreshing
    <3>2. \A g \in Flavors : g # copy[x].flavor => asked'[g] = asked[g]
      BY <1>3 DEF ResolveFlavor, Ask, TypeInv, TypeOK
    <3> QED BY <3>1, <3>2 DEF SpacedInv, MutexHeldOnce, EntryAsOldAsRequest
  <2> QED BY <1>3, <2>1, <2>2 DEF ResolveFlavor
<1>4. ASSUME NEW x \in MachineSets, DescribeFlavor(x) PROVE SpacedInv'
  <2>1. Refreshing(x) /\ result[x] \in Infos
    BY <1>4 DEF DescribeFlavor, Refreshing, TypeInv, TypeOK, PassOK
  <2> QED BY <1>4, <2>1, SpacedStored DEF DescribeFlavor, LookupFailed, Got
<1>5. ASSUME NEW x \in MachineSets, Deliver(x) PROVE SpacedInv'
  BY <1>5, SpacedQuiet DEF Deliver, cacheVars, passVars, Refreshing
<1>6. CASE Environment /\ UNCHANGED <<setVars, passVars, faults, edits>>
  <2>1. CASE Tick
    BY <1>6, <2>1, SpacedTick DEF passVars
  <2>2. CASE FlavorChange
    BY <1>6, <2>2, SpacedQuiet DEF FlavorChange, passVars, Refreshing
  <2> QED BY <1>6, <2>1, <2>2 DEF Environment
<1>7. CASE Edit
  BY <1>7, SpacedQuiet DEF Edit, cacheVars, passVars, Refreshing
<1>8. CASE SetupWithManager
  <2>1. \A y \in MachineSets : ~ Refreshing(y)'
    BY <1>8 DEF SetupWithManager, Refreshing
  <2>2. \A f \in Flavors : cache'[f].state = "none" /\ asked'[f] = Never
    BY <1>8 DEF SetupWithManager, CacheReset, EmptyCache
  <2> QED BY <2>1, <2>2 DEF SpacedInv, MutexHeldOnce, EntryAsOldAsRequest
<1>9. CASE UNCHANGED vars
  BY <1>9, SpacedQuiet DEF vars, cacheVars, passVars, Refreshing
<1> QED BY <1>1, <1>2, <1>3, <1>4, <1>5, <1>6, <1>7, <1>8, <1>9 DEF Next, Pass

(* A process asks for a flavor again only RefreshFailureTime after its last
   request about it, whichever of its passes made that. *)
THEOREM LookupsAreSpaced == Spec => LookupsSpaced
<1>1. TypeInv /\ SpacedInv /\ [Next]_vars =>
        [\A x \in MachineSets :
           pc[x] = "get" /\ pc'[x] = "resolve"
             => asked[copy[x].flavor] = Never
                \/ asked[copy[x].flavor] > RefreshFailureTime]_vars
  <2> SUFFICES ASSUME TypeInv, SpacedInv, Next,
                      NEW x \in MachineSets, pc[x] = "get", pc'[x] = "resolve"
               PROVE  asked[copy[x].flavor] = Never
                      \/ asked[copy[x].flavor] > RefreshFailureTime
    OBVIOUS
  <2>1. ASSUME NEW y \in MachineSets, Pass(y), ~ CacheMiss(y) PROVE FALSE
    BY <2>1 DEF Pass, Begin, CacheHit, ResolveFlavor, DescribeFlavor, PatchSet, PassEnds, Got,
                LookupFailed, TypeInv, TypeOK
  <2>2. CacheMiss(x)
    BY <2>1 DEF Next, Pass, CacheMiss, Deliver, Environment, Edit, SetupWithManager, passVars,
                TypeInv, TypeOK
  <2>3. copy[x].flavor \in Flavors /\ cache[copy[x].flavor] \in Entries
        /\ asked[copy[x].flavor] \in Ages \union {Never}
    BY DEF TypeInv, TypeOK, PassOK
  <2>4. NeedsRefresh(copy[x].flavor) /\ \A y \in MachineSets : ~ Refreshing(y)
    BY <2>2 DEF CacheMiss, MutexFree, Refreshing
  <2> QED BY <2>3, <2>4
          DEF NeedsRefresh, SpacedInv, EntryAsOldAsRequest, Refreshing, Entries, Ages, Never
<1> QED BY <1>1, InitTypeInv, TypeInvStep, InitSpaced, SpacedStep, PTL DEF Spec, LookupsSpaced

(* All MachineSets name the same cloud. *)
SharedCloud == \A x, y \in MachineSets : CloudOf[x] = CloudOf[y]

LEMMA InitFresh == Init => FreshInv
<1> SUFFICES ASSUME Init PROVE FreshInv
  OBVIOUS
<1>1. NowIsUnseenZero
  BY DEF Init, CacheInit, NowIsUnseenZero
<1>2. EntryMeantThen
  BY DEF Init, CacheInit, EntryMeantThen, EmptyCache
<1> QED BY <1>1, <1>2 DEF FreshInv

(* A step that leaves clouds and cache alone. *)
LEMMA FreshQuiet == FreshInv /\ UNCHANGED <<cloud, unseen, cache>> => FreshInv'
BY DEF FreshInv, NowIsUnseenZero, EntryMeantThen

(* A failure is stored, or what the name means now in the one cloud. *)
LEMMA FreshStored ==
  ASSUME SharedCloud, TypeInv, FreshInv, NEW x \in MachineSets, NEW f \in Flavors,
         UNCHANGED <<cloud, unseen>>,
         \/ UNCHANGED cache
         \/ StoreError(f)
         \/ /\ cloud[CloudOf[x]][f] # Missing /\ StoreInfo(f, cloud[CloudOf[x]][f])
  PROVE  FreshInv'
<1> DEFINE c == CloudOf[x]
<1>1. NowIsUnseenZero'
  BY DEF FreshInv, NowIsUnseenZero
<1>2. CASE UNCHANGED cache
  BY <1>2, FreshQuiet
<1>3. CASE StoreError(f)
  <2>1. /\ cache'[f] = [state |-> "err", info |-> Missing, age |-> 0]
        /\ \A g \in Flavors \ {f} : cache'[g] = cache[g]
    BY <1>3 DEF TypeInv, TypeOK, StoreError
  <2>2. EntryMeantThen'
    BY <2>1 DEF FreshInv, EntryMeantThen
  <2> QED BY <1>1, <2>2 DEF FreshInv
<1>4. CASE cloud[c][f] # Missing /\ StoreInfo(f, cloud[c][f])
  <2>1. /\ cache'[f] = [state |-> "ok", info |-> cloud[c][f], age |-> 0]
        /\ \A g \in Flavors \ {f} : cache'[g] = cache[g]
    BY <1>4 DEF TypeInv, TypeOK, StoreInfo
  <2>2. \A y \in MachineSets : unseen[CloudOf[y]][f][cloud[c][f]] \in 0 .. 0
    BY <1>4 DEF SharedCloud, FreshInv, NowIsUnseenZero
  <2>3. EntryMeantThen'
    BY <1>4, <2>1, <2>2 DEF FreshInv, EntryMeantThen
  <2> QED BY <1>1, <2>3 DEF FreshInv
<1> QED BY <1>2, <1>3, <1>4

(* What an entry says and the entry grow older together. *)
LEMMA FreshTick == TypeInv /\ FreshInv /\ Tick => FreshInv'
<1> SUFFICES ASSUME TypeInv, FreshInv, Tick PROVE FreshInv'
  OBVIOUS
<1>1. NowIsUnseenZero'
  BY DEF Tick, NowIsUnseenZero, TypeInv, TypeOK
<1>2. ASSUME NEW f \in Flavors
      PROVE  /\ cache'[f].state = "err" => cache'[f].info = Missing
             /\ cache'[f].state = "ok" =>
                  /\ cache'[f].info # Missing
                  /\ \A x \in MachineSets :
                       unseen'[CloudOf[x]][f][cache'[f].info] \in 0 .. cache'[f].age
  <2>1. cache[f] \in Entries /\ cache'[f].state = cache[f].state /\ cache'[f].info = cache[f].info
    BY DEF Tick, TypeInv, TypeOK, Entries
  <2>2. CASE cache[f].state # "ok"
    BY <2>1, <2>2 DEF FreshInv, EntryMeantThen
  <2>3. ASSUME cache[f].state = "ok", NEW x \in MachineSets
        PROVE  unseen'[CloudOf[x]][f][cache[f].info] \in 0 .. cache'[f].age
    <3> DEFINE i == cache[f].info
               u == unseen[CloudOf[x]][f][i]
    <3>1. cache'[f] = [cache[f] EXCEPT !.age = Older(cache[f].age, StaledTime)]
      BY <2>3 DEF Tick
    <3>2. cache'[f].age = Older(cache[f].age, StaledTime) /\ cache[f].age \in 0 .. StaledTime + 1
      BY <2>1, <3>1 DEF Entries, Ages
    <3>3. u \in 0 .. cache[f].age /\ i \in Infos /\ CloudOf[x] \in Clouds
      BY <2>1, <2>3 DEF FreshInv, EntryMeantThen, Entries
    <3>4. unseen'[CloudOf[x]][f][i] = IF cloud[CloudOf[x]][f] = i THEN 0 ELSE Older(u, StaledTime)
      BY <3>3 DEF Tick
    <3> HIDE DEF u, i
    <3> QED BY <3>2, <3>3, <3>4 DEF Older, Never, i
  <2> QED BY <2>1, <2>2, <2>3 DEF FreshInv, EntryMeantThen
<1> QED BY <1>1, <1>2 DEF FreshInv, EntryMeantThen

(* A name that comes to mean something else has meant the old just before. *)
LEMMA FreshFlavorChange == TypeInv /\ FreshInv /\ FlavorChange => FreshInv'
<1> SUFFICES ASSUME TypeInv, FreshInv, FlavorChange PROVE FreshInv'
  OBVIOUS
<1>1. PICK c \in Clouds, f \in Flavors, i \in Infos \union {Missing} :
        /\ cloud' = [cloud EXCEPT ![c][f] = i]
        /\ unseen' = IF i = Missing THEN unseen ELSE [unseen EXCEPT ![c][f][i] = 0]
  BY DEF FlavorChange
<1>2. /\ cloud'[c][f] = i
      /\ \A d \in Clouds, g \in Flavors : d # c \/ g # f => cloud'[d][g] = cloud[d][g]
  BY <1>1 DEF TypeInv, TypeOK
<1>3. /\ i # Missing => unseen'[c][f][i] = 0
      /\ \A d \in Clouds, g \in Flavors, j \in Infos :
           unseen'[d][g][j] = unseen[d][g][j] \/ unseen'[d][g][j] = 0
  BY <1>1 DEF TypeInv, TypeOK
<1>4. NowIsUnseenZero'
  <2> SUFFICES ASSUME NEW d \in Clouds, NEW g \in Flavors, cloud'[d][g] # Missing
               PROVE  unseen'[d][g][cloud'[d][g]] = 0
    BY DEF NowIsUnseenZero
  <2>1. CASE d = c /\ g = f
    BY <1>2, <1>3, <2>1
  <2>2. CASE ~ (d = c /\ g = f)
    <3>1. cloud'[d][g] = cloud[d][g] /\ cloud[d][g] \in Infos
      BY <1>2, <2>2 DEF TypeInv, TypeOK
    <3> QED BY <1>3, <3>1 DEF FreshInv, NowIsUnseenZero
  <2> QED BY <2>1, <2>2
<1>5. EntryMeantThen'
  <2>1. UNCHANGED cache /\ \A g \in Flavors : cache[g] \in Entries
    BY DEF FlavorChange, TypeInv, TypeOK
  <2>2. ASSUME NEW g \in Flavors, cache[g].state = "ok", NEW x \in MachineSets
        PROVE  unseen'[CloudOf[x]][g][cache[g].info] \in 0 .. cache[g].age
    <3>1. /\ cache[g].info \in Infos /\ cache[g].age \in Nat /\ CloudOf[x] \in Clouds
          /\ unseen[CloudOf[x]][g][cache[g].info] \in 0 .. cache[g].age
      BY <2>1, <2>2 DEF FreshInv, EntryMeantThen, Entries, Ages
    <3> QED BY <1>3, <3>1
  <2> QED BY <2>1, <2>2 DEF FreshInv, EntryMeantThen
<1> QED BY <1>4, <1>5 DEF FreshInv

LEMMA FreshStep == SharedCloud /\ TypeInv /\ FreshInv /\ [Next]_vars => FreshInv'
<1> SUFFICES ASSUME SharedCloud, TypeInv, FreshInv, [Next]_vars PROVE FreshInv'
  OBVIOUS
<1>1. CASE UNCHANGED cacheVars
  BY <1>1, FreshQuiet DEF cacheVars
<1>2. ASSUME NEW x \in MachineSets, ResolveFlavor(x) PROVE FreshInv'
  <2>1. copy[x].flavor \in Flavors
    BY <1>2 DEF ResolveFlavor, TypeInv, PassOK
  <2> QED BY <1>2, <2>1, FreshStored DEF ResolveFlavor, LookupFailed
<1>3. ASSUME NEW x \in MachineSets, DescribeFlavor(x) PROVE FreshInv'
  <2>1. copy[x].flavor \in Flavors /\ result[x] # Missing
    BY <1>3 DEF DescribeFlavor, TypeInv, PassOK
  <2> QED BY <1>3, <2>1, FreshStored DEF DescribeFlavor, LookupFailed
<1>4. CASE SetupWithManager
  <2>1. UNCHANGED <<cloud, unseen>> /\ \A f \in Flavors : cache'[f].state = "none"
    BY <1>4 DEF SetupWithManager, CacheReset, EmptyCache
  <2> QED BY <2>1 DEF FreshInv, NowIsUnseenZero, EntryMeantThen
<1> QED
  BY <1>1, <1>2, <1>3, <1>4, FreshTick, FreshFlavorChange
     DEF Next, Pass, Begin, CacheHit, CacheMiss, PatchSet, Deliver, Environment, Edit, vars

(* MachineSets that share a cloud get only infos that their flavor has had there
   within the last StaledTime. *)
THEOREM FlavorsAreFresh == ASSUME SharedCloud PROVE Spec => FreshFlavor
<1>1. TypeInv /\ FreshInv /\ [Next]_vars =>
        [\A x \in MachineSets :
           pc[x] # "patch" /\ pc'[x] = "patch" /\ result'[x] # Missing
             => unseen[CloudOf[x]][copy[x].flavor][result'[x]] \in 0..StaledTime]_vars
  <2> SUFFICES ASSUME TypeInv, FreshInv, Next, NEW x \in MachineSets,
                      pc[x] # "patch", pc'[x] = "patch", result'[x] # Missing
               PROVE  unseen[CloudOf[x]][copy[x].flavor][result'[x]] \in 0..StaledTime
    OBVIOUS
  <2>t. /\ pc \in [MachineSets -> {"idle", "get", "resolve", "describe", "patch"}]
        /\ result \in [MachineSets -> Infos \union {Missing}] /\ PassOK
    BY DEF TypeInv, TypeOK
  <2>1. Pass(x)
    <3>1. ASSUME NEW y \in MachineSets, Pass(y), y # x PROVE pc'[x] = pc[x]
      BY <2>t, <3>1 DEF Pass, Begin, CacheHit, CacheMiss, ResolveFlavor, DescribeFlavor, PatchSet,
                        PassEnds, Got, LookupFailed
    <3>2. \E y \in MachineSets : Pass(y)
      BY <2>t DEF Next, Deliver, Environment, Edit, SetupWithManager, passVars
    <3> QED BY <3>1, <3>2
  <2>2. CASE CacheHit(x)
    <3> DEFINE e == cache[copy[x].flavor]
    <3>1. /\ copy[x].flavor \in Flavors /\ e \in Entries /\ result'[x] = e.info
          /\ ~ NeedsRefresh(copy[x].flavor)
      BY <2>t, <2>2 DEF CacheHit, Got, PassOK, TypeInv, TypeOK
    <3>2. e.state = "ok" /\ e.age \in 0 .. StaledTime
      BY <3>1 DEF NeedsRefresh, FreshInv, EntryMeantThen, Entries, Ages
    <3>3. unseen[CloudOf[x]][copy[x].flavor][e.info] \in 0 .. e.age
      BY <3>1, <3>2 DEF FreshInv, EntryMeantThen
    <3> HIDE DEF e
    <3> QED BY <3>1, <3>2, <3>3
  <2>3. CASE DescribeFlavor(x)
    <3>1. /\ cloud[CloudOf[x]][copy[x].flavor] = result[x] /\ result'[x] = result[x]
          /\ copy[x].flavor \in Flavors /\ CloudOf[x] \in Clouds
      BY <2>t, <2>3 DEF DescribeFlavor, LookupFailed, Got, PassOK
    <3> QED BY <3>1 DEF FreshInv, NowIsUnseenZero
  <2>4. CASE Begin(x) \/ ResolveFlavor(x) \/ CacheMiss(x) \/ PatchSet(x)
    BY <2>t, <2>4 DEF Begin, ResolveFlavor, CacheMiss, PatchSet, PassEnds, LookupFailed, Got, PassOK
  <2> QED BY <2>1, <2>2, <2>3, <2>4 DEF Pass
<1>2. TypeInv /\ FreshInv /\ [Next]_vars => FreshInv'
  BY FreshStep
<1> QED BY <1>1, <1>2, InitTypeInv, TypeInvStep, InitFresh, PTL DEF Spec, FreshFlavor
=============================================================================
