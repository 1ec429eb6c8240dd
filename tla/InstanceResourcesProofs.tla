---------------------- MODULE InstanceResourcesProofs ----------------------
(***************************************************************************)
(* Theorems about InstanceResources, for any number of ports, volumes and  *)
(* faults of any kind.                                                     *)
(*                                                                         *)
(* First the types, with what a pass knows of its own loops (PassOK).      *)
(* Then, each on top of that: trunks and the ports of servers in ERROR     *)
(* (PortsInv), the ports of running servers (BoundInv), the root volume    *)
(* (RootInv), all volumes (FoundInv), and what is true as long as nothing  *)
(* fails (Straight).                                                       *)
(* Finally the refinement of Instance, from PassOK and RootInv.            *)
(***************************************************************************)
EXTENDS InstanceResources, TLAPS, WellFoundedInduction

USE ResourcesAssumption

(* The loops take the least element of what is left to do: it is one of them. *)
LEMMA MinElement ==
  ASSUME NEW S, S \subseteq Nat, S # {}
  PROVE  Min(S) \in S
<1> DEFINE R == OpToRel(<, Nat)
<1>1. \E x \in S : \A y \in S : ~ (<<y, x>> \in R)
  <2>1. IsWellFoundedOn(R, Nat)
    BY NatLessThanWellFounded
  <2> HIDE DEF R
  <2> QED BY <2>1, WFMin
<1>2. \A x, y \in Nat : <<y, x>> \in R <=> y < x
  BY DEF OpToRel
<1> HIDE DEF R
<1>3. \E x \in S : \A y \in S : x =< y
  <2> PICK x \in S : \A y \in S : ~ (<<y, x>> \in R)
    BY <1>1
  <2>1. ASSUME NEW y \in S PROVE x =< y
    <3>1. x \in Nat /\ y \in Nat
      OBVIOUS
    <3>2. ~ (y < x)
      BY <1>2, <3>1
    <3> QED BY <3>1, <3>2
  <2> QED BY <2>1
<1> QED BY <1>3 DEF Min

(* There is a port, and ports and volumes are numbered. *)
LEMMA Numbers == Ports # {} /\ Ports \subseteq Nat /\ Volumes \subseteq Nat /\ Root \subseteq Volumes
BY DEF Ports, Volumes, Root, Extra

-----------------------------------------------------------------------------
PortLoop == {"ensurePort", "tagPort", "ensureTrunk", "tagTrunk", "detach", "removeTrunk", "removePort"}
Making == {"ensurePort", "tagPort", "ensureTrunk", "tagTrunk", "ensureVolume", "createServer"}

(* What a pass knows of its own loops, and of the Machine and the server it was
   started for: nobody but the worker creates servers or lets the Machine go. *)
PassOK ==
  /\ pc \in PortLoop => todo # {} /\ todo \subseteq Ports
  /\ pc = "ensureVolume" => todo \subseteq Volumes
  /\ pc \in Making => server = "none" /\ machine # "gone"
  /\ pc = "deleteVolume" => server = "none" /\ machine = "deleting" /\ todo \subseteq Root
  /\ Deleting => machine = "deleting"
  /\ pc = "detach" => job = "attached"

TypeInv == TypeOK /\ PassOK

(* The port or volume at hand is one of those that the loop has still to do. *)
LEMMA AtHand ==
  ASSUME TypeInv
  PROVE  /\ pc \in PortLoop => Min(todo) \in todo /\ Min(todo) \in Ports
         /\ pc = "ensureVolume" /\ todo # {} => Min(todo) \in todo /\ Min(todo) \in Volumes
BY MinElement, Numbers DEF TypeInv, PassOK

(* Initially the types are right. *)
LEMMA InitType == Init => TypeInv
BY DEF Init, TypeInv, TypeOK, PassOK, PortLoop, Making, Deleting, Kinds

(* Faults are counted up to their bound. *)
LEMMA FaultsType ==
  ASSUME TypeOK, NEW kind, Fault(kind) \/ NoFault
  PROVE  faults' \in [Kinds -> 0 .. MaxFaults]
BY DEF TypeOK, Fault, NoFault, Kinds

(* Every action keeps the types, and what the pass relies on. *)
LEMMA TypeStep == TypeInv /\ [Next]_vars => TypeInv'
<1> SUFFICES ASSUME TypeInv, [Next]_vars PROVE TypeInv'
  OBVIOUS
<1> USE DEF TypeInv, PassOK, TypeOK, PortLoop, Making, Deleting
<1>h. /\ pc \in PortLoop => Min(todo) \in todo /\ Min(todo) \in Ports
      /\ pc = "ensureVolume" /\ todo # {} => Min(todo) \in todo /\ Min(todo) \in Volumes
  BY AtHand
<1> USE <1>h, Numbers
<1>f. faults' \in [Kinds -> 0 .. MaxFaults]
  BY FaultsType DEF Next, WorkerStep, BeginCreate, EnsurePort, Tag, EnsureTrunk, EnsureVolume,
     CreateServer, AwaitActive, BeginDelete, DeleteVolume, ListInterfaces, Detach, RemoveTrunk,
     RemovePort, DeleteServer, AwaitDelete, RemoveFinalizer, Crash, UserDelete, NovaStep, Read,
     Request, NoFault, vars
<1>1. CASE BeginCreate
  BY <1>1, <1>f DEF BeginCreate, Read, GoTo, EndPass, resources
<1>2. CASE EnsurePort
  BY <1>2, <1>f DEF EnsurePort, Read, Request, GoTo, EndPass, Fail, Listed
<1>3. CASE Tag
  BY <1>3, <1>f DEF Tag, Read, GoTo, EndPass, Fail, Listed, resources
<1>4. CASE EnsureTrunk
  BY <1>4, <1>f DEF EnsureTrunk, Request, GoTo, EndPass, Fail
<1>5. CASE EnsureVolume
  BY <1>5, <1>f DEF EnsureVolume, Read, Request, GoTo, EndPass, Fail
<1>6. CASE CreateServer
  BY <1>6, <1>f DEF CreateServer, Request, GoTo, EndPass, Fail
<1>7. CASE AwaitActive
  BY <1>7, <1>f DEF AwaitActive, Read, EndPass, resources
<1>8. CASE BeginDelete
  BY <1>8, <1>f DEF BeginDelete, EndPass, resources
<1>9. CASE DeleteVolume
  BY <1>9, <1>f DEF DeleteVolume, Request, GoTo, EndPass
<1>10. CASE ListInterfaces
  BY <1>10, <1>f DEF ListInterfaces, AfterInterfaces, EndPass, resources
<1>11. CASE Detach
  BY <1>11, <1>f DEF Detach, Request, GoTo, EndPass
<1>12. CASE RemoveTrunk
  BY <1>12, <1>f DEF RemoveTrunk, Request, GoTo, EndPass
<1>13. CASE RemovePort
  <2>1. ports' \in [Ports -> {"absent", "free", "bound"}]
    BY <1>13 DEF RemovePort, Request
  <2>2. CASE EndPass
    BY <1>13, <1>f, <2>1, <2>2 DEF RemovePort, EndPass
  <2>3. CASE Removed(Min(todo))
    BY <1>13, <1>f, <2>1, <2>3 DEF RemovePort, Removed, AfterInterfaces, GoTo, EndPass
  <2> QED BY <1>13, <2>2, <2>3 DEF RemovePort, Request
<1>14. CASE DeleteServer
  BY <1>14, <1>f DEF DeleteServer, Request, GoTo, EndPass
<1>15. CASE AwaitDelete
  BY <1>15, <1>f DEF AwaitDelete, Read, GoTo, EndPass, resources
<1>16. CASE RemoveFinalizer
  BY <1>16, <1>f DEF RemoveFinalizer, Read, EndPass, resources
<1>17. CASE Crash
  BY <1>17, <1>f DEF Crash, EndPass, resources
<1>18. CASE UserDelete
  BY <1>18, <1>f DEF UserDelete, resources, worker
<1>19. CASE NovaStep
  <2>1. Unbound \in [Ports -> {"absent", "free", "bound"}]
    BY DEF Unbound
  <2>2. CASE NovaAllocate
    BY <1>19, <1>f, <2>2 DEF NovaStep, NovaAllocate, worker
  <2>3. CASE NovaStart
    BY <1>19, <1>f, <2>3 DEF NovaStep, NovaStart, worker
  <2>4. CASE NovaFail
    BY <1>19, <1>f, <2>1, <2>4 DEF NovaStep, NovaFail, worker
  <2>5. CASE NovaReap
    BY <1>19, <1>f, <2>1, <2>5 DEF NovaStep, NovaReap, worker
  <2> QED BY <1>19, <2>2, <2>3, <2>4, <2>5 DEF NovaStep
<1>20. CASE UNCHANGED vars
  BY <1>20, <1>f DEF vars, resources, worker
<1> QED
  BY <1>1, <1>2, <1>3, <1>4, <1>5, <1>6, <1>7, <1>8, <1>9, <1>10, <1>11, <1>12,
     <1>13, <1>14, <1>15, <1>16, <1>17, <1>18, <1>19, <1>20 DEF Next, WorkerStep

(* Type correctness, for any number of ports, volumes and faults. *)
THEOREM TypeCorrect == Spec => []TypeOK
<1>1. TypeInv => TypeOK
  BY DEF TypeInv
<1> QED
  BY <1>1, InitType, TypeStep, PTL DEF Spec

-----------------------------------------------------------------------------
(* What is known of ports and trunks on the way: the port that is being put on a
   trunk is there, the port that is deleted next has no trunk any more, and what
   the collection of an ERROR server's ports has still to do is all there is. *)
PortsInv ==
  /\ TrunksHaveParents
  /\ pc \in {"tagPort", "ensureTrunk", "tagTrunk"} => ports[Min(todo)] # "absent"
  /\ pc = "removePort" => Min(todo) \notin trunks
  /\ pc \in {"removeTrunk", "removePort"} /\ job = "collect"
       => \A i \in Ports : ports[i] # "absent" => i \in todo
  /\ ErrorPortsCollected

(* Initially there is neither a port nor a trunk. *)
LEMMA InitPorts == Init => PortsInv
BY DEF Init, PortsInv, TrunksHaveParents, ErrorPortsCollected

(* Every action keeps what is known of ports and trunks. *)
LEMMA PortsStep == TypeInv /\ PortsInv /\ [Next]_vars => PortsInv'
<1> SUFFICES ASSUME TypeInv, PortsInv, [Next]_vars PROVE PortsInv'
  OBVIOUS
<1>h. /\ pc \in PortLoop => Min(todo) \in todo /\ Min(todo) \in Ports
      /\ ports \in [Ports -> {"absent", "free", "bound"}] /\ trunks \subseteq Ports
      /\ pc = "detach" => job = "attached"
  BY AtHand DEF TypeInv, TypeOK, PassOK
<1> USE <1>h, Numbers DEF PortsInv, PortLoop, TrunksHaveParents, ErrorPortsCollected
<1>1. CASE BeginCreate
  BY <1>1 DEF BeginCreate, Read, GoTo, EndPass, resources
<1>2. CASE EnsurePort
  BY <1>2 DEF EnsurePort, Read, Request, GoTo, EndPass, Fail, Listed
<1>3. CASE Tag
  BY <1>3 DEF Tag, Read, GoTo, EndPass, Fail, Listed, resources
<1>4. CASE EnsureTrunk
  BY <1>4 DEF EnsureTrunk, Request, GoTo, EndPass, Fail
<1>5. CASE EnsureVolume
  BY <1>5 DEF EnsureVolume, Read, Request, GoTo, EndPass, Fail
<1>6. CASE CreateServer
  BY <1>6 DEF CreateServer, Request, GoTo, EndPass, Fail
<1>7. CASE AwaitActive
  BY <1>7 DEF AwaitActive, Read, EndPass, resources
<1>8. CASE BeginDelete
  BY <1>8 DEF BeginDelete, EndPass, resources
<1>9. CASE DeleteVolume
  BY <1>9 DEF DeleteVolume, Request, GoTo, EndPass
<1>10. CASE ListInterfaces
  BY <1>10 DEF ListInterfaces, AfterInterfaces, EndPass, resources
<1>11. CASE Detach
  BY <1>11 DEF Detach, Request, GoTo, EndPass
<1>12. CASE RemoveTrunk
  BY <1>12 DEF RemoveTrunk, Request, GoTo, EndPass
<1>13. CASE RemovePort
  BY <1>13 DEF RemovePort, Removed, AfterInterfaces, Request, GoTo, EndPass
<1>14. CASE DeleteServer
  BY <1>14 DEF DeleteServer, Request, GoTo, EndPass
<1>15. CASE AwaitDelete
  BY <1>15 DEF AwaitDelete, Read, GoTo, EndPass, resources
<1>16. CASE RemoveFinalizer
  BY <1>16 DEF RemoveFinalizer, Read, EndPass, resources
<1>17. CASE Crash
  BY <1>17 DEF Crash, EndPass, resources
<1>18. CASE UserDelete
  BY <1>18 DEF UserDelete, resources, worker
<1>19. CASE NovaStep
  BY <1>19 DEF NovaStep, NovaAllocate, NovaStart, NovaFail, NovaReap, Unbound, worker
<1>20. CASE UNCHANGED vars
  BY <1>20 DEF vars, resources, worker
<1> QED
  BY <1>1, <1>2, <1>3, <1>4, <1>5, <1>6, <1>7, <1>8, <1>9, <1>10, <1>11, <1>12,
     <1>13, <1>14, <1>15, <1>16, <1>17, <1>18, <1>19, <1>20 DEF Next, WorkerStep

(* No trunk is left without its port, whichever loop was interrupted where. *)
THEOREM TrunksAlwaysHaveParents == Spec => []TrunksHaveParents
<1>1. PortsInv => TrunksHaveParents
  BY DEF PortsInv
<1> QED
  BY <1>1, InitType, TypeStep, InitPorts, PortsStep, PTL DEF Spec

(* A server found in ERROR is deleted only without ports. *)
THEOREM ErrorPortsAlwaysCollected == Spec => []ErrorPortsCollected
<1>1. PortsInv => ErrorPortsCollected
  BY DEF PortsInv
<1> QED
  BY <1>1, InitType, TypeStep, InitPorts, PortsStep, PTL DEF Spec

-----------------------------------------------------------------------------
(* While no answer was lost, the cleanup of a failed creation knows that there is
   no server. *)
BoundInv ==
  /\ ServerHasPorts
  /\ pc \in {"removeTrunk", "removePort"} /\ job = "cleanup" /\ faults["lost"] = 0
       => server = "none"

(* Lost answers are counted. *)
LEMMA LostCounted ==
  ASSUME TypeOK
  PROVE  /\ \A kind : Fault(kind) /\ faults'["lost"] = 0 => kind # "lost" /\ faults["lost"] = 0
         /\ NoFault => faults'["lost"] = faults["lost"]
BY DEF TypeOK, Fault, NoFault, Kinds

(* Initially there is no server. *)
LEMMA InitBound == Init => BoundInv
BY DEF Init, BoundInv, ServerHasPorts

(* Only a pass that deletes the Machine takes ports from its server. *)
LEMMA BoundStep == TypeInv /\ BoundInv /\ [Next]_vars => BoundInv'
<1> SUFFICES ASSUME TypeInv, BoundInv, [Next]_vars PROVE BoundInv'
  OBVIOUS
<1>h. /\ pc \in PortLoop => Min(todo) \in todo /\ Min(todo) \in Ports
      /\ ports \in [Ports -> {"absent", "free", "bound"}]
  BY AtHand DEF TypeInv, TypeOK
<1>p. PassOK
  BY DEF TypeInv
<1>f. /\ \A kind : Fault(kind) /\ faults'["lost"] = 0 => kind # "lost" /\ faults["lost"] = 0
      /\ NoFault => faults'["lost"] = faults["lost"]
  BY LostCounted DEF TypeInv
<1> USE <1>h, <1>p, <1>f, Numbers
    DEF BoundInv, PassOK, PortLoop, Making, Deleting, ServerHasPorts
<1>1. CASE BeginCreate
  BY <1>1 DEF BeginCreate, Read, GoTo, EndPass, resources
<1>2. CASE EnsurePort
  BY <1>2 DEF EnsurePort, Read, Request, GoTo, EndPass, Fail, Listed
<1>3. CASE Tag
  BY <1>3 DEF Tag, Read, GoTo, EndPass, Fail, Listed, resources
<1>4. CASE EnsureTrunk
  BY <1>4 DEF EnsureTrunk, Request, GoTo, EndPass, Fail
<1>5. CASE EnsureVolume
  BY <1>5 DEF EnsureVolume, Read, Request, GoTo, EndPass, Fail
<1>6. CASE CreateServer
  BY <1>6 DEF CreateServer, Request, GoTo, EndPass, Fail
<1>7. CASE AwaitActive
  BY <1>7 DEF AwaitActive, Read, EndPass, resources
<1>8. CASE BeginDelete
  BY <1>8 DEF BeginDelete, EndPass, resources
<1>9. CASE DeleteVolume
  BY <1>9 DEF DeleteVolume, Request, GoTo, EndPass
<1>10. CASE ListInterfaces
  BY <1>10 DEF ListInterfaces, AfterInterfaces, EndPass, resources
<1>11. CASE Detach
  BY <1>11 DEF Detach, Request, GoTo, EndPass
<1>12. CASE RemoveTrunk
  BY <1>12 DEF RemoveTrunk, Request, GoTo, EndPass
<1>13. CASE RemovePort
  BY <1>13 DEF RemovePort, Removed, AfterInterfaces, Request, GoTo, EndPass
<1>14. CASE DeleteServer
  BY <1>14 DEF DeleteServer, Request, GoTo, EndPass
<1>15. CASE AwaitDelete
  BY <1>15 DEF AwaitDelete, Read, GoTo, EndPass, resources
<1>16. CASE RemoveFinalizer
  BY <1>16 DEF RemoveFinalizer, Read, EndPass, resources
<1>17. CASE Crash
  BY <1>17 DEF Crash, EndPass, resources
<1>18. CASE UserDelete
  BY <1>18 DEF UserDelete, resources, worker, NoFault
<1>19. CASE NovaStep
  BY <1>19 DEF NovaStep, NovaAllocate, NovaStart, NovaFail, NovaReap, Unbound, worker, NoFault
<1>20. CASE UNCHANGED vars
  BY <1>20 DEF vars, resources, worker, NoFault
<1> QED
  BY <1>1, <1>2, <1>3, <1>4, <1>5, <1>6, <1>7, <1>8, <1>9, <1>10, <1>11, <1>12,
     <1>13, <1>14, <1>15, <1>16, <1>17, <1>18, <1>19, <1>20 DEF Next, WorkerStep

(* A running server of a Machine that nobody deletes keeps its ports. *)
THEOREM ServerKeepsPorts == Spec => []ServerHasPorts
<1>1. BoundInv => ServerHasPorts
  BY DEF BoundInv
<1> QED
  BY <1>1, InitType, TypeStep, InitBound, BoundStep, PTL DEF Spec

-----------------------------------------------------------------------------
(* Every step of RootInv's proof is about how an action can change who holds
   the root volume: only EnsureVolume adds volumes, and the server goes only
   together with them. *)
LEMMA RootInvInit == Init => RootInv
BY DEF Init, RootInv, Deleting

LEMMA RootInvStep == RootInv /\ [Next]_vars => RootInv'
<1> SUFFICES ASSUME RootInv, [Next]_vars PROVE RootInv'
  OBVIOUS
<1> USE DEF RootInv, Deleting
<1>1. CASE BeginCreate
  BY <1>1 DEF BeginCreate, Read, GoTo, EndPass, resources
<1>2. CASE EnsurePort
  BY <1>2 DEF EnsurePort, Read, Request, GoTo, EndPass, Fail, Listed
<1>3. CASE Tag
  BY <1>3 DEF Tag, Read, GoTo, EndPass, Fail, Listed, resources
<1>4. CASE EnsureTrunk
  BY <1>4 DEF EnsureTrunk, Request, GoTo, EndPass, Fail
<1>5. CASE EnsureVolume
  BY <1>5 DEF EnsureVolume, Read, Request, GoTo, EndPass, Fail
<1>6. CASE CreateServer
  BY <1>6 DEF CreateServer, Request, GoTo, EndPass, Fail
<1>7. CASE AwaitActive
  BY <1>7 DEF AwaitActive, Read, EndPass, resources
<1>8. CASE BeginDelete
  BY <1>8 DEF BeginDelete, EndPass, resources, Root
<1>9. CASE DeleteVolume
  BY <1>9 DEF DeleteVolume, Request, GoTo, EndPass, Root
<1>10. CASE ListInterfaces
  BY <1>10 DEF ListInterfaces, AfterInterfaces, EndPass, resources
<1>11. CASE Detach
  BY <1>11 DEF Detach, Request, GoTo, EndPass
<1>12. CASE RemoveTrunk
  BY <1>12 DEF RemoveTrunk, Request, GoTo, EndPass
<1>13. CASE RemovePort
  BY <1>13 DEF RemovePort, Removed, AfterInterfaces, Request, GoTo, EndPass
<1>14. CASE DeleteServer
  BY <1>14 DEF DeleteServer, Request, GoTo, EndPass
<1>15. CASE AwaitDelete
  BY <1>15 DEF AwaitDelete, Read, GoTo, EndPass, resources
<1>16. CASE RemoveFinalizer
  BY <1>16 DEF RemoveFinalizer, Read, EndPass, resources
<1>17. CASE Crash
  BY <1>17 DEF Crash, EndPass, resources
<1>18. CASE UserDelete
  BY <1>18 DEF UserDelete, resources, worker
<1>19. CASE NovaStep
  BY <1>19 DEF NovaStep, NovaAllocate, NovaStart, NovaFail, NovaReap, Unbound,
               DeleteOnTermination, Volumes, Root, worker
<1>20. CASE UNCHANGED vars
  BY <1>20 DEF vars, resources, worker
<1> QED
  BY <1>1, <1>2, <1>3, <1>4, <1>5, <1>6, <1>7, <1>8, <1>9, <1>10, <1>11, <1>12,
     <1>13, <1>14, <1>15, <1>16, <1>17, <1>18, <1>19, <1>20 DEF Next, WorkerStep

(* The inductive invariant holds in every state of the specification. *)
THEOREM RootInvariant == Spec => []RootInv
<1> QED
  BY RootInvInit, RootInvStep, PTL DEF Spec

(* A Machine that is gone has left neither its server nor its root volume,
   however often requests failed, answers were lost or the process died. *)
THEOREM RootVolumeGoneWithMachine == Spec => []RootVolumeGone
<1>1. RootInv => RootVolumeGone
  BY DEF RootInv, RootVolumeGone
<1> QED
  BY <1>1, RootInvariant, PTL

-----------------------------------------------------------------------------
(* The same for all volumes, in a pass that has found a server: there is none left
   once the server is gone.  A pass that has found none only looks for the root
   volume. *)
FoundInv ==
  /\ Deleting /\ seen # "none" /\ server = "none" => volumes = {}
  /\ pc = "deleteVolume" => seen = "none"

LEMMA InitFound == Init => FoundInv
BY DEF Init, FoundInv, Deleting

(* Only a server that goes takes additional volumes, and while a pass deletes it
   nobody makes new ones. *)
LEMMA FoundStep == TypeInv /\ FoundInv /\ [Next]_vars => FoundInv'
<1> SUFFICES ASSUME TypeInv, FoundInv, [Next]_vars PROVE FoundInv'
  OBVIOUS
<1>p. PassOK /\ volumes \subseteq Volumes
  BY DEF TypeInv, TypeOK
<1> USE DEF FoundInv, Deleting
<1>1. CASE BeginCreate
  BY <1>1 DEF BeginCreate, Read, GoTo, EndPass, resources
<1>2. CASE EnsurePort
  BY <1>2 DEF EnsurePort, Read, Request, GoTo, EndPass, Fail, Listed
<1>3. CASE Tag
  BY <1>3 DEF Tag, Read, GoTo, EndPass, Fail, Listed, resources
<1>4. CASE EnsureTrunk
  BY <1>4 DEF EnsureTrunk, Request, GoTo, EndPass, Fail
<1>5. CASE EnsureVolume
  BY <1>5 DEF EnsureVolume, Read, Request, GoTo, EndPass, Fail
<1>6. CASE CreateServer
  BY <1>6 DEF CreateServer, Request, GoTo, EndPass, Fail
<1>7. CASE AwaitActive
  BY <1>7 DEF AwaitActive, Read, EndPass, resources
<1>8. CASE BeginDelete
  BY <1>8 DEF BeginDelete, EndPass, resources
<1>9. CASE DeleteVolume
  BY <1>9 DEF DeleteVolume, Request, GoTo, EndPass
<1>10. CASE ListInterfaces
  BY <1>10 DEF ListInterfaces, AfterInterfaces, EndPass, resources
<1>11. CASE Detach
  BY <1>11, <1>p DEF Detach, Request, GoTo, EndPass, PassOK
<1>12. CASE RemoveTrunk
  BY <1>12 DEF RemoveTrunk, Request, GoTo, EndPass
<1>13. CASE RemovePort
  BY <1>13 DEF RemovePort, Removed, AfterInterfaces, Request, GoTo, EndPass
<1>14. CASE DeleteServer
  BY <1>14 DEF DeleteServer, Request, GoTo, EndPass
<1>15. CASE AwaitDelete
  BY <1>15 DEF AwaitDelete, Read, GoTo, EndPass, resources
<1>16. CASE RemoveFinalizer
  BY <1>16 DEF RemoveFinalizer, Read, EndPass, resources
<1>17. CASE Crash
  BY <1>17 DEF Crash, EndPass, resources
<1>18. CASE UserDelete
  BY <1>18 DEF UserDelete, resources, worker
<1>19. CASE NovaStep
  <2>1. CASE NovaReap
    BY <1>19, <1>p, <2>1 DEF NovaStep, NovaReap, DeleteOnTermination, worker
  <2>2. CASE NovaAllocate \/ NovaStart \/ NovaFail
    BY <1>19, <2>2 DEF NovaStep, NovaAllocate, NovaStart, NovaFail, worker
  <2> QED BY <1>19, <2>1, <2>2 DEF NovaStep
<1>20. CASE UNCHANGED vars
  BY <1>20 DEF vars, resources, worker
<1> QED
  BY <1>1, <1>2, <1>3, <1>4, <1>5, <1>6, <1>7, <1>8, <1>9, <1>10, <1>11, <1>12,
     <1>13, <1>14, <1>15, <1>16, <1>17, <1>18, <1>19, <1>20 DEF Next, WorkerStep

(* Only the last step of a pass lets go of the Machine. *)
LEMMA FoundLast ==
  FoundInv /\ [Next]_vars
    => [machine # "gone" /\ machine' = "gone" /\ seen # "none" => volumes' = {}]_vars
<1> SUFFICES ASSUME FoundInv, [Next]_vars, machine # "gone", machine' = "gone", seen # "none"
             PROVE  volumes' = {}
  OBVIOUS
<1>1. RemoveFinalizer
  BY DEF Next, WorkerStep, BeginCreate, EnsurePort, Tag, EnsureTrunk, EnsureVolume, CreateServer,
     AwaitActive, BeginDelete, DeleteVolume, ListInterfaces, Detach, RemoveTrunk, RemovePort,
     DeleteServer, AwaitDelete, Crash, UserDelete, NovaStep, vars
<1> QED BY <1>1 DEF RemoveFinalizer, Read, resources, FoundInv, Deleting

(* A Machine that is let go after DeleteInstance has found its server leaves no
   volume, additional block devices included, for any number of them and whatever
   failed: the volumes that the finding about DeleteInstance is about are those of
   Machines for which no server was found. *)
THEOREM VolumesAlwaysGoWithServer == Spec => VolumesGoWithServer
<1> QED
  BY InitType, TypeStep, InitFound, FoundStep, FoundLast, PTL DEF Spec, VolumesGoWithServer

-----------------------------------------------------------------------------
NoFaults == \A kind \in Kinds : faults[kind] = 0

OnTrunks(some) == IF Trunk THEN some ELSE {}

(* All ports are there and on the trunks that they were to be on. *)
Complete == trunks = OnTrunks(Ports) /\ \A i \in Ports : ports[i] # "absent"

NonePresent == \A i \in Ports : ports[i] = "absent"

(* How far creation and deletion have come when nothing fails but Nova's
   building: creation makes port after port, with its trunk; a server in service
   has them all; deletion takes them all before the server.  A conflict over a
   trunk stops only the deletion of a server in ERROR, as one that is running has
   let go of the port before. *)
Straight ==
  /\ pc = "ensurePort" =>
       /\ \A i \in Ports : i \in todo <=> ports[i] = "absent"
       /\ trunks = OnTrunks(Ports \ todo)
  /\ pc \in {"tagPort", "ensureTrunk", "tagTrunk"} =>
       \A i \in Ports : i \in todo \ {Min(todo)} <=> ports[i] = "absent"
  /\ pc \in {"tagPort", "ensureTrunk"} => trunks = OnTrunks(Ports \ todo)
  /\ pc \in {"ensureTrunk", "tagTrunk"} => Trunk
  /\ pc = "tagTrunk" => trunks = OnTrunks(Ports \ (todo \ {Min(todo)}))
  /\ pc \in {"ensureVolume", "createServer", "awaitActive"} => Complete
  /\ pc = "awaitActive" => server \in {"BUILD", "SPAWN", "ACTIVE", "ERROR"}
  /\ pc = "idle" => server \in {"none", "ACTIVE", "ERROR"}
  /\ pc \in {"idle", "listInterfaces"} /\ server = "ACTIVE" => Complete
  /\ pc \in {"idle", "awaitActive", "listInterfaces"} /\ server \in {"SPAWN", "ACTIVE"}
       => \A i \in Ports : ports[i] = "bound"
  /\ pc \in {"listInterfaces", "detach", "removeTrunk", "removePort", "deleteServer"}
       => seen = server /\ server \in {"ACTIVE", "ERROR"}
  /\ pc \in {"removeTrunk", "removePort"} => job \in {"attached", "collect"}
  /\ pc \in {"detach", "removeTrunk", "removePort"} /\ job = "attached" /\ seen = "ACTIVE"
       => \A i \in Ports : ports[i] # "absent" => i \in todo
  /\ pc = "removeTrunk" /\ server = "ACTIVE" => job = "attached" /\ ports[Min(todo)] # "bound"
  /\ pc = "removePort" /\ server = "ACTIVE" => job = "attached"
  /\ pc \in {"deleteServer", "awaitDelete"} => NonePresent
  /\ pc = "awaitDelete" => server \in {"DELETING", "none"}
  /\ pc = "deleted" => server = "none"
  /\ server = "none" /\ pc \notin Making => NonePresent /\ volumes = {}

CleanInv == NoFaults => Straight

(* Faults are never uncounted. *)
LEMMA NoFaultsYet ==
  ASSUME TypeOK, NoFaults'
  PROVE  /\ \A kind : ~ Fault(kind)
         /\ NoFault => NoFaults
<1>1. ASSUME NEW kind, Fault(kind) PROVE FALSE
  <2>1. kind \in Kinds
    BY <1>1 DEF Fault
  <2>2. faults[kind] \in Nat /\ faults'[kind] = faults[kind] + 1
    BY <1>1, <2>1 DEF Fault, TypeOK
  <2> QED BY <2>1, <2>2 DEF NoFaults
<1>2. NoFault => NoFaults
  BY DEF NoFault, NoFaults
<1> QED BY <1>1, <1>2

(* Initially nothing is there. *)
LEMMA InitClean == Init => CleanInv
BY DEF Init, CleanInv, Straight, NonePresent, Making

(* As long as nothing has failed, every action goes on straight. *)
LEMMA CleanStep == TypeInv /\ PortsInv /\ CleanInv /\ [Next]_vars => CleanInv'
<1> SUFFICES ASSUME TypeInv, PortsInv, CleanInv, [Next]_vars, NoFaults' PROVE Straight'
  BY DEF CleanInv
<1>f. \A kind : ~ Fault(kind)
  BY NoFaultsYet DEF TypeInv
<1>n. NoFaults
  BY <1>f, NoFaultsYet DEF TypeInv, Next, WorkerStep, BeginCreate, EnsurePort, Tag, EnsureTrunk,
     EnsureVolume, CreateServer, AwaitActive, BeginDelete, DeleteVolume, ListInterfaces, Detach,
     RemoveTrunk, RemovePort, DeleteServer, AwaitDelete, RemoveFinalizer, Crash, UserDelete,
     NovaStep, Read, Request, NoFault, vars
<1>h. /\ pc \in PortLoop => Min(todo) \in todo /\ Min(todo) \in Ports
      /\ ports \in [Ports -> {"absent", "free", "bound"}] /\ volumes \subseteq Volumes
      /\ trunks \subseteq Ports
      /\ server \in {"none", "BUILD", "SPAWN", "ACTIVE", "ERROR", "DELETING"}
  BY AtHand DEF TypeInv, TypeOK
<1>p. PassOK /\ Straight /\ PortsInv
  BY <1>n DEF TypeInv, CleanInv
<1> USE <1>f, <1>h, <1>p, Numbers
    DEF Straight, PassOK, PortLoop, Making, Complete, NonePresent
<1>1. CASE BeginCreate
  <2>1. NonePresent /\ trunks = {} /\ server = "none"
    BY <1>1 DEF BeginCreate, PortsInv, TrunksHaveParents
  <2> QED BY <1>1, <2>1 DEF BeginCreate, Read, GoTo, resources, OnTrunks
<1>2. CASE EnsurePort
  <2>1. /\ pc = "ensurePort" /\ Min(todo) \in todo /\ ports[Min(todo)] = "absent"
        /\ ports' = [ports EXCEPT ![Min(todo)] = "free"]
        /\ pc' = "tagPort" /\ UNCHANGED <<todo, server, trunks, volumes>>
    BY <1>2 DEF EnsurePort, Read, Request, GoTo
  <2> QED BY <2>1
<1>3. CASE Tag
  <2>1. CASE pc' = "ensureTrunk"
    BY <1>3, <2>1 DEF Tag, Read, GoTo, Listed, resources
  <2>2. CASE Listed(Min(todo))
    <3>1. trunks = OnTrunks(Ports \ (todo \ {Min(todo)}))
      BY <1>3, <2>2 DEF Tag, Read, GoTo, Listed, OnTrunks
    <3>2. /\ server = "none" /\ UNCHANGED <<server, ports, trunks, volumes>>
          /\ \A i \in Ports : i \in todo \ {Min(todo)} <=> ports[i] = "absent"
      BY <1>3 DEF Tag, resources
    <3> QED BY <2>2, <3>1, <3>2 DEF Listed
  <2> QED BY <1>3, <2>1, <2>2 DEF Tag, Read, GoTo
<1>4. CASE EnsureTrunk
  <2>1. /\ pc = "ensureTrunk" /\ Trunk /\ Min(todo) \in todo
        /\ trunks' = trunks \cup {Min(todo)}
        /\ pc' = "tagTrunk" /\ UNCHANGED <<todo, server, ports, volumes>>
    BY <1>4 DEF EnsureTrunk, Request, GoTo
  <2> QED BY <2>1 DEF OnTrunks
<1>5. CASE EnsureVolume
  BY <1>5 DEF EnsureVolume, Read, Request, GoTo, EndPass, Fail
<1>6. CASE CreateServer
  BY <1>6 DEF CreateServer, Request, GoTo, EndPass, Fail
<1>7. CASE AwaitActive
  BY <1>7 DEF AwaitActive, Read, EndPass, resources
<1>8. CASE BeginDelete
  BY <1>8 DEF BeginDelete, EndPass, resources
<1>9. CASE DeleteVolume
  BY <1>9 DEF DeleteVolume, Request, GoTo, EndPass
<1>10. CASE ListInterfaces
  BY <1>10 DEF ListInterfaces, AfterInterfaces, EndPass, resources
<1>11. CASE Detach
  BY <1>11 DEF Detach, Request, GoTo, EndPass
<1>12. CASE RemoveTrunk
  BY <1>12 DEF RemoveTrunk, Request, GoTo, EndPass
<1>13. CASE RemovePort
  <2>1. /\ pc = "removePort" /\ Removed(Min(todo)) /\ job \in {"attached", "collect"}
        /\ ports' = [ports EXCEPT ![Min(todo)] = "absent"] /\ UNCHANGED <<server, volumes>>
        /\ server \in {"ACTIVE", "ERROR"} /\ seen = server
    BY <1>13 DEF RemovePort, Request
  <2>2. CASE todo # {Min(todo)}
    BY <2>1, <2>2 DEF Removed, GoTo
  <2>3. CASE todo = {Min(todo)} /\ job = "collect"
    BY <2>1, <2>3 DEF Removed, PortsInv
  <2>4. CASE todo = {Min(todo)} /\ job = "attached"
    BY <2>1, <2>4 DEF Removed, AfterInterfaces
  <2> QED BY <2>1, <2>2, <2>3, <2>4
<1>14. CASE DeleteServer
  BY <1>14 DEF DeleteServer, Request, GoTo, EndPass
<1>15. CASE AwaitDelete
  BY <1>15 DEF AwaitDelete, Read, GoTo, EndPass, resources
<1>16. CASE RemoveFinalizer
  BY <1>16 DEF RemoveFinalizer, Read, EndPass, resources
<1>17. CASE Crash
  BY <1>17 DEF Crash, EndPass, resources
<1>18. CASE UserDelete
  BY <1>18 DEF UserDelete, resources, worker
<1>19. CASE NovaStep
  <2>1. CASE NovaAllocate
    BY <1>19, <2>1 DEF NovaStep, NovaAllocate, worker
  <2>2. CASE NovaStart
    BY <1>19, <2>2 DEF NovaStep, NovaStart, worker
  <2>3. CASE NovaFail
    BY <1>19, <2>3 DEF NovaStep, NovaFail, Unbound, worker
  <2>4. CASE NovaReap
    <3>1. pc = "awaitDelete" /\ NonePresent
      BY <2>4 DEF NovaReap, TypeInv, TypeOK
    <3>2. NonePresent' /\ volumes' = {} /\ server' = "none" /\ UNCHANGED worker
      BY <1>19, <2>4, <3>1 DEF NovaStep, NovaReap, Unbound, DeleteOnTermination
    <3> QED BY <3>1, <3>2 DEF worker
  <2> QED BY <1>19, <2>1, <2>2, <2>3, <2>4 DEF NovaStep
<1>20. CASE UNCHANGED vars
  BY <1>20 DEF vars, resources, worker
<1> QED
  BY <1>1, <1>2, <1>3, <1>4, <1>5, <1>6, <1>7, <1>8, <1>9, <1>10, <1>11, <1>12,
     <1>13, <1>14, <1>15, <1>16, <1>17, <1>18, <1>19, <1>20 DEF Next, WorkerStep

(* When nothing fails but Nova's building, servers are on their trunks and nothing
   is left of a Machine. *)
THEOREM CleanWhenNothingFails == Spec => []CleanWithoutFaults
<1>1. TypeInv /\ RootInv /\ CleanInv => CleanWithoutFaults
  BY DEF TypeInv, TypeOK, PassOK, RootInv, CleanInv, CleanWithoutFaults, NoFaults, Straight, Complete,
         NonePresent, OnTrunks, Making, Deleting
<1> QED
  BY <1>1, InitType, TypeStep, InitPorts, PortsStep, RootInvInit, RootInvStep, InitClean,
     CleanStep, PTL DEF Spec

-----------------------------------------------------------------------------
(* Initially there is a Machine and nothing else. *)
LEMMA RefinementInit == Init => I!Init
BY DEF Init, I!Init

(* Every step on ports, trunks and volumes is a step of the instance or leaves
   it as it is. *)
LEMMA RefinementStep == TypeInv /\ RootInv /\ [Next]_vars => [I!Next]_(I!vars)
<1> SUFFICES ASSUME TypeInv, RootInv, [Next]_vars PROVE [I!Next]_(I!vars)
  OBVIOUS
<1>p. PassOK /\ volumes \subseteq Volumes
  BY DEF TypeInv, TypeOK
<1> USE Numbers DEF I!vars, I!Next
<1>1. CASE UNCHANGED <<machine, server, volumes>>
  BY <1>1
<1>2. CASE EnsureVolume
  BY <1>2, <1>p DEF EnsureVolume, Read, Request, PassOK, Making, I!MakeVolume
<1>3. CASE CreateServer
  BY <1>3, <1>p DEF CreateServer, Request, PassOK, Making, I!Request
<1>4. CASE DeleteVolume
  BY <1>4, <1>p DEF DeleteVolume, Request, PassOK, I!RemoveVolume
<1>5. CASE DeleteServer
  BY <1>5, <1>p DEF DeleteServer, Request, PassOK, Deleting, I!Remove
<1>6. CASE RemoveFinalizer
  BY <1>6, <1>p DEF RemoveFinalizer, Read, resources, PassOK, RootInv, Deleting, I!Release
<1>7. CASE UserDelete
  BY <1>7 DEF UserDelete, resources, I!Delete
<1>8. CASE NovaStep
  <2>1. CASE NovaAllocate
    BY <1>8, <2>1 DEF NovaStep, NovaAllocate
  <2>2. CASE NovaStart \/ NovaFail
    BY <1>8, <2>2 DEF NovaStep, NovaStart, NovaFail, I!Build
  <2>3. CASE NovaReap
    BY <1>8, <2>3, <1>p DEF NovaStep, NovaReap, DeleteOnTermination, I!End
  <2> QED BY <1>8, <2>1, <2>2, <2>3 DEF NovaStep
<1> QED
  BY <1>1, <1>2, <1>3, <1>4, <1>5, <1>6, <1>7, <1>8
     DEF Next, WorkerStep, BeginCreate, EnsurePort, Tag, EnsureTrunk, AwaitActive, BeginDelete,
         ListInterfaces, Detach, RemoveTrunk, RemovePort, AwaitDelete, Crash, resources, vars

(* The safety part of ImplementsInstance: whatever is interrupted, the server and
   its root volume behave as module Instance says. *)
THEOREM RefinesInstance == Spec => I!Safety
<1> QED
  BY RefinementInit, RefinementStep, InitType, TypeStep, RootInvInit, RootInvStep, PTL
     DEF Spec, I!Safety
=============================================================================
