----------------------------- MODULE Conversion -----------------------------
(***************************************************************************)
(* createCAPOPorts of pkg/machine/convert.go: the ports of an InstanceSpec *)
(* from the networks and ports of a provider spec.  Fields that are copied *)
(* one to one are left out; what is kept is which subnets a port is on and *)
(* its tags.  Tags are Go slices: views of an array, into which append     *)
(* writes when it has room, so two slices may share what they hold.        *)
(*                                                                         *)
(* One step is one iteration of a loop.                                    *)
(***************************************************************************)
EXTENDS Integers, Sequences, SequencesExt, FiniteSetsExt

CONSTANTS TagCounts,    \* how many portTags a network may have
          Names,        \* tags of subnets and ports
          MaxTags,      \* bound: tags of a subnet or port
          MaxSubnets,   \* bound: subnets of a network
          MaxNetworks,  \* bound: networks of the provider spec
          MaxPorts      \* bound: ports of the provider spec

ASSUME ConversionAssumption ==
  TagCounts \subseteq Nat /\ {MaxTags, MaxSubnets, MaxNetworks, MaxPorts} \subseteq Nat

TagLists == BoundedSeq(Names, MaxTags)

(* A NetworkParam: is it given by UUID or filter, or by its subnets alone? *)
Networks == [given : BOOLEAN, count : TagCounts, subnets : BoundedSeq(TagLists, MaxSubnets)]

VARIABLES ps,           \* the provider spec: its networks, and the tags of its ports
          heap,         \* the arrays that slices point into
          capoPorts,    \* the result: the subnets and the tags of every port
          n, i,         \* how far the loops over the spec and over the subnets are
          tags          \* the local of networkParamToCapov1PortOpts

vars == <<ps, heap, capoPorts, n, i, tags>>

(***************************************************************************)
(* Go slices.                                                              *)
(***************************************************************************)
Slice(array, len) == [array |-> array, len |-> len]
Contents(s) == SubSeq(heap[s.array], 1, s.len)
HasRoom(s, more) == s.len + Len(more) <= Len(heap[s.array])

WithSpare(list, cap) == list \o [k \in 1 .. cap - Len(list) |-> "spare"]

(* append(s, more...): the slice it returns and the heap it leaves.  A new
   array is at least twice as long as the old one. *)
AppendTo(s, more) ==
  Slice(IF HasRoom(s, more) THEN s.array ELSE Len(heap) + 1, s.len + Len(more))

AppendHeap(s, more) ==
  LET old == heap[s.array]
  IN IF HasRoom(s, more)
     THEN [heap EXCEPT ![s.array] =
             [k \in 1 .. Len(old) |-> IF k - s.len \in 1 .. Len(more) THEN more[k - s.len] ELSE @[k]]]
     ELSE Append(heap, WithSpare(Contents(s) \o more, Max({s.len + Len(more), 2 * Len(old)})))

(* The decoder of the provider spec appends element by element and doubles an
   array that is full: arrays have 1, 2, 4, 8... elements. *)
Capacity[len \in Nat] ==
  IF len = 0 THEN 0
  ELSE LET cap == Capacity[len - 1]
       IN IF len <= cap THEN cap ELSE IF cap = 0 THEN 1 ELSE 2 * cap

Decoded(list) == WithSpare(list, Capacity[Len(list)])

NetTags(net) == [k \in 1 .. net.count |-> "net"]

(***************************************************************************)
(* The conversion.                                                         *)
(***************************************************************************)
NNetworks == Len(ps.networks)

(* MachineSpecFromProviderSpec has unmarshalled the spec. *)
Init ==
  /\ ps \in [networks : BoundedSeq(Networks, MaxNetworks), ports : BoundedSeq(TagLists, MaxPorts)]
  /\ heap = [k \in 1 .. NNetworks |-> Decoded(NetTags(ps.networks[k]))]
            \o [k \in DOMAIN ps.ports |-> Decoded(ps.ports[k])]
  /\ capoPorts = <<>> /\ n = 1 /\ i = 0
  /\ tags = IF NNetworks = 0 THEN Slice(1, 0) ELSE Slice(1, ps.networks[1].count)

(* Mutant: tags of a subnet stay for the subnets after it. *)
SubnetPort_KeepsTags(net) ==
  LET more == net.subnets[i + 1] IN
  /\ heap' = AppendHeap(tags, more)
  /\ capoPorts' = Append(capoPorts, [subnets |-> <<i + 1>>, tags |-> AppendTo(tags, more)])
  /\ tags' = AppendTo(tags, more)

(* The network is known only by its subnets: a port for each. *)
SubnetPort(net) ==
  LET more == net.subnets[i + 1] IN
  /\ heap' = AppendHeap(tags, more)
  /\ capoPorts' = Append(capoPorts, [subnets |-> <<i + 1>>, tags |-> AppendTo(tags, more)])
  /\ UNCHANGED tags

(* The network is given: its one port gets the tags of all subnets. *)
SubnetOfPort(net) ==
  LET more == net.subnets[i + 1] IN
  /\ heap' = AppendHeap(tags, more)
  /\ tags' = AppendTo(tags, more)
  /\ UNCHANGED capoPorts

NextSubnet ==
  /\ n <= NNetworks
  /\ LET net == ps.networks[n] IN
     /\ i < Len(net.subnets)
     /\ IF net.given THEN SubnetOfPort(net) ELSE SubnetPort(net)
  /\ i' = i + 1
  /\ UNCHANGED <<ps, n>>

(* Mutant: a network without subnets gets no port. *)
NetworkPort_NeedsSubnets(net) ==
  IF net.given /\ net.subnets # <<>>
  THEN capoPorts' = Append(capoPorts, [subnets |-> [k \in 1 .. i |-> k], tags |-> tags])
  ELSE UNCHANGED capoPorts

(* After the last subnet, the port of a network that is given is added. *)
NetworkPort(net) ==
  IF net.given
  THEN capoPorts' = Append(capoPorts, [subnets |-> [k \in 1 .. i |-> k], tags |-> tags])
  ELSE UNCHANGED capoPorts

(* createCAPOPorts goes on to the next network. *)
NextNetwork ==
  /\ n <= NNetworks
  /\ i = Len(ps.networks[n].subnets)
  /\ NetworkPort(ps.networks[n])
  /\ n' = n + 1 /\ i' = 0
  /\ tags' = IF n' <= NNetworks THEN Slice(n', ps.networks[n'].count) ELSE tags
  /\ UNCHANGED <<ps, heap>>

(* portOptsToCapov1PortOpts: a port of the spec keeps its slice of tags. *)
NextPort ==
  /\ n > NNetworks /\ n - NNetworks <= Len(ps.ports)
  /\ capoPorts' = Append(capoPorts, [subnets |-> <<>>, tags |-> Slice(n, Len(ps.ports[n - NNetworks]))])
  /\ n' = n + 1
  /\ UNCHANGED <<ps, heap, i, tags>>

Next == NextSubnet \/ NextNetwork \/ NextPort

Spec == Init /\ [][Next]_vars

Done == n > NNetworks + Len(ps.ports)

(***************************************************************************)
(* Properties: the loops against a definition without loops or slices.     *)
(***************************************************************************)
(* The ports that the documentation of NetworkParam and SubnetParam asks for: of
   a network, and of the whole spec. *)
PortsOf(net) ==
  IF net.given
  THEN <<[subnets |-> [k \in DOMAIN net.subnets |-> k],
          tags |-> NetTags(net) \o FlattenSeq(net.subnets)]>>
  ELSE [k \in DOMAIN net.subnets |-> [subnets |-> <<k>>, tags |-> NetTags(net) \o net.subnets[k]]]

Reference ==
  FlattenSeq([k \in 1 .. NNetworks |-> PortsOf(ps.networks[k])])
  \o [k \in DOMAIN ps.ports |-> [subnets |-> <<>>, tags |-> ps.ports[k]]]

(* createCAPOPorts returns the ports in the order of the spec, each on its
   subnets: the first one is the one the kubelet uses. *)
SubnetsAsSpecified ==
  Done => /\ Len(capoPorts) = Len(Reference)
          /\ \A k \in DOMAIN capoPorts : capoPorts[k].subnets = Reference[k].subnets

(* Every port has the tags of its network and of its own subnets, although
   append may have written them into an array that other ports use. *)
TagsAsSpecified ==
  Done => \A k \in DOMAIN capoPorts : Contents(capoPorts[k].tags) = Reference[k].tags

(* The tags of subnet k fit into what the decoder has left of the network's own
   array, and that is where append puts them. *)
InPlace(net, k) == Len(net.subnets[k]) \in 1 .. Capacity[net.count] - net.count

(* No two subnets of the network are put into the same place. *)
Unshared(net) ==
  net.given \/ \A j, k \in DOMAIN net.subnets : InPlace(net, j) /\ InPlace(net, k) => j = k

(* That is all that can go wrong with tags: without such a pair of subnets every
   port has its own, whatever appends to other networks and to arrays that had to
   be moved have written. *)
TagsUnlessShared == (\A k \in 1 .. NNetworks : Unshared(ps.networks[k])) => TagsAsSpecified
=============================================================================
